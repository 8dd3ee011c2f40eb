----------------------------- MODULE DelaysBench -----------------------------
(***************************************************************************)
(* The message delay benchmark.  One program registers two clients, sends  *)
(* from one to the other, and measures how long each message is on its     *)
(* way.  A TestAction runs series after series: a TimedSender sends one    *)
(* message at a time and waits for Sync, which the program itself calls    *)
(* when the TimedReceiver on the other side got the message; when both     *)
(* have given their tables of times, a BarrierEvent lets the results be    *)
(* computed and the next series begin.                                     *)
(*                                                                         *)
(* A message may be lost; one that is not lost arrives, in order, well     *)
(* within the timeouts of half a minute.                                   *)
(***************************************************************************)
EXTENDS Naturals, Sequences, FiniteSets, StateMachine

CONSTANTS
  DyCount,    \* messages of a series (100 and 300 in the program)
  MaxDyLost,  \* bound: messages lost
  MaxDySize   \* bound: sizes of the tables the percentiles are taken of

ASSUME DyAssumption == /\ DyCount \in Nat \ {0, 1}
                       /\ MaxDyLost \in Nat /\ MaxDySize \in Nat

VARIABLES
  dy_test,     \* TestAction::state_
  dy_snd,      \* Sender::sender_action_, the TimedSender
  dy_rcv,      \* Receiver::receiver_action_, the TimedReceiver
  dy_net,      \* messages under way
  dy_barrier,  \* res_event_: the tables emitted so far
  dy_tables,   \* result_table_: the pairs of tables the results are made of
  dy_ahead,    \* the sender had its Update in the pass the receiver waits for
  dy_overrun,  \* history: a Sync came after the last message was sent
  dy_lost      \* messages lost so far

dyVars == <<dy_test, dy_snd, dy_rcv, dy_net, dy_barrier, dy_tables, dy_ahead,
            dy_overrun, dy_lost>>

(* The series in the order of the test. *)
DyOrder == <<"kWarmUp", "kTest2Bytes", "kTest10Bytes", "kTest100Bytes",
             "kTest1000Bytes", "kTest1500Bytes", "kDone">>
DySeries == {DyOrder[i] : i \in 1..6}
DyStates == DySeries \cup {"kDone", "kError"}
NextState(s) == DyOrder[1 + (CHOOSE i \in 1..6 : DyOrder[i] = s)]

DyGone == [on |-> FALSE]
NoTables == [i \in {0, 1} |-> [set |-> FALSE, ids |-> {}]]

DyOver == dy_test.state \in {"kDone", "kError"} /\ ~dy_test.changed

DyInit ==
  /\ dy_test = Marked("kWarmUp")
  /\ dy_snd = DyGone /\ dy_rcv = DyGone
  /\ dy_net = <<>>
  /\ dy_barrier = NoTables
  /\ dy_tables = <<>>
  /\ dy_ahead = FALSE /\ dy_overrun = FALSE /\ dy_lost = 0

-----------------------------------------------------------------------------
(* TestAction.                                                             *)

(* CreateBenchAction of the sender and of the receiver: a new action takes *)
(* the place of the one before.                                            *)
NewTimedSender(kind) ==
  [on |-> TRUE, kind |-> kind, m |-> Marked("kSend"), id |-> 0, ids |-> {}]
NewTimedReceiver(kind) ==
  [on |-> TRUE, kind |-> kind, m |-> Marked("kWaiting"), ids |-> {}]

(* Update: a series creates its two actions and its barrier, kDone and     *)
(* kError end the program.                                                 *)
DyTestUpdate ==
  /\ dy_test.changed
  /\ dy_test' = Acquire(dy_test)
  /\ IF dy_test.state \in DySeries
     THEN /\ dy_snd' = NewTimedSender(dy_test.state)
          /\ dy_rcv' = NewTimedReceiver(dy_test.state)
          /\ dy_barrier' = NoTables
     ELSE UNCHANGED <<dy_snd, dy_rcv, dy_barrier>>
  /\ UNCHANGED <<dy_net, dy_tables, dy_ahead, dy_overrun, dy_lost>>

(* BarrierEvent::IsFull. *)
IsFull(b) == \A i \in {0, 1} : b[i].set

(* BarrierEvent::Emit of one table, and the subscription of TestAction:    *)
(* the results are computed, the warm-up's are not, and the test goes on.  *)
DyEmit(i, kind, ids) ==
  /\ dy_barrier' = [dy_barrier EXCEPT ![i] = [set |-> TRUE, ids |-> ids]]
  /\ IF IsFull(dy_barrier')
     THEN /\ dy_tables' = IF kind = "kWarmUp" THEN dy_tables
                          ELSE Append(dy_tables, [i2 \in {0, 1} |-> dy_barrier'[i2].ids])
          /\ dy_test' = Set(dy_test, NextState(kind))
     ELSE UNCHANGED <<dy_tables, dy_test>>

-----------------------------------------------------------------------------
(* TimedSender.                                                            *)

(* Send: the last message finishes the action, another waits for Sync. *)
DySend ==
  LET id == dy_snd.id IN
  /\ dy_net' = Append(dy_net, [kind |-> dy_snd.kind, id |-> id])
  /\ dy_snd' = [dy_snd EXCEPT
       !.ids = @ \cup {id}, !.id = id + 1,
       !.m = Marked(IF id + 1 = DyCount THEN "kFinished" ELSE "kWaitSync")]
  /\ UNCHANGED <<dy_test, dy_barrier, dy_tables>>

(* The loop updates every action in turn: the sender is not updated twice  *)
(* while the receiver has something to look at.                            *)
ReceiverWaits == dy_rcv.on /\ dy_rcv.m.changed

(* Update, without the timeouts. *)
DySenderUpdate ==
  /\ dy_snd.on /\ ~DyOver /\ dy_snd.m.changed
  /\ ~(dy_ahead /\ ReceiverWaits)
  /\ dy_ahead' = ReceiverWaits
  /\ \/ dy_snd.m.state = "kSend" /\ DySend
     \/ /\ dy_snd.m.state \in {"kWaitSync", "kWaitInterval"}
        /\ dy_snd' = [dy_snd EXCEPT !.m = Acquire(@)]
        /\ UNCHANGED <<dy_net, dy_test, dy_barrier, dy_tables>>
     \/ /\ dy_snd.m.state = "kFinished"
        /\ dy_snd' = DyGone
        /\ DyEmit(0, dy_snd.kind, dy_snd.ids)
        /\ UNCHANGED dy_net
     \/ /\ dy_snd.m.state = "kError"
        /\ dy_snd' = DyGone
        /\ dy_test' = Set(dy_test, "kError")
        /\ UNCHANGED <<dy_net, dy_barrier, dy_tables>>
  /\ UNCHANGED <<dy_rcv, dy_overrun, dy_lost>>

(* CheckSyncTimeout: no Sync came for the message sent last, and none will *)
(* come: nothing is under way.                                             *)
DyCheckSyncTimeout ==
  /\ dy_snd.on /\ ~DyOver /\ dy_snd.m.state = "kWaitSync" /\ dy_net = <<>>
  /\ dy_snd' = [dy_snd EXCEPT !.m = Marked("kError")]
  /\ UNCHANGED <<dy_test, dy_rcv, dy_net, dy_barrier, dy_tables, dy_ahead,
                 dy_overrun, dy_lost>>

(* CheckIntervalTimeout: min_send_interval_ after the last message. *)
DyCheckIntervalTimeout ==
  /\ dy_snd.on /\ ~DyOver /\ dy_snd.m = Unmarked("kWaitInterval")
  /\ dy_snd' = [dy_snd EXCEPT !.m = Marked("kSend")]
  /\ UNCHANGED <<dy_test, dy_rcv, dy_net, dy_barrier, dy_tables, dy_ahead,
                 dy_overrun, dy_lost>>

(* Sync: send the next one, now or when the interval is over.  It does not *)
(* look at the state it changes.                                           *)
DySync ==
  IF dy_snd.on
  THEN /\ \E to \in {"kWaitInterval", "kSend"} :
            dy_snd' = [dy_snd EXCEPT !.m = Set(@, to)]
       /\ dy_overrun' = (dy_overrun \/ dy_snd.m.state = "kFinished")
  ELSE UNCHANGED <<dy_snd, dy_overrun>>

-----------------------------------------------------------------------------
(* TimedReceiver.                                                          *)

(* OnMessage: a message twice is an error; otherwise the sender is told,   *)
(* and the last message completes the table.                               *)
OnMessage(msg) ==
  LET ids == dy_rcv.ids \cup {msg.id} IN
  IF msg.id \in dy_rcv.ids
  THEN /\ dy_rcv' = [dy_rcv EXCEPT !.m = Set(@, "kError")]
       /\ UNCHANGED <<dy_snd, dy_overrun>>
  ELSE /\ dy_rcv' = [dy_rcv EXCEPT
            !.ids = ids,
            !.m = IF Cardinality(ids) = DyCount THEN Set(@, "kReceived") ELSE @]
       /\ DySync

(* A message arrives; one of a series that is not listened to is dropped. *)
DyReceive ==
  LET msg == Head(dy_net) IN
  /\ dy_net # <<>> /\ ~DyOver
  /\ dy_net' = Tail(dy_net)
  /\ IF dy_rcv.on /\ dy_rcv.kind = msg.kind
     THEN OnMessage(msg)
     ELSE UNCHANGED <<dy_rcv, dy_snd, dy_overrun>>
  /\ dy_ahead' = (dy_ahead /\ ReceiverWaits)
  /\ UNCHANGED <<dy_test, dy_barrier, dy_tables, dy_lost>>

DyLose ==
  /\ dy_net # <<>> /\ dy_lost < MaxDyLost
  /\ dy_net' = Tail(dy_net)
  /\ dy_lost' = dy_lost + 1
  /\ UNCHANGED <<dy_test, dy_snd, dy_rcv, dy_barrier, dy_tables, dy_ahead, dy_overrun>>

(* Update, without the timeout. *)
DyReceiverUpdate ==
  /\ dy_rcv.on /\ ~DyOver /\ dy_rcv.m.changed
  /\ \/ /\ dy_rcv.m.state = "kWaiting"
        /\ dy_rcv' = [dy_rcv EXCEPT !.m = Acquire(@)]
        /\ UNCHANGED <<dy_test, dy_barrier, dy_tables>>
     \/ /\ dy_rcv.m.state = "kReceived"
        /\ dy_rcv' = DyGone
        /\ DyEmit(1, dy_rcv.kind, dy_rcv.ids)
     \/ /\ dy_rcv.m.state \in {"kTimeOut", "kError"}
        /\ dy_rcv' = DyGone
        /\ dy_test' = Set(dy_test, "kError")
        /\ UNCHANGED <<dy_barrier, dy_tables>>
  /\ dy_ahead' = FALSE
  /\ UNCHANGED <<dy_snd, dy_net, dy_overrun, dy_lost>>

(* CheckTimeout: no message came for kWaitTimeout.  The sender has nothing *)
(* under way and nothing to send before that.                              *)
DyCheckTimeout ==
  /\ dy_rcv.on /\ ~DyOver /\ dy_rcv.m = Unmarked("kWaiting") /\ dy_net = <<>>
  /\ dy_snd.on => dy_snd.m.state \in {"kWaitSync", "kFinished", "kError"}
  /\ dy_rcv' = [dy_rcv EXCEPT !.m = Marked("kTimeOut")]
  /\ UNCHANGED <<dy_test, dy_snd, dy_net, dy_barrier, dy_tables, dy_ahead,
                 dy_overrun, dy_lost>>

DyStep ==
  \/ DyTestUpdate
  \/ DySenderUpdate \/ DyCheckSyncTimeout \/ DyCheckIntervalTimeout
  \/ DyReceive \/ DyReceiverUpdate \/ DyCheckTimeout

DyNext == DyStep \/ DyLose

(* The program's loop runs, time passes and messages arrive. *)
DySpec == DyInit /\ [][DyNext]_dyVars /\ WF_dyVars(DyStep)

-----------------------------------------------------------------------------
(* DurationStatistics.                                                     *)

(* Rounding half away from zero, of a ratio to 100. *)
Rounded(hundredths) == (hundredths + 50) \div 100
RoundedUp(hundredths) == (hundredths + 99) \div 100

(* GetPercentileIndex: an index into a sorted table counted from 0,        *)
(* computed as if it were counted from 1.                                  *)
GetPercentileIndex(size, percentile) ==
  Rounded(100 + (size - 1) * percentile)

-----------------------------------------------------------------------------
(* The machines are in states of their classes, and the tables of a series *)
(* hold the messages it has numbered.                                      *)
DyTypeOK ==
  /\ dy_test \in Machines(DyStates)
  /\ dy_snd.on =>
       /\ dy_snd.m \in Machines({"kSend", "kWaitSync", "kWaitInterval",
                                 "kFinished", "kError"})
       /\ dy_snd.ids = 0..(dy_snd.id - 1)
  /\ dy_rcv.on =>
       /\ dy_rcv.m \in Machines({"kWaiting", "kReceived", "kTimeOut", "kError"})
       /\ dy_rcv.ids \subseteq 0..DyCount

(* The two tables a result is computed from hold the same messages: the    *)
(* assert of SubscribeToTest on their sizes, and TestResult's at(id), which *)
(* throws when a message sent has no time of arrival.                      *)
TablesAgree ==
  \A i \in DOMAIN dy_tables : dy_tables[i][0] = dy_tables[i][1]

(* A test fails only for a lost message, or when the last message of a     *)
(* series is received before the sender's Update has seen that it is done: *)
(* Sync then sends the sender on, past its last message.                   *)
FailsForAReason ==
  dy_test.state = "kError" => (dy_lost > 0 \/ dy_overrun)

(* The program ends, with its results or with an error, whatever is lost. *)
DelaysEnd == []<>DyOver

(* The percentiles index into the table they are taken of, from the size   *)
(* at which the rounding leaves room (52 values); the program takes 300.   *)
PercentileInTable ==
  \A size \in 52..MaxDySize : \A p \in {50, 99} : GetPercentileIndex(size, p) < size
=============================================================================
