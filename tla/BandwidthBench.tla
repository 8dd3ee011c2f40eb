--------------------------- MODULE BandwidthBench ---------------------------
(***************************************************************************)
(* The bandwidth benchmark: two programs, a sender and a receiver, that    *)
(* run the same TestAction over a Sender and a Receiver agent.  They shake *)
(* hands, warm up, and then, before each series of test messages, meet in  *)
(* a Sync exchange: the sender repeats its request, the receiver answers   *)
(* the first one it hears and listens no more.                             *)
(*                                                                         *)
(* Nothing below the agents repairs a loss: the stream is a P2pStream, and *)
(* a packet that the cloud drops is gone.  Order is kept.  Every timeout   *)
(* may elapse at any moment of the wait it ends.                           *)
(***************************************************************************)
EXTENDS Naturals, Sequences, StateMachine

CONSTANTS
  BbCount,        \* messages of a series (1000 and 3000 in the programs)
  kRepeatCount,   \* Sync requests before the sender gives up (20)
  MaxBbLost       \* bound: packets and answers lost, writes failed

ASSUME BbAssumption == /\ BbCount \in Nat \ {0}
                       /\ kRepeatCount \in Nat \ {0}
                       /\ MaxBbLost \in Nat

VARIABLES
  bb_test,     \* TestAction::state_ of each program
  bb_sync,     \* the agents' sync_action_
  bb_series,   \* the agents' MessageSender and MessageReceiver
  bb_hears,    \* the receiver's handshake_received_ subscription is alive
  bb_out,      \* packets written by the sender, not yet taken by the transport
  bb_net,      \* packets under way to the receiver
  bb_back,     \* answers under way to the sender
  bb_calls,    \* the requests whose result callbacks the sender has registered
  bb_results,  \* result_table_ of each program: the counts pushed
  bb_syncs,    \* history: sync actions the sender has created
  bb_stale,    \* history: an answer has met the callback of a sync long gone
  bb_lost      \* packets, answers and writes lost so far

bbVars == <<bb_test, bb_sync, bb_series, bb_hears, bb_out, bb_net, bb_back,
            bb_calls, bb_results, bb_syncs, bb_stale, bb_lost>>

Agents == {"sender", "receiver"}

(* The states of TestAction in the order in which a test goes through      *)
(* them; the two of the variable size are switched off in the code.        *)
BbOrder == <<"kConnect", "kHandshake", "kWarmup",
             "kSyncOneByte", "kOneByte", "kSyncTenBytes", "kTenBytes",
             "kSyncHundredBytes", "kHundredBytes",
             "kSyncThousandBytes", "kThousandBytes", "kDone">>
BbSyncs == {"kSyncOneByte", "kSyncTenBytes", "kSyncHundredBytes",
            "kSyncThousandBytes"}
BbSeries == {"kWarmup", "kOneByte", "kTenBytes", "kHundredBytes",
             "kThousandBytes"}
BbStates == {BbOrder[i] : i \in DOMAIN BbOrder} \cup {"kError"}

StageOf(s) == CHOOSE i \in DOMAIN BbOrder : BbOrder[i] = s
Following(s) == BbOrder[StageOf(s) + 1]

(* A program whose TestAction gave its result leaves its loop. *)
Over(a) == /\ bb_test[a].state \in {"kDone", "kError"}
           /\ ~bb_test[a].changed
Running(a) == ~Over(a)

NoAction == [on |-> FALSE]

(* A request is named by the sync action that made it, 0 for the           *)
(* handshake, and its number there; a packet carries a request or belongs  *)
(* to a series.                                                            *)
BbRequest(sync, n) == [sync |-> sync, n |-> n]
BbPacket(kind, req) == [kind |-> kind, req |-> req]
NoRequest == BbRequest(0, 0)

BbInit ==
  /\ bb_test = [a \in Agents |-> Marked("kConnect")]
  /\ bb_sync = [a \in Agents |-> NoAction]
  /\ bb_series = [a \in Agents |-> NoAction]
  /\ bb_hears = FALSE
  /\ bb_out = <<>> /\ bb_net = <<>> /\ bb_back = <<>>
  /\ bb_calls = {}
  /\ bb_results = [a \in Agents |-> <<>>]
  /\ bb_syncs = 0 /\ bb_stale = FALSE /\ bb_lost = 0

-----------------------------------------------------------------------------
(* What the agents do for TestAction.                                      *)

(* Handshake: the sender registers a callback and writes one request, the  *)
(* receiver listens for one.                                               *)
SenderHandshake ==
  /\ bb_calls' = bb_calls \cup {BbRequest(0, 1)}
  /\ bb_out' = Append(bb_out, BbPacket("Handshake", BbRequest(0, 1)))
  /\ UNCHANGED <<bb_sync, bb_series, bb_hears, bb_syncs>>
ReceiverHandshake ==
  /\ bb_hears' = TRUE
  /\ UNCHANGED <<bb_calls, bb_out, bb_sync, bb_series, bb_syncs>>

(* Sync: a new sync action, in its first state. *)
SenderSync ==
  /\ bb_sync' = [bb_sync EXCEPT !["sender"] =
                   [on |-> TRUE, m |-> Marked("kSendSync"), repeat |-> 0]]
  /\ bb_syncs' = bb_syncs + 1
  /\ UNCHANGED <<bb_calls, bb_out, bb_series, bb_hears>>
ReceiverSync ==
  /\ bb_sync' = [bb_sync EXCEPT !["receiver"] =
                   [on |-> TRUE, m |-> Marked("kWait"), once |-> TRUE]]
  /\ UNCHANGED <<bb_calls, bb_out, bb_series, bb_hears, bb_syncs>>

(* WarmUp, OneByte, ...: CreateTestAction makes a MessageSender or a       *)
(* MessageReceiver for the messages of the series.                         *)
SenderSeries(kind) ==
  /\ bb_series' = [bb_series EXCEPT !["sender"] =
                     [on |-> TRUE, kind |-> kind, m |-> Marked("kSending"),
                      sent |-> 0, confirmed |-> 0, silent |-> FALSE]]
  /\ UNCHANGED <<bb_calls, bb_out, bb_sync, bb_hears, bb_syncs>>
ReceiverSeries(kind) ==
  /\ bb_series' = [bb_series EXCEPT !["receiver"] =
                     [on |-> TRUE, kind |-> kind, m |-> Marked("kReceiving"),
                      count |-> 0]]
  /\ UNCHANGED <<bb_calls, bb_out, bb_sync, bb_hears, bb_syncs>>

(* TestAction::Update: the state reached is looked at once, and its agent  *)
(* is set to work.  kDone and kError give the result and end the program.  *)
BbTestUpdate(a) ==
  LET s == bb_test[a].state IN
  /\ bb_test[a].changed
  /\ bb_test' = [bb_test EXCEPT ![a] = IF s = "kConnect"
                                         THEN Marked("kHandshake")
                                         ELSE Acquire(@)]
  /\ \/ /\ s \in {"kConnect", "kDone", "kError"}
        /\ UNCHANGED <<bb_calls, bb_out, bb_sync, bb_series, bb_hears, bb_syncs>>
     \/ /\ s = "kHandshake"
        /\ IF a = "sender" THEN SenderHandshake ELSE ReceiverHandshake
     \/ /\ s \in BbSyncs
        /\ IF a = "sender" THEN SenderSync ELSE ReceiverSync
     \/ /\ s \in BbSeries
        /\ IF a = "sender" THEN SenderSeries(s) ELSE ReceiverSeries(s)
  /\ UNCHANGED <<bb_net, bb_back, bb_results, bb_stale, bb_lost>>

(* handshake_made_, sync_made_ and the error_event_ of an agent. *)
Advanced(a) == [bb_test EXCEPT ![a] = Set(@, Following(@.state))]
Broken(a) == [bb_test EXCEPT ![a] = Set(@, "kError")]

(* test_finished_event_: the warm-up's result is not kept. *)
Pushed(a, count) ==
  IF bb_test[a].state = "kWarmup" THEN bb_results
  ELSE [bb_results EXCEPT ![a] = Append(@, count)]

-----------------------------------------------------------------------------
(* SenderSyncAction.                                                       *)

(* SendSync: give up after kRepeatCount requests; otherwise register a     *)
(* callback under a new id, write the request and wait.                    *)
SendSync(act) ==
  IF act.repeat >= kRepeatCount
  THEN /\ bb_sync' = [bb_sync EXCEPT !["sender"].m = Marked("kError")]
       /\ UNCHANGED <<bb_calls, bb_out>>
  ELSE LET req == BbRequest(bb_syncs, act.repeat + 1)
       IN  /\ bb_calls' = bb_calls \cup {req}
           /\ bb_out' = Append(bb_out, BbPacket("Sync", req))
           /\ bb_sync' = [bb_sync EXCEPT !["sender"].repeat = @ + 1,
                                         !["sender"].m = Marked("kWaitResponse")]

BbSenderSyncUpdate ==
  LET act == bb_sync["sender"] IN
  /\ Running("sender") /\ act.on /\ act.m.changed
  /\ \/ /\ act.m.state = "kSendSync"
        /\ SendSync(act)
        /\ UNCHANGED bb_test
     \/ /\ act.m.state = "kWaitResponse"
        /\ bb_sync' = [bb_sync EXCEPT !["sender"].m = Acquire(@)]
        /\ UNCHANGED <<bb_calls, bb_out, bb_test>>
     \/ /\ act.m.state \in {"kSuccess", "kError"}
        /\ bb_sync' = [bb_sync EXCEPT !["sender"] = NoAction]
        /\ bb_test' = IF act.m.state = "kSuccess" THEN Advanced("sender")
                                                   ELSE Broken("sender")
        /\ UNCHANGED <<bb_calls, bb_out>>
  /\ UNCHANGED <<bb_series, bb_hears, bb_net, bb_back, bb_results, bb_syncs,
                 bb_stale, bb_lost>>

(* CheckInterval: kSendInterval after the last request. *)
BbCheckInterval ==
  LET act == bb_sync["sender"] IN
  /\ Running("sender") /\ act.on /\ act.m = Unmarked("kWaitResponse")
  /\ bb_sync' = [bb_sync EXCEPT !["sender"].m = Marked("kSendSync")]
  /\ UNCHANGED <<bb_test, bb_series, bb_hears, bb_out, bb_net, bb_back, bb_calls,
                 bb_results, bb_syncs, bb_stale, bb_lost>>

-----------------------------------------------------------------------------
(* MessageSender.                                                          *)

(* Send's check, after it has counted the message it wrote. *)
SentAll(act) == act.sent + 1 = BbCount

(* WaitBuffer: every write was confirmed. *)
BufferSent(act) == act.confirmed = act.sent

(* Update: kSuccess and kError give the result; kSending writes one more   *)
(* message, and the last one leads to kWaitbuffer, which is left once      *)
(* every write is confirmed (never at once: a confirmation comes later).   *)
BbMessageSenderUpdate ==
  LET act == bb_series["sender"] IN
  /\ Running("sender") /\ act.on
  /\ \/ /\ act.m.state = "kSending"
        /\ bb_out' = Append(bb_out, BbPacket(act.kind, NoRequest))
        /\ bb_series' = [bb_series EXCEPT
             !["sender"].sent = @ + 1,
             !["sender"].m = IF SentAll(act) THEN Marked("kWaitbuffer")
                                             ELSE Acquire(@)]
        /\ UNCHANGED <<bb_test, bb_results>>
     \/ /\ act.m.state = "kWaitbuffer"
        /\ act.m.changed \/ BufferSent(act)
        /\ bb_series' = [bb_series EXCEPT
             !["sender"].m = IF BufferSent(act) THEN Marked("kSuccess")
                                                ELSE Acquire(@)]
        /\ UNCHANGED <<bb_test, bb_results, bb_out>>
     \/ /\ act.m.state = "kSuccess"
        /\ bb_series' = [bb_series EXCEPT !["sender"] = NoAction]
        /\ bb_results' = Pushed("sender", act.sent)
        /\ bb_test' = Advanced("sender")
        /\ UNCHANGED bb_out
     \/ /\ act.m.state = "kError"
        /\ bb_series' = [bb_series EXCEPT !["sender"] = NoAction]
        /\ bb_test' = Broken("sender")
        /\ UNCHANGED <<bb_results, bb_out>>
  /\ UNCHANGED <<bb_sync, bb_hears, bb_net, bb_back, bb_calls, bb_syncs,
                 bb_stale, bb_lost>>

(* The transport takes a packet; the write of a message of the series      *)
(* under way is confirmed, the writes of requests have no listener.        *)
BbWritten ==
  LET p == Head(bb_out) IN
  /\ bb_out # <<>> /\ Running("sender")
  /\ bb_out' = Tail(bb_out)
  /\ bb_net' = Append(bb_net, p)
  /\ bb_series' = IF bb_series["sender"].on /\ p.kind \in BbSeries
                   THEN [bb_series EXCEPT !["sender"].confirmed = @ + 1]
                   ELSE bb_series
  /\ UNCHANGED <<bb_test, bb_sync, bb_hears, bb_back, bb_calls, bb_results,
                 bb_syncs, bb_stale, bb_lost>>

(* The write fails. *)
BbWriteFailed ==
  LET p == Head(bb_out) IN
  /\ bb_out # <<>> /\ Running("sender") /\ bb_lost < MaxBbLost
  /\ bb_lost' = bb_lost + 1
  /\ bb_out' = Tail(bb_out)
  /\ bb_series' = IF bb_series["sender"].on /\ p.kind \in BbSeries
                   THEN [bb_series EXCEPT !["sender"].m = Set(@, "kError")]
                   ELSE bb_series
  /\ UNCHANGED <<bb_test, bb_sync, bb_hears, bb_net, bb_back, bb_calls,
                 bb_results, bb_syncs, bb_stale>>

(* The write ends stopped, as the channel's timeout ends it: MessageSender *)
(* subscribes to the result and to the error, and hears nothing.           *)
BbWriteStopped ==
  LET p == Head(bb_out) IN
  /\ bb_out # <<>> /\ Running("sender") /\ bb_lost < MaxBbLost
  /\ bb_lost' = bb_lost + 1
  /\ bb_out' = Tail(bb_out)
  /\ bb_series' = IF bb_series["sender"].on /\ p.kind \in BbSeries
                   THEN [bb_series EXCEPT !["sender"].silent = TRUE]
                   ELSE bb_series
  /\ UNCHANGED <<bb_test, bb_sync, bb_hears, bb_net, bb_back, bb_calls,
                 bb_results, bb_syncs, bb_stale>>

-----------------------------------------------------------------------------
(* The answers to the sender.                                              *)

(* A packet or an answer is lost. *)
BbLose ==
  /\ bb_lost < MaxBbLost
  /\ bb_lost' = bb_lost + 1
  /\ \/ bb_net # <<>> /\ bb_net' = Tail(bb_net) /\ UNCHANGED bb_back
     \/ bb_back # <<>> /\ bb_back' = Tail(bb_back) /\ UNCHANGED bb_net
  /\ UNCHANGED <<bb_test, bb_sync, bb_series, bb_hears, bb_out, bb_calls,
                 bb_results, bb_syncs, bb_stale>>

(* A SendResult reaches the sender: the callback of the request is taken   *)
(* out and called.  The callback of a Sync request is a lambda over the    *)
(* sync action itself.  When that action is gone, it writes to the place   *)
(* sync_action_ has in the agent, where the next one may live.             *)
BbAnswered ==
  LET req == Head(bb_back)
      act == bb_sync["sender"]
      mine == act.on /\ req.sync = bb_syncs
  IN
  /\ bb_back # <<>> /\ Running("sender")
  /\ bb_back' = Tail(bb_back)
  /\ bb_calls' = bb_calls \ {req}
  /\ \/ /\ req \notin bb_calls
        /\ UNCHANGED <<bb_test, bb_sync, bb_stale>>
     \/ /\ req \in bb_calls /\ req.sync = 0
        /\ bb_test' = Advanced("sender")
        /\ UNCHANGED <<bb_sync, bb_stale>>
     \/ /\ req \in bb_calls /\ req.sync > 0
        /\ bb_sync' = IF act.on
                      THEN [bb_sync EXCEPT !["sender"].m = Set(@, "kSuccess")]
                      ELSE bb_sync
        /\ bb_stale' = (bb_stale \/ (~mine /\ bb_test["sender"].state # "kError"))
        /\ UNCHANGED bb_test
  /\ UNCHANGED <<bb_series, bb_hears, bb_out, bb_net, bb_results, bb_syncs, bb_lost>>

-----------------------------------------------------------------------------
(* The receiver: its subscriptions, ReceiverSyncAction, MessageReceiver.   *)

HandshakeReceived(p) ==
  /\ p.kind = "Handshake" /\ bb_hears
  /\ bb_hears' = FALSE
  /\ bb_back' = Append(bb_back, p.req)
  /\ bb_test' = Advanced("receiver")
  /\ UNCHANGED <<bb_sync, bb_series>>

OnReceivedSyncAgain(p) ==
  /\ p.kind = "Sync" /\ bb_sync["receiver"].on
  /\ bb_sync' = [bb_sync EXCEPT !["receiver"].m = Set(@, "kReceived")]
  /\ bb_back' = Append(bb_back, p.req)
  /\ UNCHANGED <<bb_test, bb_series, bb_hears>>

(* OnReceivedSync: subscribed for one message. *)
OnReceivedSync(p) ==
  /\ p.kind = "Sync" /\ bb_sync["receiver"].on /\ bb_sync["receiver"].once
  /\ bb_sync' = [bb_sync EXCEPT !["receiver"].m = Set(@, "kReceived"),
                                !["receiver"].once = FALSE]
  /\ bb_back' = Append(bb_back, p.req)
  /\ UNCHANGED <<bb_test, bb_series, bb_hears>>

(* The messages that a MessageReceiver counts. *)
Counts(act, p) == act.on /\ p.kind = act.kind

(* MessageReceived: the last one awaited ends the series. *)
MessageReceived(p) ==
  LET act == bb_series["receiver"] IN
  /\ Counts(act, p)
  /\ bb_series' = [bb_series EXCEPT
       !["receiver"].count = @ + 1,
       !["receiver"].m = IF act.count + 1 = BbCount THEN Set(@, "kSuccess") ELSE @]
  /\ UNCHANGED <<bb_test, bb_sync, bb_hears, bb_back>>

(* A packet that no subscription is for is dropped. *)
Unheard(p) ==
  /\ ~(p.kind = "Handshake" /\ bb_hears)
  /\ ~(p.kind = "Sync" /\ bb_sync["receiver"].on /\ bb_sync["receiver"].once)
  /\ ~Counts(bb_series["receiver"], p)
  /\ UNCHANGED <<bb_test, bb_sync, bb_series, bb_hears, bb_back>>

BbReceived ==
  LET p == Head(bb_net) IN
  /\ bb_net # <<>> /\ Running("receiver")
  /\ bb_net' = Tail(bb_net)
  /\ HandshakeReceived(p) \/ OnReceivedSync(p) \/ MessageReceived(p) \/ Unheard(p)
  /\ UNCHANGED <<bb_out, bb_calls, bb_results, bb_syncs, bb_stale, bb_lost>>

(* CheckTimeout: kTimeout since the first Update. *)
CheckTimeout(act) == act.m = Unmarked("kWait")

(* ReceiverSyncAction::Update, and CheckTimeout within it. *)
BbReceiverSyncUpdate ==
  LET act == bb_sync["receiver"] IN
  /\ Running("receiver") /\ act.on
  /\ \/ /\ act.m = Marked("kWait")
        /\ bb_sync' = [bb_sync EXCEPT !["receiver"].m = Acquire(@)]
        /\ UNCHANGED bb_test
     \/ /\ CheckTimeout(act)
        /\ bb_sync' = [bb_sync EXCEPT !["receiver"].m = Marked("kError")]
        /\ UNCHANGED bb_test
     \/ /\ act.m.state \in {"kReceived", "kError"}
        /\ bb_sync' = [bb_sync EXCEPT !["receiver"] = NoAction]
        /\ bb_test' = IF act.m.state = "kReceived" THEN Advanced("receiver")
                                                    ELSE Broken("receiver")
  /\ UNCHANGED <<bb_series, bb_hears, bb_out, bb_net, bb_back, bb_calls,
                 bb_results, bb_syncs, bb_stale, bb_lost>>

(* MessageReceiver::Update, and CheckReceiveTimeout within it. *)
BbMessageReceiverUpdate ==
  LET act == bb_series["receiver"] IN
  /\ Running("receiver") /\ act.on
  /\ \/ /\ act.m = Marked("kReceiving")
        /\ bb_series' = [bb_series EXCEPT !["receiver"].m = Acquire(@)]
        /\ UNCHANGED <<bb_test, bb_results>>
     \/ /\ act.m = Unmarked("kReceiving")
        /\ bb_series' = [bb_series EXCEPT !["receiver"].m = Marked("kError")]
        /\ UNCHANGED <<bb_test, bb_results>>
     \/ /\ act.m.state = "kSuccess"
        /\ bb_series' = [bb_series EXCEPT !["receiver"] = NoAction]
        /\ bb_results' = Pushed("receiver", act.count)
        /\ bb_test' = Advanced("receiver")
     \/ /\ act.m.state = "kError"
        /\ bb_series' = [bb_series EXCEPT !["receiver"] = NoAction]
        /\ bb_test' = Broken("receiver")
        /\ UNCHANGED bb_results
  /\ UNCHANGED <<bb_sync, bb_hears, bb_out, bb_net, bb_back, bb_calls, bb_syncs,
                 bb_stale, bb_lost>>

BbStep ==
  \/ \E a \in Agents : BbTestUpdate(a)
  \/ BbSenderSyncUpdate \/ BbCheckInterval \/ BbMessageSenderUpdate
  \/ BbWritten \/ BbAnswered \/ BbReceived
  \/ BbReceiverSyncUpdate \/ BbMessageReceiverUpdate

BbNext == BbStep \/ BbWriteFailed \/ BbWriteStopped \/ BbLose

(* The two loops run, and a packet that is not lost arrives. *)
BbSpec == BbInit /\ [][BbNext]_bbVars /\ WF_bbVars(BbStep)

-----------------------------------------------------------------------------
(* Each machine of the benchmark is in a state of its class, and a series  *)
(* never has more messages confirmed than sent.                            *)
BbTypeOK ==
  /\ bb_test \in [Agents -> Machines(BbStates)]
  /\ bb_sync["sender"].on =>
       /\ bb_sync["sender"].m \in
            Machines({"kSendSync", "kWaitResponse", "kSuccess", "kError"})
       /\ bb_sync["sender"].repeat \in 0..kRepeatCount
  /\ bb_sync["receiver"].on =>
       bb_sync["receiver"].m \in Machines({"kWait", "kReceived", "kError"})
  /\ bb_series["sender"].on =>
       /\ bb_series["sender"].m \in
            Machines({"kSending", "kWaitbuffer", "kSuccess", "kError"})
       /\ bb_series["sender"].confirmed <= bb_series["sender"].sent
  /\ bb_series["receiver"].on =>
       bb_series["receiver"].m \in Machines({"kReceiving", "kSuccess", "kError"})

Failed(a) == bb_test[a].state = "kError"
Reached(a, s) == ~Failed(a) /\ StageOf(bb_test[a].state) >= StageOf(s)

(* The programs are in step: the sender writes the messages of a series    *)
(* only once the receiver has answered the Sync before it, and the         *)
(* receiver leaves a series only once the sender has written it all        *)
(* (TestAction::Sync on both sides), whatever was lost or late.            *)
InStep ==
  /\ \A s \in BbSyncs :
       Reached("sender", Following(s)) =>
         \/ Failed("receiver")
         \/ Reached("receiver", Following(s))
         \/ /\ bb_test["receiver"].state = s
            /\ bb_sync["receiver"].on /\ ~bb_sync["receiver"].once
  /\ \A s \in BbSeries :
       Reached("receiver", Following(s)) =>
         \/ Failed("sender")
         \/ Reached("sender", Following(s))
         \/ /\ bb_test["sender"].state = s
            /\ bb_series["sender"].on /\ bb_series["sender"].sent = BbCount

(* A bandwidth is reported for exactly the messages asked for: neither     *)
(* side's result counts a message of another series, one too many or one   *)
(* too few (test_finished_event_ of Sender and Receiver).                  *)
ResultsExact ==
  \A a \in Agents : \A i \in DOMAIN bb_results[a] : bb_results[a][i] = BbCount

(* An answer to a Sync request finds the action that sent it: the callback *)
(* of SendSync holds the action, not a copy, and stays registered when the *)
(* action is gone.  A test that failed is excepted, see the hazards.       *)
AnswerFindsSync == ~bb_stale

(* The sender waits for the confirmation of a write that ended stopped. *)
WaitsForStopped ==
  LET act == bb_series["sender"]
  IN  act.on /\ act.silent /\ act.m.state = "kWaitbuffer"

(* Once the sender's handshake is made, the receiver ends, whatever is     *)
(* lost, fails or is stopped after it.  The sender ends too, with one      *)
(* exception: a write of a series that ended stopped is never confirmed,   *)
(* and WaitBuffer has no timeout.  Before the handshake nothing is said:   *)
(* its one request is not repeated (Sender::Handshake).                    *)
TestsEnd ==
  []<>(Reached("sender", "kWarmup") \/ Failed("sender")
         => Over("receiver") /\ (Over("sender") \/ WaitsForStopped))
=============================================================================
