------------------------------ MODULE Examples ------------------------------
(***************************************************************************)
(* The programs of examples/: how each gets its clients, keeps them on     *)
(* disk for its next start, and what it does with them.                    *)
(*                                                                         *)
(*   cloud      two clients exchange messages over safe streams            *)
(*   button     a key of one client switches the LED of the other, over a  *)
(*              plain stream                                               *)
(*   delays     the delay benchmark, one of the two programs whose test is *)
(*              modelled in DelaysBench and BandwidthBench                 *)
(*   bandwidth  the bandwidth benchmark's sender and receiver, one client  *)
(*              each                                                       *)
(*                                                                         *)
(* A program may be killed at any moment and started again.  ExDistil is   *)
(* the build with AE_DISTILLATION, which starts from an empty store.       *)
(***************************************************************************)
EXTENDS Naturals, Sequences, SequencesExt

CONSTANTS
  ExKinds,      \* the programs to look at
  ExMessages,   \* messages of the cloud example (9)
  ExDistil,     \* AE_DISTILLATION
  MaxExStarts,  \* bound: starts of the program
  MaxExPresses, \* bound: changes of the key
  MaxExLost     \* bound: messages lost, failed registrations

ASSUME ExAssumption ==
  /\ ExKinds \subseteq {"cloud", "button", "delays", "bandwidth"}
  /\ ExMessages \in Nat /\ ExDistil \in BOOLEAN
  /\ {MaxExStarts, MaxExPresses, MaxExLost} \subseteq Nat

VARIABLES
  ex_kind,     \* the program
  ex_pc,       \* where it is
  ex_disk,     \* Aether::clients_ as last saved
  ex_clients,  \* Aether::clients_
  ex_chosen,   \* client_sender and client_receiver, 0 when null
  ex_busy,     \* the registrations under way
  ex_failed,   \* reg_failed
  ex_uids,     \* history: clients the registration cloud has made
  ex_starts,   \* starts so far
  ex_work,     \* the state of the exchange or of the button and the LED
  ex_lost      \* messages lost and registrations failed so far

exVars == <<ex_kind, ex_pc, ex_disk, ex_clients, ex_chosen, ex_busy, ex_failed,
            ex_uids, ex_starts, ex_work, ex_lost>>

Roles == {"sender", "receiver"}
RolesOf(kind) == IF kind = "bandwidth" THEN {"sender"} ELSE Roles
Null == 0
NoWork == [none |-> TRUE]
NoClients == [r \in Roles |-> Null]

ExInit ==
  /\ ex_kind \in ExKinds
  /\ ex_pc = "start"
  /\ ex_disk = <<>> /\ ex_clients = <<>>
  /\ ex_chosen = NoClients
  /\ ex_busy = {} /\ ex_failed = FALSE
  /\ ex_uids = 0 /\ ex_starts = 1
  /\ ex_work = NoWork /\ ex_lost = 0

-----------------------------------------------------------------------------
(* Getting the clients.                                                    *)

EnoughMore(kind, clients) == Len(clients) > 2

(* Whether the clients loaded are taken: the conditions differ.  The       *)
(* delays benchmark throws away any other number of them.                  *)
Enough(kind, clients) ==
  CASE kind \in {"cloud", "button"} -> Len(clients) >= 2
    [] kind = "delays" -> Len(clients) = 2
    [] kind = "bandwidth" -> Len(clients) >= 1

(* Load the root object.  With enough clients in it, the first ones are    *)
(* taken; otherwise each role begins a registration.                       *)
ExStart ==
  LET disk == IF ExDistil THEN <<>> ELSE ex_disk IN
  /\ ex_pc = "start"
  /\ ex_disk' = disk
  /\ IF Enough(ex_kind, disk)
     THEN /\ ex_clients' = disk
          /\ ex_chosen' = [r \in Roles |->
                             IF r = "sender" THEN disk[1]
                             ELSE IF r \in RolesOf(ex_kind) THEN disk[2] ELSE Null]
          /\ ex_pc' = "chosen"
          /\ UNCHANGED ex_busy
     ELSE /\ ex_clients' = IF ex_kind = "delays" THEN <<>> ELSE disk
          /\ ex_busy' = RolesOf(ex_kind)
          /\ ex_pc' = "register"
          /\ UNCHANGED ex_chosen
  /\ UNCHANGED <<ex_kind, ex_failed, ex_uids, ex_starts, ex_work, ex_lost>>

(* A registration succeeds: Aether keeps the client, the program too.      *)
ExRegistered ==
  \E r \in ex_busy :
    /\ ex_pc = "register"
    /\ ex_uids' = ex_uids + 1
    /\ ex_clients' = Append(ex_clients, ex_uids')
    /\ ex_chosen' = [ex_chosen EXCEPT ![r] = ex_uids']
    /\ ex_busy' = ex_busy \ {r}
    /\ UNCHANGED <<ex_kind, ex_pc, ex_disk, ex_failed, ex_starts, ex_work, ex_lost>>

(* A registration fails. *)
ExRegisterFailed ==
  \E r \in ex_busy :
    /\ ex_pc = "register" /\ ex_lost < MaxExLost
    /\ ex_lost' = ex_lost + 1
    /\ ex_failed' = TRUE
    /\ ex_busy' = ex_busy \ {r}
    /\ UNCHANGED <<ex_kind, ex_pc, ex_disk, ex_clients, ex_chosen, ex_uids, ex_starts, ex_work>>

(* The condition under which the program goes on waiting.  The button      *)
(* example waits only while it has neither client.                         *)
Waits(kind, chosen, failed) ==
  /\ ~failed
  /\ IF kind = "button"
     THEN \A r \in Roles : chosen[r] = Null
     ELSE \E r \in RolesOf(kind) : chosen[r] = Null

(* The loop is left: return after a failure, go on otherwise. *)
ExRegisterEnd ==
  /\ ex_pc = "register" /\ ~Waits(ex_kind, ex_chosen, ex_failed)
  /\ ex_pc' = IF ex_failed THEN "returned" ELSE "chosen"
  /\ UNCHANGED <<ex_kind, ex_disk, ex_clients, ex_chosen, ex_busy, ex_failed,
                 ex_uids, ex_starts, ex_work, ex_lost>>

(* SaveRoot. *)
Saved == ex_disk' = ex_clients

(* The clients are used: asserted and given their adapters.  The           *)
(* benchmarks save the root before their test, the others do not.          *)
ExUse ==
  /\ ex_pc = "chosen"
  /\ IF \E r \in RolesOf(ex_kind) : ex_chosen[r] = Null
     THEN /\ ex_pc' = "aborted"
          /\ UNCHANGED <<ex_disk, ex_work>>
     ELSE /\ ex_pc' = "work"
          /\ CASE ex_kind = "cloud" ->
                    /\ ex_work' = [there |-> ExMessages, back |-> 0,
                                   receive_count |-> 0, confirm_count |-> 0]
                    /\ UNCHANGED ex_disk
               [] ex_kind = "button" ->
                    /\ ex_work' = [key |-> FALSE, presses |-> 0,
                                   button_state |-> FALSE, wire |-> <<>>, led |-> FALSE]
                    /\ UNCHANGED ex_disk
               [] OTHER -> Saved /\ UNCHANGED ex_work
  /\ UNCHANGED <<ex_kind, ex_clients, ex_chosen, ex_busy, ex_failed, ex_uids,
                 ex_starts, ex_lost>>

ExAtWork(kinds) == ex_pc = "work" /\ ex_kind \in kinds

(* A benchmark's test ends, in whatever way: BandwidthBench, DelaysBench.  *)
ExBenchEnd ==
  /\ ExAtWork({"delays", "bandwidth"})
  /\ ex_pc' = "returned"
  /\ UNCHANGED <<ex_kind, ex_disk, ex_clients, ex_chosen, ex_busy, ex_failed,
                 ex_uids, ex_starts, ex_work, ex_lost>>

-----------------------------------------------------------------------------
(* The cloud example.  A safe stream delivers what it does not give up.    *)

exKept == <<ex_kind, ex_pc, ex_disk, ex_clients, ex_chosen, ex_busy, ex_failed,
            ex_uids, ex_starts>>

ExCloudReceiveSilent ==
  /\ ExAtWork({"cloud"}) /\ ex_work.there > 0
  /\ ex_work' = [ex_work EXCEPT !.there = @ - 1, !.receive_count = @ + 1]
  /\ UNCHANGED <<exKept, ex_lost>>

(* The receiver counts a message and answers it. *)
ExCloudReceive ==
  /\ ExAtWork({"cloud"}) /\ ex_work.there > 0
  /\ ex_work' = [ex_work EXCEPT !.there = @ - 1, !.receive_count = @ + 1,
                                !.back = @ + 1]
  /\ UNCHANGED <<exKept, ex_lost>>

(* The sender counts an answer. *)
ExCloudConfirm ==
  /\ ExAtWork({"cloud"}) /\ ex_work.back > 0
  /\ ex_work' = [ex_work EXCEPT !.back = @ - 1, !.confirm_count = @ + 1]
  /\ UNCHANGED <<exKept, ex_lost>>

(* A stream gives up on a message after max_repeat_count.                  *)
ExCloudGiveUp ==
  /\ ExAtWork({"cloud"}) /\ ex_lost < MaxExLost
  /\ ex_lost' = ex_lost + 1
  /\ \/ ex_work.there > 0 /\ ex_work' = [ex_work EXCEPT !.there = @ - 1]
     \/ ex_work.back > 0 /\ ex_work' = [ex_work EXCEPT !.back = @ - 1]
  /\ UNCHANGED exKept

(* All received and all confirmed: save the root and return. *)
ExCloudEnd ==
  /\ ExAtWork({"cloud"})
  /\ ex_work.receive_count >= ExMessages /\ ex_work.confirm_count >= ExMessages
  /\ ex_pc' = "returned"
  /\ Saved
  /\ UNCHANGED <<ex_kind, ex_clients, ex_chosen, ex_busy, ex_failed, ex_uids,
                 ex_starts, ex_work, ex_lost>>

-----------------------------------------------------------------------------
(* The button example.                                                     *)

(* The key is pressed or let go. *)
ExPress ==
  /\ ExAtWork({"button"}) /\ ex_work.presses < MaxExPresses
  /\ ex_work' = [ex_work EXCEPT !.key = ~@, !.presses = @ + 1]
  /\ UNCHANGED <<exKept, ex_lost>>

(* LedButton::Update: a change of the key since the last look is reported, *)
(* and the program writes the message for the key's new state.             *)
LedButtonUpdate ==
  /\ ex_work.key # ex_work.button_state
  /\ ex_work' = [ex_work EXCEPT !.button_state = ex_work.key,
                                !.wire = Append(@, ex_work.key)]

ExButton ==
  /\ ExAtWork({"button"})
  /\ LedButtonUpdate
  /\ UNCHANGED <<exKept, ex_lost>>

(* The message arrives and SetLed follows it, or it is lost. *)
ExLed ==
  /\ ExAtWork({"button"}) /\ ex_work.wire # <<>>
  /\ ex_work' = [ex_work EXCEPT !.led = Head(ex_work.wire), !.wire = Tail(@)]
  /\ UNCHANGED <<exKept, ex_lost>>

ExLedLost ==
  /\ ExAtWork({"button"}) /\ ex_work.wire # <<>> /\ ex_lost < MaxExLost
  /\ ex_lost' = ex_lost + 1
  /\ ex_work' = [ex_work EXCEPT !.wire = Tail(@)]
  /\ UNCHANGED exKept

-----------------------------------------------------------------------------
(* The program is killed, or has ended, and is started again.              *)
ExRestart ==
  /\ ex_pc # "start" /\ ex_starts < MaxExStarts
  /\ ex_starts' = ex_starts + 1
  /\ ex_pc' = "start"
  /\ ex_clients' = <<>> /\ ex_chosen' = NoClients
  /\ ex_busy' = {} /\ ex_failed' = FALSE /\ ex_work' = NoWork
  /\ UNCHANGED <<ex_kind, ex_disk, ex_uids, ex_lost>>

ExStep ==
  \/ ExStart \/ ExRegistered \/ ExRegisterEnd \/ ExUse \/ ExBenchEnd
  \/ ExCloudReceive \/ ExCloudConfirm \/ ExCloudEnd \/ ExButton \/ ExLed

ExNext == \/ ExStep \/ ExRegisterFailed \/ ExCloudGiveUp \/ ExPress \/ ExLedLost
          \/ ExRestart

(* The loop of the program runs, registrations and messages get through.   *)
ExSpec == ExInit /\ [][ExNext]_exVars /\ WF_exVars(ExStep)

-----------------------------------------------------------------------------
(* The programs are at a place they have, with clients that were made. *)
ExTypeOK ==
  /\ ex_pc \in {"start", "register", "chosen", "work", "returned", "aborted"}
  /\ \A i \in DOMAIN ex_clients : ex_clients[i] \in 1..ex_uids
  /\ \A r \in Roles : ex_chosen[r] \in 0..ex_uids
  /\ ex_busy \subseteq RolesOf(ex_kind)

(* A program works with clients it has, two different ones if it has two   *)
(* roles, and does not reach its asserts with one missing.  The button     *)
(* example is excepted: see BothRegistered.                                *)
ClientsChosen ==
  /\ ex_kind # "button" => ex_pc # "aborted"
  /\ ex_pc = "work" =>
       /\ \A r \in RolesOf(ex_kind) : ex_chosen[r] \in Range(ex_clients)
       /\ ex_kind # "bandwidth" => ex_chosen["sender"] # ex_chosen["receiver"]

(* assert(client_sender) and assert(client_receiver) hold when the button  *)
(* example reaches them.                                                   *)
BothRegistered == ex_pc # "aborted"

(* A program that has saved its clients goes on with them: it registers no *)
(* new ones at its next start (unless it starts from an empty store).      *)
ClientsKept ==
  (ex_pc = "register" /\ ~ExDistil) => ex_disk = <<>>

(* The cloud example ends, unless it is killed, a registration fails or a  *)
(* stream gives up a message: then it waits for ever.                      *)
CloudEnds ==
  []<>(ex_kind = "cloud" => ex_pc = "returned" \/ ex_lost > 0)

(* When the key is left alone, the LED comes to show it, unless a message  *)
(* was lost: nothing repeats one.                                          *)
LedFollowsKey ==
  <>[](ExAtWork({"button"}) /\ ex_lost = 0 => ex_work.led = ex_work.key)
=============================================================================
