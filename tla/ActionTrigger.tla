--------------------------- MODULE ActionTrigger ---------------------------
(***************************************************************************)
(* How another thread (the poller, a system callback) gets the application *)
(* thread to run an action: NotifyAction::Notify sets a flag and calls     *)
(* ActionTrigger::Trigger, while the application thread runs               *)
(* ActionProcessor::Update and then ActionTrigger::WaitUntil, over and     *)
(* over.  Every thread has its own NotifyAction.  The flag is a plain bool *)
(* and is read and cleared without a lock; triggered_ is atomic, and is    *)
(* taken once before the mutex and then under it.                          *)
(***************************************************************************)
CONSTANT Notifiers   \* the threads that notify, each with its action

VARIABLES
  work,        \* what the notifier has for the handler of its action
  notifier,    \* where the notifier is
  notified,    \* notify_success_ of its action
  triggered,   \* triggered_ of the SyncObject
  woken,       \* notify_all has reached the waiting application thread
  locked,      \* the application thread holds the mutex
  pc,          \* where the application thread is
  todo,        \* actions still to be updated in this Update
  update       \* how far the Update of an action whose flag is set has come

atVars == <<work, notifier, notified, triggered, woken, locked, pc, todo, update>>

(* No action is in the middle of its Update. *)
Between == \A t \in Notifiers : update[t] = "none"

(* The variables have their types; the application thread holds the mutex  *)
(* exactly while it looks at triggered_ for the wait, and is in the Update *)
(* of an action only within Update.                                        *)
AtTypeOK ==
  /\ work \in [Notifiers -> BOOLEAN]
  /\ notifier \in [Notifiers -> {"idle", "working", "notified"}]
  /\ notified \in [Notifiers -> BOOLEAN]
  /\ triggered \in BOOLEAN /\ woken \in BOOLEAN /\ locked \in BOOLEAN
  /\ pc \in {"Update", "TryTake", "Lock", "Check", "Wait", "Reset"}
  /\ todo \in SUBSET Notifiers
  /\ update \in [Notifiers -> {"none", "seen", "cleared"}]
  /\ locked <=> pc \in {"Check", "Reset"}
  /\ pc # "Update" => Between /\ todo = {}

AtInit ==
  /\ work = [t \in Notifiers |-> FALSE]
  /\ notifier = [t \in Notifiers |-> "idle"]
  /\ notified = [t \in Notifiers |-> FALSE]
  /\ triggered = FALSE /\ woken = FALSE /\ locked = FALSE
  /\ pc = "Update" /\ todo = Notifiers
  /\ update = [t \in Notifiers |-> "none"]

-----------------------------------------------------------------------------
(* A notifier: something happens, Notify sets the flag, Trigger sets       *)
(* triggered_ and notifies under the mutex.                                *)

Happen(t) ==
  /\ notifier[t] = "idle"
  /\ work' = [work EXCEPT ![t] = TRUE]
  /\ notifier' = [notifier EXCEPT ![t] = "working"]
  /\ UNCHANGED <<notified, triggered, woken, locked, pc, todo, update>>

Notify(t) ==
  /\ notifier[t] = "working"
  /\ notified' = [notified EXCEPT ![t] = TRUE]
  /\ notifier' = [notifier EXCEPT ![t] = "notified"]
  /\ UNCHANGED <<work, triggered, woken, locked, pc, todo, update>>

\* Mutant: the condition is not notified.
WakesNobody == FALSE

(* notify_all reaches the application thread if it waits. *)
Wakes == pc = "Wait"

Trigger(t) ==
  /\ notifier[t] = "notified" /\ ~locked
  /\ triggered' = TRUE
  /\ woken' = (woken \/ Wakes)
  /\ notifier' = [notifier EXCEPT ![t] = "idle"]
  /\ UNCHANGED <<work, notified, locked, pc, todo, update>>

-----------------------------------------------------------------------------
(* The application thread *)

(* Update of one action: its flag is read, *)
Look(t) ==
  /\ pc = "Update" /\ Between /\ t \in todo
  /\ todo' = todo \ {t}
  /\ update' = [update EXCEPT ![t] = IF notified[t] THEN "seen" ELSE "none"]
  /\ UNCHANGED <<work, notifier, notified, triggered, woken, locked, pc>>

(* cleared, *)
ClearFlag(t) ==
  /\ update[t] = "seen"
  /\ notified' = [notified EXCEPT ![t] = FALSE]
  /\ update' = [update EXCEPT ![t] = "cleared"]
  /\ UNCHANGED <<work, notifier, triggered, woken, locked, pc, todo>>

(* and the handlers of the action run. *)
ResultRepeat(t) ==
  /\ update[t] = "cleared"
  /\ work' = [work EXCEPT ![t] = FALSE]
  /\ update' = [update EXCEPT ![t] = "none"]
  /\ UNCHANGED <<notifier, notified, triggered, woken, locked, pc, todo>>

EndUpdate ==
  /\ pc = "Update" /\ Between /\ todo = {}
  /\ pc' = "TryTake"
  /\ UNCHANGED <<work, notifier, notified, triggered, woken, locked, todo, update>>

\* Mutant: the result of the compare-exchange is not looked at.
TakenUnseen == FALSE

(* The compare-exchange has found triggered_ set. *)
Taken == triggered

(* The compare-exchange before the mutex. *)
TryTake ==
  /\ pc = "TryTake"
  /\ triggered' = FALSE
  /\ IF Taken THEN pc' = "Update" /\ todo' = Notifiers
              ELSE pc' = "Lock" /\ UNCHANGED todo
  /\ UNCHANGED <<work, notifier, notified, woken, locked, update>>

Lock ==
  /\ pc = "Lock"
  /\ locked' = TRUE
  /\ pc' = "Check"
  /\ UNCHANGED <<work, notifier, notified, triggered, woken, todo, update>>

\* Mutant: the wait starts without looking at triggered_.
Blind == FALSE

(* The predicate of the wait: the compare-exchange that expects false.  *)
Seen == triggered

Release == locked' = FALSE

(* The predicate is false: wait, which releases the mutex. *)
Check ==
  /\ pc = "Check"
  /\ IF Seen THEN pc' = "Reset" /\ UNCHANGED <<locked, woken>>
     ELSE pc' = "Wait" /\ Release /\ woken' = FALSE
  /\ UNCHANGED <<work, notifier, notified, triggered, todo, update>>

(* Notified (or for no reason) the thread takes the mutex and looks again; *)
(* on the timeout it looks once more and returns whatever it sees.         *)
Wake ==
  /\ pc = "Wait" /\ woken
  /\ pc' = "Check" /\ locked' = TRUE
  /\ UNCHANGED <<work, notifier, notified, triggered, woken, todo, update>>

Timeout ==
  /\ pc = "Wait"
  /\ pc' \in {"Check", "Reset"} /\ locked' = TRUE
  /\ UNCHANGED <<work, notifier, notified, triggered, woken, todo, update>>

(* The end of WaitUntil, still under the mutex; Update follows. *)
Reset ==
  /\ pc = "Reset"
  /\ triggered' = FALSE /\ locked' = FALSE
  /\ pc' = "Update" /\ todo' = Notifiers
  /\ UNCHANGED <<work, notifier, notified, woken, update>>

Application ==
  \/ \E t \in Notifiers : Look(t) \/ ClearFlag(t) \/ ResultRepeat(t)
  \/ EndUpdate \/ TryTake \/ Lock \/ Check \/ Wake \/ Reset

AtNext ==
  \/ \E t \in Notifiers : Happen(t) \/ Notify(t) \/ Trigger(t)
  \/ Application
  \/ Timeout

AtSpec == AtInit /\ [][AtNext]_atVars

(* Threads that can run do run.  What happens outside, and the timeout,    *)
(* may stay away for ever.  A notifier gets the mutex although the         *)
(* application thread takes it over and over.                              *)
AtFairSpec ==
  /\ AtSpec
  /\ WF_atVars(Application)
  /\ \A t \in Notifiers : WF_atVars(Notify(t)) /\ SF_atVars(Trigger(t))

-----------------------------------------------------------------------------
(* Properties *)

(* No notification is lost: when a notifier has returned from Trigger and  *)
(* its work is not done, the flag is set and the application thread has an *)
(* Update before it that will see it, or it has seen the flag already.     *)
NothingLost ==
  \A t \in Notifiers : work[t] /\ notifier[t] = "idle" =>
    \/ notified[t] /\ (triggered \/ pc = "Reset" \/ (pc = "Update" /\ t \in todo))
    \/ update[t] # "none"

(* The application thread never sleeps on: while it waits and triggered_   *)
(* is set, it has been notified.                                           *)
WokenWhenTriggered == pc = "Wait" /\ triggered => woken

(* Everything that is notified is handled, without the help of a timeout. *)
WorkGetsDone == \A t \in Notifiers : []<>~work[t]
=============================================================================
