------------------------------- MODULE Events -------------------------------
(***************************************************************************)
(* Event<void(...)>, its handlers and the Subscriptions that own them.     *)
(* Emit invokes a copy of the subscription list and then takes the dead    *)
(* subscriptions out of the event's own list; while a handler runs, it may *)
(* emit the event again, subscribe, release any Subscription (its own      *)
(* too), or destroy the event.                                             *)
(*                                                                         *)
(* Handlers are numbered in the order of Subscribe.  Both lists keep that  *)
(* order (emplace_back at the end, remove_if in between), so a list is     *)
(* modelled by its set of numbers and is run from the smallest on.         *)
(***************************************************************************)
EXTENDS Naturals

CONSTANTS
  MaxHandlers,   \* bound: calls of Subscribe
  MaxDepth       \* bound: emissions inside each other

ASSUME EventsAssumption == MaxHandlers \in Nat /\ MaxDepth \in Nat \ {0}

VARIABLES
  event,           \* the Event object exists
  made,            \* handlers made so far
  held,            \* a Subscription owns the handler
  alive,           \* alive_ of the handler
  once,            \* once_ of the handler
  subscriptions,   \* subscriptions_ of the emitter
  depth,           \* emissions under way
  invoke_list,     \* per emission: the copied list
  todo,            \* per emission: the part of it still to be looked at
  running,         \* per emission: the handler that runs, 0 between handlers
  called,          \* history: handlers invoked, per emission
  ever             \* history: handlers invoked at all

handlerVars == <<made, held, alive, once>>
frameVars == <<depth, invoke_list, todo, running, called>>
vars == <<event, handlerVars, subscriptions, frameVars, ever>>

Handlers == 1..MaxHandlers
Depths == 1..MaxDepth

(* The variables have their types; lists name handlers that were made. *)
TypeOK ==
  /\ event \in BOOLEAN
  /\ made \in 0..MaxHandlers
  /\ held \in [Handlers -> BOOLEAN]
  /\ alive \in [Handlers -> BOOLEAN]
  /\ once \in [Handlers -> BOOLEAN]
  /\ subscriptions \in SUBSET (1..made)
  /\ depth \in 0..MaxDepth
  /\ invoke_list \in [Depths -> SUBSET (1..made)]
  /\ todo \in [Depths -> SUBSET (1..made)]
  /\ running \in [Depths -> 0..made]
  /\ called \in [Depths -> SUBSET (1..made)]
  /\ ever \in SUBSET (1..made)

Init ==
  /\ event = TRUE
  /\ made = 0
  /\ held = [h \in Handlers |-> FALSE]
  /\ alive = [h \in Handlers |-> FALSE]
  /\ once = [h \in Handlers |-> FALSE]
  /\ subscriptions = {}
  /\ depth = 0
  /\ invoke_list = [d \in Depths |-> {}]
  /\ todo = [d \in Depths |-> {}]
  /\ running = [d \in Depths |-> 0]
  /\ called = [d \in Depths |-> {}]
  /\ ever = {}

(* A running handler is locked by the emission that runs it. *)
IsRunning(h) == \E d \in 1..depth : running[d] = h

(* handler_.lock() succeeds. *)
Exists(h) == held[h] \/ IsRunning(h)

(* EventHandlerSubscription::is_alive *)
IsAlive(h) == Exists(h) /\ alive[h]

(* Code outside the event runs: no emission, or the body of a handler. *)
UserCode == depth > 0 => running[depth] # 0

(* Add: the new subscription goes to the end of the list. *)
Added == subscriptions \cup {made + 1}

Subscribe(isOnce) ==
  /\ UserCode /\ event
  /\ made < MaxHandlers
  /\ made' = made + 1
  /\ held' = [held EXCEPT ![made + 1] = TRUE]
  /\ alive' = [alive EXCEPT ![made + 1] = TRUE]
  /\ once' = [once EXCEPT ![made + 1] = isOnce]
  /\ subscriptions' = Added
  /\ UNCHANGED <<event, frameVars, ever>>

(* Reset, assignment or destruction of the Subscription that owns h. *)
Reset(h) ==
  /\ UserCode
  /\ held[h]
  /\ held' = [held EXCEPT ![h] = FALSE]
  /\ UNCHANGED <<event, made, alive, once, subscriptions, frameVars, ever>>

(* The emitter goes when nothing refers to it any more, and the            *)
(* EventHandlerSubscriptions in it mark their handlers dead.               *)
DropEmitter == alive' = [h \in Handlers |-> alive[h] /\ h \notin subscriptions]

(* ~Event: an emission under way keeps the emitter until it ends. *)
Destroy ==
  /\ UserCode /\ event
  /\ event' = FALSE
  /\ IF depth = 0 THEN DropEmitter ELSE UNCHANGED alive
  /\ UNCHANGED <<made, held, once, subscriptions, frameVars, ever>>

(* Emit copies the list. *)
Emit ==
  /\ UserCode /\ event
  /\ depth < MaxDepth
  /\ depth' = depth + 1
  /\ invoke_list' = [invoke_list EXCEPT ![depth + 1] = subscriptions]
  /\ todo' = [todo EXCEPT ![depth + 1] = subscriptions]
  /\ UNCHANGED <<event, handlerVars, subscriptions, running, called, ever>>

(* What is left of the copy after h. *)
Rest(h) == todo[depth] \ {h}

(* The next subscription of the copy: its handler is called if it is still *)
(* there and alive.                                                        *)
Invoke(h) ==
  /\ depth > 0 /\ running[depth] = 0
  /\ h \in todo[depth] /\ \A g \in todo[depth] : h <= g
  /\ todo' = [todo EXCEPT ![depth] = Rest(h)]
  /\ IF IsAlive(h)
     THEN /\ running' = [running EXCEPT ![depth] = h]
          /\ called' = [called EXCEPT ![depth] = @ \cup {h}]
          /\ ever' = ever \cup {h}
     ELSE UNCHANGED <<running, called, ever>>
  /\ UNCHANGED <<event, handlerVars, subscriptions, depth, invoke_list>>

(* After the callback a handler for one call is dead. *)
Retired(h) == IF once[h] THEN [alive EXCEPT ![h] = FALSE] ELSE alive

(* The callback returns. *)
Return ==
  /\ depth > 0 /\ running[depth] # 0
  /\ running' = [running EXCEPT ![depth] = 0]
  /\ alive' = Retired(running[depth])
  /\ UNCHANGED <<event, made, held, once, subscriptions, depth, invoke_list, todo,
                 called, ever>>

\* Mutant: the cleaned copy replaces the list.
CleanedCopy == {h \in invoke_list[depth] : IsAlive(h)}

(* The dead subscriptions leave the event's list. *)
Cleaned == {h \in subscriptions : IsAlive(h)}

(* The end of Emit. *)
CleanUp ==
  /\ depth > 0 /\ running[depth] = 0 /\ todo[depth] = {}
  /\ subscriptions' = Cleaned
  /\ depth' = depth - 1
  /\ invoke_list' = [invoke_list EXCEPT ![depth] = {}]
  /\ called' = [called EXCEPT ![depth] = {}]
  /\ IF depth = 1 /\ ~event
     THEN alive' = [h \in Handlers |-> alive[h] /\ h \notin Cleaned]
     ELSE UNCHANGED alive
  /\ UNCHANGED <<event, made, held, once, todo, running, ever>>

Next ==
  \/ \E isOnce \in BOOLEAN : Subscribe(isOnce)
  \/ \E h \in 1..made : Reset(h) \/ Invoke(h)
  \/ Destroy \/ Emit \/ Return \/ CleanUp

Spec == Init /\ [][Next]_vars

-----------------------------------------------------------------------------
(* Properties *)

(* No live subscription is lost: as long as the event exists, a handler    *)
(* that is owned and alive is in the event's list, also when it was        *)
(* subscribed, and the list cleaned, by emissions inside each other.       *)
LiveIsSubscribed ==
  event => \A h \in 1..made : held[h] /\ alive[h] => h \in subscriptions

(* An emission passes over a subscription only if it is dead: what it has  *)
(* put behind it was called by it, or can never be called again.           *)
SkippedIsDead ==
  \A d \in 1..depth : \A h \in invoke_list[d] \ todo[d] :
    h \in called[d] \/ ~IsAlive(h)

(* A handler for one call that has been called is dead or still in its     *)
(* call.                                                                   *)
OnceIsSpent ==
  \A h \in ever : once[h] => ~alive[h] \/ IsRunning(h)

(* Emissions inside each other lose no subscription, reach every handler   *)
(* that stays alive, and call a handler for one call no more than the      *)
(* calls inside its own (EventEmitter::Emit, EventHandler::invoke).        *)
EmissionCorrect == LiveIsSubscribed /\ SkippedIsDead /\ OnceIsSpent
=============================================================================
