--------------------------- MODULE ActionRegistry ---------------------------
(***************************************************************************)
(* The registry of actions: a list of entries (a reference counter and the *)
(* pointer to the action), and the IndexShares that refer to them: one in  *)
(* every action object, one in every ActionView, and one per entry in the  *)
(* copy ActionProcessor::Update iterates (views too, here).  The objects   *)
(* and views stand for places in memory that are constructed, assigned and *)
(* destroyed in any order.                                                 *)
(***************************************************************************)
EXTENDS Integers, FiniteSets

CONSTANTS
  ArObjects,     \* places for action objects
  ArViews,       \* places for views
  MaxArEntries,  \* bound: actions registered
  MaxArCounter   \* bound: the reference counter of an entry

ASSUME ArAssumption ==
  /\ IsFiniteSet(ArObjects) /\ IsFiniteSet(ArViews)
  /\ ArObjects \cap ArViews = {}
  /\ MaxArEntries \in Nat /\ MaxArCounter \in Nat \ {0}

VARIABLES
  ar_share,    \* per place: the entry it refers to, Empty, or Gone
  ar_list,     \* the entries in the list
  ar_counter,  \* per entry
  ar_action,   \* per entry: the object it points to, or Null
  ar_made      \* entries made so far

arVars == <<ar_share, ar_list, ar_counter, ar_action, ar_made>>

Places == ArObjects \cup ArViews
Entries == 1..MaxArEntries
Empty == 0    \* a share without a registry
Gone == -1    \* nothing is constructed here
Null == Empty

(* The variables have their types; the entries in the list were made. *)
ArTypeOK ==
  /\ ar_share \in [Places -> Entries \cup {Empty, Gone}]
  /\ ar_list \subseteq 1..ar_made
  /\ ar_counter \in [Entries -> 0..MaxArCounter]
  /\ ar_action \in [Entries -> ArObjects \cup {Null}]
  /\ ar_made \in 0..MaxArEntries
  /\ \A e \in ar_list : ar_counter[e] > 0

ArInit ==
  /\ ar_share = [p \in Places |-> Gone]
  /\ ar_list = {}
  /\ ar_counter = [e \in Entries |-> 0]
  /\ ar_action = [e \in Entries |-> Null]
  /\ ar_made = 0

Refers(p) == ar_share[p] \in Entries
Here(p) == ar_share[p] # Gone

(* The constructor of an action registers it. *)
Construct(o) ==
  /\ ~Here(o) /\ ar_made < MaxArEntries
  /\ ar_made' = ar_made + 1
  /\ ar_list' = ar_list \cup {ar_made + 1}
  /\ ar_counter' = [ar_counter EXCEPT ![ar_made + 1] = 1]
  /\ ar_action' = [ar_action EXCEPT ![ar_made + 1] = o]
  /\ ar_share' = [ar_share EXCEPT ![o] = ar_made + 1]

(* The entry of p points to the object o. *)
Repointed(o, p) == IF Refers(p) THEN [ar_action EXCEPT ![ar_share[p]] = o] ELSE ar_action

(* The move constructor and the move assignment of an action: the share    *)
(* goes over, and the entry points to the new object.  What an assigned    *)
(* object referred to before is neither released nor erased.               *)
MoveAction(o, p) ==
  /\ o # p /\ Here(p)
  /\ ar_share' = [ar_share EXCEPT ![o] = ar_share[p], ![p] = Empty]
  /\ ar_action' = Repointed(o, p)
  /\ UNCHANGED <<ar_list, ar_counter, ar_made>>

(* A copy of a share is counted. *)
Shared(e) == IF e \in Entries THEN [ar_counter EXCEPT ![e] = @ + 1] ELSE ar_counter

(* A view is copied from the share of an action that is registered, or     *)
(* from a view; assignment does the same to a view that is there.          *)
CopyShare(v, p) ==
  /\ v # p /\ Here(p) /\ (p \in ArObjects => Refers(p))
  /\ Refers(p) => ar_counter[ar_share[p]] < MaxArCounter
  /\ ar_share' = [ar_share EXCEPT ![v] = ar_share[p]]
  /\ ar_counter' = Shared(ar_share[p])
  /\ UNCHANGED <<ar_list, ar_action, ar_made>>

(* Moves between views. *)
MoveShare(v, w) ==
  /\ v # w /\ Here(w)
  /\ ar_share' = [ar_share EXCEPT ![v] = ar_share[w], ![w] = Empty]
  /\ UNCHANGED <<ar_list, ar_counter, ar_action, ar_made>>

\* Mutant: the entry leaves the list one reference early.
ReleasedEarly(e) == IF ar_counter[e] <= 2 THEN ar_list \ {e} ELSE ar_list

(* The last reference takes the entry out of the list. *)
Released(e) == IF ar_counter[e] = 1 THEN ar_list \ {e} ELSE ar_list

(* ~IndexShare of a place. *)
Drop(p) ==
  /\ Here(p)
  /\ ar_share' = [ar_share EXCEPT ![p] = Gone]
  /\ IF Refers(p)
     THEN /\ ar_counter' = [ar_counter EXCEPT ![ar_share[p]] = @ - 1]
          /\ ar_list' = Released(ar_share[p])
     ELSE UNCHANGED <<ar_counter, ar_list>>
  /\ UNCHANGED ar_made

(* Erase: the entry points nowhere. *)
Forgotten(p) == IF Refers(p) THEN [ar_action EXCEPT ![ar_share[p]] = Null] ELSE ar_action

(* ~Action erases its entry's pointer and then drops its share. *)
DestroyAction(o) == Drop(o) /\ ar_action' = Forgotten(o)

DropView(v) == Drop(v) /\ UNCHANGED ar_action

ArNext ==
  \/ \E o \in ArObjects : Construct(o) \/ DestroyAction(o)
  \/ \E o, p \in ArObjects : MoveAction(o, p)
  \/ \E v \in ArViews, p \in Places : CopyShare(v, p)
  \/ \E v, w \in ArViews : MoveShare(v, w)
  \/ \E v \in ArViews : DropView(v)

ArSpec == ArInit /\ [][ArNext]_arVars

-----------------------------------------------------------------------------
(* Properties *)

References(e) == {p \in Places : ar_share[p] = e}

(* No share refers to an entry that has left the list. *)
NoDanglingShare == \A p \in Places : Refers(p) => ar_share[p] \in ar_list

(* An entry's counter covers the shares that refer to it. *)
CounterCovers == \A e \in ar_list : ar_counter[e] >= Cardinality(References(e))

(* An action that is registered is reached through its own entry, however  *)
(* often it was moved.                                                     *)
OwnEntryPointsBack == \A o \in ArObjects : Refers(o) => ar_action[ar_share[o]] = o

(* The registry is sound: no place refers to an entry that has left the    *)
(* list, the counter of an entry covers the places that refer to it, and   *)
(* an action is reached through its own entry, moved or not (IndexShare).  *)
SharesSound == ArTypeOK /\ NoDanglingShare /\ CounterCovers /\ OwnEntryPointsBack

(* An entry that points to an object is that object's entry: what Update   *)
(* and a view get is an action that exists, and each action once.          *)
PointsToOwner ==
  \A e \in ar_list : ar_action[e] # Null => ar_share[ar_action[e]] = e
=============================================================================
