--------------------------- MODULE MainLoopProofs ---------------------------
(***************************************************************************)
(* Proofs about what the loop of the application rests on: the trigger     *)
(* that wakes it, for any set of notifying threads; the registry of the    *)
(* actions it updates, for any objects and views and any number of         *)
(* actions; and the pollers that feed it, for all four of them, any        *)
(* descriptors and any number of calls.                                    *)
(***************************************************************************)
EXTENDS ActionTrigger, ActionRegistry, Pollers, FiniteSetTheorems, TLAPS

-----------------------------------------------------------------------------
(* ActionTrigger *)

(* Between Notify and Trigger the flag is set, or has been seen, as long   *)
(* as the work is not done: NothingLost alone says nothing of a notifier   *)
(* that has not called Trigger yet.                                        *)
FlagKept ==
  \A t \in Notifiers : work[t] /\ notifier[t] = "notified" =>
    notified[t] \/ update[t] # "none"

(* The inductive invariant. *)
IInv == AtTypeOK /\ FlagKept /\ NothingLost /\ WokenWhenTriggered

(* The initial state satisfies the invariant. *)
LEMMA InitInv == AtInit => IInv
  BY DEF AtInit, IInv, FlagKept, AtTypeOK, NothingLost, WokenWhenTriggered, Between

(* Every step keeps the invariant. *)
LEMMA InvStep == IInv /\ [AtNext]_atVars => IInv'
<1> SUFFICES ASSUME IInv, [AtNext]_atVars PROVE IInv'
  OBVIOUS
<1> USE DEF IInv, FlagKept, AtTypeOK, NothingLost, WokenWhenTriggered, Between
<1>1. ASSUME NEW t \in Notifiers, Happen(t) PROVE IInv'
  BY <1>1 DEF Happen
<1>2. ASSUME NEW t \in Notifiers, Notify(t) PROVE IInv'
  BY <1>2 DEF Notify
<1>3. ASSUME NEW t \in Notifiers, Trigger(t) PROVE IInv'
  BY <1>3 DEF Trigger, Wakes
<1>4. ASSUME NEW t \in Notifiers, Look(t) PROVE IInv'
  BY <1>4 DEF Look
<1>5. ASSUME NEW t \in Notifiers, ClearFlag(t) PROVE IInv'
  BY <1>5 DEF ClearFlag
<1>6. ASSUME NEW t \in Notifiers, ResultRepeat(t) PROVE IInv'
  BY <1>6 DEF ResultRepeat
<1>7. CASE EndUpdate
  BY <1>7 DEF EndUpdate
<1>8. CASE TryTake
  BY <1>8 DEF TryTake, Taken
<1>9. CASE Lock
  BY <1>9 DEF Lock
<1>10. CASE Check
  BY <1>10 DEF Check, Seen, Release
<1>11. CASE Wake
  BY <1>11 DEF Wake
<1>12. CASE Timeout
  BY <1>12 DEF Timeout
<1>13. CASE Reset
  BY <1>13 DEF Reset
<1>14. CASE UNCHANGED atVars
  BY <1>14 DEF atVars
<1> QED
  BY <1>1, <1>2, <1>3, <1>4, <1>5, <1>6, <1>7, <1>8, <1>9, <1>10, <1>11, <1>12, <1>13,
     <1>14 DEF AtNext, Application

(* AtSpec keeps the invariant. *)
LEMMA Invariance == AtSpec => []IInv
  BY InitInv, InvStep, PTL DEF AtSpec

(* The mutex and the Update of actions are used as AtTypeOK says. *)
THEOREM TriggerTypeCorrect == AtSpec => []AtTypeOK
<1>1. IInv => AtTypeOK
  BY DEF IInv
<1> QED
  BY <1>1, Invariance, PTL

(* No notification is lost between NotifyAction, ActionTrigger and the     *)
(* loop of Update and WaitUntil, for any number of notifying threads.      *)
THEOREM NoNotificationLost == AtSpec => []NothingLost
<1>1. IInv => NothingLost
  BY DEF IInv
<1> QED
  BY <1>1, Invariance, PTL

(* The application thread does not sleep while triggered_ is set and it    *)
(* has not been notified (ActionTrigger::WaitUntil).                       *)
THEOREM NoMissedWakeup == AtSpec => []WokenWhenTriggered
<1>1. IInv => WokenWhenTriggered
  BY DEF IInv
<1> QED
  BY <1>1, Invariance, PTL

-----------------------------------------------------------------------------
(* ActionRegistry.  SharesSound is inductive as it stands: that the counter *)
(* of an entry covers its references is what keeps the entry in the list   *)
(* when one of several is dropped, and that an entry points to the one     *)
(* object that refers to it is what lets the destructor of an action erase *)
(* it.                                                                     *)

(* The places that refer to an entry are finitely many. *)
LEMMA ReferencesFinite ==
  ASSUME NEW e
  PROVE  IsFiniteSet(References(e)) /\ Cardinality(References(e)) \in Nat
<1>1. IsFiniteSet(Places)
  BY FS_Union, ArAssumption DEF Places
<1>2. References(e) \subseteq Places
  BY DEF References
<1> QED
  BY <1>1, <1>2, FS_Subset, FS_CardinalityType

(* One more element is one more at most. *)
LEMMA OneMore ==
  ASSUME NEW S, NEW T, NEW x, IsFiniteSet(T), S \subseteq T \cup {x}
  PROVE  IsFiniteSet(S) /\ Cardinality(S) <= Cardinality(T) + 1
<1>1. /\ IsFiniteSet(T \cup {x})
      /\ Cardinality(T \cup {x}) = Cardinality(T) \/ Cardinality(T \cup {x}) = Cardinality(T) + 1
  BY FS_AddElement
<1>2. IsFiniteSet(S) /\ Cardinality(S) <= Cardinality(T \cup {x})
  BY <1>1, FS_Subset
<1>3. Cardinality(T) \in Nat /\ Cardinality(S) \in Nat
  BY <1>2, FS_CardinalityType
<1> QED
  BY <1>1, <1>2, <1>3

(* One element fewer is one less. *)
LEMMA OneLess ==
  ASSUME NEW S, NEW T, NEW x \in T, IsFiniteSet(T), S \subseteq T \ {x}
  PROVE  IsFiniteSet(S) /\ Cardinality(S) <= Cardinality(T) - 1
<1>1. IsFiniteSet(T \ {x}) /\ Cardinality(T \ {x}) = Cardinality(T) - 1
  BY FS_RemoveElement
<1> QED
  BY <1>1, FS_Subset

(* The initial state is sound: nothing refers to anything. *)
LEMMA InitSound == ArInit => SharesSound
  BY ArAssumption
  DEF ArInit, SharesSound, ArTypeOK, NoDanglingShare, CounterCovers, OwnEntryPointsBack,
      Refers, Places, Entries, Empty, Gone, Null

(* The constructor of an action refers to an entry nobody has seen. *)
LEMMA ConstructSound ==
  ASSUME SharesSound, NEW o \in ArObjects, Construct(o)
  PROVE  SharesSound'
<1> DEFINE n == ar_made + 1
<1>1. n \in Entries /\ n \notin ar_list /\ ar_made \in Nat
  BY ArAssumption DEF SharesSound, ArTypeOK, Construct, Entries
<1>2. \A p \in Places : ar_share[p] # n
  BY <1>1 DEF SharesSound, NoDanglingShare, Refers
<1>3. /\ ar_made' = n /\ ar_list' = ar_list \cup {n}
      /\ ar_counter' = [ar_counter EXCEPT ![n] = 1]
      /\ ar_action' = [ar_action EXCEPT ![n] = o]
      /\ ar_share' = [ar_share EXCEPT ![o] = n]
      /\ ar_made < MaxArEntries /\ ar_share[o] = Gone /\ o \in Places
  BY DEF Construct, Here, Places
<1>4. ArTypeOK'
  BY <1>1, <1>3, ArAssumption DEF SharesSound, ArTypeOK, Entries
<1>5. NoDanglingShare'
  BY <1>1, <1>3 DEF SharesSound, ArTypeOK, NoDanglingShare, Refers
<1>6. OwnEntryPointsBack'
  BY <1>1, <1>2, <1>3 DEF SharesSound, ArTypeOK, OwnEntryPointsBack, Refers, Places
<1>7. ASSUME NEW e \in ar_list' PROVE ar_counter'[e] >= Cardinality(References(e)')
  <2>1. CASE e = n
    <3>1. References(e)' \subseteq {} \cup {o}
      BY <2>1, <1>2, <1>3 DEF References, SharesSound, ArTypeOK
    <3>2. Cardinality(References(e)') <= 0 + 1 /\ Cardinality(References(e)') \in Nat
      BY <3>1, OneMore, FS_EmptySet, FS_CardinalityType
    <3>3. ar_counter'[e] = 1
      BY <2>1, <1>1, <1>3 DEF SharesSound, ArTypeOK
    <3> QED
      BY <3>2, <3>3
  <2>2. CASE e # n
    <3>1. e \in ar_list /\ e \in Entries /\ ar_counter'[e] = ar_counter[e]
      BY <2>2, <1>1, <1>3, ArAssumption DEF SharesSound, ArTypeOK, Entries
    <3>2. References(e)' \subseteq References(e)
      BY <2>2, <1>3 DEF References, SharesSound, ArTypeOK
    <3>3. Cardinality(References(e)') <= Cardinality(References(e))
      BY <3>2, ReferencesFinite, FS_Subset
    <3>4. ar_counter[e] >= Cardinality(References(e))
      BY <3>1 DEF SharesSound, CounterCovers
    <3>5. ar_counter[e] \in Int /\ Cardinality(References(e)) \in Nat /\ Cardinality(References(e)') \in Nat
      BY <3>1, <3>2, ReferencesFinite, FS_Subset, FS_CardinalityType, ArAssumption
      DEF SharesSound, ArTypeOK
    <3> QED
      BY <3>1, <3>3, <3>4, <3>5
  <2> QED
    BY <2>1, <2>2
<1> QED
  BY <1>4, <1>5, <1>6, <1>7 DEF SharesSound, CounterCovers

(* Where a share goes over from one place to another, an entry is referred *)
(* to as often as before, or less.                                         *)
LEMMA MovedCovers ==
  ASSUME SharesSound, NEW q \in Places, NEW p \in Places, q # p,
         ar_share' = [ar_share EXCEPT ![q] = ar_share[p], ![p] = Empty],
         ar_list' = ar_list, ar_counter' = ar_counter
  PROVE  CounterCovers'
<1> SUFFICES ASSUME NEW e \in ar_list
             PROVE  ar_counter[e] >= Cardinality(References(e)')
  BY DEF CounterCovers
<1>1. e \in Entries /\ ar_counter[e] \in Int /\ ar_counter[e] >= Cardinality(References(e)) /\ e # Empty
  BY ArAssumption DEF SharesSound, ArTypeOK, CounterCovers, Entries, Empty
<1>2. IsFiniteSet(References(e)) /\ Cardinality(References(e)) \in Nat
  BY ReferencesFinite
<1>3. CASE ar_share[p] = e
  <2>1. p \in References(e) /\ References(e)' \subseteq (References(e) \ {p}) \cup {q}
    BY <1>1, <1>3 DEF References, SharesSound, ArTypeOK
  <2>2. IsFiniteSet(References(e) \ {p})
        /\ Cardinality(References(e) \ {p}) <= Cardinality(References(e)) - 1
    BY <2>1, <1>2, OneLess
  <2>3. IsFiniteSet(References(e)')
        /\ Cardinality(References(e)') <= Cardinality(References(e) \ {p}) + 1
    BY <2>1, <2>2, OneMore
  <2>4. Cardinality(References(e) \ {p}) \in Nat /\ Cardinality(References(e)') \in Nat
    BY <2>2, <2>3, FS_CardinalityType
  <2> QED
    BY <1>1, <1>2, <2>2, <2>3, <2>4
<1>4. CASE ar_share[p] # e
  <2>1. References(e)' \subseteq References(e)
    BY <1>1, <1>4 DEF References, SharesSound, ArTypeOK
  <2>2. Cardinality(References(e)') <= Cardinality(References(e))
        /\ Cardinality(References(e)') \in Nat
    BY <2>1, <1>2, FS_Subset, FS_CardinalityType
  <2> QED
    BY <1>1, <1>2, <2>2
<1> QED
  BY <1>3, <1>4

(* A move of an action: its entry points to where it has gone, and the     *)
(* place it left refers to nothing.                                        *)
LEMMA MoveActionSound ==
  ASSUME SharesSound, NEW o \in ArObjects, NEW p \in ArObjects, MoveAction(o, p)
  PROVE  SharesSound'
<1>1. /\ o \in Places /\ p \in Places /\ o # p
      /\ ar_share' = [ar_share EXCEPT ![o] = ar_share[p], ![p] = Empty]
      /\ ar_action' = Repointed(o, p)
      /\ ar_list' = ar_list /\ ar_counter' = ar_counter /\ ar_made' = ar_made
  BY DEF MoveAction, Places
<1>2. ar_share[p] \in Entries \cup {Empty, Gone} /\ Empty \notin Entries
  BY <1>1 DEF SharesSound, ArTypeOK, Empty, Entries
<1>3. ArTypeOK'
  BY <1>1, <1>2 DEF SharesSound, ArTypeOK, Repointed, Refers
<1>4. NoDanglingShare'
  BY <1>1, <1>2 DEF SharesSound, ArTypeOK, NoDanglingShare, Refers
<1>5. CounterCovers'
  BY <1>1, MovedCovers
<1>6. ASSUME NEW q \in ArObjects, Refers(q)' PROVE ar_action'[ar_share'[q]] = q
  <2>1. q \in Places /\ q # p
    BY <1>1, <1>2, <1>6 DEF Refers, Places, SharesSound, ArTypeOK
  <2>2. CASE q = o
    BY <2>2, <1>1, <1>2, <1>6 DEF Refers, Repointed, SharesSound, ArTypeOK
  <2>3. CASE q # o
    <3>1. ar_share'[q] = ar_share[q] /\ Refers(q) /\ ar_action[ar_share[q]] = q
      BY <2>1, <2>3, <1>1, <1>6 DEF Refers, SharesSound, ArTypeOK, OwnEntryPointsBack
    <3>2. Refers(p) => ar_share[p] # ar_share[q]
      BY <3>1, <2>1 DEF SharesSound, OwnEntryPointsBack
    <3> QED
      BY <3>1, <3>2, <1>1 DEF Refers, Repointed, SharesSound, ArTypeOK
  <2> QED
    BY <2>2, <2>3
<1> QED
  BY <1>3, <1>4, <1>5, <1>6 DEF SharesSound, OwnEntryPointsBack

(* A move between views. *)
LEMMA MoveShareSound ==
  ASSUME SharesSound, NEW v \in ArViews, NEW w \in ArViews, MoveShare(v, w)
  PROVE  SharesSound'
<1>1. /\ v \in Places /\ w \in Places /\ v # w /\ v \notin ArObjects /\ w \notin ArObjects
      /\ ar_share' = [ar_share EXCEPT ![v] = ar_share[w], ![w] = Empty]
      /\ ar_action' = ar_action
      /\ ar_list' = ar_list /\ ar_counter' = ar_counter /\ ar_made' = ar_made
  BY ArAssumption DEF MoveShare, Places
<1>2. ar_share[w] \in Entries \cup {Empty, Gone} /\ Empty \notin Entries
  BY <1>1 DEF SharesSound, ArTypeOK, Empty, Entries
<1>3. ArTypeOK'
  BY <1>1, <1>2 DEF SharesSound, ArTypeOK
<1>4. NoDanglingShare'
  BY <1>1, <1>2 DEF SharesSound, ArTypeOK, NoDanglingShare, Refers
<1>5. CounterCovers'
  BY <1>1, MovedCovers
<1>6. OwnEntryPointsBack'
  BY <1>1 DEF SharesSound, ArTypeOK, OwnEntryPointsBack, Refers, Places
<1> QED
  BY <1>3, <1>4, <1>5, <1>6 DEF SharesSound

(* A copy of a share is one more reference, and is counted. *)
LEMMA CopyShareSound ==
  ASSUME SharesSound, NEW v \in ArViews, NEW p \in Places, CopyShare(v, p)
  PROVE  SharesSound'
<1> DEFINE n == ar_share[p]
<1>1. /\ v \in Places /\ v # p /\ v \notin ArObjects
      /\ ar_share' = [ar_share EXCEPT ![v] = n]
      /\ ar_counter' = Shared(n)
      /\ Refers(p) => ar_counter[n] < MaxArCounter
      /\ ar_action' = ar_action /\ ar_list' = ar_list /\ ar_made' = ar_made
  BY ArAssumption DEF CopyShare, Places
<1>2. n \in Entries \cup {Empty, Gone} /\ ar_list \subseteq Entries
  BY ArAssumption DEF SharesSound, ArTypeOK, Entries
<1>3. \A e \in Entries : ar_counter'[e] = (IF e = n THEN ar_counter[e] + 1 ELSE ar_counter[e])
  BY <1>1 DEF Shared, SharesSound, ArTypeOK
<1>4. ArTypeOK'
  <2>1. ar_counter' \in [Entries -> 0..MaxArCounter]
    <3>1. CASE n \in Entries
      <4>1. ar_counter \in [Entries -> 0..MaxArCounter] /\ ar_counter[n] < MaxArCounter
        BY <3>1, <1>1 DEF SharesSound, ArTypeOK, Refers
      <4>2. ar_counter[n] + 1 \in 0..MaxArCounter
        BY <4>1, <3>1, ArAssumption
      <4> QED
        BY <4>1, <4>2, <3>1, <1>1 DEF Shared
    <3>2. CASE n \notin Entries
      BY <3>2, <1>1 DEF SharesSound, ArTypeOK, Shared
    <3> QED
      BY <3>1, <3>2
  <2>2. \A e \in ar_list : ar_counter'[e] > 0
    BY <1>2, <1>3, ArAssumption DEF SharesSound, ArTypeOK
  <2> QED
    BY <2>1, <2>2, <1>1, <1>2 DEF SharesSound, ArTypeOK
<1>5. NoDanglingShare'
  BY <1>1, <1>2 DEF SharesSound, ArTypeOK, NoDanglingShare, Refers
<1>6. OwnEntryPointsBack'
  BY <1>1 DEF SharesSound, ArTypeOK, OwnEntryPointsBack, Refers, Places
<1>7. ASSUME NEW e \in ar_list PROVE ar_counter'[e] >= Cardinality(References(e)')
  <2>1. e \in Entries /\ ar_counter[e] \in Int /\ ar_counter[e] >= Cardinality(References(e))
    BY <1>2, ArAssumption DEF SharesSound, ArTypeOK, CounterCovers
  <2>2. IsFiniteSet(References(e)) /\ Cardinality(References(e)) \in Nat
    BY ReferencesFinite
  <2>3. CASE e = n
    <3>1. References(e)' \subseteq References(e) \cup {v}
      BY <1>1 DEF References, SharesSound, ArTypeOK
    <3>2. Cardinality(References(e)') <= Cardinality(References(e)) + 1
          /\ Cardinality(References(e)') \in Nat
      BY <3>1, <2>2, OneMore, FS_CardinalityType
    <3> QED
      BY <2>1, <2>2, <2>3, <3>2, <1>3
  <2>4. CASE e # n
    <3>1. References(e)' \subseteq References(e)
      BY <2>4, <1>1 DEF References, SharesSound, ArTypeOK
    <3>2. Cardinality(References(e)') <= Cardinality(References(e))
          /\ Cardinality(References(e)') \in Nat
      BY <3>1, <2>2, FS_Subset, FS_CardinalityType
    <3> QED
      BY <2>1, <2>2, <2>4, <3>2, <1>3
  <2> QED
    BY <2>3, <2>4
<1> QED
  BY <1>1, <1>4, <1>5, <1>6, <1>7 DEF SharesSound, CounterCovers

(* ~IndexShare: the entry leaves the list only with its last reference.    *)
(* What an object's entry points to is left to the two callers.            *)
LEMMA DropSound ==
  ASSUME SharesSound, NEW p \in Places, Drop(p),
         ar_action' \in [Entries -> ArObjects \cup {Null}]
  PROVE  ArTypeOK' /\ NoDanglingShare' /\ CounterCovers'
<1> DEFINE n == ar_share[p]
<1>1. /\ ar_share' = [ar_share EXCEPT ![p] = Gone] /\ ar_made' = ar_made
      /\ Refers(p) => /\ ar_counter' = [ar_counter EXCEPT ![n] = @ - 1]
                      /\ ar_list' = Released(n)
      /\ ~Refers(p) => ar_counter' = ar_counter /\ ar_list' = ar_list
  BY DEF Drop
<1>2. /\ ar_list \subseteq Entries /\ Gone \notin Entries /\ ar_list' \subseteq ar_list
      /\ ar_share \in [Places -> Entries \cup {Empty, Gone}]
      /\ ar_counter \in [Entries -> 0..MaxArCounter]
  BY <1>1, ArAssumption DEF SharesSound, ArTypeOK, Entries, Gone, Released
<1>3. ASSUME NEW e \in ar_list
      PROVE  /\ ar_counter[e] \in Nat /\ ar_counter[e] > 0
             /\ ar_counter[e] >= Cardinality(References(e))
             /\ IsFiniteSet(References(e)) /\ Cardinality(References(e)) \in Nat
  BY <1>2, ReferencesFinite, ArAssumption DEF SharesSound, ArTypeOK, CounterCovers
<1>4. CASE ~Refers(p)
  <2>1. ArTypeOK' /\ NoDanglingShare'
    BY <1>1, <1>2, <1>4 DEF SharesSound, ArTypeOK, NoDanglingShare, Refers
  <2>2. ASSUME NEW e \in ar_list' PROVE ar_counter'[e] >= Cardinality(References(e)')
    <3>1. References(e)' \subseteq References(e) /\ e \in ar_list
      BY <1>1, <1>2, <1>4 DEF References
    <3> QED
      BY <3>1, <1>1, <1>3, <1>4, FS_Subset, FS_CardinalityType
  <2> QED
    BY <2>1, <2>2 DEF CounterCovers
<1>5. CASE Refers(p)
  <2>1. n \in Entries /\ n \in ar_list /\ p \in References(n)
    BY <1>5 DEF Refers, SharesSound, NoDanglingShare, References
  <2>2. /\ ar_counter' \in [Entries -> 0..MaxArCounter]
        /\ ar_counter'[n] = ar_counter[n] - 1
        /\ \A e \in Entries \ {n} : ar_counter'[e] = ar_counter[e]
        /\ ar_list' = Released(n)
    BY <1>1, <1>2, <1>3, <1>5, <2>1, ArAssumption
  <2>3. ArTypeOK'
    <3>1. \A e \in ar_list' : ar_counter'[e] > 0
      BY <2>1, <2>2, <1>2, <1>3 DEF Released
    <3> QED
      BY <3>1, <2>2, <1>1, <1>2 DEF SharesSound, ArTypeOK
  <2>4. ASSUME NEW q \in Places, Refers(q)' PROVE ar_share'[q] \in ar_list'
    <3>1. q # p /\ ar_share'[q] = ar_share[q] /\ ar_share[q] \in ar_list
      BY <2>4, <1>1, <1>2 DEF Refers, SharesSound, NoDanglingShare
    <3>2. ASSUME ar_share[q] = n, ar_counter[n] = 1 PROVE FALSE
      <4>1. q \in References(n) \ {p}
        BY <3>1, <3>2 DEF References
      <4>2. IsFiniteSet(References(n) \ {p})
            /\ Cardinality(References(n) \ {p}) <= Cardinality(References(n)) - 1
        BY <2>1, <1>3, OneLess
      <4>3. Cardinality(References(n) \ {p}) \in Nat
        BY <4>2, FS_CardinalityType
      <4>4. Cardinality(References(n) \ {p}) = 0
        BY <4>2, <4>3, <3>2, <2>1, <1>3
      <4>5. References(n) \ {p} = {}
        BY <4>2, <4>4, FS_EmptySet
      <4> QED
        BY <4>1, <4>5
    <3> QED
      BY <3>1, <3>2, <2>2 DEF Released
  <2>5. ASSUME NEW e \in ar_list' PROVE ar_counter'[e] >= Cardinality(References(e)')
    <3>1. e \in ar_list /\ e \in Entries
      BY <1>2
    <3>2. CASE e = n
      <4>1. References(e)' \subseteq References(e) \ {p}
        BY <3>1, <3>2, <1>1, <1>2, <2>1 DEF References
      <4>2. Cardinality(References(e)') <= Cardinality(References(e)) - 1
            /\ Cardinality(References(e)') \in Nat
        BY <4>1, <3>2, <2>1, <1>3, OneLess, FS_CardinalityType
      <4> QED
        BY <4>2, <3>1, <3>2, <2>2, <1>3
    <3>3. CASE e # n
      <4>1. References(e)' \subseteq References(e)
        BY <3>1, <1>1, <1>2 DEF References
      <4>2. Cardinality(References(e)') <= Cardinality(References(e))
            /\ Cardinality(References(e)') \in Nat
        BY <4>1, <3>1, <1>3, FS_Subset, FS_CardinalityType
      <4> QED
        BY <4>2, <3>1, <3>3, <2>2, <1>3
    <3> QED
      BY <3>2, <3>3
  <2> QED
    BY <2>3, <2>4, <2>5 DEF NoDanglingShare, CounterCovers
<1> QED
  BY <1>4, <1>5

(* ~Action erases an entry that no other object refers to. *)
LEMMA DestroyActionSound ==
  ASSUME SharesSound, NEW o \in ArObjects, DestroyAction(o)
  PROVE  SharesSound'
<1>1. /\ o \in Places /\ ar_action' = Forgotten(o)
      /\ ar_share' = [ar_share EXCEPT ![o] = Gone]
      /\ Gone \notin Entries
  BY DEF DestroyAction, Drop, Places, Gone, Entries
<1>2. ar_action' \in [Entries -> ArObjects \cup {Null}]
  BY <1>1 DEF Forgotten, Refers, SharesSound, ArTypeOK
<1>3. ASSUME NEW q \in ArObjects, Refers(q)' PROVE ar_action'[ar_share'[q]] = q
  <2>1. q # o /\ ar_share'[q] = ar_share[q] /\ Refers(q) /\ ar_action[ar_share[q]] = q
    BY <1>1, <1>3 DEF Refers, Places, SharesSound, ArTypeOK, OwnEntryPointsBack
  <2>2. Refers(o) => ar_share[o] # ar_share[q]
    BY <2>1 DEF SharesSound, OwnEntryPointsBack
  <2> QED
    BY <2>1, <2>2, <1>1 DEF Forgotten, Refers, SharesSound, ArTypeOK
<1> QED
  BY <1>1, <1>2, <1>3, DropSound DEF SharesSound, OwnEntryPointsBack, DestroyAction

(* A view that is dropped leaves the entry pointing where it did. *)
LEMMA DropViewSound ==
  ASSUME SharesSound, NEW v \in ArViews, DropView(v)
  PROVE  SharesSound'
<1>1. /\ v \in Places /\ v \notin ArObjects /\ ar_action' = ar_action
      /\ ar_share' = [ar_share EXCEPT ![v] = Gone]
  BY ArAssumption DEF DropView, Drop, Places
<1>2. OwnEntryPointsBack'
  BY <1>1 DEF SharesSound, ArTypeOK, OwnEntryPointsBack, Refers, Places
<1> QED
  BY <1>1, <1>2, DropSound DEF SharesSound, DropView, ArTypeOK

(* Whatever is constructed, moved, copied and destroyed, in any order and  *)
(* any number: an IndexShare refers to an entry that is in the registry's  *)
(* list, the entry's counter covers all that refer to it, and the entry of *)
(* a registered action points to the action (ActionRegistry, IndexShare).  *)
THEOREM RegistrySound == ArSpec => []SharesSound
<1>1. SharesSound /\ [ArNext]_arVars => SharesSound'
  <2> SUFFICES ASSUME SharesSound, [ArNext]_arVars PROVE SharesSound'
    OBVIOUS
  <2>1. CASE \E o \in ArObjects : Construct(o) \/ DestroyAction(o)
    BY <2>1, ConstructSound, DestroyActionSound
  <2>2. CASE \E o, p \in ArObjects : MoveAction(o, p)
    BY <2>2, MoveActionSound
  <2>3. CASE \E v \in ArViews, p \in Places : CopyShare(v, p)
    BY <2>3, CopyShareSound
  <2>4. CASE \E v, w \in ArViews : MoveShare(v, w)
    BY <2>4, MoveShareSound
  <2>5. CASE \E v \in ArViews : DropView(v)
    BY <2>5, DropViewSound
  <2>6. CASE UNCHANGED arVars
    BY <2>6 DEF arVars, SharesSound, ArTypeOK, NoDanglingShare, CounterCovers,
                OwnEntryPointsBack, Refers, References
  <2> QED
    BY <2>1, <2>2, <2>3, <2>4, <2>5, <2>6 DEF ArNext
<1> QED
  BY <1>1, InitSound, PTL DEF ArSpec

-----------------------------------------------------------------------------
(* Pollers *)

(* The types the steps need beyond PoTypeOK. *)
PoTypes ==
  /\ po_callbacks \in [AllKeys -> 0 .. MaxPoAdds]
  /\ po_adding \in AllKeys \cup {NoKey}
  /\ po_adds \in 0 .. MaxPoAdds
  /\ po_batch \in Seq(AllKeys)

(* While the thread handles events it has the lock.  A callback it has     *)
(* looked up is still the one of the event, until it is called; a task     *)
(* that is deleted in between never calls it.                              *)
FoundUnderLock ==
  /\ po_thread = "handle" => po_lock = "poller"
  /\ po_found # 0 =>
       /\ po_thread \in {"handle", "ended"} /\ po_lock = "poller"
       /\ po_batch # <<>> /\ po_callbacks[Head(po_batch)] = po_found

(* The inductive invariant. *)
PoIInv == RemovedStaySilent /\ PoTypes /\ FoundUnderLock

-----------------------------------------------------------------------------

(* There are finitely many keys, and the keys of a poller are among them. *)
LEMMA KeysFinite == IsFiniteSet(AllKeys) /\ PoKeys \subseteq AllKeys
<1>1. IsFiniteSet({"READ", "WRITE", "ANY"})
  <2>1. IsFiniteSet({"ANY"}) /\ IsFiniteSet({"WRITE"}) /\ IsFiniteSet({"READ"})
    BY FS_Singleton
  <2>2. IsFiniteSet({"READ"} \cup {"WRITE"})
    BY <2>1, FS_Union
  <2>3. IsFiniteSet(({"READ"} \cup {"WRITE"}) \cup {"ANY"})
    BY <2>1, <2>2, FS_Union
  <2>4. ({"READ"} \cup {"WRITE"}) \cup {"ANY"} = {"READ", "WRITE", "ANY"}
    OBVIOUS
  <2> QED
    BY <2>3, <2>4
<1>2. IsFiniteSet(AllKeys)
  BY <1>1, PollersAssumption, FS_Product DEF AllKeys
<1>3. PoKeys \subseteq AllKeys
  BY DEF PoKeys, AllKeys
<1> QED
  BY <1>2, <1>3

(* Any order of some keys is a sequence of keys. *)
LEMMA OrdersAreSequences ==
  ASSUME NEW keys \in SUBSET AllKeys, NEW order \in SetToSeqs(keys)
  PROVE  order \in Seq(AllKeys)
<1>1. IsFiniteSet(keys)
  BY KeysFinite, FS_Subset
<1>2. Cardinality(keys) \in Nat
  BY <1>1, FS_CardinalityType
<1>3. order \in [1 .. Cardinality(keys) -> AllKeys]
  BY DEF SetToSeqs
<1> QED
  BY <1>2, <1>3

(* The initial state satisfies the invariant. *)
LEMMA PoInitInv == PoInit => PoIInv
  BY PollersAssumption
  DEF PoInit, PoIInv, RemovedStaySilent, PoTypeOK, NoCallAfterRemove, PoTypes, FoundUnderLock

(* The main thread keeps it: what it changes of the callbacks it changes   *)
(* under the lock, when no callback is looked up.                          *)
LEMMA MainStep ==
  ASSUME PoIInv,
         \/ \E k \in AllKeys : PoAdd(k) \/ KqueueAdd(k) \/ PoRemove(k) \/ PoReady(k)
         \/ KqueueEmplace \/ PoDestroy
         \/ \E fd \in PoFds : PoClose(fd)
  PROVE  PoIInv'
<1> USE PollersAssumption
    DEF PoIInv, RemovedStaySilent, PoTypeOK, NoCallAfterRemove, PoTypes, FoundUnderLock
<1>1. ASSUME NEW k \in AllKeys, PoAdd(k) PROVE PoIInv'
  <2>1. po_found = 0 /\ po_adds + 1 \in 0 .. MaxPoAdds
    BY <1>1 DEF PoAdd, MayAdd
  <2>2. po_callbacks' \in [AllKeys -> 0 .. MaxPoAdds]
    BY <1>1, <2>1 DEF PoAdd, Emplaced
  <2> QED
    BY <1>1, <2>1, <2>2 DEF PoAdd, Resumed, poHistory
<1>2. ASSUME NEW k \in AllKeys, KqueueAdd(k) PROVE PoIInv'
  BY <1>2 DEF KqueueAdd, MayAdd, poHistory
<1>3. ASSUME NEW k \in AllKeys, PoRemove(k) PROVE PoIInv'
  <2>1. po_found = 0
    BY <1>3 DEF PoRemove
  <2>2. po_callbacks' \in [AllKeys -> 0 .. MaxPoAdds]
    BY <1>3 DEF PoRemove
  <2> QED
    BY <1>3, <2>1, <2>2 DEF PoRemove, Resumed
<1>4. ASSUME NEW k \in AllKeys, PoReady(k) PROVE PoIInv'
  BY <1>4 DEF PoReady
<1>5. ASSUME KqueueEmplace PROVE PoIInv'
  <2>1. po_found = 0 /\ po_adding \in AllKeys
    BY <1>5 DEF KqueueEmplace
  <2>2. po_callbacks' \in [AllKeys -> 0 .. MaxPoAdds]
    BY <1>5, <2>1 DEF KqueueEmplace, Emplaced
  <2> QED
    BY <1>5, <2>1, <2>2 DEF KqueueEmplace, poHistory
<1>6. ASSUME PoDestroy PROVE PoIInv'
  BY <1>6 DEF PoDestroy, poHistory
<1>7. ASSUME NEW fd \in PoFds, PoClose(fd) PROVE PoIInv'
  BY <1>7 DEF PoClose, poMain, poHistory
<1> QED
  BY <1>1, <1>2, <1>3, <1>4, <1>5, <1>6, <1>7

(* The poller's thread keeps it. *)
LEMMA ThreadStep == PoIInv /\ PoThread => PoIInv'
<1> SUFFICES ASSUME PoIInv, PoThread PROVE PoIInv'
  OBVIOUS
<1> USE PollersAssumption
    DEF PoIInv, RemovedStaySilent, PoTypeOK, NoCallAfterRemove, PoTypes, FoundUnderLock
<1>1. CASE FillFdsVector
  BY <1>1, KeysFinite DEF FillFdsVector, poMain, poHistory
<1>2. CASE PoSuspend
  BY <1>2 DEF PoSuspend, poMain, poHistory
<1>3. CASE PoWait
  <2>1. PICK keys \in Reported : po_batch' \in SetToSeqs(keys) /\ po_ready' = po_ready \ keys
    BY <1>3 DEF PoWait
  <2>2. keys \subseteq AllKeys
    BY <2>1 DEF Reported
  <2>3. po_batch' \in Seq(AllKeys)
    BY <2>1, <2>2, OrdersAreSequences
  <2> QED
    BY <1>3, <2>1, <2>3 DEF PoWait, poMain, poHistory
<1>4. CASE PoStop
  BY <1>4 DEF PoStop, poMain, poHistory
<1>5. CASE PoLock
  BY <1>5 DEF PoLock, HoldLock, poMain, poHistory
<1>6. ASSUME po_batch # <<>> PROVE Head(po_batch) \in AllKeys /\ Tail(po_batch) \in Seq(AllKeys)
  BY <1>6
<1>7. CASE PoFind
  BY <1>6, <1>7 DEF PoFind, poMain, poHistory
<1>8. CASE PoSkip
  BY <1>6, <1>8 DEF PoSkip, Onward, poMain
<1>9. CASE PoReturn
  BY <1>9 DEF PoReturn, poMain
<1>10. CASE PoCall
  <2>1. po_batch # <<>> /\ po_callbacks[Head(po_batch)] = po_found
    BY <1>10 DEF PoCall
  <2>2. ~ po_stale'
    BY <1>10, <2>1 DEF PoCall
  <2>3. po_batch' \in Seq(AllKeys) /\ po_due' \subseteq AllKeys /\ po_found' = 0
    BY <1>6, <1>10, <2>1 DEF PoCall
  <2>4. /\ po_lock' \in {"free", "poller"} /\ (po_thread' = "handle" => po_lock' = "poller")
        /\ po_thread' \in {"fill", "suspending", "suspended", "wait", "got", "handle", "returned", "ended"}
    BY <1>10 DEF PoCall, Onward
  <2> QED
    BY <1>10, <2>2, <2>3, <2>4 DEF PoCall, poMain
<1> QED
  BY <1>1, <1>2, <1>3, <1>4, <1>5, <1>7, <1>8, <1>9, <1>10 DEF PoThread

(* In every poller, whatever the two threads do: a callback is called only *)
(* while it is registered, so that what it refers to may be destroyed once *)
(* Remove has returned.                                                    *)
THEOREM NoCallbackAfterRemove == PoSpec => []RemovedStaySilent
<1>1. PoIInv /\ [PoNext]_poVars => PoIInv'
  <2> SUFFICES ASSUME PoIInv, [PoNext]_poVars PROVE PoIInv'
    OBVIOUS
  <2>1. CASE UNCHANGED poVars
    BY <2>1 DEF poVars, PoIInv, RemovedStaySilent, PoTypeOK, NoCallAfterRemove, PoTypes, FoundUnderLock
  <2>2. CASE PoNext
    BY <2>2, MainStep, ThreadStep DEF PoNext
  <2> QED
    BY <2>1, <2>2
<1>2. PoIInv => RemovedStaySilent
  BY DEF PoIInv
<1> QED
  BY PoInitInv, <1>1, <1>2, PTL DEF PoSpec
=============================================================================
