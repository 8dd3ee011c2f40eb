---------------------------- MODULE EventsProofs ----------------------------
(***************************************************************************)
(* Proofs about Events, for any number of handlers and any depth of        *)
(* emissions inside each other.                                            *)
(***************************************************************************)
EXTENDS Events, TLAPS

(* Beyond the emissions under way no handler runs: a new emission starts   *)
(* between handlers, and ending one changes nothing about which run.       *)
IdleAbove == \A d \in Depths : d > depth => running[d] = 0

(* The inductive invariant. *)
IInv == TypeOK /\ IdleAbove /\ LiveIsSubscribed /\ SkippedIsDead /\ OnceIsSpent

(* A step that copies, calls or cleans leaves alone which handlers of the  *)
(* emissions below run.                                                    *)
LEMMA SameRunning ==
  ASSUME TypeOK, IdleAbove, running' = running,
         \/ depth' = depth
         \/ depth' = depth + 1 /\ depth < MaxDepth
         \/ depth' = depth - 1 /\ depth > 0 /\ running[depth] = 0,
         NEW h \in 1..made
  PROVE  IsRunning(h)' <=> IsRunning(h)
  BY EventsAssumption DEF TypeOK, IdleAbove, IsRunning, Depths

(* The initial state satisfies the invariant. *)
LEMMA InitInv == Init => IInv
  BY EventsAssumption
  DEF Init, IInv, TypeOK, IdleAbove, LiveIsSubscribed, SkippedIsDead, OnceIsSpent,
      IsAlive, Exists, IsRunning, Handlers, Depths

(* Every step keeps the types. *)
LEMMA TypeStep == TypeOK /\ IdleAbove /\ [Next]_vars => TypeOK' /\ IdleAbove'
<1> SUFFICES ASSUME TypeOK, IdleAbove, [Next]_vars PROVE TypeOK' /\ IdleAbove'
  OBVIOUS
<1> USE EventsAssumption DEF TypeOK, IdleAbove, Handlers, Depths
<1>1. ASSUME NEW isOnce \in BOOLEAN, Subscribe(isOnce) PROVE TypeOK' /\ IdleAbove'
  BY <1>1 DEF Subscribe, Added, frameVars
<1>2. ASSUME NEW h \in 1..made, Reset(h) PROVE TypeOK' /\ IdleAbove'
  BY <1>2 DEF Reset, frameVars
<1>3. ASSUME NEW h \in 1..made, Invoke(h) PROVE TypeOK' /\ IdleAbove'
  <2>1. UNCHANGED <<event, made, held, alive, once, subscriptions, depth, invoke_list>>
    BY <1>3 DEF Invoke, handlerVars
  <2>2. depth \in Depths /\ todo' \in [Depths -> SUBSET (1..made)]
    BY <1>3 DEF Invoke, Rest
  <2>3. CASE IsAlive(h)
    <3>1. running' = [running EXCEPT ![depth] = h]
      BY <1>3, <2>3 DEF Invoke
    <3>2. running' \in [Depths -> 0..made] /\ IdleAbove'
      BY <2>1, <2>2, <3>1
    <3>3. ever' = ever \cup {h} /\ called' = [called EXCEPT ![depth] = @ \cup {h}]
      BY <1>3, <2>3 DEF Invoke
    <3>4. called[depth] \cup {h} \in SUBSET (1..made) /\ ever' \in SUBSET (1..made)
      BY <2>2, <3>3
    <3>5. called' \in [Depths -> SUBSET (1..made)]
      BY <2>2, <3>3, <3>4
    <3> QED
      BY <2>1, <2>2, <3>2, <3>4, <3>5
  <2>4. CASE ~IsAlive(h)
    BY <1>3, <2>1, <2>2, <2>4 DEF Invoke
  <2> QED
    BY <2>3, <2>4
<1>4. CASE Destroy
  BY <1>4 DEF Destroy, DropEmitter, frameVars
<1>5. CASE Emit
  BY <1>5 DEF Emit, handlerVars
<1>6. CASE Return
  BY <1>6 DEF Return, Retired
<1>7. CASE CleanUp
  <2>1. /\ UNCHANGED <<event, made, held, once, todo, running, ever>>
        /\ depth \in Depths /\ depth' = depth - 1
    BY <1>7 DEF CleanUp
  <2>2. subscriptions' \in SUBSET (1..made)
    BY <1>7 DEF CleanUp, Cleaned
  <2>3. alive' \in [Handlers -> BOOLEAN]
    <3>1. \/ alive' = [h \in Handlers |-> alive[h] /\ h \notin Cleaned]
          \/ alive' = alive
      BY <1>7, Zenon DEF CleanUp
    <3>2. alive \in [Handlers -> BOOLEAN]
      OBVIOUS
    <3>3. [h \in Handlers |-> alive[h] /\ h \notin Cleaned] \in [Handlers -> BOOLEAN]
      BY Zenon
    <3> QED
      BY <3>1, <3>2, <3>3
  <2>4. /\ invoke_list' \in [Depths -> SUBSET (1..made)]
        /\ called' \in [Depths -> SUBSET (1..made)]
    BY <1>7, <2>1 DEF CleanUp
  <2>5. IdleAbove'
    BY <1>7, <2>1 DEF CleanUp
  <2> QED
    BY <2>1, <2>2, <2>3, <2>4, <2>5
<1>8. CASE UNCHANGED vars
  BY <1>8 DEF vars, handlerVars, frameVars
<1> QED
  BY <1>1, <1>2, <1>3, <1>4, <1>5, <1>6, <1>7, <1>8 DEF Next

(* A step that leaves the emissions alone and revives no handler keeps     *)
(* what they have passed over dead.                                        *)
LEMMA SkippedKept ==
  ASSUME TypeOK, SkippedIsDead, UNCHANGED <<depth, invoke_list, todo, called>>,
         \A g \in 1..made : IsAlive(g)' => IsAlive(g)
  PROVE  SkippedIsDead'
<1>1. \A d \in 1..depth : invoke_list[d] \subseteq 1..made
  BY EventsAssumption DEF TypeOK, Depths
<1> QED
  BY <1>1 DEF SkippedIsDead

(* Every step keeps the rest of the invariant. *)
LEMMA InvStep == IInv /\ [Next]_vars => IInv'
<1> DEFINE Kept == LiveIsSubscribed' /\ SkippedIsDead' /\ OnceIsSpent'
<1> SUFFICES ASSUME IInv, [Next]_vars PROVE Kept
  BY TypeStep DEF IInv
<1>0. TypeOK /\ IdleAbove /\ TypeOK' /\ IdleAbove'
  BY TypeStep DEF IInv
<1>a. LiveIsSubscribed /\ SkippedIsDead /\ OnceIsSpent
  BY DEF IInv
<1>b. 1..made \subseteq Handlers
  BY <1>0, EventsAssumption DEF TypeOK, Handlers
<1>1. ASSUME NEW isOnce \in BOOLEAN, Subscribe(isOnce) PROVE Kept
  <2>1. \A g \in 1..made : IsRunning(g)' <=> IsRunning(g)
    BY <1>0, <1>1, SameRunning DEF Subscribe, frameVars
  <2>2. \A g \in 1..made : /\ held'[g] <=> held[g]
                           /\ alive'[g] <=> alive[g]
                           /\ once'[g] <=> once[g]
    <3>1. \A g \in 1..made : g \in Handlers /\ g # made + 1
      BY <1>0, <1>b DEF TypeOK
    <3> QED
      BY <1>0, <1>1, <3>1 DEF Subscribe, TypeOK
  <2>3. LiveIsSubscribed'
    BY <1>0, <1>a, <1>1, <2>2 DEF LiveIsSubscribed, Subscribe, Added, TypeOK
  <2>4. SkippedIsDead'
    <3>1. \A g \in 1..made : IsAlive(g)' => IsAlive(g)
      BY <2>1, <2>2 DEF IsAlive, Exists
    <3> QED
      BY <1>0, <1>a, <1>1, <3>1, SkippedKept DEF Subscribe, frameVars
  <2>5. OnceIsSpent'
    BY <1>0, <1>a, <1>1, <2>1, <2>2 DEF OnceIsSpent, Subscribe, TypeOK
  <2> QED
    BY <2>3, <2>4, <2>5
<1>2. ASSUME NEW h \in 1..made, Reset(h) PROVE Kept
  <2>1. \A g \in 1..made : IsRunning(g)' <=> IsRunning(g)
    BY <1>0, <1>2, SameRunning DEF Reset, frameVars
  <2>2. \A g \in 1..made : held'[g] => held[g]
    BY <1>0, <1>b, <1>2 DEF Reset, TypeOK
  <2>3. LiveIsSubscribed'
    BY <1>0, <1>a, <1>2, <2>2 DEF LiveIsSubscribed, Reset
  <2>4. \A g \in 1..made : IsAlive(g)' => IsAlive(g)
    BY <1>2, <2>1, <2>2 DEF IsAlive, Exists, Reset
  <2>5. SkippedIsDead'
    BY <1>0, <1>a, <1>2, <2>4, SkippedKept DEF Reset, frameVars
  <2>6. OnceIsSpent'
    BY <1>0, <1>a, <1>2, <2>1 DEF OnceIsSpent, Reset, TypeOK
  <2> QED
    BY <2>3, <2>5, <2>6
<1>4. CASE Destroy
  <2>1. \A g \in 1..made : IsRunning(g)' <=> IsRunning(g)
    BY <1>0, <1>4, SameRunning DEF Destroy, frameVars
  <2>2. \A g \in 1..made : alive'[g] => alive[g]
    <3>1. CASE depth = 0
      BY <1>b, <1>4, <3>1 DEF Destroy, DropEmitter
    <3>2. CASE depth # 0
      BY <1>4, <3>2 DEF Destroy
    <3> QED
      BY <3>1, <3>2
  <2>3. LiveIsSubscribed'
    BY <1>4 DEF LiveIsSubscribed, Destroy
  <2>4. \A g \in 1..made : IsAlive(g)' => IsAlive(g)
    BY <1>4, <2>1, <2>2 DEF IsAlive, Exists, Destroy
  <2>5. SkippedIsDead'
    BY <1>0, <1>a, <1>4, <2>4, SkippedKept DEF Destroy, frameVars
  <2>6. OnceIsSpent'
    BY <1>0, <1>a, <1>4, <2>1, <2>2 DEF OnceIsSpent, Destroy, TypeOK
  <2> QED
    BY <2>3, <2>5, <2>6
<1>5. CASE Emit
  <2>1. \A g \in 1..made : IsRunning(g)' <=> IsRunning(g)
    BY <1>0, <1>5, SameRunning DEF Emit
  <2>2. LiveIsSubscribed' /\ OnceIsSpent'
    BY <1>0, <1>a, <1>5, <2>1 DEF LiveIsSubscribed, OnceIsSpent, Emit, handlerVars, TypeOK
  <2>3. \A g \in 1..made : IsAlive(g)' <=> IsAlive(g)
    BY <1>5, <2>1 DEF IsAlive, Exists, Emit, handlerVars
  <2>4. SkippedIsDead'
    BY <1>0, <1>a, <1>5, <2>3, EventsAssumption DEF SkippedIsDead, Emit, TypeOK, Depths
  <2> QED
    BY <2>2, <2>4
<1>3. ASSUME NEW h \in 1..made, Invoke(h) PROVE Kept
  <2>1. /\ UNCHANGED <<event, made, held, alive, once, subscriptions, depth, invoke_list>>
        /\ depth \in Depths /\ depth \in 1..depth /\ running[depth] = 0
        /\ todo' = [todo EXCEPT ![depth] = todo[depth] \ {h}]
    BY <1>0, <1>3 DEF Invoke, Rest, handlerVars, TypeOK, Depths
  <2>2. LiveIsSubscribed'
    BY <1>a, <2>1 DEF LiveIsSubscribed
  <2>3. CASE IsAlive(h)
    <3>1. /\ running' = [running EXCEPT ![depth] = h]
          /\ called' = [called EXCEPT ![depth] = called[depth] \cup {h}]
          /\ ever' = ever \cup {h}
      BY <1>3, <2>3 DEF Invoke
    <3>2. IsRunning(h)' /\ \A g \in 1..made : g # h => (IsRunning(g)' <=> IsRunning(g))
      BY <1>0, <2>1, <3>1 DEF IsRunning, TypeOK, Depths
    <3>3. OnceIsSpent'
      BY <1>0, <1>a, <2>1, <3>1, <3>2 DEF OnceIsSpent, TypeOK
    <3>4. \A g \in 1..made : IsAlive(g)' => IsAlive(g)
      BY <2>1, <2>3, <3>2 DEF IsAlive, Exists
    <3>5. ASSUME NEW d \in 1..depth, NEW g \in invoke_list'[d] \ todo'[d]
          PROVE  g \in called'[d] \/ ~IsAlive(g)'
      <4>1. d \in Depths /\ g \in 1..made
        <5>1. d \in Depths
          BY <1>0, EventsAssumption DEF TypeOK, Depths
        <5> QED
          BY <1>0, <2>1, <5>1 DEF TypeOK
      <4>2. CASE d = depth /\ g = h
        BY <1>0, <2>1, <3>1, <4>2 DEF TypeOK
      <4>3. CASE ~(d = depth /\ g = h)
        <5>1. g \in invoke_list[d] \ todo[d]
          BY <1>0, <2>1, <4>1, <4>3 DEF TypeOK
        <5>2. g \in called[d] \/ ~IsAlive(g)
          BY <1>a, <5>1 DEF SkippedIsDead
        <5> QED
          BY <1>0, <3>1, <3>4, <4>1, <5>2 DEF TypeOK
      <4> QED
        BY <4>2, <4>3
    <3>6. SkippedIsDead'
      BY <2>1, <3>5 DEF SkippedIsDead
    <3> QED
      BY <2>2, <3>3, <3>6
  <2>4. CASE ~IsAlive(h)
    <3>1. UNCHANGED <<running, called, ever>>
      BY <1>3, <2>4 DEF Invoke
    <3>2. \A g \in 1..made : IsRunning(g)' <=> IsRunning(g)
      BY <2>1, <3>1 DEF IsRunning
    <3>3. OnceIsSpent'
      BY <1>0, <1>a, <2>1, <3>1, <3>2 DEF OnceIsSpent, TypeOK
    <3>4. \A g \in 1..made : IsAlive(g)' <=> IsAlive(g)
      BY <2>1, <3>2 DEF IsAlive, Exists
    <3>5. ASSUME NEW d \in 1..depth, NEW g \in invoke_list'[d] \ todo'[d]
          PROVE  g \in called'[d] \/ ~IsAlive(g)'
      <4>1. d \in Depths /\ g \in 1..made
        <5>1. d \in Depths
          BY <1>0, EventsAssumption DEF TypeOK, Depths
        <5> QED
          BY <1>0, <2>1, <5>1 DEF TypeOK
      <4>2. CASE g = h
        BY <2>4, <3>4, <4>2
      <4>3. CASE g # h
        <5>1. g \in invoke_list[d] \ todo[d]
          BY <1>0, <2>1, <4>1, <4>3 DEF TypeOK
        <5> QED
          BY <1>a, <3>1, <3>4, <4>1, <5>1 DEF SkippedIsDead
      <4> QED
        BY <4>2, <4>3
    <3>6. SkippedIsDead'
      BY <2>1, <3>5 DEF SkippedIsDead
    <3> QED
      BY <2>2, <3>3, <3>6
  <2> QED
    BY <2>3, <2>4
<1>6. CASE Return
  <2>1. /\ UNCHANGED <<event, made, held, once, subscriptions, depth, invoke_list, todo,
                       called, ever>>
        /\ running' = [running EXCEPT ![depth] = 0]
        /\ depth \in Depths /\ running[depth] \in 1..made
        /\ alive' = Retired(running[depth])
    BY <1>0, <1>6 DEF Return, TypeOK, Depths
  <2>2. \A g \in 1..made : IsRunning(g)' => IsRunning(g)
    BY <1>0, <2>1 DEF IsRunning, TypeOK, Depths
  <2>3. \A g \in 1..made : g # running[depth] => (IsRunning(g)' <=> IsRunning(g))
    BY <1>0, <2>1 DEF IsRunning, TypeOK, Depths
  <2>4. \A g \in 1..made : alive'[g] => alive[g]
    BY <1>0, <1>b, <2>1 DEF Retired, TypeOK
  <2>5. once[running[depth]] => ~alive'[running[depth]]
    BY <1>0, <1>b, <2>1 DEF Retired, TypeOK
  <2>6. LiveIsSubscribed'
    BY <1>a, <2>1, <2>4 DEF LiveIsSubscribed
  <2>7. \A g \in 1..made : IsAlive(g)' => IsAlive(g)
    BY <2>1, <2>2, <2>4 DEF IsAlive, Exists
  <2>8. SkippedIsDead'
    BY <1>0, <1>a, <2>1, <2>7, SkippedKept
  <2>9. OnceIsSpent'
    BY <1>0, <1>a, <2>1, <2>3, <2>4, <2>5 DEF OnceIsSpent, TypeOK
  <2> QED
    BY <2>6, <2>8, <2>9
<1>7. CASE CleanUp
  <2>1. /\ UNCHANGED <<event, made, held, once, todo, running, ever>>
        /\ depth \in Depths /\ depth' = depth - 1 /\ running[depth] = 0
        /\ subscriptions' = {h \in subscriptions : IsAlive(h)}
        /\ invoke_list' = [invoke_list EXCEPT ![depth] = {}]
        /\ called' = [called EXCEPT ![depth] = {}]
    BY <1>0, <1>7 DEF CleanUp, Cleaned, TypeOK, Depths
  <2>2. \A g \in 1..made : IsRunning(g)' <=> IsRunning(g)
    BY <1>0, <2>1, SameRunning, EventsAssumption DEF Depths
  <2>3. /\ event => alive' = alive
        /\ \A g \in 1..made : alive'[g] => alive[g]
    BY <1>b, <1>7 DEF CleanUp
  <2>4. LiveIsSubscribed'
    BY <1>a, <2>1, <2>3 DEF LiveIsSubscribed, IsAlive, Exists
  <2>5. \A g \in 1..made : IsAlive(g)' => IsAlive(g)
    BY <2>1, <2>2, <2>3 DEF IsAlive, Exists
  <2>6. ASSUME NEW d \in 1..depth', NEW g \in invoke_list'[d] \ todo'[d]
        PROVE  g \in called'[d] \/ ~IsAlive(g)'
    <3>1. d \in Depths /\ d # depth /\ d \in 1..depth
      BY <1>0, <2>1, EventsAssumption DEF TypeOK, Depths
    <3>2. g \in invoke_list[d] \ todo[d] /\ called'[d] = called[d] /\ g \in 1..made
      BY <1>0, <2>1, <3>1 DEF TypeOK
    <3> QED
      BY <1>a, <2>5, <3>1, <3>2 DEF SkippedIsDead
  <2>7. SkippedIsDead'
    BY <2>6 DEF SkippedIsDead
  <2>8. OnceIsSpent'
    BY <1>0, <1>a, <2>1, <2>2, <2>3 DEF OnceIsSpent, TypeOK
  <2> QED
    BY <2>4, <2>7, <2>8
<1>8. CASE UNCHANGED vars
  <2>1. \A g \in 1..made : IsAlive(g)' <=> IsAlive(g)
    BY <1>8 DEF vars, handlerVars, frameVars, IsAlive, Exists, IsRunning
  <2>2. SkippedIsDead'
    BY <1>0, <1>a, <1>8, <2>1, SkippedKept DEF vars, frameVars
  <2> QED
    BY <1>a, <1>8, <2>2 DEF vars, handlerVars, frameVars, LiveIsSubscribed, OnceIsSpent,
                            IsRunning
<1> QED
  BY <1>1, <1>2, <1>3, <1>4, <1>5, <1>6, <1>7, <1>8 DEF Next

(* Spec keeps the invariant. *)
LEMMA Invariance == Spec => []IInv
  BY InitInv, InvStep, PTL DEF Spec

(* The variables keep their types. *)
THEOREM EventsTypeCorrect == Spec => []TypeOK
<1>1. IInv => TypeOK
  BY DEF IInv
<1> QED
  BY <1>1, Invariance, PTL

(* No live subscription is lost by emissions inside each other that        *)
(* subscribe and clean the same list (EventEmitter::Emit, Add).            *)
THEOREM NoSubscriptionLost == Spec => []LiveIsSubscribed
<1>1. IInv => LiveIsSubscribed
  BY DEF IInv
<1> QED
  BY <1>1, Invariance, PTL

(* An emission calls every handler of its list that stays alive.           *)
THEOREM EmissionReachesLive == Spec => []SkippedIsDead
<1>1. IInv => SkippedIsDead
  BY DEF IInv
<1> QED
  BY <1>1, Invariance, PTL

(* A handler for one call that has been called is dead or still in its     *)
(* call (EventHandler::invoke).                                            *)
THEOREM OnceHandlersAreSpent == Spec => []OnceIsSpent
<1>1. IInv => OnceIsSpent
  BY DEF IInv
<1> QED
  BY <1>1, Invariance, PTL

(* The three together: what is proved for every number of handlers and     *)
(* every depth of emissions inside each other (EventEmitter::Emit).        *)
THEOREM EmissionsAreCorrect == Spec => []EmissionCorrect
<1>1. IInv => EmissionCorrect
  BY DEF IInv, EmissionCorrect
<1> QED
  BY <1>1, Invariance, PTL
=============================================================================
