---------------------------- MODULE StreamLemmas ----------------------------
(***************************************************************************)
(* Facts about ring indices, about what the two ends of a safe stream are  *)
(* made of, and about the steps of the receiving end, for every size of    *)
(* the ring and the window.                                                *)
(***************************************************************************)
EXTENDS SafeStreamReceiving, WellFoundedInduction, TLAPS

-----------------------------------------------------------------------------
(* The arithmetic of RingIndex *)

\* The remainder is taken below the end of the ring.
LEMMA ModRange == \A val \in Nat : val % RingMax \in 0 .. RingMax - 1
  BY RingMaxAssumption

\* A value below the end of the ring is its own remainder.
LEMMA ModSmall == \A val \in 0 .. RingMax - 1 : val % RingMax = val
  BY RingMaxAssumption

\* The constructor of RingIndex yields an index.
LEMMA RingType == \A val \in Nat : Ring(val) \in RingValues
  BY ModRange, RingMaxAssumption DEF Ring, RingValues

\* Clockwise stays on the ring, its value RingMax included.
LEMMA ClockwiseType == \A i \in RingValues, val \in Nat : Clockwise(i, val) \in RingValues
<1> SUFFICES ASSUME NEW i \in RingValues, NEW val \in Nat
             PROVE  Clockwise(i, val) \in RingValues
  OBVIOUS
<1> DEFINE v == val % RingMax
<1>1. v \in 0 .. RingMax - 1
  BY ModRange
<1> HIDE DEF v
<1>2. Clockwise(i, val) = IF RingMax - v < i THEN v - (RingMax - i) - 1 ELSE i + v
  BY DEF Clockwise, v
<1> QED
  BY <1>1, <1>2, RingMaxAssumption DEF RingValues

\* CounterClockwise stays on the ring.
LEMMA CounterClockwiseType ==
    \A i \in RingValues, val \in Nat : CounterClockwise(i, val) \in RingValues
<1> SUFFICES ASSUME NEW i \in RingValues, NEW val \in Nat
             PROVE  CounterClockwise(i, val) \in RingValues
  OBVIOUS
<1> DEFINE v == val % RingMax
<1>1. v \in 0 .. RingMax - 1
  BY ModRange
<1> HIDE DEF v
<1>2. CounterClockwise(i, val) = IF i < v THEN RingMax - (v - i) ELSE i - v
  BY DEF CounterClockwise, v
<1> QED
  BY <1>1, <1>2, RingMaxAssumption DEF RingValues

\* operator+ and operator- stay on the ring.
LEMMA PlusMinusType ==
    \A i \in RingValues, val \in Int : Plus(i, val) \in RingValues /\ Minus(i, val) \in RingValues
  BY ClockwiseType, CounterClockwiseType DEF Plus, Minus

\* Distance stays within the ring's size.
LEMMA DistanceType == \A i, j \in RingValues : Distance(i, j) \in 0 .. RingMax
  BY RingMaxAssumption DEF Distance, RingValues

\* A move that does not pass the end of the ring is an addition.
LEMMA PlusNoWrap ==
    \A i \in RingValues, val \in Nat :
        val < RingMax /\ i + val <= RingMax => Plus(i, val) = i + val
<1> SUFFICES ASSUME NEW i \in RingValues, NEW val \in Nat, val < RingMax, i + val <= RingMax
             PROVE  Plus(i, val) = i + val
  OBVIOUS
<1>1. val % RingMax = val
  BY ModSmall, RingMaxAssumption
<1> QED
  BY <1>1, RingMaxAssumption DEF Plus, Clockwise, RingValues

\* Clockwise is addition as well, when it does not pass the end.
LEMMA ClockwiseNoWrap ==
    \A i \in RingValues, val \in Nat :
        val < RingMax /\ i + val <= RingMax => Clockwise(i, val) = i + val
<1> SUFFICES ASSUME NEW i \in RingValues, NEW val \in Nat, val < RingMax, i + val <= RingMax
             PROVE  Clockwise(i, val) = i + val
  OBVIOUS
<1>1. val % RingMax = val
  BY ModSmall, RingMaxAssumption
<1> QED
  BY <1>1, RingMaxAssumption DEF Clockwise, RingValues

\* A move back that does not pass zero is a subtraction.
LEMMA MinusNoWrap ==
    \A i \in RingValues, val \in Nat : val < RingMax /\ val <= i => Minus(i, val) = i - val
<1> SUFFICES ASSUME NEW i \in RingValues, NEW val \in Nat, val < RingMax, val <= i
             PROVE  Minus(i, val) = i - val
  OBVIOUS
<1>1. val % RingMax = val
  BY ModSmall, RingMaxAssumption
<1> QED
  BY <1>1, RingMaxAssumption DEF Minus, CounterClockwise, RingValues

\* The distance to an index ahead.
LEMMA DistanceAhead == \A i, j \in RingValues : i <= j => Distance(i, j) = j - i
  BY RingMaxAssumption DEF Distance, RingValues

\* The distance to an index behind: the ring counts as RingMax long here, though
\* Clockwise walks through RingMax + 1 values.
LEMMA DistanceBehind == \A i, j \in RingValues : j < i => Distance(i, j) = RingMax - i + j
  BY RingMaxAssumption DEF Distance, RingValues

\* However a RingIndex is moved, value_ stays in 0 .. RingMax, one value more
\* than the class comment of RingIndex allows.
THEOREM RingMovesStay ==
    \A i \in RingValues, val \in Nat :
        /\ Ring(val) \in RingValues
        /\ Plus(i, val) \in RingValues /\ Minus(i, val) \in RingValues
  BY RingType, PlusMinusType

\* On every index the class can hold, a move that does not pass the end of the
\* ring is measured by Distance and taken back by the opposite move.
THEOREM RingMovesMeasured == \A i \in RingValues : MovesMeasured(i)
<1> SUFFICES ASSUME NEW i \in RingValues, NEW val \in 0 .. RingMax - 1, i + val <= RingMax
             PROVE  /\ Plus(i, val) = i + val
                    /\ Distance(i, Plus(i, val)) = val
                    /\ Minus(Plus(i, val), val) = i
  BY DEF MovesMeasured
<1>1. i \in Nat
  BY RingMaxAssumption DEF RingValues
<1>2. Plus(i, val) = i + val
  BY <1>1, PlusNoWrap, RingMaxAssumption
<1>3. i + val \in RingValues
  BY <1>1, RingMaxAssumption DEF RingValues
<1>4. Distance(i, i + val) = val
  BY <1>1, <1>3, DistanceAhead, RingMaxAssumption
<1>5. Minus(i + val, val) = i
  BY <1>1, <1>3, MinusNoWrap, RingMaxAssumption
<1> QED
  BY <1>2, <1>4, <1>5
-----------------------------------------------------------------------------
(* Induction and recursion on an interval of numbers *)

\* A set of numbers that is not empty has a least one.
LEMMA LeastNumber ==
    ASSUME NEW T \in SUBSET Nat, T # {}
    PROVE  \E x \in T : \A y \in T : x <= y
<1>1. IsWellFoundedOn(OpToRel(<, Nat), Nat)
  BY NatLessThanWellFounded, Zenon
<1>2. PICK x \in T : \A y \in T : <<y, x>> \notin OpToRel(<, Nat)
  BY <1>1, WFMin, Zenon
<1>3. ASSUME NEW y \in T PROVE x <= y
  <2>1. y < x => <<y, x>> \in OpToRel(<, Nat)
    BY DEF OpToRel
  <2>2. ~(y < x) /\ x \in Nat /\ y \in Nat
    BY <1>2, <2>1, Zenon
  <2> QED
    BY <2>2
<1> QED
  BY <1>3

\* What holds of zero and is passed on from each number to the next holds up
\* to m.
LEMMA UpToM ==
    ASSUME NEW m \in Nat, NEW S, 0 \in S, \A n \in 1 .. m : n - 1 \in S => n \in S
    PROVE  \A n \in 0 .. m : n \in S
<1> SUFFICES ASSUME {n \in 0 .. m : n \notin S} # {} PROVE FALSE
  OBVIOUS
<1>1. PICK x \in {n \in 0 .. m : n \notin S} : \A y \in {n \in 0 .. m : n \notin S} : x <= y
  <2>1. {n \in 0 .. m : n \notin S} \in SUBSET Nat
    OBVIOUS
  <2> QED
    BY <2>1, LeastNumber, Zenon
<1>2. x \in 1 .. m /\ x - 1 \in 0 .. m /\ ~(x <= x - 1)
  BY <1>1
<1>3. x - 1 \in S
  BY <1>1, <1>2
<1> QED
  BY <1>1, <1>2, <1>3

\* The m first steps lead from each set of G to the next.
Steps(m, G, step) ==
    \A n \in 1 .. m : \A v \in G[n - 1] : step[n][v] \in G[n]

\* f begins with base and goes m steps, through the sets of G.
IsRun(m, G, base, step, f) ==
    /\ f = [n \in 0 .. m |-> f[n]]
    /\ f[0] = base
    /\ \A n \in 1 .. m : f[n] = step[n][f[n - 1]]
    /\ \A n \in 0 .. m : f[n] \in G[n]

\* A function that is defined by its first value and by the step from each
\* value to the next exists, and its values are in the sets the steps lead to.
LEMMA Recursion ==
    ASSUME NEW m \in Nat, NEW G, NEW base \in G[0], NEW step, Steps(m, G, step)
    PROVE  \E f : IsRun(m, G, base, step, f)
<1> USE DEF Steps, IsRun
<1> DEFINE Good(j, f) == IsRun(j, G, base, step, f)
           S == {j \in 0 .. m : \E f : Good(j, f)}
<1>1. 0 \in S
  <2> DEFINE f == [n \in 0 .. 0 |-> base]
  <2>1. Good(0, f)
    OBVIOUS
  <2> HIDE DEF Good, f
  <2> QED
    BY <2>1
<1>2. ASSUME NEW j \in 1 .. m, j - 1 \in S PROVE j \in S
  <2>1. PICK f : Good(j - 1, f)
    BY <1>2
  <2> DEFINE g == [n \in 0 .. j |-> IF n = j THEN step[j][f[j - 1]] ELSE f[n]]
  <2>2. f[j - 1] \in G[j - 1] /\ step[j][f[j - 1]] \in G[j]
    BY <2>1
  <2>3. \A n \in 0 .. j - 1 : g[n] = f[n] /\ f[n] \in G[n]
    BY <2>1
  <2>4. g[j] = step[j][f[j - 1]] /\ g = [n \in 0 .. j |-> g[n]]
    OBVIOUS
  <2> HIDE DEF g
  <2>5. \A n \in 0 .. j : g[n] \in G[n]
    <3> TAKE n \in 0 .. j
    <3>1. CASE n = j
      BY <3>1, <2>2, <2>4
    <3>2. CASE n # j
      <4>1. n \in 0 .. j - 1
        BY <3>2
      <4> QED
        BY <4>1, <2>3
    <3> QED
      BY <3>1, <3>2
  <2>6. \A n \in 1 .. j : g[n] = step[n][g[n - 1]]
    <3> TAKE n \in 1 .. j
    <3>0. n - 1 \in 0 .. j - 1 /\ g[n - 1] = f[n - 1]
      BY <2>3
    <3>1. CASE n = j
      BY <3>0, <3>1, <2>4
    <3>2. CASE n # j
      <4>1. n \in 0 .. j - 1 /\ n \in 1 .. j - 1
        BY <3>2
      <4> QED
        BY <3>0, <4>1, <2>1, <2>3, Zenon
    <3> QED
      BY <3>1, <3>2
  <2>7. g[0] = base
    <3>1. 0 \in 0 .. j - 1
      OBVIOUS
    <3> QED
      BY <3>1, <2>1, <2>3
  <2>8. Good(j, g)
    BY <2>4, <2>5, <2>6, <2>7, Zenon
  <2> HIDE DEF Good
  <2> QED
    BY <2>8
<1> HIDE DEF S
<1>3. m \in S
  BY <1>1, <1>2, UpToM
<1>4. PICK f : Good(m, f)
  BY <1>3 DEF S
<1> QED
  BY <1>4, Zenon
-----------------------------------------------------------------------------
(* Minima, maxima and sequences *)

\* The least number of a set of numbers, and the greatest of a bounded one.
LEMMA MinIn ==
    ASSUME NEW T \in SUBSET Nat, T # {}
    PROVE  Min(T) \in T /\ \A y \in T : Min(T) <= y
<1>1. \E x \in T : \A y \in T : x <= y
  BY LeastNumber
<1> QED
  BY <1>1, Zenon DEF Min

\* The largest of some indices is one of them.
LEMMA MaxIn ==
    ASSUME NEW m \in Nat, NEW T \in SUBSET (1 .. m), T # {}
    PROVE  Max(T) \in T
<1>1. {m - x : x \in T} \in SUBSET Nat /\ {m - x : x \in T} # {}
  <2>1. \A x \in T : m - x \in Nat
    OBVIOUS
  <2> QED
    BY <2>1, Zenon
<1>2. PICK d \in {m - x : x \in T} : \A y \in {m - x : x \in T} : d <= y
  BY <1>1, LeastNumber, Zenon
<1>3. PICK x \in T : d = m - x
  BY <1>2
<1>4. \A y \in T : x >= y
  <2> TAKE y \in T
  <2>1. m - x <= m - y
    BY <1>2, <1>3, Zenon
  <2> QED
    BY <2>1
<1>5. \E z \in T : \A y \in T : z >= y
  BY <1>4
<1> QED
  BY <1>5, Zenon DEF Max

\* The smaller of two numbers is one of them.
LEMMA MinOfTwo ==
    ASSUME NEW a \in Nat, NEW b \in Nat
    PROVE  Min({a, b}) \in {a, b} /\ Min({a, b}) <= a /\ Min({a, b}) <= b
<1>1. {a, b} \in SUBSET Nat /\ {a, b} # {}
  OBVIOUS
<1> QED
  BY <1>1, MinIn

\* Sequences that grow.
LEMMA AppendType ==
    ASSUME NEW S, NEW q \in Seq(S), NEW e \in S
    PROVE  Append(q, e) \in Seq(S)
  OBVIOUS

\* One sequence behind another: every element keeps its place in its part.
LEMMA JoinIs ==
    ASSUME NEW S, NEW a \in Seq(S), NEW b \in Seq(S)
    PROVE  /\ a \o b \in Seq(S) /\ Len(a \o b) = Len(a) + Len(b)
           /\ \A i \in 1 .. Len(a) : (a \o b)[i] = a[i]
           /\ \A j \in 1 .. Len(b) : (a \o b)[Len(a) + j] = b[j]
  OBVIOUS

\* Kept leaves elements at the given indices.
LEMMA KeptType ==
    ASSUME NEW S, NEW s \in Seq(S), NEW ks, NEW T, \A n \in 1 .. Len(s) : n \in ks => s[n] \in T
    PROVE  Kept(s, ks) \in Seq(T)
<1> DEFINE m == Len(s)
           IsUpTo(g) == g = [n \in 0 .. m |->
               IF n = 0 THEN <<>> ELSE IF n \in ks THEN Append(g[n - 1], s[n]) ELSE g[n - 1]]
           upTo == CHOOSE g : IsUpTo(g)
<1>0. m \in Nat
  OBVIOUS
<1>1. Kept(s, ks) = upTo[m]
  BY Zenon DEF Kept
<1>2. \E g : IsUpTo(g)
  <2> DEFINE G == [n \in 0 .. m |-> Seq(T)]
             step == [n \in 1 .. m |-> [v \in Seq(T) |-> IF n \in ks THEN Append(v, s[n]) ELSE v]]
  <2> HIDE DEF m
  <2>1. ASSUME NEW n \in 1 .. m, NEW v \in G[n - 1] PROVE step[n][v] \in G[n]
    <3>1. G[n - 1] = Seq(T) /\ G[n] = Seq(T)
      BY <1>0
    <3>2. v \in Seq(T) /\ step[n][v] = IF n \in ks THEN Append(v, s[n]) ELSE v
      BY <3>1
    <3>3. n \in ks => s[n] \in T
      BY DEF m
    <3> HIDE DEF G, step
    <3> QED
      BY <3>1, <3>2, <3>3
  <2>2. <<>> \in G[0]
    BY <1>0
  <2>3. PICK g : /\ g = [n \in 0 .. m |-> g[n]]
                 /\ g[0] = <<>>
                 /\ \A n \in 1 .. m : g[n] = step[n][g[n - 1]]
                 /\ \A n \in 0 .. m : g[n] \in G[n]
    <3> DEFINE base == <<>>
    <3>1. Steps(m, G, step)
      BY <2>1, Zenon DEF Steps
    <3>2. base \in G[0]
      BY <2>2
    <3> HIDE DEF G, step, base
    <3>3. \E g : IsRun(m, G, base, step, g)
      BY <1>0, <3>1, <3>2, Recursion
    <3> QED
      BY <3>3, Zenon DEF base, IsRun
  <2>4. ASSUME NEW n \in 1 .. m
        PROVE  step[n][g[n - 1]] = IF n \in ks THEN Append(g[n - 1], s[n]) ELSE g[n - 1]
    <3>1. g[n - 1] \in Seq(T)
      <4>1. n - 1 \in 0 .. m /\ G[n - 1] = Seq(T)
        BY <1>0
      <4> HIDE DEF G
      <4> QED
        BY <2>3, <4>1
    <3> QED
      BY <3>1
  <2>5. IsUpTo(g)
    <3> HIDE DEF step
    <3>1. ASSUME NEW n \in 0 .. m
          PROVE  g[n] = IF n = 0 THEN <<>>
                        ELSE IF n \in ks THEN Append(g[n - 1], s[n]) ELSE g[n - 1]
      <4>1. CASE n = 0
        BY <2>3, <4>1
      <4>2. CASE n # 0
        <5>1. n \in 1 .. m
          BY <4>2
        <5> QED
          BY <2>3, <2>4, <4>2, <5>1, Zenon
      <4> QED
        BY <4>1, <4>2
    <3> QED
      BY <2>3, <3>1, Zenon
  <2> QED
    BY <2>5, Zenon
<1>3. IsUpTo(upTo)
  <2> HIDE DEF IsUpTo
  <2> QED
    BY <1>2, Zenon
<1> HIDE DEF upTo
<1>4. \A n \in 0 .. m : upTo[n] \in Seq(T)
  <2> DEFINE Good == {n \in 0 .. m : upTo[n] \in Seq(T)}
  <2> HIDE DEF m
  <2>1. 0 \in Good
    BY <1>0, <1>3
  <2>2. ASSUME NEW n \in 1 .. m, n - 1 \in Good PROVE n \in Good
    <3>1. upTo[n - 1] \in Seq(T) /\ n \in 0 .. m
      BY <1>0, <2>2
    <3>2. upTo[n] = IF n \in ks THEN Append(upTo[n - 1], s[n]) ELSE upTo[n - 1]
      <4>1. upTo[n] = IF n = 0 THEN <<>>
                      ELSE IF n \in ks THEN Append(upTo[n - 1], s[n]) ELSE upTo[n - 1]
        BY <1>3, <3>1, Zenon
      <4> QED
        BY <4>1
    <3>3. n \in ks => s[n] \in T
      BY DEF m
    <3>4. upTo[n] \in Seq(T)
      <4> HIDE DEF IsUpTo
      <4> QED
        BY <3>1, <3>2, <3>3
    <3> QED
      BY <3>1, <3>4
  <2> HIDE DEF Good
  <2>3. \A n \in 0 .. m : n \in Good
    BY <1>0, <2>1, <2>2, UpToM, Zenon
  <2> QED
    BY <2>3 DEF Good
<1> QED
  BY <1>0, <1>1, <1>4
-----------------------------------------------------------------------------
(* The types of the receiving end *)

\* The constants as numbers.
LEMMA Sizes ==
    /\ RingMax \in Nat \ {0} /\ WindowSize \in Nat \ {0} /\ WindowSize <= RingMax
    /\ MaxRepeatCount \in Nat /\ RingValues = 0 .. RingMax
  BY RingMaxAssumption, WindowAssumption, RepeatAssumption DEF RingValues

\* A slice of the stream is data, of the length it is said to have.
LEMMA BytesType ==
    \A from, size \in Nat : /\ Bytes(from, size) \in Seq(Int)
                            /\ Len(Bytes(from, size)) = size
                            /\ \A j \in 1 .. size : Bytes(from, size)[j] = from + j - 1
<1> TAKE from, size \in Nat
<1>1. \A j \in 1 .. size : from + j - 1 \in Int
  OBVIOUS
<1> QED
  BY <1>1 DEF Bytes

\* What CutAt keeps is data.
LEMMA CutType ==
    ASSUME NEW offset \in RingValues, NEW data \in Seq(Int), NEW next \in RingValues
    PROVE  CutAt(offset, data, next) \in Seq(Int)
<1>1. Distance(offset, next) \in Nat
  <2>1. Distance(offset, next) \in 0 .. RingMax
    BY DistanceType
  <2> QED
    BY <2>1, Sizes
<1> DEFINE d == Distance(offset, next)
           cut == [j \in 1 .. d |-> IF j <= Len(data) THEN data[j] ELSE Garbage]
<1> HIDE DEF d
<1>2. \A j \in 1 .. d : (IF j <= Len(data) THEN data[j] ELSE Garbage) \in Int
  BY <1>1 DEF d, Garbage
<1>3. cut \in Seq(Int)
  BY <1>1, <1>2 DEF d
<1> QED
  BY <1>3 DEF CutAt, d

\* The offset after any number of chunks is an offset.
LEMMA NextOffsetType ==
    ASSUME NEW chunks \in Seq(Chunk), NEW base \in RingValues, NEW i \in 0 .. Len(chunks)
    PROVE  NextOffset(chunks, base, i) \in RingValues
<1>1. CASE i = 0
  BY <1>1 DEF NextOffset
<1>2. CASE i # 0
  <2>1. chunks[i] \in Chunk
    BY <1>2
  <2>2. chunks[i].offset \in RingValues /\ Len(chunks[i].data) \in Int
    BY <2>1 DEF Chunk
  <2> QED
    BY <1>2, <2>2, PlusMinusType DEF NextOffset
<1> QED
  BY <1>1, <1>2

\* The requested offsets are among the offsets after the chunks.
LEMMA MissedType ==
    ASSUME NEW chunks, NEW base, NEW R, Len(chunks) \in Nat,
           \A i \in 1 .. Len(chunks) : NextOffset(chunks, base, i - 1) \in R
    PROVE  MissedOffsets(chunks, base) \in Seq(R \cup {NoGap})
  BY DEF MissedOffsets

\* The repeat counts stay counts, of offsets.
LEMMA ExpectedType ==
    ASSUME NEW missed \in Seq(RingValues \cup {NoGap}), NEW D \in SUBSET RingValues,
           expected_chunks \in [D -> Nat]
    PROVE  \E E \in SUBSET RingValues : AddExpectedChunks(missed) \in [E -> Nat]
<1> DEFINE requested == {missed[i] : i \in DOMAIN missed} \ {NoGap}
           again(o) == {i \in DOMAIN missed :
                          missed[i] = o /\ (o \in D \/ \E j \in 1 .. i - 1 : missed[j] = o)}
           count(o) == Len(Kept(missed, again(o)))
<1>1. requested \subseteq RingValues
  OBVIOUS
<1>2. DOMAIN expected_chunks = D
  OBVIOUS
<1>3. AddExpectedChunks(missed) =
        [o \in D \cup requested |-> (IF o \in D THEN expected_chunks[o] ELSE 0) + count(o)]
  BY <1>2, Zenon DEF AddExpectedChunks
<1>4. ASSUME NEW o PROVE count(o) \in Nat
  <2> HIDE DEF again
  <2>1. \A n \in 1 .. Len(missed) : n \in again(o) => missed[n] \in RingValues \cup {NoGap}
    OBVIOUS
  <2>2. Kept(missed, again(o)) \in Seq(RingValues \cup {NoGap})
    BY <2>1, KeptType
  <2> QED
    BY <2>2
<1> HIDE DEF requested, count
<1>5. \A o \in D \cup requested : (IF o \in D THEN expected_chunks[o] ELSE 0) + count(o) \in Nat
  BY <1>4
<1>6. AddExpectedChunks(missed) \in [D \cup requested -> Nat]
  BY <1>3, <1>5
<1> QED
  BY <1>1, <1>6, Zenon

\* Inserting a chunk keeps a sequence of chunks one.
LEMMA InsertType ==
    ASSUME NEW S, NEW seq \in Seq(S), NEW at \in 1 .. Len(seq), NEW e \in S
    PROVE  Inserted(seq, at, e) \in Seq(S)
  BY DEF Inserted

\* AddDataChunk leaves chunks of a set that holds the old ones and the new one,
\* whole or cut, and keeps the repeat counts counts.
LEMMA AddDataChunkStep ==
    ASSUME NEW S, received_data_chunks \in Seq(S),
           NEW D \in SUBSET RingValues, expected_chunks \in [D -> Nat],
           NEW offset, NEW data, [offset |-> offset, data |-> data] \in S,
           \A at \in FirstAfter(offset) : received_data_chunks[at].offset # offset =>
              [offset |-> offset, data |-> CutAt(offset, data, received_data_chunks[at].offset)]
                \in S,
           AddDataChunk(offset, data)
    PROVE  /\ received_data_chunks' \in Seq(S)
           /\ \E E \in SUBSET RingValues : expected_chunks' \in [E -> Nat]
<1>1. CASE /\ received_data_chunks' =
                Append(received_data_chunks, [offset |-> offset, data |-> data])
           /\ UNCHANGED expected_chunks
  BY <1>1
<1>2. CASE UNCHANGED <<received_data_chunks, expected_chunks>>
  BY <1>2
<1>3. ASSUME NEW at \in FirstAfter(offset), received_data_chunks[at].offset # offset,
             received_data_chunks' =
               Inserted(received_data_chunks, at,
                        [offset |-> offset,
                         data |-> CutAt(offset, data, received_data_chunks[at].offset)]),
             expected_chunks' = [o \in DOMAIN expected_chunks \ {offset} |-> expected_chunks[o]]
      PROVE  /\ received_data_chunks' \in Seq(S)
             /\ \E E \in SUBSET RingValues : expected_chunks' \in [E -> Nat]
  <2>1. at \in 1 .. Len(received_data_chunks)
    BY DEF FirstAfter, AtOrAfter
  <2>2. received_data_chunks' \in Seq(S)
    BY <1>3, <2>1, InsertType
  <2>3. expected_chunks' \in [D \ {offset} -> Nat]
    BY <1>3
  <2> QED
    BY <2>2, <2>3, Zenon
<1> QED
  BY <1>1, <1>2, <1>3, Zenon DEF AddDataChunk

\* Whatever data arrives at whatever offset, the receiver keeps its types.
LEMMA ReceiveTypes ==
    ASSUME RvTypeOK, NEW offset \in RingValues, NEW data \in Seq(Int),
           ReceiveSend(offset, data) \/ ReceiveRepeat(offset, data)
    PROVE  RvTypeOK'
<1>1. /\ UNCHANGED <<last_confirmed_offset, delivered, response_out>>
      /\ \/ UNCHANGED <<received_data_chunks, expected_chunks>>
         \/ AddDataChunk(offset, data)
      /\ \/ UNCHANGED confirmation_queue
         \/ confirmation_queue' = Append(confirmation_queue, Plus(offset, Len(data) - 1))
  BY DEF ReceiveSend, ReceiveRepeat
<1>2. PICK D \in SUBSET RingValues : expected_chunks \in [D -> Nat]
  BY DEF RvTypeOK
<1>3. received_data_chunks \in Seq(Chunk) /\ confirmation_queue \in Seq(RingValues)
  BY DEF RvTypeOK
<1>4. /\ received_data_chunks' \in Seq(Chunk)
      /\ \E E \in SUBSET RingValues : expected_chunks' \in [E -> Nat]
  <2>1. ASSUME AddDataChunk(offset, data)
        PROVE  /\ received_data_chunks' \in Seq(Chunk)
               /\ \E E \in SUBSET RingValues : expected_chunks' \in [E -> Nat]
    <3>1. [offset |-> offset, data |-> data] \in Chunk
      BY DEF Chunk
    <3>2. ASSUME NEW at \in FirstAfter(offset)
          PROVE  [offset |-> offset,
                  data |-> CutAt(offset, data, received_data_chunks[at].offset)] \in Chunk
      <4>1. received_data_chunks[at] \in Chunk
        BY <1>3 DEF FirstAfter, AtOrAfter
      <4>2. received_data_chunks[at].offset \in RingValues
        BY <4>1 DEF Chunk
      <4> QED
        BY <4>2, CutType DEF Chunk
    <3> QED
      BY <1>2, <1>3, <2>1, <3>1, <3>2, AddDataChunkStep, Zenon
  <2> QED
    BY <1>1, <1>2, <1>3, <2>1
<1>5. confirmation_queue' \in Seq(RingValues)
  <2>1. Plus(offset, Len(data) - 1) \in RingValues
    BY PlusMinusType
  <2> QED
    BY <1>1, <1>3, <2>1, AppendType, Zenon
<1> QED
  BY <1>1, <1>4, <1>5 DEF RvTypeOK

\* What Respond writes, whatever it answers.
LEMMA RespondWrites ==
    ASSUME NEW chain, NEW repeats, NEW C, confirmation_queue \in Seq(C),
           LET next == NextOffset(received_data_chunks, last_confirmed_offset, chain)
           IN  next # last_confirmed_offset => Minus(next, 1) \in C,
           NEW R, response_out \in Seq(R),
           \A cs \in Seq(C) : [confirms |-> cs, repeats |-> repeats] \in R,
           Respond(chain, repeats)
    PROVE  confirmation_queue' \in Seq(C) /\ response_out' \in Seq(R)
<1> DEFINE next == NextOffset(received_data_chunks, last_confirmed_offset, chain)
           confirms == IF next = last_confirmed_offset THEN confirmation_queue
                       ELSE Append(confirmation_queue, Minus(next, 1))
           packet == [confirms |-> confirms, repeats |-> repeats]
<1>1. /\ confirmation_queue' = confirms \/ confirmation_queue' = <<>>
      /\ response_out' = response_out \/ response_out' = Append(response_out, packet)
  BY Zenon DEF Respond
<1>2. confirms \in Seq(C)
  <2> HIDE DEF next
  <2>1. next # last_confirmed_offset => Minus(next, 1) \in C
    BY DEF next
  <2> QED
    BY <2>1
<1> HIDE DEF confirms
<1>3. packet \in R
  BY <1>2
<1> HIDE DEF packet
<1>4. confirmation_queue' \in Seq(C)
  <2>1. CASE confirmation_queue' = confirms
    BY <1>2, <2>1
  <2>2. CASE confirmation_queue' = <<>>
    BY <2>2
  <2> QED
    BY <1>1, <2>1, <2>2
<1>5. response_out' \in Seq(R)
  BY <1>1, <1>3
<1> QED
  BY <1>4, <1>5

\* Update answers with the chain CheckCompletedChains finds, and with the gaps
\* after it.
LEMMA UpdateResponds ==
    ASSUME received_data_chunks \in Seq(Chunk), NEW confirm_due \in BOOLEAN,
           NEW repeat_due \in BOOLEAN, ReceiverUpdate(confirm_due, repeat_due)
    PROVE  \E chain \in 0 .. Len(received_data_chunks) :
             /\ \A j \in 0 .. chain - 1 : Continues(received_data_chunks, last_confirmed_offset, j)
             /\ \/ Respond(chain, <<>>)
                \/ Respond(chain, MissedOffsets(
                     SubSeq(received_data_chunks, chain + 1, Len(received_data_chunks)),
                     NextOffset(received_data_chunks, last_confirmed_offset, chain)))
<1> DEFINE chunks == received_data_chunks
           base == last_confirmed_offset
           Missed(k) == MissedOffsets(SubSeq(chunks, k + 1, Len(chunks)),
                                      NextOffset(chunks, base, k))
<1>1. PICK chain \in IF confirm_due THEN Chains(chunks, base) ELSE {0} :
        Respond(chain, IF repeat_due THEN Missed(chain) ELSE <<>>)
  BY DEF ReceiverUpdate
<1>2. chain \in 0 .. Len(chunks) /\ \A j \in 0 .. chain - 1 : Continues(chunks, base, j)
  BY <1>1 DEF Chains
<1> HIDE DEF Missed
<1>3. Respond(chain, <<>>) \/ Respond(chain, Missed(chain))
  <2>1. CASE repeat_due
    BY <1>1, <2>1
  <2>2. CASE ~repeat_due
    BY <1>1, <2>2
  <2> QED
    BY <2>1, <2>2
<1> QED
  BY <1>2, <1>3 DEF Missed

\* Whatever it answers, Respond keeps the receiver's types.
LEMMA RespondTypes ==
    ASSUME RvTypeOK, NEW chain \in 0 .. Len(received_data_chunks),
           NEW repeats \in Seq(RingValues \cup {NoGap}), Respond(chain, repeats)
    PROVE  RvTypeOK'
<1> DEFINE chunks == received_data_chunks
           next == NextOffset(chunks, last_confirmed_offset, chain)
           data == [i \in 1 .. chain |-> chunks[i].data]
<1>1. /\ chunks \in Seq(Chunk) /\ last_confirmed_offset \in RingValues
      /\ delivered \in Seq(Seq(Int)) /\ confirmation_queue \in Seq(RingValues)
      /\ response_out \in Seq(Response)
  BY DEF RvTypeOK
<1>2. /\ last_confirmed_offset' = next
      /\ received_data_chunks' = SubSeq(chunks, chain + 1, Len(chunks))
      /\ delivered' = delivered \o data
      /\ expected_chunks' = AddExpectedChunks(repeats)
  BY DEF Respond
<1>3. next \in RingValues /\ Minus(next, 1) \in RingValues
  BY <1>1, NextOffsetType, PlusMinusType
<1>4. received_data_chunks' \in Seq(Chunk)
  BY <1>1, <1>2
<1>5. data \in Seq(Seq(Int))
  <2>1. ASSUME NEW i \in 1 .. chain PROVE chunks[i].data \in Seq(Int)
    <3>1. chunks[i] \in Chunk
      BY <1>1
    <3> QED
      BY <3>1 DEF Chunk
  <2> QED
    BY <2>1
<1>6. delivered' \in Seq(Seq(Int))
  <2> HIDE DEF data
  <2> QED
    BY <1>1, <1>2, <1>5
<1>7. \E E \in SUBSET RingValues : expected_chunks' \in [E -> Nat]
  BY <1>2, ExpectedType, Zenon DEF RvTypeOK
<1>8. \A cs \in Seq(RingValues) : [confirms |-> cs, repeats |-> repeats] \in Response
  BY DEF Response
<1>9. confirmation_queue' \in Seq(RingValues) /\ response_out' \in Seq(Response)
  BY <1>1, <1>3, <1>8, RespondWrites
<1> QED
  BY <1>2, <1>3, <1>4, <1>6, <1>7, <1>9 DEF RvTypeOK

\* Whatever chunks it holds, Update keeps the receiver's types.
LEMMA UpdateTypes ==
    ASSUME RvTypeOK, NEW confirm_due \in BOOLEAN, NEW repeat_due \in BOOLEAN,
           ReceiverUpdate(confirm_due, repeat_due)
    PROVE  RvTypeOK'
<1> DEFINE chunks == received_data_chunks
           base == last_confirmed_offset
           Missed(k) == MissedOffsets(SubSeq(chunks, k + 1, Len(chunks)),
                                      NextOffset(chunks, base, k))
<1>1. chunks \in Seq(Chunk) /\ base \in RingValues
  BY DEF RvTypeOK
<1>2. PICK chain \in 0 .. Len(chunks) : Respond(chain, <<>>) \/ Respond(chain, Missed(chain))
  BY <1>1, UpdateResponds
<1>3. Missed(chain) \in Seq(RingValues \cup {NoGap})
  <2> DEFINE rest == SubSeq(chunks, chain + 1, Len(chunks))
             next == NextOffset(chunks, base, chain)
  <2>1. next \in RingValues /\ rest \in Seq(Chunk)
    BY <1>1, NextOffsetType
  <2> HIDE DEF rest, next
  <2>2. ASSUME NEW i \in 1 .. Len(rest) PROVE NextOffset(rest, next, i - 1) \in RingValues
    <3>1. i - 1 \in 0 .. Len(rest)
      BY <2>1
    <3> QED
      BY <2>1, <3>1, NextOffsetType
  <2>3. Len(rest) \in Nat /\ \A i \in 1 .. Len(rest) : NextOffset(rest, next, i - 1) \in RingValues
    BY <2>1, <2>2
  <2>4. MissedOffsets(rest, next) \in Seq(RingValues \cup {NoGap})
    BY <2>3, MissedType, Zenon
  <2> QED
    BY <2>4 DEF rest, next
<1> HIDE DEF Missed
<1>4. <<>> \in Seq(RingValues \cup {NoGap})
  OBVIOUS
<1> QED
  BY <1>2, <1>3, <1>4, RespondTypes, Zenon
-----------------------------------------------------------------------------
(* The order in which the receiving end delivers *)

\* What makes a chunk genuine, and what a genuine chunk is: it lies on the ring
\* and ends inside of the stream.
LEMMA IsGenuine ==
    ASSUME NEW len \in Nat, NEW offset \in RingValues, NEW data \in Seq(Int), data # <<>>,
           offset + Len(data) <= len, data = Bytes(offset, Len(data))
    PROVE  [offset |-> offset, data |-> data] \in GenuineChunk(len)
  BY DEF GenuineChunk, Chunk

\* A genuine chunk begins and ends inside of the stream.
LEMMA ChunkEnd ==
    ASSUME NEW len \in Nat, len + WindowSize < RingMax, NEW c \in GenuineChunk(len)
    PROVE  /\ c \in Chunk /\ c.offset \in RingValues /\ c.data \in Seq(Int)
           /\ c.offset \in 0 .. len - 1
           /\ Len(c.data) \in Nat \ {0} /\ c.offset + Len(c.data) \in 1 .. len
           /\ c.data = Bytes(c.offset, Len(c.data))
           /\ Plus(c.offset, Len(c.data)) = c.offset + Len(c.data)
           /\ Plus(c.offset, Len(c.data) - 1) \in 0 .. len - 1
           /\ c.data[Len(c.data)] + 1 = c.offset + Len(c.data)
<1>1. /\ c \in Chunk /\ c.offset \in RingValues /\ c.data \in Seq(Int) /\ c.data # <<>>
      /\ c.offset + Len(c.data) <= len /\ c.data = Bytes(c.offset, Len(c.data))
  BY DEF GenuineChunk, Chunk
<1>2. c.offset \in Nat /\ Len(c.data) \in Nat \ {0}
  BY <1>1, Sizes
<1> DEFINE o == c.offset
           n == Len(c.data)
<1> HIDE DEF o, n
<1>3. o \in Nat /\ n \in Nat \ {0} /\ o + n <= len /\ o \in RingValues
  BY <1>1, <1>2 DEF o, n
<1>4. n \in Nat /\ n < RingMax /\ o + n <= RingMax
      /\ n - 1 \in Nat /\ n - 1 < RingMax /\ o + (n - 1) <= RingMax
  BY <1>3, Sizes
<1>5. Plus(o, n) = o + n /\ Plus(o, n - 1) = o + (n - 1)
  BY <1>3, <1>4, PlusNoWrap
<1>6. o \in 0 .. len - 1 /\ o + n \in 1 .. len /\ o + (n - 1) \in 0 .. len - 1
  BY <1>3
<1>7. Bytes(o, n)[n] = o + n - 1
  <2>1. n \in 1 .. n
    BY <1>3
  <2> QED
    BY <1>3, <1>4, <2>1, BytesType
<1>8. c.data[Len(c.data)] = Bytes(o, n)[n]
  BY <1>1 DEF o, n
<1>9. c.data[Len(c.data)] + 1 = o + n
  BY <1>3, <1>7, <1>8
<1>10. Plus(o, n - 1) \in 0 .. len - 1
  BY <1>5, <1>6
<1> QED
  BY <1>1, <1>2, <1>5, <1>6, <1>9, <1>10 DEF o, n

\* Held chunks stay genuine when AddDataChunk cuts the new one.
LEMMA CutGenuine ==
    ASSUME NEW len \in Nat, len + WindowSize < RingMax, NEW offset, NEW data,
           [offset |-> offset, data |-> data] \in GenuineChunk(len),
           NEW next \in 0 .. len, next # offset, Distance(offset, next) <= WindowSize
    PROVE  [offset |-> offset, data |-> CutAt(offset, data, next)] \in GenuineChunk(len)
<1>1. /\ offset \in RingValues /\ data \in Seq(Int) /\ data # <<>>
      /\ offset + Len(data) <= len /\ data = Bytes(offset, Len(data))
  BY DEF GenuineChunk, Chunk
<1>2. offset \in Nat /\ Len(data) \in Nat \ {0} /\ next \in RingValues /\ next \in Nat
  BY <1>1, Sizes
<1>3. offset < next /\ Distance(offset, next) = next - offset
  <2>1. ~(next < offset)
    BY <1>1, <1>2, DistanceBehind, Sizes
  <2> QED
    BY <1>1, <1>2, <2>1, DistanceAhead
<1>4. Plus(offset, Len(data)) = offset + Len(data) /\ offset + Len(data) \in RingValues
  <2>1. Len(data) \in Nat /\ Len(data) < RingMax
    BY <1>1, <1>2, Sizes
  <2>2. offset + Len(data) <= RingMax /\ offset + Len(data) \in RingValues
    BY <1>1, <1>2, Sizes
  <2> QED
    BY <1>1, <2>1, <2>2, PlusNoWrap
<1>5. CASE Distance(next, Plus(offset, Len(data))) \in 1 .. WindowSize
  <2> DEFINE d == next - offset
             cut == CutAt(offset, data, next)
  <2>1. next <= offset + Len(data)
    <3> DEFINE e == Plus(offset, Len(data))
    <3>1. e \in RingValues /\ e = offset + Len(data) /\ Distance(next, e) <= WindowSize
      BY <1>4, <1>5, Sizes
    <3> HIDE DEF e
    <3> SUFFICES ASSUME e < next PROVE FALSE
      BY <1>2, <3>1, Sizes
    <3>2. Distance(next, e) = RingMax - next + e
      BY <1>2, <3>1, DistanceBehind, Zenon
    <3> QED
      BY <1>1, <1>2, <3>1, <3>2, Sizes
  <2>2. d \in Nat \ {0} /\ d <= Len(data) /\ offset + d <= len
    BY <1>1, <1>2, <1>3, <2>1
  <2>3. cut = [j \in 1 .. d |-> IF j <= Len(data) THEN data[j] ELSE Garbage]
    BY <1>3, <1>5 DEF CutAt
  <2> HIDE DEF d, cut
  <2>4. \A j \in 1 .. d : (IF j <= Len(data) THEN data[j] ELSE Garbage) = offset + j - 1
    <3> TAKE j \in 1 .. d
    <3>1. j <= Len(data) /\ j \in 1 .. Len(data)
      BY <1>2, <2>2
    <3>2. Bytes(offset, Len(data))[j] = offset + j - 1
      BY <1>2, <3>1, BytesType
    <3> QED
      BY <1>1, <3>1, <3>2
  <2>5. cut = Bytes(offset, d)
    BY <2>3, <2>4 DEF Bytes
  <2>6. cut \in Seq(Int) /\ Len(cut) = d
    BY <1>2, <2>2, <2>5, BytesType
  <2>7. cut # <<>> /\ offset + Len(cut) <= len /\ cut = Bytes(offset, Len(cut))
    BY <2>2, <2>5, <2>6
  <2> QED
    BY <1>1, <2>6, <2>7, IsGenuine DEF cut
<1>6. CASE Distance(next, Plus(offset, Len(data))) \notin 1 .. WindowSize
  BY <1>6 DEF CutAt
<1> QED
  BY <1>5, <1>6

\* What AddDataChunk inserts is genuine.
LEMMA InsertedGenuine ==
    ASSUME NEW len \in Nat, len + WindowSize < RingMax,
           received_data_chunks \in Seq(GenuineChunk(len)), NEW offset, NEW data,
           [offset |-> offset, data |-> data] \in GenuineChunk(len),
           NEW at \in FirstAfter(offset), received_data_chunks[at].offset # offset
    PROVE  /\ at \in 1 .. Len(received_data_chunks)
           /\ [offset |-> offset, data |-> CutAt(offset, data, received_data_chunks[at].offset)]
                \in GenuineChunk(len)
<1>1. /\ at \in 1 .. Len(received_data_chunks)
      /\ Distance(offset, received_data_chunks[at].offset) <= WindowSize
  BY DEF FirstAfter, AtOrAfter
<1>2. received_data_chunks[at] \in GenuineChunk(len)
  BY <1>1
<1>3. received_data_chunks[at].offset \in 0 .. len
  <2>1. received_data_chunks[at].offset \in 0 .. len - 1
    BY <1>2, ChunkEnd
  <2> QED
    BY <2>1
<1> QED
  BY <1>1, <1>3, CutGenuine

\* A genuine chunk arrives: whether it is kept or refused, the order holds on.
LEMMA ReceiveOrder ==
    ASSUME NEW len \in Nat, len + WindowSize < RingMax, RvTypeOK, OrderInv(len),
           NEW offset, NEW data, [offset |-> offset, data |-> data] \in GenuineChunk(len),
           ReceiveSend(offset, data) \/ ReceiveRepeat(offset, data)
    PROVE  OrderInv(len)'
<1>1. /\ UNCHANGED <<last_confirmed_offset, delivered, response_out>>
      /\ \/ UNCHANGED <<received_data_chunks, expected_chunks>>
         \/ AddDataChunk(offset, data)
      /\ \/ UNCHANGED confirmation_queue
         \/ confirmation_queue' = Append(confirmation_queue, Plus(offset, Len(data) - 1))
  BY DEF ReceiveSend, ReceiveRepeat
<1>2. PICK D \in SUBSET RingValues : expected_chunks \in [D -> Nat]
  BY DEF RvTypeOK
<1>3. received_data_chunks \in Seq(GenuineChunk(len)) /\ confirmation_queue \in Seq(0 .. len - 1)
  BY DEF OrderInv
<1>4. received_data_chunks' \in Seq(GenuineChunk(len))
  BY <1>1, <1>2, <1>3, InsertedGenuine, AddDataChunkStep, Zenon
<1>5. confirmation_queue' \in Seq(0 .. len - 1)
  <2> DEFINE c == [offset |-> offset, data |-> data]
  <2>1. c.offset = offset /\ c.data = data
    OBVIOUS
  <2> HIDE DEF c
  <2>2. Plus(c.offset, Len(c.data) - 1) \in 0 .. len - 1
    BY ChunkEnd DEF c
  <2>3. Plus(offset, Len(data) - 1) \in 0 .. len - 1
    BY <2>1, <2>2
  <2> QED
    BY <1>1, <1>3, <2>3, AppendType, Zenon
<1> QED
  BY <1>1, <1>4, <1>5 DEF OrderInv, DeliveredInOrder

\* The offsets the receiver computes from genuine chunks stay in the stream, and
\* one after a chunk is not its begin.
LEMMA NextInStream ==
    ASSUME NEW len \in Nat, len + WindowSize < RingMax, NEW chunks \in Seq(GenuineChunk(len)),
           NEW base \in 0 .. len, NEW i \in 0 .. Len(chunks)
    PROVE  /\ NextOffset(chunks, base, i) \in 0 .. len
           /\ NextOffset(chunks, base, i) # base => NextOffset(chunks, base, i) # 0
<1>1. CASE i = 0
  BY <1>1 DEF NextOffset
<1>2. CASE i # 0
  <2>1. chunks[i] \in GenuineChunk(len)
    BY <1>2
  <2>2. Plus(chunks[i].offset, Len(chunks[i].data)) \in 1 .. len
    BY <2>1, ChunkEnd
  <2> QED
    BY <1>2, <2>2 DEF NextOffset
<1> QED
  BY <1>1, <1>2

\* The first chain chunks, which continue the delivered data, are delivered.
LEMMA DeliverStep ==
    ASSUME NEW len \in Nat, len + WindowSize < RingMax, RvTypeOK, OrderInv(len),
           NEW chain \in 0 .. Len(received_data_chunks),
           \A j \in 0 .. chain - 1 : Continues(received_data_chunks, last_confirmed_offset, j),
           last_confirmed_offset' = NextOffset(received_data_chunks, last_confirmed_offset, chain),
           received_data_chunks' =
             SubSeq(received_data_chunks, chain + 1, Len(received_data_chunks)),
           delivered' = delivered \o [i \in 1 .. chain |-> received_data_chunks[i].data]
    PROVE  /\ received_data_chunks' \in Seq(GenuineChunk(len))
           /\ \A i \in DOMAIN delivered' : delivered'[i] # <<>>
           /\ DeliveredInOrder'
           /\ last_confirmed_offset' = EndOf(delivered', Len(delivered'))
           /\ last_confirmed_offset' \in 0 .. len
           /\ last_confirmed_offset' # last_confirmed_offset => last_confirmed_offset' # 0
<1> DEFINE chunks == received_data_chunks
           base == last_confirmed_offset
           n == Len(delivered)
           data == [i \in 1 .. chain |-> chunks[i].data]
<1>1. /\ chunks \in Seq(GenuineChunk(len)) /\ base \in 0 .. len
      /\ delivered \in Seq(Seq(Int)) /\ n \in Nat
  BY Sizes DEF RvTypeOK, OrderInv
<1>2. \A j \in 1 .. chain : chunks[j] \in GenuineChunk(len)
  BY <1>1
<1>3. data \in Seq(Seq(Int)) /\ Len(data) = chain /\ \A j \in 1 .. chain : data[j] = chunks[j].data
  BY <1>2, ChunkEnd
<1>4. /\ delivered' \in Seq(Seq(Int)) /\ Len(delivered') = n + chain
      /\ \A i \in 1 .. n : delivered'[i] = delivered[i]
      /\ \A j \in 1 .. chain : delivered'[n + j] = chunks[j].data
  <2>1. delivered' = delivered \o data
    OBVIOUS
  <2> HIDE DEF data
  <2>2. PICK a, b, S : a = delivered /\ b = data /\ S = Seq(Int)
    OBVIOUS
  <2>3. a \in Seq(S) /\ b \in Seq(S)
    BY <1>1, <1>3, <2>2
  <2>4. /\ a \o b \in Seq(S) /\ Len(a \o b) = Len(a) + Len(b)
        /\ \A i \in 1 .. Len(a) : (a \o b)[i] = a[i]
        /\ \A j \in 1 .. Len(b) : (a \o b)[Len(a) + j] = b[j]
    BY <2>3, JoinIs
  <2>5. delivered' = a \o b /\ Len(a) = n /\ Len(b) = chain
    BY <1>3, <2>1, <2>2, Zenon
  <2> QED
    <3>1. delivered' \in Seq(Seq(Int)) /\ Len(delivered') = n + chain
      BY <2>2, <2>4, <2>5, Zenon
    <3>2. \A i \in 1 .. n : delivered'[i] = delivered[i]
      BY <2>2, <2>4, <2>5, Zenon
    <3>3. \A j \in 1 .. chain : delivered'[n + j] = data[j]
      BY <2>2, <2>4, <2>5, Zenon
    <3> QED
      BY <1>3, <3>1, <3>2, <3>3, Zenon
<1>0. DOMAIN delivered' = 1 .. n + chain
  BY <1>4
<1>5. \A i \in 0 .. n : EndOf(delivered', i) = EndOf(delivered, i)
  BY <1>4 DEF EndOf
<1>6. \A j \in 0 .. chain : EndOf(delivered', n + j) = NextOffset(chunks, base, j)
  <2> TAKE j \in 0 .. chain
  <2>1. CASE j = 0
    <3>1. n \in 0 .. n /\ n + j = n
      BY <1>1, <2>1
    <3>2. EndOf(delivered', n) = EndOf(delivered, n)
      BY <1>5, <3>1, Zenon
    <3>3. base = EndOf(delivered, n)
      BY DEF OrderInv
    <3> QED
      BY <2>1, <3>1, <3>2, <3>3 DEF NextOffset
  <2>2. CASE j # 0
    <3>1. j \in 1 .. chain /\ n + j # 0
      BY <1>1, <2>2
    <3>2. EndOf(delivered', n + j) = chunks[j].data[Len(chunks[j].data)] + 1
      BY <1>4, <3>1 DEF EndOf
    <3>3. NextOffset(chunks, base, j) = Plus(chunks[j].offset, Len(chunks[j].data))
      BY <2>2 DEF NextOffset
    <3> QED
      BY <1>2, <3>1, <3>2, <3>3, ChunkEnd
  <2> QED
    BY <2>1, <2>2
<1>7. \A i \in 1 .. n : delivered'[i] = Bytes(EndOf(delivered', i - 1), Len(delivered'[i]))
  <2> TAKE i \in 1 .. n
  <2>1. delivered[i] = Bytes(EndOf(delivered, i - 1), Len(delivered[i]))
    BY <1>1, SMTT(30) DEF OrderInv, DeliveredInOrder
  <2>2. i - 1 \in 0 .. n
    BY <1>1
  <2>3. EndOf(delivered', i - 1) = EndOf(delivered, i - 1)
    BY <1>5, <2>2, Zenon
  <2> QED
    BY <1>4, <2>1, <2>3
<1>8. \A j \in 1 .. chain :
        delivered'[n + j] = Bytes(EndOf(delivered', n + j - 1), Len(delivered'[n + j]))
  <2> TAKE j \in 1 .. chain
  <2>1. j - 1 \in 0 .. chain - 1 /\ j - 1 \in 0 .. chain /\ (j - 1) + 1 = j
        /\ n + (j - 1) = n + j - 1
    BY <1>1
  <2>2. chunks[j].offset = NextOffset(chunks, base, j - 1)
    BY <2>1 DEF Continues
  <2>3. EndOf(delivered', n + j - 1) = chunks[j].offset
    BY <1>6, <2>1, <2>2
  <2>4. chunks[j].data = Bytes(chunks[j].offset, Len(chunks[j].data))
    BY <1>2 DEF GenuineChunk
  <2> QED
    BY <1>4, <2>3, <2>4
<1>9. \A i \in 1 .. n + chain : i \in 1 .. n \/ \E j \in 1 .. chain : i = n + j
  <2> TAKE i \in 1 .. n + chain
  <2>1. CASE i <= n
    BY <1>1, <2>1
  <2>2. CASE ~(i <= n)
    <3>1. i - n \in 1 .. chain /\ i = n + (i - n)
      BY <1>1, <2>2
    <3> QED
      BY <3>1, Zenon
  <2> QED
    BY <2>1, <2>2
<1>10. DeliveredInOrder'
  <2> SUFFICES ASSUME NEW i \in 1 .. n + chain
               PROVE  delivered'[i] = Bytes(EndOf(delivered', i - 1), Len(delivered'[i]))
    BY <1>0, Zenon DEF DeliveredInOrder
  <2>1. CASE i \in 1 .. n
    BY <1>7, <2>1
  <2>2. ASSUME NEW j \in 1 .. chain, i = n + j
        PROVE  delivered'[i] = Bytes(EndOf(delivered', i - 1), Len(delivered'[i]))
    <3>1. delivered'[n + j] = Bytes(EndOf(delivered', n + j - 1), Len(delivered'[n + j]))
      BY <1>8
    <3> QED
      BY <2>2, <3>1
  <2> QED
    BY <1>9, <2>1, <2>2, Zenon
<1>11. \A i \in DOMAIN delivered' : delivered'[i] # <<>>
  <2>1. \A i \in 1 .. n : delivered'[i] # <<>>
    <3>1. \A i \in 1 .. n : delivered[i] # <<>>
      BY <1>1, SMTT(30) DEF OrderInv
    <3> QED
      BY <1>4, <3>1
  <2>2. \A j \in 1 .. chain : delivered'[n + j] # <<>>
    BY <1>2, <1>4 DEF GenuineChunk
  <2> QED
    BY <1>0, <1>9, <2>1, <2>2, Zenon
<1>12. received_data_chunks' \in Seq(GenuineChunk(len))
  BY <1>1
<1>13. last_confirmed_offset' = EndOf(delivered', Len(delivered'))
  <2>1. EndOf(delivered', n + chain) = NextOffset(chunks, base, chain)
    BY <1>6
  <2> QED
    BY <1>4, <2>1
<1>14. /\ last_confirmed_offset' \in 0 .. len
       /\ last_confirmed_offset' # last_confirmed_offset => last_confirmed_offset' # 0
  BY <1>1, NextInStream
<1> QED
  BY <1>10, <1>11, <1>12, <1>13, <1>14, Zenon

\* Respond delivers in order, and answers with offsets of the stream.
LEMMA RespondOrder ==
    ASSUME NEW len \in Nat, len + WindowSize < RingMax, RvTypeOK, OrderInv(len),
           NEW chain \in 0 .. Len(received_data_chunks),
           \A j \in 0 .. chain - 1 : Continues(received_data_chunks, last_confirmed_offset, j),
           NEW repeats \in Seq((0 .. len) \cup {NoGap}), Respond(chain, repeats)
    PROVE  OrderInv(len)'
<1> DEFINE next == NextOffset(received_data_chunks, last_confirmed_offset, chain)
<1>1. /\ last_confirmed_offset' = next
      /\ received_data_chunks' =
           SubSeq(received_data_chunks, chain + 1, Len(received_data_chunks))
      /\ delivered' = delivered \o [i \in 1 .. chain |-> received_data_chunks[i].data]
  BY DEF Respond
<1>2. /\ received_data_chunks' \in Seq(GenuineChunk(len))
      /\ \A i \in DOMAIN delivered' : delivered'[i] # <<>>
      /\ DeliveredInOrder'
      /\ last_confirmed_offset' = EndOf(delivered', Len(delivered'))
      /\ last_confirmed_offset' \in 0 .. len
      /\ last_confirmed_offset' # last_confirmed_offset => last_confirmed_offset' # 0
  BY <1>1, DeliverStep, Zenon
<1> HIDE DEF next
<1>3. next # last_confirmed_offset => Minus(next, 1) \in 0 .. len - 1
  <2> SUFFICES ASSUME next # last_confirmed_offset PROVE Minus(next, 1) \in 0 .. len - 1
    OBVIOUS
  <2>1. next \in 1 .. len /\ next \in RingValues /\ 1 < RingMax /\ 1 <= next
    BY <1>1, <1>2, Sizes
  <2>2. Minus(next, 1) = next - 1
    BY <2>1, MinusNoWrap
  <2> QED
    BY <2>1, <2>2
<1>4. confirmation_queue \in Seq(0 .. len - 1) /\ response_out \in Seq(GenuineResponse(len))
  BY DEF OrderInv
<1>5. \A cs \in Seq(0 .. len - 1) : [confirms |-> cs, repeats |-> repeats] \in GenuineResponse(len)
  BY DEF GenuineResponse
<1>6. confirmation_queue' \in Seq(0 .. len - 1) /\ response_out' \in Seq(GenuineResponse(len))
  BY <1>3, <1>4, <1>5, RespondWrites, Zenon DEF next
<1> QED
  BY <1>2, <1>6 DEF OrderInv

\* Update delivers the chain CheckCompletedChains finds and answers.
LEMMA UpdateOrder ==
    ASSUME NEW len \in Nat, len + WindowSize < RingMax, RvTypeOK, OrderInv(len),
           NEW confirm_due \in BOOLEAN, NEW repeat_due \in BOOLEAN,
           ReceiverUpdate(confirm_due, repeat_due)
    PROVE  OrderInv(len)'
<1> DEFINE chunks == received_data_chunks
           base == last_confirmed_offset
           Missed(k) == MissedOffsets(SubSeq(chunks, k + 1, Len(chunks)),
                                      NextOffset(chunks, base, k))
<1>1. chunks \in Seq(Chunk) /\ chunks \in Seq(GenuineChunk(len)) /\ base \in 0 .. len
  BY Sizes DEF RvTypeOK, OrderInv
<1>2. PICK chain \in 0 .. Len(chunks) :
        /\ \A j \in 0 .. chain - 1 : Continues(chunks, base, j)
        /\ Respond(chain, <<>>) \/ Respond(chain, Missed(chain))
  BY <1>1, UpdateResponds
<1>3. Missed(chain) \in Seq((0 .. len) \cup {NoGap})
  <2> DEFINE rest == SubSeq(chunks, chain + 1, Len(chunks))
             next == NextOffset(chunks, base, chain)
  <2>1. next \in 0 .. len /\ rest \in Seq(GenuineChunk(len))
    BY <1>1, NextInStream
  <2> HIDE DEF rest, next
  <2>2. ASSUME NEW i \in 1 .. Len(rest) PROVE NextOffset(rest, next, i - 1) \in 0 .. len
    <3>1. i - 1 \in 0 .. Len(rest)
      BY <2>1
    <3> QED
      BY <2>1, <3>1, NextInStream, Zenon
  <2>3. Len(rest) \in Nat /\ \A i \in 1 .. Len(rest) : NextOffset(rest, next, i - 1) \in 0 .. len
    BY <2>1, <2>2
  <2>4. MissedOffsets(rest, next) \in Seq((0 .. len) \cup {NoGap})
    BY <2>3, MissedType, Zenon
  <2> QED
    BY <2>4 DEF rest, next
<1> HIDE DEF Missed
<1>4. <<>> \in Seq((0 .. len) \cup {NoGap})
  OBVIOUS
<1> QED
  BY <1>2, <1>3, <1>4, RespondOrder, Zenon

\* The order in a stream is the order in a longer one.
LEMMA OrderGrows ==
    ASSUME NEW len \in Nat, NEW more \in Nat, len <= more, RvTypeOK, OrderInv(len)
    PROVE  OrderInv(more)
<1>1. GenuineChunk(len) \subseteq GenuineChunk(more)
  BY Sizes DEF GenuineChunk, Chunk
<1>2. GenuineResponse(len) \subseteq GenuineResponse(more)
  BY DEF GenuineResponse
<1>3. received_data_chunks \in Seq(GenuineChunk(more)) /\ response_out \in Seq(GenuineResponse(more))
  BY <1>1, <1>2 DEF OrderInv
<1>4. confirmation_queue \in Seq(0 .. more - 1) /\ last_confirmed_offset <= more
  BY Sizes, SMTT(30) DEF OrderInv, RvTypeOK
<1> QED
  BY <1>3, <1>4 DEF OrderInv

\* The receiver starts with its types and with nothing out of order.
LEMMA ReceiverStart ==
    ASSUME NEW len \in Nat, ReceiverInit
    PROVE  RvTypeOK /\ OrderInv(len)
<1>1. Ring(0) = 0
  BY Sizes, ModSmall DEF Ring
<1>2. expected_chunks \in [{} -> Nat]
  BY DEF ReceiverInit
<1>3. \E D \in SUBSET RingValues : expected_chunks \in [D -> Nat]
  BY <1>2
<1>4. /\ received_data_chunks \in Seq(Chunk) /\ received_data_chunks \in Seq(GenuineChunk(len))
      /\ confirmation_queue \in Seq(RingValues) /\ confirmation_queue \in Seq(0 .. len - 1)
      /\ delivered \in Seq(Seq(Int))
      /\ response_out \in Seq(Response) /\ response_out \in Seq(GenuineResponse(len))
  BY DEF ReceiverInit
<1>5. last_confirmed_offset = 0 /\ 0 \in RingValues /\ 0 <= len
  BY <1>1, Sizes DEF ReceiverInit
<1>6. Len(delivered) = 0 /\ DOMAIN delivered = {}
  BY DEF ReceiverInit
<1>7. OrderInv(len)
  BY <1>4, <1>5, <1>6 DEF OrderInv, DeliveredInOrder, EndOf
<1> QED
  BY <1>3, <1>4, <1>5, <1>7 DEF RvTypeOK
=============================================================================
