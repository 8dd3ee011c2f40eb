--------------------------- MODULE SendingProofs ---------------------------
(***************************************************************************)
(* The sending end of a safe stream, whatever the network and the other    *)
(* end do, for every size of the ring, the window, the buffer and the      *)
(* bounds: it accounts for what it buffers, and an outcome is final.       *)
(***************************************************************************)
EXTENDS SafeStream, StreamLemmas

\* What the members of the two ends and the packets under way can hold.
SentWrite ==
    [offset : RingValues, from : Nat, size : WriteSizes,
     state : {"kWaiting", "kSending"} \cup Finished, reported : BOOLEAN]
SendingChunk(B) ==
    [begin : B, end : RingValues, repeat_count : 0 .. MaxRepeatCount + 1]
Packet == [type : {"Send", "Repeat"}, offset : RingValues, data : Seq(Int)]
ParsedCall == [type : {"Confirm", "RequestRepeat"}, offset : RingValues]

\* The writes in the buffer are those without an outcome, and they are counted.
BufferExact ==
    /\ writes \in Seq(SentWrite)
    /\ send_data_buffer = {k \in 1 .. Len(writes) : writes[k].state \notin Finished}
    /\ buffer_size = SizeOf(writes, send_data_buffer)
    /\ buffer_size \in 0 .. BufferCapacity

SendingTypes ==
    /\ sending_chunks \in Seq(SendingChunk(RingValues))
    /\ last_confirmed \in RingValues /\ next_to_add \in RingValues
    /\ last_sent_offset \in RingValues /\ max_data_size \in RingValues
    /\ data_out \in Seq(Packet)
    /\ calls \in Seq(ParsedCall)

\* A step keeps every write where it is and takes no outcome back.
WritesKept ==
    /\ Len(writes) <= Len(writes')
    /\ \A k \in 1 .. Len(writes) :
          /\ writes'[k].offset = writes[k].offset
          /\ writes'[k].from = writes[k].from
          /\ writes'[k].size = writes[k].size
          /\ writes[k].state \in Finished => writes'[k].state = writes[k].state

\* The sizes of writes, packets and the buffer as numbers.
LEMMA SendingSizes ==
    /\ WriteSizes \subseteq Nat \ {0} /\ BufferCapacity \in Nat
    /\ FreedChunkReads \subseteq RingValues /\ MaxDataSizes \subseteq Nat
  BY EnvAssumption, CapacityAssumption, FreedAssumption, Sizes

\* What a write is made of.
LEMMA WriteFields ==
    ASSUME NEW w \in SentWrite
    PROVE  /\ w.offset \in RingValues /\ w.from \in Nat /\ w.size \in WriteSizes
           /\ w.size \in Nat \ {0} /\ w.reported \in BOOLEAN
           /\ w.state \in {"kWaiting", "kSending"} \cup Finished
           /\ EndOffset(w) \in RingValues
<1>1. /\ w.offset \in RingValues /\ w.from \in Nat /\ w.size \in WriteSizes
      /\ w.reported \in BOOLEAN /\ w.state \in {"kWaiting", "kSending"} \cup Finished
  BY DEF SentWrite
<1>2. w.size \in Nat \ {0} /\ w.size - 1 \in Int
  <2>1. WriteSizes \subseteq Nat \ {0}
    BY SendingSizes
  <2>2. w.size \in Nat \ {0}
    BY <1>1, <2>1, Zenon
  <2> QED
    BY <2>2
<1> QED
  BY <1>1, <1>2, PlusMinusType DEF EndOffset
-----------------------------------------------------------------------------
(* Sums of sizes *)

\* sum adds up the sizes of the writes ws at the indices ks.
IsSum(ws, ks, sum) ==
    /\ sum \in [0 .. Len(ws) -> Nat]
    /\ sum[0] = 0
    /\ \A n \in 1 .. Len(ws) : sum[n] = sum[n - 1] + (IF n \in ks THEN ws[n].size ELSE 0)

\* SizeOf is the last of such sums.
LEMMA SizeIsSum ==
    ASSUME NEW ws \in Seq(SentWrite), NEW ks
    PROVE  \E sum : IsSum(ws, ks, sum) /\ SizeOf(ws, ks) = sum[Len(ws)]
<1> DEFINE m == Len(ws)
           IsUpTo(f) == f = [n \in 0 .. m |->
               IF n = 0 THEN 0 ELSE f[n - 1] + (IF n \in ks THEN ws[n].size ELSE 0)]
           upTo == CHOOSE f : IsUpTo(f)
           add == [n \in 1 .. m |-> IF n \in ks THEN ws[n].size ELSE 0]
<1>0. m \in Nat
  OBVIOUS
<1>1. SizeOf(ws, ks) = upTo[m]
  BY Zenon DEF SizeOf
<1>2. \A n \in 1 .. m : add[n] \in Nat /\ add[n] = IF n \in ks THEN ws[n].size ELSE 0
  <2> TAKE n \in 1 .. m
  <2>1. ws[n] \in SentWrite
    OBVIOUS
  <2>2. ws[n].size \in Nat
    BY <2>1, WriteFields
  <2> QED
    BY <2>2
<1> HIDE DEF m, add
<1>3. \E f : IsUpTo(f)
  <2> DEFINE G == [n \in 0 .. m |-> Nat]
             step == [n \in 1 .. m |-> [v \in Nat |-> v + add[n]]]
             base == 0
  <2>2. \A n \in 1 .. m, v \in Nat : step[n][v] = v + add[n]
    OBVIOUS
  <2>3. \A n \in 0 .. m : G[n] = Nat
    OBVIOUS
  <2>0. base \in G[0]
    BY <1>0, <2>3
  <2> HIDE DEF G, step, base
  <2>1. Steps(m, G, step) /\ base \in G[0]
    <3>1. ASSUME NEW n \in 1 .. m, NEW v \in G[n - 1] PROVE step[n][v] \in G[n]
      <4>1. n \in 0 .. m /\ n - 1 \in 0 .. m
        BY <1>0
      <4>2. v \in Nat /\ G[n] = Nat
        BY <4>1, <2>3, Zenon
      <4>3. step[n][v] = v + add[n] /\ add[n] \in Nat
        BY <4>2, <2>2, <1>2
      <4> QED
        BY <4>2, <4>3
    <3> QED
      BY <3>1, <2>0, Zenon DEF Steps
  <2>4. PICK f : IsRun(m, G, base, step, f)
    BY <1>0, <2>1, Recursion
  <2>5. ASSUME NEW n \in 0 .. m
        PROVE  f[n] = IF n = 0 THEN 0 ELSE f[n - 1] + (IF n \in ks THEN ws[n].size ELSE 0)
    <3>1. CASE n = 0
      BY <2>4, <3>1 DEF IsRun, base
    <3>2. CASE n # 0
      <4>1. n \in 1 .. m /\ n - 1 \in 0 .. m
        BY <1>0, <3>2
      <4>2. f[n] = step[n][f[n - 1]] /\ f[n - 1] \in G[n - 1]
        BY <2>4, <4>1, Zenon DEF IsRun
      <4>3. f[n - 1] \in Nat
        BY <2>3, <4>1, <4>2
      <4>4. f[n] = f[n - 1] + add[n]
        BY <2>2, <4>1, <4>2, <4>3
      <4> QED
        BY <1>2, <3>2, <4>1, <4>4
    <3> QED
      BY <3>1, <3>2
  <2>6. f = [n \in 0 .. m |-> f[n]]
    BY <2>4 DEF IsRun
  <2>7. IsUpTo(f)
    <3>1. [n \in 0 .. m |-> f[n]] = [n \in 0 .. m |->
             IF n = 0 THEN 0 ELSE f[n - 1] + (IF n \in ks THEN ws[n].size ELSE 0)]
      BY <2>5, Zenon
    <3> QED
      BY <2>6, <3>1, Zenon
  <2> HIDE DEF IsUpTo
  <2> QED
    BY <2>7, Zenon
<1>4. IsUpTo(upTo)
  <2> HIDE DEF IsUpTo
  <2> QED
    BY <1>3, Zenon
<1> HIDE DEF upTo
<1>5. upTo[0] = 0 /\ \A n \in 1 .. m : upTo[n] = upTo[n - 1] + add[n]
  BY <1>0, <1>2, <1>4
<1>6. \A n \in 0 .. m : upTo[n] \in Nat
  <2> DEFINE S == {n \in 0 .. m : upTo[n] \in Nat}
  <2>1. 0 \in S
    BY <1>0, <1>5
  <2>2. ASSUME NEW n \in 1 .. m, n - 1 \in S PROVE n \in S
    <3>1. upTo[n - 1] \in Nat /\ n \in 0 .. m
      BY <1>0, <2>2
    <3>2. add[n] \in Nat
      BY <1>2
    <3>3. upTo[n] = upTo[n - 1] + add[n]
      BY <1>5
    <3> QED
      BY <3>1, <3>2, <3>3
  <2> HIDE DEF S
  <2>3. \A n \in 0 .. m : n \in S
    BY <1>0, <2>1, <2>2, UpToM
  <2> QED
    BY <2>3 DEF S
<1>7. upTo \in [0 .. m -> Nat]
  BY <1>4, <1>6
<1>8. IsSum(ws, ks, upTo)
  BY <1>2, <1>5, <1>7 DEF IsSum, m
<1> QED
  BY <1>1, <1>8 DEF m

\* The size of writes is a number.
LEMMA SizeType ==
    ASSUME NEW ws \in Seq(SentWrite), NEW ks
    PROVE  SizeOf(ws, ks) \in Nat
<1>1. PICK sum : IsSum(ws, ks, sum) /\ SizeOf(ws, ks) = sum[Len(ws)]
  BY SizeIsSum
<1>2. Len(ws) \in 0 .. Len(ws)
  OBVIOUS
<1> QED
  BY <1>1, <1>2 DEF IsSum

\* Only the sizes of the writes are added up.
LEMMA SizeSame ==
    ASSUME NEW ws \in Seq(SentWrite), NEW vs \in Seq(SentWrite), NEW ks, Len(vs) = Len(ws),
           \A n \in 1 .. Len(ws) : vs[n].size = ws[n].size
    PROVE  SizeOf(vs, ks) = SizeOf(ws, ks)
<1>1. PICK f : IsSum(ws, ks, f) /\ SizeOf(ws, ks) = f[Len(ws)]
  BY SizeIsSum
<1>2. PICK g : IsSum(vs, ks, g) /\ SizeOf(vs, ks) = g[Len(vs)]
  BY SizeIsSum
<1> DEFINE m == Len(ws)
           S == {n \in 0 .. m : f[n] = g[n]}
<1>3. m \in Nat
  OBVIOUS
<1>4. 0 \in S
  BY <1>1, <1>2, <1>3 DEF IsSum
<1>5. ASSUME NEW n \in 1 .. m, n - 1 \in S PROVE n \in S
  BY <1>1, <1>2, <1>5, SMTT(30) DEF IsSum
<1> HIDE DEF S, m
<1>6. m \in S
  <2>1. \A n \in 0 .. m : n \in S
    BY <1>3, <1>4, <1>5, UpToM, Zenon
  <2> QED
    BY <1>3, <2>1
<1> QED
  BY <1>1, <1>2, <1>6 DEF S, m

\* What leaves the buffer and what stays make up its size.
Splits(ws, ks, out) == SizeOf(ws, ks) = SizeOf(ws, out) + SizeOf(ws, ks \ out)

\* A removal (SendDataBuffer::Confirm, Reject, Stop) takes its part of the size.
LEMMA SizeSplit ==
    ASSUME NEW ws \in Seq(SentWrite), NEW ks, NEW out \in SUBSET ks
    PROVE  Splits(ws, ks, out)
<1>1. PICK f : IsSum(ws, ks, f) /\ SizeOf(ws, ks) = f[Len(ws)]
  BY SizeIsSum
<1>2. PICK g : IsSum(ws, out, g) /\ SizeOf(ws, out) = g[Len(ws)]
  BY SizeIsSum
<1>3. PICK h : IsSum(ws, ks \ out, h) /\ SizeOf(ws, ks \ out) = h[Len(ws)]
  BY SizeIsSum
<1> DEFINE m == Len(ws)
           S == {n \in 0 .. m : f[n] = g[n] + h[n]}
<1>4. m \in Nat
  OBVIOUS
<1>5. 0 \in S
  BY <1>1, <1>2, <1>3, <1>4 DEF IsSum
<1>6. ASSUME NEW n \in 1 .. m, n - 1 \in S PROVE n \in S
  <2>1. n - 1 \in 0 .. m /\ ws[n] \in SentWrite
    BY <1>4
  <2>2. ws[n].size \in Nat
    BY <2>1, WriteFields
  <2>3. f[n - 1] \in Nat /\ g[n - 1] \in Nat /\ h[n - 1] \in Nat /\ f[n - 1] = g[n - 1] + h[n - 1]
    BY <1>1, <1>2, <1>3, <1>6, <2>1 DEF IsSum
  <2>4. /\ f[n] = f[n - 1] + (IF n \in ks THEN ws[n].size ELSE 0)
        /\ g[n] = g[n - 1] + (IF n \in out THEN ws[n].size ELSE 0)
        /\ h[n] = h[n - 1] + (IF n \in ks \ out THEN ws[n].size ELSE 0)
    BY <1>1, <1>2, <1>3 DEF IsSum
  <2> QED
    BY <2>2, <2>3, <2>4
<1> HIDE DEF S, m
<1>7. m \in S
  <2>1. \A n \in 0 .. m : n \in S
    BY <1>4, <1>5, <1>6, UpToM, Zenon
  <2> QED
    BY <1>4, <2>1
<1> QED
  BY <1>1, <1>2, <1>3, <1>7 DEF S, m, Splits

\* A new write adds its size.
LEMMA SizeAppend ==
    ASSUME NEW ws \in Seq(SentWrite), NEW ks \in SUBSET (1 .. Len(ws)), NEW w \in SentWrite
    PROVE  SizeOf(Append(ws, w), ks \cup {Len(ws) + 1}) = SizeOf(ws, ks) + w.size
<1> DEFINE vs == Append(ws, w)
           m == Len(ws)
           all == ks \cup {m + 1}
<1>1. m \in Nat /\ vs \in Seq(SentWrite) /\ Len(vs) = m + 1 /\ vs[m + 1] = w
      /\ \A n \in 1 .. m : vs[n] = ws[n]
  OBVIOUS
<1>2. \A n \in 1 .. m : n \in all <=> n \in ks
  BY <1>1
<1>3. m + 1 \in all
  OBVIOUS
<1> HIDE DEF vs, all
<1>4. PICK f : IsSum(ws, ks, f) /\ SizeOf(ws, ks) = f[m]
  BY SizeIsSum
<1>5. PICK g : IsSum(vs, all, g) /\ SizeOf(vs, all) = g[Len(vs)]
  BY <1>1, SizeIsSum
<1> HIDE DEF m
<1> DEFINE S == {n \in 0 .. m : f[n] = g[n]}
<1>6. 0 \in S
  BY <1>1, <1>4, <1>5 DEF IsSum
<1>7. ASSUME NEW n \in 1 .. m, n - 1 \in S PROVE n \in S
  <2>1. n \in 1 .. Len(vs)
    BY <1>1
  <2>2. g[n] = g[n - 1] + (IF n \in ks THEN ws[n].size ELSE 0)
    <3>1. g[n] = g[n - 1] + (IF n \in all THEN vs[n].size ELSE 0)
      BY <1>5, <2>1 DEF IsSum
    <3>2. vs[n] = ws[n] /\ (n \in all <=> n \in ks)
      BY <1>1, <1>2
    <3> QED
      BY <3>1, <3>2
  <2>3. f[n] = f[n - 1] + (IF n \in ks THEN ws[n].size ELSE 0)
    BY <1>4 DEF IsSum, m
  <2> QED
    BY <1>1, <1>7, <2>2, <2>3
<1> HIDE DEF S
<1>8. m \in S
  <2>1. m \in Nat
    BY <1>1
  <2>2. \A n \in 0 .. m : n \in S
    BY <1>6, <1>7, <2>1, UpToM, Zenon
  <2>3. m \in 0 .. m
    BY <2>1
  <2> QED
    BY <2>2, <2>3, Zenon
<1>9. g[m + 1] = g[m] + w.size
  <2>1. m + 1 \in 1 .. Len(vs) /\ (m + 1) - 1 = m
    BY <1>1
  <2> QED
    BY <1>1, <1>3, <1>5, <2>1 DEF IsSum
<1> QED
  BY <1>1, <1>4, <1>5, <1>8, <1>9 DEF S, vs, all, m
-----------------------------------------------------------------------------
(* The buffer of the sending end *)

\* WithState changes nothing but the states it is to change.
LEMMA WithStateIs ==
    ASSUME NEW ws \in Seq(SentWrite), NEW ks, NEW state \in {"kWaiting", "kSending"} \cup Finished
    PROVE  /\ WithState(ws, ks, state) \in Seq(SentWrite)
           /\ Len(WithState(ws, ks, state)) = Len(ws)
           /\ \A k \in 1 .. Len(ws) : LET w == WithState(ws, ks, state)[k]
                IN  /\ w.offset = ws[k].offset /\ w.from = ws[k].from /\ w.size = ws[k].size
                    /\ w.state = IF k \in ks THEN state ELSE ws[k].state
<1> DEFINE new == WithState(ws, ks, state)
<1>1. new = [k \in 1 .. Len(ws) |-> IF k \in ks THEN [ws[k] EXCEPT !.state = state] ELSE ws[k]]
  BY DEF WithState
<1> HIDE DEF new
<1>2. ASSUME NEW k \in 1 .. Len(ws)
      PROVE  /\ new[k] \in SentWrite
             /\ new[k].offset = ws[k].offset /\ new[k].from = ws[k].from
             /\ new[k].size = ws[k].size
             /\ new[k].state = IF k \in ks THEN state ELSE ws[k].state
  <2>1. ws[k] \in SentWrite
    OBVIOUS
  <2>2. new[k] = IF k \in ks THEN [ws[k] EXCEPT !.state = state] ELSE ws[k]
    BY <1>1
  <2> QED
    BY <2>1, <2>2 DEF SentWrite
<1>3. new \in Seq(SentWrite) /\ Len(new) = Len(ws)
  BY <1>1, <1>2
<1> QED
  BY <1>2, <1>3 DEF new

\* Some of the buffered writes, already marked or not, get an outcome and leave
\* the buffer.
LEMMA RemoveWritesStep ==
    ASSUME BufferExact, NEW used \in SUBSET send_data_buffer,
           NEW out \in SUBSET send_data_buffer, NEW state \in Finished,
           NEW ws \in {writes, WithState(writes, used, "kSending")},
           RemoveWrites(ws, out, state)
    PROVE  /\ BufferExact' /\ WritesKept /\ Len(writes') = Len(writes)
           /\ send_data_buffer' = send_data_buffer \ out
<1> DEFINE m == Len(writes)
           buf == send_data_buffer
<1>1. /\ writes \in Seq(SentWrite) /\ m \in Nat
      /\ buf = {k \in 1 .. m : writes[k].state \notin Finished}
      /\ buffer_size = SizeOf(writes, buf) /\ buffer_size \in 0 .. BufferCapacity
  BY DEF BufferExact
<1>2. /\ ws \in Seq(SentWrite) /\ Len(ws) = m
      /\ \A k \in 1 .. m :
            /\ ws[k].offset = writes[k].offset /\ ws[k].from = writes[k].from
            /\ ws[k].size = writes[k].size
            /\ ws[k].state = IF k \in used /\ ws # writes THEN "kSending" ELSE writes[k].state
  <2>1. CASE ws = writes
    BY <1>1, <2>1
  <2>2. CASE ws # writes /\ ws = WithState(writes, used, "kSending")
    BY <1>1, <2>2, WithStateIs
  <2> QED
    BY <2>1, <2>2
<1>3. /\ send_data_buffer' = buf \ out
      /\ buffer_size' = buffer_size - SizeOf(ws, out)
      /\ writes' = WithState(ws, out, state)
  BY DEF RemoveWrites
<1>4. /\ writes' \in Seq(SentWrite) /\ Len(writes') = m
      /\ \A k \in 1 .. m :
            /\ writes'[k].offset = ws[k].offset /\ writes'[k].from = ws[k].from
            /\ writes'[k].size = ws[k].size
            /\ writes'[k].state = IF k \in out THEN state ELSE ws[k].state
  <2>1. state \in {"kWaiting", "kSending"} \cup Finished
    OBVIOUS
  <2>2. PICK new : new = WithState(ws, out, state)
    OBVIOUS
  <2>3. ws \in Seq(SentWrite) /\ Len(ws) = m
    BY <1>2
  <2>4. /\ new \in Seq(SentWrite) /\ Len(new) = Len(ws)
        /\ \A k \in 1 .. Len(ws) : /\ new[k].offset = ws[k].offset /\ new[k].from = ws[k].from
                                   /\ new[k].size = ws[k].size
                                   /\ new[k].state = IF k \in out THEN state ELSE ws[k].state
    BY <2>1, <2>2, <2>3, WithStateIs
  <2>5. writes' = new
    BY <1>3, <2>2
  <2> HIDE DEF m
  <2> QED
    BY <2>3, <2>4, <2>5
<1> HIDE DEF m, buf
<1>5. "kSending" \notin Finished
  BY DEF Finished
<1>6. ASSUME NEW k \in 1 .. m
      PROVE  /\ writes'[k].offset = writes[k].offset
             /\ writes'[k].from = writes[k].from
             /\ writes'[k].size = writes[k].size
             /\ k \in buf \ out <=> writes'[k].state \notin Finished
             /\ writes[k].state \in Finished => writes'[k].state = writes[k].state
  <2>1. k \in buf <=> writes[k].state \notin Finished
    BY <1>1
  <2>2. used \subseteq buf /\ out \subseteq buf
    BY DEF buf
  <2>3. writes'[k].state = IF k \in out THEN state
                           ELSE IF k \in used /\ ws # writes THEN "kSending" ELSE writes[k].state
    BY <1>2, <1>4
  <2>4. /\ k \in buf \ out <=> writes'[k].state \notin Finished
        /\ writes[k].state \in Finished => writes'[k].state = writes[k].state
    BY <1>5, <2>1, <2>2, <2>3
  <2> QED
    BY <1>2, <1>4, <2>4
<1>7. send_data_buffer' = {k \in 1 .. m : writes'[k].state \notin Finished}
  BY <1>1, <1>3, <1>6
<1>8. /\ SizeOf(writes, buf) = SizeOf(writes, out) + SizeOf(writes, buf \ out)
      /\ SizeOf(writes, out) \in Nat /\ SizeOf(writes, buf \ out) \in Nat
  <2>1. out \in SUBSET buf
    BY DEF buf
  <2>2. writes \in Seq(SentWrite)
    BY <1>1
  <2>3. SizeOf(writes, buf) = SizeOf(writes, out) + SizeOf(writes, buf \ out)
    <3>1. Splits(writes, buf, out)
      BY <2>1, <2>2, SizeSplit, Zenon
    <3> QED
      BY <3>1 DEF Splits
  <2>4. SizeOf(writes, out) \in Nat /\ SizeOf(writes, buf \ out) \in Nat
    BY <2>2, SizeType, Zenon
  <2> QED
    BY <2>3, <2>4
<1>9. SizeOf(ws, out) = SizeOf(writes, out)
  BY <1>1, <1>2, SizeSame DEF m
<1>10. SizeOf(writes', buf \ out) = SizeOf(writes, buf \ out)
  BY <1>1, <1>4, <1>6, SizeSame DEF m
<1>11. buffer_size' = SizeOf(writes', send_data_buffer') /\ buffer_size' \in 0 .. BufferCapacity
  BY <1>1, <1>3, <1>8, <1>9, <1>10, SendingSizes
<1>12. BufferExact'
  BY <1>4, <1>7, <1>11 DEF BufferExact
<1>13. WritesKept
  BY <1>1, <1>4, <1>6 DEF WritesKept, m
<1> QED
  BY <1>3, <1>4, <1>12, <1>13 DEF m, buf

\* Writes are marked as being sent.
LEMMA MarkStep ==
    ASSUME BufferExact, NEW used \in SUBSET send_data_buffer,
           writes' = WithState(writes, used, "kSending"), UNCHANGED <<send_data_buffer, buffer_size>>
    PROVE  BufferExact' /\ WritesKept /\ Len(writes') = Len(writes)
<1>1. /\ writes \in Seq(SentWrite) /\ Len(writes) \in Nat
      /\ send_data_buffer = {k \in 1 .. Len(writes) : writes[k].state \notin Finished}
      /\ buffer_size = SizeOf(writes, send_data_buffer) /\ buffer_size \in 0 .. BufferCapacity
  BY DEF BufferExact
<1>2. "kSending" \notin Finished
  BY DEF Finished
<1>3. /\ writes' \in Seq(SentWrite) /\ Len(writes') = Len(writes)
      /\ \A k \in 1 .. Len(writes) :
            /\ writes'[k].offset = writes[k].offset /\ writes'[k].from = writes[k].from
            /\ writes'[k].size = writes[k].size
            /\ writes'[k].state = IF k \in used THEN "kSending" ELSE writes[k].state
  BY <1>1, WithStateIs
<1>4. \A k \in 1 .. Len(writes) :
        /\ writes'[k].state \notin Finished <=> writes[k].state \notin Finished
        /\ writes[k].state \in Finished => writes'[k].state = writes[k].state
  BY <1>1, <1>2, <1>3
<1>5. SizeOf(writes', send_data_buffer) = SizeOf(writes, send_data_buffer)
  BY <1>1, <1>3, SizeSame
<1>6. send_data_buffer = {k \in 1 .. Len(writes') : writes'[k].state \notin Finished}
  BY <1>1, <1>3, <1>4
<1>7. BufferExact'
  BY <1>1, <1>3, <1>5, <1>6 DEF BufferExact
<1>8. WritesKept
  BY <1>1, <1>3, <1>4, SMTT(30) DEF WritesKept
<1> QED
  BY <1>3, <1>7, <1>8

\* A write is accepted.
LEMMA SendDataStep ==
    ASSUME BufferExact, SendingTypes, NEW size \in WriteSizes, SendData(size)
    PROVE  /\ BufferExact' /\ WritesKept /\ next_to_add' \in RingValues
           /\ writes' = Append(writes, [offset |-> next_to_add, from |-> Written, size |-> size,
                                        state |-> "kWaiting", reported |-> FALSE])
           /\ Written \in Nat /\ Written' = Written + size
<1> DEFINE m == Len(writes)
           write == [offset |-> next_to_add, from |-> Written, size |-> size,
                     state |-> "kWaiting", reported |-> FALSE]
<1>1. /\ writes \in Seq(SentWrite) /\ m \in Nat
      /\ send_data_buffer = {k \in 1 .. m : writes[k].state \notin Finished}
      /\ buffer_size = SizeOf(writes, send_data_buffer) /\ buffer_size \in 0 .. BufferCapacity
  BY DEF BufferExact
<1>2. /\ buffer_size + size <= BufferCapacity
      /\ writes' = Append(writes, write) /\ next_to_add' = Plus(EndOffset(write), 1)
      /\ send_data_buffer' = send_data_buffer \cup {m + 1}
      /\ buffer_size' = buffer_size + size
  BY DEF SendData
<1>3. Written \in Nat
  <2>1. CASE writes = <<>>
    BY <2>1 DEF Written
  <2>2. CASE writes # <<>>
    <3>1. writes[m] \in SentWrite
      BY <1>1, <2>2
    <3>2. writes[m].from \in Nat /\ writes[m].size \in Nat
      BY <3>1, WriteFields
    <3> QED
      BY <2>2, <3>2 DEF Written
  <2> QED
    BY <2>1, <2>2
<1>4. size \in Nat /\ next_to_add \in RingValues /\ BufferCapacity \in Nat
  BY SendingSizes DEF SendingTypes
<1>5. write \in SentWrite /\ write.size = size /\ write.from = Written /\ write.state = "kWaiting"
  BY <1>3, <1>4 DEF SentWrite
<1> HIDE DEF write
<1>6. next_to_add' \in RingValues
  BY <1>2, <1>5, WriteFields, PlusMinusType
<1>7. /\ writes' \in Seq(SentWrite) /\ Len(writes') = m + 1 /\ writes'[m + 1] = write
      /\ \A k \in 1 .. m : writes'[k] = writes[k]
  BY <1>1, <1>2, <1>5
<1>8. "kWaiting" \notin Finished
  BY DEF Finished
<1>9. send_data_buffer' = {k \in 1 .. Len(writes') : writes'[k].state \notin Finished}
  <2>1. \A k \in 1 .. m + 1 : k \in 1 .. m \/ k = m + 1
    BY <1>1
  <2>2. \A k \in 1 .. m : k \in 1 .. m + 1
    BY <1>1
  <2>3. m + 1 \in 1 .. m + 1
    BY <1>1
  <2> HIDE DEF m
  <2> QED
    BY <1>1, <1>2, <1>5, <1>7, <1>8, <2>1, <2>2, <2>3
<1>10. buffer_size' = SizeOf(writes', send_data_buffer')
  <2>1. writes \in Seq(SentWrite) /\ send_data_buffer \in SUBSET (1 .. Len(writes))
    BY <1>1
  <2>2. SizeOf(Append(writes, write), send_data_buffer \cup {Len(writes) + 1})
        = SizeOf(writes, send_data_buffer) + write.size
    BY <1>5, <2>1, SizeAppend, Zenon
  <2> QED
    BY <1>1, <1>2, <1>5, <2>2
<1>11. BufferExact'
  BY <1>1, <1>2, <1>4, <1>7, <1>9, <1>10 DEF BufferExact
<1>12. WritesKept
  BY <1>1, <1>7 DEF WritesKept
<1>13. Written' = Written + size
  <2>1. writes' # <<>> /\ Len(writes') = m + 1
    BY <1>1, <1>7
  <2> QED
    BY <1>5, <1>7, <2>1 DEF Written
<1> QED
  BY <1>2, <1>3, <1>6, <1>11, <1>12, <1>13 DEF write
-----------------------------------------------------------------------------
(* GetSlice *)

\* A slice while it is copied together.
Slice == [data : Seq(Int), next : RingValues, remaining : Nat, used : SUBSET send_data_buffer]

Covering(offset) ==
    {k \in send_data_buffer : InRange(writes[k].offset, EndOffset(writes[k]), offset)}
NothingYet(offset, max_size) ==
    [data |-> <<>>, next |-> offset, remaining |-> max_size, used |-> {}]

\* The loop of GetSlice goes over the writes in their order: what holds before
\* it and is passed on from each write to the next holds of its result.
LEMMA SliceInduction ==
    ASSUME Len(writes) \in Nat, NEW offset, NEW max_size, Covering(offset) # {}, NEW G,
           NothingYet(offset, max_size) \in G[0],
           \A n \in 1 .. Len(writes) : \A v \in G[n - 1] :
              (IF n \in {k \in send_data_buffer : k >= Min(Covering(offset))}
               THEN CopyFrom(v, n) ELSE v) \in G[n]
    PROVE  GetSlice(offset, max_size) \in G[Len(writes)]
<1> DEFINE m == Len(writes)
           rest == {k \in send_data_buffer : k >= Min(Covering(offset))}
           none == NothingYet(offset, max_size)
           IsUpTo(f) == f = [n \in 0 .. m |->
               IF n = 0 THEN none ELSE IF n \in rest THEN CopyFrom(f[n - 1], n) ELSE f[n - 1]]
           upTo == CHOOSE f : IsUpTo(f)
<1>1. GetSlice(offset, max_size) = IF Covering(offset) = {} THEN none ELSE upTo[m]
  BY Zenon DEF GetSlice, Covering, NothingYet
<1> HIDE DEF m, rest, none
<1>2. /\ m \in Nat /\ none \in G[0]
      /\ \A n \in 1 .. m : \A v \in G[n - 1] :
            (IF n \in rest THEN CopyFrom(v, n) ELSE v) \in G[n]
  BY DEF m, rest, none
<1>3. \E f : IsUpTo(f)
  <2> DEFINE step == [n \in 1 .. m |->
                        [v \in G[n - 1] |-> IF n \in rest THEN CopyFrom(v, n) ELSE v]]
  <2>1. Steps(m, G, step)
    BY <1>2 DEF Steps
  <2>2. \A n \in 1 .. m : \A v \in G[n - 1] :
          step[n][v] = IF n \in rest THEN CopyFrom(v, n) ELSE v
    OBVIOUS
  <2> HIDE DEF step
  <2>3. PICK f : IsRun(m, G, none, step, f)
    BY <1>2, <2>1, Recursion, Zenon
  <2>4. ASSUME NEW n \in 0 .. m
        PROVE  f[n] = IF n = 0 THEN none
                      ELSE IF n \in rest THEN CopyFrom(f[n - 1], n) ELSE f[n - 1]
    <3>1. CASE n = 0
      BY <2>3, <3>1 DEF IsRun
    <3>2. CASE n # 0
      <4>1. n \in 1 .. m /\ n - 1 \in 0 .. m
        BY <1>2, <3>2
      <4>2. f[n] = step[n][f[n - 1]] /\ f[n - 1] \in G[n - 1]
        BY <2>3, <4>1 DEF IsRun
      <4> QED
        BY <2>2, <3>2, <4>1, <4>2
    <3> QED
      BY <3>1, <3>2
  <2>5. f = [n \in 0 .. m |-> f[n]]
    BY <2>3 DEF IsRun
  <2>6. IsUpTo(f)
    <3>1. [n \in 0 .. m |-> f[n]] = [n \in 0 .. m |->
             IF n = 0 THEN none ELSE IF n \in rest THEN CopyFrom(f[n - 1], n) ELSE f[n - 1]]
      BY <2>4, Zenon
    <3> QED
      BY <2>5, <3>1, Zenon
  <2> HIDE DEF IsUpTo
  <2> QED
    BY <2>6, Zenon
<1>4. IsUpTo(upTo)
  <2> HIDE DEF IsUpTo
  <2> QED
    BY <1>3, Zenon
<1> HIDE DEF upTo
<1> DEFINE S == {n \in 0 .. m : upTo[n] \in G[n]}
<1>5. 0 \in S
  BY <1>2, <1>4
<1>6. ASSUME NEW n \in 1 .. m, n - 1 \in S PROVE n \in S
  <2>1. n \in 0 .. m /\ n # 0
    BY <1>2
  <2>2. upTo[n] = IF n \in rest THEN CopyFrom(upTo[n - 1], n) ELSE upTo[n - 1]
    BY <1>4, <2>1, Zenon
  <2>3. upTo[n - 1] \in G[n - 1]
    BY <1>6
  <2> QED
    BY <1>2, <2>1, <2>2, <2>3
<1> HIDE DEF S
<1>7. m \in S
  <2>1. \A n \in 0 .. m : n \in S
    BY <1>2, <1>5, <1>6, UpToM, Zenon
  <2>2. m \in 0 .. m
    BY <1>2
  <2> QED
    BY <2>1, <2>2, Zenon
<1> QED
  BY <1>1, <1>7 DEF S, m

\* How much of a write is copied, and from where.
LEMMA CopyIs ==
    ASSUME BufferExact, NEW v \in Slice, NEW k \in send_data_buffer, v.remaining # 0
    PROVE  \E n \in 0 .. v.remaining : \E data \in Seq(Int) :
             LET skip == Distance(writes[k].offset, v.next)
             IN  /\ CopyFrom(v, k) = [data |-> v.data \o data, next |-> Clockwise(v.next, n),
                                      remaining |-> v.remaining - n, used |-> v.used \cup {k}]
                 /\ skip <= writes[k].size =>
                      /\ n \in {writes[k].size - skip, v.remaining} /\ n <= writes[k].size - skip
                      /\ data = Bytes(writes[k].from + skip, n)
<1> DEFINE skip == Distance(writes[k].offset, v.next)
           size == writes[k].size
           n == IF skip > size THEN v.remaining ELSE Min({size - skip, v.remaining})
           data == IF skip > size THEN [j \in 1 .. n |-> Garbage]
                   ELSE Bytes(writes[k].from + skip, n)
<1>1. k \in 1 .. Len(writes) /\ writes[k] \in SentWrite
  BY DEF BufferExact
<1>2. size \in Nat /\ writes[k].from \in Nat /\ writes[k].offset \in RingValues
  BY <1>1, WriteFields
<1>3. v.remaining \in Nat /\ v.next \in RingValues
  BY DEF Slice
<1>4. skip \in Nat
  <2>1. skip \in 0 .. RingMax
    BY <1>2, <1>3, DistanceType, Zenon
  <2>2. RingMax \in Nat
    BY Sizes
  <2> QED
    BY <2>1, <2>2
<1>5. CopyFrom(v, k) = [data |-> v.data \o data, next |-> Clockwise(v.next, n),
                        remaining |-> v.remaining - n, used |-> v.used \cup {k}]
  BY DEF CopyFrom
<1> HIDE DEF skip, size
<1>6. /\ n \in 0 .. v.remaining
      /\ skip <= size => n \in {size - skip, v.remaining} /\ n <= size - skip
  <2>1. CASE skip > size
    BY <1>2, <1>3, <1>4, <2>1
  <2>2. CASE ~(skip > size)
    <3>1. size - skip \in Nat
      BY <1>2, <1>4, <2>2
    <3>2. n = Min({size - skip, v.remaining})
      BY <2>2
    <3> HIDE DEF n
    <3> QED
      BY <1>3, <3>1, <3>2, MinOfTwo
  <2> QED
    BY <2>1, <2>2
<1> HIDE DEF n
<1>7. data \in Seq(Int)
  <2>1. n \in Nat
    BY <1>3, <1>6
  <2>2. Bytes(writes[k].from + skip, n) \in Seq(Int)
    <3>1. writes[k].from + skip \in Nat
      BY <1>2, <1>4
    <3> QED
      BY <2>1, <3>1, BytesType, Zenon
  <2>3. [j \in 1 .. n |-> Garbage] \in Seq(Int)
    BY <2>1 DEF Garbage
  <2> QED
    BY <2>2, <2>3
<1>8. skip <= size => data = Bytes(writes[k].from + skip, n)
  BY <1>2, <1>4
<1> HIDE DEF data
<1> QED
  BY <1>5, <1>6, <1>7, <1>8, Zenon DEF skip, size

\* Whatever it reads, the loop of GetSlice copies data.
LEMMA CopyType ==
    ASSUME BufferExact, NEW v \in Slice, NEW k \in send_data_buffer
    PROVE  CopyFrom(v, k) \in Slice
<1>1. CASE v.remaining = 0
  BY <1>1 DEF CopyFrom
<1>2. CASE v.remaining # 0
  <2>1. PICK n \in 0 .. v.remaining, data \in Seq(Int) :
          CopyFrom(v, k) = [data |-> v.data \o data, next |-> Clockwise(v.next, n),
                            remaining |-> v.remaining - n, used |-> v.used \cup {k}]
    BY <1>2, CopyIs
  <2>2. /\ v.data \in Seq(Int) /\ v.next \in RingValues /\ v.remaining \in Nat
        /\ v.used \in SUBSET send_data_buffer
    BY DEF Slice
  <2>3. v.data \o data \in Seq(Int) /\ v.remaining - n \in Nat
    BY <2>2
  <2>4. Clockwise(v.next, n) \in RingValues
    BY <2>2, ClockwiseType
  <2>5. v.used \cup {k} \in SUBSET send_data_buffer
    BY <2>2
  <2> QED
    BY <2>1, <2>3, <2>4, <2>5 DEF Slice
<1> QED
  BY <1>1, <1>2

\* Whatever is asked of it, GetSlice returns data and marks buffered writes.
LEMMA SliceType ==
    ASSUME BufferExact, NEW offset \in RingValues, NEW max_size \in Nat
    PROVE  GetSlice(offset, max_size) \in Slice
<1>0. NothingYet(offset, max_size) \in Slice
  BY DEF NothingYet, Slice
<1>1. CASE Covering(offset) = {}
  <2>1. GetSlice(offset, max_size) = NothingYet(offset, max_size)
    BY <1>1, Zenon DEF GetSlice, Covering, NothingYet
  <2> QED
    BY <1>0, <2>1
<1>2. CASE Covering(offset) # {}
  <2> DEFINE m == Len(writes)
             G == [n \in 0 .. m |-> Slice]
  <2>1. m \in Nat
    BY DEF BufferExact
  <2>2. \A n \in 0 .. m : G[n] = Slice
    OBVIOUS
  <2> HIDE DEF G
  <2>3. \A n \in 1 .. m : \A v \in G[n - 1] :
          (IF n \in {k \in send_data_buffer : k >= Min(Covering(offset))}
           THEN CopyFrom(v, n) ELSE v) \in G[n]
    <3> TAKE n \in 1 .. m
    <3>1. G[n - 1] = Slice /\ G[n] = Slice
      BY <2>1, <2>2
    <3> TAKE v \in G[n - 1]
    <3> QED
      BY <3>1, CopyType
  <2>4. NothingYet(offset, max_size) \in G[0]
    BY <1>0, <2>1, <2>2
  <2>5. GetSlice(offset, max_size) \in G[m]
    BY <1>2, <2>1, <2>3, <2>4, SliceInduction
  <2> QED
    BY <2>1, <2>2, <2>5
<1> QED
  BY <1>1, <1>2
-----------------------------------------------------------------------------
(* The list of sent chunks *)

\* RemoveUpTo leaves chunks that begin where the old ones do, or at the offset.
LEMMA RemoveUpToType ==
    ASSUME NEW B, NEW chunks \in Seq(SendingChunk(B)), NEW offset \in B
    PROVE  RemoveUpTo(chunks, offset) \in Seq(SendingChunk(B))
<1> DEFINE ks == {i \in DOMAIN chunks :
                     /\ ~Before(chunks[i].end, offset)
                     /\ ~(InRange(chunks[i].begin, chunks[i].end, offset)
                          /\ offset = chunks[i].end)}
           kept == Kept(chunks, ks)
           new == [i \in DOMAIN kept |->
                     IF InRange(kept[i].begin, kept[i].end, offset)
                     THEN [kept[i] EXCEPT !.begin = offset] ELSE kept[i]]
<1>1. RemoveUpTo(chunks, offset) = new
  BY DEF RemoveUpTo
<1> HIDE DEF ks
<1>2. \A n \in 1 .. Len(chunks) : n \in ks => chunks[n] \in SendingChunk(B)
  OBVIOUS
<1>3. kept \in Seq(SendingChunk(B))
  BY <1>2, KeptType
<1> HIDE DEF kept
<1>4. ASSUME NEW i \in DOMAIN kept PROVE new[i] \in SendingChunk(B)
  <2>1. kept[i] \in SendingChunk(B)
    BY <1>3
  <2> QED
    BY <2>1 DEF SendingChunk
<1>5. new \in Seq(SendingChunk(B))
  BY <1>3, <1>4
<1> QED
  BY <1>1, <1>5

\* The chunk registered is the last one.
Registered(B, new, begin, end) ==
    /\ new \in Seq(SendingChunk(B)) /\ Len(new) \in Nat \ {0}
    /\ new[Len(new)].begin = begin /\ new[Len(new)].end = end

\* Register leaves chunks, and the last one is the one that was registered.
LEMMA RegisterType ==
    ASSUME NEW B \in SUBSET RingValues, NEW chunks \in Seq(SendingChunk(B)),
           NEW begin \in B, NEW end \in RingValues, Plus(end, 1) \in B
    PROVE  Registered(B, Register(chunks, begin, end), begin, end)
<1> DEFINE m == Len(chunks)
           hits == {i \in DOMAIN chunks : InRange(begin, end, chunks[i].begin)}
           first == chunks[Min(hits)]
           overlapping == hits \cup {i \in DOMAIN chunks : InRange(begin, end, chunks[i].end)}
           whole == {i \in DOMAIN chunks : ~(InRange(begin, end, chunks[i].begin)
                                             /\ InRange(begin, end, chunks[i].end))}
           kept == Kept(chunks, whole)
           trimmed == [i \in DOMAIN kept |-> Trim(kept[i], begin, end)]
           New(count) == [begin |-> begin, end |-> end, repeat_count |-> count]
           least == Min({first.repeat_count, chunks[Max(overlapping)].repeat_count})
           new == Register(chunks, begin, end)
           Counts == 0 .. MaxRepeatCount + 1
<1>0. m \in Nat /\ hits \in SUBSET (1 .. m) /\ overlapping \in SUBSET (1 .. m)
      /\ hits \subseteq overlapping
  OBVIOUS
<1>1. new = IF hits = {} THEN Append(chunks, New(0))
            ELSE IF first.begin = begin /\ first.end = end
            THEN Append(RemovedAt(chunks, Min(hits)), first)
            ELSE Append(trimmed, New(least))
  BY DEF Register
<1> SUFFICES Registered(B, new, begin, end)
  OBVIOUS
<1> HIDE DEF hits, overlapping, whole, new
<1>2. ASSUME NEW cs \in Seq(SendingChunk(B)), NEW c \in SendingChunk(B), new = Append(cs, c),
             c.begin = begin, c.end = end
      PROVE  Registered(B, new, begin, end)
  <2>1. new \in Seq(SendingChunk(B)) /\ Len(new) = Len(cs) + 1 /\ new[Len(new)] = c
    BY <1>2
  <2> QED
    BY <1>2, <2>1 DEF Registered
<1>3. \A count \in Counts : /\ New(count) \in SendingChunk(B)
                            /\ New(count).begin = begin /\ New(count).end = end
  BY DEF SendingChunk
<1> HIDE DEF New
<1>4. CASE hits = {}
  <2>1. 0 \in Counts
    BY Sizes
  <2>2. new = Append(chunks, New(0))
    BY <1>1, <1>4
  <2>3. New(0) \in SendingChunk(B) /\ New(0).begin = begin /\ New(0).end = end
    BY <1>3, <2>1
  <2> QED
    BY <1>2, <2>2, <2>3, Zenon
<1>5. CASE hits # {}
  <2>1. Min(hits) \in 1 .. m
    <3>1. hits \in SUBSET Nat
      BY <1>0
    <3>2. Min(hits) \in hits
      BY <1>5, <3>1, MinIn, Zenon
    <3> QED
      BY <1>0, <3>2, Zenon
  <2>2. Max(overlapping) \in 1 .. m
    <3>1. overlapping # {}
      BY <1>0, <1>5, Zenon
    <3>2. Max(overlapping) \in overlapping
      BY <1>0, <3>1, MaxIn, Zenon
    <3> QED
      BY <1>0, <3>2, Zenon
  <2>3. first \in SendingChunk(B) /\ chunks[Max(overlapping)] \in SendingChunk(B)
    BY <2>1, <2>2
  <2>4. CASE first.begin = begin /\ first.end = end
    <3>1. RemovedAt(chunks, Min(hits)) \in Seq(SendingChunk(B))
      <4>1. \A n \in 1 .. Len(chunks) :
              n \in DOMAIN chunks \ {Min(hits)} => chunks[n] \in SendingChunk(B)
        OBVIOUS
      <4> QED
        BY <4>1, KeptType DEF RemovedAt
    <3>2. new = Append(RemovedAt(chunks, Min(hits)), first)
      BY <1>1, <1>5, <2>4
    <3> QED
      BY <1>2, <2>3, <2>4, <3>1, <3>2, Zenon
  <2>5. CASE ~(first.begin = begin /\ first.end = end)
    <3>1. least \in Counts
      <4> DEFINE a == first.repeat_count
                 b == chunks[Max(overlapping)].repeat_count
      <4>1. a \in Counts /\ b \in Counts
        BY <2>3 DEF SendingChunk
      <4> HIDE DEF a, b
      <4>2. a \in Nat /\ b \in Nat
        BY <4>1
      <4>3. Min({a, b}) \in {a, b}
        BY <4>2, MinOfTwo
      <4>4. Min({a, b}) \in Counts
        BY <4>1, <4>3
      <4> QED
        BY <4>4 DEF a, b
    <3> HIDE DEF least
    <3>2. kept \in Seq(SendingChunk(B))
      <4>1. \A n \in 1 .. Len(chunks) : n \in whole => chunks[n] \in SendingChunk(B)
        OBVIOUS
      <4> QED
        BY <4>1, KeptType
    <3> HIDE DEF kept
    <3>3. ASSUME NEW i \in DOMAIN kept PROVE trimmed[i] \in SendingChunk(B)
      <4>1. kept[i] \in SendingChunk(B)
        BY <3>2
      <4>2. Minus(begin, 1) \in RingValues
        BY PlusMinusType
      <4>3. trimmed[i] = Trim(kept[i], begin, end)
        OBVIOUS
      <4> HIDE DEF trimmed
      <4> QED
        BY <4>1, <4>2, <4>3 DEF Trim, SendingChunk
    <3>4. trimmed \in Seq(SendingChunk(B))
      BY <3>2, <3>3
    <3> HIDE DEF trimmed
    <3>5. new = Append(trimmed, New(least))
      BY <1>1, <1>5, <2>5
    <3>6. New(least) \in SendingChunk(B) /\ New(least).begin = begin /\ New(least).end = end
      BY <1>3, <3>1
    <3> QED
      BY <1>2, <3>4, <3>5, <3>6, Zenon
  <2> QED
    BY <2>4, <2>5
<1> QED
  BY <1>4, <1>5, Zenon
-----------------------------------------------------------------------------
(* The steps of the sending end *)

\* A slice is sent, or it is given up and the writes up to its end are rejected.
SliceSent(begin, data) ==
    /\ \E type \in {"Send", "Repeat"} :
          data_out' = Append(data_out, [type |-> type, offset |-> begin, data |-> data])
    /\ UNCHANGED send_data_buffer
SliceGivenUp(end) ==
    /\ UNCHANGED data_out
    /\ \E freed \in {end} \cup FreedChunkReads :
          send_data_buffer' = send_data_buffer \ {k \in send_data_buffer : UpTo(writes[k], freed)}

\* A slice is registered, and sent or given up.
LEMMA SendSliceStep ==
    ASSUME BufferExact, SendingTypes, NEW B \in SUBSET RingValues,
           sending_chunks \in Seq(SendingChunk(B)), NEW begin \in B, NEW slice, NEW end \in B,
           slice = GetSlice(begin, max_data_size), end = Plus(begin, Len(slice.data) - 1),
           Plus(end, 1) \in B, SendSlice(begin)
    PROVE  /\ BufferExact' /\ WritesKept /\ Len(writes') = Len(writes)
           /\ sending_chunks' \in Seq(SendingChunk(B))
           /\ slice \in Slice /\ slice.data # <<>>
           /\ last_sent_offset' = Clockwise(begin, Len(slice.data))
           /\ UNCHANGED <<last_confirmed, next_to_add, max_data_size>>
           /\ SliceSent(begin, slice.data) \/ SliceGivenUp(end)
<1> DEFINE chunks == Register(sending_chunks, begin, end)
           count == chunks[Len(chunks)].repeat_count
<1>1. /\ slice.data # <<>>
      /\ last_sent_offset' = Clockwise(begin, Len(slice.data))
      /\ UNCHANGED <<last_confirmed, next_to_add, max_data_size>>
      /\ SendChunk(chunks, slice, count) \/ GiveUpChunk(chunks, slice, count)
  BY DEF SendSlice
<1>2. slice \in Slice /\ slice.used \in SUBSET send_data_buffer
  <2>1. begin \in RingValues /\ max_data_size \in Nat
    BY Sizes DEF SendingTypes
  <2>2. slice \in Slice
    BY <2>1, SliceType
  <2> QED
    BY <2>2 DEF Slice
<1>3. /\ chunks \in Seq(SendingChunk(B)) /\ Len(chunks) \in Nat \ {0}
      /\ chunks[Len(chunks)].begin = begin /\ chunks[Len(chunks)].end = end
  <2>1. end \in RingValues
    OBVIOUS
  <2>2. Registered(B, chunks, begin, end)
    BY <2>1, RegisterType
  <2> HIDE DEF chunks
  <2> QED
    BY <2>2 DEF Registered
<1> HIDE DEF chunks
<1>4. chunks[Len(chunks)] \in SendingChunk(B)
  BY <1>3
<1>5. /\ count \in 0 .. MaxRepeatCount + 1 /\ MaxRepeatCount \in Nat
      /\ chunks[Len(chunks)] = [begin |-> begin, end |-> end, repeat_count |-> count]
  BY <1>3, <1>4, Sizes DEF SendingChunk
<1> HIDE DEF count
<1>6. CASE SendChunk(chunks, slice, count)
  <2>1. /\ count <= MaxRepeatCount
        /\ sending_chunks' = [chunks EXCEPT ![Len(chunks)].repeat_count = count + 1]
        /\ writes' = WithState(writes, slice.used, "kSending")
        /\ data_out' = Append(data_out, [type |-> IF count = 0 THEN "Send" ELSE "Repeat",
                                         offset |-> begin, data |-> slice.data])
        /\ UNCHANGED <<send_data_buffer, buffer_size>>
    BY <1>3, <1>6 DEF SendChunk
  <2>2. BufferExact' /\ WritesKept /\ Len(writes') = Len(writes)
    BY <1>2, <2>1, MarkStep
  <2>3. sending_chunks' \in Seq(SendingChunk(B))
    <3> DEFINE sent == [chunks[Len(chunks)] EXCEPT !.repeat_count = count + 1]
    <3>1. count + 1 \in 0 .. MaxRepeatCount + 1
      BY <1>5, <2>1
    <3>2. sent = [begin |-> begin, end |-> end, repeat_count |-> count + 1]
      BY <1>5
    <3>3. sent \in SendingChunk(B)
      BY <3>1, <3>2 DEF SendingChunk
    <3>4. sending_chunks' = [chunks EXCEPT ![Len(chunks)] = sent]
      BY <2>1
    <3> HIDE DEF sent
    <3> QED
      BY <1>3, <3>3, <3>4
  <2>4. (IF count = 0 THEN "Send" ELSE "Repeat") \in {"Send", "Repeat"}
    OBVIOUS
  <2>5. SliceSent(begin, slice.data)
    BY <2>1, <2>4 DEF SliceSent
  <2> QED
    BY <1>1, <1>2, <2>2, <2>3, <2>5
<1>7. CASE GiveUpChunk(chunks, slice, count)
  <2>1. /\ sending_chunks' = RemoveUpTo(chunks, end)
        /\ \E freed \in {end} \cup FreedChunkReads :
              RejectData(WithState(writes, slice.used, "kSending"), freed)
        /\ UNCHANGED data_out
    BY <1>3, <1>7 DEF GiveUpChunk
  <2>2. PICK freed \in {end} \cup FreedChunkReads :
          RejectData(WithState(writes, slice.used, "kSending"), freed)
    BY <2>1
  <2> DEFINE out == {k \in send_data_buffer : UpTo(writes[k], freed)}
  <2>3. RemoveWrites(WithState(writes, slice.used, "kSending"), out, "kFailed")
    BY <2>2 DEF RejectData
  <2>4. "kFailed" \in Finished /\ out \in SUBSET send_data_buffer
    BY DEF Finished
  <2> HIDE DEF out
  <2>5. /\ BufferExact' /\ WritesKept /\ Len(writes') = Len(writes)
        /\ send_data_buffer' = send_data_buffer \ out
    <3>1. \E used, ws, left : /\ used = slice.used /\ ws = WithState(writes, used, "kSending")
                             /\ left = out /\ RemoveWrites(ws, left, "kFailed")
      BY <2>3, Zenon DEF RemoveWrites
    <3>2. PICK used, ws, left : /\ used = slice.used /\ ws = WithState(writes, used, "kSending")
                                /\ left = out /\ RemoveWrites(ws, left, "kFailed")
      BY <3>1, Zenon
    <3>3. /\ used \in SUBSET send_data_buffer /\ left \in SUBSET send_data_buffer
          /\ ws \in {writes, WithState(writes, used, "kSending")}
      BY <1>2, <2>4, <3>2, Zenon
    <3>4. /\ BufferExact' /\ WritesKept /\ Len(writes') = Len(writes)
          /\ send_data_buffer' = send_data_buffer \ left
      BY <2>4, <3>2, <3>3, RemoveWritesStep, Zenon
    <3> QED
      BY <3>2, <3>4, Zenon
  <2>6. sending_chunks' \in Seq(SendingChunk(B))
    BY <1>3, <2>1, RemoveUpToType
  <2>7. SliceGivenUp(end)
    BY <2>1, <2>5 DEF SliceGivenUp, out
  <2> QED
    BY <1>1, <1>2, <2>5, <2>6, <2>7
<1> QED
  BY <1>1, <1>6, <1>7

\* The writes up to an offset leave the buffer and the list of sent chunks.
LEMMA LeaveStep ==
    ASSUME BufferExact, NEW B, sending_chunks \in Seq(SendingChunk(B)), NEW offset \in B,
           sending_chunks' = RemoveUpTo(sending_chunks, offset),
           ConfirmData(offset) \/ RejectData(writes, offset) \/ StopData(offset)
    PROVE  /\ BufferExact' /\ WritesKept /\ Len(writes') = Len(writes)
           /\ sending_chunks' \in Seq(SendingChunk(B))
           /\ send_data_buffer' \in
                {send_data_buffer \ {k \in send_data_buffer : UpTo(writes[k], offset)},
                 send_data_buffer \ {k \in send_data_buffer : Before(EndOffset(writes[k]), offset)}}
<1>1. sending_chunks' \in Seq(SendingChunk(B))
  BY RemoveUpToType
<1> DEFINE upto == {k \in send_data_buffer : UpTo(writes[k], offset)}
           before == {k \in send_data_buffer : Before(EndOffset(writes[k]), offset)}
<1>2. /\ upto \in SUBSET send_data_buffer /\ before \in SUBSET send_data_buffer
      /\ "kDone" \in Finished /\ "kFailed" \in Finished /\ "kStopped" \in Finished
      /\ {} \in SUBSET send_data_buffer
  BY DEF Finished
<1>3. \/ RemoveWrites(writes, before, "kDone")
      \/ RemoveWrites(writes, upto, "kFailed")
      \/ RemoveWrites(writes, upto, "kStopped")
  BY DEF ConfirmData, RejectData, StopData
<1> HIDE DEF upto, before
<1>4. \E out \in {upto, before} : \E state \in Finished : RemoveWrites(writes, out, state)
  BY <1>2, <1>3
<1>5. PICK out \in {upto, before}, state \in Finished : RemoveWrites(writes, out, state)
  BY <1>4
<1>6. out \in SUBSET send_data_buffer
  BY <1>2, <1>5
<1>7. /\ BufferExact' /\ WritesKept /\ Len(writes') = Len(writes)
      /\ send_data_buffer' = send_data_buffer \ out
  BY <1>2, <1>5, <1>6, RemoveWritesStep
<1> QED
  BY <1>1, <1>5, <1>7 DEF upto, before

\* A record keeps its type when its flag is set.
LEMMA FlagSet ==
    ASSUME NEW A, NEW B, NEW C, NEW D,
           NEW v \in [offset : A, from : B, size : C, state : D, reported : BOOLEAN]
    PROVE  [v EXCEPT !.reported = TRUE]
             \in [offset : A, from : B, size : C, state : D, reported : BOOLEAN]
  BY Zenon

\* A reported write is otherwise the write it was.
LEMMA ReportedIs ==
    ASSUME NEW v \in SentWrite
    PROVE  LET w == [v EXCEPT !.reported = TRUE]
           IN  /\ w \in SentWrite /\ w.offset = v.offset /\ w.from = v.from
               /\ w.size = v.size /\ w.state = v.state
<1>1. [v EXCEPT !.reported = TRUE] \in SentWrite
  BY FlagSet, Zenon DEF SentWrite
<1> DEFINE w == [v EXCEPT !.reported = TRUE]
<1>2. w.offset = v.offset /\ w.from = v.from
  BY DEF SentWrite
<1>3. w.size = v.size /\ w.state = v.state
  BY DEF SentWrite
<1> QED
  BY <1>1, <1>2, <1>3, Zenon

\* The writer learns an outcome.
LEMMA ReportStep ==
    ASSUME BufferExact, NEW k \in DOMAIN writes, ReportFinished(k)
    PROVE  BufferExact' /\ WritesKept /\ Len(writes') = Len(writes)
<1>1. /\ writes \in Seq(SentWrite) /\ Len(writes) \in Nat
      /\ send_data_buffer = {j \in 1 .. Len(writes) : writes[j].state \notin Finished}
      /\ buffer_size = SizeOf(writes, send_data_buffer) /\ buffer_size \in 0 .. BufferCapacity
  BY DEF BufferExact
<1>2. /\ writes' = [writes EXCEPT ![k] = [writes[k] EXCEPT !.reported = TRUE]]
      /\ UNCHANGED <<send_data_buffer, buffer_size>>
  BY DEF ReportFinished
<1> DEFINE w == [writes[k] EXCEPT !.reported = TRUE]
<1>3. /\ w \in SentWrite /\ w.offset = writes[k].offset /\ w.from = writes[k].from
      /\ w.size = writes[k].size /\ w.state = writes[k].state
  <2>1. writes[k] \in SentWrite
    BY <1>1
  <2> QED
    BY <2>1, ReportedIs
<1> HIDE DEF w
<1>4. writes' = [writes EXCEPT ![k] = w]
  BY <1>2 DEF w
<1>5. /\ writes' \in Seq(SentWrite) /\ Len(writes') = Len(writes)
      /\ \A j \in 1 .. Len(writes) :
            /\ writes'[j].offset = writes[j].offset /\ writes'[j].from = writes[j].from
            /\ writes'[j].size = writes[j].size /\ writes'[j].state = writes[j].state
  BY <1>1, <1>3, <1>4
<1>6. SizeOf(writes', send_data_buffer) = SizeOf(writes, send_data_buffer)
  BY <1>1, <1>5, SizeSame
<1>7. BufferExact'
  BY <1>1, <1>2, <1>5, <1>6 DEF BufferExact
<1>8. WritesKept
  BY <1>1, <1>5 DEF WritesKept
<1> QED
  BY <1>5, <1>7, <1>8

\* Nothing happens to the writes.
LEMMA WritesUntouched ==
    ASSUME BufferExact, UNCHANGED <<writes, send_data_buffer, buffer_size>>
    PROVE  BufferExact' /\ WritesKept /\ Len(writes') = Len(writes)
<1>1. Len(writes) \in Nat
  BY DEF BufferExact
<1> QED
  BY <1>1 DEF BufferExact, WritesKept

\* What is left of a channel when a packet is delivered or lost.
LEMMA ChannelType ==
    ASSUME NEW T, NEW channel \in Seq(T), NEW i \in DOMAIN channel
    PROVE  /\ RemovedAt(channel, i) \in Seq(T)
           /\ \A left \in AfterDelivery(channel, i) : left \in Seq(T)
<1>1. \A n \in 1 .. Len(channel) : n \in DOMAIN channel \ {i} => channel[n] \in T
  OBVIOUS
<1>2. RemovedAt(channel, i) \in Seq(T)
  BY <1>1, KeptType DEF RemovedAt
<1> QED
  BY <1>2 DEF AfterDelivery

\* A packet that arrives is one of its channel.
LEMMA DeliveredOnes == ASSUME NEW channel PROVE Deliverable(channel) \subseteq DOMAIN channel
  BY DEF Deliverable

\* A response that arrives leaves its calls, and may arrive again.
LEMMA ResponsePicked ==
    ASSUME ArriveResponse
    PROVE  \E i \in DOMAIN response_out :
              /\ response_out' \in AfterDelivery(response_out, i)
              /\ calls' = Parsed(response_out[i])
<1>1. PICK i \in Deliverable(response_out) :
        /\ response_out' \in AfterDelivery(response_out, i)
        /\ calls' = Parsed(response_out[i])
  BY Zenon DEF ArriveResponse
<1>2. i \in DOMAIN response_out
  BY DeliveredOnes
<1> QED
  BY <1>1, <1>2, Zenon

\* The repeat timer of an update has run out or not.
LEMMA UpdatePicked ==
    ASSUME UpdateSender
    PROVE  \E timed_out \in BOOLEAN : SenderUpdate(timed_out)
<1>1. PICK timed_out \in (IF Timeouts THEN BOOLEAN ELSE {FALSE}) : SenderUpdate(timed_out)
  BY Zenon DEF UpdateSender
<1>2. timed_out \in BOOLEAN
  BY Zenon
<1> QED
  BY <1>1, <1>2, Zenon

\* The calls of a response are made with the offsets it carries.
LEMMA CallsType ==
    ASSUME NEW C \in SUBSET Nat, NEW R \in SUBSET Nat, NEW packet,
           packet \in [confirms : Seq(C), repeats : Seq(R \cup {NoGap})]
    PROVE  Parsed(packet) \in Seq([type : {"Confirm"}, offset : {Ring(o) : o \in C}]
                                  \cup [type : {"RequestRepeat"}, offset : {Ring(o) : o \in R}])
<1> DEFINE ks == {j \in DOMAIN packet.repeats : packet.repeats[j] # NoGap}
           requests == Kept(packet.repeats, ks)
           Confirms == [type : {"Confirm"}, offset : {Ring(o) : o \in C}]
           Requests == [type : {"RequestRepeat"}, offset : {Ring(o) : o \in R}]
           first == [j \in DOMAIN packet.confirms |->
                       [type |-> "Confirm", offset |-> Ring(packet.confirms[j])]]
           second == [j \in DOMAIN requests |->
                       [type |-> "RequestRepeat", offset |-> Ring(requests[j])]]
<1>1. Parsed(packet) = first \o second
  BY DEF Parsed
<1>2. packet.confirms \in Seq(C) /\ packet.repeats \in Seq(R \cup {NoGap})
  OBVIOUS
<1>3. requests \in Seq(R)
  <2>1. \A n \in 1 .. Len(packet.repeats) : n \in ks => packet.repeats[n] \in R
    BY <1>2
  <2> HIDE DEF ks
  <2> QED
    BY <1>2, <2>1, KeptType
<1> HIDE DEF requests
<1>4. first \in Seq(Confirms)
  <2>1. \A j \in DOMAIN packet.confirms :
          [type |-> "Confirm", offset |-> Ring(packet.confirms[j])] \in Confirms
    <3> TAKE j \in DOMAIN packet.confirms
    <3>1. packet.confirms[j] \in C
      BY <1>2
    <3>2. Ring(packet.confirms[j]) \in {Ring(o) : o \in C}
      BY <3>1, Zenon
    <3> QED
      BY <3>2
  <2> HIDE DEF Confirms
  <2> QED
    BY <1>2, <2>1
<1>5. second \in Seq(Requests)
  <2>1. \A j \in DOMAIN requests :
          [type |-> "RequestRepeat", offset |-> Ring(requests[j])] \in Requests
    <3> TAKE j \in DOMAIN requests
    <3>1. requests[j] \in R
      BY <1>3
    <3>2. Ring(requests[j]) \in {Ring(o) : o \in R}
      BY <3>1, Zenon
    <3> QED
      BY <3>2
  <2> HIDE DEF Requests
  <2> QED
    BY <1>3, <2>1
<1> HIDE DEF first, second, Confirms, Requests
<1>6. first \in Seq(Confirms \cup Requests) /\ second \in Seq(Confirms \cup Requests)
  BY <1>4, <1>5
<1>7. Parsed(packet) \in Seq(Confirms \cup Requests)
  BY <1>1, <1>6
<1> QED
  BY <1>7 DEF Confirms, Requests
-----------------------------------------------------------------------------
(* Types, the buffer and the outcomes *)

StreamTypes == BufferExact /\ SendingTypes /\ RvTypeOK

\* The sending end updates: it times out or not, and sends or not.
LEMMA UpdateSenderTypes ==
    ASSUME StreamTypes, UpdateSender
    PROVE  BufferExact' /\ SendingTypes' /\ WritesKept /\ Len(writes') = Len(writes)
<1>1. BufferExact /\ SendingTypes
  BY DEF StreamTypes
<1>2. PICK timed_out \in BOOLEAN : SenderUpdate(timed_out)
  BY UpdatePicked
<1> DEFINE begin == HandleTimeouts(timed_out)
<1>3. SendNothing(begin) \/ SendSlice(begin)
  BY <1>2 DEF SenderUpdate
<1>4. calls' = calls
  BY DEF UpdateSender
<1>5. begin \in RingValues
  <2>1. CASE timed_out /\ sending_chunks # <<>>
    <3>1. Head(sending_chunks) \in SendingChunk(RingValues)
      BY <1>1, <2>1 DEF SendingTypes
    <3> QED
      BY <2>1, <3>1 DEF HandleTimeouts, SendingChunk
  <2>2. CASE ~(timed_out /\ sending_chunks # <<>>)
    BY <1>1, <2>2 DEF HandleTimeouts, SendingTypes
  <2> QED
    BY <2>1, <2>2
<1> HIDE DEF begin
<1>6. CASE SendNothing(begin)
  <2>1. BufferExact' /\ WritesKept /\ Len(writes') = Len(writes)
    BY <1>1, <1>6, WritesUntouched DEF SendNothing
  <2>2. SendingTypes'
    BY <1>1, <1>4, <1>5, <1>6 DEF SendNothing, SendingTypes
  <2> QED
    BY <2>1, <2>2
<1>7. CASE SendSlice(begin)
  <2> DEFINE slice == GetSlice(begin, max_data_size)
             end == Plus(begin, Len(slice.data) - 1)
  <2>1. slice \in Slice
    <3>1. max_data_size \in Nat
      BY <1>1, Sizes DEF SendingTypes
    <3> QED
      BY <1>1, <1>5, <3>1, SliceType
  <2> HIDE DEF slice
  <2>2. slice.data \in Seq(Int) /\ Len(slice.data) \in Nat
    BY <2>1 DEF Slice
  <2>3. end \in RingValues /\ Plus(end, 1) \in RingValues
    BY <1>5, <2>2, PlusMinusType
  <2> HIDE DEF end
  <2>4. RingValues \in SUBSET RingValues /\ sending_chunks \in Seq(SendingChunk(RingValues))
    BY <1>1 DEF SendingTypes
  <2>5. /\ BufferExact' /\ WritesKept /\ Len(writes') = Len(writes)
        /\ sending_chunks' \in Seq(SendingChunk(RingValues))
        /\ last_sent_offset' = Clockwise(begin, Len(slice.data))
        /\ UNCHANGED <<last_confirmed, next_to_add, max_data_size>>
        /\ SliceSent(begin, slice.data) \/ SliceGivenUp(end)
    <3>1. slice = GetSlice(begin, max_data_size) /\ end = Plus(begin, Len(slice.data) - 1)
      BY DEF slice, end
    <3> QED
      BY <1>1, <1>5, <1>7, <2>3, <2>4, <3>1, SendSliceStep
  <2>6. last_sent_offset' \in RingValues
    BY <1>5, <2>2, <2>5, ClockwiseType
  <2>7. data_out' \in Seq(Packet)
    <3>1. \A type \in {"Send", "Repeat"} :
            [type |-> type, offset |-> begin, data |-> slice.data] \in Packet
      BY <1>5, <2>2 DEF Packet
    <3>2. data_out \in Seq(Packet)
      BY <1>1 DEF SendingTypes
    <3>3. CASE UNCHANGED data_out
      BY <3>2, <3>3
    <3>4. ASSUME NEW type \in {"Send", "Repeat"},
                 data_out' = Append(data_out, [type |-> type, offset |-> begin, data |-> slice.data])
          PROVE  data_out' \in Seq(Packet)
      <4> DEFINE packet == [type |-> type, offset |-> begin, data |-> slice.data]
      <4>1. packet \in Packet
        BY <3>1
      <4> HIDE DEF packet
      <4> QED
        BY <3>2, <3>4, <4>1 DEF packet
    <3>5. \/ UNCHANGED data_out
          \/ \E type \in {"Send", "Repeat"} :
               data_out' = Append(data_out, [type |-> type, offset |-> begin, data |-> slice.data])
      BY <2>5, Zenon DEF SliceSent, SliceGivenUp
    <3> QED
      BY <3>3, <3>4, <3>5
  <2> QED
    BY <1>1, <1>4, <2>5, <2>6, <2>7 DEF SendingTypes
<1> QED
  BY <1>3, <1>6, <1>7

\* A response arrives, whole.
LEMMA ArriveResponseTypes ==
    ASSUME StreamTypes, ArriveResponse
    PROVE  SendingTypes' /\ RvTypeOK'
<1>1. PICK i \in DOMAIN response_out :
        /\ response_out' \in AfterDelivery(response_out, i)
        /\ calls' = Parsed(response_out[i])
  BY ResponsePicked
<1>2. response_out \in Seq(Response)
  BY DEF StreamTypes, RvTypeOK
<1>3. response_out' \in Seq(Response)
  BY <1>1, <1>2, ChannelType
<1>4. response_out[i] \in [confirms : Seq(RingValues), repeats : Seq(RingValues \cup {NoGap})]
  <2>1. response_out[i] \in Response
    BY <1>2
  <2> QED
    BY <2>1, Zenon DEF Response
<1>5. RingValues \in SUBSET Nat
  BY Sizes
<1>6. calls' \in Seq([type : {"Confirm"}, offset : {Ring(o) : o \in RingValues}]
                     \cup [type : {"RequestRepeat"}, offset : {Ring(o) : o \in RingValues}])
  <2>1. Parsed(response_out[i]) \in Seq([type : {"Confirm"}, offset : {Ring(o) : o \in RingValues}]
                                        \cup [type : {"RequestRepeat"}, offset : {Ring(o) : o \in RingValues}])
    BY <1>4, <1>5, CallsType, Zenon
  <2> QED
    BY <1>1, <2>1, Zenon
<1>7. [type : {"Confirm"}, offset : {Ring(o) : o \in RingValues}]
      \cup [type : {"RequestRepeat"}, offset : {Ring(o) : o \in RingValues}] \subseteq ParsedCall
  BY <1>5, RingType DEF ParsedCall
<1>8. calls' \in Seq(ParsedCall)
  BY <1>6, <1>7
<1>9. UNCHANGED <<senderVars, last_confirmed_offset, received_data_chunks, expected_chunks,
                  confirmation_queue, delivered>>
  BY DEF ArriveResponse
<1> QED
  BY <1>3, <1>8, <1>9 DEF StreamTypes, SendingTypes, RvTypeOK, senderVars

\* Data arrives.
LEMMA ArriveDataTypes ==
    ASSUME StreamTypes, ArriveData
    PROVE  SendingTypes' /\ RvTypeOK'
<1>1. PICK i \in DOMAIN data_out :
        /\ data_out' \in AfterDelivery(data_out, i)
        /\ \/ ReceiveSend(Ring(data_out[i].offset), data_out[i].data)
           \/ ReceiveRepeat(Ring(data_out[i].offset), data_out[i].data)
  BY DEF ArriveData, Deliverable
<1>2. data_out \in Seq(Packet)
  BY DEF StreamTypes, SendingTypes
<1>3. data_out' \in Seq(Packet)
  BY <1>1, <1>2, ChannelType
<1>4. data_out[i] \in Packet
  BY <1>1, <1>2
<1>5. data_out[i].offset \in RingValues /\ data_out[i].data \in Seq(Int)
  BY <1>4 DEF Packet
<1>6. Ring(data_out[i].offset) \in RingValues
  <2>1. data_out[i].offset \in Nat
    BY <1>5, Sizes
  <2> QED
    BY <2>1, RingType, Zenon
<1>7. RvTypeOK'
  BY <1>1, <1>5, <1>6, ReceiveTypes DEF StreamTypes
<1>8. UNCHANGED <<sending_chunks, last_confirmed, next_to_add, last_sent_offset,
                  max_data_size, calls>>
  BY DEF ArriveData
<1> QED
  BY <1>3, <1>7, <1>8 DEF StreamTypes, SendingTypes

\* The writes up to an offset leave, in whatever way.
LEMMA LeaveTypes ==
    ASSUME StreamTypes, NEW offset \in RingValues,
           sending_chunks' = RemoveUpTo(sending_chunks, offset),
           ConfirmData(offset) \/ RejectData(writes, offset) \/ StopData(offset)
    PROVE  /\ BufferExact' /\ WritesKept /\ Len(writes') = Len(writes)
           /\ sending_chunks' \in Seq(SendingChunk(RingValues))
  BY LeaveStep DEF StreamTypes, SendingTypes

\* Every step keeps the types and the buffer exact, and takes no outcome back.
LEMMA TypesStep ==
    ASSUME StreamTypes, [Next]_vars
    PROVE  StreamTypes' /\ WritesKept /\ (Write \/ Len(writes') = Len(writes))
<1>0. BufferExact /\ SendingTypes /\ RvTypeOK
  BY DEF StreamTypes
<1>1. CASE Write
  <2>1. PICK size \in WriteSizes : SendData(size)
    BY <1>1 DEF Write
  <2>2. BufferExact' /\ WritesKept /\ next_to_add' \in RingValues
    BY <1>0, <2>1, SendDataStep, Zenon
  <2>3. SendingTypes'
    BY <1>0, <1>1, <2>1, <2>2 DEF SendData, SendingTypes, Write
  <2>4. RvTypeOK'
    BY <1>0, <1>1 DEF Write, receiverVars, RvTypeOK
  <2> QED
    BY <1>1, <2>2, <2>3, <2>4 DEF StreamTypes
<1>2. CASE Stop
  <2>1. PICK k \in DOMAIN writes : StopSending(k)
    BY <1>2 DEF Stop
  <2>2. writes[k].offset \in RingValues
    <3>1. writes[k] \in SentWrite
      BY <1>0, <2>1 DEF BufferExact
    <3> QED
      BY <3>1, WriteFields
  <2>3. /\ BufferExact' /\ WritesKept /\ Len(writes') = Len(writes)
        /\ sending_chunks' \in Seq(SendingChunk(RingValues))
    BY <2>1, <2>2, LeaveTypes DEF StopSending
  <2>4. SendingTypes'
    BY <1>0, <1>2, <2>1, <2>3 DEF StopSending, SendingTypes, Stop
  <2>5. RvTypeOK'
    BY <1>0, <1>2 DEF Stop, receiverVars, RvTypeOK
  <2> QED
    BY <2>3, <2>4, <2>5 DEF StreamTypes
<1>3. CASE Report
  <2>1. PICK k \in DOMAIN writes : ReportFinished(k)
    BY <1>3 DEF Report
  <2>2. BufferExact' /\ WritesKept /\ Len(writes') = Len(writes)
    BY <1>0, <2>1, ReportStep
  <2>3. SendingTypes'
    BY <1>0, <1>3, <2>1 DEF ReportFinished, SendingTypes, Report
  <2>4. RvTypeOK'
    BY <1>0, <1>3 DEF Report, receiverVars, RvTypeOK
  <2> QED
    BY <2>2, <2>3, <2>4 DEF StreamTypes
<1>4. CASE Link
  <2>1. PICK size \in MaxDataSizes : SetMaxDataSize(size)
    BY <1>4 DEF Link
  <2>2. BufferExact' /\ WritesKept /\ Len(writes') = Len(writes)
    BY <1>0, <2>1, WritesUntouched DEF SetMaxDataSize
  <2>3. max_data_size' \in RingValues
    <3>1. size \in Nat /\ RingMax + 1 \in Nat \ {0}
      BY <2>1, SendingSizes, Sizes
    <3>2. size % (RingMax + 1) \in 0 .. RingMax
      <4>1. PICK n \in Nat \ {0} : n = RingMax + 1
        BY <3>1
      <4>2. size % n \in 0 .. n - 1
        BY <3>1
      <4> QED
        BY <4>1, <4>2, RingMaxAssumption
    <3> QED
      BY <2>1, <3>2, Sizes DEF SetMaxDataSize
  <2>4. SendingTypes'
    BY <1>0, <1>4, <2>1, <2>3 DEF SetMaxDataSize, SendingTypes, Link
  <2>5. RvTypeOK'
    BY <1>0, <1>4 DEF Link, receiverVars, RvTypeOK
  <2> QED
    BY <2>2, <2>4, <2>5 DEF StreamTypes
<1>5. CASE UpdateSender
  <2>1. BufferExact' /\ SendingTypes' /\ WritesKept /\ Len(writes') = Len(writes)
    BY <1>5, UpdateSenderTypes
  <2>2. RvTypeOK'
    BY <1>0, <1>5 DEF UpdateSender, receiverVars, RvTypeOK
  <2> QED
    BY <2>1, <2>2 DEF StreamTypes
<1>6. CASE ArriveResponse
  <2>1. SendingTypes' /\ RvTypeOK'
    BY <1>6, ArriveResponseTypes
  <2>2. BufferExact' /\ WritesKept /\ Len(writes') = Len(writes)
    BY <1>0, <1>6, WritesUntouched DEF ArriveResponse, senderVars
  <2> QED
    BY <2>1, <2>2 DEF StreamTypes
<1>7. ASSUME calls # <<>>
      PROVE  Head(calls).offset \in RingValues /\ Tail(calls) \in Seq(ParsedCall)
  <2>1. calls \in Seq(ParsedCall)
    BY <1>0 DEF SendingTypes
  <2>2. Head(calls) \in ParsedCall /\ Tail(calls) \in Seq(ParsedCall)
    BY <1>7, <2>1
  <2> QED
    BY <2>2 DEF ParsedCall
<1>8. CASE OnConfirm
  <2> DEFINE offset == Head(calls).offset
  <2>1. offset \in RingValues /\ calls' \in Seq(ParsedCall) /\ Confirm(offset)
    BY <1>7, <1>8 DEF OnConfirm
  <2> HIDE DEF offset
  <2>2. RvTypeOK'
    BY <1>0, <1>8 DEF OnConfirm, receiverVars, RvTypeOK
  <2>3. CASE Distance(last_confirmed, offset) <= WindowSize
    <3>1. /\ BufferExact' /\ WritesKept /\ Len(writes') = Len(writes)
          /\ sending_chunks' \in Seq(SendingChunk(RingValues))
      BY <2>1, <2>3, LeaveTypes DEF Confirm
    <3>2. last_confirmed' \in RingValues
      BY <2>1, <2>3, PlusMinusType DEF Confirm
    <3>3. SendingTypes'
      BY <1>0, <2>1, <3>1, <3>2 DEF Confirm, SendingTypes
    <3> QED
      BY <2>2, <3>1, <3>3 DEF StreamTypes
  <2>4. CASE ~(Distance(last_confirmed, offset) <= WindowSize)
    <3>1. BufferExact' /\ WritesKept /\ Len(writes') = Len(writes)
      BY <1>0, <2>1, <2>4, WritesUntouched DEF Confirm
    <3>2. SendingTypes'
      BY <1>0, <2>1, <2>4 DEF Confirm, SendingTypes
    <3> QED
      BY <2>2, <3>1, <3>2 DEF StreamTypes
  <2> QED
    BY <2>3, <2>4
<1>9. CASE OnRequestRepeat
  <2>1. BufferExact' /\ WritesKept /\ Len(writes') = Len(writes)
    BY <1>0, <1>9, WritesUntouched DEF OnRequestRepeat, RequestRepeatSend
  <2>2. Head(calls).offset \in RingValues /\ calls' \in Seq(ParsedCall)
    BY <1>7, <1>9 DEF OnRequestRepeat
  <2>3. SendingTypes'
    BY <1>0, <1>9, <2>2 DEF OnRequestRepeat, RequestRepeatSend, SendingTypes
  <2>4. RvTypeOK'
    BY <1>0, <1>9 DEF OnRequestRepeat, receiverVars, RvTypeOK
  <2> QED
    BY <2>1, <2>3, <2>4 DEF StreamTypes
<1>10. CASE ArriveData
  <2>1. SendingTypes' /\ RvTypeOK'
    BY <1>10, ArriveDataTypes
  <2>2. BufferExact' /\ WritesKept /\ Len(writes') = Len(writes)
    BY <1>0, <1>10, WritesUntouched DEF ArriveData
  <2> QED
    BY <2>1, <2>2 DEF StreamTypes
<1>11. CASE UpdateReceiver
  <2>1. RvTypeOK'
    BY <1>0, <1>11, UpdateTypes DEF UpdateReceiver
  <2>2. BufferExact' /\ WritesKept /\ Len(writes') = Len(writes)
    BY <1>0, <1>11, WritesUntouched DEF UpdateReceiver, senderVars
  <2>3. SendingTypes'
    BY <1>0, <1>11 DEF UpdateReceiver, senderVars, SendingTypes
  <2> QED
    BY <2>1, <2>2, <2>3 DEF StreamTypes
<1>12. CASE Lose
  <2>1. BufferExact' /\ WritesKept /\ Len(writes') = Len(writes)
    BY <1>0, <1>12, WritesUntouched DEF Lose
  <2>2. data_out \in Seq(Packet) /\ response_out \in Seq(Response)
    BY <1>0 DEF SendingTypes, RvTypeOK
  <2>3. data_out' \in Seq(Packet) /\ response_out' \in Seq(Response)
    BY <1>12, <2>2, ChannelType DEF Lose
  <2>4. SendingTypes'
    BY <1>0, <1>12, <2>3 DEF Lose, SendingTypes
  <2>5. RvTypeOK'
    BY <1>0, <1>12, <2>3 DEF Lose, RvTypeOK
  <2> QED
    BY <2>1, <2>4, <2>5 DEF StreamTypes
<1>13. CASE FailWrite
  <2>1. PICK i \in DOMAIN data_out :
          ReportWriteError(data_out[i].offset) /\ data_out' = RemovedAt(data_out, i)
    BY <1>13 DEF FailWrite
  <2>2. data_out \in Seq(Packet)
    BY <1>0 DEF SendingTypes
  <2>3. data_out' \in Seq(Packet) /\ data_out[i].offset \in RingValues
    <3>1. data_out[i] \in Packet
      BY <2>1, <2>2
    <3> QED
      BY <2>1, <2>2, <3>1, ChannelType DEF Packet
  <2>4. /\ BufferExact' /\ WritesKept /\ Len(writes') = Len(writes)
        /\ sending_chunks' \in Seq(SendingChunk(RingValues))
    BY <2>1, <2>3, LeaveTypes DEF ReportWriteError
  <2>5. SendingTypes'
    BY <1>0, <1>13, <2>1, <2>3, <2>4 DEF ReportWriteError, SendingTypes, FailWrite
  <2>6. RvTypeOK'
    BY <1>0, <1>13 DEF FailWrite, receiverVars, RvTypeOK
  <2> QED
    BY <2>4, <2>5, <2>6 DEF StreamTypes
<1>14. CASE UNCHANGED vars
  <2>1. BufferExact' /\ WritesKept /\ Len(writes') = Len(writes)
    BY <1>0, <1>14, WritesUntouched DEF vars, senderVars
  <2>2. SendingTypes'
    BY <1>0, <1>14 DEF vars, senderVars, SendingTypes
  <2>3. RvTypeOK'
    BY <1>0, <1>14 DEF vars, receiverVars, RvTypeOK
  <2> QED
    BY <2>1, <2>2, <2>3 DEF StreamTypes
<1> QED
  BY <1>1, <1>2, <1>3, <1>4, <1>5, <1>6, <1>8, <1>9, <1>10, <1>11, <1>12, <1>13, <1>14 DEF Next

\* The stream starts with nothing written and nothing under way.
LEMMA StreamStart == Init => StreamTypes
<1> SUFFICES ASSUME Init PROVE StreamTypes
  OBVIOUS
<1>1. SenderInit /\ ReceiverInit /\ calls = <<>>
  BY DEF Init
<1>2. writes = <<>> /\ send_data_buffer = {} /\ buffer_size = 0
  BY <1>1 DEF SenderInit
<1>3. writes \in Seq(SentWrite) /\ Len(writes) = 0
  BY <1>2
<1>4. SizeOf(writes, send_data_buffer) = 0
  <2>1. PICK sum : IsSum(writes, send_data_buffer, sum)
                   /\ SizeOf(writes, send_data_buffer) = sum[Len(writes)]
    BY <1>3, SizeIsSum, Zenon
  <2> QED
    BY <1>3, <2>1 DEF IsSum
<1>5. BufferExact
  BY <1>2, <1>3, <1>4, SendingSizes DEF BufferExact
<1>6. Ring(0) \in RingValues /\ 0 \in RingValues
  BY Sizes, RingType
<1>7. SendingTypes
  BY <1>1, <1>6 DEF SenderInit, SendingTypes
<1>8. RvTypeOK
  BY <1>1, ReceiverStart
<1> QED
  BY <1>5, <1>7, <1>8 DEF StreamTypes

\* The types of both ends and the accounting of the buffer hold in every state.
LEMMA TypesAlways == Spec => []StreamTypes
  BY StreamStart, TypesStep, PTL DEF Spec

\* Whatever the network, the writer and the timers do, the sending end keeps its
\* types, buffer_size_ is the size of what is buffered, and exactly the writes
\* without an outcome are buffered (SafeStreamSendingAction, SendDataBuffer).
THEOREM SendingIsExact == Spec => []SendingExact
<1>1. StreamTypes => SendingExact
  <2> SUFFICES ASSUME StreamTypes PROVE SendingExact
    OBVIOUS
  <2>1. /\ writes \in Seq(SentWrite)
        /\ send_data_buffer = {k \in 1 .. Len(writes) : writes[k].state \notin Finished}
        /\ buffer_size = SizeOf(writes, send_data_buffer)
        /\ buffer_size \in 0 .. BufferCapacity
    BY DEF StreamTypes, BufferExact
  <2>2. DOMAIN writes = 1 .. Len(writes)
    BY <2>1
  <2>3. \A k \in DOMAIN writes : writes[k] \in SentWrite
    BY <2>1
  <2>4. \A i \in DOMAIN sending_chunks : sending_chunks[i] \in SendingChunk(RingValues)
    BY DEF StreamTypes, SendingTypes
  <2>5. /\ {last_confirmed, next_to_add, last_sent_offset, last_confirmed_offset} \subseteq RingValues
        /\ max_data_size \in RingValues
    BY DEF StreamTypes, SendingTypes, RvTypeOK
  <2>6. send_data_buffer \subseteq DOMAIN writes
    BY <2>1, <2>2
  <2>7. TypeOK
    BY <2>1, <2>3, <2>4, <2>5, <2>6 DEF TypeOK, SentWrite, SendingChunk
  <2>8. BufferAccounting
    BY <2>1, <2>2 DEF BufferAccounting
  <2> QED
    BY <2>7, <2>8 DEF SendingExact
<1> QED
  BY <1>1, TypesAlways, PTL

\* No late confirm, failed packet or repeated slice changes the outcome of a
\* finished write (SendDataBuffer::Confirm, Reject and Stop).
THEOREM OutcomesStay == Spec => OutcomeIsFinal
<1>1. ASSUME StreamTypes, [Next]_vars
      PROVE  [\A k \in DOMAIN writes :
                writes[k].state \in Finished => writes'[k].state = writes[k].state]_vars
  <2>1. WritesKept
    BY <1>1, TypesStep
  <2>2. DOMAIN writes = 1 .. Len(writes)
    BY <1>1 DEF StreamTypes, BufferExact
  <2> QED
    BY <2>1, <2>2 DEF WritesKept
<1> QED
  BY <1>1, TypesAlways, PTL DEF Spec, OutcomeIsFinal
=============================================================================
