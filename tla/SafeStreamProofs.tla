-------------------------- MODULE SafeStreamProofs --------------------------
(***************************************************************************)
(* The two ends of a safe stream and the network between them, for every   *)
(* size of the ring, the window, the buffer and the bounds: in the first   *)
(* window what is delivered is a prefix of what was written, and nothing   *)
(* delivered is taken back.                                                *)
(***************************************************************************)
EXTENDS SendingProofs

\* Two windows fit the ring, as they do with SafeStreamConfig's defaults, and
\* what a freed chunk reads as is an offset of the window.
NoWrap == 2 * WindowSize + 1 < RingMax /\ FreedChunkReads \subseteq 0 .. WindowSize

\* The offsets of the first window, and the one after it.
Marks == 0 .. WindowSize + 1

\* The writes follow one another, at the offsets of their bytes.
ContiguousWrites ==
    /\ next_to_add = Written
    /\ \A k \in 1 .. Len(writes) :
          /\ writes[k].offset = writes[k].from
          /\ writes[k].from + writes[k].size <= Written
    /\ \A k \in 1 .. Len(writes) : k + 1 \in 1 .. Len(writes) =>
          writes[k + 1].from = writes[k].from + writes[k].size
    /\ \A j, k \in 1 .. Len(writes) : j < k => writes[j].from + writes[j].size <= writes[k].from

\* The buffer has no holes: with a write it holds all later ones.
BufferClosed ==
    \A j \in send_data_buffer : \A k \in 1 .. Len(writes) : j <= k => k \in send_data_buffer

SenderMarks ==
    /\ sending_chunks \in Seq(SendingChunk(Marks))
    /\ last_confirmed \in Marks /\ last_sent_offset \in Marks

\* Packets carry bytes of the stream, and calls name offsets of it.
GenuinePacket(len) ==
    {p \in Packet : [offset |-> p.offset, data |-> p.data] \in GenuineChunk(len)}
WindowCall ==
    [type : {"Confirm"}, offset : 0 .. WindowSize] \cup [type : {"RequestRepeat"}, offset : Marks]

FirstWindowInv ==
    /\ ContiguousWrites /\ BufferClosed /\ SenderMarks
    /\ data_out \in Seq(GenuinePacket(Written))
    /\ calls \in Seq(WindowCall)
    /\ OrderInv(Written)

\* In the first window distances are differences.
LEMMA MarksFit ==
    ASSUME NoWrap
    PROVE  /\ Marks \subseteq RingValues /\ Marks \subseteq Nat
           /\ \A a, b \in Marks : Distance(a, b) <= WindowSize <=> a <= b /\ b - a <= WindowSize
           /\ \A a \in Marks : Ring(a) = a
           /\ 1 < RingMax /\ WindowSize + 1 < RingMax /\ 2 * WindowSize + 1 < RingMax
<1>1. /\ WindowSize \in Nat \ {0} /\ RingMax \in Nat /\ 2 * WindowSize + 1 < RingMax
      /\ RingValues = 0 .. RingMax
  BY Sizes DEF NoWrap
<1>2. Marks \subseteq RingValues /\ Marks \subseteq Nat /\ Marks \subseteq 0 .. RingMax - 1
  BY <1>1 DEF Marks
<1>3. ASSUME NEW a \in Marks, NEW b \in Marks
      PROVE  Distance(a, b) <= WindowSize <=> a <= b /\ b - a <= WindowSize
  <2>1. a \in RingValues /\ b \in RingValues /\ a \in 0 .. WindowSize + 1 /\ b \in 0 .. WindowSize + 1
    BY <1>2 DEF Marks
  <2>2. CASE a <= b
    BY <1>1, <2>1, <2>2, DistanceAhead
  <2>3. CASE ~(a <= b)
    <3>1. Distance(a, b) = RingMax - a + b
      BY <2>1, <2>3, DistanceBehind, Sizes
    <3> QED
      BY <1>1, <2>1, <2>3, <3>1
  <2> QED
    BY <2>2, <2>3
<1>4. ASSUME NEW a \in Marks PROVE Ring(a) = a
  BY <1>2, ModSmall DEF Ring
<1> QED
  BY <1>1, <1>2, <1>3, <1>4

\* Where a write of the first window lies.
SpanInWindow(k) ==
    /\ writes[k].from \in Nat /\ writes[k].size \in Nat \ {0}
    /\ writes[k].offset = writes[k].from /\ writes[k].from \in 0 .. WindowSize
    /\ EndOffset(writes[k]) = writes[k].from + writes[k].size - 1
    /\ writes[k].from + writes[k].size - 1 \in 0 .. WindowSize
    /\ writes[k].from + writes[k].size <= Written
    /\ Written \in Marks

\* Every write of the first window lies where its bytes are.
LEMMA WriteSpan ==
    ASSUME NoWrap, BufferExact, ContiguousWrites, FirstWindow, NEW k \in 1 .. Len(writes)
    PROVE  SpanInWindow(k)
<1>1. writes[k] \in SentWrite
  BY DEF BufferExact
<1>2. writes[k].from \in Nat /\ writes[k].size \in Nat \ {0}
  BY <1>1, WriteFields
<1>3. writes[k].offset = writes[k].from /\ writes[k].from + writes[k].size <= Written
  BY DEF ContiguousWrites
<1>4. Written \in Nat /\ Written <= WindowSize + 1
  <2>1. writes # <<>> /\ Len(writes) \in 1 .. Len(writes) /\ writes[Len(writes)] \in SentWrite
    BY DEF BufferExact
  <2>2. writes[Len(writes)].from \in Nat /\ writes[Len(writes)].size \in Nat
    BY <2>1, WriteFields
  <2> QED
    BY <2>1, <2>2 DEF Written, FirstWindow
<1> DEFINE f == writes[k].from
           n == writes[k].size
<1> HIDE DEF f, n
<1>5. /\ f \in Nat /\ n \in Nat \ {0} /\ f + n <= WindowSize + 1
      /\ writes[k].offset = f /\ WindowSize \in Nat
  BY <1>2, <1>3, <1>4, Sizes DEF f, n
<1>6. f \in 0 .. WindowSize /\ f + n - 1 \in 0 .. WindowSize /\ f \in Marks
  BY <1>5 DEF Marks
<1>7. EndOffset(writes[k]) = f + n - 1
  <2>1. f \in RingValues /\ n - 1 \in Nat /\ n - 1 < RingMax /\ f + (n - 1) <= RingMax
    <3>1. f \in RingValues
      BY <1>6, MarksFit, Zenon
    <3>2. WindowSize + 1 < RingMax /\ RingMax \in Nat
      BY MarksFit, RingMaxAssumption
    <3> QED
      BY <1>5, <3>1, <3>2
  <2>2. Plus(f, n - 1) = f + (n - 1)
    BY <2>1, PlusNoWrap
  <2>3. EndOffset(writes[k]) = Plus(f, n - 1)
    BY <1>5 DEF EndOffset, n
  <2> QED
    BY <1>5, <2>2, <2>3
<1>8. Written \in Marks
  BY <1>4, Sizes DEF Marks
<1> QED
  BY <1>2, <1>3, <1>6, <1>7, <1>8 DEF f, n, SpanInWindow

\* Confirm takes the writes that end before an offset, Reject and Stop those
\* that begin at or before it.
LEMMA LeavesInOrder ==
    ASSUME NoWrap, BufferExact, ContiguousWrites, FirstWindow, NEW offset \in Marks,
           NEW k \in 1 .. Len(writes)
    PROVE  /\ UpTo(writes[k], offset) <=> writes[k].from <= offset
           /\ Before(EndOffset(writes[k]), offset) <=>
                writes[k].from + writes[k].size - 1 < offset
<1> DEFINE f == writes[k].from
           e == EndOffset(writes[k])
<1>1. /\ f \in 0 .. WindowSize /\ e \in 0 .. WindowSize /\ f <= e /\ writes[k].offset = f
      /\ e = f + writes[k].size - 1
  BY WriteSpan DEF SpanInWindow
<1> HIDE DEF f, e
<1>2. f \in Marks /\ e \in Marks /\ WindowSize \in Nat
  BY <1>1, Sizes DEF Marks
<1>3. /\ Distance(offset, e) <= WindowSize <=> offset <= e /\ e - offset <= WindowSize
      /\ Distance(f, offset) <= WindowSize <=> f <= offset /\ offset - f <= WindowSize
      /\ Distance(offset, e) \in Int
  <2>1. offset \in RingValues /\ e \in RingValues
    BY <1>2, MarksFit
  <2> QED
    BY <1>2, <2>1, MarksFit, DistanceType
<1>4. offset \in 0 .. WindowSize + 1
  BY DEF Marks
<1>5. Before(e, offset) <=> e < offset
  BY <1>1, <1>2, <1>3, <1>4 DEF Before
<1>6. InRange(f, e, offset) <=> f <= offset /\ offset <= e
  BY <1>1, <1>2, <1>3, <1>4 DEF InRange
<1>7. UpTo(writes[k], offset) <=> f <= offset
  <2>1. UpTo(writes[k], offset) <=> Before(e, offset) \/ InRange(f, e, offset)
    BY <1>1 DEF UpTo, e
  <2> QED
    BY <1>1, <1>4, <1>5, <1>6, <2>1
<1> QED
  BY <1>1, <1>5, <1>7 DEF f, e

\* So what leaves the buffer leaves no hole.
LEMMA ClosedStays ==
    ASSUME NoWrap, BufferExact, ContiguousWrites, BufferClosed, FirstWindow, NEW offset \in Marks,
           Len(writes') = Len(writes),
           send_data_buffer' \in
                {send_data_buffer,
                 send_data_buffer \ {k \in send_data_buffer : UpTo(writes[k], offset)},
                 send_data_buffer \ {k \in send_data_buffer : Before(EndOffset(writes[k]), offset)}}
    PROVE  BufferClosed'
<1> SUFFICES ASSUME NEW j \in send_data_buffer', NEW k \in 1 .. Len(writes), j <= k
             PROVE  k \in send_data_buffer'
  BY DEF BufferClosed
<1>1. j \in send_data_buffer /\ j \in 1 .. Len(writes)
  BY DEF BufferExact
<1>2. k \in send_data_buffer
  BY <1>1 DEF BufferClosed
<1>3. /\ writes[j].from \in Nat /\ writes[j].size \in Nat \ {0}
      /\ writes[k].from \in Nat /\ writes[k].size \in Nat \ {0}
  BY <1>1, WriteSpan DEF SpanInWindow
<1>4. writes[j].from <= writes[k].from
      /\ writes[j].from + writes[j].size <= writes[k].from + writes[k].size
  <2>1. CASE j = k
    BY <1>3, <2>1
  <2>2. CASE j < k
    <3>1. writes[j].from + writes[j].size <= writes[k].from
      BY <1>1, <2>2, Zenon DEF ContiguousWrites
    <3> QED
      BY <1>3, <3>1, SMTT(30)
  <2> QED
    BY <1>1, <2>1, <2>2, SMTT(30)
<1>5. offset \in Nat
  BY Sizes DEF Marks
<1>6. /\ UpTo(writes[k], offset) => UpTo(writes[j], offset)
      /\ Before(EndOffset(writes[k]), offset) => Before(EndOffset(writes[j]), offset)
  <2>1. /\ UpTo(writes[k], offset) <=> writes[k].from <= offset
        /\ Before(EndOffset(writes[k]), offset) <=> writes[k].from + writes[k].size - 1 < offset
    BY LeavesInOrder, Zenon
  <2>2. /\ UpTo(writes[j], offset) <=> writes[j].from <= offset
        /\ Before(EndOffset(writes[j]), offset) <=> writes[j].from + writes[j].size - 1 < offset
    BY <1>1, LeavesInOrder, Zenon
  <2>3. /\ writes[k].from <= offset => writes[j].from <= offset
        /\ writes[k].from + writes[k].size - 1 < offset => writes[j].from + writes[j].size - 1 < offset
    <3> DEFINE f == writes[j].from
               m == writes[j].size
               g == writes[k].from
               n == writes[k].size
    <3> HIDE DEF f, m, g, n
    <3>1. /\ f \in Nat /\ m \in Nat \ {0} /\ g \in Nat /\ n \in Nat \ {0} /\ offset \in Nat
          /\ f <= g /\ f + m <= g + n
      BY <1>3, <1>4, <1>5, Zenon DEF f, m, g, n
    <3>2. (g <= offset => f <= offset) /\ (g + n - 1 < offset => f + m - 1 < offset)
      BY <3>1
    <3> QED
      BY <3>2, Zenon DEF f, m, g, n
  <2> QED
    BY <2>1, <2>2, <2>3, Zenon
<1> QED
  BY <1>1, <1>2, <1>6

\* Two slices that follow one another make up a slice.
LEMMA BytesConcat ==
    ASSUME NEW a \in Nat, NEW n \in Nat, NEW c \in Nat
    PROVE  Bytes(a, n) \o Bytes(a + n, c) = Bytes(a, n + c)
<1>1. a + n \in Nat
  OBVIOUS
<1>2. Bytes(a, n) \in Seq(Int) /\ Bytes(a + n, c) \in Seq(Int)
  BY <1>1, BytesType, Zenon
<1> DEFINE s == Bytes(a, n)
           t == Bytes(a + n, c)
<1>3. s = Bytes(a, n) /\ t = Bytes(a + n, c) /\ s \in Seq(Int) /\ t \in Seq(Int)
  BY <1>2, Zenon
<1> HIDE DEF s, t
<1>4. s \o t = Bytes(a, n + c)
  BY <1>3 DEF Bytes
<1> QED
  BY <1>4 DEF s, t

\* The loop of GetSlice copies what follows, to the end of a write unless enough
\* is copied.
CopiedUpTo(begin, v, end) ==
    /\ v \in Slice
    /\ v.data = Bytes(begin, Len(v.data))
    /\ v.next = begin + Len(v.data)
    /\ v.next <= end
    /\ v.remaining # 0 => v.next = end

\* A step of the loop continues the copy by bytes of the stream.
LEMMA CopyGenuine ==
    ASSUME NoWrap, BufferExact, ContiguousWrites, FirstWindow, NEW begin \in Marks,
           NEW k \in send_data_buffer, NEW v \in Slice,
           v.data = Bytes(begin, Len(v.data)), v.next = begin + Len(v.data),
           writes[k].from <= v.next, v.next <= writes[k].from + writes[k].size
    PROVE  CopiedUpTo(begin, CopyFrom(v, k), writes[k].from + writes[k].size)
<1> DEFINE f == writes[k].from
           size == writes[k].size
           len == Len(v.data)
<1>1. k \in 1 .. Len(writes)
  BY DEF BufferExact
<1>2. /\ f \in Nat /\ size \in Nat \ {0} /\ writes[k].offset = f /\ f \in 0 .. WindowSize
      /\ f + size - 1 \in 0 .. WindowSize
  BY <1>1, WriteSpan DEF SpanInWindow
<1>3. /\ v.data \in Seq(Int) /\ v.next \in RingValues /\ v.remaining \in Nat /\ len \in Nat
      /\ v.next \in Nat
  BY Sizes DEF Slice
<1>4. begin \in Nat /\ WindowSize \in Nat
  BY MarksFit, Sizes
<1> HIDE DEF f, size, len
<1>5. v.data = Bytes(begin, len) /\ v.next = begin + len /\ f <= v.next /\ v.next <= f + size
  BY DEF f, size, len
<1>6. CASE v.remaining = 0
  <2>1. CopyFrom(v, k) = v
    BY <1>6 DEF CopyFrom
  <2> QED
    BY <1>5, <1>6, <2>1 DEF CopiedUpTo, f, size, len
<1>7. CASE v.remaining # 0
  <2> DEFINE skip == Distance(writes[k].offset, v.next)
  <2>1. skip = v.next - f
    <3>1. f \in RingValues
      BY <1>2, <1>4, MarksFit DEF Marks
    <3> QED
      BY <1>2, <1>3, <1>5, <3>1, DistanceAhead
  <2>2. PICK c \in 0 .. v.remaining, data \in Seq(Int) :
          /\ CopyFrom(v, k) = [data |-> v.data \o data, next |-> Clockwise(v.next, c),
                               remaining |-> v.remaining - c, used |-> v.used \cup {k}]
          /\ skip <= size =>
               /\ c \in {size - skip, v.remaining} /\ c <= size - skip
               /\ data = Bytes(f + skip, c)
    BY <1>7, CopyIs, Zenon DEF f, size
  <2> HIDE DEF skip
  <2>3. c \in Nat /\ skip <= size
    <3> DEFINE at == v.next
               rem == v.remaining
    <3>1. at \in Nat /\ rem \in Nat /\ at <= f + size /\ skip = at - f /\ c \in 0 .. rem
      BY <1>3, <1>5, <2>1, Zenon
    <3> HIDE DEF at, rem
    <3> QED
      BY <1>2, <3>1
  <2>4. /\ c \in {size - skip, v.remaining} /\ v.next + c <= f + size
        /\ data = Bytes(begin + len, c)
    <3>1. f + skip = begin + len
      BY <1>2, <1>3, <1>4, <1>5, <2>1
    <3>2. c \in {size - skip, v.remaining} /\ c <= size - skip /\ data = Bytes(f + skip, c)
      BY <2>2, <2>3
    <3> QED
      BY <1>2, <1>3, <1>5, <2>1, <2>3, <3>1, <3>2
  <2>5. Clockwise(v.next, c) = v.next + c
    <3>1. c < RingMax /\ v.next + c <= RingMax
      <4> DEFINE at == v.next
      <4>1. at \in Nat /\ c \in Nat /\ at + c <= f + size
        BY <1>3, <2>3, <2>4, Zenon
      <4>2. RingMax \in Nat /\ WindowSize + 1 < RingMax
        BY MarksFit, Sizes
      <4> HIDE DEF at
      <4>3. c < RingMax /\ at + c <= RingMax
        BY <1>2, <1>4, <4>1, <4>2
      <4> QED
        BY <4>3 DEF at
    <3> QED
      BY <1>3, <2>3, <3>1, ClockwiseNoWrap
  <2>6. v.data \o data = Bytes(begin, len + c)
    <3>1. Bytes(begin, len) \o Bytes(begin + len, c) = Bytes(begin, len + c)
      <4>1. begin \in Nat /\ len \in Nat /\ c \in Nat
        BY <1>3, <1>4, <2>3, Zenon
      <4> QED
        BY <4>1, BytesConcat, ZenonT(40)
    <3> QED
      BY <1>5, <2>4, <3>1, Zenon
  <2>7. Len(Bytes(begin, len + c)) = len + c
    <3>1. len + c \in Nat /\ begin \in Nat
      BY <1>3, <1>4, <2>3
    <3> QED
      BY <3>1, BytesType, Zenon
  <2> DEFINE new == CopyFrom(v, k)
  <2>8. new.data = Bytes(begin, len + c) /\ new.next = v.next + c /\ new.remaining = v.remaining - c
    BY <2>2, <2>5, <2>6
  <2>9. new \in Slice
    BY CopyType
  <2> HIDE DEF new
  <2>10. new.data = Bytes(begin, Len(new.data)) /\ Len(new.data) = len + c
    BY <2>7, <2>8
  <2>11. new.next = begin + Len(new.data) /\ new.next <= f + size
    BY <1>3, <1>4, <1>5, <2>3, <2>4, <2>8, <2>10
  <2>12. new.remaining # 0 => new.next = f + size
    <3> SUFFICES ASSUME new.remaining # 0 PROVE new.next = f + size
      OBVIOUS
    <3>1. c = size - skip
      BY <1>3, <2>3, <2>4, <2>8
    <3> QED
      <4> DEFINE at == v.next
      <4>1. at \in Nat /\ c = size - skip /\ skip = at - f /\ new.next = at + c
        BY <1>3, <2>1, <2>8, <3>1, Zenon
      <4> HIDE DEF at
      <4> QED
        BY <1>2, <4>1
  <2> QED
    BY <2>9, <2>10, <2>11, <2>12 DEF CopiedUpTo, new, f, size
<1> QED
  BY <1>6, <1>7

\* In the first window GetSlice returns the bytes that were written at its
\* offset: it never reads across a hole or the end of the buffered data.
LEMMA SliceGenuine ==
    ASSUME NoWrap, BufferExact, ContiguousWrites, BufferClosed, FirstWindow,
           NEW begin \in Marks, NEW max_size \in Nat, NEW data,
           data = GetSlice(begin, max_size).data, data # <<>>
    PROVE  data = Bytes(begin, Len(data)) /\ begin + Len(data) <= Written
<1> DEFINE none == NothingYet(begin, max_size)
<1>1. Covering(begin) # {}
  <2> SUFFICES ASSUME Covering(begin) = {} PROVE FALSE
    OBVIOUS
  <2>1. GetSlice(begin, max_size) = none
    BY Zenon DEF GetSlice, Covering, NothingYet
  <2> QED
    BY <2>1 DEF NothingYet
<1> DEFINE m == Len(writes)
           k0 == Min(Covering(begin))
           rest == {k \in send_data_buffer : k >= k0}
           End(n) == writes[n].from + writes[n].size
<1>2. m \in Nat /\ send_data_buffer \subseteq 1 .. m
  BY DEF BufferExact
<1>3. k0 \in send_data_buffer /\ k0 \in 1 .. m
      /\ InRange(writes[k0].offset, EndOffset(writes[k0]), begin)
  <2>1. Covering(begin) \in SUBSET Nat
    <3>1. Covering(begin) \subseteq send_data_buffer
      BY Zenon DEF Covering
    <3> QED
      <4>1. 1 .. m \subseteq Nat
        BY <1>2
      <4> QED
        BY <1>2, <3>1, <4>1, Zenon
  <2>2. k0 \in Covering(begin)
    BY <1>1, <2>1, MinIn
  <2> QED
    BY <1>2, <2>2, Zenon DEF Covering
<1> HIDE DEF k0
<1>4. ASSUME NEW n \in 1 .. m
      PROVE  /\ writes[n].from \in Nat /\ writes[n].size \in Nat \ {0}
             /\ writes[n].offset = writes[n].from /\ writes[n].from \in 0 .. WindowSize
             /\ EndOffset(writes[n]) = End(n) - 1 /\ End(n) - 1 \in 0 .. WindowSize
             /\ End(n) <= Written /\ Written \in Marks
  <2>1. SpanInWindow(n)
    BY WriteSpan, Zenon
  <2> QED
    BY <2>1 DEF SpanInWindow
<1>5. begin \in Nat /\ begin \in RingValues /\ WindowSize \in Nat
  BY MarksFit, Sizes
<1>6. writes[k0].from <= begin /\ begin <= End(k0)
  <2>1. writes[k0].from \in Marks /\ End(k0) - 1 \in Marks
    <3>1. writes[k0].from \in 0 .. WindowSize /\ End(k0) - 1 \in 0 .. WindowSize
      BY <1>3, <1>4, Zenon
    <3>2. 0 .. WindowSize \subseteq Marks
      BY <1>5 DEF Marks
    <3> QED
      BY <3>1, <3>2, Zenon
  <2>2. /\ Distance(writes[k0].from, begin) <= WindowSize
        /\ Distance(begin, End(k0) - 1) <= WindowSize
    BY <1>3, <1>4 DEF InRange
  <2>3. writes[k0].from <= begin /\ begin <= End(k0) - 1
    BY <2>1, <2>2, MarksFit
  <2> QED
    BY <1>3, <1>4, <1>5, <2>3
<1>7. \A n \in 1 .. m : /\ n >= k0 => n \in rest /\ n \in send_data_buffer
                        /\ n < k0 => n \notin rest
  BY <1>3 DEF BufferClosed
<1> HIDE DEF rest, End
<1>8. /\ none \in Slice /\ none.data = Bytes(begin, Len(none.data))
      /\ none.next = begin + Len(none.data)
  <2>1. none \in Slice
    BY <1>5 DEF NothingYet, Slice
  <2>2. none.data = <<>> /\ none.next = begin
    BY DEF NothingYet
  <2>3. Bytes(begin, 0) = <<>>
    BY DEF Bytes
  <2> QED
    BY <1>5, <2>1, <2>2, <2>3
<1> HIDE DEF none
<1> DEFINE G == [n \in 0 .. m |->
                   IF n < k0 THEN {none} ELSE {v \in Slice : CopiedUpTo(begin, v, End(n))}]
<1>9. \A n \in 0 .. m : \A v : v \in G[n] <=>
        IF n < k0 THEN v = none ELSE v \in Slice /\ CopiedUpTo(begin, v, End(n))
  OBVIOUS
<1> HIDE DEF G
<1>10. none \in G[0]
  BY <1>2, <1>3, <1>9
<1>11. ASSUME NEW n \in 1 .. m, NEW v \in G[n - 1]
       PROVE  (IF n \in rest THEN CopyFrom(v, n) ELSE v) \in G[n]
  <2>0. n - 1 \in 0 .. m /\ n \in 0 .. m
    BY <1>2
  <2>1. CASE n < k0
    <3>1. n - 1 < k0 /\ n \notin rest
      BY <1>3, <1>7, <2>1
    <3> QED
      BY <1>9, <2>0, <2>1, <3>1
  <2>2. CASE n = k0
    <3>1. v = none /\ n \in rest /\ n \in send_data_buffer
      <4>1. n >= k0 /\ n - 1 < k0
        BY <1>2, <2>2
      <4>2. n \in rest /\ n \in send_data_buffer
        BY <1>7, <4>1, Zenon
      <4> QED
        BY <1>9, <2>0, <4>1, <4>2
    <3>2. none.next = begin
      BY DEF none, NothingYet
    <3>3. CopiedUpTo(begin, CopyFrom(v, n), End(n))
      <4>1. writes[n].from <= none.next /\ none.next <= writes[n].from + writes[n].size
        BY <1>6, <2>2, <3>2 DEF End
      <4> QED
        BY <1>8, <3>1, <4>1, CopyGenuine DEF End
    <3>4. ~(n < k0) /\ CopyFrom(v, n) \in Slice
      BY <1>2, <2>2, <3>3 DEF CopiedUpTo
    <3> QED
      BY <1>9, <2>0, <3>1, <3>3, <3>4, Zenon
  <2>3. CASE n > k0
    <3>1. ~(n - 1 < k0) /\ ~(n < k0) /\ n \in rest /\ n \in send_data_buffer /\ n - 1 \in 1 .. m
      BY <1>2, <1>3, <1>7, <2>3
    <3>2. v \in Slice /\ CopiedUpTo(begin, v, End(n - 1))
      BY <1>9, <2>0, <3>1
    <3>3. writes[n].from = End(n - 1)
      BY <3>1 DEF ContiguousWrites, End
    <3>4. /\ writes[n].from \in Nat /\ writes[n].size \in Nat /\ End(n - 1) <= End(n)
          /\ v.next \in Nat
      <4>1. /\ writes[n].from \in Nat /\ writes[n].size \in Nat \ {0}
        BY <1>4, Zenon
      <4>2. v.next \in Nat
        BY <3>2, Sizes DEF Slice
      <4>3. End(n - 1) <= End(n)
        BY <3>3, <4>1 DEF End
      <4> QED
        BY <4>1, <4>2, <4>3
    <3>5. CASE v.remaining = 0
      <4>1. CopyFrom(v, n) = v
        BY <3>5 DEF CopyFrom
      <4>2. v.next <= End(n)
        <5>1. v.next <= End(n - 1)
          BY <3>2, Zenon DEF CopiedUpTo
        <5>2. End(n - 1) \in Nat /\ End(n) \in Nat
          <6>1. End(n) \in Nat
            BY <3>4 DEF End
          <6> QED
            BY <3>3, <3>4, <6>1, Zenon
        <5> QED
          BY <3>4, <5>1, <5>2
      <4>3. CopiedUpTo(begin, v, End(n))
        BY <3>2, <3>5, <4>2 DEF CopiedUpTo
      <4> QED
        BY <1>9, <2>0, <3>1, <3>2, <4>1, <4>3, Zenon
    <3>6. CASE v.remaining # 0
      <4>1. /\ v.data = Bytes(begin, Len(v.data)) /\ v.next = begin + Len(v.data)
            /\ v.next = writes[n].from
        BY <3>2, <3>3, <3>6 DEF CopiedUpTo
      <4>2. writes[n].from <= v.next /\ v.next <= End(n)
        BY <3>4, <4>1 DEF End
      <4>3. CopiedUpTo(begin, CopyFrom(v, n), End(n))
        BY <3>1, <3>2, <4>1, <4>2, CopyGenuine DEF End
      <4>4. CopyFrom(v, n) \in Slice
        BY <4>3, Zenon DEF CopiedUpTo
      <4> QED
        BY <1>9, <2>0, <3>1, <4>3, <4>4, Zenon
    <3> QED
      BY <3>5, <3>6
  <2> QED
    BY <1>2, <1>3, <2>1, <2>2, <2>3
<1>12. GetSlice(begin, max_size) \in G[m]
  BY <1>1, <1>2, <1>10, <1>11, SliceInduction DEF none, k0, rest
<1>13. CopiedUpTo(begin, GetSlice(begin, max_size), End(m)) /\ m \in 1 .. m
  <2>1. m \in 0 .. m /\ ~(m < k0) /\ m \in 1 .. m
    BY <1>2, <1>3
  <2> QED
    BY <1>9, <1>12, <2>1
<1>14. Len(data) \in Nat /\ data = Bytes(begin, Len(data)) /\ begin + Len(data) <= End(m)
  BY <1>13 DEF CopiedUpTo, Slice
<1>15. End(m) <= Written /\ End(m) \in Nat /\ Written \in Nat
  <2>1. /\ writes[m].from \in Nat /\ writes[m].size \in Nat \ {0}
        /\ End(m) <= Written /\ Written \in Marks
    BY <1>4, <1>13, Zenon
  <2>2. Written \in Nat /\ End(m) \in Nat
    BY <1>5, <2>1 DEF Marks, End
  <2> QED
    BY <2>1, <2>2, Zenon
<1> QED
  BY <1>5, <1>14, <1>15
-----------------------------------------------------------------------------
(* The steps in the first window *)

\* A state of the first window.
InWindow == NoWrap /\ StreamTypes /\ FirstWindow /\ FirstWindowInv

\* The length of the stream so far.
LEMMA WindowLength ==
    ASSUME InWindow
    PROVE  /\ Written \in Nat /\ Written <= WindowSize + 1
           /\ Written + WindowSize < RingMax /\ Written \in Marks
<1>1. next_to_add \in Nat /\ Written = next_to_add
  BY Sizes DEF InWindow, StreamTypes, SendingTypes, FirstWindowInv, ContiguousWrites
<1>2. Written <= WindowSize + 1
  BY DEF InWindow, FirstWindow
<1>3. WindowSize \in Nat /\ 2 * WindowSize + 1 < RingMax /\ RingMax \in Nat
  BY Sizes DEF InWindow, NoWrap
<1> QED
  BY <1>1, <1>2, <1>3 DEF Marks

\* As long as nothing is written, the stream keeps its length.
LEMMA WrittenSame ==
    ASSUME BufferExact, WritesKept, Len(writes') = Len(writes), BufferExact'
    PROVE  Written' = Written
<1>1. Len(writes) \in Nat /\ writes \in Seq(SentWrite) /\ writes' \in Seq(SentWrite)
  BY DEF BufferExact
<1>2. \A k \in 1 .. Len(writes) :
        writes'[k].from = writes[k].from /\ writes'[k].size = writes[k].size
  BY DEF WritesKept
<1>3. CASE writes = <<>>
  <2>1. writes' = <<>>
    BY <1>1, <1>3
  <2> QED
    BY <1>3, <2>1 DEF Written
<1>4. CASE writes # <<>>
  <2>1. Len(writes) \in 1 .. Len(writes) /\ writes' # <<>>
    BY <1>1, <1>4
  <2> QED
    BY <1>2, <1>4, <2>1 DEF Written
<1> QED
  BY <1>3, <1>4

\* As long as nothing is written, the writes stay contiguous.
LEMMA WrittenStays ==
    ASSUME BufferExact, ContiguousWrites, WritesKept, Len(writes') = Len(writes), BufferExact',
           UNCHANGED next_to_add
    PROVE  ContiguousWrites'
<1>1. \A k \in 1 .. Len(writes) :
        /\ writes'[k].offset = writes[k].offset
        /\ writes'[k].from = writes[k].from
        /\ writes'[k].size = writes[k].size
  BY DEF WritesKept
<1>2. Written' = Written
  BY WrittenSame
<1>3. \A k \in 1 .. Len(writes') :
        /\ writes'[k].offset = writes'[k].from
        /\ writes'[k].from + writes'[k].size <= Written'
  BY <1>1, <1>2 DEF ContiguousWrites
<1>4. \A k \in 1 .. Len(writes') : k + 1 \in 1 .. Len(writes') =>
        writes'[k + 1].from = writes'[k].from + writes'[k].size
  BY <1>1 DEF ContiguousWrites
<1>5. \A j, k \in 1 .. Len(writes') : j < k =>
        writes'[j].from + writes'[j].size <= writes'[k].from
  BY <1>1 DEF ContiguousWrites
<1>6. next_to_add' = Written'
  BY <1>2 DEF ContiguousWrites
<1> QED
  BY <1>3, <1>4, <1>5, <1>6 DEF ContiguousWrites

\* A write in the first window.
LEMMA WriteInWindow ==
    ASSUME NoWrap, StreamTypes, StreamTypes', FirstWindow => FirstWindowInv, Write, FirstWindow'
    PROVE  FirstWindowInv'
<1>1. PICK size \in WriteSizes : SendData(size)
  BY DEF Write
<1> DEFINE write == [offset |-> next_to_add, from |-> Written, size |-> size,
                     state |-> "kWaiting", reported |-> FALSE]
           m == Len(writes)
<1>2. writes' = Append(writes, write) /\ Written \in Nat /\ Written' = Written + size
  BY <1>1, SendDataStep DEF StreamTypes
<1>3. size \in Nat \ {0} /\ WindowSize \in Nat
  BY SendingSizes, Sizes
<1>4. FirstWindow /\ Written' <= WindowSize + 1
  BY <1>2, <1>3 DEF FirstWindow
<1>5. InWindow
  BY <1>4 DEF InWindow
<1>6. /\ m \in Nat /\ Len(writes') = m + 1 /\ writes'[m + 1] = write
      /\ \A k \in 1 .. m : writes'[k] = writes[k] /\ writes[k] \in SentWrite
  BY <1>2 DEF StreamTypes, BufferExact
<1>7. \A k \in 1 .. m : writes[k].from \in Nat /\ writes[k].size \in Nat
  BY <1>6, WriteFields
<1>8. write.from = Written /\ write.size = size /\ write.offset = next_to_add /\ next_to_add = Written
  BY <1>5 DEF InWindow, FirstWindowInv, ContiguousWrites
<1> HIDE DEF write, m
<1>9. /\ \A k \in 1 .. m : /\ writes[k].offset = writes[k].from
                           /\ writes[k].from + writes[k].size <= Written
      /\ \A k \in 1 .. m : k + 1 \in 1 .. m => writes[k + 1].from = writes[k].from + writes[k].size
      /\ \A j, k \in 1 .. m : j < k => writes[j].from + writes[j].size <= writes[k].from
  BY <1>5 DEF InWindow, FirstWindowInv, ContiguousWrites, m
<1>10. m # 0 => Written = writes[m].from + writes[m].size
  <2>1. m # 0 => writes # <<>>
    BY DEF m
  <2> QED
    BY <2>1 DEF Written, m
<1>11. \A k \in 1 .. m + 1 : k \in 1 .. m \/ k = m + 1
  BY <1>6
<1>12. next_to_add' = Written'
  <2> DEFINE o == next_to_add
  <2>1. next_to_add' = Plus(Plus(o, size - 1), 1)
    BY <1>1 DEF SendData, EndOffset
  <2>2. /\ o \in RingValues /\ size - 1 \in Nat /\ size - 1 < RingMax
        /\ o + (size - 1) <= RingMax /\ o + (size - 1) \in RingValues
        /\ 1 < RingMax /\ (o + (size - 1)) + 1 <= RingMax
    BY <1>2, <1>3, <1>4, <1>8, MarksFit, Sizes
  <2> HIDE DEF o
  <2>3. Plus(o, size - 1) = o + (size - 1)
    BY <2>2, PlusNoWrap
  <2>4. Plus(o + (size - 1), 1) = (o + (size - 1)) + 1
    BY <2>2, PlusNoWrap
  <2> QED
    BY <1>2, <1>3, <1>8, <2>1, <2>3, <2>4 DEF o
<1>13. ContiguousWrites'
  <2>1. ASSUME NEW k \in 1 .. m + 1
        PROVE  /\ writes'[k].offset = writes'[k].from
               /\ writes'[k].from + writes'[k].size <= Written'
    <3>1. CASE k \in 1 .. m
      BY <1>2, <1>3, <1>6, <1>7, <1>9, <3>1
    <3>2. CASE k = m + 1
      BY <1>2, <1>3, <1>6, <1>8, <3>2
    <3> QED
      BY <1>11, <3>1, <3>2
  <2>2. ASSUME NEW k \in 1 .. m + 1, k + 1 \in 1 .. m + 1
        PROVE  writes'[k + 1].from = writes'[k].from + writes'[k].size
    <3>1. k \in 1 .. m
      BY <1>6, <2>2
    <3>2. CASE k + 1 \in 1 .. m
      BY <1>6, <1>9, <3>1, <3>2
    <3>3. CASE k = m
      BY <1>6, <1>8, <1>10, <3>1, <3>3
    <3> QED
      BY <1>6, <3>1, <3>2, <3>3
  <2>3. ASSUME NEW j \in 1 .. m + 1, NEW k \in 1 .. m + 1, j < k
        PROVE  writes'[j].from + writes'[j].size <= writes'[k].from
    <3>1. j \in 1 .. m
      BY <1>6, <2>3
    <3>2. CASE k \in 1 .. m
      BY <1>6, <1>9, <2>3, <3>1, <3>2
    <3>3. CASE k = m + 1
      BY <1>6, <1>8, <1>9, <3>1, <3>3
    <3> QED
      BY <1>11, <3>2, <3>3
  <2> QED
    BY <1>6, <1>12, <2>1, <2>2, <2>3, Zenon DEF ContiguousWrites
<1>14. BufferClosed'
  <2>1. send_data_buffer' = send_data_buffer \cup {m + 1}
    BY <1>1 DEF SendData, m
  <2>2. ASSUME NEW j \in send_data_buffer', NEW k \in 1 .. m + 1, j <= k
        PROVE  k \in send_data_buffer'
    <3>1. CASE k = m + 1
      BY <2>1, <3>1
    <3>2. CASE k \in 1 .. m
      <4>1. j \in send_data_buffer
        BY <1>6, <2>1, <2>2, <3>2
      <4> QED
        BY <1>5, <2>1, <2>2, <3>2, <4>1 DEF InWindow, FirstWindowInv, BufferClosed, m
    <3> QED
      BY <1>11, <3>1, <3>2
  <2> QED
    BY <1>6, <2>2 DEF BufferClosed
<1>15. UNCHANGED <<sending_chunks, last_confirmed, last_sent_offset, data_out, receiverVars, calls>>
  BY <1>1 DEF SendData, Write
<1>16. SenderMarks' /\ calls' \in Seq(WindowCall)
  BY <1>5, <1>15 DEF InWindow, FirstWindowInv, SenderMarks
<1>17. data_out' \in Seq(GenuinePacket(Written'))
  <2>1. GenuinePacket(Written) \subseteq GenuinePacket(Written')
    <3> DEFINE len == Written
               more == Written'
    <3>1. len \in Nat /\ more \in Nat /\ len <= more
      BY <1>2, <1>3
    <3> HIDE DEF len, more
    <3>2. GenuinePacket(len) \subseteq GenuinePacket(more)
      BY <3>1, Sizes DEF GenuinePacket, GenuineChunk, Chunk
    <3> QED
      BY <3>2 DEF len, more
  <2>2. data_out \in Seq(GenuinePacket(Written))
    BY <1>5 DEF InWindow, FirstWindowInv
  <2> QED
    BY <1>15, <2>1, <2>2
<1>18. OrderInv(Written)'
  <2>1. PICK len \in Nat : len = Written
    BY <1>2
  <2>2. PICK more \in Nat : more = Written'
    BY <1>2, <1>3
  <2>3. OrderInv(len)
    BY <1>5, <2>1 DEF InWindow, FirstWindowInv, OrderInv
  <2>4. len <= more
    BY <1>2, <1>3, <2>1, <2>2
  <2>5. OrderInv(more)
    BY <2>3, <2>4, OrderGrows DEF StreamTypes
  <2> QED
    BY <1>15, <2>2, <2>5 DEF OrderInv, DeliveredInOrder, receiverVars
<1> QED
  BY <1>13, <1>14, <1>16, <1>17, <1>18 DEF FirstWindowInv

\* Confirm, Reject or Stop at an offset of the first window.
LEMMA LeaveInWindow ==
    ASSUME InWindow, NEW offset \in Marks,
           sending_chunks' = RemoveUpTo(sending_chunks, offset),
           ConfirmData(offset) \/ RejectData(writes, offset) \/ StopData(offset)
    PROVE  BufferClosed' /\ sending_chunks' \in Seq(SendingChunk(Marks))
<1>1. BufferExact /\ sending_chunks \in Seq(SendingChunk(Marks))
  BY DEF InWindow, StreamTypes, FirstWindowInv, SenderMarks
<1>2. /\ Len(writes') = Len(writes)
      /\ sending_chunks' \in Seq(SendingChunk(Marks))
      /\ send_data_buffer' \in
           {send_data_buffer \ {k \in send_data_buffer : UpTo(writes[k], offset)},
            send_data_buffer \ {k \in send_data_buffer : Before(EndOffset(writes[k]), offset)}}
  BY <1>1, LeaveStep
<1>3. BufferClosed'
  BY <1>1, <1>2, ClosedStays DEF InWindow, FirstWindowInv
<1> QED
  BY <1>2, <1>3

\* The sending end updates in the first window.
LEMMA UpdateSenderInWindow ==
    ASSUME InWindow, UpdateSender
    PROVE  BufferClosed' /\ SenderMarks' /\ data_out' \in Seq(GenuinePacket(Written))
<1>1. PICK timed_out \in BOOLEAN : SenderUpdate(timed_out)
  BY UpdatePicked
<1> DEFINE begin == HandleTimeouts(timed_out)
<1>2. SendNothing(begin) \/ SendSlice(begin)
  BY <1>1 DEF SenderUpdate
<1>3. /\ NoWrap /\ BufferExact /\ SendingTypes /\ ContiguousWrites /\ BufferClosed /\ FirstWindow
      /\ sending_chunks \in Seq(SendingChunk(Marks))
      /\ last_confirmed \in Marks /\ last_sent_offset \in Marks
      /\ data_out \in Seq(GenuinePacket(Written))
  BY DEF InWindow, StreamTypes, FirstWindowInv, SenderMarks
<1>4. begin \in Marks
  <2>1. CASE timed_out /\ sending_chunks # <<>>
    <3>1. Head(sending_chunks) \in SendingChunk(Marks)
      BY <1>3, <2>1
    <3> QED
      BY <2>1, <3>1 DEF HandleTimeouts, SendingChunk
  <2>2. CASE ~(timed_out /\ sending_chunks # <<>>)
    BY <1>3, <2>2 DEF HandleTimeouts
  <2> QED
    BY <2>1, <2>2
<1> HIDE DEF begin
<1>5. CASE SendNothing(begin)
  BY <1>3, <1>4, <1>5 DEF SendNothing, BufferClosed, SenderMarks
<1>6. CASE SendSlice(begin)
  <2> DEFINE slice == GetSlice(begin, max_data_size)
             data == slice.data
             end == Plus(begin, Len(data) - 1)
  <2>1. data # <<>>
    BY <1>6 DEF SendSlice
  <2>2. slice \in Slice /\ data \in Seq(Int) /\ max_data_size \in Nat
    <3>1. max_data_size \in Nat /\ begin \in RingValues
      BY <1>3, <1>4, Sizes, MarksFit DEF SendingTypes
    <3>2. slice \in Slice
      BY <1>3, <3>1, SliceType
    <3> QED
      BY <3>1, <3>2 DEF Slice
  <2>3. data = Bytes(begin, Len(data)) /\ begin + Len(data) <= Written
    <3>1. data = GetSlice(begin, max_data_size).data
      OBVIOUS
    <3> HIDE DEF data
    <3> QED
      BY <1>3, <1>4, <2>1, <2>2, <3>1, SliceGenuine, Zenon
  <2>4. /\ Written \in Nat /\ Written <= WindowSize + 1 /\ WindowSize \in Nat
        /\ begin \in Nat /\ begin \in RingValues /\ Len(data) \in Nat \ {0}
        /\ WindowSize + 1 < RingMax /\ RingMax \in Nat
    BY <1>3, <1>4, <2>1, <2>2, WindowLength, MarksFit, Sizes
  <2> HIDE DEF data
  <2> DEFINE n == Len(data)
  <2> HIDE DEF n
  <2>5. n \in Nat \ {0} /\ begin + n <= WindowSize + 1
    BY <2>3, <2>4 DEF n
  <2>6. end = begin + (n - 1)
    <3>1. n - 1 \in Nat /\ n - 1 < RingMax /\ begin + (n - 1) <= RingMax
      BY <2>4, <2>5
    <3> QED
      BY <2>4, <3>1, PlusNoWrap DEF n
  <2>7. end \in Marks /\ end \in 0 .. WindowSize
    BY <2>4, <2>5, <2>6 DEF Marks
  <2> HIDE DEF end
  <2>8. Plus(end, 1) \in Marks
    <3>1. end \in RingValues /\ end + 1 <= RingMax /\ 1 < RingMax
      BY <1>3, <2>4, <2>7, MarksFit
    <3>2. Plus(end, 1) = end + 1
      BY <3>1, PlusNoWrap
    <3> QED
      BY <2>4, <2>7, <3>2 DEF Marks
  <2>9. Clockwise(begin, n) \in Marks
    <3>1. n \in Nat /\ n < RingMax /\ begin + n <= RingMax
      BY <2>4, <2>5
    <3>2. Clockwise(begin, n) = begin + n
      BY <2>4, <3>1, ClockwiseNoWrap
    <3> QED
      BY <2>4, <2>5, <3>2 DEF Marks
  <2>10. Marks \in SUBSET RingValues
    BY <1>3, MarksFit
  <2> HIDE DEF slice
  <2>11. /\ Len(writes') = Len(writes)
         /\ sending_chunks' \in Seq(SendingChunk(Marks))
         /\ last_sent_offset' = Clockwise(begin, Len(slice.data))
         /\ UNCHANGED <<last_confirmed, next_to_add, max_data_size>>
         /\ SliceSent(begin, slice.data) \/ SliceGivenUp(end)
    <3>1. slice = GetSlice(begin, max_data_size) /\ end = Plus(begin, Len(slice.data) - 1)
      BY DEF slice, end, data
    <3> QED
      BY <1>3, <1>4, <1>6, <2>7, <2>8, <2>10, <3>1, SendSliceStep
  <2>12. SenderMarks'
    BY <1>3, <2>9, <2>11 DEF SenderMarks, data, n
  <2>13. CASE SliceSent(begin, slice.data)
    <3>1. BufferClosed'
      BY <1>3, <2>11, <2>13 DEF BufferClosed, SliceSent
    <3>2. PICK type \in {"Send", "Repeat"} :
            data_out' = Append(data_out, [type |-> type, offset |-> begin, data |-> data])
      BY <2>13, Zenon DEF SliceSent, data
    <3> DEFINE packet == [type |-> type, offset |-> begin, data |-> data]
    <3>3. [offset |-> begin, data |-> data] \in GenuineChunk(Written)
      BY <2>1, <2>2, <2>3, <2>4, IsGenuine
    <3>4. packet \in GenuinePacket(Written)
      <4>1. packet.offset = begin /\ packet.data = data /\ packet \in Packet
        BY <2>2, <2>4 DEF Packet
      <4> HIDE DEF packet
      <4> QED
        BY <3>3, <4>1 DEF GenuinePacket
    <3> HIDE DEF packet
    <3>5. data_out' \in Seq(GenuinePacket(Written))
      BY <1>3, <3>2, <3>4 DEF packet
    <3> QED
      BY <2>12, <3>1, <3>5
  <2>14. CASE SliceGivenUp(end)
    <3>1. PICK freed \in {end} \cup FreedChunkReads :
            send_data_buffer' = send_data_buffer
               \ {k \in send_data_buffer : UpTo(writes[k], freed)}
      BY <2>14, Zenon DEF SliceGivenUp
    <3>2. freed \in Marks
      BY <1>3, <2>4, <2>7, <3>1 DEF NoWrap, Marks
    <3>3. BufferClosed'
      BY <1>3, <2>11, <3>1, <3>2, ClosedStays
    <3> QED
      BY <1>3, <2>12, <2>14, <3>3 DEF SliceGivenUp
  <2> QED
    BY <2>11, <2>13, <2>14
<1> QED
  BY <1>2, <1>5, <1>6


\* What a step of the first window without a write has to keep.
Keeps(len) ==
    /\ next_to_add' = next_to_add
    /\ BufferClosed' /\ SenderMarks'
    /\ data_out' \in Seq(GenuinePacket(len))
    /\ calls' \in Seq(WindowCall)
    /\ OrderInv(len)'

\* A response arrives in the first window.
LEMMA ArriveResponseInWindow ==
    ASSUME NEW len \in Nat, InWindow, len = Written, ArriveResponse
    PROVE  calls' \in Seq(WindowCall) /\ response_out' \in Seq(GenuineResponse(len))
<1>1. PICK i \in DOMAIN response_out :
        /\ response_out' \in AfterDelivery(response_out, i)
        /\ calls' = Parsed(response_out[i])
  BY ResponsePicked
<1>2. response_out \in Seq(GenuineResponse(len))
  BY DEF InWindow, FirstWindowInv, OrderInv
<1>3. response_out' \in Seq(GenuineResponse(len))
  BY <1>1, <1>2, ChannelType
<1>4. response_out[i] \in [confirms : Seq(0 .. len - 1), repeats : Seq((0 .. len) \cup {NoGap})]
  <2>1. response_out[i] \in GenuineResponse(len)
    BY <1>2
  <2> QED
    BY <2>1, Zenon DEF GenuineResponse
<1> DEFINE C == 0 .. len - 1
           R == 0 .. len
<1>5. C \in SUBSET Nat /\ R \in SUBSET Nat
  OBVIOUS
<1>6. \A o \in C : Ring(o) \in 0 .. WindowSize
  <2>1. \A o \in C : o \in Marks /\ o \in 0 .. WindowSize
    BY WindowLength, Sizes DEF Marks
  <2> QED
    BY <2>1, MarksFit DEF InWindow
<1>7. \A o \in R : Ring(o) \in Marks
  <2>1. \A o \in R : o \in Marks
    BY WindowLength, Sizes DEF Marks
  <2> QED
    BY <2>1, MarksFit DEF InWindow
<1>8. response_out[i] \in [confirms : Seq(C), repeats : Seq(R \cup {NoGap})]
  BY <1>4
<1> HIDE DEF C, R
<1>9. calls' \in Seq([type : {"Confirm"}, offset : {Ring(o) : o \in C}]
                     \cup [type : {"RequestRepeat"}, offset : {Ring(o) : o \in R}])
  <2>1. Parsed(response_out[i]) \in Seq([type : {"Confirm"}, offset : {Ring(o) : o \in C}]
                                        \cup [type : {"RequestRepeat"}, offset : {Ring(o) : o \in R}])
    BY <1>5, <1>8, CallsType, Zenon
  <2> QED
    BY <1>1, <2>1, Zenon
<1>10. [type : {"Confirm"}, offset : {Ring(o) : o \in C}]
       \cup [type : {"RequestRepeat"}, offset : {Ring(o) : o \in R}] \subseteq WindowCall
  BY <1>6, <1>7 DEF WindowCall
<1> QED
  BY <1>3, <1>9, <1>10

\* What a call of the first window names.
LEMMA CallInWindow ==
    ASSUME InWindow, calls # <<>>
    PROVE  /\ Tail(calls) \in Seq(WindowCall) /\ Head(calls).offset \in Marks
           /\ Head(calls).type = "Confirm" => Head(calls).offset \in 0 .. WindowSize
<1>1. Head(calls) \in WindowCall /\ Tail(calls) \in Seq(WindowCall)
  BY DEF InWindow, FirstWindowInv
<1>2. Head(calls).offset \in Marks
      /\ (Head(calls).type = "Confirm" => Head(calls).offset \in 0 .. WindowSize)
  BY <1>1, Sizes DEF WindowCall, Marks
<1> QED
  BY <1>1, <1>2

\* A confirm that is not ignored moves last_confirmed_ to the offset after it,
\* which is ahead.
LEMMA ConfirmInWindow ==
    ASSUME InWindow, NEW offset \in 0 .. WindowSize,
           Distance(last_confirmed, offset) <= WindowSize
    PROVE  /\ offset \in Marks /\ last_confirmed \in Marks
           /\ Plus(offset, 1) = offset + 1 /\ Plus(offset, 1) \in Marks
           /\ last_confirmed <= offset
<1>1. /\ WindowSize \in Nat /\ RingMax \in Nat /\ last_confirmed \in Marks
      /\ offset \in Nat /\ offset <= WindowSize
  BY Sizes DEF InWindow, FirstWindowInv, SenderMarks
<1>2. offset \in Marks /\ offset + 1 \in Marks
  BY <1>1 DEF Marks
<1>3. last_confirmed <= offset
  BY <1>1, <1>2, MarksFit DEF InWindow
<1>4. offset \in RingValues /\ 1 < RingMax /\ offset + 1 <= RingMax
  BY <1>1, <1>2, MarksFit DEF InWindow
<1>5. Plus(offset, 1) = offset + 1
  BY <1>4, PlusNoWrap
<1> QED
  BY <1>1, <1>2, <1>3, <1>5

\* Data arrives in the first window.
LEMMA ArriveDataInWindow ==
    ASSUME NEW len \in Nat, InWindow, len = Written, OrderInv(len), ArriveData
    PROVE  data_out' \in Seq(GenuinePacket(len)) /\ OrderInv(len)'
<1>1. PICK i \in DOMAIN data_out :
        /\ data_out' \in AfterDelivery(data_out, i)
        /\ \/ ReceiveSend(Ring(data_out[i].offset), data_out[i].data)
           \/ ReceiveRepeat(Ring(data_out[i].offset), data_out[i].data)
  BY DEF ArriveData, Deliverable
<1>2. data_out \in Seq(GenuinePacket(len))
  BY DEF InWindow, FirstWindowInv
<1>3. data_out' \in Seq(GenuinePacket(len))
  BY <1>1, <1>2, ChannelType
<1> DEFINE offset == data_out[i].offset
           data == data_out[i].data
<1>4. data_out[i] \in GenuinePacket(len)
  BY <1>1, <1>2
<1>5. [offset |-> offset, data |-> data] \in GenuineChunk(len)
  BY <1>4 DEF GenuinePacket
<1>6. len + WindowSize < RingMax /\ len <= WindowSize + 1 /\ RvTypeOK
  BY WindowLength DEF InWindow, StreamTypes
<1>7. offset \in 0 .. len - 1
  <2> DEFINE c == [offset |-> offset, data |-> data]
  <2>1. c.offset = offset /\ c \in GenuineChunk(len)
    BY <1>5
  <2> HIDE DEF c
  <2>2. c.offset \in 0 .. len - 1
    BY <1>6, <2>1, ChunkEnd
  <2> QED
    BY <2>1, <2>2
<1> HIDE DEF offset, data
<1>8. Ring(offset) = offset
  <2>1. offset \in Marks
    BY <1>6, <1>7, Sizes DEF Marks
  <2> QED
    BY <2>1, MarksFit DEF InWindow
<1>9. ReceiveSend(offset, data) \/ ReceiveRepeat(offset, data)
  BY <1>1, <1>8 DEF offset, data
<1>10. OrderInv(len)'
  BY <1>5, <1>6, <1>9, ReceiveOrder
<1> QED
  BY <1>3, <1>10


\* Every step without a write keeps what holds in the first window.
LEMMA OthersKeep ==
    ASSUME NEW len \in Nat, InWindow, len = Written, [Next]_vars, ~Write,
           Len(writes') = Len(writes)
    PROVE  Keeps(len)
<1>1. /\ BufferExact /\ RvTypeOK /\ BufferClosed /\ SenderMarks
      /\ sending_chunks \in Seq(SendingChunk(Marks))
      /\ last_confirmed \in Marks /\ last_sent_offset \in Marks
      /\ data_out \in Seq(GenuinePacket(len))
      /\ calls \in Seq(WindowCall)
  BY DEF InWindow, StreamTypes, FirstWindowInv, SenderMarks
<1>2. OrderInv(len)
  BY DEF InWindow, FirstWindowInv, OrderInv
<1>3. UNCHANGED send_data_buffer => BufferClosed'
  BY <1>1 DEF BufferClosed
<1>4. UNCHANGED <<sending_chunks, last_confirmed, last_sent_offset>> => SenderMarks'
  BY <1>1 DEF SenderMarks
<1>5. UNCHANGED receiverVars => OrderInv(len)'
  BY <1>2 DEF OrderInv, DeliveredInOrder, receiverVars
<1>6. (/\ UNCHANGED <<last_confirmed_offset, received_data_chunks, confirmation_queue, delivered>>
       /\ response_out' \in Seq(GenuineResponse(len))) => OrderInv(len)'
  <2> SUFFICES ASSUME UNCHANGED <<last_confirmed_offset, received_data_chunks,
                                  confirmation_queue, delivered>>,
                      response_out' \in Seq(GenuineResponse(len))
               PROVE  OrderInv(len)'
    OBVIOUS
  <2>1. DeliveredInOrder'
    BY <1>2 DEF OrderInv, DeliveredInOrder
  <2> QED
    BY <1>2, <2>1 DEF OrderInv
<1>7. CASE Stop
  <2>1. PICK k \in DOMAIN writes : StopSending(k)
    BY <1>7 DEF Stop
  <2>2. writes[k].offset \in Marks
    <3>1. k \in 1 .. Len(writes)
      BY <1>1, <2>1 DEF BufferExact
    <3>2. writes[k].offset \in 0 .. WindowSize
      BY <3>1, WriteSpan DEF SpanInWindow, InWindow, StreamTypes, FirstWindowInv
    <3> QED
      BY <3>2, Sizes DEF Marks
  <2>3. BufferClosed' /\ sending_chunks' \in Seq(SendingChunk(Marks))
    BY <2>1, <2>2, LeaveInWindow DEF StopSending
  <2>4. UNCHANGED <<last_confirmed, next_to_add, last_sent_offset, data_out, calls, receiverVars>>
    BY <1>7, <2>1 DEF StopSending, Stop
  <2> QED
    BY <1>1, <1>5, <2>3, <2>4 DEF Keeps, SenderMarks
<1>8. CASE Report
  <2>1. PICK k \in DOMAIN writes : ReportFinished(k)
    BY <1>8 DEF Report
  <2>2. UNCHANGED <<send_data_buffer, sending_chunks, last_confirmed, next_to_add,
                    last_sent_offset, data_out, calls, receiverVars>>
    BY <1>8, <2>1 DEF ReportFinished, Report
  <2> QED
    BY <1>1, <1>3, <1>4, <1>5, <2>2 DEF Keeps
<1>9. CASE Link
  <2>1. PICK size \in MaxDataSizes : SetMaxDataSize(size)
    BY <1>9 DEF Link
  <2>2. UNCHANGED <<send_data_buffer, sending_chunks, last_confirmed, next_to_add,
                    last_sent_offset, data_out, calls, receiverVars>>
    BY <1>9, <2>1 DEF SetMaxDataSize, Link
  <2> QED
    BY <1>1, <1>3, <1>4, <1>5, <2>2 DEF Keeps
<1>10. CASE UpdateSender
  <2>1. BufferClosed' /\ SenderMarks' /\ data_out' \in Seq(GenuinePacket(len))
    BY <1>10, UpdateSenderInWindow
  <2>2. UNCHANGED <<next_to_add, calls, receiverVars>>
    BY <1>10 DEF UpdateSender, SenderUpdate, SendNothing, SendSlice
  <2> QED
    BY <1>1, <1>5, <2>1, <2>2 DEF Keeps
<1>11. CASE ArriveResponse
  <2>1. calls' \in Seq(WindowCall) /\ response_out' \in Seq(GenuineResponse(len))
    BY <1>11, ArriveResponseInWindow
  <2>2. UNCHANGED <<send_data_buffer, sending_chunks, last_confirmed, next_to_add,
                    last_sent_offset, data_out, last_confirmed_offset, received_data_chunks,
                    confirmation_queue, delivered>>
    BY <1>11 DEF ArriveResponse, senderVars
  <2> QED
    BY <1>1, <1>3, <1>4, <1>6, <2>1, <2>2 DEF Keeps
<1>12. CASE OnConfirm
  <2> DEFINE offset == Head(calls).offset
  <2>1. /\ offset \in 0 .. WindowSize /\ calls' \in Seq(WindowCall) /\ Confirm(offset)
        /\ UNCHANGED receiverVars
    BY <1>12, CallInWindow DEF OnConfirm
  <2> HIDE DEF offset
  <2>2. UNCHANGED <<next_to_add, last_sent_offset, data_out>>
    BY <2>1 DEF Confirm
  <2>3. CASE Distance(last_confirmed, offset) <= WindowSize
    <3>1. offset \in Marks /\ Plus(offset, 1) \in Marks
      BY <2>1, <2>3, ConfirmInWindow
    <3>2. /\ sending_chunks' = RemoveUpTo(sending_chunks, offset) /\ ConfirmData(offset)
          /\ last_confirmed' = Plus(offset, 1)
      BY <2>1, <2>3 DEF Confirm
    <3>3. BufferClosed' /\ sending_chunks' \in Seq(SendingChunk(Marks))
      BY <3>1, <3>2, LeaveInWindow
    <3> QED
      BY <1>1, <1>5, <2>1, <2>2, <3>1, <3>2, <3>3 DEF Keeps, SenderMarks
  <2>4. CASE ~(Distance(last_confirmed, offset) <= WindowSize)
    <3>1. UNCHANGED <<send_data_buffer, sending_chunks, last_confirmed>>
      BY <2>1, <2>4 DEF Confirm
    <3> QED
      BY <1>1, <1>3, <1>4, <1>5, <2>1, <2>2, <3>1 DEF Keeps
  <2> QED
    BY <2>3, <2>4
<1>13. CASE OnRequestRepeat
  <2>1. /\ last_sent_offset' \in Marks /\ calls' \in Seq(WindowCall)
        /\ UNCHANGED <<send_data_buffer, sending_chunks, last_confirmed, next_to_add, data_out,
                       receiverVars>>
    BY <1>13, CallInWindow DEF OnRequestRepeat, RequestRepeatSend
  <2> QED
    BY <1>1, <1>3, <1>5, <2>1 DEF Keeps, SenderMarks
<1>14. CASE ArriveData
  <2>1. data_out' \in Seq(GenuinePacket(len)) /\ OrderInv(len)'
    BY <1>2, <1>14, ArriveDataInWindow
  <2>2. UNCHANGED <<send_data_buffer, sending_chunks, last_confirmed, next_to_add,
                    last_sent_offset, calls>>
    BY <1>14 DEF ArriveData
  <2> QED
    BY <1>1, <1>3, <1>4, <2>1, <2>2 DEF Keeps
<1>15. CASE UpdateReceiver
  <2>1. len + WindowSize < RingMax
    BY WindowLength
  <2>2. OrderInv(len)'
    BY <1>1, <1>2, <1>15, <2>1, UpdateOrder DEF UpdateReceiver
  <2>3. UNCHANGED <<send_data_buffer, sending_chunks, last_confirmed, next_to_add,
                    last_sent_offset, data_out, calls>>
    BY <1>15 DEF UpdateReceiver, senderVars
  <2> QED
    BY <1>1, <1>3, <1>4, <2>2, <2>3 DEF Keeps
<1>16. CASE Lose
  <2>1. response_out \in Seq(GenuineResponse(len))
    BY <1>2 DEF OrderInv
  <2>2. data_out' \in Seq(GenuinePacket(len)) /\ response_out' \in Seq(GenuineResponse(len))
    BY <1>1, <1>16, <2>1, ChannelType DEF Lose
  <2>3. UNCHANGED <<send_data_buffer, sending_chunks, last_confirmed, next_to_add,
                    last_sent_offset, calls, last_confirmed_offset, received_data_chunks,
                    confirmation_queue, delivered>>
    BY <1>16 DEF Lose
  <2> QED
    BY <1>1, <1>3, <1>4, <1>6, <2>2, <2>3 DEF Keeps
<1>17. CASE FailWrite
  <2>1. PICK i \in DOMAIN data_out :
          ReportWriteError(data_out[i].offset) /\ data_out' = RemovedAt(data_out, i)
    BY <1>17 DEF FailWrite
  <2>2. data_out' \in Seq(GenuinePacket(len)) /\ data_out[i] \in GenuinePacket(len)
    BY <1>1, <2>1, ChannelType
  <2>3. data_out[i].offset \in Marks
    <3> DEFINE c == [offset |-> data_out[i].offset, data |-> data_out[i].data]
    <3>1. c.offset = data_out[i].offset /\ c \in GenuineChunk(len)
      BY <2>2 DEF GenuinePacket
    <3> HIDE DEF c
    <3>2. c.offset \in 0 .. len - 1
      BY <3>1, WindowLength, ChunkEnd
    <3> QED
      BY <3>1, <3>2, WindowLength, Sizes DEF Marks
  <2>4. BufferClosed' /\ sending_chunks' \in Seq(SendingChunk(Marks))
    BY <2>1, <2>3, LeaveInWindow DEF ReportWriteError
  <2>5. UNCHANGED <<last_confirmed, next_to_add, last_sent_offset, calls, receiverVars>>
    BY <1>17, <2>1 DEF ReportWriteError, FailWrite
  <2> QED
    BY <1>1, <1>5, <2>2, <2>4, <2>5 DEF Keeps, SenderMarks
<1>18. CASE UNCHANGED vars
  <2>1. UNCHANGED <<send_data_buffer, sending_chunks, last_confirmed, next_to_add,
                    last_sent_offset, data_out, calls, receiverVars>>
    BY <1>18 DEF vars, senderVars
  <2> QED
    BY <1>1, <1>3, <1>4, <1>5, <2>1 DEF Keeps
<1> QED
  BY <1>7, <1>8, <1>9, <1>10, <1>11, <1>12, <1>13, <1>14, <1>15, <1>16, <1>17, <1>18 DEF Next


\* The inductive step.
LEMMA WindowStep ==
    ASSUME NoWrap, StreamTypes, FirstWindow => FirstWindowInv, [Next]_vars
    PROVE  (FirstWindow => FirstWindowInv)'
<1>1. StreamTypes' /\ WritesKept /\ (Write \/ Len(writes') = Len(writes))
  BY TypesStep
<1> SUFFICES ASSUME FirstWindow' PROVE FirstWindowInv'
  OBVIOUS
<1>2. CASE Write
  BY <1>1, <1>2, WriteInWindow
<1>3. CASE ~Write
  <2>1. Len(writes') = Len(writes) /\ BufferExact /\ BufferExact'
    BY <1>1, <1>3 DEF StreamTypes
  <2>2. Written' = Written
    BY <1>1, <2>1, WrittenSame
  <2>3. InWindow
    BY <2>2 DEF InWindow, FirstWindow
  <2>4. PICK len \in Nat : len = Written
    BY <2>3, WindowLength
  <2>5. Keeps(len)
    BY <1>3, <2>1, <2>3, <2>4, OthersKeep
  <2>6. ContiguousWrites'
    BY <1>1, <2>1, <2>3, <2>5, WrittenStays DEF Keeps, InWindow, FirstWindowInv
  <2>7. Written' = len
    BY <2>2, <2>4
  <2> QED
    BY <2>5, <2>6, <2>7 DEF Keeps, FirstWindowInv, OrderInv
<1> QED
  BY <1>2, <1>3

\* The stream starts in the first window.
LEMMA WindowStart == NoWrap /\ Init => FirstWindowInv
<1> SUFFICES ASSUME NoWrap, Init PROVE FirstWindowInv
  OBVIOUS
<1>1. SenderInit /\ ReceiverInit /\ calls = <<>>
  BY DEF Init
<1>2. writes = <<>> /\ Written = 0 /\ Len(writes) = 0
  BY <1>1 DEF SenderInit, Written
<1>3. Ring(0) = 0 /\ 0 \in Marks
  <2>1. 0 \in Marks
    BY Sizes DEF Marks
  <2> QED
    BY <2>1, MarksFit
<1>4. ContiguousWrites
  BY <1>1, <1>2, <1>3 DEF SenderInit, ContiguousWrites
<1>5. BufferClosed
  BY <1>1 DEF SenderInit, BufferClosed
<1>6. SenderMarks /\ data_out \in Seq(GenuinePacket(Written)) /\ calls \in Seq(WindowCall)
  BY <1>1, <1>3 DEF SenderInit, SenderMarks
<1>7. OrderInv(0)
  BY <1>1, ReceiverStart
<1> QED
  BY <1>2, <1>4, <1>5, <1>6, <1>7 DEF FirstWindowInv

\* The invariant of the first window holds in every state.
LEMMA WindowAlways == NoWrap => (Spec => [](FirstWindow => FirstWindowInv))
<1> SUFFICES ASSUME NoWrap PROVE Spec => [](FirstWindow => FirstWindowInv)
  OBVIOUS
<1>1. Init => (FirstWindow => FirstWindowInv)
  BY WindowStart
<1>2. StreamTypes /\ (FirstWindow => FirstWindowInv) /\ [Next]_vars
        => (FirstWindow => FirstWindowInv)'
  BY WindowStep
<1> QED
  BY <1>1, <1>2, TypesAlways, PTL DEF Spec

\* In the first window of the stream, whatever the network, the writer and the
\* timers do, packets carry the bytes written at their offset and what is
\* delivered is a prefix of what was written (SendDataBuffer::GetSlice,
\* SafeStreamReceivingAction::CheckCompletedChains).
THEOREM FirstWindowIsExact == NoWrap => (Spec => []FirstWindowExact)
<1> SUFFICES ASSUME NoWrap PROVE Spec => []FirstWindowExact
  OBVIOUS
<1>1. StreamTypes /\ (FirstWindow => FirstWindowInv) => FirstWindowExact
  <2> SUFFICES ASSUME StreamTypes, FirstWindow, FirstWindowInv
               PROVE  GenuinePackets /\ DeliveredPrefix
    BY DEF FirstWindowExact
  <2>1. InWindow
    BY DEF InWindow
  <2>2. PICK len \in Nat : len = Written
    BY <2>1, WindowLength
  <2>3. len + WindowSize < RingMax
    BY <2>1, <2>2, WindowLength
  <2>4. data_out \in Seq(GenuinePacket(len)) /\ OrderInv(len)
    BY <2>2 DEF FirstWindowInv, OrderInv
  <2>5. DeliveredPrefix
    BY <2>2, <2>4 DEF OrderInv, DeliveredPrefix, DeliveredCount
  <2>6. ASSUME NEW i \in DOMAIN data_out
        PROVE  \E p \in 0 .. len :
                 /\ Ring(data_out[i].offset) = Ring(p)
                 /\ data_out[i].data = Bytes(p, Len(data_out[i].data))
                 /\ p + Len(data_out[i].data) <= len
    <3> DEFINE c == [offset |-> data_out[i].offset, data |-> data_out[i].data]
    <3>1. data_out[i] \in GenuinePacket(len)
      BY <2>4
    <3>2. c.offset = data_out[i].offset /\ c.data = data_out[i].data /\ c \in GenuineChunk(len)
      BY <3>1 DEF GenuinePacket
    <3> HIDE DEF c
    <3>3. /\ c.offset \in 0 .. len - 1 /\ c.offset + Len(c.data) \in 1 .. len
          /\ c.data = Bytes(c.offset, Len(c.data))
      BY <2>3, <3>2, ChunkEnd
    <3>4. c.offset \in 0 .. len
      BY <3>3
    <3> QED
      BY <3>2, <3>3, <3>4
  <2>7. GenuinePackets
    BY <2>2, <2>6 DEF GenuinePackets
  <2> QED
    BY <2>5, <2>7
<1> QED
  BY <1>1, TypesAlways, WindowAlways, PTL

\* Nothing said to the writer or the window is taken back: an outcome is final,
\* and in the first window last_confirmed_ never moves back, however confirms
\* are repeated and reordered (SafeStreamSendingAction::Confirm).
THEOREM NothingIsTakenBack == NoWrap => (Spec => NothingTakenBack)
<1> SUFFICES ASSUME NoWrap PROVE Spec => NothingTakenBack
  OBVIOUS
<1>1. ASSUME StreamTypes, FirstWindow => FirstWindowInv, [Next]_vars
      PROVE  [FirstWindow => last_confirmed' >= last_confirmed]_vars
  <2> SUFFICES ASSUME FirstWindow PROVE last_confirmed' >= last_confirmed
    OBVIOUS
  <2>1. InWindow
    BY <1>1 DEF InWindow
  <2>2. last_confirmed \in Nat
    BY <1>1, Sizes DEF StreamTypes, SendingTypes
  <2>3. CASE OnConfirm
    <3> DEFINE offset == Head(calls).offset
    <3>1. offset \in 0 .. WindowSize /\ Confirm(offset)
      BY <2>1, <2>3, CallInWindow DEF OnConfirm
    <3> HIDE DEF offset
    <3>2. CASE Distance(last_confirmed, offset) <= WindowSize
      <4>1. last_confirmed' = Plus(offset, 1)
        BY <3>1, <3>2 DEF Confirm
      <4>2. Plus(offset, 1) = offset + 1 /\ last_confirmed <= offset
        BY <2>1, <3>1, <3>2, ConfirmInWindow
      <4> QED
        BY <2>2, <3>1, <4>1, <4>2
    <3>3. CASE ~(Distance(last_confirmed, offset) <= WindowSize)
      BY <2>2, <3>1, <3>3 DEF Confirm
    <3> QED
      BY <3>2, <3>3
  <2>4. CASE ~OnConfirm
    <3>1. UNCHANGED last_confirmed
      BY <1>1, <2>4, Zenon DEF Next, vars, senderVars, Write, SendData, Stop, StopSending, Report,
         ReportFinished, Link, SetMaxDataSize, UpdateSender, SenderUpdate, SendNothing, SendSlice,
         ArriveResponse, OnRequestRepeat, RequestRepeatSend, ArriveData, UpdateReceiver, Lose,
         FailWrite, ReportWriteError
    <3> QED
      BY <2>2, <3>1
  <2> QED
    BY <2>3, <2>4
<1>2. Spec => ConfirmedNeverMovesBack
  BY <1>1, TypesAlways, WindowAlways, PTL DEF Spec, ConfirmedNeverMovesBack
<1> QED
  BY <1>2, OutcomesStay, PTL DEF NothingTakenBack
=============================================================================
