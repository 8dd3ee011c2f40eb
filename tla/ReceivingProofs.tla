-------------------------- MODULE ReceivingProofs --------------------------
(***************************************************************************)
(* The receiving end delivers the stream in order, for every stream,       *)
(* window, slice size and bound.                                           *)
(***************************************************************************)
EXTENDS ReceivingEnv, StreamLemmas

\* The stream leaves a window of the ring free.
LEMMA StreamFits == StreamLen \in Nat /\ SliceSize \in Nat /\ StreamLen + WindowSize < RingMax
  BY StreamAssumption

\* What arrives is a chunk of the stream.
LEMMA ArrivedGenuine ==
    \A s \in Slices : [offset |-> Ring(s[1]), data |-> Bytes(s[1], s[2])] \in GenuineChunk(StreamLen)
<1> SUFFICES ASSUME NEW s \in Slices
             PROVE  [offset |-> Ring(s[1]), data |-> Bytes(s[1], s[2])] \in GenuineChunk(StreamLen)
  OBVIOUS
<1>1. s[1] \in 0 .. StreamLen /\ s[2] \in 1 .. SliceSize /\ s[1] + s[2] <= StreamLen
  BY DEF Slices
<1>2. Ring(s[1]) = s[1]
  BY <1>1, Sizes, StreamFits, ModSmall DEF Ring
<1>3. s[1] \in Nat /\ s[2] \in Nat /\ s[2] # 0 /\ s[1] \in RingValues
  BY <1>1, Sizes, StreamFits
<1> DEFINE data == Bytes(s[1], s[2])
<1>4. data \in Seq(Int) /\ Len(data) = s[2]
  BY <1>3, BytesType, Zenon
<1>5. data = Bytes(s[1], Len(data))
  BY <1>4
<1> HIDE DEF data
<1>6. data # <<>> /\ s[1] + Len(data) <= StreamLen
  BY <1>1, <1>3, <1>4
<1> QED
  BY <1>2, <1>3, <1>4, <1>5, <1>6, StreamFits, IsGenuine DEF data
-----------------------------------------------------------------------------
\* Every step keeps the inductive invariant.
LEMMA InductiveStep ==
    ASSUME RvTypeOK, OrderInv(StreamLen), [RvNext]_receiverVars
    PROVE  RvTypeOK' /\ OrderInv(StreamLen)'
<1>1. ASSUME NEW s \in Slices,
             \/ ReceiveSend(Ring(s[1]), Bytes(s[1], s[2]))
             \/ ReceiveRepeat(Ring(s[1]), Bytes(s[1], s[2]))
      PROVE  RvTypeOK' /\ OrderInv(StreamLen)'
  <2> DEFINE offset == Ring(s[1])
             data == Bytes(s[1], s[2])
  <2>1. [offset |-> offset, data |-> data] \in GenuineChunk(StreamLen)
    BY ArrivedGenuine
  <2>2. ReceiveSend(offset, data) \/ ReceiveRepeat(offset, data)
    BY <1>1
  <2> HIDE DEF offset, data
  <2>3. offset \in RingValues /\ data \in Seq(Int)
    BY <2>1 DEF GenuineChunk, Chunk
  <2>4. RvTypeOK'
    BY <2>2, <2>3, ReceiveTypes
  <2>5. OrderInv(StreamLen)'
    BY <2>1, <2>2, StreamFits, ReceiveOrder
  <2> QED
    BY <2>4, <2>5
<1>2. CASE UpdateReceiver
  <2>1. PICK confirm_due \in BOOLEAN, repeat_due \in BOOLEAN :
          ReceiverUpdate(confirm_due, repeat_due)
    BY <1>2 DEF UpdateReceiver
  <2>2. RvTypeOK'
    BY <2>1, UpdateTypes
  <2>3. OrderInv(StreamLen)'
    BY <2>1, StreamFits, UpdateOrder
  <2> QED
    BY <2>2, <2>3
<1>3. CASE TakeResponse
  <2>1. response_out' \in Seq(Response) /\ response_out' \in Seq(GenuineResponse(StreamLen))
    BY <1>3 DEF TakeResponse, RvTypeOK, OrderInv
  <2> QED
    BY <1>3, <2>1 DEF TakeResponse, RvTypeOK, OrderInv, DeliveredInOrder
<1>4. CASE UNCHANGED receiverVars
  BY <1>4 DEF receiverVars, RvTypeOK, OrderInv, DeliveredInOrder
<1> QED
  BY <1>1, <1>2, <1>3, <1>4 DEF RvNext, ArriveSend, ArriveRepeat

\* The initial state satisfies the inductive invariant.
LEMMA InitialState == ReceiverInit => RvTypeOK /\ OrderInv(StreamLen)
  BY StreamFits, ReceiverStart

\* The receiver's members keep their types, whatever slices arrive.
THEOREM ReceiverTypeCorrect == RvSpec => []RvTypeOK
<1>1. RvSpec => [](RvTypeOK /\ OrderInv(StreamLen))
  BY InitialState, InductiveStep, PTL DEF RvSpec
<1> QED
  BY <1>1, PTL

\* The application receives the stream in order, each byte once: whatever the
\* network loses, repeats or reorders, for every stream shorter than the ring.
THEOREM ReceiverDeliversInOrder == RvSpec => []DeliveredInOrder
<1>1. RvSpec => [](RvTypeOK /\ OrderInv(StreamLen))
  BY InitialState, InductiveStep, PTL DEF RvSpec
<1>2. OrderInv(StreamLen) => DeliveredInOrder
  BY DEF OrderInv
<1> QED
  BY <1>1, <1>2, PTL
-----------------------------------------------------------------------------
(* What is held stays held until it is delivered. *)

\* The positions in a sequence of chunks.
ChunkBytes(chunks) == UNION {Range(chunks[i].data) : i \in DOMAIN chunks}

\* Inserting a chunk keeps the ones that were there.
LEMMA InsertKeeps ==
    ASSUME NEW seq \in Seq(Chunk), NEW at \in 1 .. Len(seq), NEW e \in Chunk
    PROVE  ChunkBytes(seq) \subseteq ChunkBytes(Inserted(seq, at, e))
<1> DEFINE new == Inserted(seq, at, e)
<1>1. /\ new \in Seq(Chunk) /\ Len(new) = Len(seq) + 1
      /\ \A i \in 1 .. at - 1 : new[i] = seq[i]
      /\ \A i \in at .. Len(seq) : new[i + 1] = seq[i]
  BY DEF Inserted
<1> HIDE DEF new
<1>2. ASSUME NEW i \in 1 .. Len(seq)
      PROVE  \E j \in 1 .. Len(new) : new[j] = seq[i]
  <2>1. CASE i < at
    <3>1. i \in 1 .. at - 1 /\ i \in 1 .. Len(new)
      BY <1>1, <2>1
    <3> QED
      BY <1>1, <3>1
  <2>2. CASE ~(i < at)
    <3>1. i \in at .. Len(seq) /\ i + 1 \in 1 .. Len(new)
      BY <1>1, <2>2
    <3> QED
      BY <1>1, <3>1
  <2> QED
    BY <2>1, <2>2
<1>3. DOMAIN seq = 1 .. Len(seq) /\ DOMAIN new = 1 .. Len(new)
  BY <1>1
<1>4. ChunkBytes(seq) \subseteq ChunkBytes(new)
  BY <1>2, <1>3 DEF ChunkBytes
<1> QED
  BY <1>4 DEF new

\* AddDataChunk drops no held byte.
LEMMA AddDataChunkKeeps ==
    ASSUME RvTypeOK, OrderInv(StreamLen), NEW offset, NEW data,
           [offset |-> offset, data |-> data] \in GenuineChunk(StreamLen), AddDataChunk(offset, data)
    PROVE  HeldBytes \subseteq HeldBytes'
<1>1. received_data_chunks \in Seq(Chunk)
  BY DEF RvTypeOK
<1>2. CASE received_data_chunks' =
             Append(received_data_chunks, [offset |-> offset, data |-> data])
  <2>1. /\ DOMAIN received_data_chunks \subseteq DOMAIN received_data_chunks'
        /\ \A i \in DOMAIN received_data_chunks :
              received_data_chunks'[i] = received_data_chunks[i]
    BY <1>1, <1>2
  <2> QED
    BY <2>1 DEF HeldBytes
<1>3. CASE UNCHANGED received_data_chunks
  BY <1>3 DEF HeldBytes
<1>4. ASSUME NEW at \in FirstAfter(offset), received_data_chunks[at].offset # offset,
             received_data_chunks' =
               Inserted(received_data_chunks, at,
                        [offset |-> offset,
                         data |-> CutAt(offset, data, received_data_chunks[at].offset)])
      PROVE  HeldBytes \subseteq HeldBytes'
  <2>1. /\ at \in 1 .. Len(received_data_chunks)
        /\ [offset |-> offset, data |-> CutAt(offset, data, received_data_chunks[at].offset)]
             \in GenuineChunk(StreamLen)
    BY <1>4, StreamFits, InsertedGenuine DEF OrderInv
  <2>2. ChunkBytes(received_data_chunks) \subseteq ChunkBytes(received_data_chunks')
    BY <1>1, <1>4, <2>1, InsertKeeps DEF GenuineChunk
  <2> QED
    BY <2>2 DEF ChunkBytes, HeldBytes
<1> QED
  BY <1>2, <1>3, <1>4, Zenon DEF AddDataChunk

\* Update drops no held byte: what leaves the chunks is delivered.
LEMMA UpdateKeeps ==
    ASSUME RvTypeOK, OrderInv(StreamLen), NEW chain \in 0 .. Len(received_data_chunks), NEW repeats,
           Respond(chain, repeats)
    PROVE  HeldBytes \subseteq HeldBytes' \cup DeliveredBytes'
<1> DEFINE chunks == received_data_chunks
           n == Len(delivered)
           data == [i \in 1 .. chain |-> chunks[i].data]
<1>1. chunks \in Seq(Chunk) /\ delivered \in Seq(Seq(Int)) /\ n \in Nat /\ Len(chunks) \in Nat
  BY DEF RvTypeOK
<1>2. received_data_chunks' = SubSeq(chunks, chain + 1, Len(chunks)) /\ delivered' = delivered \o data
  BY DEF Respond
<1>3. data \in Seq(Seq(Int)) /\ Len(data) = chain /\ \A i \in 1 .. chain : data[i] = chunks[i].data
  <2>1. ASSUME NEW i \in 1 .. chain
        PROVE  chunks[i].data \in Seq(Int)
    <3>1. i \in 1 .. Len(chunks)
      BY <1>1
    <3>2. chunks[i] \in Chunk
      BY <1>1, <3>1
    <3> QED
      BY <3>2 DEF Chunk
  <2> QED
    BY <2>1
<1>4. \A i \in 1 .. chain : n + i \in DOMAIN delivered' /\ delivered'[n + i] = chunks[i].data
  <2> HIDE DEF data
  <2> QED
    BY <1>1, <1>2, <1>3
<1>5. \A i \in chain + 1 .. Len(chunks) :
        /\ i - chain \in DOMAIN received_data_chunks'
        /\ received_data_chunks'[i - chain] = chunks[i]
  BY <1>1, <1>2
<1>6. ASSUME NEW i \in 1 .. Len(chunks)
      PROVE  Range(chunks[i].data) \subseteq HeldBytes' \cup DeliveredBytes'
  <2>1. CASE i \in 1 .. chain
    BY <1>4, <2>1 DEF DeliveredBytes
  <2>2. CASE i \in chain + 1 .. Len(chunks)
    BY <1>5, <2>2 DEF HeldBytes
  <2>3. i \in 1 .. chain \/ i \in chain + 1 .. Len(chunks)
    BY <1>1
  <2> QED
    BY <2>1, <2>2, <2>3
<1>7. DOMAIN chunks = 1 .. Len(chunks)
  BY <1>1
<1> QED
  BY <1>6, <1>7 DEF HeldBytes

\* No step of the receiver drops a byte it holds before the application has
\* it: not a duplicate, an overlap or an exceeded repeat count.
THEOREM ReceiverKeepsHeldBytes == RvSpec => HeldUntilDelivered
<1>1. ASSUME RvTypeOK, OrderInv(StreamLen), RvNext
      PROVE  HeldBytes \subseteq HeldBytes' \cup DeliveredBytes'
  <2>1. ASSUME NEW s \in Slices,
               \/ ReceiveSend(Ring(s[1]), Bytes(s[1], s[2]))
               \/ ReceiveRepeat(Ring(s[1]), Bytes(s[1], s[2]))
        PROVE  HeldBytes \subseteq HeldBytes'
    <3>1. CASE AddDataChunk(Ring(s[1]), Bytes(s[1], s[2]))
      BY <1>1, <3>1, ArrivedGenuine, AddDataChunkKeeps, Zenon
    <3>2. CASE UNCHANGED received_data_chunks
      BY <3>2 DEF HeldBytes
    <3> QED
      BY <2>1, <3>1, <3>2 DEF ReceiveSend, ReceiveRepeat
  <2>2. CASE UpdateReceiver
    <3>1. PICK confirm_due \in BOOLEAN, repeat_due \in BOOLEAN :
            ReceiverUpdate(confirm_due, repeat_due)
      BY <2>2 DEF UpdateReceiver
    <3>2. received_data_chunks \in Seq(Chunk)
      BY <1>1 DEF RvTypeOK
    <3>3. \E chain \in 0 .. Len(received_data_chunks) : \E repeats : Respond(chain, repeats)
      BY <3>1, <3>2, UpdateResponds
    <3> QED
      BY <1>1, <3>3, UpdateKeeps
  <2>3. CASE TakeResponse
    BY <2>3 DEF TakeResponse, HeldBytes
  <2> QED
    BY <1>1, <2>1, <2>2, <2>3 DEF RvNext, ArriveSend, ArriveRepeat
<1>2. RvSpec => [](RvTypeOK /\ OrderInv(StreamLen))
  BY InitialState, InductiveStep, PTL DEF RvSpec
<1>3. RvTypeOK /\ OrderInv(StreamLen) /\ [RvNext]_receiverVars =>
        [HeldBytes \subseteq HeldBytes' \cup DeliveredBytes']_receiverVars
  BY <1>1
<1> QED
  BY <1>2, <1>3, PTL DEF RvSpec, HeldUntilDelivered
=============================================================================
