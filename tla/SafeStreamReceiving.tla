------------------------ MODULE SafeStreamReceiving ------------------------
(***************************************************************************)
(* SafeStreamReceivingAction (stream_api/safe_stream/): the receiving end  *)
(* of the safe stream.  It keeps the chunks that arrived ahead of the      *)
(* contiguous part, hands contiguous data to the application, confirms it, *)
(* and requests a repeat of the offsets before which something is missing. *)
(*                                                                         *)
(* Time is abstracted: whether send_confirm_timeout and                    *)
(* send_repeat_timeout have elapsed is an input of Update.                 *)
(* repeat_queue_ and repeat_count_exceeded_ are empty and false between    *)
(* two calls of Update, so they are local to it.                           *)
(***************************************************************************)
EXTENDS RingIndex

VARIABLES
    last_confirmed_offset,  \* next offset the application waits for
    received_data_chunks,   \* held chunks [offset, data], in arrival order of offset
    expected_chunks,        \* requested offset -> repeat_count
    confirmation_queue,     \* offsets to confirm with the next response
    delivered,              \* history: the data passed to receive_event_
    response_out            \* packets passed to send_data_event_ and not yet taken

receiverVars == <<last_confirmed_offset, received_data_chunks, expected_chunks,
                  confirmation_queue, delivered, response_out>>

\* Stands for "no request before this chunk" in the answer of MissedOffsets.
NoGap == -1

ReceiverInit ==
    /\ last_confirmed_offset = Ring(0)
    /\ received_data_chunks = <<>>
    /\ expected_chunks = <<>>
    /\ confirmation_queue = <<>>
    /\ delivered = <<>>
    /\ response_out = <<>>
-----------------------------------------------------------------------------
\* The offset following the first i chunks, when base precedes them all.
NextOffset(chunks, base, i) ==
    IF i = 0 THEN base ELSE Plus(chunks[i].offset, Len(chunks[i].data))

\* The chunk after the first k starts where they end.
Continues(chunks, base, k) == chunks[k + 1].offset = NextOffset(chunks, base, k)

\* Mutant: the chain goes on over gaps.
ChainsUnchecked(chunks, base) == {Len(chunks)}

\* The lengths at which the loop of CheckCompletedChains ends (there is one):
\* the chunks up to it continue base without a gap, the next one does not.
Chains(chunks, base) ==
    {k \in 0 .. Len(chunks) :
        /\ \A j \in 0 .. k - 1 : Continues(chunks, base, j)
        /\ k < Len(chunks) => ~Continues(chunks, base, k)}

\* For each chunk, the offset missing right before it, or NoGap.
MissedOffsets(chunks, base) ==
    [i \in 1 .. Len(chunks) |->
        LET next == NextOffset(chunks, base, i - 1)
        IN  IF chunks[i].offset = next THEN NoGap ELSE next]

\* AddExpectedChunk for each missed offset: the first request of an offset is
\* counted 0, each further one adds 1.
AddExpectedChunks(missed) ==
    LET requested == {missed[i] : i \in DOMAIN missed} \ {NoGap}
        known == DOMAIN expected_chunks
        again(o) == {i \in DOMAIN missed :
                        missed[i] = o /\ (o \in known \/ \E j \in 1 .. i - 1 : missed[j] = o)}
    IN  [o \in known \cup requested |->
            (IF o \in known THEN expected_chunks[o] ELSE 0) + Len(Kept(missed, again(o)))]

\* An offset already confirmed, or too far ahead of the window.
IsConfirmed(offset) == Distance(last_confirmed_offset, offset) >= WindowSize

\* The held chunks at or after offset, and the first of them.
AtOrAfter(offset) ==
    {i \in DOMAIN received_data_chunks :
        Distance(offset, received_data_chunks[i].offset) <= WindowSize}
FirstAfter(offset) == {i \in AtOrAfter(offset) : \A j \in AtOrAfter(offset) : i <= j}

\* What is kept of data at offset when the chunk at next follows; more than
\* there is, is read out of its bounds.
CutAt(offset, data, next) ==
    IF Distance(next, Plus(offset, Len(data))) \in 1 .. WindowSize
    THEN [j \in 1 .. Distance(offset, next) |-> IF j <= Len(data) THEN data[j] ELSE Garbage]
    ELSE data

\* Mutant: an overlapping chunk takes the place of the chunk it overlaps.
AddDataChunkReplacing(offset, data) ==
    /\ UNCHANGED expected_chunks
    /\ \/ /\ AtOrAfter(offset) = {}
          /\ received_data_chunks' =
               Append(received_data_chunks, [offset |-> offset, data |-> data])
       \/ \E at \in FirstAfter(offset) :
            received_data_chunks' =
               [received_data_chunks EXCEPT ![at] = [offset |-> offset, data |-> data]]

\* The chunk e inserted before the at-th of chunks.
Inserted(chunks, at, e) ==
    SubSeq(chunks, 1, at - 1) \o <<e>> \o SubSeq(chunks, at, Len(chunks))

\* AddDataChunk: the chunk goes before the first held chunk at or after its
\* offset, cut where that one begins.
AddDataChunk(offset, data) ==
    \/ /\ AtOrAfter(offset) = {}
       /\ received_data_chunks' =
            Append(received_data_chunks, [offset |-> offset, data |-> data])
       /\ UNCHANGED expected_chunks
    \/ \E at \in FirstAfter(offset) :
         LET next == received_data_chunks[at].offset
         IN  \/ next = offset /\ UNCHANGED <<received_data_chunks, expected_chunks>>
             \/ /\ next # offset
                /\ received_data_chunks' =
                     Inserted(received_data_chunks, at,
                              [offset |-> offset, data |-> CutAt(offset, data, next)])
                /\ expected_chunks' =
                     [o \in DOMAIN expected_chunks \ {offset} |-> expected_chunks[o]]
-----------------------------------------------------------------------------
ReceiveSend(offset, data) ==
    /\ IF IsConfirmed(offset)
       THEN UNCHANGED <<received_data_chunks, expected_chunks>>
       ELSE AddDataChunk(offset, data)
    /\ UNCHANGED <<last_confirmed_offset, confirmation_queue, delivered, response_out>>

ReceiveRepeat(offset, data) ==
    /\ IF IsConfirmed(offset)
       THEN /\ confirmation_queue' =
                 Append(confirmation_queue, Plus(offset, Len(data) - 1))
            /\ UNCHANGED <<received_data_chunks, expected_chunks>>
       ELSE /\ AddDataChunk(offset, data)
            /\ UNCHANGED confirmation_queue
    /\ UNCHANGED <<last_confirmed_offset, delivered, response_out>>

\* CheckCompletedChains and CheckMissedOffset leave the first chain chunks
\* delivered and request repeats; MakeResponse answers unless a repeat count
\* is exceeded.  JoinChunks' buffer is recorded chunk by chunk.
Respond(chain, repeats) ==
    LET next == NextOffset(received_data_chunks, last_confirmed_offset, chain)
        confirms == IF next = last_confirmed_offset THEN confirmation_queue
                    ELSE Append(confirmation_queue, Minus(next, 1))
        requests == {repeats[i] : i \in DOMAIN repeats} \ {NoGap}
        exceeded == \E o \in requests : AddExpectedChunks(repeats)[o] > MaxRepeatCount
    IN  /\ last_confirmed_offset' = next
        /\ received_data_chunks' =
             SubSeq(received_data_chunks, chain + 1, Len(received_data_chunks))
        /\ delivered' = delivered \o [i \in 1 .. chain |-> received_data_chunks[i].data]
        /\ expected_chunks' = AddExpectedChunks(repeats)
        /\ confirmation_queue' = IF exceeded THEN confirms ELSE <<>>
        /\ response_out' = IF exceeded \/ (confirms = <<>> /\ requests = {})
                           THEN response_out
                           ELSE Append(response_out,
                                       [confirms |-> confirms, repeats |-> repeats])

\* Update: the chains are checked when confirm_due, the gaps when repeat_due.
ReceiverUpdate(confirm_due, repeat_due) ==
    \E chain \in IF confirm_due THEN Chains(received_data_chunks, last_confirmed_offset)
                 ELSE {0} :
        LET next == NextOffset(received_data_chunks, last_confirmed_offset, chain)
            rest == SubSeq(received_data_chunks, chain + 1, Len(received_data_chunks))
        IN  Respond(chain, IF repeat_due THEN MissedOffsets(rest, next) ELSE <<>>)
-----------------------------------------------------------------------------
\* The position right after the first i buffers of a sequence of buffers.
EndOf(buffers, i) == IF i = 0 THEN 0 ELSE buffers[i][Len(buffers[i])] + 1

\* The application receives the bytes of the stream in order, each exactly
\* once, whatever the network loses, repeats or reorders: every chunk passed
\* to receive_event_ starts right after the previous one.
DeliveredInOrder ==
    \A i \in DOMAIN delivered :
        delivered[i] = Bytes(EndOf(delivered, i - 1), Len(delivered[i]))

\* Chunks and responses, and the state the receiver's members can hold.
Chunk == [offset : RingValues, data : Seq(Int)]
Response == [confirms : Seq(RingValues), repeats : Seq(RingValues \cup {NoGap})]

RvTypeOK ==
    /\ last_confirmed_offset \in RingValues
    /\ received_data_chunks \in Seq(Chunk)
    /\ \E D \in SUBSET RingValues : expected_chunks \in [D -> Nat]
    /\ confirmation_queue \in Seq(RingValues)
    /\ delivered \in Seq(Seq(Int))
    /\ response_out \in Seq(Response)

\* A chunk that holds the bytes at its offset of a stream of len bytes, and the
\* answers to such chunks.
GenuineChunk(len) ==
    {c \in Chunk : /\ c.data # <<>>
                   /\ c.offset + Len(c.data) <= len
                   /\ c.data = Bytes(c.offset, Len(c.data))}
GenuineResponse(len) ==
    [confirms : Seq(0 .. len - 1), repeats : Seq((0 .. len) \cup {NoGap})]

\* Why the order holds: held chunks are genuine, however AddDataChunk cut them,
\* last_confirmed_offset_ is where the delivered data ends, and only offsets of
\* the stream are answered.
OrderInv(len) ==
    /\ received_data_chunks \in Seq(GenuineChunk(len))
    /\ \A i \in DOMAIN delivered : delivered[i] # <<>>
    /\ DeliveredInOrder
    /\ last_confirmed_offset = EndOf(delivered, Len(delivered))
    /\ last_confirmed_offset <= len
    /\ confirmation_queue \in Seq(0 .. len - 1)
    /\ response_out \in Seq(GenuineResponse(len))
=============================================================================
