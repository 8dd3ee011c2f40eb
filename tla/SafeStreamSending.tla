------------------------- MODULE SafeStreamSending -------------------------
(***************************************************************************)
(* SafeStreamSendingAction with its SendDataBuffer, SendingChunkList and   *)
(* SendingDataActions (stream_api/safe_stream/): the sending end of the    *)
(* safe stream.  It buffers the written data, sends slices of it within    *)
(* the window, and sends them again on a repeat request or when the        *)
(* confirmation of the oldest slice is overdue.                            *)
(*                                                                         *)
(* Time is abstracted: whether wait_confirm_timeout has elapsed for the    *)
(* oldest sent chunk is an input of Update.                                *)
(***************************************************************************)
EXTENDS RingIndex

CONSTANTS
    BufferCapacity,     \* SafeStreamConfig::buffer_capacity
    FreedChunkReads     \* what end_offset of a freed chunk may read as, besides
                        \* the value it had

ASSUME CapacityAssumption == BufferCapacity \in RingValues
ASSUME FreedAssumption == FreedChunkReads \subseteq RingValues

VARIABLES
    writes,             \* every SendingDataAction made:
                        \* [offset, from, size, state, reported]
    send_data_buffer,   \* send_action_views_: indices into writes, in their order
    buffer_size,        \* SendDataBuffer::buffer_size_
    sending_chunks,     \* [begin, end, repeat_count], oldest send time first
    last_confirmed,
    next_to_add,
    last_sent_offset,
    max_data_size,      \* 0 until the stream is linked
    data_out            \* packets passed to write_data_event_ and not yet taken

senderVars == <<writes, send_data_buffer, buffer_size, sending_chunks, last_confirmed,
                next_to_add, last_sent_offset, max_data_size, data_out>>

SenderInit ==
    /\ writes = <<>>
    /\ send_data_buffer = {}
    /\ buffer_size = 0
    /\ sending_chunks = <<>>
    /\ last_confirmed = Ring(0)
    /\ next_to_add = Ring(0)
    /\ last_sent_offset = Ring(0)
    /\ max_data_size = 0
    /\ data_out = <<>>

\* SendingData::get_offset_range(): the last offset of a write.
EndOffset(w) == Plus(w.offset, w.size - 1)

\* The states SendingDataAction reports to the writer; the others go on.
Finished == {"kDone", "kStopped", "kFailed"}
-----------------------------------------------------------------------------
(* SendDataBuffer *)

\* The write covers offset or lies before it.
UpTo(w, offset) == Before(EndOffset(w), offset) \/ InRange(w.offset, EndOffset(w), offset)

\* The writes ws with those at the indices ks in the given state.
WithState(ws, ks, state) ==
    [k \in DOMAIN ws |-> IF k \in ks THEN [ws[k] EXCEPT !.state = state] ELSE ws[k]]

\* The bytes of the writes at the indices ks.
SizeOf(ws, ks) ==
    LET upTo[n \in 0 .. Len(ws)] ==
            IF n = 0 THEN 0 ELSE upTo[n - 1] + (IF n \in ks THEN ws[n].size ELSE 0)
    IN  upTo[Len(ws)]

\* Mutant: buffer_size_ is not reduced.
RemoveWritesUncounted(ws, out, state) ==
    /\ send_data_buffer' = send_data_buffer \ out
    /\ writes' = WithState(ws, out, state)
    /\ UNCHANGED buffer_size

\* Of ws, drop the writes at the indices out from the buffer in the given state.
RemoveWrites(ws, out, state) ==
    /\ send_data_buffer' = send_data_buffer \ out
    /\ buffer_size' = buffer_size - SizeOf(ws, out)
    /\ writes' = WithState(ws, out, state)

\* Mutant: a write is done once a part of it is confirmed.
ConfirmDataPartly(offset) ==
    RemoveWrites(writes, {k \in send_data_buffer : UpTo(writes[k], offset)}, "kDone")

\* SendDataBuffer::Confirm, Reject and Stop.
ConfirmData(offset) ==
    RemoveWrites(writes, {k \in send_data_buffer : Before(EndOffset(writes[k]), offset)}, "kDone")
RejectData(ws, offset) ==
    RemoveWrites(ws, {k \in send_data_buffer : UpTo(writes[k], offset)}, "kFailed")
StopData(offset) ==
    RemoveWrites(writes, {k \in send_data_buffer : UpTo(writes[k], offset)}, "kStopped")

\* Mutant: each write is copied from its begin.
CopyFromBegin(slice, k) ==
    LET n == Min({writes[k].size, slice.remaining})
    IN  [data |-> slice.data \o Bytes(writes[k].from, n), next |-> Clockwise(slice.next, n),
         remaining |-> slice.remaining - n, used |-> slice.used \cup {k}]

\* GetSlice's loop body: copy what write k has at slice.next.  A write that
\* does not continue the slice is read out of its bounds.
CopyFrom(slice, k) ==
    LET skip == Distance(writes[k].offset, slice.next)
        size == writes[k].size
        n == IF skip > size THEN slice.remaining ELSE Min({size - skip, slice.remaining})
        data == IF skip > size THEN [j \in 1 .. n |-> Garbage]
                ELSE Bytes(writes[k].from + skip, n)
    IN  IF slice.remaining = 0 THEN slice
        ELSE [data |-> slice.data \o data, next |-> Clockwise(slice.next, n),
              remaining |-> slice.remaining - n, used |-> slice.used \cup {k}]

\* GetSlice(offset, max_size): the data, and the writes it marks kSending.
GetSlice(offset, max_size) ==
    LET covering == {k \in send_data_buffer :
                        InRange(writes[k].offset, EndOffset(writes[k]), offset)}
        rest == {k \in send_data_buffer : k >= Min(covering)}
        none == [data |-> <<>>, next |-> offset, remaining |-> max_size, used |-> {}]
        upTo[n \in 0 .. Len(writes)] ==
            IF n = 0 THEN none ELSE IF n \in rest THEN CopyFrom(upTo[n - 1], n) ELSE upTo[n - 1]
    IN  IF covering = {} THEN none ELSE upTo[Len(writes)]
-----------------------------------------------------------------------------
(* SendingChunkList *)

\* RemoveUpTo(offset) on chunks.
RemoveUpTo(chunks, offset) ==
    LET kept == Kept(chunks, {i \in DOMAIN chunks :
                                 /\ ~Before(chunks[i].end, offset)
                                 /\ ~(InRange(chunks[i].begin, chunks[i].end, offset)
                                      /\ offset = chunks[i].end)})
    IN  [i \in DOMAIN kept |->
            IF InRange(kept[i].begin, kept[i].end, offset)
            THEN [kept[i] EXCEPT !.begin = offset] ELSE kept[i]]

\* What Register leaves of a chunk the new one [begin:end] overlaps.
Trim(chunk, begin, end) ==
    IF InRange(begin, end, chunk.begin) THEN [chunk EXCEPT !.begin = Plus(end, 1)]
    ELSE IF InRange(begin, end, chunk.end) THEN [chunk EXCEPT !.end = Minus(begin, 1)]
    ELSE chunk

\* Register(begin, end, send_time): the registered chunk is the last one.
Register(chunks, begin, end) ==
    LET hits == {i \in DOMAIN chunks : InRange(begin, end, chunks[i].begin)}
        first == chunks[Min(hits)]
        overlapping == hits \cup {i \in DOMAIN chunks : InRange(begin, end, chunks[i].end)}
        kept == Kept(chunks, {i \in DOMAIN chunks : ~(InRange(begin, end, chunks[i].begin)
                                                      /\ InRange(begin, end, chunks[i].end))})
        New(count) == [begin |-> begin, end |-> end, repeat_count |-> count]
    IN  IF hits = {} THEN Append(chunks, New(0))
        ELSE IF first.begin = begin /\ first.end = end
        THEN Append(RemovedAt(chunks, Min(hits)), first)
        ELSE Append([i \in DOMAIN kept |-> Trim(kept[i], begin, end)],
                    New(Min({first.repeat_count, chunks[Max(overlapping)].repeat_count})))
-----------------------------------------------------------------------------
(* SafeStreamSendingAction *)

\* Bytes written so far.
Written == IF writes = <<>> THEN 0 ELSE writes[Len(writes)].from + writes[Len(writes)].size

\* SendData(data): size bytes are written; data that does not fit is refused.
SendData(size) ==
    /\ buffer_size + size <= BufferCapacity
    /\ LET write == [offset |-> next_to_add, from |-> Written, size |-> size,
                     state |-> "kWaiting", reported |-> FALSE]
       IN  /\ writes' = Append(writes, write)
           /\ next_to_add' = Plus(EndOffset(write), 1)
    /\ send_data_buffer' = send_data_buffer \cup {Len(writes) + 1}
    /\ buffer_size' = buffer_size + size
    /\ UNCHANGED <<sending_chunks, last_confirmed, last_sent_offset, max_data_size, data_out>>

\* Mutants: any confirm is applied; the window does not move.
ConfirmAny(offset) ==
    /\ sending_chunks' = RemoveUpTo(sending_chunks, offset)
    /\ ConfirmData(offset)
    /\ last_confirmed' = Plus(offset, 1)
    /\ UNCHANGED <<next_to_add, last_sent_offset, max_data_size, data_out>>
ConfirmKeepingWindow(offset) ==
    /\ sending_chunks' = RemoveUpTo(sending_chunks, offset)
    /\ ConfirmData(offset)
    /\ UNCHANGED <<last_confirmed, next_to_add, last_sent_offset, max_data_size, data_out>>

\* Confirm: a confirm outside of the window is ignored.
Confirm(offset) ==
    /\ IF Distance(last_confirmed, offset) <= WindowSize
       THEN /\ sending_chunks' = RemoveUpTo(sending_chunks, offset)
            /\ ConfirmData(offset)
            /\ last_confirmed' = Plus(offset, 1)
       ELSE UNCHANGED <<sending_chunks, send_data_buffer, buffer_size, writes, last_confirmed>>
    /\ UNCHANGED <<next_to_add, last_sent_offset, max_data_size, data_out>>

\* An offset that is too old is logged and used all the same.
RequestRepeatSend(offset) ==
    /\ last_sent_offset' = offset
    /\ UNCHANGED <<writes, send_data_buffer, buffer_size, sending_chunks, last_confirmed,
                   next_to_add, max_data_size, data_out>>

\* ReportWriteError and ReportWriteStopped of the packet sent for offset.
ReportWriteError(offset) ==
    /\ sending_chunks' = RemoveUpTo(sending_chunks, offset)
    /\ RejectData(writes, offset)
    /\ UNCHANGED <<last_confirmed, next_to_add, last_sent_offset, max_data_size>>

\* HandleTimeouts: where sending goes on from; back at the begin of the oldest
\* sent chunk when its confirmation is overdue.
HandleTimeouts(timed_out) ==
    IF timed_out /\ sending_chunks # <<>> THEN Head(sending_chunks).begin ELSE last_sent_offset

WindowExceeded(offset) == Distance(last_confirmed, Plus(offset, max_data_size)) > WindowSize

\* SendData(current_time) has nothing to send, or may not send it.
SendNothing(begin) ==
    /\ max_data_size = 0 \/ WindowExceeded(begin) \/ GetSlice(begin, max_data_size).data = <<>>
    /\ last_sent_offset' = begin
    /\ UNCHANGED <<writes, send_data_buffer, buffer_size, sending_chunks,
                   last_confirmed, next_to_add, max_data_size, data_out>>

\* SendFirst or SendRepeat of the last chunk of chunks, sent count times before.
SendChunk(chunks, slice, count) ==
    /\ count <= MaxRepeatCount
    /\ sending_chunks' = [chunks EXCEPT ![Len(chunks)].repeat_count = count + 1]
    /\ writes' = WithState(writes, slice.used, "kSending")
    /\ data_out' = Append(data_out, [type |-> IF count = 0 THEN "Send" ELSE "Repeat",
                                     offset |-> chunks[Len(chunks)].begin, data |-> slice.data])
    /\ UNCHANGED <<send_data_buffer, buffer_size>>

\* The repeat count is exceeded.  RemoveUpTo frees the chunk before its
\* end_offset is read for the rejection.
GiveUpChunk(chunks, slice, count) ==
    /\ count > MaxRepeatCount
    /\ sending_chunks' = RemoveUpTo(chunks, chunks[Len(chunks)].end)
    /\ \E freed \in {chunks[Len(chunks)].end} \cup FreedChunkReads :
          RejectData(WithState(writes, slice.used, "kSending"), freed)
    /\ UNCHANGED data_out

\* SendData(current_time): the slice at begin is registered and sent.
SendSlice(begin) ==
    /\ max_data_size # 0 /\ ~WindowExceeded(begin)
    /\ \E slice \in {GetSlice(begin, max_data_size)} :
         /\ slice.data # <<>>
         /\ last_sent_offset' = Clockwise(begin, Len(slice.data))
         /\ \E chunks \in {Register(sending_chunks, begin, Plus(begin, Len(slice.data) - 1))} :
              \/ SendChunk(chunks, slice, chunks[Len(chunks)].repeat_count)
              \/ GiveUpChunk(chunks, slice, chunks[Len(chunks)].repeat_count)
    /\ UNCHANGED <<last_confirmed, next_to_add, max_data_size>>

\* Update: HandleTimeouts, then SendData(current_time).
SenderUpdate(timed_out) ==
    \E begin \in {HandleTimeouts(timed_out)} : SendNothing(begin) \/ SendSlice(begin)

\* The writer stops the k-th write; its offset and all before it are stopped.
StopSending(k) ==
    /\ writes[k].state # "kSending"
    /\ ~writes[k].reported
    /\ sending_chunks' = RemoveUpTo(sending_chunks, writes[k].offset)
    /\ StopData(writes[k].offset)
    /\ UNCHANGED <<last_confirmed, next_to_add, last_sent_offset, max_data_size, data_out>>

\* SendingDataAction::Update: the writer learns the outcome, once.
ReportFinished(k) ==
    /\ writes[k].state \in Finished
    /\ ~writes[k].reported
    /\ writes' = [writes EXCEPT ![k].reported = TRUE]
    /\ UNCHANGED <<send_data_buffer, buffer_size, sending_chunks, last_confirmed,
                   next_to_add, last_sent_offset, max_data_size, data_out>>

\* The gate below the stream is linked or updated; its max_element_size is cut
\* to the width of a ring index.
SetMaxDataSize(size) ==
    /\ max_data_size' = size % (RingMax + 1)
    /\ UNCHANGED <<writes, send_data_buffer, buffer_size, sending_chunks, last_confirmed,
                   next_to_add, last_sent_offset, data_out>>
=============================================================================
