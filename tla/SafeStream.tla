----------------------------- MODULE SafeStream -----------------------------
(***************************************************************************)
(* SafeStream (stream_api/safe_stream.cpp): the sending end of one peer    *)
(* and the receiving end of the other, joined by the network below the     *)
(* stream.  The network is external: when Unreliable, it may lose, repeat  *)
(* and reorder packets and the write of a packet may be reported as        *)
(* failed; otherwise it is a pair of FIFO channels.                        *)
(*                                                                         *)
(* A response packet carries several calls; ApiParser performs them one    *)
(* after the other, with nothing of the same peer in between.              *)
(***************************************************************************)
EXTENDS SafeStreamSending, SafeStreamReceiving

CONSTANTS
    WriteSizes,     \* sizes of the data the application writes
    MaxWrites,      \* bound on the number of writes
    MaxDataSizes,   \* max_element_size of the gate below the stream
    DataBound,      \* bound on the data packets under way
    ResponseBound,  \* bound on the response packets under way
    ConfirmBound,   \* bound on confirmation_queue
    RequestBound,   \* bound on the repeat counts of expected_chunks
    Unreliable,     \* the network loses, repeats and reorders
    WriteFails,     \* the write of a packet may fail or be stopped
    Timeouts,       \* wait_confirm_timeout may elapse before an answer
    Stops           \* the application may stop its writes

ASSUME EnvAssumption ==
    /\ WriteSizes \subseteq Nat \ {0} /\ MaxDataSizes \subseteq Nat
    /\ {MaxWrites, DataBound, ResponseBound, ConfirmBound, RequestBound} \subseteq Nat
    /\ {Unreliable, WriteFails, Timeouts, Stops} \subseteq BOOLEAN

VARIABLE calls      \* calls of the response packet being parsed

vars == <<senderVars, receiverVars, calls>>

Init == SenderInit /\ ReceiverInit /\ calls = <<>>

\* Positions of a channel the network can deliver from.
Deliverable(channel) ==
    IF Unreliable THEN DOMAIN channel ELSE {i \in DOMAIN channel : i = 1}

\* What the network may leave in a channel after the i-th packet is delivered.
AfterDelivery(channel, i) ==
    {RemovedAt(channel, i)} \cup (IF Unreliable THEN {channel} ELSE {})
-----------------------------------------------------------------------------
(* The sending peer *)

\* A write of the user that fits the buffer.  One that does not gets an empty ActionView,
\* which the constructor of SafeStreamWriteAction dereferences: the program ends there
\* (a null pointer), and no step of the model stands for what would follow.
Write ==
    /\ calls = <<>> /\ Len(writes) < MaxWrites
    /\ \E size \in WriteSizes : SendData(size)
    /\ UNCHANGED <<receiverVars, calls>>

Stop ==
    /\ calls = <<>> /\ Stops
    /\ \E k \in DOMAIN writes : StopSending(k)
    /\ UNCHANGED <<receiverVars, calls>>

Report ==
    /\ calls = <<>>
    /\ \E k \in DOMAIN writes : ReportFinished(k)
    /\ UNCHANGED <<receiverVars, calls>>

Link ==
    /\ calls = <<>>
    /\ \E size \in MaxDataSizes \ {max_data_size} : SetMaxDataSize(size)
    /\ UNCHANGED <<receiverVars, calls>>

UpdateSender ==
    /\ calls = <<>> /\ Len(data_out) < DataBound
    /\ \E timed_out \in IF Timeouts THEN BOOLEAN ELSE {FALSE} : SenderUpdate(timed_out)
    /\ UNCHANGED <<receiverVars, calls>>

\* The calls a response holds: its confirms and then its repeat requests.
Parsed(packet) ==
    LET requests == Kept(packet.repeats, {j \in DOMAIN packet.repeats : packet.repeats[j] # NoGap})
        Call(type, offset) == [type |-> type, offset |-> Ring(offset)]
    IN  [j \in DOMAIN packet.confirms |-> Call("Confirm", packet.confirms[j])]
        \o [j \in DOMAIN requests |-> Call("RequestRepeat", requests[j])]

ArriveResponse ==
    /\ calls = <<>>
    /\ \E i \in Deliverable(response_out) :
         /\ response_out' \in AfterDelivery(response_out, i)
         /\ calls' = Parsed(response_out[i])
    /\ UNCHANGED <<senderVars, last_confirmed_offset, received_data_chunks, expected_chunks,
                   confirmation_queue, delivered>>

OnConfirm ==
    /\ calls # <<>> /\ Head(calls).type = "Confirm"
    /\ Confirm(Head(calls).offset)
    /\ calls' = Tail(calls)
    /\ UNCHANGED receiverVars

OnRequestRepeat ==
    /\ calls # <<>> /\ Head(calls).type = "RequestRepeat"
    /\ RequestRepeatSend(Head(calls).offset)
    /\ calls' = Tail(calls)
    /\ UNCHANGED receiverVars
-----------------------------------------------------------------------------
(* The receiving peer *)

ArriveData ==
    /\ \E i \in Deliverable(data_out) :
         LET m == data_out[i]
         IN  /\ data_out' \in AfterDelivery(data_out, i)
             /\ \/ m.type = "Send" /\ ReceiveSend(Ring(m.offset), m.data)
                \/ /\ m.type = "Repeat" /\ Len(confirmation_queue) < ConfirmBound
                   /\ ReceiveRepeat(Ring(m.offset), m.data)
    /\ UNCHANGED <<writes, send_data_buffer, buffer_size, sending_chunks, last_confirmed,
                   next_to_add, last_sent_offset, max_data_size, calls>>

UpdateReceiver ==
    /\ Len(response_out) < ResponseBound
    /\ \E confirm_due, repeat_due \in BOOLEAN :
         /\ repeat_due => \A o \in DOMAIN expected_chunks : expected_chunks[o] < RequestBound
         /\ ReceiverUpdate(confirm_due, repeat_due)
    /\ UNCHANGED <<senderVars, calls>>
-----------------------------------------------------------------------------
(* The network *)

\* A packet disappears after its write succeeded.
Lose ==
    /\ Unreliable
    /\ \/ /\ \E i \in DOMAIN data_out : data_out' = RemovedAt(data_out, i)
          /\ UNCHANGED response_out
       \/ /\ \E i \in DOMAIN response_out : response_out' = RemovedAt(response_out, i)
          /\ UNCHANGED data_out
    /\ UNCHANGED <<writes, send_data_buffer, buffer_size, sending_chunks, last_confirmed,
                   next_to_add, last_sent_offset, max_data_size, last_confirmed_offset,
                   received_data_chunks, expected_chunks, confirmation_queue, delivered, calls>>

\* OnDataWrite: the write of a packet fails or is stopped.
FailWrite ==
    /\ WriteFails /\ calls = <<>>
    /\ \E i \in DOMAIN data_out :
         /\ ReportWriteError(data_out[i].offset)
         /\ data_out' = RemovedAt(data_out, i)
    /\ UNCHANGED <<receiverVars, calls>>

Next ==
    \/ Write \/ Stop \/ Report \/ Link \/ UpdateSender
    \/ ArriveResponse \/ OnConfirm \/ OnRequestRepeat
    \/ ArriveData \/ UpdateReceiver \/ Lose \/ FailWrite

Spec == Init /\ [][Next]_vars

\* ActionProcessor updates every action again and again, the gate below the
\* stream gets linked, and the network delivers what it was given: as long as
\* one of these can do something, something is done.
Progress ==
    UpdateSender \/ UpdateReceiver \/ Link \/ ArriveData \/ ArriveResponse
    \/ OnConfirm \/ OnRequestRepeat \/ Report

FairSpec == Spec /\ WF_vars(Progress)
-----------------------------------------------------------------------------
\* Bytes delivered so far.
DeliveredCount == EndOf(delivered, Len(delivered))

TypeOK ==
    /\ \A k \in DOMAIN writes :
          writes[k] \in [offset : RingValues, from : Nat, size : WriteSizes,
                         state : {"kWaiting", "kSending"} \cup Finished, reported : BOOLEAN]
    /\ send_data_buffer \subseteq DOMAIN writes
    /\ buffer_size \in 0 .. BufferCapacity
    /\ \A i \in DOMAIN sending_chunks :
          sending_chunks[i] \in [begin : RingValues, end : RingValues,
                                 repeat_count : 0 .. MaxRepeatCount + 1]
    /\ {last_confirmed, next_to_add, last_sent_offset, last_confirmed_offset} \subseteq RingValues
    /\ max_data_size \in RingValues

\* Whatever the network does, the application on the other side has received
\* a prefix of what was written: in order, nothing twice, nothing invented
\* (CheckCompletedChains, JoinChunks).
DeliveredPrefix == DeliveredInOrder /\ DeliveredCount <= Written

\* Every packet under way carries the bytes that were written at its offset:
\* GetSlice never reads across a hole or the end of the buffered data.
GenuinePackets ==
    \A i \in DOMAIN data_out : \E p \in 0 .. Written :
        /\ Ring(data_out[i].offset) = Ring(p)
        /\ data_out[i].data = Bytes(p, Len(data_out[i].data))
        /\ p + Len(data_out[i].data) <= Written

\* buffer_size_ is the size of the data in the buffer, and the buffer holds
\* exactly the writes without an outcome: no write is leaked or dropped
\* silently by Confirm, Reject, Stop or an exceeded repeat count.
BufferAccounting ==
    /\ buffer_size = SizeOf(writes, send_data_buffer)
    /\ send_data_buffer = {k \in DOMAIN writes : writes[k].state \notin Finished}

\* The sending end keeps its types and accounts for what it buffers
\* (SafeStreamSendingAction, SendDataBuffer).
SendingExact == TypeOK /\ BufferAccounting

\* No more was written than fits a window after the first byte.  Beyond that,
\* OffsetRange::Before takes data more than a window ahead of an old offset
\* for data before it (DoneIsDelivered).
FirstWindow == Written <= WindowSize + 1

\* In the first window of the stream, whatever is lost, repeated, reordered,
\* late, stopped or given up: packets carry the bytes written at their offset,
\* and what is delivered is a prefix of what was written (SendDataBuffer::
\* GetSlice, SafeStreamReceivingAction::CheckCompletedChains).
FirstWindowExact == FirstWindow => GenuinePackets /\ DeliveredPrefix

\* An outcome is final: a late confirm, a failed packet write or a slice taken
\* again never changes the state of a finished SendingDataAction.
OutcomeIsFinal ==
    [][\A k \in DOMAIN writes :
          writes[k].state \in Finished => writes'[k].state = writes[k].state]_vars

\* last_confirmed_ never moves back in the first window, though old confirms
\* arrive again and in any order; later it wraps.
ConfirmedNeverMovesBack == [][FirstWindow => last_confirmed' >= last_confirmed]_vars

\* Nothing that was said to the application or the window is taken back: not
\* an outcome, not a confirmed offset (SafeStreamSendingAction::Confirm).
NothingTakenBack == OutcomeIsFinal /\ ConfirmedNeverMovesBack

\* Everything written is eventually delivered, and in order: the window always
\* opens again, the confirms release it, and no slice is left unsent or is read
\* across a hole of the buffer (SafeStreamSendingAction::SendData).
EverythingDelivered ==
    [](DeliveredPrefix /\ GenuinePackets) /\ (DeliveredCount < Written ~> DeliveredCount = Written)

\* A write is reported as done once the other side has all of it ("confirm
\* data has been sent", SendDataBuffer::Confirm).
DoneIsDelivered ==
    \A k \in DOMAIN writes :
        writes[k].state = "kDone" => writes[k].from + writes[k].size <= DeliveredCount

\* The receiver confirms only what it has passed on: an offset it answers
\* with a Confirm lies before last_confirmed_offset_ ("confirmed offset" in
\* ReceiveRepeat).
ConfirmedIsDelivered ==
    \A i \in DOMAIN confirmation_queue : confirmation_queue[i] < last_confirmed_offset

-----------------------------------------------------------------------------
\* The stream as its users see it.
Stream == INSTANCE ByteStream WITH
    accepted <- [k \in DOMAIN writes |-> writes[k].size],
    outcome <- [k \in DOMAIN writes |->
                  IF writes[k].state \in Finished THEN writes[k].state ELSE "pending"],
    received <- DeliveredCount

\* On a reliable network the protocol implements the abstract byte stream: it
\* delivers what was accepted, in order, and reports kDone only for what was
\* delivered.
ImplementsByteStream == Stream!Spec
=============================================================================
