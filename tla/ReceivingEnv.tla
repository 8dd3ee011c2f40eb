---------------------------- MODULE ReceivingEnv ----------------------------
(***************************************************************************)
(* The receiving end against the most general peer: any slice of the       *)
(* stream may arrive at any time, in any order, any number of times, as a  *)
(* Send or as a Repeat.  The peer and the network are external; what they  *)
(* may not do is forge bytes.  The stream is shorter than the ring, so     *)
(* offsets do not wrap.                                                    *)
(***************************************************************************)
EXTENDS SafeStreamReceiving

CONSTANTS
    StreamLen,      \* bytes the peer ever writes
    SliceSize,      \* largest slice it sends
    ConfirmBound,   \* bound on confirmation_queue
    ResponseBound,  \* bound on response_out
    RequestBound    \* bound on the repeat counts

ASSUME StreamAssumption ==
    /\ StreamLen \in Nat /\ SliceSize \in Nat
    /\ StreamLen + WindowSize < RingMax
ASSUME BoundAssumption ==
    ConfirmBound \in Nat /\ ResponseBound \in Nat /\ RequestBound \in Nat

\* Slices of the stream the peer may send.
Slices == {s \in (0 .. StreamLen) \X (1 .. SliceSize) : s[1] + s[2] <= StreamLen}

ArriveSend == \E s \in Slices : ReceiveSend(Ring(s[1]), Bytes(s[1], s[2]))

ArriveRepeat ==
    /\ Len(confirmation_queue) < ConfirmBound
    /\ \E s \in Slices : ReceiveRepeat(Ring(s[1]), Bytes(s[1], s[2]))

UpdateReceiver ==
    /\ Len(response_out) < ResponseBound
    /\ \E confirm_due, repeat_due \in BOOLEAN :
         /\ repeat_due => \A o \in DOMAIN expected_chunks : expected_chunks[o] < RequestBound
         /\ ReceiverUpdate(confirm_due, repeat_due)

\* The response leaves for the peer.
TakeResponse ==
    /\ response_out # <<>>
    /\ response_out' = Tail(response_out)
    /\ UNCHANGED <<last_confirmed_offset, received_data_chunks, expected_chunks,
                   confirmation_queue, delivered>>

RvNext == ArriveSend \/ ArriveRepeat \/ UpdateReceiver \/ TakeResponse

RvSpec == ReceiverInit /\ [][RvNext]_receiverVars
-----------------------------------------------------------------------------
\* Positions held in received_data_chunks and positions delivered.
HeldBytes == UNION {Range(received_data_chunks[i].data) : i \in DOMAIN received_data_chunks}
DeliveredBytes == UNION {Range(delivered[i]) : i \in DOMAIN delivered}

\* A byte once held stays held until it is delivered: no overlap, duplicate
\* or Update drops it.
HeldUntilDelivered ==
    [][HeldBytes \subseteq HeldBytes' \cup DeliveredBytes']_receiverVars
=============================================================================
