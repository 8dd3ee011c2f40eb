-------------------------- MODULE UnixTcpTransport --------------------------
(***************************************************************************)
(* transport/low_level/tcp/unix_tcp.cpp with its SocketPacketQueueManager: *)
(* the transport of one peer, which sends, and the receiving half of the   *)
(* transport of the other, joined by a TCP connection (external): a FIFO   *)
(* of bytes of limited size that may break.  send() takes some of the      *)
(* bytes when there is room, none when there is not (EAGAIN), and fails on *)
(* a broken connection.  The poller is edge triggered: edge says that the  *)
(* next change of the socket will be reported.                             *)
(***************************************************************************)
EXTENDS PackedInt

CONSTANTS
    PacketSizes,     \* sizes of the data given to Send
    Fills,           \* the byte a packet is filled with
    MaxPackets,      \* bound on the packets given to Send
    WireSize,        \* bytes the connection holds
    Breaks           \* the connection may break

ASSUME TcpAssumption ==
    /\ PacketSizes \subseteq Nat /\ Fills \subseteq Byte
    /\ MaxPackets \in Nat /\ WireSize \in Nat \ {0}
    /\ Breaks \in BOOLEAN

VARIABLES
    connection_state,   \* connection_info_.connection_state
    connection_action,  \* "none" or the state_ of connection_action_
    socket,             \* "kInvalidSocket" or "open"
    notified,           \* notify_success_ of socket_event_action_
    actions,            \* every UnixPacketSendAction: [data, state, sent_offset, finished]
    queue,              \* queue_: indices into actions
    current,            \* current_ # nullptr
    wire, broken, edge, \* the connection and the poller
    collector,          \* data_packet_collector_ of the receiving peer
    received            \* the data of its data_receive_event_

senderVars == <<connection_state, connection_action, socket, notified, actions, queue, current>>
vars == <<senderVars, wire, broken, edge, collector, received>>

Init ==
    /\ connection_state = "kUndefined" /\ connection_action = "none"
    /\ socket = "kInvalidSocket" /\ notified = FALSE
    /\ actions = <<>> /\ queue = <<>> /\ current = FALSE
    /\ wire = <<>> /\ broken = FALSE /\ edge = FALSE
    /\ collector = EmptyCollector /\ received = <<>>
-----------------------------------------------------------------------------
(* The connection *)

\* Connect, called by IpAddressChannelConnectionAction unless the transport is
\* connected or connecting: ConnectionAction connects when it is constructed.
Connect ==
    /\ connection_state \in {"kUndefined", "kDisconnected"}
    /\ connection_state' = "kConnecting"
    /\ connection_action' \in {"kConnected"} \cup (IF Breaks THEN {"kNotConnected"} ELSE {})
    /\ UNCHANGED <<socket, notified, actions, queue, current, wire, broken, edge, collector,
                   received>>

\* ConnectionAction::Update and OnConnected: the poller reports the state of a
\* new socket.
OnConnected ==
    /\ connection_action = "kConnected"
    /\ connection_action' = "none"
    /\ connection_state' = "kConnected" /\ socket' = "open" /\ edge' = TRUE
    /\ UNCHANGED <<notified, actions, queue, current, wire, broken, collector, received>>

OnConnectionFailed ==
    /\ connection_action = "kNotConnected"
    /\ connection_action' = "none"
    /\ connection_state' = "kDisconnected"
    /\ UNCHANGED <<socket, notified, actions, queue, current, wire, broken, edge, collector,
                   received>>
-----------------------------------------------------------------------------
(* Sending *)

PacketStates == {"kQueued", "kProgress", "kSuccess", "kStopped", "kFailed"}
Unsent(action) == Len(Frame(action.data)) - action.sent_offset

\* UnixPacketSendAction::Send when the socket has room for that many bytes.
SendPacket(action, room) ==
    LET size == SmallerOf(Unsent(action), room)
    IN  IF broken THEN [action EXCEPT !.state = "kFailed"]
        ELSE [action EXCEPT !.sent_offset = @ + size,
                            !.state = IF size = Unsent(action) THEN "kSuccess" ELSE "kProgress"]

\* The bytes Send passes to the socket.
SentBytes(action, room) ==
    SubSeq(Frame(action.data), action.sent_offset + 1,
           action.sent_offset + IF broken THEN 0 ELSE SmallerOf(Unsent(action), room))

\* The queue manager stays with the packet until the next socket event.
Stays(action) == action.state = "kProgress"

\* The queue and the connection while it is sent; room is what send() takes.
QueueStates ==
    [actions : Seq([data : Seq(Byte), state : PacketStates, sent_offset : Nat,
                    finished : BOOLEAN]),
     queue : Seq(Nat), current : BOOLEAN, wire : Seq(Byte), room : Nat]

\* SocketPacketQueueManager::Send.
SendQueue[st \in QueueStates] ==
    LET k == Head(st.queue)
        action == st.actions[k]
        pending == action.state \in {"kQueued", "kProgress"}
        sent == IF pending THEN SendPacket(action, st.room) ELSE action
        bytes == IF pending THEN SentBytes(action, st.room) ELSE <<>>
        after == [st EXCEPT !.actions[k] = sent, !.wire = @ \o bytes, !.room = @ - Len(bytes)]
    IN  IF st.queue = <<>> THEN [st EXCEPT !.current = FALSE]
        ELSE IF Stays(sent) THEN [after EXCEPT !.current = TRUE]
        ELSE SendQueue[[after EXCEPT !.queue = Tail(@)]]

\* The packets acts and their queue after Send; a packet that did not fit makes
\* the next room in the connection an edge.
RunQueue(acts, indices) ==
    \E room \in IF Len(wire) = WireSize THEN {0} ELSE 1 .. WireSize - Len(wire) :
      \E st \in {SendQueue[[actions |-> acts, queue |-> indices, current |-> current,
                            wire |-> wire, room |-> room]]} :
        /\ actions' = st.actions /\ queue' = st.queue /\ current' = st.current
        /\ wire' = st.wire
        /\ edge' = (edge \/ st.current)

\* Send: the packet joins the queue, which is sent unless a packet is under way.
\* The users of a transport send once it is connected.
Send ==
    /\ connection_state = "kConnected" /\ Len(actions) < MaxPackets
    /\ \E size \in PacketSizes, fill \in Fills :
         LET action == [data |-> [j \in 1 .. size |-> fill], state |-> "kQueued",
                        sent_offset |-> 0, finished |-> FALSE]
             acts == Append(actions, action)
             indices == Append(queue, Len(acts))
         IN  IF current
             THEN /\ actions' = acts /\ queue' = indices
                  /\ UNCHANGED <<current, wire, edge>>
             ELSE RunQueue(acts, indices)
    /\ UNCHANGED <<connection_state, connection_action, socket, notified, broken, collector,
                   received>>

\* SocketPacketSendAction::Stop, until the action has reported its state.
Stop ==
    /\ \E k \in DOMAIN actions :
         /\ ~actions[k].finished
         /\ actions' = [actions EXCEPT ![k].state = "kStopped"]
    /\ UNCHANGED <<connection_state, connection_action, socket, notified, queue, current, wire,
                   broken, edge, collector, received>>

\* SocketPacketSendAction::Update reports the outcome and finishes the action.
UpdatePacket ==
    /\ \E k \in DOMAIN actions :
         /\ ~actions[k].finished /\ actions[k].state \in {"kSuccess", "kFailed", "kStopped"}
         /\ actions' = [actions EXCEPT ![k].finished = TRUE]
    /\ UNCHANGED <<connection_state, connection_action, socket, notified, queue, current, wire,
                   broken, edge, collector, received>>

\* The poller thread: there is room in the connection, or it broke.
Notify ==
    /\ edge /\ socket = "open"
    /\ Len(wire) < WireSize \/ broken
    /\ edge' = FALSE /\ notified' = TRUE
    /\ UNCHANGED <<connection_state, connection_action, socket, actions, queue, current, wire,
                   broken, collector, received>>

\* OnSocketEvent of the sending peer: it has nothing to read, or reading fails
\* and Disconnect closes the socket; then WriteSocket sends the queue.
OnSocketEvent ==
    /\ notified
    /\ notified' = FALSE
    /\ UNCHANGED <<connection_action, broken, collector, received>>
    /\ IF socket = "open"
       THEN /\ \/ UNCHANGED <<connection_state, socket>>
               \/ broken /\ connection_state' = "kConnected" /\ socket' = "kInvalidSocket"
            /\ IF queue = <<>> THEN UNCHANGED <<actions, queue, current, wire, edge>>
               ELSE RunQueue(actions, queue)
       ELSE UNCHANGED <<connection_state, socket, actions, queue, current, wire, edge>>
-----------------------------------------------------------------------------
(* The receiving peer and the connection *)

\* ReadSocket of the receiving peer, in one or two rounds of its loop, and
\* OnDataReceived.
ReadSocket ==
    /\ wire # <<>>
    /\ UNCHANGED <<senderVars, broken, edge>>
    /\ \E n \in 1 .. Len(wire) :
         /\ wire' = SubSeq(wire, n + 1, Len(wire))
         /\ \E cut \in 0 .. n - 1 :
              \E filled \in {AddData[AddData[collector, SubSeq(wire, 1, cut)],
                                     SubSeq(wire, cut + 1, n)]} :
                LET popped == Complete(filled.packets)
                IN  /\ collector' = [filled EXCEPT !.packets = SubSeq(@, popped + 1, Len(@))]
                    /\ received' = received \o [i \in 1 .. popped |-> filled.packets[i].data]

\* The connection breaks; the last bytes under way may be lost.
Break ==
    /\ Breaks /\ socket = "open" /\ ~broken
    /\ \E n \in 0 .. Len(wire) : wire' = SubSeq(wire, 1, n)
    /\ broken' = TRUE /\ edge' = TRUE
    /\ UNCHANGED <<senderVars, collector, received>>

Next ==
    \/ Connect \/ OnConnected \/ OnConnectionFailed
    \/ Send \/ Stop \/ UpdatePacket \/ Notify \/ OnSocketEvent \/ ReadSocket \/ Break

Spec == Init /\ [][Next]_vars

\* The poller thread, the action processor and the other peer keep running: weak
\* fairness of Progress, with Due for the states in which it is enabled.
Progress == UpdatePacket \/ Notify \/ OnSocketEvent \/ ReadSocket
Due ==
    \/ notified \/ wire # <<>>
    \/ edge /\ socket = "open" /\ (Len(wire) < WireSize \/ broken)
    \/ \E k \in DOMAIN actions :
          ~actions[k].finished /\ actions[k].state \in {"kSuccess", "kFailed", "kStopped"}

FairSpec == Spec /\ ([]<>~Due \/ []<><<Progress>>_vars)
-----------------------------------------------------------------------------
TypeOK ==
    /\ connection_state \in {"kUndefined", "kConnecting", "kConnected", "kDisconnected"}
    /\ connection_action \in {"none", "kConnected", "kNotConnected"}
    /\ socket \in {"open", "kInvalidSocket"}
    /\ {notified, current, broken, edge} \subseteq BOOLEAN
    /\ \A k \in DOMAIN actions :
         /\ actions[k].data \in Seq(Fills) /\ actions[k].finished \in BOOLEAN
         /\ actions[k].state \in PacketStates
         /\ actions[k].sent_offset \in 0 .. Len(Frame(actions[k].data))
    /\ queue \in Seq(DOMAIN actions)
    /\ wire \in Seq(Byte) /\ Len(wire) <= WireSize
    /\ collector.temp \in Seq(Byte)

\* The data of the packets of which something was sent, empty ones aside.
Started ==
    LET started == SelectSeq(actions, LAMBDA a : a.sent_offset > 0 /\ a.data # <<>>)
    IN  [i \in DOMAIN started |-> started[i].data]

\* A packet was stopped when a part of it was sent: the rest never follows, and
\* the receiver takes other bytes for it.
Torn ==
    \E k \in DOMAIN actions :
        actions[k].state = "kStopped" /\ actions[k].sent_offset > 0 /\ Unsent(actions[k]) > 0

\* However the connection cuts the bytes, the receiver gets the packets that
\* were sent, whole and in their order (AddData, GetPacketSize, PopPacket),
\* unless a packet was torn.
ReceivedInOrder == ~Torn => IsPrefix(received, Started)

\* The bytes of two packets never mix: a packet that is partly sent is the one
\* the queue manager goes on with, until it is stopped or the connection breaks.
PartlySentIsCurrent ==
    \A k \in DOMAIN actions :
        /\ actions[k].sent_offset > 0 /\ Unsent(actions[k]) > 0
        /\ actions[k].state # "kStopped" /\ ~broken
        => current /\ k = Head(queue)

\* Unless the connection breaks, every packet that is not stopped arrives: the
\* edge triggered poller always brings the queue manager back to what is left.
EverythingReceived ==
    <>[](\/ broken \/ Torn
         \/ received = Started /\ \A k \in DOMAIN actions : actions[k].state # "kQueued")
=============================================================================
