-------------------------- MODULE LwipTcpTransport --------------------------
(***************************************************************************)
(* transport/low_level/tcp/lwip_tcp.cpp: a transport whose connection is   *)
(* made in the constructor of its ConnectionAction, and whose packets keep *)
(* the number of the socket they were made for.  lwIP (external) gives a   *)
(* new socket the lowest free number: the one just closed.                 *)
(***************************************************************************)
EXTENDS Naturals, Sequences, FiniteSets, FiniteSetsExt, SequencesExt

CONSTANTS
  LtSize,        \* bytes of a packet
  MaxLtPackets,  \* bounds
  MaxLtConnects,
  LtNow          \* a handler of the connection error calls Connect at once

VARIABLES
  lt_state,      \* connection_state
  lt_socket,     \* socket_, 0 for kInvalidSocket
  lt_action,     \* connection_action_: 0, kNotConnected, or the socket it made
  lt_open,       \* the connection behind each socket number, 0 for none
  lt_broken,     \* connections that the peer closed
  lt_connects,   \* connections made
  lt_packets,    \* every LwipTcpPacketSendAction: [state, offset, socket, made]
  lt_queue,      \* queue_
  lt_wire,       \* bytes sent: <<connection, packet, byte>>
  lt_told,       \* history: connections whose end was told by the error event
  lt_torn        \* history: connections with a packet stopped when partly sent

ltVars == <<lt_state, lt_socket, lt_action, lt_open, lt_broken, lt_connects, lt_packets, lt_queue,
            lt_wire, lt_told, lt_torn>>

LtSockets == 1 .. 2
kNotConnected == 9

LtInit ==
  /\ lt_state = "kUndefined" /\ lt_socket = 0 /\ lt_action = 0
  /\ lt_open = [s \in LtSockets |-> 0] /\ lt_broken = {} /\ lt_connects = 0
  /\ lt_packets = <<>> /\ lt_queue = <<>> /\ lt_wire = <<>> /\ lt_told = {} /\ lt_torn = {}

LtDone(p) == p.state \in {"kSuccess", "kFailed", "kStopped"}

(* LwipTcpPacketSendAction::Send when the socket takes `room` bytes. *)
LtPacketSend(p, room, open) ==
  LET n == Min({room, LtSize - p.offset})
  IN IF open[p.socket] = 0 \/ open[p.socket] \in lt_broken THEN [p EXCEPT !.state = "kFailed"]
     ELSE [p EXCEPT !.offset = @ + n, !.state = IF p.offset + n = LtSize THEN "kSuccess" ELSE "kProgress"]

\* Mutant: the queue does not stay with a packet that is partly sent.
RECURSIVE LtQueueSendOn(_, _, _)
LtQueueSendOn(st, room, open) ==
  IF st.queue = <<>> THEN st
  ELSE LET i == Head(st.queue)
           p == st.packets[i]
           sent == IF LtDone(p) THEN p ELSE LtPacketSend(p, room, open)
           n == sent.offset - p.offset
           next == [st EXCEPT !.packets[i] = sent,
                              !.wire = @ \o [j \in 1 .. n |-> <<open[p.socket], i, p.offset + j>>]]
       IN LtQueueSendOn([next EXCEPT !.queue = Tail(@)], room - n, open)

(* SocketPacketQueueManager::Send. *)
RECURSIVE LtQueueSend(_, _, _)
LtQueueSend(st, room, open) ==
  IF st.queue = <<>> THEN st
  ELSE LET i == Head(st.queue)
           p == st.packets[i]
           sent == IF LtDone(p) THEN p ELSE LtPacketSend(p, room, open)
           n == sent.offset - p.offset
           next == [st EXCEPT !.packets[i] = sent,
                              !.wire = @ \o [j \in 1 .. n |-> <<open[p.socket], i, p.offset + j>>]]
       IN IF sent.state = "kProgress" THEN next
          ELSE LtQueueSend([next EXCEPT !.queue = Tail(@)], room - n, open)

LtSendAll(packets, queue, open) ==
  \E room \in 0 .. 2 * LtSize :
    LET st == LtQueueSend([packets |-> packets, queue |-> queue, wire |-> lt_wire], room, open)
    IN lt_packets' = st.packets /\ lt_queue' = st.queue /\ lt_wire' = st.wire

(* The constructor of ConnectionAction: a socket that is connected, or an  *)
(* error.                                                                  *)
LowestFree(open) == Min({s \in LtSockets : open[s] = 0})

LtConnect ==
  /\ lt_state \in {"kUndefined", "kDisconnected"} /\ lt_action = 0
  /\ lt_socket = 0
  /\ lt_connects < MaxLtConnects
  /\ lt_connects' = lt_connects + 1
  /\ lt_state' = "kConnecting"
  /\ \/ lt_action' = kNotConnected /\ UNCHANGED lt_open
     \/ /\ lt_action' = LowestFree(lt_open)
        /\ lt_open' = [lt_open EXCEPT ![LowestFree(lt_open)] = lt_connects + 1]
  /\ UNCHANGED <<lt_socket, lt_broken, lt_packets, lt_queue, lt_wire, lt_told, lt_torn>>

LtOnConnected ==
  /\ lt_action \in LtSockets
  /\ lt_socket' = lt_action /\ lt_action' = 0 /\ lt_state' = "kConnected"
  /\ UNCHANGED <<lt_open, lt_broken, lt_connects, lt_packets, lt_queue, lt_wire, lt_told, lt_torn>>

LtOnConnectionFailed ==
  /\ lt_action = kNotConnected
  /\ lt_action' = 0 /\ lt_state' = "kDisconnected"
  /\ UNCHANGED <<lt_socket, lt_open, lt_broken, lt_connects, lt_packets, lt_queue, lt_wire,
                 lt_told, lt_torn>>

LtSend ==
  /\ lt_state = "kConnected" /\ lt_socket # 0 /\ Len(lt_packets) < MaxLtPackets
  /\ LET packet == [state |-> "kQueued", offset |-> 0, socket |-> lt_socket,
                    made |-> lt_open[lt_socket]]
         packets == Append(lt_packets, packet)
         queue == Append(lt_queue, Len(packets))
     IN IF lt_queue = <<>> THEN LtSendAll(packets, queue, lt_open)
        ELSE lt_packets' = packets /\ lt_queue' = queue /\ UNCHANGED lt_wire
  /\ UNCHANGED <<lt_state, lt_socket, lt_action, lt_open, lt_broken, lt_connects, lt_told, lt_torn>>

LtStop(i) ==
  /\ ~LtDone(lt_packets[i])
  /\ lt_packets' = [lt_packets EXCEPT ![i].state = "kStopped"]
  /\ lt_torn' = IF lt_packets[i].offset > 0 THEN lt_torn \cup {lt_packets[i].made} ELSE lt_torn
  /\ UNCHANGED <<lt_state, lt_socket, lt_action, lt_open, lt_broken, lt_connects, lt_queue,
                 lt_wire, lt_told>>

(* OnSocketUpdate: there is nothing to read, or data, and the queue is     *)
(* sent.                                                                   *)
LtOnSocketUpdate ==
  /\ lt_socket # 0 /\ lt_open[lt_socket] \notin lt_broken
  /\ LtSendAll(lt_packets, lt_queue, lt_open)
  /\ UNCHANGED <<lt_state, lt_socket, lt_action, lt_open, lt_broken, lt_connects, lt_told, lt_torn>>

\* Mutant: nothing follows ReadSocket when it disconnects.
LtOnClosedOnly ==
  /\ lt_socket # 0 /\ lt_open[lt_socket] \in lt_broken
  /\ lt_told' = lt_told \cup {lt_open[lt_socket]}
  /\ lt_socket' = 0 /\ lt_state' = "kDisconnected"
  /\ lt_open' = [lt_open EXCEPT ![lt_socket] = 0]
  /\ UNCHANGED <<lt_action, lt_broken, lt_connects, lt_packets, lt_queue, lt_wire, lt_torn>>

(* OnSocketUpdate when ReadSocket meets the end of the connection:         *)
(* Disconnect closes the socket and tells it, and the queue is sent        *)
(* nevertheless, to sockets that are closed; a handler that connects at    *)
(* once has opened one with the same number.                               *)
LtOnClosed ==
  /\ lt_socket # 0 /\ lt_open[lt_socket] \in lt_broken
  /\ lt_told' = lt_told \cup {lt_open[lt_socket]}
  /\ LET closed == [lt_open EXCEPT ![lt_socket] = 0]
         again == LtNow /\ lt_connects < MaxLtConnects
         open == IF again THEN [closed EXCEPT ![LowestFree(closed)] = lt_connects + 1] ELSE closed
     IN /\ lt_socket' = 0
        /\ lt_open' = open
        /\ lt_state' = IF again THEN "kConnecting" ELSE "kDisconnected"
        /\ lt_action' = IF again THEN LowestFree(closed) ELSE lt_action
        /\ lt_connects' = IF again THEN lt_connects + 1 ELSE lt_connects
        /\ LtSendAll(lt_packets, lt_queue, open)
  /\ UNCHANGED <<lt_broken, lt_torn>>

LtBreak ==
  /\ lt_socket # 0 /\ lt_open[lt_socket] \notin lt_broken
  /\ lt_broken' = lt_broken \cup {lt_open[lt_socket]}
  /\ UNCHANGED <<lt_state, lt_socket, lt_action, lt_open, lt_connects, lt_packets, lt_queue,
                 lt_wire, lt_told, lt_torn>>

LtNext ==
  \/ LtConnect \/ LtOnConnected \/ LtOnConnectionFailed \/ LtSend
  \/ \E i \in DOMAIN lt_packets : LtStop(i)
  \/ LtOnSocketUpdate \/ LtOnClosed \/ LtBreak

LtSpec == LtInit /\ [][LtNext]_ltVars

-----------------------------------------------------------------------------
(* Properties *)

LtTypeOK ==
  /\ lt_state \in {"kUndefined", "kConnecting", "kConnected", "kDisconnected"}
  /\ lt_socket \in {0} \cup LtSockets
  /\ \A i \in DOMAIN lt_packets : lt_packets[i].offset \in 0 .. LtSize

(* A connection carries whole packets one after the other, none twice and  *)
(* none mixed with another; the last one may be cut by the connection's    *)
(* end.  A packet stopped when partly sent breaks its connection.          *)
LtInOrder ==
  \A a \in DOMAIN lt_wire :
    a > 1 /\ lt_wire[a][1] = lt_wire[a - 1][1] /\ lt_wire[a][1] \notin lt_torn =>
    \/ lt_wire[a][2] = lt_wire[a - 1][2] /\ lt_wire[a][3] = lt_wire[a - 1][3] + 1
    \/ lt_wire[a][2] > lt_wire[a - 1][2] /\ lt_wire[a][3] = 1 /\ lt_wire[a - 1][3] = LtSize

(* No packet, nor a part of it, goes to a connection it was not made for,  *)
(* although the number of its socket is used again: what is queued for a   *)
(* connection that ended fails before the number has a new meaning.        *)
OwnConnection == \A a \in DOMAIN lt_wire : lt_wire[a][1] = lt_packets[lt_wire[a][2]].made
=============================================================================
