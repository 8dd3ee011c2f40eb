-------------------------- MODULE WinTcpTransport --------------------------
(***************************************************************************)
(* transport/low_level/tcp/win_tcp.cpp: overlapped reads and writes whose  *)
(* completions a poller thread handles (OnRecv, OnSend), while the main    *)
(* thread starts them (RecvUpdate, MakeSend).  The mutex of SyncSocket and *)
(* the one of the poller are the locks of the two threads.  WSASend and    *)
(* WSARecv are external: an operation completes at once or later, and its  *)
(* completion is queued for the poller in either case.                     *)
(***************************************************************************)
EXTENDS Naturals, Sequences, FiniteSets, SequencesExt

CONSTANTS
  WtSize,        \* bytes of a packet
  MaxWtPackets,  \* bounds
  MaxWtReads,
  WtStops,       \* packets may be stopped
  WtReplies      \* a handler of received data sends

VARIABLES
  wt_state,      \* connection_state
  wt_socket,     \* the socket of sync_socket_ is valid
  wt_peer,       \* "open" or "broken"
  wt_sl, wt_el,  \* who holds socket_lock_ and events_lock_: "free", "main" or "poller"
  wt_main,       \* what the main thread is in the middle of
  wt_poller,     \* what the poller thread is in the middle of: "wait", "READ", "WRITE", or "lost"
  wt_packets,    \* every WinTcpPacketSendAction: [state, offset, pending]
  wt_queue,      \* queue_; its first packet is current_ while it is kProgress
  wt_write,      \* write_overlapped_: [packet, n, done, ok]
  wt_completed,  \* completions queued for the poller, READ and WRITE ones
  wt_notified,   \* the socket event actions with notify_success_
  wt_read,       \* the read in progress: "none", "pending" or "done"
  wt_reads,      \* reads started, bounded
  wt_twice,      \* history: a read was started while one was in progress
  wt_wire,       \* bytes the operations passed on: <<packet, byte>>
  wt_torn        \* history: a packet was stopped with a write in progress

wtVars == <<wt_state, wt_socket, wt_peer, wt_sl, wt_el, wt_main, wt_poller, wt_packets, wt_queue,
            wt_write, wt_completed, wt_notified, wt_read, wt_reads, wt_twice, wt_wire, wt_torn>>
wtSend == <<wt_packets, wt_queue, wt_write, wt_wire, wt_torn>>
wtRecv == <<wt_read, wt_reads, wt_twice>>

NoWrite == [packet |-> 0, n |-> 0, done |-> TRUE, ok |-> TRUE]

WtInit ==
  /\ wt_state = "kUndefined" /\ wt_socket = FALSE /\ wt_peer = "open"
  /\ wt_sl = "free" /\ wt_el = "free" /\ wt_main = "idle" /\ wt_poller = "wait"
  /\ wt_packets = <<>> /\ wt_queue = <<>> /\ wt_write = NoWrite
  /\ wt_completed = <<>> /\ wt_notified = {}
  /\ wt_read = "none" /\ wt_reads = 0 /\ wt_twice = FALSE
  /\ wt_wire = <<>> /\ wt_torn = FALSE

-----------------------------------------------------------------------------
(* The main thread: the connection *)

(* Connect: the constructor of ConnectionAction waits for the call it      *)
(* starts; its Update tells how it ended.                                  *)
WtConnect ==
  /\ wt_main = "idle" /\ wt_state = "kUndefined"
  /\ wt_state' = "kConnecting"
  /\ UNCHANGED <<wt_socket, wt_peer, wt_sl, wt_el, wt_main, wt_poller, wt_completed, wt_notified>>
  /\ UNCHANGED wtSend /\ UNCHANGED wtRecv

(* OnConnect: the poller's lock is taken for Add; the first read is asked  *)
(* for.                                                                    *)
WtOnConnect ==
  /\ wt_main = "idle" /\ wt_state = "kConnecting" /\ wt_el = "free"
  /\ wt_state' = "kConnected" /\ wt_socket' = TRUE
  /\ wt_notified' = {"READ"}
  /\ UNCHANGED <<wt_peer, wt_sl, wt_el, wt_main, wt_poller, wt_completed>>
  /\ UNCHANGED wtSend /\ UNCHANGED wtRecv

WtOnConnectionError ==
  /\ wt_main = "idle" /\ wt_state = "kConnecting"
  /\ wt_state' = "kDisconnected"
  /\ UNCHANGED <<wt_socket, wt_peer, wt_sl, wt_el, wt_main, wt_poller, wt_completed, wt_notified>>
  /\ UNCHANGED wtSend /\ UNCHANGED wtRecv

(* Disconnect, called by the destructor: it keeps the socket's lock and    *)
(* takes the poller's for each Remove.                                     *)
WtDisconnect ==
  /\ wt_main = "idle" /\ wt_socket /\ wt_sl = "free"
  /\ wt_main' = "remove" /\ wt_sl' = "main"
  /\ UNCHANGED <<wt_state, wt_socket, wt_peer, wt_el, wt_poller, wt_completed, wt_notified>>
  /\ UNCHANGED wtSend /\ UNCHANGED wtRecv

WtRemoveRead ==
  /\ wt_main = "remove" /\ wt_el = "free"
  /\ wt_main' = "close"
  /\ UNCHANGED <<wt_state, wt_socket, wt_peer, wt_sl, wt_el, wt_poller, wt_completed, wt_notified>>
  /\ UNCHANGED wtSend /\ UNCHANGED wtRecv

(* Remove of WRITE and what follows; completions that come later have no   *)
(* callback.                                                               *)
WtClose ==
  /\ wt_main = "close" /\ wt_el = "free"
  /\ wt_main' = "idle" /\ wt_sl' = "free"
  /\ wt_socket' = FALSE /\ wt_state' = "kDisconnected"
  /\ wt_notified' = {} /\ wt_completed' = <<>>
  /\ UNCHANGED <<wt_peer, wt_el, wt_poller>>
  /\ UNCHANGED wtSend /\ UNCHANGED wtRecv

-----------------------------------------------------------------------------
(* The main thread: sending *)

WtDone(p) == p.state \in {"kSuccess", "kFailed", "kStopped"}

(* The outcomes of MakeSend for packet i of packets: WSASend takes some    *)
(* bytes at once, is pending, or fails on a broken connection.             *)
MakeSend(packets, i) ==
  LET p == packets[i]
      left == WtSize - p.offset
      bytes(n) == [j \in 1 .. n |-> <<i, p.offset + j>>]
      now(n) == [packet |-> [p EXCEPT !.offset = @ + n,
                                      !.state = IF n = left THEN "kSuccess" ELSE "kProgress"],
                 write |-> [packet |-> i, n |-> n, done |-> TRUE, ok |-> TRUE],
                 wire |-> bytes(n), posts |-> <<"WRITE">>]
      later(n) == [packet |-> [p EXCEPT !.state = "kProgress", !.pending = TRUE],
                   write |-> [packet |-> i, n |-> n, done |-> FALSE, ok |-> TRUE],
                   wire |-> bytes(n), posts |-> <<>>]
      same == [packet |-> p, write |-> wt_write, wire |-> <<>>, posts |-> <<>>]
  IN IF p.pending THEN {same}
     ELSE IF wt_peer = "broken"
     THEN {[same EXCEPT !.packet.state = "kFailed"]}
     ELSE {now(n) : n \in 1 .. left} \cup {later(n) : n \in 1 .. left}

(* WinTcpPacketSendAction::Send. *)
PacketSend(packets, i) ==
  IF packets[i].state = "kProgress" /\ packets[i].offset = WtSize
  THEN {[packet |-> [packets[i] EXCEPT !.state = "kSuccess"], write |-> wt_write, wire |-> <<>>,
         posts |-> <<>>]}
  ELSE MakeSend([packets EXCEPT ![i].state = "kProgress"], i)

(* One round of SocketPacketQueueManager::Send for the first packet of the *)
(* queue.  The rounds of a call follow one another: main stays in "send"   *)
(* until a packet is kProgress or the queue is empty.                      *)
WtSendRound ==
  /\ wt_main = "send" /\ wt_queue # <<>>
  /\ wt_sl = "free"
  /\ LET i == Head(wt_queue)
     IN IF WtDone(wt_packets[i])
        THEN /\ wt_queue' = Tail(wt_queue)
             /\ UNCHANGED <<wt_main, wt_packets, wt_write, wt_wire, wt_completed>>
        ELSE \E out \in PacketSend(wt_packets, i) :
               /\ wt_packets' = [wt_packets EXCEPT ![i] = out.packet]
               /\ wt_write' = out.write /\ wt_wire' = wt_wire \o out.wire
               /\ wt_completed' = wt_completed \o out.posts
               /\ IF out.packet.state = "kProgress"
                  THEN wt_main' = "idle" /\ UNCHANGED wt_queue
                  ELSE wt_queue' = Tail(wt_queue) /\ UNCHANGED wt_main
  /\ UNCHANGED <<wt_state, wt_socket, wt_peer, wt_sl, wt_el, wt_poller, wt_notified, wt_torn>>
  /\ UNCHANGED wtRecv

WtSendEnd ==
  /\ wt_main = "send" /\ wt_queue = <<>>
  /\ wt_main' = "idle"
  /\ UNCHANGED <<wt_state, wt_socket, wt_peer, wt_sl, wt_el, wt_poller, wt_completed, wt_notified>>
  /\ UNCHANGED wtSend /\ UNCHANGED wtRecv

(* Send: AddPacket sends unless a packet is under way. *)
WtSend ==
  /\ wt_main = "idle" /\ wt_state = "kConnected" /\ Len(wt_packets) < MaxWtPackets
  /\ wt_packets' = Append(wt_packets, [state |-> "kQueued", offset |-> 0, pending |-> FALSE])
  /\ wt_queue' = Append(wt_queue, Len(wt_packets) + 1)
  /\ wt_main' = IF wt_queue = <<>> THEN "send" ELSE "idle"
  /\ UNCHANGED <<wt_state, wt_socket, wt_peer, wt_sl, wt_el, wt_poller, wt_write, wt_completed,
                 wt_notified, wt_wire, wt_torn>>
  /\ UNCHANGED wtRecv

WtStop(i) ==
  /\ WtStops /\ wt_main = "idle" /\ ~WtDone(wt_packets[i])
  /\ wt_packets' = [wt_packets EXCEPT ![i].state = "kStopped"]
  /\ wt_torn' = (wt_torn \/ wt_packets[i].pending \/ wt_packets[i].offset > 0)
  /\ UNCHANGED <<wt_state, wt_socket, wt_peer, wt_sl, wt_el, wt_main, wt_poller, wt_queue,
                 wt_write, wt_completed, wt_notified, wt_wire>>
  /\ UNCHANGED wtRecv

(* OnSocketSendEvent *)
WtOnSocketSendEvent ==
  /\ wt_main = "idle" /\ "WRITE" \in wt_notified
  /\ wt_notified' = wt_notified \ {"WRITE"}
  /\ wt_main' = "send"
  /\ UNCHANGED <<wt_state, wt_socket, wt_peer, wt_sl, wt_el, wt_poller, wt_completed>>
  /\ UNCHANGED wtSend /\ UNCHANGED wtRecv

-----------------------------------------------------------------------------
(* The main thread: receiving *)

(* RecvUpdate of OnSocketRecvEvent.  When WSARecv fails, Disconnect asks   *)
(* for the lock that RecvUpdate holds: "stuck".                            *)
RecvUpdate ==
  /\ wt_main = "idle" /\ "READ" \in wt_notified /\ wt_sl = "free" /\ wt_reads < MaxWtReads
  /\ wt_notified' = wt_notified \ {"READ"}
  /\ IF wt_peer = "broken"
     THEN /\ wt_main' = "stuck" /\ wt_sl' = "main"
          /\ UNCHANGED <<wt_completed>> /\ UNCHANGED wtRecv
     ELSE /\ wt_main' = "handle"
          /\ wt_twice' = (wt_twice \/ wt_read # "none")
          /\ wt_reads' = wt_reads + 1
          /\ \/ wt_read' = "pending" /\ UNCHANGED wt_completed
             \/ wt_read' = "done" /\ wt_completed' = Append(wt_completed, "READ")
          /\ UNCHANGED wt_sl
  /\ UNCHANGED <<wt_state, wt_socket, wt_peer, wt_el, wt_poller>>
  /\ UNCHANGED wtSend

(* HandleReceivedData holds the socket's lock while the handlers of the    *)
(* data run; one that sends asks for it again.                             *)
HandleReceivedData ==
  /\ wt_main = "handle" /\ wt_sl = "free"
  /\ \/ wt_main' = "idle" /\ UNCHANGED wt_sl
     \/ /\ WtReplies /\ wt_queue = <<>>
        /\ wt_main' = "stuck" /\ wt_sl' = "main"
  /\ UNCHANGED <<wt_state, wt_socket, wt_peer, wt_el, wt_poller, wt_completed, wt_notified>>
  /\ UNCHANGED wtSend /\ UNCHANGED wtRecv

-----------------------------------------------------------------------------
(* The poller thread *)

(* Between the two calls of Remove a READ completion has no callback:      *)
(* Loop uses the end of its list.                                          *)
WtLoopLost ==
  /\ wt_poller = "wait" /\ wt_el = "free" /\ wt_completed # <<>>
  /\ wt_main = "close" /\ Head(wt_completed) = "READ"
  /\ wt_poller' = "lost" /\ wt_completed' = Tail(wt_completed)
  /\ UNCHANGED <<wt_state, wt_socket, wt_peer, wt_sl, wt_el, wt_main, wt_notified>>
  /\ UNCHANGED wtSend /\ UNCHANGED wtRecv

(* Loop takes a completion and the lock of the callbacks. *)
WtLoop ==
  /\ wt_poller = "wait" /\ wt_el = "free" /\ wt_completed # <<>>
  /\ ~(wt_main = "close" /\ Head(wt_completed) = "READ")
  /\ wt_poller' = Head(wt_completed) /\ wt_completed' = Tail(wt_completed)
  /\ wt_el' = "poller"
  /\ UNCHANGED <<wt_state, wt_socket, wt_peer, wt_sl, wt_main, wt_notified>>
  /\ UNCHANGED wtSend /\ UNCHANGED wtRecv

\* Mutant: the result is taken whether or not it was pending.
OnSendAgain(packets) ==
  LET going == {i \in DOMAIN packets : packets[i].state = "kProgress"}
  IN IF going = {} \/ ~wt_write.done \/ ~wt_write.ok THEN packets
     ELSE LET i == CHOOSE j \in going : TRUE
          IN [packets EXCEPT ![i].pending = FALSE, ![i].offset = @ + wt_write.n]

(* OnSend of the packet that listens: a result that MakeSend had is not    *)
(* taken again, one that is not there yet is left, and so is a failed one: *)
(* send_pending_ stays set.                                                *)
OnSend(packets) ==
  LET going == {i \in DOMAIN packets : packets[i].state = "kProgress"}
  IN IF going = {} \/ ~wt_write.done \/ ~wt_write.ok THEN packets
     ELSE LET i == CHOOSE j \in going : TRUE
          IN IF ~packets[i].pending THEN packets
             ELSE [packets EXCEPT ![i].pending = FALSE, ![i].offset = @ + wt_write.n]

(* The callback of WRITE: OnSend under the socket's lock, and Notify. *)
WtOnSend ==
  /\ wt_poller = "WRITE" /\ wt_sl = "free"
  /\ wt_packets' = OnSend(wt_packets)
  /\ wt_poller' = "wait" /\ wt_el' = "free"
  /\ wt_notified' = wt_notified \cup {"WRITE"}
  /\ UNCHANGED <<wt_state, wt_socket, wt_peer, wt_sl, wt_main, wt_queue, wt_write, wt_completed,
                 wt_wire, wt_torn>>
  /\ UNCHANGED wtRecv

(* The callback of READ: OnRecv under the socket's lock; an error is told  *)
(* to nobody (its action is asked for a result and heard for an error);    *)
(* then Notify, whatever OnRecv met.                                       *)
WtOnRecv ==
  /\ wt_poller = "READ" /\ wt_sl = "free"
  /\ wt_read' = "none"
  /\ wt_poller' = "wait" /\ wt_el' = "free"
  /\ wt_notified' = wt_notified \cup {"READ"}
  /\ UNCHANGED <<wt_state, wt_socket, wt_peer, wt_sl, wt_main, wt_completed, wt_reads, wt_twice>>
  /\ UNCHANGED wtSend

(* External: an operation in progress completes, on a broken connection    *)
(* perhaps with an error; the connection breaks.                           *)
CompleteWrite ==
  /\ wt_socket /\ ~wt_write.done
  /\ \E ok \in BOOLEAN : /\ ok \/ wt_peer = "broken"
                         /\ wt_write' = [wt_write EXCEPT !.done = TRUE, !.ok = ok]
  /\ wt_completed' = Append(wt_completed, "WRITE")
  /\ UNCHANGED <<wt_state, wt_socket, wt_peer, wt_sl, wt_el, wt_main, wt_poller, wt_packets,
                 wt_queue, wt_notified, wt_wire, wt_torn>>
  /\ UNCHANGED wtRecv

CompleteRead ==
  /\ wt_socket /\ wt_read = "pending"
  /\ wt_read' = "done" /\ wt_completed' = Append(wt_completed, "READ")
  /\ UNCHANGED <<wt_state, wt_socket, wt_peer, wt_sl, wt_el, wt_main, wt_poller, wt_notified,
                 wt_reads, wt_twice>>
  /\ UNCHANGED wtSend

WtBreak ==
  /\ wt_socket /\ wt_peer = "open"
  /\ wt_peer' = "broken"
  /\ UNCHANGED <<wt_state, wt_socket, wt_sl, wt_el, wt_main, wt_poller, wt_completed, wt_notified>>
  /\ UNCHANGED wtSend /\ UNCHANGED wtRecv

WtMainProgress == WtSendRound \/ WtSendEnd \/ WtOnSocketSendEvent \/ RecvUpdate
                  \/ HandleReceivedData \/ WtRemoveRead \/ WtClose
WtPollerProgress == WtLoop \/ WtLoopLost \/ WtOnSend \/ WtOnRecv

WtNext ==
  \/ WtConnect \/ WtOnConnect \/ WtOnConnectionError \/ WtDisconnect \/ WtSend
  \/ \E i \in DOMAIN wt_packets : WtStop(i)
  \/ WtMainProgress \/ WtPollerProgress
  \/ CompleteWrite \/ CompleteRead \/ WtBreak

(* The threads run, and an operation under way completes. *)
WtProgress == WtMainProgress \/ WtPollerProgress \/ CompleteWrite

WtSpec == WtInit /\ [][WtNext]_wtVars /\ WF_wtVars(WtProgress)

-----------------------------------------------------------------------------
(* Properties *)

WtTypeOK ==
  /\ wt_state \in {"kUndefined", "kConnecting", "kConnected", "kDisconnected"}
  /\ wt_peer \in {"open", "broken"}
  /\ wt_sl \in {"free", "main", "poller"} /\ wt_el \in {"free", "main", "poller"}
  /\ wt_main \in {"idle", "send", "handle", "remove", "close", "stuck"}
  /\ \A i \in DOMAIN wt_packets : wt_packets[i].offset \in 0 .. WtSize
  /\ wt_read \in {"none", "pending", "done"} /\ wt_notified \subseteq {"READ", "WRITE"}

(* Although the main thread and the poller thread account for the same     *)
(* operations, which complete at once or later, the bytes of each packet   *)
(* are passed to the socket once and in order, packet after packet, unless *)
(* one was stopped when a part of it was on its way.                       *)
SentOnce ==
  wt_torn \/
    /\ \A a, b \in DOMAIN wt_wire : a < b =>
         \/ wt_wire[a][1] < wt_wire[b][1]
         \/ wt_wire[a][1] = wt_wire[b][1] /\ wt_wire[a][2] < wt_wire[b][2]
    /\ \A i \in DOMAIN wt_packets : wt_packets[i].state = "kSuccess" =>
         Cardinality({a \in DOMAIN wt_wire : wt_wire[a][1] = i}) = WtSize

(* No read is started into the buffer of a read in progress. *)
OneRead == ~wt_twice

(* The main thread waits for the poller thread, which waits for it. *)
Embrace == wt_main \in {"remove", "close"} /\ wt_el = "poller" /\ wt_poller \in {"READ", "WRITE"}

(* A write ended with an error: its packet stays pending, is never sent    *)
(* again, and keeps those behind it in the queue.                          *)
Unreported == wt_write.done /\ ~wt_write.ok

(* Every packet comes to an end.  The cases in which one does not are the  *)
(* ones listed: the transport is closed; a packet was stopped with its     *)
(* write under way; the main thread asked for a lock it holds; both        *)
(* threads wait for each other in Disconnect; a write completed with an    *)
(* error.  While the connection lasts the last one is not among them.      *)
SendsEnd ==
  <>[](\/ wt_state # "kConnected" \/ wt_torn
       \/ wt_main = "stuck" \/ Embrace
       \/ wt_peer = "broken" /\ Unreported
       \/ \A i \in DOMAIN wt_packets : WtDone(wt_packets[i]))

=============================================================================
