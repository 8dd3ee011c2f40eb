----------------------------- MODULE P2pStream -----------------------------
(***************************************************************************)
(* The sending half of a P2pStream: a BufferGate on top of the stream to   *)
(* the other client, which is there once that client's cloud was looked    *)
(* up and which moves to another connection when its cloud connection      *)
(* reconnects (CloudConnections!Connect).                                  *)
(*                                                                         *)
(* Everything below the BufferGate answers one thing, whether the          *)
(* connection is up: the gates in between pass stream_info and the update  *)
(* event through, and TransportWriteGate sets is_linked and is_writeble    *)
(* together.  A write of the stream is an action of the TransportWriteGate *)
(* of a connection and goes with it, without a report.                     *)
(***************************************************************************)
EXTENDS Naturals, Sequences, FiniteSets, SequencesExt

CONSTANTS
  PsMaxWrites,     \* bound: calls of Write
  PsBufferMax,     \* buffer_max_
  PsMaxReconnects  \* bound: times the stream moves to another connection

VARIABLES
  ps_path,     \* the stream below: none, down, up
  ps_last,     \* last_out_stream_info_: linked and writable
  ps_soft,     \* stream_info_.is_soft_writable
  ps_buffer,   \* write_in_buffer_, as numbers of writes
  ps_writes,   \* the writes so far
  ps_passed,   \* history: writes in the order they went to the stream below
  ps_moves     \* history: times the stream below moved

psVars == <<ps_path, ps_last, ps_soft, ps_buffer, ps_writes, ps_passed, ps_moves>>

(* A write: how the gate took it; whether it was sent; its write action    *)
(* below; whether it was stopped before that; and how it ended.            *)
PsWrites == [kind : {"direct", "buffered", "declined"}, sent : BOOLEAN,
             below : {"none", "live", "stopping", "lost", "over"}, stop : BOOLEAN,
             end : {"none", "result", "error", "stop"}]
NewWrite(kind) == [kind |-> kind, sent |-> FALSE, below |-> "none", stop |-> FALSE,
                   end |-> "none"]

(* FailedStreamWriteAction: a write of its own that reports an error. *)
FailedWrite == NewWrite("declined")

(* What stream_info says at the top of the gates: they pass on what the    *)
(* gate of the transport says, which is nothing until it has connected.    *)
StreamInfo(path) == path = "up"

(* The variables have their types, and the buffer is within its limit. *)
PsTypeOK ==
  /\ ps_path \in {"none", "down", "up"}
  /\ ps_last \in BOOLEAN /\ ps_soft \in BOOLEAN
  /\ ps_writes \in Seq(PsWrites) /\ Len(ps_writes) <= PsMaxWrites
  /\ ps_buffer \in Seq(1..Len(ps_writes)) /\ Len(ps_buffer) <= PsBufferMax
  /\ ps_passed \in Seq(1..Len(ps_writes))
  /\ ps_moves \in 0..PsMaxReconnects

(* The stream is created and the lookup of the cloud started; nothing is   *)
(* linked yet.                                                             *)
PsInit ==
  /\ ps_path = "none" /\ ps_last = FALSE /\ ps_soft = TRUE
  /\ ps_buffer = << >> /\ ps_writes = << >> /\ ps_passed = << >>
  /\ ps_moves = 0

-----------------------------------------------------------------------------
(* The gate *)

(* BufferedWriteAction::Send *)
SendBelow(w) == [w EXCEPT !.sent = TRUE, !.below = "live"]

(* DrainBuffer: what is not sent is sent, in order, if the stream takes    *)
(* it.                                                                     *)
DrainBuffer(buffer, writes, last) ==
  LET waiting == SelectSeq(buffer, LAMBDA i : last /\ ~writes[i].sent)
  IN /\ ps_writes' = [i \in DOMAIN writes |->
          IF Contains(waiting, i) THEN SendBelow(writes[i]) ELSE writes[i]]
     /\ ps_passed' = ps_passed \o waiting

(* A write is buffered also to keep the order. *)
AddToBuffer == ~ps_last \/ ps_buffer # << >>

Declines == ~ps_soft

(* The gate closes when the buffer reaches its limit. *)
SoftWriteable(buffer) == ps_soft /\ Len(buffer) # PsBufferMax

(* Write *)
PsWrite ==
  /\ Len(ps_writes) < PsMaxWrites
  /\ LET n == Len(ps_writes) + 1
     IN \/ /\ AddToBuffer /\ Declines
           /\ ps_writes' = Append(ps_writes, FailedWrite)
           /\ UNCHANGED <<ps_buffer, ps_soft, ps_passed>>
        \/ /\ AddToBuffer /\ ~Declines
           /\ ps_writes' = Append(ps_writes, NewWrite("buffered"))
           /\ ps_buffer' = Append(ps_buffer, n)
           /\ ps_soft' = SoftWriteable(ps_buffer')
           /\ UNCHANGED ps_passed
        \/ /\ ~AddToBuffer
           /\ ps_writes' = Append(ps_writes, SendBelow(NewWrite("direct")))
           /\ ps_passed' = Append(ps_passed, n)
           /\ UNCHANGED <<ps_buffer, ps_soft>>
  /\ UNCHANGED <<ps_path, ps_last, ps_moves>>

\* Mutant: the rest of the buffer waits for the next update of the stream.
RemoveActionOnly(i, how) ==
  /\ ps_buffer' = SelectSeq(ps_buffer, LAMBDA j : j # i)
  /\ ps_soft' = TRUE
  /\ ps_writes' = [ps_writes EXCEPT ![i].end = how, ![i].below = "over"]
  /\ UNCHANGED ps_passed

(* remove_action, when a buffered write has ended. *)
RemoveAction(i, how) ==
  /\ ps_buffer' = SelectSeq(ps_buffer, LAMBDA j : j # i)
  /\ ps_soft' = TRUE
  /\ DrainBuffer(ps_buffer', [ps_writes EXCEPT ![i].end = how, ![i].below = "over"], ps_last)

(* Stop, of a buffered write: passed on to the write below if it is there. *)
StopWrite(i) ==
  /\ Contains(ps_buffer, i)
  /\ ~ps_writes[i].stop
  /\ ps_writes' = [ps_writes EXCEPT
       ![i].stop = (ps_writes[i].below \notin {"live", "stopping"}),
       ![i].below = IF @ = "live" THEN "stopping" ELSE @]
  /\ UNCHANGED <<ps_path, ps_last, ps_soft, ps_buffer, ps_passed, ps_moves>>

(* Update of a buffered write that was stopped, and of a declined one. *)
UpdateStopped(i) ==
  /\ Contains(ps_buffer, i) /\ ps_writes[i].stop
  /\ RemoveAction(i, "stop")
  /\ UNCHANGED <<ps_path, ps_last, ps_moves>>

UpdateDeclined(i) ==
  /\ ps_writes[i].kind = "declined" /\ ps_writes[i].end = "none"
  /\ ps_writes' = [ps_writes EXCEPT ![i].end = "error"]
  /\ UNCHANGED <<ps_path, ps_last, ps_soft, ps_buffer, ps_passed, ps_moves>>

(* The write action of the transport's gate passes on how the send ended. *)
DirectReports(i, how) ==
  /\ ps_writes' = [ps_writes EXCEPT ![i].end = how, ![i].below = "over"]
  /\ UNCHANGED <<ps_soft, ps_buffer, ps_passed>>

(* The write below reports, and the buffered one with it. *)
BelowReports(i) ==
  /\ ps_writes[i].below \in {"live", "stopping"}
  /\ \E how \in {"result", "error"} \cup
                (IF ps_writes[i].below = "stopping" THEN {"stop"} ELSE {}) :
       IF ps_writes[i].kind = "direct" THEN DirectReports(i, how) ELSE RemoveAction(i, how)
  /\ UNCHANGED <<ps_path, ps_last, ps_moves>>

-----------------------------------------------------------------------------
(* The stream below *)

(* UpdateGate: the new state is remembered, and the buffer drained. *)
UpdateGate(writes, path) ==
  /\ ps_path' = path
  /\ ps_last' = StreamInfo(path)
  /\ DrainBuffer(ps_buffer, writes, ps_last')
  /\ UNCHANGED <<ps_soft, ps_buffer>>

(* TieSendStream, when the lookup gave a cloud connection.  A lookup that  *)
(* fails is not listened to, and the stream stays without.                 *)
TieSendStream ==
  /\ ps_path = "none"
  /\ \E path \in {"down", "up"} : UpdateGate(ps_writes, path)
  /\ UNCHANGED ps_moves

(* ConnectionSuccess of the transport *)
ConnectionUp ==
  /\ ps_path = "down"
  /\ UpdateGate(ps_writes, "up")
  /\ UNCHANGED ps_moves

(* The actions of a gate go with its ActionList, without an event. *)
LostWithConnection ==
  [i \in DOMAIN ps_writes |->
     IF ps_writes[i].below \in {"live", "stopping"}
     THEN [ps_writes[i] EXCEPT !.below = "lost"] ELSE ps_writes[i]]

(* The cloud connection goes to another server, which may be connected     *)
(* already.  The writes below go with the connection, unless another cloud *)
(* connection still holds it.                                              *)
Reconnected ==
  /\ ps_path # "none"
  /\ ps_moves < PsMaxReconnects
  /\ ps_moves' = ps_moves + 1
  /\ \E path \in {"down", "up"}, held \in BOOLEAN :
       UpdateGate(IF held THEN ps_writes ELSE LostWithConnection, path)

PsNext ==
  \/ PsWrite
  \/ \E i \in DOMAIN ps_writes :
       StopWrite(i) \/ UpdateStopped(i) \/ UpdateDeclined(i) \/ BelowReports(i)
  \/ TieSendStream \/ ConnectionUp \/ Reconnected

PsSpec == PsInit /\ [][PsNext]_psVars

-----------------------------------------------------------------------------
(* Properties *)

(* Writes go to the stream in the order of the calls, each at most once,   *)
(* whether they waited in the buffer or not, and however often the stream  *)
(* below changed in between.                                               *)
WriteOrder == \A i, j \in DOMAIN ps_passed : i < j => ps_passed[i] < ps_passed[j]

(* A write is turned down only when the buffer is full. *)
DeclinedOnlyFull ==
  [][\A i \in DOMAIN ps_writes' \ DOMAIN ps_writes :
       ps_writes'[i].kind = "declined" => Len(ps_buffer) = PsBufferMax]_psVars

Waits(i) == ~ps_writes[i].sent
WillReport(i) == ps_writes[i].below \in {"live", "stopping"} \/ ps_writes[i].stop

(* While the stream takes writes, a write waits in the buffer only behind  *)
(* one that will report and so drain the buffer, or behind one that was    *)
(* lost with its connection.                                               *)
NoStallUnlessLost ==
  ps_last /\ (\E i \in Range(ps_buffer) : Waits(i)) =>
    \E i \in Range(ps_buffer) : WillReport(i) \/ ps_writes[i].below = "lost"
=============================================================================
