------------------------------- MODULE Gates -------------------------------
(***************************************************************************)
(* The gates between a user and the transport (aether/stream_api,          *)
(* aether/client_messages).  A client keeps one stream to a server; over   *)
(* it a MessageStreamDispatcher keeps one message stream for each other    *)
(* client, and over that a SplitterGate keeps the streams the two clients  *)
(* have opened.  Every level wraps what is written into a message with the *)
(* id of its stream, announces how much it can take, and gives what it     *)
(* receives to the gates whose id is in the message.                       *)
(*                                                                         *)
(* The ids of message streams come from both ends: odd ones from           *)
(* StreamIdGenerator, even ones from the server, each from a counter that  *)
(* wraps.  Either end may open a stream to the same client while the       *)
(* other's message is under way, so that the id of a stream changes        *)
(* (set_stream_id).  The server is not part of the repository; like        *)
(* ProtocolWriteGate on this side it names client and id before every      *)
(* message.                                                                *)
(***************************************************************************)
EXTENDS Integers, FiniteSets, Sequences

CONSTANTS GtUids,        \* other clients
          GtInner,       \* ids of the streams between two clients
          GtIds,         \* number of values of StreamId
          CryptoOverhead, LoginHeader, OpenHeader,  \* bytes of the cipher, of LoginByUid, of OpenStreamToClient
          GtPacketSizes, \* max_packet_size of the transports
          MaxMade,       \* bound: ids taken
          MaxGtPackets   \* bound: packets under way in a direction, and messages from the server

ASSUME GatesAssumption ==
  /\ GtUids # {} /\ IsFiniteSet(GtUids) /\ GtIds \in Nat /\ GtIds > 2 /\ GtIds % 2 = 0
  /\ {CryptoOverhead, LoginHeader, OpenHeader} \subseteq Nat /\ GtPacketSizes \subseteq Nat

VARIABLES gt_made,       \* whose the ids are that StreamIdGenerator has given, in order;
                         \* Elsewhere for a stream that is not a message stream
          gt_streams,    \* MessageStreamDispatcher::streams_: id of each, 0 for none
          gt_splitters,  \* streams of each SplitterGate, {} for none
          gt_max,        \* max_packet_size of the transport below
          gt_told,       \* max_element_size the users' gates were last told
          gt_up,         \* packets to the server: the OpenStreamToClient of each
          gt_down,       \* packets to the client: a message, and the id of StreamToClient
          gt_server,     \* the server's id for each client, 0 for none
          gt_opened,     \* whose the ids are that the server has given, in order
          gt_sent,       \* messages the server has sent
          gt_got         \* messages received, with whom they reached and how often

gtVars == <<gt_made, gt_streams, gt_splitters, gt_max, gt_told, gt_up, gt_down, gt_server,
            gt_opened, gt_sent, gt_got>>

-----------------------------------------------------------------------------
(* Sizes.  Info: the max_element_size a gate announces over the one below. *)
(* Size: the bytes it writes below for a write of size bytes.              *)

Without(overhead, below) == IF below > overhead THEN below - overhead ELSE 0

(* Bytes of a PackedSize, a Packed<std::uint64_t, std::uint8_t, 250>. *)
PackedLength(size) == IF size <= 250 THEN 1 ELSE IF size <= 1514 THEN 2 ELSE IF size <= 1049834 THEN 4 ELSE 8

kStreamMessageOverhead == 1 + 1 + 8

(* Mutant: the code and the id are forgotten. *)
StreamApiInfoBare(below) == Without(1, below)

StreamApiInfo(below) == Without(kStreamMessageOverhead, below)
StreamApiSize(size) == 1 + 1 + PackedLength(size) + size

AddHeaderInfo(header, below) == Without(header, below)
AddHeaderSize(header, size) == header + size

CryptoInfo(below) == Without(CryptoOverhead, below)
Encrypted(size) == size + CryptoOverhead

(* ClientToServerStream: crypto, stream, login.  The gates that only pass  *)
(* on, DebugGate and ProtocolReadGate, announce what is below them.        *)
ServerStreamInfo(max) == CryptoInfo(StreamApiInfo(AddHeaderInfo(LoginHeader, max)))
ServerStreamSize(size) == AddHeaderSize(LoginHeader, StreamApiSize(Encrypted(size)))

(* MessageStream, and a stream of the SplitterGate over it. *)
MessageStreamInfo(below) == StreamApiInfo(AddHeaderInfo(OpenHeader, below))
MessageStreamSize(size) == AddHeaderSize(OpenHeader, StreamApiSize(size))

UserInfo(max) == StreamApiInfo(MessageStreamInfo(ServerStreamInfo(max)))
UserSize(size) == ServerStreamSize(MessageStreamSize(StreamApiSize(size)))

-----------------------------------------------------------------------------
(* Stream ids. *)

(* GetNextClientStreamId, the k-th: from 1, by two, in a byte. *)
ClientId(k) == (2 * k - 1) % GtIds

(* The server's are even, and not 0. External. *)
ServerId(k) == 2 + 2 * ((k - 1) % (GtIds \div 2 - 1))

(* An update event goes up from a link that changed through every gate     *)
(* tied above it to the user's, which reads the announced size.            *)
ToldAll(splitters, max) == [u \in GtUids |-> IF splitters[u] = {} THEN 0 ELSE UserInfo(max)]

NoIds == [u \in GtUids |-> 0]

Elsewhere == "elsewhere"

(* The connection to a server is a stream with an id of its own            *)
(* (ClientToServerStream::InitStreams).                                    *)
GtInit ==
  /\ gt_made = <<Elsewhere>> /\ gt_streams = NoIds
  /\ gt_splitters = [u \in GtUids |-> {}] /\ gt_max = 0 /\ gt_told = NoIds
  /\ gt_up = <<>> /\ gt_down = <<>> /\ gt_server = NoIds
  /\ gt_opened = <<>> /\ gt_sent = <<>> /\ gt_got = <<>>

(* TransportWriteGate on ConnectionSuccess: the size, then the event. *)
GtConnected ==
  /\ gt_max = 0 /\ gt_max' \in GtPacketSizes
  /\ gt_told' = ToldAll(gt_splitters, gt_max')
  /\ UNCHANGED <<gt_made, gt_streams, gt_splitters, gt_up, gt_down, gt_server, gt_opened, gt_sent, gt_got>>

(* GetMessageStream: a client that has no message stream gets one with the *)
(* next id; RegisterStream ties a stream to it.                            *)
GtCreate(u, s) ==
  /\ s \notin gt_splitters[u]
  /\ \/ gt_streams[u] # 0 /\ UNCHANGED <<gt_made, gt_streams>>
     \/ /\ gt_streams[u] = 0 /\ Len(gt_made) < MaxMade
        /\ gt_made' = Append(gt_made, u)
        /\ gt_streams' = [gt_streams EXCEPT ![u] = ClientId(Len(gt_made'))]
  /\ gt_splitters' = [gt_splitters EXCEPT ![u] = @ \cup {s}]
  /\ gt_told' = [gt_told EXCEPT ![u] = UserInfo(gt_max)]
  /\ UNCHANGED <<gt_max, gt_up, gt_down, gt_server, gt_opened, gt_sent, gt_got>>

(* A registration, a lookup or another connection takes an id. *)
GtTakeId ==
  /\ Len(gt_made) < MaxMade /\ gt_made' = Append(gt_made, Elsewhere)
  /\ UNCHANGED <<gt_streams, gt_splitters, gt_max, gt_told, gt_up, gt_down, gt_server, gt_opened, gt_sent, gt_got>>

(* ClientCloudConnection::CloseStream: without streams the SplitterGate    *)
(* goes, and the message stream with it.                                   *)
GtClose(u, s) ==
  /\ s \in gt_splitters[u]
  /\ gt_splitters' = [gt_splitters EXCEPT ![u] = @ \ {s}]
  /\ gt_streams' = IF gt_splitters'[u] = {} THEN [gt_streams EXCEPT ![u] = 0] ELSE gt_streams
  /\ gt_told' = IF gt_splitters'[u] = {} THEN [gt_told EXCEPT ![u] = 0] ELSE gt_told
  /\ UNCHANGED <<gt_made, gt_max, gt_up, gt_down, gt_server, gt_opened, gt_sent, gt_got>>

(* Every write opens its stream again: OpenStreamToClient is the header of *)
(* ProtocolWriteGate.                                                      *)
GtWrite(u) ==
  /\ gt_splitters[u] # {} /\ gt_max # 0 /\ Len(gt_up) < MaxGtPackets
  /\ gt_up' = Append(gt_up, [uid |-> u, id |-> gt_streams[u]])
  /\ UNCHANGED <<gt_made, gt_streams, gt_splitters, gt_max, gt_told, gt_down, gt_server, gt_opened, gt_sent, gt_got>>

(* The server takes the id it is told. External. *)
GtServerReads ==
  /\ gt_up # <<>> /\ gt_up' = Tail(gt_up)
  /\ gt_server' = [gt_server EXCEPT ![Head(gt_up).uid] = Head(gt_up).id]
  /\ UNCHANGED <<gt_made, gt_streams, gt_splitters, gt_max, gt_told, gt_down, gt_opened, gt_sent, gt_got>>

(* A message of another client, over the id there is or a new one.         *)
(* External.                                                               *)
GtServerSends(u, s) ==
  LET message == [uid |-> u, inner |-> s, data |-> Len(gt_sent) + 1]
  IN  /\ gt_max # 0 /\ Len(gt_sent) < MaxGtPackets
      /\ \/ gt_server[u] # 0 /\ UNCHANGED <<gt_opened, gt_server>>
         \/ /\ gt_server[u] = 0 /\ gt_opened' = Append(gt_opened, u)
            /\ gt_server' = [gt_server EXCEPT ![u] = ServerId(Len(gt_opened'))]
      /\ gt_down' = Append(gt_down, [message |-> message, id |-> gt_server'[u]])
      /\ gt_sent' = Append(gt_sent, message)
      /\ UNCHANGED <<gt_made, gt_streams, gt_splitters, gt_max, gt_told, gt_up, gt_got>>

(* OnStreamToClient: the message stream there is takes the server's id     *)
(* (set_stream_id), or a new one is made with it.                          *)
IdsAfter(u, id) == [gt_streams EXCEPT ![u] = id]

(* The message streams that pass a message on: the StreamApiGate of each   *)
(* compares the id.                                                        *)
Addressed(streams, id) == {u \in GtUids : streams[u] = id}

(* The gates called by an emission: those of the list copied at its start. *)
InvokeList(before, after) == before

(* How often a message reaches the stream s: in the subscription of its    *)
(* own gate, and from OnStream, which registers a stream that is not known *)
(* and puts the message into it.                                           *)
TimesEmitted(before, after, s) ==
  (IF s \in InvokeList(before, after) THEN 1 ELSE 0) + (IF s \in before THEN 0 ELSE 1)

(* A packet is parsed: StreamToClient, then Stream. *)
GtReceive ==
  /\ gt_down # <<>> /\ gt_down' = Tail(gt_down)
  /\ LET packet == Head(gt_down)
         s == packet.message.inner
         reached == Addressed(gt_streams', packet.id)
     IN  /\ gt_streams' = IdsAfter(packet.message.uid, packet.id)
         /\ gt_splitters' = [u \in GtUids |-> gt_splitters[u] \cup (IF u \in reached THEN {s} ELSE {})]
         /\ gt_got' = Append(gt_got, [message |-> packet.message, reached |-> reached,
                                      times |-> {TimesEmitted(gt_splitters[u], gt_splitters'[u], s) : u \in reached}])
         /\ gt_told' = ToldAll(gt_splitters', gt_max)
  /\ UNCHANGED <<gt_made, gt_max, gt_up, gt_server, gt_opened, gt_sent>>

(* The orders in which the members of S can come. *)
Orders(S) == {order \in [1 .. Cardinality(S) -> S] :
                \A i, j \in DOMAIN order : order[i] = order[j] => i = j}

(* Another server is chosen: its connection takes an id, and the           *)
(* SplitterGates are tied to message streams over it, each with a new id,  *)
(* in some order.                                                          *)
GtReconnect ==
  LET known == {u \in GtUids : gt_splitters[u] # {}}
      Index(u, order) == CHOOSE i \in DOMAIN order : order[i] = u
      taken == Append(gt_made, Elsewhere)
  IN  /\ gt_max # 0 /\ gt_max' = 0
      /\ \E order \in Orders(known) :
           /\ Len(taken \o order) <= MaxMade
           /\ gt_made' = taken \o order
           /\ gt_streams' = [u \in GtUids |-> IF u \in known THEN ClientId(Len(taken) + Index(u, order)) ELSE 0]
      /\ gt_told' = ToldAll(gt_splitters, 0)
      /\ gt_up' = <<>> /\ gt_down' = <<>> /\ gt_server' = NoIds
      /\ gt_opened' = <<>> /\ gt_sent' = <<>> /\ gt_got' = <<>>
      /\ UNCHANGED gt_splitters

GtNext ==
  \/ GtConnected \/ GtTakeId \/ GtServerReads \/ GtReceive \/ GtReconnect
  \/ \E u \in GtUids : GtWrite(u)
  \/ \E u \in GtUids, s \in GtInner : GtCreate(u, s) \/ GtClose(u, s) \/ GtServerSends(u, s)

GtSpec == GtInit /\ [][GtNext]_gtVars

-----------------------------------------------------------------------------
(* The variables hold what they are described to. *)
GtTypeOK ==
  /\ gt_made \in Seq(GtUids \cup {Elsewhere}) /\ gt_opened \in Seq(GtUids)
  /\ gt_streams \in [GtUids -> 0 .. GtIds - 1] /\ gt_server \in [GtUids -> 0 .. GtIds - 1]
  /\ gt_splitters \in [GtUids -> SUBSET GtInner]
  /\ gt_max \in Nat /\ gt_told \in [GtUids -> Nat]
  /\ gt_up \in Seq([uid : GtUids, id : 0 .. GtIds - 1])
  /\ gt_down \in Seq([message : [uid : GtUids, inner : GtInner, data : Nat], id : 0 .. GtIds - 1])
  /\ gt_sent \in Seq([uid : GtUids, inner : GtInner, data : Nat])

(* More ids were taken than there are. *)
Wrapped == Len(gt_made) > GtIds \div 2 \/ Len(gt_opened) > GtIds \div 2 - 1

(* Every message the server sends reaches the stream it is for, once, in   *)
(* order, and nobody else, whatever ids the two ends have chosen and       *)
(* changed meanwhile and whichever streams were opened and closed; until   *)
(* the ids wrap (StreamApiGate, OnStreamToClient, SplitterGate::OnStream). *)
EachReachesItsOwn ==
  ~ Wrapped => \A i \in DOMAIN gt_got :
                 /\ gt_got[i].message = gt_sent[i] /\ gt_got[i].times = {1}
                 /\ gt_got[i].reached = {gt_sent[i].uid}

(* A user knows the size that is announced now, and a write of that size,  *)
(* or less, is no larger than a packet when all gates have added what they *)
(* add (stream_info of each gate).                                         *)
AnnouncedFits ==
  \A u \in GtUids :
    gt_splitters[u] # {} =>
      /\ gt_told[u] = UserInfo(gt_max)
      /\ \A size \in {1, gt_told[u] \div 2, gt_told[u]} :
           size <= gt_told[u] /\ size # 0 => UserSize(size) <= gt_max

(* Gates: a message reaches its own stream only, and the size a user is    *)
(* told of fits (StreamApiGate, SplitterGate, stream_info).                *)
GatesRight == GtTypeOK /\ EachReachesItsOwn /\ AnnouncedFits
=============================================================================
