---------------------------- MODULE ApiProtocol ----------------------------
(***************************************************************************)
(* The message protocol: packets of messages, messages with packets in     *)
(* them (ChildData), requests with an id and the callback that waits for   *)
(* the result, and the ProtocolContext that keeps those callbacks and the  *)
(* api classes under execution.                                            *)
(*                                                                         *)
(* A packet is a sequence of messages and a message is a record; that      *)
(* bytes come back as the values that were written is the business of      *)
(* MStream and PackedInt.  The ids of requests are generated modulo        *)
(* ApIds, 2^16 in the code.                                                *)
(***************************************************************************)
EXTENDS Naturals, Sequences, FiniteSets, SequencesExt

CONSTANTS
  ApIds,         \* number of request ids
  ApClasses,     \* api classes of messages
  MaxApRequests, \* bound: requests made
  MaxApPackets   \* bound: packets received

VARIABLES
  ap_next,       \* the id GenRequestId gives next
  ap_callbacks,  \* send_result_callbacks_: the request waiting under an id, 0 for none
  ap_classes,    \* the classes in api_class_map_
  ap_ids,        \* history: the id of every request
  ap_called,     \* history: the callbacks called, with the request they were called for
  ap_last,       \* history: the last packet and what it led to
  ap_packets     \* history: number of packets

apVars == <<ap_next, ap_callbacks, ap_classes, ap_ids, ap_called, ap_last, ap_packets>>

\* Mutant: an id of a narrower type.
GenRequestIdNarrow == (ap_next + 1) % (ApIds - 1)

(* GenRequestId: the ids start at 1 and wrap around. *)
GenRequestId == (ap_next + 1) % ApIds

(* Messages: a result and an error name the request they are for (req is   *)
(* for the reader only, the code sees the id); any other message has a     *)
(* class and a packet inside.                                              *)
SendResult(req) == [kind |-> "result", req |-> req, id |-> ap_ids[req]]
SendError(req) == [kind |-> "error", req |-> req, id |-> ap_ids[req]]
Message(class, child) == [kind |-> "message", class |-> class, child |-> child]

(* The packets of the run: up to three messages, one level of nesting. *)
Results == {SendResult(r) : r \in DOMAIN ap_ids} \cup {SendError(r) : r \in DOMAIN ap_ids}
Plain == {Message(c, << >>) : c \in ApClasses}
Nested == {Message(c, <<m>>) : c \in ApClasses, m \in Results \cup Plain}
ApPackets == {<<m>> : m \in Results \cup Nested} \cup
           {<<m, n>> : m, n \in Results \cup Plain} \cup
           {<<m, n, o>> : m, n \in Results, o \in Plain}

-----------------------------------------------------------------------------
(* Parsing *)

(* What the parser changes: the callbacks and classes of the context, what *)
(* it notified and called, and whether it was cancelled.                   *)
Parser(callbacks, classes, out) ==
  [callbacks |-> callbacks, classes |-> classes, out |-> out, cancelled |-> FALSE]

(* SetSendResultResponse: the callback is called and removed; without one  *)
(* the size of the result is not known, and the rest of the packet is      *)
(* left.                                                                   *)
SetSendResultResponse(m, p) ==
  IF p.callbacks[m.id] # 0
  THEN [p EXCEPT !.out = Append(@, [called |-> p.callbacks[m.id], for |-> m.req]),
                 !.callbacks[m.id] = 0]
  ELSE [p EXCEPT !.cancelled = TRUE]

(* MessageNotify *)
MessageNotify(m, p) == [p EXCEPT !.out = Append(@, [notified |-> m])]

PushApiClass(class, p) == [p EXCEPT !.classes = @ \cup {class}]

PopApiClass(class, p) == [p EXCEPT !.classes = @ \ {class}]

RECURSIVE Parse(_, _)

(* Execute of a message: its subscribers are told, and a packet inside it  *)
(* is parsed with a parser of its own.                                     *)
Execute(m, p) ==
  LET child == Parse(m.child, [MessageNotify(m, p) EXCEPT !.cancelled = FALSE])
  IN [child EXCEPT !.cancelled = p.cancelled]

(* Load: one message, between the push and the pop of its class. *)
Load(m, p) ==
  CASE m.kind = "result" -> PopApiClass("result", SetSendResultResponse(m, PushApiClass("result", p)))
    [] m.kind = "error" -> PopApiClass("result", MessageNotify(m, PushApiClass("result", p)))
    [] m.kind = "message" -> PopApiClass(m.class, Execute(m, PushApiClass(m.class, p)))

(* ApiParser::Parse: message by message, to the end or until cancelled. *)
Parse(packet, p) ==
  FoldLeft(LAMBDA q, m : IF q.cancelled THEN q ELSE Load(m, q), p, packet)

-----------------------------------------------------------------------------
(* Behaviour *)

ApTypeOK ==
  /\ ap_next \in 0..(ApIds - 1)
  /\ ap_callbacks \in [0..(ApIds - 1) -> 0..Len(ap_ids)]
  /\ ap_ids \in Seq(0..(ApIds - 1)) /\ Len(ap_ids) <= MaxApRequests
  /\ ap_packets \in 0..MaxApPackets

ApInit ==
  /\ ap_next = 1
  /\ ap_callbacks = [id \in 0..(ApIds - 1) |-> 0]
  /\ ap_classes = {} /\ ap_ids = << >> /\ ap_called = << >> /\ ap_packets = 0
  /\ ap_last = [packet |-> << >>, callbacks |-> ap_callbacks, out |-> << >>]

(* AddSendResultCallback: emplace keeps what is there already. *)
AddSendResultCallback(id, request) ==
  [ap_callbacks EXCEPT ![id] = IF @ = 0 THEN request ELSE @]

(* A method is called: it takes an id, registers its callback and packs    *)
(* the request.                                                            *)
ApRequest ==
  /\ Len(ap_ids) < MaxApRequests
  /\ ap_ids' = Append(ap_ids, ap_next)
  /\ ap_next' = GenRequestId
  /\ ap_callbacks' = AddSendResultCallback(ap_next, Len(ap_ids'))
  /\ UNCHANGED <<ap_classes, ap_called, ap_last, ap_packets>>

(* A packet is received: results in any order, again or never. *)
ApReceive ==
  /\ ap_packets < MaxApPackets
  /\ \E packet \in ApPackets :
       LET p == Parse(packet, Parser(ap_callbacks, ap_classes, << >>))
       IN /\ ap_callbacks' = p.callbacks
          /\ ap_classes' = p.classes
          /\ ap_called' = ap_called \o SelectSeq(p.out, LAMBDA o : "called" \in DOMAIN o)
          /\ ap_last' = [packet |-> packet, callbacks |-> ap_callbacks, out |-> p.out]
  /\ ap_packets' = ap_packets + 1
  /\ UNCHANGED <<ap_next, ap_ids>>

ApNext == ApRequest \/ ApReceive

ApSpec == ApInit /\ [][ApNext]_apVars

-----------------------------------------------------------------------------
(* Properties *)

(* A callback is called at most once, however often its result comes. *)
CalledOnce ==
  \A i, j \in DOMAIN ap_called : i # j => ap_called[i].called # ap_called[j].called

(* A result is given to the callback of its own request, or else to an     *)
(* older request that still waited under the same id when the ids had gone *)
(* round: no number of lost or repeated results alone confuses them.       *)
OwnCallback ==
  \A i \in DOMAIN ap_called :
    LET c == ap_called[i]
    IN \/ c.called = c.for
       \/ /\ ap_ids[c.called] = ap_ids[c.for]
          /\ \/ c.for >= c.called + ApIds
             \/ c.called >= c.for + ApIds

(* What the packet says, read off its text: messages in order, before the  *)
(* one they contain, up to the first result nobody waits for.              *)
Waited(m, packet, k) ==
  /\ ap_last.callbacks[m.id] # 0
  /\ \A j \in 1..(k - 1) : packet[j].kind = "result" => packet[j].id # m.id
Cut(packet) ==
  LET unknown == {k \in DOMAIN packet : packet[k].kind = "result" /\ ~Waited(packet[k], packet, k)}
  IN IF unknown = {} THEN Len(packet)
     ELSE (CHOOSE k \in unknown : \A l \in unknown : k <= l) - 1
FlatPacket(packet) == \A k \in DOMAIN packet : packet[k].kind = "message" => packet[k].child = << >>

(* Every message of a packet reaches its subscribers once and in order, up *)
(* to a result that nobody waits for, which loses the rest of its packet   *)
(* and nothing else (Cancel).                                              *)
PacketDelivered ==
  FlatPacket(ap_last.packet) =>
    Len(ap_last.out) = Cut(ap_last.packet)
      /\ \A k \in DOMAIN ap_last.out :
           LET m == ap_last.packet[k]
           IN IF m.kind = "result" THEN ap_last.out[k].for = m.req
              ELSE ap_last.out[k].notified = m

(* When a packet has been parsed no class is left in the map, however the  *)
(* messages nest and wherever parsing was cancelled.                       *)
ClassesPopped == ap_classes = {}
=============================================================================
