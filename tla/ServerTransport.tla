-------------------------- MODULE ServerTransport --------------------------
(***************************************************************************)
(* The transport to one server: ServerTransport, the selector that gives   *)
(* it the server's channels in turn, the ServerChannelTransport of the     *)
(* current channel with the action that connects it, and the               *)
(* ServerSendQueueManagerAction that hands the queued packets to it one at *)
(* a time.  The low-level transport below is seen only through what it and *)
(* its send actions report.                                                *)
(*                                                                         *)
(* A channel with an IP address is connected by                            *)
(* IpAddressChannelConnectionAction; one with a host name by               *)
(* NameAddressChannelConnectionAction, which resolves the name and runs an *)
(* IP connection for one address after the other.                          *)
(*                                                                         *)
(* Everything runs in one thread: a step is one Update of one action, one  *)
(* event of the outside, or one call of the user, with every handler it    *)
(* runs.  Packets are numbered in the order of the calls of Send.          *)
(***************************************************************************)
EXTENDS Naturals, Sequences, StateMachine

CONSTANTS
  Channels,      \* the kinds ("ip" or "name") of the server's channels, in order
  MaxAddresses,  \* the most addresses a name resolves to
  MaxPackets,    \* bound: calls of Send
  MaxConnects,   \* bound: calls of Connect by the user and by reconnections
  LowOutcomes,   \* what a low-level send may end with: kSuccess, kFailed
  UserStops      \* the states in which the user may stop a packet

(* connection is the record of the action that connects the channel:       *)
(*   name   - state_ of the name action ("none" for an IP channel)         *)
(*   left   - the resolved addresses from the iterator on                  *)
(*   ip     - state_ of the IP action of the current address               *)
(*   waits  - what has been asked of the outside and is not answered yet:  *)
(*            the resolver, the adapter that creates a transport, or the   *)
(*            transport that connects                                      *)
(*   outcome - what the action has reported to its subscribers             *)
VARIABLES
  connection,
  channels_iterator,   \* index into Channels, one past the last at the end
  channel,             \* channel of channel_transport_, 0 when it is empty
  connection_state,    \* connection_info_.connection_state
  reconnect,           \* the reconnect action is notified and subscribed to
  manager,             \* state_ of the send queue manager
  enqueue_transport,   \* channel of enqueue_transport_, 0 when it is empty
  send_queue,          \* the queued views, as packet numbers
  packets,             \* the packets sent so far
  crashed,             \* an action that is gone has been dereferenced
  passed,              \* history: packets in the order they went to a channel
  tried,               \* history: channels tried since the last error event
  connects             \* history: calls of Connect, and how many emitted an error

queueVars == <<manager, enqueue_transport, send_queue, packets, crashed, passed>>
linkVars == <<channels_iterator, channel, connection_state, reconnect, tried, connects>>
vars == <<queueVars, linkVars, connection>>

PacketStates == {"kQueued", "kProgress", "kSuccess", "kStopped", "kFailed"}
ManagerStates == {"kTransportNotSet", "kQueueReady", "kQueueBusy", "kQueueEmpty"}

NameStates == {"Start", "TryConnection", "Connected", "NotConnected"}
IpStates == {"Start", "Connected", "Failed"}
Outside == {"nothing", "resolver", "adapter", "transport", "link"}
None == Unmarked("none")

ConnectionTypeOK ==
  connection \in [name : Machines(NameStates) \cup {None},
                  left : 0..MaxAddresses,
                  ip : Machines(IpStates) \cup {None},
                  waits : Outside,
                  outcome : {"idle", "none", "result", "error"}]

NoConnection == [name |-> None, left |-> 0, ip |-> None, waits |-> "nothing",
                 outcome |-> "idle"]

(* A packet: alive until Finish removes it from the action store; its own  *)
(* state; whether the manager has subscribed to it; the low-level send and *)
(* the ChannelPacketSendAction on top of it; the channel it went to;       *)
(* whether its send timeout has passed and the user has stopped it.        *)
Packets == [alive : BOOLEAN, sm : Machines(PacketStates), subscribed : BOOLEAN,
            low : {"none", "kQueued", "kProgress", "kStopped"},
            chan : PacketStates \cup {"kTimeout"},
            via : 0..Len(Channels), late : BOOLEAN, stopped : BOOLEAN]

(* The variables have their types; a view in the queue names a packet. *)
TypeOK ==
  /\ ConnectionTypeOK
  /\ channels_iterator \in 1..(Len(Channels) + 1)
  /\ channel \in 0..Len(Channels)
  /\ connection_state \in {"kUndefined", "kConnecting", "kConnected"}
  /\ reconnect \in BOOLEAN
  /\ manager \in Machines(ManagerStates)
  /\ enqueue_transport \in 0..Len(Channels)
  /\ packets \in Seq(Packets) /\ Len(packets) <= MaxPackets
  /\ send_queue \in Seq(1..Len(packets))
  /\ crashed \in BOOLEAN
  /\ passed \in Seq(1..Len(packets))
  /\ tried \subseteq 1..Len(Channels)
  /\ connects \in [all : 0..MaxConnects, errors : 0..MaxConnects]

Init ==
  /\ connection = NoConnection
  /\ channels_iterator = 1 /\ channel = 0
  /\ connection_state = "kUndefined"
  /\ reconnect = FALSE
  /\ manager = Unmarked("kTransportNotSet")
  /\ enqueue_transport = 0
  /\ send_queue = << >> /\ packets = << >> /\ passed = << >>
  /\ crashed = FALSE
  /\ tried = {}
  /\ connects = [all |-> 0, errors |-> 0]

-----------------------------------------------------------------------------
(* The action that connects a channel *)

(* MakeConnectionAction: the action for the address of the channel. *)
Connection(kind) ==
  [NoConnection EXCEPT !.name = IF kind = "name" THEN Marked("Start") ELSE None,
                       !.ip = IF kind = "ip" THEN Marked("Start") ELSE None,
                       !.outcome = "none"]

Running == connection.outcome = "none"

(* TryConnection of a name: an IP action for the address the iterator is   *)
(* at, or no connection when the addresses are used up.                    *)
TryConnection(c) ==
  IF c.left = 0 THEN [c EXCEPT !.name = Set(Acquire(@), "NotConnected")]
                ELSE [c EXCEPT !.name = Acquire(@), !.ip = Marked("Start")]

NameUpdate ==
  /\ Running
  /\ connection.name.changed
  /\ \E c \in {[connection EXCEPT !.name = Acquire(@)]} :
       connection' = CASE c.name.state = "Start" -> [c EXCEPT !.waits = "resolver"]
                       [] c.name.state = "TryConnection" -> TryConnection(c)
                       [] c.name.state = "Connected" -> [c EXCEPT !.outcome = "result"]
                       [] c.name.state = "NotConnected" -> [c EXCEPT !.outcome = "error"]

(* The answer of the resolver, with any number of addresses. *)
Resolved ==
  /\ Running
  /\ connection.waits = "resolver"
  /\ \/ \E n \in 0..MaxAddresses :
          connection' = [connection EXCEPT !.waits = "nothing", !.left = n,
                                           !.name = Set(@, "TryConnection")]
     \/ connection' = [connection EXCEPT !.waits = "nothing",
                                         !.name = Set(@, "NotConnected")]

(* What the IP action reports goes to the name action that runs it, or to  *)
(* the subscribers of the channel's action.                                *)
IpResult(c) ==
  IF c.name = None THEN [c EXCEPT !.outcome = "result"]
                   ELSE [c EXCEPT !.name = Set(@, "Connected")]

IpError(c) ==
  IF c.name = None THEN [c EXCEPT !.outcome = "error"]
                   ELSE [c EXCEPT !.left = @ - 1, !.name = Set(@, "TryConnection")]

IpUpdate ==
  /\ Running
  /\ connection.ip.changed
  /\ \E c \in {[connection EXCEPT !.ip = Acquire(@)]} :
       connection' = CASE c.ip.state = "Start" -> [c EXCEPT !.waits = "adapter"]
                       [] c.ip.state = "Connected" -> IpResult(c)
                       [] c.ip.state = "Failed" -> IpError(c)

(* The adapter answers with a new transport, which is told to connect, or  *)
(* with an error.                                                          *)
TransportCreated ==
  /\ Running
  /\ connection.waits = "adapter"
  /\ \/ connection' = [connection EXCEPT !.waits = "transport"]
     \/ connection' = [connection EXCEPT !.waits = "nothing",
                                         !.ip = Set(@, "Failed")]

(* The events of the transport: it connects or fails, and a transport that *)
(* has connected may fail before the IP action has looked at its state.    *)
TransportEvent ==
  /\ Running
  /\ \/ /\ connection.waits = "transport"
        /\ connection' = [connection EXCEPT !.waits = "link",
                                            !.ip = Set(@, "Connected")]
     \/ /\ connection.waits \in {"transport", "link"}
        /\ connection' = [connection EXCEPT !.waits = "nothing",
                                            !.ip = Set(@, "Failed")]

-----------------------------------------------------------------------------
(* Connecting *)

(* NextChannel: the channel the iterator is at, or none once at the end,   *)
(* which puts the iterator back to the beginning.                          *)
NextChannel ==
  channels_iterator' = IF channels_iterator > Len(Channels) THEN 1
                       ELSE channels_iterator + 1

(* Connect: drop a pending reconnection and start the next channel; with   *)
(* no channel left, only the error event is emitted.                       *)
Connect ==
  /\ ~crashed
  /\ connects.all < MaxConnects
  /\ reconnect' = FALSE
  /\ NextChannel
  /\ IF channels_iterator > Len(Channels)
     THEN /\ channel' = 0
          /\ connection' = NoConnection
          /\ connects' = [all |-> connects.all + 1, errors |-> connects.errors + 1]
          /\ tried' = {}
          /\ UNCHANGED connection_state
     ELSE /\ channel' = channels_iterator
          /\ connection' = Connection(Channels[channels_iterator])
          /\ connection_state' = "kConnecting"
          /\ connects' = [connects EXCEPT !.all = @ + 1]
          /\ tried' = tried \cup {channels_iterator}
  /\ UNCHANGED queueVars

(* The user connects, and connects again once the channels are used up. *)
UserConnect == channel = 0 /\ ~reconnect /\ Connect

(* Update of the notified reconnect action. *)
NotifyReconnect == reconnect /\ Connect

(* SetTransport: a queue that waited for its first transport is ready. *)
SetTransport(transport) ==
  /\ enqueue_transport' = transport
  /\ manager' = IF manager.state = "kTransportNotSet"
                THEN Set(manager, "kQueueReady") ELSE manager

(* The channel's action has reported: OnConnection gives the transport to  *)
(* the queue, OnConnectionError tries the next channel (Reconnect).        *)
OnOutcome(outcome) ==
  \/ /\ outcome = "none"
     /\ UNCHANGED <<queueVars, linkVars>>
  \/ /\ outcome = "result"
     /\ connection_state' = "kConnected"
     /\ SetTransport(channel)
     /\ UNCHANGED <<channels_iterator, channel, reconnect, tried, connects,
                    send_queue, packets, crashed, passed>>
  \/ /\ outcome = "error"
     /\ reconnect' = TRUE
     /\ UNCHANGED <<channels_iterator, channel, connection_state, tried, connects,
                    queueVars>>

UpdateConnection == ~crashed /\ (NameUpdate \/ IpUpdate) /\ OnOutcome(connection'.outcome)

ConnectionEvent ==
  /\ ~crashed
  /\ Resolved \/ TransportCreated \/ TransportEvent
  /\ UNCHANGED <<queueVars, linkVars>>

-----------------------------------------------------------------------------
(* Sending *)

(* Send: a packet enters the store and the queue; an idle queue wakes up. *)
Send ==
  /\ ~crashed
  /\ Len(packets) < MaxPackets
  /\ packets' = Append(packets,
       [alive |-> TRUE, sm |-> Unmarked("kQueued"), subscribed |-> FALSE,
        low |-> "none", chan |-> "kQueued", via |-> 0, late |-> FALSE,
        stopped |-> FALSE])
  /\ send_queue' = Append(send_queue, Len(packets'))
  /\ manager' = IF manager.state = "kQueueEmpty" THEN Set(manager, "kQueueReady")
                                                 ELSE manager
  /\ UNCHANGED <<enqueue_transport, crashed, passed, linkVars, connection>>

(* Stop of a packet that is still there, and of what it has under way. *)
Stop(k) ==
  /\ ~crashed
  /\ packets[k].alive /\ ~packets[k].stopped
  /\ packets[k].sm.state \in UserStops
  /\ packets' = [packets EXCEPT ![k] =
       [@ EXCEPT !.sm = Set(packets[k].sm, "kStopped"), !.stopped = TRUE,
                 !.low = IF packets[k].low = "none" THEN "none" ELSE "kStopped",
                 !.chan = IF packets[k].low = "none" THEN packets[k].chan
                                                     ELSE "kStopped"]]
  /\ UNCHANGED <<manager, enqueue_transport, send_queue, crashed, passed, linkVars,
                 connection>>

(* While a packet is under way the queue is busy. *)
Claim(m) == Set(Acquire(m), "kQueueBusy")

(* Enqueue of the manager and of the packet: the packet at the front goes  *)
(* to the transport.  A front whose packet has finished, or an empty       *)
(* transport, is dereferenced all the same.                                *)
Enqueue ==
  \/ /\ send_queue = << >>
     /\ manager' = Set(Acquire(manager), "kQueueEmpty")
     /\ UNCHANGED <<packets, passed, crashed>>
  \/ /\ send_queue # << >>
     /\ packets[Head(send_queue)].alive /\ enqueue_transport # 0
     /\ manager' = Claim(manager)
     /\ packets' = [packets EXCEPT ![Head(send_queue)] =
          [@ EXCEPT !.subscribed = TRUE,
                    !.sm = Set(packets[Head(send_queue)].sm, "kProgress"),
                    !.low = "kQueued", !.chan = "kQueued",
                    !.via = enqueue_transport]]
     /\ passed' = Append(passed, Head(send_queue))
     /\ UNCHANGED crashed
  \/ /\ send_queue # << >>
     /\ ~packets[Head(send_queue)].alive \/ enqueue_transport = 0
     /\ crashed' = TRUE
     /\ UNCHANGED <<manager, packets, passed>>

(* Update of the manager. *)
UpdateManager ==
  /\ ~crashed
  /\ manager.changed
  /\ IF manager.state = "kQueueReady" THEN Enqueue
     ELSE /\ manager' = Acquire(manager)
          /\ UNCHANGED <<packets, passed, crashed>>
  /\ UNCHANGED <<enqueue_transport, send_queue, linkVars, connection>>

(* The low-level send starts, which its ChannelPacketSendAction follows;   *)
(* or it ends, and every handler up to the packet's copies its state.      *)
LowSend(k) ==
  /\ ~crashed
  /\ \/ /\ packets[k].low = "kQueued"
        /\ packets' = [packets EXCEPT ![k] = [@ EXCEPT !.low = "kProgress",
                                                       !.chan = "kProgress"]]
     \/ \E outcome \in PacketStates :
          /\ \/ packets[k].low \in {"kQueued", "kProgress"} /\ outcome \in LowOutcomes
             \/ packets[k].low = "kStopped" /\ outcome = "kStopped"
          /\ packets' = [packets EXCEPT ![k] =
               [@ EXCEPT !.low = "none", !.chan = outcome,
                         !.sm = IF packets[k].alive THEN Set(packets[k].sm, outcome)
                                                    ELSE packets[k].sm]]
  /\ UNCHANGED <<manager, enqueue_transport, send_queue, crashed, passed, linkVars,
                 connection>>

(* A second passes after the packet went to the channel. *)
Late(k) ==
  /\ ~crashed
  /\ packets[k].low # "none" /\ ~packets[k].late
  /\ packets' = [packets EXCEPT ![k].late = TRUE]
  /\ UNCHANGED <<manager, enqueue_transport, send_queue, crashed, passed, linkVars,
                 connection>>

(* CheckTimeout of a send in progress: nothing when send_timeout_ has      *)
(* passed, otherwise stop the low-level send and become kTimeout.          *)
CheckTimeout(k) ==
  /\ ~crashed
  /\ packets[k].low # "none" /\ packets[k].chan = "kProgress"
  /\ ~packets[k].late
  /\ packets' = [packets EXCEPT ![k] = [@ EXCEPT !.low = "kStopped",
                                                 !.chan = "kTimeout"]]
  /\ UNCHANGED <<manager, enqueue_transport, send_queue, crashed, passed, linkVars,
                 connection>>

\* Mutant: the queue stays busy.
EnqueueNextAsleep ==
  /\ send_queue' = IF send_queue = << >> THEN send_queue ELSE Tail(send_queue)
  /\ UNCHANGED manager

(* EnqueueNext: the front leaves the queue and the next one may go. *)
EnqueueNext ==
  /\ send_queue' = IF send_queue = << >> THEN send_queue ELSE Tail(send_queue)
  /\ manager' = IF manager.state = "kQueueBusy" THEN Set(manager, "kQueueReady")
                                                ELSE manager

(* Update of a packet whose state changed.  Result and Stop let the next   *)
(* packet go if the manager has subscribed to this one; Error resets the   *)
(* queue's transport and reconnects, and the manager's handler then calls  *)
(* Dequeue.  Finish takes the packet out of the store in each case.        *)
UpdatePacket(k) ==
  /\ ~crashed
  /\ packets[k].alive /\ packets[k].sm.changed
  /\ \/ /\ packets[k].sm.state \in {"kQueued", "kProgress"}
        /\ packets' = [packets EXCEPT ![k].sm = Acquire(@)]
        /\ UNCHANGED <<manager, enqueue_transport, send_queue, reconnect>>
     \/ /\ packets[k].sm.state \in {"kSuccess", "kStopped"}
        /\ packets' = [packets EXCEPT ![k] = [@ EXCEPT !.sm = Acquire(packets[k].sm),
                                                       !.alive = FALSE]]
        /\ IF packets[k].subscribed THEN EnqueueNext
                                    ELSE UNCHANGED <<manager, send_queue>>
        /\ UNCHANGED <<enqueue_transport, reconnect>>
     \/ /\ packets[k].sm.state = "kFailed"
        /\ packets' = [packets EXCEPT ![k] =
             [@ EXCEPT !.sm = Set(Acquire(packets[k].sm), "kQueued"), !.via = 0,
                       !.alive = FALSE]]
        /\ enqueue_transport' = 0
        /\ reconnect' = TRUE
        /\ UNCHANGED <<manager, send_queue>>
  /\ UNCHANGED <<channels_iterator, channel, connection_state, tried, connects,
                 crashed, passed, connection>>

Numbers == 1..Len(packets)
Alive(k) == k \in Numbers /\ packets[k].alive

Progress ==
  \/ NotifyReconnect \/ UpdateConnection \/ ConnectionEvent \/ UpdateManager
  \/ \E k \in Numbers : LowSend(k) \/ UpdatePacket(k)

Next ==
  \/ UserConnect \/ NotifyReconnect
  \/ UpdateConnection \/ ConnectionEvent
  \/ Send \/ UpdateManager
  \/ \E k \in Numbers : \/ Stop(k) \/ LowSend(k) \/ Late(k) \/ CheckTimeout(k)
                        \/ UpdatePacket(k)

Spec == Init /\ [][Next]_vars
FairSpec == Spec /\ WF_vars(Progress)

-----------------------------------------------------------------------------
(* Properties *)

(* The manager sends one packet at a time: the only live packet it has     *)
(* subscribed to is the one at the front of the queue, and it is busy with *)
(* it, whatever stops, failures and reconnections come between.            *)
BusyWithFront ==
  \A k \in Numbers :
    packets[k].alive /\ packets[k].subscribed =>
      manager.state = "kQueueBusy" /\ send_queue # << >> /\ Head(send_queue) = k

(* A send below has failed; the packet was put back and then removed. *)
HasFailed(k) == ~packets[k].alive /\ packets[k].sm.state = "kQueued"

(* No wake-up of the queue is lost: while packets are queued, either there *)
(* has been no transport yet, or an Update of the manager is due, or a     *)
(* packet it has subscribed to is at the front.  That packet is alive,     *)
(* unless its send has failed below.                                       *)
QueueAwake ==
  send_queue # << >> =>
    \/ manager.state = "kTransportNotSet" /\ enqueue_transport = 0
    \/ manager.state = "kQueueReady" /\ manager.changed
    \/ /\ manager.state = "kQueueBusy" /\ packets[Head(send_queue)].subscribed
       /\ packets[Head(send_queue)].alive \/ HasFailed(Head(send_queue))

(* Packets go to the channels in the order of Send, and one is passed over *)
(* only if the user stopped it.                                            *)
PassedInOrder ==
  \A i \in 1..Len(passed) : \A k \in 1..(passed[i] - 1) :
    packets[k].stopped \/ \E j \in 1..(i - 1) : passed[j] = k

(* The error event means that every channel of the server has been tried   *)
(* since the last one.                                                     *)
EveryChannelTried ==
  [][connects'.errors > connects.errors => tried = 1..Len(Channels)]_vars

(* The user stopped the packet before the manager came to it. *)
StoppedQueued(k) == packets[k].stopped /\ ~packets[k].subscribed

(* An address of a host name did not connect (IpError). *)
AddressFailed == connection.name # None /\ connection.ip = Unmarked("Failed")

(* Every packet ends, unless the channels are used up without a connection *)
(* (or the bound on the calls of Connect is reached).  Only three things   *)
(* can keep the queue from it: at its front is a packet whose send failed  *)
(* below, or one that was stopped while it waited, or the host name of the *)
(* channel has an address that did not connect.                            *)
PacketsSettle ==
  \A k \in 1..MaxPackets :
    []<>(\/ ~Alive(k) \/ channel = 0 \/ connects.all = MaxConnects
         \/ AddressFailed
         \/ \E j \in Numbers :
              send_queue # << >> /\ j = Head(send_queue) /\ (HasFailed(j) \/ StoppedQueued(j)))
=============================================================================
