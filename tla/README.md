# TLA+ verification of the aether client

The aether client connects an application to the servers of a cloud and, through
them, to other clients.  This directory holds TLA+ models of the parts of the
client whose correctness depends on the order of events, the TLC configurations
that check them on small instances, and TLAPS proofs of what holds for all sizes.
`PROJECT.json` lists the components, the runs with their properties, the source
lines every definition stands for, the hazards the properties are about, a mutation
of the model that breaks each property, and the theorems.

## The system

From the application down to the socket (paths below `src/aether/` unless they
start with `examples/`):

| part | source | modules |
|---|---|---|
| example programs | `examples/` | `Examples` |
| bandwidth and delays benchmarks | `examples/benches/` | `BandwidthBench`, `DelaysBench` |
| registration of a client | `ae_actions/registration/` | `Registration` |
| lookup of another client's cloud | `ae_actions/` | `CloudLookup` |
| connections to a cloud, server list | `client_connections/`, `server_list/` | `CloudConnections` |
| message streams between clients | `client_messages/` | `P2pStream`, `Gates`, `CloudConnections` |
| safe stream | `stream_api/safe_stream*` | `SafeStream`, `SafeStreamSending`, `SafeStreamReceiving`, `ByteStream` |
| gates, stream ids | `stream_api/` | `Gates`, `P2pStream` |
| api protocol | `api_protocol/`, `methods/` | `ApiProtocol` |
| transport to a server | `transport/server/`, `transport/actions/` | `ServerTransport`, `StateMachine` |
| TCP transports | `transport/low_level/tcp/` | `UnixTcpTransport`, `WinTcpTransport`, `LwipTcpTransport`, `PackedInt` |
| pollers | `poller/` | `Pollers` |
| name resolvers, adapters | `dns/`, `adapters/` | `DnsResolvers`, `Adapters` |
| actions, events | `actions/`, `events/` | `ActionTrigger`, `ActionRegistry`, `Events` |
| pointers, domains, class registry | `obj/` | `Ptr`, `Domain`, `Registry` |
| file systems | `port/file_systems/` | `FileSystems`, `DomainFacility` |
| telemetry statistics | `tele/` | `Telemetry` |
| serialized values, packed integers, ring indices | `mstream.h`, `packed_int.h`, `ring_buffer.h` | `MStream`, `PackedInt`, `RingIndex` |

Nearly everything runs in one application thread: `ActionProcessor::Update` calls
`Update` of every action, and handlers run inside the event that calls them.  A
step of a model is therefore one `Update` of one action, one event from outside or
one call of the user, together with all the handlers it runs.  The other threads
(pollers, lwIP, the system's callbacks) set the flag of a `NotifyAction` and call
`ActionTrigger::Trigger`.  `ActionTrigger` models that boundary at the grain of
single reads and writes, and the other modules rely on what is shown there;
`Pollers`, `WinTcpTransport` and `DnsResolvers`, where two threads share more than
that, have the mutexes of the code and a step for each stretch between them.

## Modules

A module has the state of its component as variables, named after the members of
the classes, an action for each operation, and at its end the properties.  Modules
that are extended together prefix their names (`gt_`, `po_`, `ms_`, ...).

**Safe stream.**  `SafeStream` turns an unreliable message stream into a reliable
byte stream.  The sending end buffers what the application writes, sends slices of
it within a window and repeats them; the receiving end holds what arrives early,
delivers what is contiguous, confirms it and requests what is missing.  A byte is
represented by its position in the stream, a buffer by the sequence of the
positions of its bytes, so that loss, duplication and reordering are visible in
what is delivered.  Time is abstracted: whether a timeout has elapsed is an input
of `Update`.  The read of a freed chunk in `SafeStreamSendingAction::SendData` is a
choice between the values `FreedChunkReads`.  `RingIndex` holds the arithmetic of
the 16 bit offsets and of ranges of them; `ReceivingEnv` is the receiving end
against any slices of a stream; `ByteStream` is what the stream promises its users.

**Gates.**  `Gates` is what a user's write passes through (`SplitterGate`,
`StreamApiGate`, `ProtocolWriteGate`, `CryptoGate`, ...) as far as its size, and
what a received message is dispatched by: the ids of streams, which both ends
choose and may change while messages are under way.  `P2pStream` is the sending
half with its `BufferGate`, over a connection that comes, goes and is replaced.

**Client.**  `Registration`, `CloudLookup` and `CloudConnections` are state machines
over requests whose answers come late, twice or never.  What a server answers is
external.  `ApiProtocol` is `ProtocolContext`: request ids, callbacks, the stack of
api classes, packets inside of packets.

**Transports.**  `ServerTransport` composes the channel selector, reconnection, the
send queue and the connection of a channel (the resolution of its name, then its
addresses), with the low-level sends external; a dereference
of an action that is gone is recorded in `crashed`, after which nothing happens.
`UnixTcpTransport` joins two transports by a connection of limited size that may
break, with an edge triggered poller; bytes are real bytes here, of `ByteBits` bits,
framed by `PackedInt`, whose packet collector cuts them again.  `WinTcpTransport` has
the completions of overlapped operations in a thread of their own,
`LwipTcpTransport` the socket numbers lwIP gives out again.  `Pollers` is one module
for epoll, kqueue, the completion port and the FreeRTOS loop (`po_kind`): what they
lock, and when they look up a callback, differs and is what matters.

**Objects.**  `Events` is one `Event` with its handlers and their `Subscription`s;
emissions run inside each other.  `ActionRegistry` is the registry with its counted
`IndexShare`s in actions and views.  `Ptr` is the reference counting that also frees
cycles, `Domain` saves and loads graphs of objects, `Registry` picks the class to
construct, `FileSystems` implements `DomainFacility`, the storage a `Domain` relies
on; beside the five file systems it has `FileSystemHeader` as most programs are built
with it, which reads an image compiled into the program and saves nothing.  `MStream` writes values of any shape and reads them from a part of the bytes.

**Programs.**  `Examples` is how each program gets and keeps its clients over
restarts; the two benchmarks are both ends of a test with losses.  `Telemetry` is
the statistics that rotate, merge and are saved.

## Runs

Components that do not interact share a run: an `MC` module extends their modules,
its variable `part` says which one a behaviour is about, and the variables of the
others stay as they are.  Its properties are the conjunctions of what the modules
state; each conjunct is defined and described where it belongs.

| run | asks | distinct states |
|---|---|---|
| `unreliable_network` | `FirstWindowExact`, `SendingExact`, `NothingTakenBack` under loss, repetition, reordering, timeouts, failing writes and stops | 709 thousand |
| `progress` (`MCProgress`) | over a reliable network, is everything delivered and `ByteStream` implemented; lost notifications and wake-ups, starvation | 5 thousand |
| `transports` (`MCTransports`) | framing, one read and one send at a time, callbacks after removal, answers once, retries, ends | 266 thousand |
| `client` (`MCClient`) | the send queue, secrets of the registration, failures that are followed, lookups, the order of writes, answers to their own callbacks | 396 thousand |
| `processes` (`MCProcesses`) | benchmarks in step, clients kept, storage, telemetry, serialized values, arithmetic | 268 thousand |
| `objects` (`MCObjects`) | emissions, shares, pointers and cycles, saved graphs, factories, gates, the receiving end | 488 thousand |
| six runs below | disagreements | |

Bounds, and why they suffice:

- `unreliable_network`: two writes of one or two bytes, two data packets and one
  response under way, window and buffer of 3 bytes: packets overtake each other, a
  write is cut in slices and joined again by a repeat, the window closes, repeat
  counts are exceeded.  `FirstWindowExact` is about the first `WindowSize + 1` bytes,
  which the run writes; beyond them it is false (below).
- `progress`: six bytes in three writes, more than the window and the byte
  after it, so that the window has to open again; two notifying threads, so that one
  comes while the other's notification is handled.
- `transports`: packets whose sizes take one and four bytes over a wire that
  holds three, so that sizes and data are cut everywhere; three packets of lwIP over
  three connections, the least for a number to be given again while an old packet is
  there; two descriptors, one of them removed and added again; as many retries as
  make the counter reach its limit twice.
- `client`: three packets (one under way, one next, one behind it) and three calls of
  `Connect`, enough to use up the channels and start again; three registration
  servers, one without channels; two clients that share a connection, with ids of
  both parities; two lookups and a link that fails; one write more
  than a buffer holds; as many requests as
  make the ids repeat.
- `processes`: one loss or failed write per test, three messages in a series of the
  delays and one in each series of the bandwidth (with two, 353 thousand states, the
  run passes as well, in half as much time again); three starts of a program; two
  objects with two versions and a crash in the middle of a write; three Teles over a
  limit that each can reach, and a restart; two values of every pair of types, cut at
  every byte; ring indices of all 121 values; packed integers around the ends of all
  ranges, with the code's own parameters.
- `objects`: three handlers and three emissions inside each other; two places for
  actions, two for views, three entries; graphs of three objects with every cycle; a
  crash between any two stores; every inheritance of four classes; two streams to
  each of two clients, and as many stream ids as there are before they wrap; a
  stream of 4 bytes in slices of up to 3, so that two chunks overlap, touch or
  contain each other around a third one in every way.

Deadlock is checked in `unreliable_network` and `progress`.
The merged runs end when a bound is used up or a program is over, so theirs is off.

### Fairness

`ActionProcessor::Update` updates every action again and again and the network
below delivers what it has taken, so each specification states weak fairness of the
steps the program and its environment owe (`Progress`, `PoProgress`, `BbStep`, ...),
never of the application's calls, of losses or of failures that someone must cause.
In `progress` the wait for a confirmation never runs out, but the receiver's
own delay before it sends confirmations does pass, as a clock does.  In
`UnixTcpTransport` fairness is written with the state predicate `Due` in place of
`ENABLED Progress`, because TLC evaluates `ENABLED` of the recursive functions too
slowly.  In `ActionTrigger` the notifiers' `Trigger` has strong fairness: it takes a
mutex the application thread takes and releases over and over, and a mutex that is
free again and again is obtained in the end; the timeout of the wait has none, so
`WorkGetsDone` does not lean on it.

### What the properties except

Some properties name causes after which they say nothing.  These are behaviours of
the code, and the property says that there is no other:

| property | excepted |
|---|---|
| `PacketsSettle` | the channels are used up; at the front of the queue is a packet whose send failed below, or that was stopped while it waited; an address of a host name did not connect |
| `RegistrationEnds` | a server without channels, whose error comes before the subscription; the key of another server, from a late answer; a request after that for the keys that is lost with its connection or stopped |
| `FailureNoticed`, `GatesFollow` | a connection that was dead when it was given out; a stream that another cloud connection on the same server closed |
| `LookupEnds` | an answer was lost; the cloud answered is empty; the connection died after it was found connected |
| `NoStallUnlessLost` | a write was lost with its connection, and those behind it in the buffer wait for it |
| `PacketDelivered` | a result nobody waits for loses the rest of its packet; messages with a child packet are left to `CalledOnce` and `ClassesPopped` |
| `ReceivedInOrder` | a packet was stopped when it was partly sent |
| `SendsEnd` | the transport is closed; a packet was stopped with its write under way; the main thread asks for a lock it holds; both threads wait for each other in `Disconnect`; a write ended with an error |
| `Delivered` | the poller's loop has returned at an event without callback, or (FreeRTOS) suspended itself after an `Add` it had not seen, or waits on an older list |
| `ContextAlive`, `QueryEnds` | the resolver is destroyed with queries under way, or the callback has stores left to make when its answer is read; lwIP refused the query, its datagram was lost, or the poller's thread waits for its own mutex |
| `TestsEnd` | the handshake, whose request is not repeated; a write of a series that ended stopped |
| `FailsForAReason` | the last message of a series is received before the sender has seen that it is done |
| `CloudEnds`, `LedFollowsKey` | a message was lost: nothing repeats it |
| `CutIsNoticed` | a value whose last field asks for fewer bytes than an earlier one lacked |

## Proofs

| module | theorems | property of a run |
|---|---|---|
| `StreamLemmas` | `RingMovesStay`, `RingMovesMeasured` | part of `ArithmeticRight` |
| `ReceivingProofs` | `ReceiverTypeCorrect`, `ReceiverDeliversInOrder`, `ReceiverKeepsHeldBytes` | `DeliveredInOrder`, `HeldUntilDelivered` |
| `SendingProofs` | `SendingIsExact`, `OutcomesStay` | `SendingExact`, half of `NothingTakenBack` |
| `SafeStreamProofs` | `FirstWindowIsExact`, `NothingIsTakenBack` | `FirstWindowExact`, `NothingTakenBack` |
| `EventsProofs` | `EventsTypeCorrect`, `NoSubscriptionLost`, `EmissionReachesLive`, `OnceHandlersAreSpent`, `EmissionsAreCorrect` | `EmissionCorrect` |
| `MainLoopProofs` | `TriggerTypeCorrect`, `NoNotificationLost`, `NoMissedWakeup`, `RegistrySound`, `NoCallbackAfterRemove` | `NothingLost`, `WokenWhenTriggered`, `SharesSound`, `RemovedStaySilent` |
| `GatesProofs` | `GatesCorrect`, `SizesFit` | `GatesRight` |

Every theorem is for all values of the constants that satisfy the named
assumptions of the component's module, so for any number of handlers, threads,
objects, descriptors, clients and ids, and for any bound; the two theorems of
`SafeStreamProofs` assume `NoWrap` as well (below).

- **Receiver.**  `DeliveredInOrder` alone is not inductive: delivery joins chunks
  that arrived long before.  `OrderInv` adds that every held chunk carries the bytes
  of the stream at its offset, however `AddDataChunk` cut it, that
  `last_confirmed_offset` is where the delivered data ends, and that only offsets of
  the stream are confirmed and requested.  A chain of chunks that continue each other
  from there is then the next part of the stream.  The lemmas are in `StreamLemmas`,
  for a stream of any length that with a window fits the ring, and serve both the
  receiver alone (`ReceivingEnv`) and the receiver of `SafeStream`, where the length
  is what has been written so far.  The assumption `StreamLen + WindowSize < RingMax`
  says that offsets do not wrap; with wrapping the theorem is false (`ring_wrap`).
  `HeldUntilDelivered` is an action property and follows from the same invariant.
- **Sender.**  `SendingExact` (exactly the writes without an outcome are buffered,
  `buffer_size_` is the sum of their sizes and within the capacity) needs
  `StreamTypes`: `BufferExact`, which is that property, and the types of both ends,
  since offsets reach the sender through the packets, the receiver's answers and the
  queue of parsed calls.  It is proved with rings that wrap, so for every history of
  a stream.  The key lemmas are about what a removal leaves: the sum over the indices
  that stay is the sum less that over those that go (`SizeOf`, a recursive function
  over the writes), and a write that has an outcome is not in the buffer, so that no
  later confirm, failure or stop finds it (`OutcomesStay`).
- **Both ends.**  `FirstWindowInv` is what holds while at most `WindowSize + 1` bytes
  were written: the writes follow one another (`ContiguousWrites`); the buffer has no
  holes (`BufferClosed`), so that a slice that `GetSlice` copies across several
  writes is the stream at its offset; the offsets the sender keeps lie in the window
  or just behind it (`SenderMarks`); every packet under way is genuine, and so is
  what the receiver holds, delivered and answered (`OrderInv` for the bytes written
  so far).  Each conjunct is needed by another: a confirm keeps the buffer closed
  because it names an offset that was delivered, and that holds because the packets
  were slices of a closed buffer.  `NoWrap` says that two windows fit the ring, which
  makes `Distance` a difference for all offsets involved (`confirm_beyond_window` is
  what happens without), and that the value read from the freed chunk in `SendData`
  is an offset of the window: any other value could remove data from the middle of
  the buffer.  Packets are lost, repeated, reordered and fail in any way, and writes
  are stopped and given up.  After the first window the property is false, as
  `confirm_beyond_window` shows; that is why it is stated for it.
- **Events.**  `IInv` adds `IdleAbove` (nothing runs above the current depth) to
  the four invariants.  They need each other: cleaning the list at the end of an
  inner emission keeps what is alive, and what an outer emission has passed over
  cannot come to life again.
- **Trigger.**  `IInv` adds `FlagKept`: work that was announced is still flagged
  until the application thread has seen the flag, also while its notifier is between
  setting the flag and `Trigger`.  `NothingLost` speaks only of notifiers that are
  done, so its proof needs `FlagKept` for the step `Trigger`.
- **Registry of actions.**  `SharesSound` is inductive as it stands, but only all
  of it together.  That the counter covers the references (a count of a finite set
  of places, which a move may not increase and a drop decreases) is why a dropped
  share never takes an entry out of the list that another place refers to.  That an
  entry points back to its object makes the object the only one that refers to it,
  so that erasing the pointer of a destroyed action hurts no other.  Equality of
  counter and references does not hold (below), and is not needed.
- **Gates.**  `GatesRight` is about messages that are delivered now but were sent
  when streams had other ids.  The inductive invariant says of every id either end
  has taken, and of every message under way in either direction, which stream it
  belongs to, and that no other stream has had it until the ids wrap.  The sizes are
  a lemma about each gate and their sum, for headers of any size, with the saturating
  subtraction of the code.
- **Pollers.**  The four pollers are proved in one: the invariant ties what the
  thread has in hand (the events it got, the callback it looked up) to who holds
  which lock, so that `Remove`, which takes the lock, finds nothing in hand for its
  descriptor.

Only model-checked: liveness and everything under fairness, which is out of the
prover's reach; what recursive definitions compute for every input (`Registry`'s
`FactoryRight`, the packed integers, `MStream`, the search for cycles in `Ptr`),
which needs induction over data; the refinements of `ByteStream`, which holds for the
reliable network only and carries the bounds of that run, and of `DomainFacility`;
pointers and the object graph, telemetry, the transports, the client's state machines
and the programs, whose modules share definitions with the recursive ones or whose
properties are checked on one instance so far.

Where a proof has to compute a function that is recursive over a sequence (`Kept`,
`SizeOf`, the copy of `GetSlice`), `StreamLemmas` first shows that there is exactly one
function with the recursive equation (`Recursion`, from the least counterexample), and
the lemmas then reason about its steps.

## Disagreements with comments and assertions

Kept as runs that end with a counterexample:

- `ring_wrap`: `RingIndex::Clockwise` goes through `Max + 1` values, `Distance` and
  the constructor count modulo `Max`; a write that spans the end of the ring is cut
  at the wrong byte.
- `confirm_undelivered`: `ReceiveRepeat` tests the first offset of a chunk and
  confirms the last; a repeat that joins delivered bytes with new ones confirms
  bytes that are dropped.
- `confirm_beyond_window`: `OffsetRange::Before` is true of data more than a window
  ahead.  With a buffer larger than the window a `Confirm` reports writes as done
  that were never sent.  The same comparison lets a stop, a failed write of a packet
  that is reported late, and the giving up of a chunk remove data from the middle of
  the buffer, after which a slice is read across the hole.  It cannot happen while at
  most `WindowSize + 1` bytes were written, and `FirstWindowExact` is stated for them.
- `action_registry_owner`: the move assignment of an action leaves its old entry in
  the registry, counted and pointing to the object.
- `ptr_cycles`: an object is deleted while a `Ptr` refers to it, when a member that
  lies on a cycle is assigned again (its reference is counted twice), or when `Reset`
  is called on one of several `Ptr`s to an object.  `objects` has the programs that do
  neither (`PtrUses`).
- `button_registration`: the button example waits for one of its two registrations
  and asserts both.

Behaviours the models show without a run of their own:

- *Safe stream.*  An index reaches `Max`, which the comment of `RingIndex` excludes.
  A write whose last byte is the confirmed offset stays in the buffer until later
  data is confirmed (`SendDataBuffer::Confirm`).  Slices are cut to the
  `max_element_size` of the gate below and get the stream's own header after that, so
  that packets are longer than the gate announced (`istream.h`).  `SafeStream::Write`
  dereferences the view it gets from `SendData`, which is empty when the buffer is
  full: the model has the writes that fit, since the program ends at another.
- *TCP.*  `Stop` of a packet that is partly sent puts the receiver out of step
  (`Torn`); an empty packet makes the collector drop the rest of a read (`AddData`).
  After `UnixTcpTransport::Disconnect` the state is still `kConnected`.  If lwIP
  connected at once, a callback could find another connection under its socket's
  number; the run keeps to the connections lwIP makes, which take a while (`LtNow`).
- *Client.*  `BufferGate` "Buffers write requests until gate is not ready to accept
  them" (`buffer_gate.h:34`), but goes on while there are earlier ones in the buffer,
  and a write that is lost with its connection stays there: later writes wait although
  the gate accepts them.  The connections "start connection from the begining"
  (`client_server_connection_selector.cpp:36`) after the last server, but one that is
  given a connection that is dead already has nobody tell it so, and does not.  The
  registration subscribes to the errors of its writes only: one that is stopped leaves
  it waiting.
- *Benchmarks.*  `TimedSender` sends one message more than "Send message_count
  messages" says (`timed_sender.h:45`) when `Sync` comes before its own `Update`.
- *Server transport.*  After a failed send the queue stays busy with a packet that is
  gone (`HasFailed`); a packet stopped while it waits is dereferenced after it is gone
  (`StoppedQueued`, `crashed`); a second address of a host name is never tried, since
  `StateMachine::Set` ignores the state it is in (`AddressFailed`); `CheckTimeout`
  compares the wrong way round, and its packet ends as stopped.
- *Events and actions.*  A handler for one call, or one that has just released its
  own `Subscription`, is called again by an `Emit` inside its callback.  The
  assignments of `IndexShare` do not release what they overwrite, so `CounterCovers`
  cannot be an equality.
- *Gates.*  After 128 streams of a client the ids wrap, and a message may then reach
  two streams (`Wrapped`).  That a user does not close a stream inside its handler of
  new streams is assumed: `PutData` would go on with a gate that is gone.
- *Serialized values.*  A null pointer leaves the target it is read into as it was.
  The fields of a structure, of a pair and of a chain of `>>` are read although one
  before them could not be, so that a cut inside of a wide field goes unnoticed when a
  narrow one comes last (`Blind`).
- *File systems.*  `DriverSpifs` looks for what it is to delete without the mount
  point and finds nothing; the `Store` of the compiled image saves into a vector that
  is thrown away.  A header file cut within a number, which would be read as a smaller
  one, is not modelled: a cut loses objects from some object on.
- *Telemetry.*  The shortest duration stays 0; the printing sink is never merged,
  since its type is compared with that of the trap; `Append` does not count the size;
  a Tele counts the time of those inside it again; merging a store that has rotated
  puts newer logs before older ones.  Traps have no lock, although poller threads
  write logs; the model has the one thread for which the code is meant.

## Not modelled

Cryptography and the proof of work (what libsodium, libhydrogen and bcrypt compute is
out of reach; `Registration` has who can read what, `Gates` how much longer a cipher
text is), the tables of message types, fixed point numbers and checksums (used by
tests and at compile time only), the output of telemetry, the pull action nothing
constructs, `SizedPacketGate`, `SerializeGate` and `OneGateStream` (tied into the
streams of `p2p_safe_message_stream.h`, `get_client_cloud.cpp` and
`client_cloud_connection.cpp`; each changes the form of one value at a time and keeps
no state), the choice of the next update time by `ActionProcessor`, and
`VersionIterator`.  The servers, the network, the resolver libraries, lwIP and the
system calls are external and do what the code that uses them allows them to do.
