-------------------------- MODULE CloudConnections --------------------------
(***************************************************************************)
(* The ClientCloudConnections to one cloud.  They take their servers from  *)
(* one selector, share the connection to a server through the manager's    *)
(* cache, and keep for every client they talk to a SplitterGate, tied to   *)
(* the message stream of that client in the current connection.            *)
(*                                                                         *)
(* The cache is a weak reference: a connection is there as long as a cloud *)
(* connection holds it.  A transport that has used up its channels emits   *)
(* one error (ServerTransport!Connect) and is then dead, but still answers *)
(* kConnecting or kConnected.                                              *)
(***************************************************************************)
EXTENDS Integers, Sequences, FiniteSets, SequencesExt

CONSTANTS
  CcClients,     \* the cloud connections
  CcServers,     \* the servers of the cloud
  MaxBare,       \* bound: servers that have no channels
  CcUids,        \* clients at the other end of streams
  CcStreamIds,   \* ids of streams to one client
  MaxFailures    \* bound: connections that fail

VARIABLES
  cc_bare,       \* the servers that have no channels
  cc_iterator,   \* server_list_it_ of the shared selector
  cc_link,       \* the connection to a server: none, connecting, connected, failed
  cc_hold,       \* client_server_connection_ of a cloud connection, 0 when empty
  cc_reconnect,  \* its reconnect action is notified
  cc_stale,      \* history: it took a connection that had failed
  cc_gates,      \* gates_: the ids registered and the connection tied to
  cc_streams,    \* streams_ of the dispatcher of the connection to a server
  cc_failures    \* history: connections failed

ccVars == <<cc_bare, cc_iterator, cc_link, cc_hold, cc_reconnect, cc_stale,
            cc_gates, cc_streams, cc_failures>>

(***************************************************************************)
(* The list of a cloud's servers and the iterator that goes round it       *)
(* (ServerList, NoFilterServerListPolicy, ClientServerConnectionSelector). *)
(* An iterator is an index into the list, one past the last at the end.    *)
(***************************************************************************)

(* Preferred and Filter of the only policy there is. *)
Preferred(left, right) == left < right
Filter(server) == FALSE

(* BuildList: the servers the policy leaves, the preferred ones first. *)
BuildList(servers) ==
  SetToSortSeq({s \in servers : ~Filter(s)}, Preferred)

(* The iterator of the list. *)
Begin(list) == 1
AtEnd(list, it) == it > Len(list)
ServerAt(list, it) == list[it]
Following(it) == it + 1

(* NextServer: the server at the iterator, or none (0) at the end of the   *)
(* list, which puts the iterator back to the beginning.                    *)
NextServer(list, it) ==
  IF AtEnd(list, it) THEN [server |-> 0, it |-> Begin(list)]
  ELSE [server |-> ServerAt(list, it), it |-> Following(it)]

(* The cloud connections. *)
ServerSeq == BuildList(CcServers)
NoGate == [ids |-> {}, tie |-> 0, open |-> FALSE]

(* The tie of a gate whose stream another cloud connection closed. *)
Dangling == -1

(* The variables have their types; a gate that is not open is NoGate. *)
CcTypeOK ==
  /\ cc_bare \subseteq CcServers
  /\ cc_iterator \in 1..(Len(ServerSeq) + 1)
  /\ cc_link \in [CcServers -> {"none", "connecting", "connected", "failed"}]
  /\ cc_hold \in [CcClients -> {0} \cup CcServers]
  /\ cc_reconnect \in [CcClients -> BOOLEAN]
  /\ cc_stale \in [CcClients -> BOOLEAN]
  /\ cc_gates \in [CcClients -> [CcUids ->
       [ids : SUBSET CcStreamIds, tie : {0, Dangling} \cup CcServers, open : BOOLEAN]]]
  /\ cc_streams \in [CcServers -> SUBSET CcUids]
  /\ cc_failures \in 0..MaxFailures

CcInit ==
  /\ cc_bare \in {b \in SUBSET CcServers : Cardinality(b) <= MaxBare}
  /\ cc_iterator = 1
  /\ cc_link = [s \in CcServers |-> "none"]
  /\ cc_hold = [k \in CcClients |-> 0]
  /\ cc_reconnect = [k \in CcClients |-> TRUE]
  /\ cc_stale = [k \in CcClients |-> FALSE]
  /\ cc_gates = [k \in CcClients |-> [u \in CcUids |-> NoGate]]
  /\ cc_streams = [s \in CcServers |-> {}]
  /\ cc_failures = 0

Held(hold, s) == \E k \in CcClients : hold[k] = s
Known(k) == {u \in CcUids : cc_gates[k][u].open}

-----------------------------------------------------------------------------
(* Connections *)

(* The first NextServer of Connect, and the second if that gave none: the  *)
(* connection held so far is dropped before the second call, not before    *)
(* the first.                                                              *)
TwoTries(k) ==
  LET first == NextServer(ServerSeq, cc_iterator)
  IN IF first.server # 0
     THEN [server |-> first.server, it |-> first.it, hold |-> cc_hold]
     ELSE [server |-> NextServer(ServerSeq, first.it).server,
           it |-> NextServer(ServerSeq, first.it).it,
           hold |-> [cc_hold EXCEPT ![k] = 0]]

(* CreateConnection: the cached connection while somebody holds it, or a   *)
(* new one with a transport of its own.  The transport to a server without *)
(* channels emits its error in there, where nobody has subscribed yet.     *)
CreateConnection(s, hold) ==
  CASE Held(hold, s) -> cc_link[s]
    [] ~Held(hold, s) /\ s \in cc_bare -> "failed"
    [] OTHER -> "connecting"

(* The known streams are tied to the connection to s. *)
Restored(k, s) ==
  [u \in CcUids |-> IF cc_gates[k][u].open THEN [cc_gates[k][u] EXCEPT !.tie = s]
                                           ELSE NoGate]

(* Connect, in the constructor and when the reconnect action is updated.   *)
(* Without a server it is left for the next update.                        *)
CcConnect(k) ==
  /\ cc_reconnect[k]
  /\ LET try == TwoTries(k)
         hold == [try.hold EXCEPT ![k] = try.server]
         fresh == ~Held(try.hold, try.server)
     IN /\ cc_iterator' = try.it
        /\ cc_hold' = hold
        /\ cc_reconnect' = [cc_reconnect EXCEPT ![k] = try.server = 0]
        /\ cc_stale' = [cc_stale EXCEPT ![k] =
             try.server # 0 /\ CreateConnection(try.server, try.hold) = "failed"]
        /\ cc_link' = [s \in CcServers |->
             CASE s = try.server -> CreateConnection(s, try.hold)
               [] s # try.server /\ Held(hold, s) -> cc_link[s]
               [] OTHER -> "none"]
        /\ cc_streams' = [s \in CcServers |->
             CASE s = try.server -> (IF fresh THEN {} ELSE cc_streams[s]) \cup Known(k)
               [] s # try.server /\ Held(hold, s) -> cc_streams[s]
               [] OTHER -> {}]
        /\ cc_gates' = [cc_gates EXCEPT ![k] = Restored(k, try.server)]
  /\ UNCHANGED <<cc_bare, cc_failures>>

LinkConnected(s) ==
  /\ cc_link[s] = "connecting"
  /\ cc_link' = [cc_link EXCEPT ![s] = "connected"]
  /\ UNCHANGED <<cc_bare, cc_iterator, cc_hold, cc_reconnect, cc_stale, cc_gates, cc_streams,
                 cc_failures>>

\* Mutant: only one of those that share the connection is told.
ToldOnce(s) ==
  cc_reconnect' = [k \in CcClients |->
    cc_reconnect[k] \/ k = CHOOSE j \in CcClients : cc_hold[j] = s]

(* OnConnectionError of everybody who holds the connection. *)
Told(s) == cc_reconnect' = [k \in CcClients |-> cc_reconnect[k] \/ cc_hold[k] = s]

(* OnDisconnected: the transport has used up the channels of the server,   *)
(* before it ever connected or after it lost its connection.               *)
LinkFailed(s) ==
  /\ cc_link[s] \in {"connecting", "connected"}
  /\ cc_failures < MaxFailures
  /\ cc_failures' = cc_failures + 1
  /\ cc_link' = [cc_link EXCEPT ![s] = "failed"]
  /\ Told(s)
  /\ UNCHANGED <<cc_bare, cc_iterator, cc_hold, cc_stale, cc_gates, cc_streams>>

-----------------------------------------------------------------------------
(* Streams *)

(* CreateStream: the gate of the client, made and tied if there is none,   *)
(* registers the id.                                                       *)
CreateStream(k, u, id) ==
  /\ cc_hold[k] # 0
  /\ LET gate == cc_gates[k][u]
     IN cc_gates' = [cc_gates EXCEPT ![k][u] =
          [ids |-> gate.ids \cup {id}, open |-> TRUE,
           tie |-> IF gate.open THEN gate.tie ELSE cc_hold[k]]]
  /\ cc_streams' = IF cc_gates[k][u].open THEN cc_streams
                   ELSE [cc_streams EXCEPT ![cc_hold[k]] = @ \cup {u}]
  /\ UNCHANGED <<cc_bare, cc_iterator, cc_link, cc_hold, cc_reconnect, cc_stale, cc_failures>>

(* The gate goes with its last stream; the message stream it is tied to    *)
(* goes too, whoever else is tied to it.                                   *)
GatesAfterClose(k, u, id) ==
  [j \in CcClients |->
     IF j = k THEN [cc_gates[j] EXCEPT ![u] = NoGate]
     ELSE IF cc_gates[j][u].tie = cc_hold[k]
          THEN [cc_gates[j] EXCEPT ![u].tie = Dangling] ELSE cc_gates[j]]

(* CloseStream *)
CloseStream(k, u, id) ==
  /\ cc_gates[k][u].open
  /\ cc_hold[k] # 0
  /\ IF cc_gates[k][u].ids \subseteq {id}
     THEN /\ cc_gates' = GatesAfterClose(k, u, id)
          /\ cc_streams' = [cc_streams EXCEPT ![cc_hold[k]] = @ \ {u}]
     ELSE /\ cc_gates' = [cc_gates EXCEPT ![k][u].ids = @ \ {id}]
          /\ UNCHANGED cc_streams
  /\ UNCHANGED <<cc_bare, cc_iterator, cc_link, cc_hold, cc_reconnect, cc_stale, cc_failures>>

(* OnStreamToClient: a stream opened by the client u.  A new one is given  *)
(* to everybody who holds the connection (NewStream), who make a gate or   *)
(* tie the one they have.                                                  *)
OnStreamToClient(s, u) ==
  /\ cc_link[s] = "connected"
  /\ u \notin cc_streams[s]
  /\ cc_streams' = [cc_streams EXCEPT ![s] = @ \cup {u}]
  /\ cc_gates' = [k \in CcClients |->
       IF cc_hold[k] = s
       THEN [cc_gates[k] EXCEPT ![u] = [@ EXCEPT !.open = TRUE, !.tie = s]]
       ELSE cc_gates[k]]
  /\ UNCHANGED <<cc_bare, cc_iterator, cc_link, cc_hold, cc_reconnect, cc_stale, cc_failures>>

(* OnStream of the SplitterGates: the first message with an id opens it. *)
OnStream(s, u, id) ==
  /\ cc_link[s] = "connected"
  /\ u \in cc_streams[s]
  /\ \E k \in CcClients : cc_gates[k][u].tie = s /\ id \notin cc_gates[k][u].ids
  /\ cc_gates' = [k \in CcClients |->
       IF cc_gates[k][u].tie = s THEN [cc_gates[k] EXCEPT ![u].ids = @ \cup {id}]
                                 ELSE cc_gates[k]]
  /\ UNCHANGED <<cc_bare, cc_iterator, cc_link, cc_hold, cc_reconnect, cc_stale, cc_streams,
                 cc_failures>>

CcNext ==
  \/ \E k \in CcClients : CcConnect(k)
  \/ \E s \in CcServers : LinkConnected(s) \/ LinkFailed(s)
  \/ \E u \in CcUids : \/ \E s \in CcServers : OnStreamToClient(s, u)
                       \/ \E s \in CcServers, id \in CcStreamIds : OnStream(s, u, id)
                       \/ \E k \in CcClients, id \in CcStreamIds :
                            CreateStream(k, u, id) \/ CloseStream(k, u, id)

CcSpec == CcInit /\ [][CcNext]_ccVars

-----------------------------------------------------------------------------
(* Properties *)

(* A cloud connection whose server is lost looks for the next one; the     *)
(* only way to wait for a dead connection is to have been given one that   *)
(* was dead already (CreateConnection), from the cache or for a server     *)
(* without channels.                                                       *)
FailureNoticed ==
  \A k \in CcClients :
    cc_hold[k] # 0 /\ cc_link[cc_hold[k]] = "failed" =>
      cc_reconnect[k] \/ cc_stale[k]

(* Every gate is tied to the connection in use, however often it changed,  *)
(* and to nothing only while there is none.  The exception is a gate that  *)
(* lost its stream to another cloud connection on the same server, which   *)
(* closed it (CloseStream).                                                *)
GatesFollow ==
  \A k \in CcClients, u \in CcUids :
    cc_gates[k][u].open =>
      \/ \E s \in CcServers :
           cc_gates[k][u].tie = s /\ cc_hold[k] = s /\ u \in cc_streams[s]
      \/ cc_gates[k][u].tie = 0 /\ cc_hold[k] = 0
      \/ cc_gates[k][u].tie = Dangling
=============================================================================
