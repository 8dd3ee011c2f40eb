---------------------------- MODULE DnsResolvers ----------------------------
(***************************************************************************)
(* The resolvers of server names.  A query lives in active_queries_ until  *)
(* its ResolveAction finishes.  DnsResolverCares hands the sockets of      *)
(* c-ares to the poller, whose thread runs c-ares, and so the callback of a *)
(* query, while it holds ctl_mutex_.  Esp32DnsResolver asks lwip, which     *)
(* calls back from a thread of its own.  ResolveAction::Update runs in the  *)
(* main thread.                                                             *)
(***************************************************************************)
EXTENDS Naturals, Sequences, FiniteSets

CONSTANTS
  DnKinds,     \* subset of {"cares", "esp32"}
  MaxDnQueries,\* bounds
  MaxDnLost

VARIABLES
  dn_kind,
  dn_asked,    \* query_id: the queries made so far are 1..dn_asked
  dn_active,   \* active_queries_
  dn_library,  \* what the library has of a query
  dn_flags,    \* members of a ResolveAction that are set
  dn_stores,   \* stores a callback in the library's thread has still to make
  dn_told,     \* what the one who asked was told
  dn_open,     \* c-ares has a socket, and the kernel watches it
  dn_opened,   \* opened_sockets_ is not empty
  dn_callback, \* the poller has a callback for the socket
  dn_lock,     \* ctl_mutex_: "free", "poller", or "stuck" for ever
  dn_life,     \* the resolver is "alive", "dying" in its destructor, or "dead"
  dn_lost,
  dn_wild      \* history: used after it was gone, of {"context", "channel"}

dnVars == <<dn_kind, dn_asked, dn_active, dn_library, dn_flags, dn_stores, dn_told, dn_open,
            dn_opened, dn_callback, dn_lock, dn_life, dn_lost, dn_wild>>
dnSocket == <<dn_open, dn_opened, dn_callback>>
dnRest == <<dn_kind, dn_lost, dn_wild>>

DnIds == 1..MaxDnQueries
DnPending == {q \in DnIds : dn_library[q] = "pending"}

DnInit ==
  /\ dn_kind \in DnKinds
  /\ dn_asked = 0 /\ dn_active = {}
  /\ dn_library = [q \in DnIds |-> "none"]
  /\ dn_flags = [q \in DnIds |-> {}]
  /\ dn_stores = [q \in DnIds |-> {}]
  /\ dn_told = [q \in DnIds |-> <<>>]
  /\ dn_open = FALSE /\ dn_opened = FALSE /\ dn_callback = FALSE
  /\ dn_lock = "free" /\ dn_life = "alive"
  /\ dn_lost = 0 /\ dn_wild = {}

-----------------------------------------------------------------------------
(* SetAddress and Failed of ResolveAction, as the stores they make before  *)
(* they call Trigger.                                                      *)

SetAddress == {"addresses", "resolved", "trigger"}
Failed == {"failed", "trigger"}

(* The members that are set when the callback runs in the main thread. *)
SetNow(stores) == stores \ {"trigger"}

(* The callback of a query, QueryResult: it fails or gives addresses. *)
QueryResults == {SetAddress, Failed}

-----------------------------------------------------------------------------
(* Query: the query is added to active_queries_, then the library is asked. *)

NewQueryAlone(q) ==
  /\ dn_life = "alive" /\ dn_lock = "free" /\ dn_asked < MaxDnQueries
  /\ q = dn_asked + 1
  /\ dn_asked' = q
  /\ dn_active' = {q}

NewQuery(q) ==
  /\ dn_life = "alive" /\ dn_lock = "free" /\ dn_asked < MaxDnQueries
  /\ q = dn_asked + 1
  /\ dn_asked' = q
  /\ dn_active' = dn_active \cup {q}

(* The library answers at once, from a cache or because the name is no     *)
(* name; QueryResult or Failed is called before Query returns.             *)
QueryAnswered(q) ==
  /\ NewQuery(q)
  /\ \E stores \in QueryResults : dn_flags' = [dn_flags EXCEPT ![q] = SetNow(stores)]
  /\ dn_library' = [dn_library EXCEPT ![q] = "done"]
  /\ UNCHANGED <<dn_stores, dn_told, dn_lock, dn_life>>
  /\ UNCHANGED dnSocket /\ UNCHANGED dnRest

(* SocketState for a socket that c-ares opens: it is kept in               *)
(* opened_sockets_ and added to the poller.                                *)
SocketStateUnread ==
  IF dn_kind = "cares"
    THEN dn_open' = TRUE /\ dn_opened' = TRUE /\ UNCHANGED dn_callback
    ELSE UNCHANGED dnSocket

SocketState ==
  IF dn_kind = "cares"
    THEN dn_open' = TRUE /\ dn_opened' = TRUE /\ dn_callback' = TRUE
    ELSE UNCHANGED dnSocket

QueryPending(q) ==
  /\ NewQuery(q)
  /\ dn_library' = [dn_library EXCEPT ![q] = "pending"]
  /\ SocketState
  /\ UNCHANGED <<dn_flags, dn_stores, dn_told, dn_lock, dn_life>>
  /\ UNCHANGED dnRest

(* dns_gethostbyname fails with a code other than ERR_ARG, as it does when *)
(* its table is full: the query stays in active_queries_ and the library   *)
(* knows nothing of it.                                                    *)
QueryRefused(q) ==
  /\ dn_kind = "esp32"
  /\ NewQuery(q)
  /\ dn_library' = [dn_library EXCEPT ![q] = "refused"]
  /\ UNCHANGED <<dn_flags, dn_stores, dn_told, dn_lock, dn_life>>
  /\ UNCHANGED dnSocket /\ UNCHANGED dnRest

-----------------------------------------------------------------------------
(* The library's thread *)

(* A datagram is lost.  c-ares notices only when something calls           *)
(* ares_process_fd; lwip has a timer and calls back with no address.       *)
DnLose(q) ==
  /\ dn_kind = "cares" /\ q \in DnPending /\ dn_lost < MaxDnLost
  /\ dn_library' = [dn_library EXCEPT ![q] = "lost"]
  /\ dn_lost' = dn_lost + 1
  /\ UNCHANGED <<dn_kind, dn_asked, dn_active, dn_flags, dn_stores, dn_told, dn_lock, dn_life,
                 dn_wild>>
  /\ UNCHANGED dnSocket

(* An answer comes.  SocketEvent is called with ctl_mutex_ held and calls  *)
(* ares_process_fd, which also ends the queries whose time has run out.    *)
SocketEvent(q) ==
  /\ q \in DnPending /\ dn_lock = "free"
  /\ dn_kind = "cares" => dn_life = "alive" /\ dn_open /\ dn_callback
  /\ \E stores \in QueryResults, late \in SUBSET {p \in DnIds : dn_library[p] = "lost"} :
       /\ dn_stores' = [p \in DnIds |-> IF p = q THEN stores
                                        ELSE IF p \in late THEN Failed ELSE dn_stores[p]]
       /\ dn_library' = [p \in DnIds |-> IF p \in late \cup {q} THEN "done" ELSE dn_library[p]]
  /\ dn_lock' = IF dn_kind = "cares" THEN "poller" ELSE dn_lock
  /\ UNCHANGED <<dn_asked, dn_active, dn_flags, dn_told, dn_life>>
  /\ UNCHANGED dnSocket /\ UNCHANGED dnRest

(* The answer is cut short and c-ares opens a stream socket to ask again:  *)
(* SocketState calls Add of the poller, which waits for the mutex that the *)
(* same thread holds.                                                      *)
SocketEventAgain(q) ==
  /\ dn_kind = "cares" /\ q \in DnPending /\ dn_lock = "free" /\ dn_life = "alive"
  /\ dn_open /\ dn_callback
  /\ dn_lock' = "stuck"
  /\ UNCHANGED <<dn_asked, dn_active, dn_library, dn_flags, dn_stores, dn_told, dn_life>>
  /\ UNCHANGED dnSocket /\ UNCHANGED dnRest

(* A store of the callback takes effect.  Nothing orders the stores to the *)
(* members with the reads of the main thread; Trigger comes last.  By then *)
(* the context may have been erased.                                       *)
DnStore(q, s) ==
  /\ s \in dn_stores[q]
  /\ s = "trigger" => dn_stores[q] = {s}
  /\ dn_stores' = [dn_stores EXCEPT ![q] = @ \ {s}]
  /\ dn_flags' = [dn_flags EXCEPT ![q] = IF s = "trigger" THEN @ ELSE @ \cup {s}]
  /\ dn_wild' = IF q \in dn_active THEN dn_wild ELSE dn_wild \cup {"context"}
  /\ UNCHANGED <<dn_kind, dn_asked, dn_active, dn_library, dn_told, dn_lock, dn_life, dn_lost>>
  /\ UNCHANGED dnSocket

(* c-ares has called back; it closes a socket that no query needs.  Of the *)
(* state (0, 0) SocketState only keeps the number: the callback stays.     *)
ProcessFdReturns ==
  /\ dn_lock = "poller" /\ \A q \in DnIds : dn_stores[q] = {}
  /\ dn_lock' = "free"
  /\ dn_open' = (\E q \in DnIds : dn_library[q] \in {"pending", "lost"})
  /\ UNCHANGED <<dn_asked, dn_active, dn_library, dn_flags, dn_stores, dn_told, dn_life,
                 dn_opened, dn_callback>>
  /\ UNCHANGED dnRest

-----------------------------------------------------------------------------
(* ResolveAction::Update, in the main thread: it tells the one who asked,  *)
(* and the finished event takes the query from active_queries_.            *)

DnOutcome(flags) == IF "resolved" \in flags
                      THEN IF "addresses" \in flags THEN "addresses" ELSE "no addresses"
                      ELSE "failed"

DnUpdate(q) ==
  /\ dn_life = "alive" /\ q \in dn_active /\ dn_flags[q] \cap {"resolved", "failed"} # {}
  /\ dn_told' = [dn_told EXCEPT ![q] = Append(@, DnOutcome(dn_flags[q]))]
  /\ dn_active' = dn_active \ {q}
  /\ UNCHANGED <<dn_asked, dn_flags, dn_library, dn_stores, dn_lock, dn_life>>
  /\ UNCHANGED dnSocket /\ UNCHANGED dnRest

(* The resolver is destroyed in the main thread.  AresImpl: ares_destroy   *)
(* fails the queries c-ares has and closes its sockets, whether or not the *)
(* poller's thread is in c-ares.  The other resolver has no destructor:    *)
(* its contexts go, and lwip keeps its queries.                            *)
DnDestroy ==
  /\ dn_life = "alive"
  /\ IF dn_kind = "cares"
     THEN /\ dn_life' = "dying"
          /\ dn_flags' = [q \in DnIds |-> IF dn_library[q] \in {"pending", "lost"}
                                         THEN SetNow(Failed) ELSE dn_flags[q]]
          /\ dn_library' = [q \in DnIds |-> IF q <= dn_asked THEN "done" ELSE "none"]
          /\ dn_open' = FALSE
          /\ dn_wild' = IF dn_lock = "free" THEN dn_wild ELSE dn_wild \cup {"channel"}
          /\ UNCHANGED dn_active
     ELSE /\ dn_life' = "dead" /\ dn_active' = {}
          /\ UNCHANGED <<dn_flags, dn_library, dn_open, dn_wild>>
  /\ UNCHANGED <<dn_kind, dn_asked, dn_stores, dn_told, dn_opened, dn_callback, dn_lock, dn_lost>>

(* An event epoll had before the socket was closed comes to the callback,  *)
(* which is there until Remove.                                            *)
SocketEventLate ==
  /\ dn_life = "dying" /\ dn_callback /\ dn_lock = "free"
  /\ dn_wild' = dn_wild \cup {"channel"}
  /\ UNCHANGED <<dn_kind, dn_asked, dn_active, dn_library, dn_flags, dn_stores, dn_told, dn_lock,
                 dn_life, dn_lost>>
  /\ UNCHANGED dnSocket

(* The rest of the destructor: each of opened_sockets_ is removed from the *)
(* poller, which waits for ctl_mutex_, and the contexts go.                *)
DnRemoveSockets ==
  /\ dn_life = "dying" /\ (dn_opened => dn_lock = "free")
  /\ dn_life' = "dead" /\ dn_active' = {} /\ dn_callback' = FALSE
  /\ UNCHANGED <<dn_asked, dn_library, dn_flags, dn_stores, dn_told, dn_open, dn_opened, dn_lock>>
  /\ UNCHANGED dnRest

-----------------------------------------------------------------------------
DnProgress ==
  \/ \E q \in DnIds : SocketEvent(q) \/ SocketEventAgain(q) \/ DnUpdate(q)
  \/ \E q \in DnIds, s \in SetAddress \cup Failed : DnStore(q, s)
  \/ ProcessFdReturns \/ DnRemoveSockets

DnNext ==
  \/ DnProgress
  \/ \E q \in DnIds : QueryAnswered(q) \/ QueryPending(q) \/ QueryRefused(q) \/ DnLose(q)
  \/ DnDestroy \/ SocketEventLate

(* The poller's and lwip's threads and the loop of actions go on. *)
DnSpec == DnInit /\ [][DnNext]_dnVars /\ WF_dnVars(DnProgress)

-----------------------------------------------------------------------------
(* Properties *)

DnTypeOK ==
  /\ dn_active \subseteq 1..dn_asked
  /\ dn_lock \in {"free", "poller", "stuck"}
  /\ \A q \in DnIds : dn_stores[q] \subseteq SetAddress \cup Failed

(* A query keeps its QueryContext while the library may come back to it:   *)
(* a context is erased only by its own Update, which has then told the one *)
(* who asked, perhaps while the callback has stores still to make, or with *)
(* the resolver, when c-ares has ended the query and lwip has not.  What   *)
(* comes of the latter cases is dn_wild, and of nothing else.              *)
ContextAlive ==
  /\ \A q \in DnIds : q \notin dn_active =>
       /\ dn_library[q] \in {"pending", "lost"} => dn_kind = "esp32" /\ dn_life = "dead"
       /\ dn_stores[q] # {} => dn_told[q] # <<>> \/ dn_life = "dead"
  /\ "channel" \in dn_wild => dn_life # "alive"
  /\ "context" \in dn_wild => dn_life = "dead" \/ \E q \in DnIds : dn_told[q] # <<>>

(* The one who asks is told the outcome of a query at most once, and only  *)
(* after the library has decided it.                                       *)
DnToldOnce ==
  \A q \in DnIds : Len(dn_told[q]) <= 1 /\ (dn_told[q] # <<>> => dn_library[q] = "done")

(* Each query ends: the one who asked is told, unless lwip refused it, its *)
(* datagram was lost, the poller's thread waits for its own mutex, or the  *)
(* resolver is destroyed.                                                  *)
QueryEnds ==
  \A q \in DnIds :
    []<>(q \in dn_active => \/ dn_told[q] # <<>> \/ dn_library[q] \in {"refused", "lost"}
                             \/ dn_lock = "stuck" \/ dn_life # "alive")
=============================================================================
