----------------------------- MODULE CloudLookup -----------------------------
(***************************************************************************)
(* Looking up the cloud of another client: GetClientCloudConnection, the   *)
(* GetClientCloudAction it runs over a connection to one of the client's   *)
(* own servers, and the registration of the answer with the manager.       *)
(*                                                                         *)
(* In a round of the action processor the lookup is updated before its     *)
(* child, and that before the writes it made (lu_turn); the outside acts   *)
(* at any point of a round.  An answer is marked with the attempt it       *)
(* answers: every attempt has streams of its own, with new ids.            *)
(***************************************************************************)
EXTENDS CloudConnections, StateMachine

CONSTANTS
  LuServers,       \* the client's own servers
  LuClouds,        \* the clouds (sets of server ids) that may be answered
  MaxLookups,      \* bound: calls of GetClientConnection(uid)
  MaxLinkFailures, \* bound: connections and writes that fail
  MaxLost          \* bound: answers lost

VARIABLES
  lu,              \* the lookup
  lu_turn,         \* the turn in the round: lookup, child, writes
  lu_child,        \* its get_client_cloud_action_
  lu_link,         \* the connection to an own server: none, connecting, connected, failed
  lu_kept,         \* own servers a cloud connection of the client is connected to
  lu_iterator,     \* server_list_it_ of the selector of the own cloud
  lu_cloud,        \* client_clouds_[uid]: its cloud, and the one its selector goes round
  lu_net,          \* answers on their way
  lu_count         \* history: lookups, attempts, failures, losses

luVars == <<lu, lu_turn, lu_child, lu_link, lu_kept, lu_iterator, lu_cloud, lu_net,
            lu_count>>

LookupStates == {"kTryCache", "kSelectServer", "kConnection", "kGetCloud",
                 "kCreateConnection", "kSuccess", "kStopped", "kFailed"}
ChildStates == {"kRequestCloud", "kRequestServerResolve", "kAllServersResolved",
                "kFailed", "kStoped"}

OwnServers == BuildList(LuServers)
NotKnown == {0}
Answers == {NotKnown} \cup LuClouds
LuIds == UNION LuClouds

(* The child: its state, the cloud answered, the servers resolved in the   *)
(* order of their answers, what it has written that is not sent yet (0 is  *)
(* the request for the cloud), and whether the writes are stopped.         *)
NoChild == [sm |-> Unmarked("kStoped"), runs |-> FALSE, cloud |-> {}, got |-> << >>,
            writes |-> {}, stopping |-> FALSE]
NewChild == [NoChild EXCEPT !.sm = Marked("kRequestCloud"), !.runs = TRUE]

(* A lookup: its state, the connection it holds, the connections whose     *)
(* events it waits for once, and how it ended.                             *)
Lookup == [sm |-> Marked("kTryCache"), hold |-> 0, onConnected |-> 0, onError |-> 0,
           end |-> "none"]
OverLookup(how) == [Lookup EXCEPT !.sm = Unmarked("kTryCache"), !.end = how]

(* The variables have their types. *)
LuTypeOK ==
  /\ lu.sm \in Machines(LookupStates) /\ lu_child.sm \in Machines(ChildStates)
  /\ {lu.hold, lu.onConnected, lu.onError} \subseteq {0} \cup LuServers
  /\ lu_child.cloud \in {{}} \cup LuClouds
  /\ lu_child.got \in Seq(LuIds) /\ lu_child.writes \subseteq {0} \cup LuIds
  /\ lu_link \in [LuServers -> {"none", "connecting", "connected", "failed"}]
  /\ lu_kept \subseteq LuServers
  /\ lu_iterator \in 1..(Len(OwnServers) + 1)
  /\ lu_cloud \in [cloud : SUBSET ({0} \cup LuIds), selector : SUBSET ({0} \cup LuIds)]

(* The client's own cloud connections have moved the selector they share   *)
(* with the lookup, and hold some of the connections.                      *)
LuInit ==
  /\ lu = OverLookup("idle") /\ lu_turn = "lookup" /\ lu_child = NoChild
  /\ lu_kept \in SUBSET LuServers
  /\ lu_link = [s \in LuServers |-> IF s \in lu_kept THEN "connected" ELSE "none"]
  /\ lu_iterator \in 1..(Len(OwnServers) + 1)
  /\ lu_cloud = [cloud |-> NotKnown, selector |-> NotKnown]
  /\ lu_net = {}
  /\ lu_count = [lookups |-> 0, attempts |-> 0, failures |-> 0, lost |-> 0]

LuRunning == lu.end = "none"

(* The round goes on to the next action, and after the last to the first. *)
LuTurn(from) ==
  /\ lu_turn = from
  /\ lu_turn' = CASE from = "lookup" -> "child" [] from = "child" -> "writes"
                  [] from = "writes" -> "lookup"

(* GetClientConnection(uid) *)
StartLookup ==
  /\ ~LuRunning
  /\ lu_count.lookups < MaxLookups
  /\ lu' = Lookup
  /\ lu_count' = [lu_count EXCEPT !.lookups = @ + 1]
  /\ UNCHANGED <<lu_turn, lu_child, lu_link, lu_kept, lu_iterator, lu_cloud, lu_net>>

-----------------------------------------------------------------------------
(* Update of the lookup *)

Goes(val) == lu' = [lu EXCEPT !.sm = Set(Acquire(@), val)]

(* GetCloudServerConnectionSelector makes the selector of a known cloud    *)
(* when it is first asked for, and gives the same one ever after.          *)
Selector(cloud) == IF lu_cloud.selector = NotKnown THEN cloud ELSE lu_cloud.selector

TryCache ==
  /\ IF lu_cloud.cloud = NotKnown
     THEN Goes("kSelectServer") /\ UNCHANGED lu_cloud
     ELSE Goes("kSuccess") /\ lu_cloud' = [lu_cloud EXCEPT !.selector = Selector(lu_cloud.cloud)]
  /\ UNCHANGED <<lu_child, lu_link, lu_kept, lu_iterator, lu_net, lu_count>>

(* Both NextServers are always called, and the second one counts. *)
First == NextServer(OwnServers, lu_iterator)
Selected == NextServer(OwnServers, First.it)

(* The connections after the lookup has taken the first server in the      *)
(* place of the one it held, and then s in the place of the first.  A      *)
(* connection is used again if something held it all the time.             *)
LinksAfter(s) ==
  [t \in LuServers |->
     CASE t = s -> IF t \in lu_kept \/ (t = lu.hold /\ t = First.server)
                   THEN lu_link[t] ELSE "connecting"
       [] t # s /\ t \in lu_kept -> lu_link[t]
       [] OTHER -> "none"]

SelectServer ==
  LET s == Selected.server
  IN /\ lu_iterator' = Selected.it
     /\ lu_link' = LinksAfter(s)
     /\ lu' = [lu EXCEPT !.hold = s,
          !.sm = Set(Acquire(@), CASE s = 0 -> "kFailed"
                                   [] s # 0 /\ LinksAfter(s)[s] = "connected" -> "kGetCloud"
                                   [] OTHER -> "kConnection"),
          !.onConnected = IF s # 0 /\ LinksAfter(s)[s] # "connected" THEN s ELSE @,
          !.onError = IF s # 0 /\ LinksAfter(s)[s] # "connected" THEN s ELSE @]
     /\ UNCHANGED <<lu_child, lu_kept, lu_cloud, lu_net, lu_count>>

WaitConnection ==
  /\ lu' = [lu EXCEPT !.sm = Acquire(@)]
  /\ UNCHANGED <<lu_child, lu_link, lu_kept, lu_iterator, lu_cloud, lu_net, lu_count>>

(* GetCloud: a new child in the place of the one before, whose streams go  *)
(* with it.                                                                *)
GetCloud ==
  /\ lu' = [lu EXCEPT !.sm = Acquire(@)]
  /\ lu_child' = NewChild
  /\ lu_count' = [lu_count EXCEPT !.attempts = @ + 1]
  /\ UNCHANGED <<lu_link, lu_kept, lu_iterator, lu_cloud, lu_net>>

(* CreateConnection: RegisterCloud with the servers resolved, and the      *)
(* selector to go round them.                                              *)
RegisterAnswer ==
  /\ Goes("kSuccess")
  /\ LET cloud == Range(lu_child.got)
     IN lu_cloud' = [cloud |-> cloud, selector |-> Selector(cloud)]
  /\ UNCHANGED <<lu_child, lu_link, lu_kept, lu_iterator, lu_net, lu_count>>

(* Result, Error or StopLookup: the action is destroyed, with its child. *)
LookupOver(how) ==
  /\ lu' = OverLookup(how)
  /\ lu_child' = NoChild
  /\ lu_link' = [lu_link EXCEPT ![CHOOSE s \in LuServers : lu.hold \in {0, s}] =
       IF lu.hold \in {0} \cup lu_kept THEN @ ELSE "none"]
  /\ UNCHANGED <<lu_kept, lu_iterator, lu_cloud, lu_net, lu_count>>

UpdateLookup ==
  /\ LuTurn("lookup")
  /\ LuRunning /\ lu.sm.changed
  /\ \/ lu.sm.state = "kTryCache" /\ TryCache
     \/ lu.sm.state = "kSelectServer" /\ SelectServer
     \/ lu.sm.state = "kConnection" /\ WaitConnection
     \/ lu.sm.state = "kGetCloud" /\ GetCloud
     \/ lu.sm.state = "kCreateConnection" /\ RegisterAnswer
     \/ lu.sm.state = "kSuccess" /\ LookupOver("result")
     \/ lu.sm.state = "kStopped" /\ LookupOver("stop")
     \/ lu.sm.state = "kFailed" /\ LookupOver("error")

(* StopLookup, of the lookup and of its child and the child's writes. *)
StopLookup ==
  /\ LuRunning
  /\ lu.sm.state # "kStopped"
  /\ lu' = [lu EXCEPT !.sm = Set(@, "kStopped")]
  /\ lu_child' = IF lu_child.runs
                 THEN [lu_child EXCEPT !.sm = Set(@, "kStoped"), !.stopping = TRUE]
                 ELSE lu_child
  /\ UNCHANGED <<lu_turn, lu_link, lu_kept, lu_iterator, lu_cloud, lu_net, lu_count>>

-----------------------------------------------------------------------------
(* Update of the child, and its writes *)

ChildWrites(ids) ==
  /\ lu_child' = [lu_child EXCEPT !.sm = Acquire(@), !.writes = @ \cup ids]
  /\ UNCHANGED lu

ChildEnds(val) ==
  /\ lu_child' = [lu_child EXCEPT !.sm = Acquire(@), !.runs = FALSE]
  /\ lu' = [lu EXCEPT !.sm = Set(@, val)]

(* RequestCloud, RequestServerResolve, and the three ways to end. *)
UpdateChild ==
  /\ LuTurn("child")
  /\ lu_child.runs /\ lu_child.sm.changed
  /\ \/ lu_child.sm.state = "kRequestCloud" /\ ChildWrites({0})
     \/ lu_child.sm.state = "kRequestServerResolve" /\ ChildWrites(lu_child.cloud)
     \/ lu_child.sm.state = "kAllServersResolved" /\ ChildEnds("kCreateConnection")
     \/ lu_child.sm.state = "kFailed" /\ ChildEnds("kSelectServer")
     \/ lu_child.sm.state = "kStoped" /\ ChildEnds("kStopped")
  /\ UNCHANGED <<lu_link, lu_kept, lu_iterator, lu_cloud, lu_net, lu_count>>

(* A write goes out; the server will answer it. *)
WriteSent(w) ==
  /\ lu_turn = "writes"
  /\ w \in lu_child.writes
  /\ lu.hold # 0 /\ lu_link[lu.hold] = "connected"
  /\ lu_child' = [lu_child EXCEPT !.writes = @ \ {w}]
  /\ lu_net' = lu_net \cup {[attempt |-> lu_count.attempts, asked |-> w]}
  /\ UNCHANGED <<lu_turn, lu, lu_link, lu_kept, lu_iterator, lu_cloud, lu_count>>

(* The write fails, or was stopped. *)
WriteFails(w) ==
  /\ lu_turn = "writes"
  /\ w \in lu_child.writes
  /\ lu_child.stopping \/ lu_count.failures < MaxLinkFailures
  /\ lu_count' = IF lu_child.stopping THEN lu_count
                 ELSE [lu_count EXCEPT !.failures = @ + 1]
  /\ lu_child' = [lu_child EXCEPT !.writes = @ \ {w}, !.sm = Set(@, "kFailed")]
  /\ UNCHANGED <<lu_turn, lu, lu_link, lu_kept, lu_iterator, lu_cloud, lu_net>>

(* An action that has nothing to do; the end of the round. *)
LuPass ==
  /\ \/ LuTurn("lookup") /\ ~(LuRunning /\ lu.sm.changed) /\ (lu_child.runs \/ LuRunning)
     \/ LuTurn("child") /\ ~(lu_child.runs /\ lu_child.sm.changed)
     \/ LuTurn("writes") /\ (lu_child.stopping => lu_child.writes = {})
  /\ UNCHANGED <<lu, lu_child, lu_link, lu_kept, lu_iterator, lu_cloud, lu_net, lu_count>>

-----------------------------------------------------------------------------
(* The outside *)

(* The stream of an answer is one of the child's. *)
IsFor(m) == m.attempt = lu_count.attempts

(* OnCloudResponse *)
OnCloudResponse(m, cloud) ==
  /\ m.asked = 0
  /\ lu_child' = IF IsFor(m) /\ lu_child # NoChild
                 THEN [lu_child EXCEPT !.cloud = cloud,
                                       !.sm = Set(@, "kRequestServerResolve")]
                 ELSE lu_child

\* Mutant: one server too few is waited for.
AllResolvedEarly(got) == Len(got) + 1 >= Cardinality(lu_child.cloud)

AllResolved(got) == Len(got) = Cardinality(lu_child.cloud)

(* OnServerResponse: the answers are counted. *)
OnServerResponse(m) ==
  /\ m.asked # 0
  /\ lu_child' = IF IsFor(m) /\ lu_child # NoChild
                 THEN LET got == Append(lu_child.got, m.asked)
                      IN [lu_child EXCEPT !.got = got,
                            !.sm = IF AllResolved(got) THEN Set(@, "kAllServersResolved") ELSE @]
                 ELSE lu_child

(* An answer comes.  The cloud of a client does not depend on the server   *)
(* that is asked, but may be another one at the next question.             *)
LuResponse ==
  /\ \E m \in lu_net :
       /\ \/ \E cloud \in LuClouds : OnCloudResponse(m, cloud)
          \/ OnServerResponse(m)
       /\ lu_net' = lu_net \ {m}
  /\ UNCHANGED <<lu_turn, lu, lu_link, lu_kept, lu_iterator, lu_cloud, lu_count>>

AnswerLost ==
  /\ lu_count.lost < MaxLost
  /\ \E m \in lu_net : lu_net' = lu_net \ {m}
  /\ lu_count' = [lu_count EXCEPT !.lost = @ + 1]
  /\ UNCHANGED <<lu_turn, lu, lu_child, lu_link, lu_kept, lu_iterator, lu_cloud>>

(* connected_event, which the lookup takes once. *)
LuConnected(s) ==
  /\ lu_link[s] = "connecting"
  /\ lu_link' = [lu_link EXCEPT ![s] = "connected"]
  /\ lu' = IF lu.onConnected = s
           THEN [lu EXCEPT !.sm = Set(@, "kGetCloud"), !.onConnected = 0] ELSE lu
  /\ UNCHANGED <<lu_turn, lu_child, lu_kept, lu_iterator, lu_cloud, lu_net, lu_count>>

(* connection_error_event, which the lookup takes once; also when it is    *)
(* already asking for the cloud.                                           *)
OnError(s) ==
  lu' = IF lu.onError = s
        THEN [lu EXCEPT !.sm = Set(@, "kSelectServer"), !.onError = 0] ELSE lu

(* A connection dies, with the answers under way; a cloud connection of    *)
(* the client that held it lets go of it.                                  *)
LuFailed(s) ==
  /\ lu_link[s] \in {"connecting", "connected"}
  /\ lu_count.failures < MaxLinkFailures
  /\ lu_count' = [lu_count EXCEPT !.failures = @ + 1]
  /\ lu_kept' = lu_kept \ {s}
  /\ lu_link' = [lu_link EXCEPT ![s] = IF lu.hold = s THEN "failed" ELSE "none"]
  /\ lu_net' = IF lu.hold = s THEN {} ELSE lu_net
  /\ OnError(s)
  /\ UNCHANGED <<lu_turn, lu_child, lu_iterator, lu_cloud>>

LuNext ==
  \/ StartLookup \/ UpdateLookup \/ StopLookup
  \/ UpdateChild \/ LuPass
  \/ \E w \in {0} \cup LuIds : WriteSent(w) \/ WriteFails(w)
  \/ LuResponse \/ AnswerLost
  \/ \E s \in LuServers : LuConnected(s) \/ LuFailed(s)

LuSpec == LuInit /\ [][LuNext]_luVars

-----------------------------------------------------------------------------
(* Properties *)

(* What is registered for the client is a cloud that was answered, with    *)
(* every one of its servers resolved: answers to an earlier attempt, or    *)
(* fewer of them than servers, never end up in it.                         *)
RegisteredAsAnswered == lu_cloud.cloud \in Answers

(* A lookup with nothing left to do and nothing to wait for has ended.     *)
(* The exceptions: an answer was lost, the cloud answered is empty, or the *)
(* connection died after the lookup found it connected, which is not       *)
(* listened to (SelectServer).                                             *)
NothingAwaited ==
  /\ ~lu.sm.changed /\ ~(lu_child.runs /\ lu_child.sm.changed)
  /\ lu_net = {}
  /\ lu.hold # 0 => lu_link[lu.hold] # "connecting"
  /\ lu_child.writes # {} => lu_link[lu.hold] = "failed"
LookupEnds ==
  LuRunning /\ NothingAwaited =>
    \/ lu_count.lost > 0
    \/ lu_child.runs /\ lu_child.sm.state = "kRequestServerResolve" /\ lu_child.cloud = {}
    \/ lu_link[lu.hold] = "failed" /\ lu.onError # lu.hold
=============================================================================
