----------------------------- MODULE Telemetry -----------------------------
(***************************************************************************)
(* The statistics of the telemetry (tele/traps/statistics_trap.cpp) and    *)
(* its collectors (tele/collectors.h), as the programs set them up         *)
(* (port/tele_init.cpp).                                                   *)
(*                                                                         *)
(* A Tele is a local variable: it counts a call and writes a log entry     *)
(* when it is constructed and adds its duration when its scope ends, so    *)
(* that Teles are open inside each other.  The sink's trap keeps the       *)
(* statistics in two parts, of which the older one is dropped when the     *)
(* newer one is full; an open Tele holds on to the part it began in.  A    *)
(* program first collects in a trap of its own ("init") and then, when the *)
(* saved objects are loaded, in the one of the object TeleStatistics       *)
(* ("object"), into which the first is merged.                             *)
(*                                                                         *)
(* A log entry is the number of its Tele and the index of its tag; the     *)
(* entry of index i takes i units of memory, a metric MetricSize.  Other   *)
(* threads' Teles are left out: the traps have no lock.                    *)
(***************************************************************************)
EXTENDS Naturals, Sequences, FiniteSets, SequencesExt, FiniteSetsExt

CONSTANTS
  TeKinds,       \* sinks: "object", or "stream", which prints as well
  Indices,       \* the tags' indices
  Counted,       \* those of modules with metrics
  Logged,        \* those of modules with logs
  MetricSize,    \* sizeof(MetricsStore::Metric)
  SizeLimit,     \* statistics_size_limit_
  Durations,     \* what a scope may take
  MaxTeles,      \* bound on the Teles that are begun
  MaxOpen,       \* bound on the Teles open inside each other
  MaxTeRestarts  \* bound on the restarts of the program

VARIABLES
  te_kind,     \* SELECTED_SINK
  te_heap,     \* the Statistics that were made, by number
  te_store,    \* the StatisticsStore of each trap
  te_sink,     \* the trap of the sink
  te_open,     \* the open Teles, the innermost last
  te_saved,    \* the saved store of TeleStatistics, or NotSaved
  te_told,     \* number of the last Tele
  te_newest,   \* number of the last Tele with a log in this process, or 0
  te_env,      \* AE_TELE_ENV was executed in this process
  te_restarts

teVars == <<te_kind, te_heap, te_store, te_sink, te_open, te_saved, te_told, te_newest,
            te_env, te_restarts>>

NoStatistics == 0
NotSaved == [saved |-> FALSE]

NoMetric == [count |-> 0, max |-> 0, sum |-> 0, min |-> 0]

(* Statistics: logs_, metrics_, size_; `free` are the numbers and indices  *)
(* whose memory size_ does not cover, since they came by Append or were    *)
(* saved before their Tele had ended.                                      *)
EmptyStatistics ==
  [logs |-> <<>>, metrics |-> [i \in {} |-> NoMetric], size |-> 0,
   freeLogs |-> {}, freeMetrics |-> {}]

Metrics(s) == DOMAIN s.metrics

(* A map with m at i, and the rest of f. *)
With(f, i, m) == [j \in DOMAIN f \cup {i} |-> IF j = i THEN m ELSE f[j]]

(* The default StatisticsStore over the statistics n; `displaced` says     *)
(* that a merge has put newer logs in prev_ than there are in current_.    *)
NewStore(n) == [cur |-> n, prev |-> NoStatistics, env |-> FALSE, displaced |-> FALSE]

TeInit ==
  /\ te_kind \in TeKinds
  /\ te_heap = <<EmptyStatistics, EmptyStatistics>>
  /\ te_store = [init |-> NewStore(1), object |-> NewStore(2)]
  /\ te_sink = "init"
  /\ te_open = <<>>
  /\ te_saved = NotSaved
  /\ te_told = 0
  /\ te_newest = 0
  /\ te_env = FALSE
  /\ te_restarts = 0
-----------------------------------------------------------------------------
IsCurrentFull(heap, store) == heap[store.cur].size >= SizeLimit

Rotate(heap, store) ==
  [heap |-> Append(heap, EmptyStatistics),
   store |-> [store EXCEPT !.prev = store.cur, !.cur = Len(heap) + 1, !.displaced = FALSE]]

(* StatisticsStore::Get: the heap and the store, rotated if need be. *)
GetStatistics(heap, store) ==
  IF IsCurrentFull(heap, store) THEN Rotate(heap, store) ELSE [heap |-> heap, store |-> store]

(* metric_stream: the metric of an index, which operator[] makes if need be. *)
MetricAt(s, i) == IF i \in Metrics(s) THEN s.metrics[i] ELSE NoMetric

(* MetricStream::add_count. *)
AddCount(s, i) ==
  [s EXCEPT !.metrics = With(s.metrics, i, [MetricAt(s, i) EXCEPT !.count = @ + 1])]

(* MetricStream::add_duration.  min_duration begins with 0 and stays 0. *)
AddDuration(s, i, d) ==
  [s EXCEPT !.metrics[i] = [count |-> @.count, max |-> Max({@.max, d}),
                            sum |-> @.sum + d, min |-> Min({@.min, d})]]

(* ~ProxyStatistics<MetricsStore> that saw `seen` metrics when it was made. *)
CountMetrics(s, seen) ==
  IF seen >= Cardinality(Metrics(s)) THEN s
  ELSE [s EXCEPT !.size = @ + (Cardinality(Metrics(s)) - seen) * MetricSize]

(* ~ProxyStatistics<LogStore> of the stream that added the last entry: one *)
(* more than it saw, since a log stream lives in the constructor of Tele.  *)
CountLog(s) == [s EXCEPT !.size = @ + Last(s.logs).index]

(* What LogStream writes: index, time, level, module, place, name, blob. *)
Entry(n, i) == [tele |-> n, index |-> i]

(* log_stream: an entry is added, written and counted. *)
WriteLog(s, n, i) == CountLog([s EXCEPT !.logs = Append(@, Entry(n, i))])

(* Tele::Tele: the metric stream, then the log stream, each of which takes *)
(* the current statistics.  A Tele of neither kind does nothing.           *)
TeleBegin(i) ==
  /\ te_told < MaxTeles /\ Len(te_open) < MaxOpen
  /\ i \in Counted \cup Logged
  /\ LET n == te_told + 1
         g == GetStatistics(te_heap, te_store[te_sink])
         metric == IF i \in Counted THEN [g.heap EXCEPT ![g.store.cur] = AddCount(@, i)] ELSE g.heap
         l == GetStatistics(metric, g.store)
         log == IF i \in Logged THEN [l.heap EXCEPT ![l.store.cur] = WriteLog(@, n, i)] ELSE l.heap
     IN  /\ te_heap' = log
         /\ te_store' = [te_store EXCEPT ![te_sink] = l.store]
         /\ te_open' = Append(te_open,
                [index |-> i, at |-> IF i \in Counted THEN g.store.cur ELSE NoStatistics,
                 seen |-> Cardinality(Metrics(g.heap[g.store.cur]))])
         /\ te_told' = n
         /\ te_newest' = IF i \in Logged THEN n ELSE te_newest
  /\ UNCHANGED <<te_kind, te_sink, te_saved, te_env, te_restarts>>

(* Tele::~Tele of the innermost Tele: the duration, then the proxy's size. *)
TeleEnd(d) ==
  /\ te_open # <<>>
  /\ LET t == Last(te_open)
     IN  te_heap' = IF t.at = NoStatistics THEN te_heap
                    ELSE [te_heap EXCEPT
                            ![t.at] = CountMetrics(AddDuration(@, t.index, d), t.seen)]
  /\ te_open' = Front(te_open)
  /\ UNCHANGED <<te_kind, te_store, te_sink, te_saved, te_told, te_newest, te_env,
                 te_restarts>>

(* EnvStream fills in the fields of the store's environment. *)
EnvStream(store) == [store EXCEPT !.env = TRUE]

(* EnvTele::EnvTele: the environment goes to the store of the sink's trap. *)
(* Programs execute AE_TELE_ENV right after TeleInit::Init, if at all.     *)
EnvTele ==
  /\ te_sink = "init" /\ te_open = <<>> /\ te_heap[te_store.init.cur] = EmptyStatistics
  /\ te_store.init.prev = NoStatistics
  /\ te_store' = [te_store EXCEPT ![te_sink] = EnvStream(@)]
  /\ te_env' = TRUE
  /\ UNCHANGED <<te_kind, te_heap, te_sink, te_open, te_saved, te_told, te_newest,
                 te_restarts>>
-----------------------------------------------------------------------------
(* Two metrics of one index as one. *)
JoinedMetric(a, b) ==
  [count |-> a.count + b.count, max |-> Max({a.max, b.max}),
   sum |-> a.sum + b.sum, min |-> Min({a.min, b.min})]

(* Statistics::Append: logs and metrics of `other` come behind; size_ is   *)
(* left as it is.                                                          *)
AppendedFirst(s, other) ==
  [s EXCEPT !.logs = @ \o other.logs, !.metrics = s.metrics @@ other.metrics,
            !.freeLogs = @ \cup {e.tele : e \in ToSet(other.logs)},
            !.freeMetrics = @ \cup (Metrics(other) \ Metrics(s))]
Appended(s, other) ==
  [s EXCEPT
     !.logs = @ \o other.logs,
     !.metrics = [i \in Metrics(s) \cup Metrics(other) |->
                    IF i \notin Metrics(other) THEN s.metrics[i]
                    ELSE IF i \notin Metrics(s) THEN other.metrics[i]
                    ELSE JoinedMetric(s.metrics[i], other.metrics[i])],
     !.freeLogs = @ \cup {e.tele : e \in ToSet(other.logs)},
     !.freeMetrics = @ \cup (Metrics(other) \ Metrics(s))]

(* StatisticsStore::Merge of a newer store: its current statistics are     *)
(* appended, its previous ones and its environment replace the older.      *)
Merge(heap, store, newer) ==
  LET g == GetStatistics(heap, store)
  IN  [heap |-> [g.heap EXCEPT ![g.store.cur] = Appended(@, heap[newer.cur])],
       store |-> [g.store EXCEPT !.prev = IF newer.prev # NoStatistics THEN newer.prev ELSE @,
                                 !.displaced = @ \/ newer.prev # NoStatistics,
                                 !.env = newer.env]]

(* TeleSinkReInit, once the saved objects are loaded.  For the sink that   *)
(* prints as well, the type that is compared is that of the trap, never    *)
(* that of the sink: nothing is merged and the sink keeps its trap.        *)
ReInit ==
  /\ te_kind = "object" /\ te_sink = "init"
  /\ LET m == Merge(te_heap, te_store.object, te_store.init)
     IN  /\ te_heap' = m.heap
         /\ te_store' = [te_store EXCEPT !.object = m.store]
  /\ te_sink' = "object"
  /\ UNCHANGED <<te_kind, te_open, te_saved, te_told, te_newest, te_env, te_restarts>>

(* The indices of the open Teles whose proxies hold the statistics n. *)
HeldMetrics(n) == {te_open[k].index : k \in {j \in DOMAIN te_open : te_open[j].at = n}}

(* Statistics::Serializator: the logs, the metrics and size_. *)
SavedStatistics(n) ==
  IF n = NoStatistics THEN EmptyStatistics
  ELSE [te_heap[n] EXCEPT !.freeMetrics = @ \cup HeldMetrics(n)]

(* TeleStatistics is saved with the objects (StatisticsStore::Serializator). *)
(* A save that no restart follows is not looked at.                        *)
TeSave ==
  LET store == te_store.object
  IN  /\ te_restarts < MaxTeRestarts
      /\ te_saved' = [saved |-> TRUE, hasPrev |-> store.prev # NoStatistics, env |-> store.env,
                      prev |-> SavedStatistics(store.prev), cur |-> SavedStatistics(store.cur),
                      displaced |-> store.displaced]
      /\ UNCHANGED <<te_kind, te_heap, te_store, te_sink, te_open, te_told, te_newest,
                     te_env, te_restarts>>

(* The program ends, or crashes with scopes open, and starts again:        *)
(* TeleSinkInit makes a new trap, and the object is loaded if it was saved. *)
TeRestart ==
  /\ te_restarts < MaxTeRestarts
  /\ te_restarts' = te_restarts + 1
  /\ IF te_saved.saved
     THEN /\ te_heap' = <<EmptyStatistics, te_saved.cur, te_saved.prev>>
          /\ te_store' = [init |-> NewStore(1),
                          object |-> [cur |-> 2, env |-> te_saved.env, displaced |-> te_saved.displaced,
                                      prev |-> IF te_saved.hasPrev THEN 3 ELSE NoStatistics]]
     ELSE /\ te_heap' = <<EmptyStatistics, EmptyStatistics>>
          /\ te_store' = [init |-> NewStore(1), object |-> NewStore(2)]
  /\ te_sink' = "init"
  /\ te_open' = <<>>
  /\ te_newest' = 0
  /\ te_env' = FALSE
  /\ UNCHANGED <<te_kind, te_saved, te_told>>

TeNext ==
  \/ \E i \in Indices : TeleBegin(i)
  \/ \E d \in Durations : TeleEnd(d)
  \/ EnvTele \/ ReInit \/ TeSave \/ TeRestart

TeSpec == TeInit /\ [][TeNext]_teVars
-----------------------------------------------------------------------------
(* The statistics that a trap can still reach. *)
Reachable == {te_store[t].cur : t \in {"init", "object"}}
           \cup ({te_store[t].prev : t \in {"init", "object"}} \ {NoStatistics})

Used == te_store[te_sink]
Logs(n) == IF n = NoStatistics THEN <<>> ELSE te_heap[n].logs
Numbers(n) == {e.tele : e \in ToSet(Logs(n))}

(* The variables have their types, and every number of statistics is one   *)
(* that was made.                                                          *)
TeTypeOK ==
  /\ te_sink \in {"init", "object"}
  /\ te_told \in 0..MaxTeles /\ te_newest \in 0..te_told
  /\ Reachable \subseteq DOMAIN te_heap
  /\ \A n \in DOMAIN te_heap : te_heap[n].size \in Nat /\ Metrics(te_heap[n]) \subseteq Counted
  /\ \A k \in DOMAIN te_open :
       te_open[k].at # NoStatistics =>
         te_open[k].at \in DOMAIN te_heap /\ te_open[k].index \in Metrics(te_heap[te_open[k].at])

(* The logs stay in the order of their writing through rotations, merges   *)
(* and restarts, no entry is kept twice, and the newest one is not lost.   *)
(* Only a merge of a store that was rotated before puts newer ones first.  *)
LogsKept ==
  /\ \A n \in Reachable : \A j, k \in DOMAIN Logs(n) : j < k => Logs(n)[j].tele < Logs(n)[k].tele
  /\ ~Used.displaced => \A p \in Numbers(Used.prev), c \in Numbers(Used.cur) : p < c
  /\ Numbers(Used.cur) \cap Numbers(Used.prev) = {}
  /\ te_newest # 0 => te_newest \in Numbers(Used.cur) \cup Numbers(Used.prev)

(* The metrics agree with the logs: where both are collected, a metric     *)
(* counts the entries of its index that are kept beside it.                *)
MetricsMatchLogs ==
  \A n \in Reachable : \A i \in Counted \cap Logged :
    Cardinality({k \in DOMAIN Logs(n) : Logs(n)[k].index = i})
      = (IF i \in Metrics(te_heap[n]) THEN te_heap[n].metrics[i].count ELSE 0)

(* size_ covers the memory of all that was collected in the statistics, so *)
(* that the limit is a limit; what was merged is not in it.  (An outer     *)
(* Tele counts the metrics of the inner ones again.)                       *)
SizeCovers ==
  \A n \in Reachable :
    LET s == te_heap[n]
        logs == SelectSeq(s.logs, LAMBDA e : e.tele \notin s.freeLogs)
        metrics == Metrics(s) \ (s.freeMetrics \cup HeldMetrics(n))
    IN  s.size >= MapThenSumSet(LAMBDA k : logs[k].index, DOMAIN logs) + Cardinality(metrics) * MetricSize

(* The environment that is kept is that of this process. *)
EnvIsCurrent == Used.env = te_env

(* What the telemetry keeps is exact: order, agreement, size, environment  *)
(* (StatisticsStore, Statistics, ProxyStatistics).                         *)
TelemetryExact == TeTypeOK /\ LogsKept /\ MetricsMatchLogs /\ SizeCovers /\ EnvIsCurrent
=============================================================================
