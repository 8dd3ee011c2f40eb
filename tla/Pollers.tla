------------------------------ MODULE Pollers ------------------------------
(***************************************************************************)
(* The pollers: a thread of its own waits for events of descriptors and    *)
(* calls the callbacks that the main thread adds and removes.  EpollPoller *)
(* and KqueuePoller ask the kernel, which keeps the descriptors, IoCPPoller *)
(* a completion port, FreertosPoller polls a list it fills before each     *)
(* poll.  An event has a key: the descriptor, and for the completion port  *)
(* also its type.                                                          *)
(***************************************************************************)
EXTENDS Naturals, Sequences, FiniteSets, SequencesExt

CONSTANTS
  PoKinds,     \* subset of {"epoll", "kqueue", "freertos", "win"}
  PoFds,       \* descriptors
  MaxPoAdds,   \* bounds
  MaxPoEvents

ASSUME PollersAssumption == IsFiniteSet(PoFds) /\ MaxPoAdds \in Nat

VARIABLES
  po_kind,
  po_callbacks,  \* callbacks_ or events_: the number of the callback, or 0
  po_kernel,     \* keys the kernel watches, or the list of FreertosPoller
  po_ready,      \* keys with an event the kernel has not reported
  po_adding,     \* a key KqueuePoller has registered with the kernel only
  po_thread,     \* where the poller thread is
  po_lock,       \* ctl_mutex_ or events_lock_: "free" or "poller"
  po_batch,      \* the events the last wait gave, not handled yet
  po_found,      \* the callback just looked up, or 0
  po_stop,       \* stop_requested_
  po_adds, po_events,
  po_due,        \* history: keys with an event since their callback was last called
  po_stale       \* history: a callback was called that had been removed

poVars == <<po_kind, po_callbacks, po_kernel, po_ready, po_adding, po_thread, po_lock, po_batch,
            po_found, po_stop, po_adds, po_events, po_due, po_stale>>
poHistory == <<po_due, po_stale>>
poMain == <<po_callbacks, po_adding, po_stop, po_adds, po_events>>

NoKey == <<>>
PoKeys == IF po_kind = "win" THEN PoFds \X {"READ", "WRITE"} ELSE PoFds \X {"ANY"}
AllKeys == PoFds \X {"READ", "WRITE", "ANY"}

PoInit ==
  /\ po_kind \in PoKinds
  /\ po_callbacks = [k \in AllKeys |-> 0]
  /\ po_kernel = {} /\ po_ready = {} /\ po_adding = NoKey
  /\ po_thread = IF po_kind = "freertos" THEN "fill" ELSE "wait"
  /\ po_lock = "free" /\ po_batch = <<>> /\ po_found = 0 /\ po_stop = FALSE
  /\ po_adds = 0 /\ po_events = 0
  /\ po_due = {} /\ po_stale = FALSE

-----------------------------------------------------------------------------
(* The main thread *)

(* Keys are added again while they are there, as DnsResolverCares does on  *)
(* every change of a socket; the user of the completion port, which would  *)
(* keep both, adds each once.                                              *)
MayAdd(k) ==
  /\ ~po_stop /\ po_adding = NoKey /\ po_adds < MaxPoAdds
  /\ k \in PoKeys
  /\ po_kind = "win" => po_callbacks[k] = 0

(* emplace: a callback that is there stays. *)
Emplaced(k, n) == [po_callbacks EXCEPT ![k] = IF po_callbacks[k] = 0 THEN n ELSE po_callbacks[k]]

(* vTaskResume wakes a task that is suspended. *)
Resumed == IF po_thread = "suspended" THEN "fill" ELSE po_thread

(* Add of all but KqueuePoller. *)
PoAdd(k) ==
  /\ MayAdd(k) /\ po_kind # "kqueue" /\ po_lock = "free"
  /\ po_adds' = po_adds + 1
  /\ po_callbacks' = Emplaced(k, po_adds + 1)
  /\ po_kernel' = IF po_kind = "freertos" THEN po_kernel ELSE po_kernel \cup {k}
  /\ po_thread' = IF po_kind = "freertos" THEN Resumed ELSE po_thread
  /\ UNCHANGED <<po_kind, po_ready, po_adding, po_lock, po_batch, po_found, po_stop, po_events>>
  /\ UNCHANGED poHistory

(* Add of KqueuePoller: the kernel knows the key before callbacks_ does. *)
KqueueAdd(k) ==
  /\ MayAdd(k) /\ po_kind = "kqueue"
  /\ po_adds' = po_adds + 1
  /\ po_kernel' = po_kernel \cup {k} /\ po_adding' = k
  /\ UNCHANGED <<po_kind, po_callbacks, po_ready, po_thread, po_lock, po_batch, po_found, po_stop,
                 po_events>>
  /\ UNCHANGED poHistory

KqueueEmplace ==
  /\ po_adding # NoKey /\ po_lock = "free"
  /\ po_callbacks' = Emplaced(po_adding, po_adds)
  /\ po_adding' = NoKey
  /\ UNCHANGED <<po_kind, po_kernel, po_ready, po_thread, po_lock, po_batch, po_found, po_stop,
                 po_adds, po_events>>
  /\ UNCHANGED poHistory

(* Remove: EpollPoller takes the key from the kernel too, KqueuePoller     *)
(* asks for a filter that does not exist and the kernel keeps the key, the *)
(* completion port keeps it until the descriptor is closed.                *)
PoRemove(k) ==
  /\ ~po_stop /\ po_adding = NoKey /\ po_lock = "free"
  /\ po_callbacks[k] # 0
  /\ po_callbacks' = [po_callbacks EXCEPT ![k] = 0]
  /\ po_kernel' = IF po_kind = "epoll" THEN po_kernel \ {k} ELSE po_kernel
  /\ po_ready' = IF po_kind = "epoll" THEN po_ready \ {k} ELSE po_ready
  /\ po_thread' = IF po_kind = "freertos" THEN Resumed ELSE po_thread
  /\ po_due' = po_due \ {k}
  /\ UNCHANGED <<po_kind, po_adding, po_lock, po_batch, po_found, po_stop, po_adds, po_events,
                 po_stale>>

(* The user closes the descriptor after Remove: the kernel drops it. *)
PoClose(fd) ==
  /\ po_adding = NoKey /\ po_kind # "freertos"
  /\ \A k \in PoKeys : k[1] = fd => po_callbacks[k] = 0
  /\ \E k \in PoKeys : k[1] = fd /\ k \in po_kernel
  /\ po_kernel' = {k \in po_kernel : k[1] # fd}
  /\ po_ready' = {k \in po_ready : k[1] # fd}
  /\ UNCHANGED <<po_kind, po_thread, po_lock, po_batch, po_found>>
  /\ UNCHANGED poMain /\ UNCHANGED poHistory

(* The poller's destructor: it sets stop_requested_, wakes the thread and  *)
(* joins it; FreertosPoller deletes its task wherever it is.               *)
PoDestroy ==
  /\ ~po_stop /\ po_adding = NoKey
  /\ po_stop' = TRUE
  /\ po_thread' = IF po_kind = "freertos" THEN "ended" ELSE po_thread
  /\ UNCHANGED <<po_kind, po_callbacks, po_kernel, po_ready, po_adding, po_lock, po_batch,
                 po_found, po_adds, po_events>>
  /\ UNCHANGED poHistory

(* Something happens to a descriptor. *)
PoReady(k) ==
  /\ po_events < MaxPoEvents /\ k \in PoKeys /\ k \notin po_ready
  /\ k \in po_kernel \/ (po_kind = "freertos" /\ po_callbacks[k] # 0)
  /\ po_events' = po_events + 1
  /\ po_ready' = po_ready \cup {k}
  /\ po_due' = IF po_callbacks[k] # 0 THEN po_due \cup {k} ELSE po_due
  /\ UNCHANGED <<po_kind, po_callbacks, po_kernel, po_adding, po_thread, po_lock, po_batch,
                 po_found, po_stop, po_adds, po_stale>>

-----------------------------------------------------------------------------
(* The poller thread: Loop *)

(* FreertosPoller fills its list, and suspends itself when it is empty. *)
FillFdsVector ==
  /\ po_thread = "fill" /\ po_lock = "free"
  /\ po_kernel' = {k \in PoKeys : po_callbacks[k] # 0}
  /\ po_thread' = IF po_kernel' = {} THEN "suspending" ELSE "wait"
  /\ UNCHANGED <<po_kind, po_ready, po_lock, po_batch, po_found>>
  /\ UNCHANGED poMain /\ UNCHANGED poHistory

PoSuspend ==
  /\ po_thread = "suspending"
  /\ po_thread' = "suspended"
  /\ UNCHANGED <<po_kind, po_kernel, po_ready, po_lock, po_batch, po_found>>
  /\ UNCHANGED poMain /\ UNCHANGED poHistory

(* What a wait may return: some of the events there are, one for the       *)
(* completion port, the whole list for FreertosPoller.                     *)
Reported ==
  LET there == po_ready \cap po_kernel
  IN CASE po_kind = "win" -> {{k} : k \in there}
       [] po_kind = "freertos" -> IF there = {} THEN {} ELSE {po_kernel}
       [] OTHER -> SUBSET there \ {{}}

PoWait ==
  /\ po_thread = "wait"
  /\ ~po_stop
  /\ \E keys \in Reported :
       /\ po_batch' \in SetToSeqs(keys)
       /\ po_ready' = po_ready \ keys
  /\ po_thread' = "got"
  /\ UNCHANGED <<po_kind, po_kernel, po_lock, po_found>>
  /\ UNCHANGED poMain /\ UNCHANGED poHistory

(* The event that wakes the thread up, or the test of stop_requested_. *)
PoStop ==
  /\ po_thread = "wait" /\ po_stop
  /\ po_thread' = "ended"
  /\ UNCHANGED <<po_kind, po_kernel, po_ready, po_lock, po_batch, po_found>>
  /\ UNCHANGED poMain /\ UNCHANGED poHistory

\* Mutant: the lock is not kept while callbacks are called.
HoldNot == po_lock' = "free"

HoldLock == po_lock' = "poller"

PoLock ==
  /\ po_thread = "got" /\ po_lock = "free"
  /\ po_thread' = "handle" /\ HoldLock
  /\ UNCHANGED <<po_kind, po_kernel, po_ready, po_batch, po_found>>
  /\ UNCHANGED poMain /\ UNCHANGED poHistory

(* After an event: KqueuePoller and IoCPPoller lock for each event anew. *)
Onward(rest) ==
  IF rest = <<>>
  THEN /\ po_thread' = IF po_kind = "freertos" THEN "fill" ELSE "wait"
       /\ po_lock' = "free"
  ELSE IF po_kind = "kqueue" THEN po_thread' = "got" /\ po_lock' = "free"
  ELSE UNCHANGED <<po_thread, po_lock>>

(* An event whose descriptor is not known at all is passed over by the     *)
(* completion port; an unknown type is an error there.                     *)
Unknown(k) == \A j \in PoKeys : j[1] = k[1] => po_callbacks[j] = 0

(* The event has a callback. *)
PoFind ==
  /\ po_thread = "handle" /\ po_found = 0 /\ po_batch # <<>>
  /\ po_callbacks[Head(po_batch)] # 0
  /\ po_found' = po_callbacks[Head(po_batch)]
  /\ UNCHANGED <<po_kind, po_kernel, po_ready, po_thread, po_lock, po_batch>>
  /\ UNCHANGED poMain /\ UNCHANGED poHistory

(* It has none, and the loop goes on. *)
PoSkip ==
  /\ po_thread = "handle" /\ po_found = 0 /\ po_batch # <<>>
  /\ po_callbacks[Head(po_batch)] = 0
  /\ po_kind # "kqueue" /\ (po_kind = "win" => Unknown(Head(po_batch)))
  /\ po_batch' = Tail(po_batch) /\ Onward(Tail(po_batch))
  /\ UNCHANGED <<po_kind, po_kernel, po_ready, po_found, po_due, po_stale>>
  /\ UNCHANGED poMain

(* It has none: KqueuePoller's Loop returns, IoCPPoller's uses the end of  *)
(* its list.                                                               *)
PoReturn ==
  /\ po_thread = "handle" /\ po_found = 0 /\ po_batch # <<>>
  /\ po_callbacks[Head(po_batch)] = 0
  /\ po_kind = "kqueue" \/ (po_kind = "win" /\ ~Unknown(Head(po_batch)))
  /\ po_thread' = "returned" /\ po_lock' = "free" /\ po_batch' = <<>>
  /\ UNCHANGED <<po_kind, po_kernel, po_ready, po_found, po_due, po_stale>>
  /\ UNCHANGED poMain

PoCall ==
  /\ po_thread = "handle" /\ po_found # 0
  /\ po_stale' = (po_stale \/ po_callbacks[Head(po_batch)] # po_found)
  /\ po_found' = 0
  /\ po_due' = IF Head(po_batch) \in po_ready THEN po_due ELSE po_due \ {Head(po_batch)}
  /\ po_batch' = Tail(po_batch) /\ Onward(Tail(po_batch))
  /\ UNCHANGED <<po_kind, po_kernel, po_ready>>
  /\ UNCHANGED poMain

PoThread ==
  \/ FillFdsVector \/ PoSuspend \/ PoWait \/ PoStop \/ PoLock
  \/ PoFind \/ PoSkip \/ PoReturn \/ PoCall

PoNext ==
  \/ \E k \in AllKeys : PoAdd(k) \/ KqueueAdd(k) \/ PoRemove(k) \/ PoReady(k)
  \/ KqueueEmplace \/ PoDestroy
  \/ \E fd \in PoFds : PoClose(fd)
  \/ PoThread

(* The poller's thread runs, and so does the main thread inside Add. *)
PoProgress == PoThread \/ KqueueEmplace

PoSpec == PoInit /\ [][PoNext]_poVars /\ WF_poVars(PoProgress)

-----------------------------------------------------------------------------
(* Properties *)

(* The variables have their types. *)
PoTypeOK ==
  /\ po_kind \in PoKinds /\ po_lock \in {"free", "poller"}
  /\ \A k \in AllKeys : po_callbacks[k] \in 0 .. MaxPoAdds
  /\ po_kernel \cup po_ready \cup po_due \subseteq AllKeys
  /\ po_thread \in {"fill", "suspending", "suspended", "wait", "got", "handle", "returned", "ended"}
  /\ po_found \in 0 .. MaxPoAdds

(* Once Remove has returned, the callback is not called any more: the      *)
(* transport it refers to may be destroyed, in every poller.               *)
NoCallAfterRemove == ~po_stale

(* A callback that was removed stays silent (EpollPoller::Remove and its   *)
(* peers, which wait for the loop's lock).                                 *)
RemovedStaySilent == PoTypeOK /\ NoCallAfterRemove

(* Every poller calls the callback of a descriptor on which something      *)
(* happened, the first one that was added, unless it is removed before,    *)
(* the poller is destroyed, or the poller has gone deaf: Loop of           *)
(* KqueuePoller or IoCPPoller met an event without callback,               *)
(* FreertosPoller suspended itself after an Add it had not seen, or waits  *)
(* without end for an older list.                                          *)
Deaf(k) ==
  \/ po_stop \/ po_thread \in {"returned", "suspended"}
  \/ po_kind = "freertos" /\ po_thread = "wait" /\ k \notin po_kernel

Delivered == \A k \in AllKeys : []<>(k \in po_due => Deaf(k))

(* The destructor of a poller comes to its end: the thread it joins ends.  *)
Joined == []<>(po_stop => po_thread \in {"ended", "returned"})
=============================================================================
