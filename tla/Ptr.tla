-------------------------------- MODULE Ptr --------------------------------
(***************************************************************************)
(* Ptr and PtrView: reference counts that also free cycles.  When a Ptr is *)
(* let go of and it is not the last one, the references reachable from its *)
(* object are counted; if they account for all references to it, and no    *)
(* object with further references reaches it, the object goes.             *)
(*                                                                         *)
(* Objects have PtrSlots members of type Ptr, all of them visited; the     *)
(* variables of type Ptr outside of objects are PtrRoots.                  *)
(***************************************************************************)
EXTENDS Naturals, Sequences, FiniteSets, SequencesExt

CONSTANTS
  PtrObjects,  \* number of objects made
  PtrSlots,    \* members of type Ptr in an object
  PtrRoots,    \* variables of type Ptr
  PtrViews,    \* variables of type PtrView
  PtrUses      \* what programs also do: "shared", Reset on one of several Ptr of
               \* an object; "cycle", assigning again a member that is on a cycle

VARIABLES
  ptr_heap,    \* counters, live objects and the members of the objects
  ptr_roots,   \* the object of a variable, 0 for none
  ptr_views,   \* the object a view has seen, 0 for none
  ptr_given,   \* variables on which Reset was called, and nothing assigned since
  ptr_made     \* number of objects made

ptrVars == <<ptr_heap, ptr_roots, ptr_views, ptr_given, ptr_made>>

Objs == 1..PtrObjects
Slots == 1..PtrSlots

PtrInit ==
  /\ ptr_heap = [ref |-> [x \in Objs |-> 0], manage |-> [x \in Objs |-> 0], wild |-> FALSE,
                 alive |-> {}, slots |-> [x \in Objs |-> [k \in Slots |-> 0]]]
  /\ ptr_roots = [r \in PtrRoots |-> 0] /\ ptr_views = [v \in PtrViews |-> 0]
  /\ ptr_given = {} /\ ptr_made = 0

-----------------------------------------------------------------------------
(* The graph *)

(* Ptr::get: nothing once the counter is 0. *)
Get(h, x) == IF x # 0 /\ h.ref[x] # 0 THEN {x} ELSE {}

(* RefTree::children *)
Children(h, x) == UNION {Get(h, h.slots[x][k]) : k \in Slots}

RECURSIVE Visited(_, _, _)

(* The objects a visit from some of them comes to. *)
Visited(h, todo, seen) ==
  IF todo = {} THEN seen
  ELSE LET x == CHOOSE y \in todo : TRUE
       IN Visited(h, (todo \cup Children(h, x)) \ (seen \cup {x}), seen \cup {x})

Reachable(h, x) == Visited(h, Children(h, x), {})

(* reachable_ref_count: the Ptr that is let go of, and one for each member *)
(* of a visited object that refers to x.                                   *)
ReachableRefs(h, top, x) ==
  Cardinality({<<y, k>> \in Visited(h, {top}, {}) \X Slots : h.slots[y][k] = x})
    + (IF x = top THEN 1 ELSE 0)

(* safe_to_delete of DecrementGraph *)
SafeToDelete(h, t) ==
  /\ h.ref[t] = ReachableRefs(h, t, t)
  /\ \A x \in Visited(h, {t}, {}) \ {t} :
       h.ref[x] > ReachableRefs(h, t, x) => t \notin Reachable(h, x)

-----------------------------------------------------------------------------
(* SharedPointer: the manager that holds the counters of an object is there *)
(* while a Ptr or a PtrView refers to it.  wild: one was used after that.   *)

Manage(h, x) ==
  IF x = 0 THEN h ELSE [h EXCEPT !.manage[x] = @ + 1, !.wild = @ \/ h.manage[x] = 0]

Unmanage(h, x) ==
  IF x = 0 THEN h
  ELSE IF h.manage[x] = 0 THEN [h EXCEPT !.wild = TRUE]
  ELSE [h EXCEPT !.manage[x] = @ - 1]

-----------------------------------------------------------------------------
(* Letting go *)

RECURSIVE ResetPtr(_, _)

(* Delete: the destructor of the object, and of its members last to first. *)
Delete(h, x) ==
  FoldRight(LAMBDA k, g : LET f == Unmanage(ResetPtr(g, g.slots[x][k]), g.slots[x][k])
                          IN [f EXCEPT !.slots[x][k] = 0],
            [k \in Slots |-> k],
            [h EXCEPT !.alive = @ \ {x}])

\* Mutant: the graph is looked at only when the last reference goes.
DecrementGraphNot(h, t) == h.ref[t] - 1

(* DecrementGraph, and the case of a single reference. *)
DecrementGraph(h, t) ==
  IF h.ref[t] # 1 /\ SafeToDelete(h, t) THEN 0 ELSE h.ref[t] - 1

(* Ptr::Reset, which leaves the Ptr as it is. *)
ResetPtr(h, t) ==
  IF t = 0 \/ h.ref[t] = 0 THEN h
  ELSE LET g == [h EXCEPT !.ref[t] = DecrementGraph(h, t)]
       IN IF g.ref[t] = 0 THEN Delete(g, t) ELSE g

(* A Ptr is destroyed, or takes another object. *)
LetGo(h, t) == Unmanage(ResetPtr(h, t), t)

(* IncrementRef *)
IncrementRef(h, t) == IF t = 0 THEN h ELSE [h EXCEPT !.ref[t] = @ + 1]

(* A Ptr is copied from another one, or made from a SharedPointer. *)
CopyOf(h, t) == IncrementRef(Manage(h, t), t)

-----------------------------------------------------------------------------
(* Operations of the program *)

(* Nothing is taken out of a Ptr that was reset (a copy would count the    *)
(* deleted object up again); it may be assigned again.                     *)
Usable(r) == r \notin ptr_given

Assigned(r, x) ==
  /\ ptr_roots' = [ptr_roots EXCEPT ![r] = x]
  /\ ptr_given' = ptr_given \ {r}

(* MakePtr, assigned to a variable. *)
MakePtr(r) ==
  /\ ptr_made < PtrObjects
  /\ ptr_made' = ptr_made + 1
  /\ LET h == LetGo(ptr_heap, ptr_roots[r])
     IN ptr_heap' = IncrementRef([h EXCEPT !.alive = @ \cup {ptr_made'},
                                           !.manage[ptr_made'] = 1], ptr_made')
  /\ Assigned(r, ptr_made')
  /\ UNCHANGED <<ptr_views>>

(* operator= with a variable; the old object is let go of first. *)
CopyAssign(r, q) ==
  /\ r # q /\ Usable(q)
  /\ ptr_heap' = CopyOf(LetGo(ptr_heap, ptr_roots[r]), ptr_roots[q])
  /\ Assigned(r, ptr_roots[q])
  /\ UNCHANGED <<ptr_views, ptr_made>>

(* operator= with a variable that is moved from. *)
MoveAssign(r, q) ==
  /\ r # q /\ Usable(q)
  /\ ptr_heap' = LetGo(ptr_heap, ptr_roots[r])
  /\ ptr_roots' = [ptr_roots EXCEPT ![r] = ptr_roots[q], ![q] = 0]
  /\ ptr_given' = ptr_given \ {r}
  /\ UNCHANGED <<ptr_views, ptr_made>>

(* operator= of a member.  While the old object is let go of, the member   *)
(* still refers to it, and DecrementGraph comes by it when the old object  *)
(* leads to the one whose member it is.                                    *)
SetMember(p, k, q) ==
  LET x == ptr_roots[p]
      old == ptr_heap.slots[x][k]
      h == LetGo(ptr_heap, old)
  IN
  /\ Usable(p) /\ Usable(q) /\ x # 0
  /\ "cycle" \in PtrUses \/ x \notin Visited(ptr_heap, {old} \ {0}, {})
  /\ ptr_heap' = CopyOf([h EXCEPT !.slots[x][k] = ptr_roots[q]], ptr_roots[q])
  /\ UNCHANGED <<ptr_roots, ptr_views, ptr_given, ptr_made>>

(* A variable is assigned from a member of another variable's object. *)
TakeMember(r, p, k) ==
  LET x == ptr_roots[p] IN
  /\ r # p /\ Usable(p) /\ x # 0
  /\ ptr_heap' = CopyOf(LetGo(ptr_heap, ptr_roots[r]), ptr_heap.slots[x][k])
  /\ Assigned(r, ptr_heap.slots[x][k])
  /\ UNCHANGED <<ptr_views, ptr_made>>

(* A PtrView of a variable's object, and the view let go of. *)
View(v, r) ==
  /\ Usable(r) /\ ptr_roots[r] # ptr_views[v]
  /\ ptr_heap' = Manage(Unmanage(ptr_heap, ptr_views[v]), ptr_roots[r])
  /\ ptr_views' = [ptr_views EXCEPT ![v] = ptr_roots[r]]
  /\ UNCHANGED <<ptr_roots, ptr_given, ptr_made>>

(* PtrView::Lock *)
LockView(r, v) ==
  /\ ptr_roots[r] = 0 /\ ptr_views[v] # 0
  /\ ptr_heap.ref[ptr_views[v]] # 0
  /\ ptr_heap' = CopyOf(ptr_heap, ptr_views[v])
  /\ ptr_roots' = [ptr_roots EXCEPT ![r] = ptr_views[v]]
  /\ UNCHANGED <<ptr_views, ptr_given, ptr_made>>

(* A variable goes out of scope. *)
DestroyPtr(r) ==
  /\ ptr_roots[r] # 0
  /\ ptr_heap' = LetGo(ptr_heap, ptr_roots[r])
  /\ Assigned(r, 0)
  /\ UNCHANGED <<ptr_views, ptr_made>>

(* Reset is called on a variable, which still refers to the object.  The   *)
(* library does so on the last Ptr of an object: actions that have         *)
(* finished, a transport that failed.                                      *)
CallReset(r) ==
  /\ Usable(r) /\ ptr_roots[r] # 0
  /\ "shared" \in PtrUses \/ ptr_heap.ref[ptr_roots[r]] = 1
  /\ ptr_heap' = ResetPtr(ptr_heap, ptr_roots[r])
  /\ ptr_given' = ptr_given \cup {r}
  /\ UNCHANGED <<ptr_roots, ptr_views, ptr_made>>

PtrNext ==
  \/ \E r \in PtrRoots : MakePtr(r) \/ DestroyPtr(r) \/ CallReset(r)
  \/ \E r, q \in PtrRoots : CopyAssign(r, q) \/ MoveAssign(r, q)
  \/ \E r, q \in PtrRoots, k \in Slots : SetMember(r, k, q) \/ TakeMember(r, q, k)
  \/ \E r \in PtrRoots, v \in PtrViews : View(v, r) \/ LockView(r, v)

PtrSpec == PtrInit /\ [][PtrNext]_ptrVars

-----------------------------------------------------------------------------
(* Properties *)

(* The variables have their types, and an object lives as long as it is    *)
(* counted.                                                                *)
PtrTypeOK ==
  /\ ptr_heap.alive = {x \in Objs : ptr_heap.ref[x] > 0}
  /\ ptr_roots \in [PtrRoots -> 0..ptr_made]

(* Like a shared pointer (ptr.h:54): the object of a Ptr is there, whether *)
(* the Ptr is a variable the program still uses or a member of an object   *)
(* that is there.                                                          *)
ReferredAlive ==
  /\ \A r \in PtrRoots : Usable(r) /\ ptr_roots[r] # 0 => ptr_roots[r] \in ptr_heap.alive
  /\ \A x \in ptr_heap.alive, k \in Slots :
       ptr_heap.slots[x][k] # 0 => ptr_heap.slots[x][k] \in ptr_heap.alive

(* "avoid cycle references" (ptr.h:55): an object no variable leads to any *)
(* more is gone, cycles and cycles of cycles included.                     *)
GarbageCollected ==
  LET held == {ptr_roots[r] : r \in PtrRoots} \ {0}
  IN ptr_heap.alive \subseteq Visited(ptr_heap, held, {})

(* The counter of an object is the number of Ptrs that refer to it. *)
CountsExact ==
  \A x \in ptr_heap.alive :
    ptr_heap.ref[x] =
      Cardinality({r \in PtrRoots : ptr_roots[r] = x})
        + Cardinality({<<y, k>> \in ptr_heap.alive \X Slots : ptr_heap.slots[y][k] = x})

(* The manager of an object is there exactly as long as a Ptr or a PtrView *)
(* refers to it, also while a cycle of objects is torn down, and none is   *)
(* used after it was deleted.                                              *)
ManagersExact ==
  /\ ~ptr_heap.wild
  /\ \A x \in Objs :
       ptr_heap.manage[x] =
         Cardinality({r \in PtrRoots : ptr_roots[r] = x})
           + Cardinality({v \in PtrViews : ptr_views[v] = x})
           + Cardinality({<<y, k>> \in ptr_heap.alive \X Slots : ptr_heap.slots[y][k] = x})
=============================================================================
