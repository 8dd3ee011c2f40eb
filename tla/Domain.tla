------------------------------- MODULE Domain -------------------------------
(***************************************************************************)
(* A Domain of persistent objects: objects refer to each other by ObjPtr,  *)
(* SaveRoot stores everything a root leads to, class by class, LoadRoot    *)
(* builds it again, LoadCopy builds an object a second time under another  *)
(* id.  Saving is a sequence of Store calls in which the program may be    *)
(* stopped.  An object is stored under two class ids: what its base class  *)
(* holds, a value, and what the derived class holds, its ObjPtr members.   *)
(***************************************************************************)
EXTENDS Naturals, Sequences, FiniteSets, FiniteSetsExt, SequencesExt

CONSTANTS
  DmIds,       \* object ids
  DmRoot,      \* the object the program holds
  DmLazy,      \* objects with ObjFlags::kUnloadedByDefault
  DmCopyIds,   \* ids that only LoadCopy gives
  MaxDmEdits,  \* bounds
  MaxDmCrashes

VARIABLES
  dm_state,    \* "none", "empty" (constructed) or "loaded", for each id
  dm_val,      \* the value in the base class of an object
  dm_refs,     \* the ids its members name
  dm_ptrs,     \* those of them whose pointer holds the object
  dm_stored,   \* what the facility has
  dm_todo,     \* the Store calls left of the SaveRoot in progress
  dm_truth,    \* history: what each object was when SaveRoot last met it
  dm_whole,    \* history: objects whose last SaveRoot came to its end
  dm_edits, dm_crashes

dmVars == <<dm_state, dm_val, dm_refs, dm_ptrs, dm_stored, dm_todo, dm_truth, dm_whole,
            dm_edits, dm_crashes>>

Held == [state |-> dm_state, val |-> dm_val, refs |-> dm_refs, ptrs |-> dm_ptrs, visited |-> {}]

NoRefs == {0}
NoRecord == [val |-> 0, refs |-> NoRefs]

(* A new process: a Domain without objects. *)
Blank ==
  [state |-> [x \in DmIds |-> "none"], val |-> [x \in DmIds |-> 0],
   refs |-> [x \in DmIds |-> {}], ptrs |-> [x \in DmIds |-> {}], visited |-> {}]

(* Objects a pointer of the program leads to. *)
RECURSIVE LedTo(_, _, _)
LedTo(ptrs, front, seen) ==
  IF front = {} THEN seen
  ELSE LET next == UNION {ptrs[x] : x \in front} \ (seen \cup front)
       IN LedTo(ptrs, next, seen \cup front)

Led(ptrs, x) == LedTo(ptrs, {x}, {})

(* Objects nobody leads to are destroyed, and Obj's destructor takes them  *)
(* out of the Domain (RemoveObject).                                       *)
RemoveObjects(h) ==
  LET gone == DmIds \ Led(h.ptrs, DmRoot)
  IN [h EXCEPT !.state = [x \in DmIds |-> IF x \in gone THEN "none" ELSE @[x]],
               !.val = [x \in DmIds |-> IF x \in gone THEN 0 ELSE @[x]],
               !.refs = [x \in DmIds |-> IF x \in gone THEN {} ELSE @[x]],
               !.ptrs = [x \in DmIds |-> IF x \in gone THEN {} ELSE @[x]]]

Hold(h) ==
  LET kept == RemoveObjects(h)
  IN /\ dm_state' = kept.state /\ dm_val' = kept.val
     /\ dm_refs' = kept.refs /\ dm_ptrs' = kept.ptrs

-----------------------------------------------------------------------------
(* Loading *)

(* GetMostRelatedFactory finds a class to construct. *)
HasFactory(x) == dm_stored[x] # NoRecord

RECURSIVE LoadRootImpl(_, _), Load(_, _, _)

LoadRootImpl(h, x) ==
  IF h.state[x] # "none" \/ ~HasFactory(x) THEN h
  ELSE Load([h EXCEPT !.state[x] = "empty"], x, x)

(* operator>> of an ObjPtr member y of x. *)
LoadMember(h, x, y) ==
  IF y \in DmLazy THEN h
  ELSE LET loaded == LoadRootImpl(h, y)
       IN IF loaded.state[y] = "none" THEN loaded ELSE [loaded EXCEPT !.ptrs[x] = @ \cup {y}]

(* Load: what is stored under id `from` is read into the object x.  The    *)
(* cycle detector knows objects by the id they have while they are loaded. *)
Load(h, x, from) ==
  IF from \in h.visited THEN h
  ELSE LET record == dm_stored[from]
           members == record.refs \ NoRefs
           read == [h EXCEPT !.visited = @ \cup {from}, !.state[x] = "loaded",
                             !.val[x] = record.val, !.refs[x] = members]
       IN FoldLeft(LAMBDA g, y : LoadMember(g, x, y), read, SetToSortSeq(members, <))

(* LoadCopy: the object has the id it is copied from while it is loaded. *)
LoadCopyOf(h, x, copy) ==
  IF h.state[copy] # "none" \/ ~HasFactory(x) THEN h
  ELSE Load([h EXCEPT !.state[copy] = "empty"], copy, x)

-----------------------------------------------------------------------------
(* Saving *)

(* The Store calls of SaveRoot: an object's members are saved while the    *)
(* object is visited, before the object itself is stored, the base class   *)
(* before the derived one; the cycle detector passes over what was visited.*)
StoresOf(x) ==
  << [id |-> x, part |-> "val", val |-> dm_val[x], refs |-> NoRefs],
     [id |-> x, part |-> "refs", val |-> 0, refs |-> dm_refs[x]] >>

\* Mutant: an object is stored before what it refers to.
RECURSIVE SaveFirst(_, _)
SaveFirst(s, x) ==
  IF x \in s.visited THEN s
  ELSE FoldLeft(LAMBDA t, y : SaveFirst(t, y),
                [visited |-> s.visited \cup {x}, calls |-> s.calls \o StoresOf(x)],
                SetToSortSeq(dm_ptrs[x], <))

RECURSIVE Save(_, _)
Save(s, x) ==
  IF x \in s.visited THEN s
  ELSE LET base == [s EXCEPT !.visited = @ \cup {x}, !.calls = Append(@, StoresOf(x)[1])]
           members == FoldLeft(LAMBDA t, y : Save(t, y), base, SetToSortSeq(dm_ptrs[x], <))
       IN [members EXCEPT !.calls = Append(@, StoresOf(x)[2])]

SaveRootImpl == Save([visited |-> {}, calls |-> <<>>], DmRoot).calls

-----------------------------------------------------------------------------
DmInit ==
  /\ dm_state = [x \in DmIds |-> IF x = DmRoot THEN "loaded" ELSE "none"]
  /\ dm_val = [x \in DmIds |-> IF x = DmRoot THEN 1 ELSE 0]
  /\ dm_refs = Blank.refs /\ dm_ptrs = Blank.ptrs
  /\ dm_stored = [x \in DmIds |-> NoRecord] /\ dm_todo = <<>>
  /\ dm_truth = [x \in DmIds |-> NoRecord] /\ dm_whole = {}
  /\ dm_edits = 0 /\ dm_crashes = 0

Alive == {x \in DmIds : dm_state[x] # "none"}
Idle == dm_todo = <<>> /\ DmRoot \in Alive
Edit == dm_edits < MaxDmEdits /\ dm_edits' = dm_edits + 1
KeepStore == UNCHANGED <<dm_stored, dm_todo, dm_truth, dm_whole, dm_crashes>>

(* CreateObj: x makes an object and keeps it in a member. *)
CreateObj(x, y) ==
  /\ Idle /\ x \in Alive /\ y \notin Alive /\ y \notin DmCopyIds
  /\ Edit
  /\ Hold([Held EXCEPT !.state[y] = "loaded", !.val[y] = 1,
                       !.refs[x] = @ \cup {y}, !.ptrs[x] = @ \cup {y}])
  /\ KeepStore

(* An ObjPtr is assigned to, or taken out of, a member; a value changes. *)
Assign(x, y) ==
  /\ Idle /\ {x, y} \subseteq Alive /\ y \notin dm_ptrs[x]
  /\ Edit
  /\ Hold([Held EXCEPT !.refs[x] = @ \cup {y}, !.ptrs[x] = @ \cup {y}])
  /\ KeepStore

Unassign(x, y) ==
  /\ Idle /\ x \in Alive /\ y \in dm_refs[x]
  /\ Edit
  /\ Hold([Held EXCEPT !.refs[x] = @ \ {y}, !.ptrs[x] = @ \ {y}])
  /\ KeepStore

Change(x) ==
  /\ Idle /\ x \in Alive
  /\ Edit
  /\ Hold([Held EXCEPT !.val[x] = 3 - @])
  /\ KeepStore

(* LoadRoot of a member left unloaded. *)
LoadUnloaded(x, y) ==
  /\ Idle /\ x \in Alive /\ y \in dm_refs[x] \ dm_ptrs[x]
  /\ LET loaded == LoadRootImpl(Held, y)
     IN /\ loaded.state[y] # "none"
        /\ Hold([loaded EXCEPT !.ptrs[x] = @ \cup {y}])
  /\ UNCHANGED dm_edits /\ KeepStore

(* LoadCopy of a member into the same object. *)
LoadCopy(x, y, copy) ==
  /\ Idle /\ x \in Alive /\ y \in dm_refs[x] /\ HasFactory(y) /\ copy \notin Alive
  /\ Edit
  /\ Hold([LoadCopyOf(Held, y, copy) EXCEPT !.refs[x] = @ \cup {copy}, !.ptrs[x] = @ \cup {copy}])
  /\ KeepStore

SaveRoot ==
  /\ Idle
  /\ dm_todo' = SaveRootImpl
  /\ dm_truth' = [x \in DmIds |-> IF x \in Led(dm_ptrs, DmRoot)
                                   THEN [val |-> dm_val[x], refs |-> dm_refs[x]]
                                   ELSE dm_truth[x]]
  /\ dm_whole' = dm_whole \ Led(dm_ptrs, DmRoot)
  /\ UNCHANGED <<dm_state, dm_val, dm_refs, dm_ptrs, dm_stored, dm_edits, dm_crashes>>

(* The next Store of SaveVersion. *)
Store ==
  /\ dm_todo # <<>>
  /\ LET call == Head(dm_todo)
     IN dm_stored' = IF call.part = "val" THEN [dm_stored EXCEPT ![call.id].val = call.val]
                     ELSE [dm_stored EXCEPT ![call.id].refs = call.refs]
  /\ dm_todo' = Tail(dm_todo)
  /\ dm_whole' = IF Len(dm_todo) = 1 THEN dm_whole \cup Led(dm_ptrs, DmRoot) ELSE dm_whole
  /\ UNCHANGED <<dm_state, dm_val, dm_refs, dm_ptrs, dm_truth, dm_edits, dm_crashes>>

(* The program is stopped, in a SaveRoot or between two, and starts again. *)
Crash ==
  /\ dm_crashes < MaxDmCrashes
  /\ dm_crashes' = dm_crashes + 1
  /\ dm_todo' = <<>>
  /\ dm_state' = Blank.state /\ dm_val' = Blank.val
  /\ dm_refs' = Blank.refs /\ dm_ptrs' = Blank.ptrs
  /\ UNCHANGED <<dm_stored, dm_truth, dm_whole, dm_edits>>

LoadRoot ==
  /\ DmRoot \notin Alive /\ HasFactory(DmRoot)
  /\ Hold(LoadRootImpl(Held, DmRoot))
  /\ UNCHANGED dm_edits /\ KeepStore

DmNext ==
  \/ \E x, y \in DmIds : CreateObj(x, y) \/ Assign(x, y) \/ Unassign(x, y) \/ LoadUnloaded(x, y)
  \/ \E x \in DmIds : Change(x)
  \/ \E x, y \in DmIds, copy \in DmCopyIds : LoadCopy(x, y, copy)
  \/ SaveRoot \/ Store \/ Crash \/ LoadRoot

DmSpec == DmInit /\ [][DmNext]_dmVars

-----------------------------------------------------------------------------
(* Properties *)

DmTypeOK ==
  /\ \A x \in DmIds :
       /\ dm_state[x] \in {"none", "empty", "loaded"} /\ dm_val[x] \in 0..3
       /\ dm_ptrs[x] \subseteq dm_refs[x] /\ dm_refs[x] \subseteq DmIds
       /\ \A y \in dm_ptrs[x] : dm_state[y] # "none"
  /\ dm_edits \in 0..MaxDmEdits /\ dm_crashes \in 0..MaxDmCrashes

TruthRefs == [x \in DmIds |-> dm_truth[x].refs \ NoRefs]

(* After a SaveRoot that came to its end, each object it met is loaded     *)
(* with the value and the references it had when it was last saved,        *)
(* together with all it leads to and nothing twice, whatever cycles and    *)
(* shared objects there are and whichever objects stayed unloaded.         *)
GraphRoundTrip ==
  \A r \in DmIds : Led(TruthRefs, r) \subseteq dm_whole =>
    LET h == LoadRootImpl(Blank, r)
    IN /\ h.state[r] = "loaded"
       /\ \A x \in DmIds : h.state[x] # "none" =>
            /\ [val |-> h.val[x], refs |-> h.refs[x]] = dm_truth[x]
            /\ h.ptrs[x] = h.refs[x] \ DmLazy

(* When the program was stopped in the middle of SaveRoot, LoadRoot finds  *)
(* what each object refers to, but for objects that refer back to it: a    *)
(* member is stored before the object that has it.                         *)
NoHole ==
  LET h == LoadRootImpl(Blank, DmRoot)
  IN \A x \in DmIds : h.state[x] = "loaded" =>
       \A y \in h.refs[x] : HasFactory(y) \/ x \in Led(TruthRefs, y)

(* Every object a pointer leads to was loaded or created, unless LoadCopy  *)
(* was asked for an object that its own members lead back to.              *)
NothingEmpty ==
  (\A x \in DmIds : \A y \in dm_stored[x].refs \ NoRefs :
      x \notin Led([z \in DmIds |-> dm_stored[z].refs \ NoRefs], y))
    => \A x \in Alive : dm_state[x] = "loaded"
=============================================================================
