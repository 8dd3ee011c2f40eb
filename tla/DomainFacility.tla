--------------------------- MODULE DomainFacility ---------------------------
(***************************************************************************)
(* What IDomainFacility promises a Domain: a map from object, class and    *)
(* version to data.  An operation does what it is for and nothing else,    *)
(* and an enumeration of an object names the classes it has data of.  A    *)
(* crash damages only what the operation it interrupts was working on and  *)
(* what is kept in the same file.                                          *)
(***************************************************************************)
EXTENDS Integers, FiniteSets

CONSTANTS DfKeys, DfData, DfObject(_), DfClass(_)

VARIABLES
  df_map,      \* what Load gives for each key
  df_listed,   \* what Enumerate gives for each object
  df_last,     \* the last operation: op, the keys it was about, the data
  df_kept,     \* where the data is kept: "memory", "a file each", "one file"
  df_effect    \* the operations that do something on this device

dfVars == <<df_map, df_listed, df_last, df_kept, df_effect>>

(* No data, and data of which only a part is there. *)
Nothing == 0
Torn == -1

DfObjects == {DfObject(k) : k \in DfKeys}
KeysOf(objects) == {k \in DfKeys : DfObject(k) \in objects}
Listing(map) == [o \in DfObjects |-> {DfClass(k) : k \in {j \in KeysOf({o}) : map[j] # Nothing}}]

DfDone(op, at, d) ==
  /\ df_last' = [op |-> op, at |-> at, data |-> d]
  /\ df_listed' = Listing(df_map')
  /\ UNCHANGED <<df_kept, df_effect>>

(* An operation has its effect, or none on a device that does not do it. *)
DfDoes(op, map) == df_map' = IF op \in df_effect THEN map ELSE df_map

DfInit ==
  /\ df_map \in [DfKeys -> DfData \cup {Nothing}] /\ df_listed = Listing(df_map)
  /\ "store" \in df_effect => df_map = [k \in DfKeys |-> Nothing]
  /\ df_last = [op |-> "none", at |-> {}, data |-> Nothing]
  /\ df_kept \in {"memory", "a file each", "one file"}
  /\ df_effect \subseteq {"store", "remove", "remove_all"}

(* Store *)
DfStore(k, d) == DfDoes("store", [df_map EXCEPT ![k] = d]) /\ DfDone("store", {k}, d)

WithoutKeys(keys) == [k \in DfKeys |-> IF k \in keys THEN Nothing ELSE df_map[k]]

(* Remove: all classes and versions of an object. *)
DfRemove(o) ==
  DfDoes("remove", WithoutKeys(KeysOf({o}))) /\ DfDone("remove", KeysOf({o}), Nothing)

DfRemoveAll == DfDoes("remove_all", WithoutKeys(DfKeys)) /\ DfDone("remove_all", DfKeys, Nothing)

(* The program ends between two operations. *)
DfRestart ==
  /\ df_map' = IF df_kept = "memory" THEN WithoutKeys(DfKeys) ELSE df_map
  /\ DfDone("restart", {}, Nothing)

(* It ends in an operation on the keys: of what is in the files the        *)
(* operation writes, each entry is as before, as it was to become, damaged *)
(* or lost; everything else is as before.                                  *)
DfCrash(at, d) ==
  /\ df_kept # "memory"
  /\ \A k \in DfKeys :
       IF k \in at \/ df_kept = "one file"
       THEN df_map'[k] \in {df_map[k], Torn, Nothing} \cup (IF k \in at THEN {d} ELSE {})
       ELSE df_map'[k] = df_map[k]
  /\ DfDone("crash", at, d)

DfNext ==
  \/ \E k \in DfKeys, d \in DfData : DfStore(k, d) \/ DfCrash({k}, d)
  \/ \E o \in DfObjects : DfRemove(o) \/ DfCrash(KeysOf({o}), Nothing)
  \/ DfRemoveAll \/ DfCrash(DfKeys, Nothing)
  \/ DfRestart

DfSpec == DfInit /\ [][DfNext]_dfVars
=============================================================================
