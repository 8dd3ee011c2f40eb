------------------------------ MODULE Registry ------------------------------
(***************************************************************************)
(* The registry of classes: each class is registered by a static           *)
(* initializer with the id of its base, in an order nobody fixes, and      *)
(* Domain asks which class to construct for an object stored under the     *)
(* classes of its inheritance chain.                                       *)
(***************************************************************************)
EXTENDS Integers, Sequences, FiniteSets, FiniteSetsExt, SequencesExt

CONSTANTS
  RgClasses,   \* the classes of a program
  RgObj,       \* class Obj
  RgTrees      \* possible inheritance: functions from a class to its base

VARIABLES
  rg_base,       \* the inheritance of this program
  rg_factories,  \* factories_
  rg_derived,    \* base_to_derived_
  rg_gone        \* history: classes unregistered

rgVars == <<rg_base, rg_factories, rg_derived, rg_gone>>

RgInit ==
  /\ rg_base \in RgTrees
  /\ rg_factories = {} /\ rg_gone = {}
  /\ rg_derived = [c \in RgClasses |-> <<>>]

(* What derives directly from Obj has no relation. *)
RegisterClass(c) ==
  /\ c \notin rg_factories /\ c \notin rg_gone
  /\ rg_factories' = rg_factories \cup {c}
  /\ rg_derived' = IF rg_base[c] = RgObj THEN rg_derived
                   ELSE [rg_derived EXCEPT ![rg_base[c]] = Append(@, c)]
  /\ UNCHANGED <<rg_base, rg_gone>>

UnregisterClass(c) ==
  /\ c \in rg_factories
  /\ rg_factories' = rg_factories \ {c} /\ rg_gone' = rg_gone \cup {c}
  /\ rg_derived' = [b \in RgClasses |-> IF b = c THEN <<>> ELSE Remove(rg_derived[b], c)]
  /\ UNCHANGED rg_base

IsExisting(c) == c \in rg_factories
IsLast(c) == rg_derived[c] = <<>>

RECURSIVE GenerationDistanceInternal(_, _)
GenerationDistanceInternal(base, derived) ==
  LET list == rg_derived[base]
      by(c) == IF c = derived THEN 1
               ELSE LET d == GenerationDistanceInternal(c, derived)
                    IN IF d >= 0 THEN d + 1 ELSE -1
      hits == {i \in DOMAIN list : by(list[i]) >= 0}
  IN IF hits = {} THEN -1 ELSE by(list[Min(hits)])

GenerationDistance(base, derived) ==
  IF ~IsExisting(base) \/ ~IsExisting(derived) THEN -1
  ELSE IF base = derived THEN 0
  ELSE GenerationDistanceInternal(base, derived)

(* The comparison GetMostRelatedFactory sorts with: base before derived. *)
BaseFirst(left, right) ==
  GenerationDistance(right, left) <= 0 /\ GenerationDistance(left, right) >= 0

(* The classes are in one inheritance chain, as the assertion has it. *)
OneChain(classes) == \A c, d \in classes : BaseFirst(c, d) \/ BaseFirst(d, c)

\* Mutant: the classes are sorted the other way around.
MostDerivedBase(classes) == CHOOSE c \in classes : \A d \in classes : BaseFirst(c, d)

MostDerived(classes) == CHOOSE c \in classes : \A d \in classes : BaseFirst(d, c)

(* GetMostRelatedFactory for an object stored under `stored`: a final      *)
(* class, the first in the order of a hash map, derived from the most      *)
(* derived one known.                                                      *)
MostRelated(stored) ==
  LET classes == stored \cap rg_factories
  IN IF classes = {} THEN {}
     ELSE {f \in rg_factories : IsLast(f) /\ GenerationDistance(MostDerived(classes), f) >= 0}

RgNext == \E c \in RgClasses : RegisterClass(c) \/ UnregisterClass(c)

RgSpec == RgInit /\ [][RgNext]_rgVars

-----------------------------------------------------------------------------
(* Properties *)

(* The classes an object of class c is stored under, by the inheritance. *)
RECURSIVE ChainOf(_)
ChainOf(c) == IF c = RgObj THEN {} ELSE {c} \cup ChainOf(rg_base[c])

(* Whichever order classes were registered in: as long as each registered  *)
(* class has its bases registered, the chain of a stored object passes the *)
(* assertion of the sort, and the class constructed for it is a final one  *)
(* that derives from the nearest class of the chain the program still has; *)
(* an object of a final class gets that class.                             *)
FactoryRight ==
  (\A c \in rg_factories : ChainOf(c) \subseteq rg_factories) =>
    \A c \in RgClasses :
      LET known == ChainOf(c) \cap rg_factories
      IN known # {} =>
           /\ OneChain(known)
           /\ MostRelated(ChainOf(c)) # {}
           /\ \A f \in MostRelated(ChainOf(c)) :
                /\ known \subseteq ChainOf(f)
                /\ ~\E g \in rg_factories : g # f /\ f \in ChainOf(g)
=============================================================================
