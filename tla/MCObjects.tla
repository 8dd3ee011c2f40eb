----------------------------- MODULE MCObjects -----------------------------
(***************************************************************************)
(* Objects and what they are kept in, for TLC: the events and their        *)
(* subscriptions, the registry of actions, the counted pointers, the       *)
(* domain, the registry of classes, the gates a stream is made of, and the *)
(* receiving end of a safe stream against the most general peer.           *)
(* They do not interact; `part` says which of them a behaviour is about,   *)
(* and the variables of the others stay as they are.                       *)
(***************************************************************************)
EXTENDS Events, ActionRegistry, Ptr, Domain, Registry, Gates, ReceivingEnv

VARIABLE part

allVars == <<part, vars, arVars, ptrVars, dmVars, rgVars, gtVars, receiverVars>>

(* The inheritance of four classes: each derives from Obj (0) or from one  *)
(* of those before it.                                                     *)
Trees == {f \in [1..4 -> 0..3] : \A c \in 1..4 : f[c] < c}

Parts == {"events", "actions", "ptr", "domain", "registry", "gates", "receiver"}

(* Classes and kinds are fixed where they are not looked at. *)
MCInit ==
  /\ part \in Parts
  /\ Init /\ ArInit /\ PtrInit /\ DmInit /\ RgInit /\ GtInit /\ ReceiverInit
  /\ part # "registry" => rg_base = [c \in 1..4 |-> 0]

EventsOnly ==
  part = "events" /\ UNCHANGED <<part, arVars, ptrVars, dmVars, rgVars, gtVars, receiverVars>>
ActionsOnly ==
  part = "actions" /\ UNCHANGED <<part, vars, ptrVars, dmVars, rgVars, gtVars, receiverVars>>
PtrOnly ==
  part = "ptr" /\ UNCHANGED <<part, vars, arVars, dmVars, rgVars, gtVars, receiverVars>>
DomainOnly ==
  part = "domain" /\ UNCHANGED <<part, vars, arVars, ptrVars, rgVars, gtVars, receiverVars>>
RegistryOnly ==
  part = "registry" /\ UNCHANGED <<part, vars, arVars, ptrVars, dmVars, gtVars, receiverVars>>
GatesOnly ==
  part = "gates" /\ UNCHANGED <<part, vars, arVars, ptrVars, dmVars, rgVars, receiverVars>>
ReceiverOnly ==
  part = "receiver" /\ UNCHANGED <<part, vars, arVars, ptrVars, dmVars, rgVars, gtVars>>

MCNext ==
  \/ EventsOnly /\ Next
  \/ ActionsOnly /\ ArNext
  \/ PtrOnly /\ PtrNext
  \/ DomainOnly /\ DmNext
  \/ RegistryOnly /\ RgNext
  \/ GatesOnly /\ GtNext
  \/ ReceiverOnly /\ RvNext

MCSpec == MCInit /\ [][MCNext]_allVars

(* Ptr: what is referred to is alive, what is not reached from outside is  *)
(* collected, cycles included, and the counts are the numbers of pointers  *)
(* (Ptr::DecrementGraph, PtrManager), for programs that reset a Ptr only   *)
(* when it is the last one of its object, and assign a member again only   *)
(* when it is not on a cycle.                                              *)
PointersExact ==
  part = "ptr" => PtrTypeOK /\ ReferredAlive /\ GarbageCollected /\ CountsExact /\ ManagersExact

(* Domain: a graph that is loaded is the one that was saved, a crash while *)
(* it is saved leaves no reference without an object, and no loaded object *)
(* is empty (Domain::SaveRoot, Domain::LoadRoot).                          *)
GraphKept == part = "domain" => DmTypeOK /\ GraphRoundTrip /\ NoHole /\ NothingEmpty
=============================================================================
