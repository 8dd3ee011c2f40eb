----------------------------- MODULE MCProgress -----------------------------
(***************************************************************************)
(* Two things that must go on, for TLC: a safe stream over a reliable      *)
(* network, and the loop of the application with the threads that notify   *)
(* it.  They do not interact; `part` says which of them a behaviour is     *)
(* about, and the variables of the other stay as they are.                 *)
(***************************************************************************)
EXTENDS SafeStream, ActionTrigger

VARIABLE part

allVars == <<part, vars, atVars>>

MCInit == part \in {"stream", "trigger"} /\ Init /\ AtInit

StreamOnly == part = "stream" /\ UNCHANGED <<part, atVars>>
TriggerOnly == part = "trigger" /\ UNCHANGED <<part, vars>>

MCNext == (StreamOnly /\ Next) \/ (TriggerOnly /\ AtNext)

(* The fairness of FairSpec and of AtFairSpec. *)
MCFairness ==
  /\ WF_allVars((StreamOnly /\ Progress) \/ (TriggerOnly /\ Application))
  /\ \A t \in Notifiers : /\ WF_allVars(TriggerOnly /\ Notify(t))
                          /\ SF_allVars(TriggerOnly /\ Trigger(t))

MCSpec == MCInit /\ [][MCNext]_allVars /\ MCFairness
=============================================================================
