----------------------------- MODULE ByteStream -----------------------------
(***************************************************************************)
(* What SafeStream promises its users: accepted data is passed on, in the  *)
(* order it was written, and each write gets one outcome; kDone means that *)
(* all of it was passed on.                                                *)
(***************************************************************************)
EXTENDS Integers, Sequences

VARIABLES
    accepted,   \* sizes of the accepted writes
    outcome,    \* per write: "pending" or how it finished
    received    \* number of bytes passed on

streamVars == <<accepted, outcome, received>>

\* The number of bytes of the first k writes.
Size(k) ==
    LET upTo[n \in 0 .. k] == IF n = 0 THEN 0 ELSE upTo[n - 1] + accepted[n]
    IN  upTo[k]

Init == accepted = <<>> /\ outcome = <<>> /\ received = 0

Accept ==
    /\ Len(accepted') = Len(accepted) + 1
    /\ SubSeq(accepted', 1, Len(accepted)) = accepted
    /\ outcome' = Append(outcome, "pending")
    /\ UNCHANGED received

Deliver ==
    /\ received' \in received + 1 .. Size(Len(accepted))
    /\ UNCHANGED <<accepted, outcome>>

\* Some pending writes finish.
Finish ==
    /\ outcome' \in [DOMAIN outcome -> {"pending", "kDone", "kStopped", "kFailed"}]
    /\ \A k \in DOMAIN outcome : outcome'[k] # outcome[k] =>
          outcome[k] = "pending" /\ (outcome'[k] = "kDone" => Size(k) <= received)
    /\ UNCHANGED <<accepted, received>>

Next == Accept \/ Deliver \/ Finish

Spec == Init /\ [][Next]_streamVars
=============================================================================
