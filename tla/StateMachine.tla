---------------------------- MODULE StateMachine ----------------------------
(***************************************************************************)
(* StateMachine<TEnum> of state_machine.h: a state with a mark that says   *)
(* whether it changed since its owner last looked at it.  Every action of  *)
(* the transports keeps one, and does something in Update only when the    *)
(* mark is set.                                                            *)
(***************************************************************************)

(* The default constructor (the first state, unmarked) and the explicit    *)
(* one, which starts marked.                                               *)
Unmarked(val) == [state |-> val, changed |-> FALSE]
Marked(val) == [state |-> val, changed |-> TRUE]

Machines(States) == [state : States, changed : BOOLEAN]

(* Acquire: the owner looks at the state and clears the mark. *)
Acquire(m) == [m EXCEPT !.changed = FALSE]

(* Set: setting the state the machine is already in does nothing, not even *)
(* mark it.                                                                *)
Set(m, val) == IF m.state = val THEN m ELSE Marked(val)
=============================================================================
