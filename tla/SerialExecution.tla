--------------------------- MODULE SerialExecution ---------------------------
(***************************************************************************)
(* What the Handler promises about container work: executions are started  *)
(* one at a time, each at most once, and none is resumed once it is over.  *)
(* An execution is an admitted job with all its stages and its automatic   *)
(* diagnostics, or one explicit diagnostics retry.                         *)
(***************************************************************************)
CONSTANT Execution

VARIABLE state

\* Types: where each execution is.
TypeOK == state \in [Execution -> {"new", "waiting", "running", "over"}]

Init == state = [e \in Execution |-> "new"]

Submit(e) ==
  /\ state[e] = "new"
  /\ state' = [state EXCEPT ![e] = "waiting"]

\* Container work starts only when no other execution has any left.
Begin(e) ==
  /\ state[e] \in {"new", "waiting"}
  /\ \A d \in Execution : state[d] # "running"
  /\ state' = [state EXCEPT ![e] = "running"]

\* Executions finish, fail, or are lost with the process that held them.
End(S) == state' = [e \in Execution |-> IF e \in S THEN "over" ELSE state[e]]

Next ==
  \/ \E e \in Execution : Submit(e) \/ Begin(e)
  \/ \E S \in SUBSET Execution : End(S)

Spec == Init /\ [][Next]_state
=============================================================================
