------------------------- MODULE MCExecutionAgent -------------------------
(* Instances of ExecutionAgent for TLC. *)
EXTENDS ExecutionAgent, TLC

\* A configuration file cannot hold a negative number.
BothSides == {-1, 1}
=============================================================================
