------------------------ MODULE MCExecutionControl ------------------------
(* Instances of ExecutionControl for TLC. *)
EXTENDS ExecutionControl, TLC

AgentSymmetry == Permutations(Agents)
=============================================================================
