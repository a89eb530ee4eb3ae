--------------------------- MODULE MCToolExecution ---------------------------
(* Instances of tool executions for TLC. *)
EXTENDS ToolExecution, TLC

Symmetry ==
  Permutations(Sessions) \cup Permutations(Workspaces) \cup Permutations(Versions)
    \cup Permutations(Executions) \cup Permutations(Keys)
=============================================================================
