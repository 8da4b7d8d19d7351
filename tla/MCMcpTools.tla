------------------------------ MODULE MCMcpTools ------------------------------
(* The instance of McpTools that TLC checks: names of tools and notifications are alike. *)
EXTENDS McpTools, TLC

Alike == Permutations(Tool) \cup Permutations(Note)
================================================================================
