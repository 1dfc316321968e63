---------------------------- MODULE MCDrrFairness ----------------------------
(* The instance of MCDrrScheduler for the scheduler with its history: the two  *)
(* flows have the same priority.                                               *)
EXTENDS MCDrrScheduler, DrrFairness

MCPeers == [f \in MCFlows |-> 1]

\* The two requests of fa differ in nothing but their names.
MCSiblings == Permutations({r1, r2})
=============================================================================
