--------------------------- MODULE MCFlowPriority ---------------------------
(* Instance of FlowPriority: two handlers of one flow at a time. *)
EXTENDS FlowPriority, TLC

CONSTANTS r1, r2

MCRequests == {r1, r2}
MCSymmetry == Permutations(MCRequests)
=============================================================================
