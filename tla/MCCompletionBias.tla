-------------------------- MODULE MCCompletionBias --------------------------
(* Instance of CompletionBias: two requests of one flow and one of another. *)
EXTENDS CompletionBias

CONSTANTS r1, r2, r3, fa, fb

MCRequests == {r1, r2, r3}
MCFlows == {fa, fb}
MCFlowOf == [r \in Requests |-> IF r = r3 THEN fb ELSE fa]
=============================================================================
