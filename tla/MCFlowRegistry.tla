--------------------------- MODULE MCFlowRegistry ---------------------------
(* Instance of FlowRegistry: a request of a session that POST /flows registers *)
(* as well, and a request of another session, with the same home slot, that    *)
(* fails after it was pinned.                                                  *)
EXTENDS FlowRegistry

CONSTANTS fa, fb, r1, r2

MCFlows == {fa, fb}
MCRequests == {r1, r2}
MCFlowOf == [r \in Requests |-> IF r = r1 THEN fa ELSE fb]
MCHome == [f \in Flows |-> [n \in SlotCounts |-> n - 1]]
=============================================================================
