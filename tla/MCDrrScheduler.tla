--------------------------- MODULE MCDrrScheduler ---------------------------
(* Instance of DrrScheduler: three requests of two flows on two permits. *)
EXTENDS DrrScheduler, TLC

CONSTANTS r1, r2, r3, fa, fb

MCRequests == {r1, r2, r3}
MCPair == {r1, r3}
MCFlows == {fa, fb}

\* Two requests of flow fa and one of fb, all of the same cost.
MCFlowOf == [r \in Requests |-> IF r = r3 THEN fb ELSE fa]
MCCost == [r \in Requests |-> 1]
MCWeight == [f \in MCFlows |-> 1]
MCPriority == (fa :> 2) @@ (fb :> 1)

\* A request of fb that takes two rounds.
MCTwoRounds == [r \in Requests |-> IF r = r3 THEN 2 ELSE 1]
MCFootprint == (fa :> 0) @@ (fb :> 1)

\* Two pressure levels: at level 1 the cap drops to one flow and the selection
\* bias is on.
MCPressures == {0, 1}
MCThresholds == {[at |-> 1, max_flows |-> 1]}
=============================================================================
