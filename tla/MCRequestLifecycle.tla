------------------------- MODULE MCRequestLifecycle -------------------------
(* Instance of RequestLifecycle: requests of one flow.  A usage frame of two     *)
(* tokens overruns r1's estimate, meets r2's and falls short of r3's.            *)
EXTENDS RequestLifecycle

CONSTANTS r1, r2, r3, fa

MCFlows == {fa}
MCThree == {r1, r2, r3}
MCTwo == {r1, r2}
MCFlowOf == [r \in Requests |-> fa]
MCEst == [r \in Requests |-> IF r = r1 THEN 1 ELSE IF r = r2 THEN 2 ELSE 3]
=============================================================================
