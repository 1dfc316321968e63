-------------------------- MODULE MCAdmissionGates --------------------------
(* Instance of AdmissionGates: one level in each band of the KV policy. *)
EXTENDS AdmissionGates

CONSTANTS r1, r2, r3

MCRequests == {r1, r2, r3}
MCInteractive == {r3}
=============================================================================
