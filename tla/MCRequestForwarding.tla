------------------------ MODULE MCRequestForwarding ------------------------
(* Instance of RequestForwarding; its constants are numbers. *)
EXTENDS RequestForwarding
=============================================================================
