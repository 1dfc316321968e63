-------------------------- MODULE MCBackendMonitor --------------------------
(* Instance of BackendMonitor: two counters, a timeout of three intervals, and *)
(* requests that may take two: a llama.cpp poll can outlast the stall timeout. *)
EXTENDS BackendMonitor

CONSTANTS prompt_tokens, decode_calls

MCCounters == {prompt_tokens, decode_calls}
=============================================================================
