---------------------------- MODULE AdmissionPool ----------------------------
(***************************************************************************)
(* What the admission scheduler promises: requests wait in one FIFO queue  *)
(* per flow, may leave it at any place, are granted from its head only,    *)
(* and never more than MaxPermits of them hold a permit.                   *)
(***************************************************************************)
EXTENDS Queues, FiniteSets

CONSTANTS Requests, Flows, FlowOf, MaxPermits

VARIABLES queue, held

poolVars == <<queue, held>>

Queued == UNION {Range(queue[f]) : f \in Flows}

Init ==
    /\ queue = [f \in Flows |-> <<>>]
    /\ held = {}

Join(r) ==
    /\ r \notin Queued \union held
    /\ queue' = [queue EXCEPT ![FlowOf[r]] = Append(@, r)]
    /\ UNCHANGED held

Leave(r) ==
    /\ r \in Queued
    /\ queue' = [queue EXCEPT ![FlowOf[r]] = Without(@, r)]
    /\ UNCHANGED held

Grant(f) ==
    /\ queue[f] # <<>>
    /\ Cardinality(held) < MaxPermits
    /\ held' = held \union {Head(queue[f])}
    /\ queue' = [queue EXCEPT ![f] = Tail(@)]

Return(r) ==
    /\ r \in held
    /\ held' = held \ {r}
    /\ UNCHANGED queue

Next ==
    \/ \E r \in Requests : Join(r) \/ Leave(r) \/ Return(r)
    \/ \E f \in Flows : Grant(f)

Spec == Init /\ [][Next]_poolVars
=============================================================================
