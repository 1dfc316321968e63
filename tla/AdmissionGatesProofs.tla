------------------------ MODULE AdmissionGatesProofs ------------------------
(***************************************************************************)
(* Proofs about AdmissionGates: for any set of requests, any thresholds    *)
(* and whatever the monitor publishes, the delay counter is exact and no   *)
(* drop of the KV usage is slept through.                                  *)
(***************************************************************************)
EXTENDS AdmissionGates, FiniteSetTheorems, TLAPS

\* What the actions keep of the types of the gate's state.
GateTypes ==
    /\ kv_usage \in Nat /\ published \in BOOLEAN
    /\ fresh \in [Requests -> BOOLEAN]
    /\ pc \in [Requests -> RequestStates]

\* A request that has read a usage above the threshold, asleep or not yet: if the
\* usage is low by now, the version that says so is unseen.
DropUnseen ==
    \A r \in Requests :
        pc[r] \in {"high", "parked"} /\ kv_usage <= DelayThreshold => fresh[r]

\* The inductive invariant: NoMissedDrop needs the step between the read and the
\* await, where the snapshot may be replaced.
GateInv == GateTypes /\ DelayedExact /\ DropUnseen

DelayedSet == {r \in Requests : Delayed(r)}

\* Sets of requests are finite.
LEMMA DelayedSetFinite ==
    IsFiniteSet(DelayedSet) /\ Cardinality(DelayedSet) \in Nat
BY GateAssumption, FS_Subset, FS_CardinalityType DEF DelayedSet

\* A request that moves between states on the same side of the delay leaves the set
\* of held requests as it is.
LEMMA MoveKeepsDelayed ==
    ASSUME NEW r \in Requests, NEW to \in RequestStates, GateTypes,
           pc' = [pc EXCEPT ![r] = to],
           Delayed(r) <=> to \in {"testing", "high", "parked"}
    PROVE  DelayedSet' = DelayedSet
BY DEF GateTypes, DelayedSet, Delayed

\* DelayGuard::new: one more request is held.
LEMMA EnterDelay ==
    ASSUME NEW r \in Requests, NEW to \in {"testing", "high", "parked"}, GateTypes,
           pc' = [pc EXCEPT ![r] = to], ~Delayed(r)
    PROVE  Cardinality(DelayedSet') = Cardinality(DelayedSet) + 1
<1>1. DelayedSet' = DelayedSet \cup {r} /\ r \notin DelayedSet
    BY DEF GateTypes, DelayedSet, Delayed
<1> QED BY <1>1, DelayedSetFinite, FS_AddElement

\* The DelayGuard's drop: one request fewer is held.
LEMMA LeaveDelay ==
    ASSUME NEW r \in Requests,
           NEW to \in RequestStates \ {"testing", "high", "parked"}, GateTypes,
           pc' = [pc EXCEPT ![r] = to], Delayed(r)
    PROVE  Cardinality(DelayedSet') = Cardinality(DelayedSet) - 1
<1>1. DelayedSet' = DelayedSet \ {r} /\ r \in DelayedSet
    BY DEF GateTypes, DelayedSet, Delayed
<1> QED BY <1>1, DelayedSetFinite, FS_RemoveElement

\* A step of a request within one side of the delay keeps the invariant, given what
\* it does to the request's own receiver.
LEMMA MoveStep ==
    ASSUME GateInv, NEW r \in Requests, NEW to \in RequestStates,
           pc' = [pc EXCEPT ![r] = to],
           Delayed(r) <=> to \in {"testing", "high", "parked"},
           UNCHANGED <<kv_usage, published, delayed_count>>,
           fresh' \in [Requests -> BOOLEAN],
           \A s \in Requests \ {r} : fresh'[s] = fresh[s],
           to \in {"high", "parked"} /\ kv_usage <= DelayThreshold => fresh'[r]
    PROVE  GateInv'
<1>1. GateTypes'
    BY DEF GateInv, GateTypes
<1>2. DelayedExact'
    <2>1. DelayedSet' = DelayedSet
        BY MoveKeepsDelayed DEF GateInv
    <2> QED BY <2>1 DEF GateInv, DelayedExact, DelayedSet
<1>3. DropUnseen'
    <2> SUFFICES ASSUME NEW s \in Requests,
                        pc'[s] \in {"high", "parked"}, kv_usage' <= DelayThreshold
                 PROVE  fresh'[s]
        BY DEF DropUnseen
    <2>1. CASE s = r
        BY <2>1 DEF GateInv, GateTypes
    <2>2. CASE s # r
        BY <2>2 DEF GateInv, GateTypes, DropUnseen
    <2> QED BY <2>1, <2>2
<1> QED BY <1>1, <1>2, <1>3 DEF GateInv

\* Leaving wait_for, however it ends.
LEMMA EndDelayStep ==
    ASSUME GateInv, NEW r \in Requests,
           NEW to \in RequestStates \ {"testing", "high", "parked"},
           Delayed(r), EndDelay(r, to)
    PROVE  GateInv'
<1>1. GateTypes'
    BY DEF GateInv, GateTypes, EndDelay, monitorVars
<1>2. DelayedExact'
    <2>1. Cardinality(DelayedSet') = Cardinality(DelayedSet) - 1
        BY LeaveDelay DEF GateInv, EndDelay
    <2> QED BY <2>1, DelayedSetFinite DEF GateInv, DelayedExact, DelayedSet, EndDelay
<1>3. DropUnseen'
    <2> SUFFICES ASSUME NEW s \in Requests,
                        pc'[s] \in {"high", "parked"}, kv_usage' <= DelayThreshold
                 PROVE  fresh'[s]
        BY DEF DropUnseen
    <2>1. s # r /\ pc'[s] = pc[s]
        BY DEF GateInv, GateTypes, EndDelay
    <2> QED BY <2>1 DEF GateInv, DropUnseen, EndDelay, monitorVars
<1> QED BY <1>1, <1>2, <1>3 DEF GateInv

\* The initial state satisfies the invariant: nobody is held.
LEMMA GateInit == Init => GateInv
<1> SUFFICES ASSUME Init PROVE GateInv
    OBVIOUS
<1>1. GateTypes /\ DropUnseen
    BY DEF Init, GateTypes, DropUnseen, RequestStates
<1>2. {r \in Requests : Delayed(r)} = {}
    BY DEF Init, Delayed
<1> QED BY <1>1, <1>2, FS_EmptySet DEF Init, GateInv, DelayedExact

\* Every step of a request keeps the invariant.
LEMMA RequestStep ==
    ASSUME GateInv, NEW r \in Requests, Request(r)
    PROVE  GateInv'
<1> USE DEF GateInv, GateTypes
<1>1. CASE Arrive(r)
    BY <1>1, MoveStep DEF Arrive, Goto, Delayed, RequestStates, monitorVars
<1>2. CASE KvPass(r)
    BY <1>2, MoveStep DEF KvPass, Goto, Delayed, RequestStates, monitorVars
<1>3. CASE KvReject(r)
    BY <1>3, MoveStep DEF KvReject, Goto, Delayed, RequestStates, monitorVars
<1>4. CASE KvDelay(r)
    <2>1. pc' = [pc EXCEPT ![r] = "testing"] /\ ~Delayed(r) /\ "testing" \in RequestStates
        BY <1>4 DEF KvDelay, Goto, Delayed, RequestStates
    <2>2. GateTypes'
        BY <1>4, <2>1 DEF KvDelay, monitorVars
    <2>3. DelayedExact'
        <3>1. Cardinality(DelayedSet') = Cardinality(DelayedSet) + 1
            BY <2>1, EnterDelay
        <3> QED BY <1>4, <3>1 DEF KvDelay, DelayedExact, DelayedSet
    <2>4. DropUnseen'
        <3> SUFFICES ASSUME NEW s \in Requests,
                            pc'[s] \in {"high", "parked"}, kv_usage' <= DelayThreshold
                     PROVE  fresh'[s]
            BY DEF DropUnseen
        <3>1. s # r /\ pc'[s] = pc[s]
            BY <2>1
        <3> QED BY <1>4, <3>1 DEF DropUnseen, KvDelay, monitorVars
    <2> QED BY <2>2, <2>3, <2>4
<1>5. CASE Test(r)
    <2>1. CASE kv_usage <= DelayThreshold
        BY <1>5, <2>1, EndDelayStep DEF Test, Delayed, RequestStates
    <2>2. CASE ~(kv_usage <= DelayThreshold)
        BY <1>5, <2>2, MoveStep DEF Test, Delayed, RequestStates, monitorVars
    <2> QED BY <2>1, <2>2
<1>6. CASE Park(r)
    BY <1>6, MoveStep DEF Park, Goto, Delayed, RequestStates, DropUnseen, monitorVars
<1>7. CASE Changed(r)
    BY <1>7, MoveStep DEF Changed, Goto, Delayed, RequestStates, monitorVars
<1>8. CASE Closed(r)
    BY <1>8, EndDelayStep DEF Closed, Delayed, RequestStates
<1>9. CASE StallGate(r)
    BY <1>9, MoveStep DEF StallGate, Goto, Delayed, RequestStates, monitorVars
<1>10. CASE InnerAdmit(r)
    BY <1>10, MoveStep DEF InnerAdmit, Goto, Delayed, RequestStates, monitorVars
<1>11. CASE DelayTimeout(r)
    BY <1>11, EndDelayStep DEF DelayTimeout, Delayed, RequestStates
<1>12. CASE Disconnect(r)
    BY <1>12, EndDelayStep DEF Disconnect, Delayed, RequestStates
<1>13. CASE LeaveQueue(r)
    BY <1>13, MoveStep DEF LeaveQueue, Goto, Delayed, RequestStates, monitorVars
<1> QED BY <1>1, <1>2, <1>3, <1>4, <1>5, <1>6, <1>7, <1>8, <1>9, <1>10, <1>11, <1>12,
           <1>13 DEF Request, Gate

\* A new snapshot marks every receiver; the other steps of the monitor, and
\* stuttering, touch nothing the invariant reads.
LEMMA MonitorStep ==
    ASSUME GateInv, PublishSnapshot \/ PublishStall \/ StopMonitor \/ UNCHANGED vars
    PROVE  GateInv'
<1>1. pc' = pc /\ delayed_count' = delayed_count
    BY DEF PublishSnapshot, PublishStall, StopMonitor, vars
<1>2. DelayedExact'
    BY <1>1 DEF GateInv, DelayedExact, Delayed
<1>3. CASE PublishSnapshot
    BY <1>2, <1>3, GateAssumption
       DEF PublishSnapshot, GateInv, GateTypes, DropUnseen
<1>4. CASE PublishStall \/ StopMonitor \/ UNCHANGED vars
    <2>1. UNCHANGED <<pc, kv_usage, published, fresh>>
        BY <1>4 DEF PublishStall, StopMonitor, vars, monitorVars
    <2> QED BY <1>2, <2>1 DEF GateInv, GateTypes, DropUnseen
<1> QED BY <1>3, <1>4

\* The invariant holds in every reachable state, in every mode.
THEOREM GateInvariance == Spec => []GateInv
<1>1. GateInv /\ [Next]_vars => GateInv'
    BY RequestStep, MonitorStep DEF Next
<1> QED BY <1>1, GateInit, PTL DEF Spec

\* KvPolicy.delayed_count is the number of requests whose DelayGuard is alive,
\* through wake-ups, timeouts, disconnects and the monitor's end.
THEOREM DelayCounterExact == Spec => []DelayedExact
<1>1. GateInv => DelayedExact
    BY DEF GateInv
<1> QED BY <1>1, GateInvariance, PTL

\* wait_for never sleeps through a drop of the usage: a parked request whose usage
\* has come down has an unseen version to wake it.
THEOREM DropsAreSeen == Spec => []NoMissedDrop
<1>1. GateInv => NoMissedDrop
    BY DEF GateInv, DropUnseen, NoMissedDrop
<1> QED BY <1>1, GateInvariance, PTL
=============================================================================
