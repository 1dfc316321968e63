--------------------------- MODULE AdmissionGates ---------------------------
(***************************************************************************)
(* The admission facade (src/src/scheduler/mod.rs) and the gates it runs   *)
(* in front of the DRR scheduler: the KV-cache policy                      *)
(* (src/src/scheduler/kv_admission.rs), the stall gate, and the depth      *)
(* check of fail-fast mode.  Requests run concurrently with the backend    *)
(* monitor, which publishes KV usage and the stall signal through two      *)
(* watch channels; what the monitor publishes is arbitrary here (module    *)
(* BackendMonitor says what it may be).                                    *)
(***************************************************************************)
EXTENDS Naturals, FiniteSets

CONSTANTS
    Requests,
    Interactive,        \* requests whose flow is interactive when they arrive
    Levels,             \* levels of KV usage
    DelayThreshold, RejectThreshold,
    BypassInteractive,
    Modes,              \* the values of backpressure_mode to consider
    MaxQueueDepth,
    MonitorStops        \* the monitor task may end, closing its channels

\* config/loader.rs requires delay_threshold < reject_threshold.
ASSUME GateAssumption ==
    /\ IsFiniteSet(Requests)
    /\ Interactive \subseteq Requests
    /\ Levels \subseteq Nat
    /\ DelayThreshold \in Nat /\ RejectThreshold \in Nat
    /\ DelayThreshold < RejectThreshold
    /\ BypassInteractive \in BOOLEAN
    /\ Modes \subseteq {"blocking", "fail_fast", "hybrid"}
    /\ MaxQueueDepth \in Nat
    /\ MonitorStops \in BOOLEAN

VARIABLES
    mode,           \* backpressure_mode; never changes
    kv_usage,       \* BackendSnapshot.kv_usage in the watch channel
    sender_alive,   \* the monitor task runs
    published,      \* a snapshot has been sent since start-up
    stalled,        \* the stall channel
    delayed_count,  \* KvPolicy.delayed_count
    fresh,          \* [Requests -> BOOLEAN]: its receiver has an unseen version
    pc              \* [Requests -> RequestStates]

monitorVars == <<mode, kv_usage, published, stalled, sender_alive>>
vars == <<monitorVars, delayed_count, fresh, pc>>

\* "gate" is before KvPolicy::check; "testing", "high" and "parked" are inside
\* wait_for: about to read the snapshot, read as too high, awaiting changed().
RequestStates == {"idle", "gate", "testing", "high", "parked", "stall_gate",
                  "admit", "queued", "kv_rejected", "stall_rejected",
                  "depth_rejected", "done"}

\* The life of a DelayGuard.
Delayed(r) == pc[r] \in {"testing", "high", "parked"}

\* What the DRR scheduler counts, and what the facade reports.
inner_queue_depth == Cardinality({r \in Requests : pc[r] = "queued"})
queue_depth == inner_queue_depth + delayed_count

Goto(r, from, to) == pc[r] = from /\ pc' = [pc EXCEPT ![r] = to]

-----------------------------------------------------------------------------
(* KvPolicy::check *)

Bypasses(r) == BypassInteractive /\ r \in Interactive

decide == IF kv_usage > RejectThreshold THEN "Reject"
          ELSE IF kv_usage > DelayThreshold THEN "Delay" ELSE "Accept"

\* In blocking mode the reject band is part of the delay band.
decision == IF decide = "Reject" /\ mode = "blocking" THEN "Delay" ELSE decide

\* admit_with_turn_boundary is called: lookup and cadence, nothing awaited.
Arrive(r) ==
    /\ Goto(r, "idle", "gate")
    /\ UNCHANGED <<monitorVars, delayed_count, fresh>>

KvPass(r) ==
    /\ Bypasses(r) \/ decision = "Accept"
    /\ Goto(r, "gate", "stall_gate")
    /\ UNCHANGED <<monitorVars, delayed_count, fresh>>

KvReject(r) ==
    /\ ~Bypasses(r) /\ decision = "Reject"
    /\ Goto(r, "gate", "kv_rejected")
    /\ UNCHANGED <<monitorVars, delayed_count, fresh>>

\* DelayGuard::new, then wait_for clones the monitor's own receiver, which has
\* seen no version since start-up.
KvDelay(r) ==
    /\ ~Bypasses(r) /\ decision = "Delay"
    /\ Goto(r, "gate", "testing")
    /\ delayed_count' = delayed_count + 1
    /\ fresh' = [fresh EXCEPT ![r] = published]
    /\ UNCHANGED monitorVars

\* Leaving wait_for, however it ends, drops the DelayGuard.
EndDelay(r, to) ==
    /\ pc' = [pc EXCEPT ![r] = to]
    /\ delayed_count' = delayed_count - 1
    /\ UNCHANGED <<monitorVars, fresh>>

\* predicate(&rx.borrow())
Test(r) ==
    /\ pc[r] = "testing"
    /\ IF kv_usage <= DelayThreshold
       THEN EndDelay(r, "stall_gate")
       ELSE /\ pc' = [pc EXCEPT ![r] = "high"]
            /\ UNCHANGED <<monitorVars, delayed_count, fresh>>

\* Mutant of Park: changed() waits for a version newer than the one current now.
ParkOnLatest(r) ==
    /\ Goto(r, "high", "parked")
    /\ fresh' = [fresh EXCEPT ![r] = FALSE]
    /\ UNCHANGED <<monitorVars, delayed_count>>

\* rx.changed().await
Park(r) ==
    /\ Goto(r, "high", "parked")
    /\ UNCHANGED <<monitorVars, delayed_count, fresh>>

\* Mutant of Changed: a version sent before the channel closed is not delivered.
ChangedWhileOpen(r) ==
    /\ Goto(r, "parked", "testing")
    /\ fresh[r] /\ sender_alive
    /\ fresh' = [fresh EXCEPT ![r] = FALSE]
    /\ UNCHANGED <<monitorVars, delayed_count>>

\* changed() returns: a version not seen yet, which it marks as seen.
Changed(r) ==
    /\ Goto(r, "parked", "testing")
    /\ fresh[r]
    /\ fresh' = [fresh EXCEPT ![r] = FALSE]
    /\ UNCHANGED <<monitorVars, delayed_count>>

\* changed() fails: the sender is gone, and wait_for returns whatever the usage.
Closed(r) ==
    /\ pc[r] = "parked" /\ ~fresh[r] /\ ~sender_alive
    /\ EndDelay(r, "stall_gate")

\* Mutant of DelayTimeout: fail-fast mode waits like blocking mode.
DelayTimeoutHybrid(r) ==
    /\ mode = "hybrid"
    /\ pc[r] = "parked"
    /\ EndDelay(r, "kv_rejected")

\* max_wait elapses at the await, in the two bounded modes.
DelayTimeout(r) ==
    /\ mode # "blocking"
    /\ pc[r] = "parked"
    /\ EndDelay(r, "kv_rejected")

\* Mutant of Disconnect: a dropped future leaves the counter as it is.
DisconnectUncounted(r) ==
    /\ pc[r] = "parked"
    /\ pc' = [pc EXCEPT ![r] = "done"]
    /\ UNCHANGED <<monitorVars, delayed_count, fresh>>

\* The client goes away while the request is held.
Disconnect(r) ==
    /\ pc[r] = "parked"
    /\ EndDelay(r, "done")

-----------------------------------------------------------------------------
(* The stall gate, and the entry of DrrScheduler::admit *)

StallGate(r) ==
    /\ Goto(r, "stall_gate", IF stalled THEN "stall_rejected" ELSE "admit")
    /\ UNCHANGED <<monitorVars, delayed_count, fresh>>

\* Only fail-fast mode looks at the depth, and only at the DRR queue's.
InnerAdmit(r) ==
    LET full == mode = "fail_fast" /\ inner_queue_depth > MaxQueueDepth IN
    /\ Goto(r, "admit", IF full THEN "depth_rejected" ELSE "queued")
    /\ UNCHANGED <<monitorVars, delayed_count, fresh>>

\* Granted, timed out or cancelled in the DRR scheduler (module DrrScheduler).
LeaveQueue(r) ==
    /\ Goto(r, "queued", "done")
    /\ UNCHANGED <<monitorVars, delayed_count, fresh>>

Gate(r) == \/ KvPass(r) \/ KvReject(r) \/ KvDelay(r) \/ Test(r) \/ Park(r)
           \/ Changed(r) \/ Closed(r) \/ StallGate(r) \/ InnerAdmit(r)

Request(r) == Arrive(r) \/ Gate(r) \/ DelayTimeout(r) \/ Disconnect(r) \/ LeaveQueue(r)

-----------------------------------------------------------------------------
(* The monitor *)

PublishSnapshot ==
    /\ sender_alive
    /\ kv_usage' \in Levels
    /\ published' = TRUE
    /\ fresh' = [r \in Requests |-> TRUE]
    /\ UNCHANGED <<mode, stalled, sender_alive, delayed_count, pc>>

PublishStall ==
    /\ sender_alive
    /\ stalled' = ~stalled
    /\ UNCHANGED <<mode, kv_usage, published, sender_alive, delayed_count, fresh, pc>>

\* The task ends and drops the senders; the channels keep their last values.
StopMonitor ==
    /\ MonitorStops
    /\ sender_alive
    /\ sender_alive' = FALSE
    /\ UNCHANGED <<mode, kv_usage, published, stalled, delayed_count, fresh, pc>>

\* The channels start with BackendSnapshot::default() and FALSE.
Init ==
    /\ mode \in Modes
    /\ kv_usage = 0
    /\ published = FALSE
    /\ stalled = FALSE
    /\ sender_alive = TRUE
    /\ delayed_count = 0
    /\ fresh = [r \in Requests |-> FALSE]
    /\ pc = [r \in Requests |-> "idle"]

Next ==
    \/ PublishSnapshot \/ PublishStall \/ StopMonitor
    \/ \E r \in Requests : Request(r)

Spec == Init /\ [][Next]_vars

\* A polled future runs on.  A deadline that has passed stays passed and is looked
\* at whenever wait_for is pending again, hence strong fairness of the timeout.
\* Clients and the monitor do as they please.
Fairness == \A r \in Requests : WF_vars(Gate(r)) /\ SF_vars(DelayTimeout(r))

FairSpec == Spec /\ Fairness

-----------------------------------------------------------------------------
(* Properties *)

\* delayed_count, part of every queue depth the API reports, is the number of
\* requests being held, through wake-ups, timeouts and disconnects.
DelayedExact == delayed_count = Cardinality({r \in Requests : Delayed(r)})

\* A request is never left parked on a usage that has come down: an unseen version
\* is waiting for its receiver, although it read the old one and went to sleep in
\* two steps.
NoMissedDrop ==
    \A r \in Requests :
        pc[r] = "parked" /\ kv_usage <= DelayThreshold => fresh[r]

\* A held request goes on once usage is at or below delay_threshold and stays there.
DelayEnds ==
    \A r \in Requests :
        Delayed(r) /\ kv_usage <= DelayThreshold
            ~> ~Delayed(r) \/ kv_usage > DelayThreshold

\* "Hybrid and failfast modes must always return within a bounded time": the gate
\* lets go of every request, whatever the backend reports.
DelayIsBounded == \A r \in Requests : mode # "blocking" /\ Delayed(r) ~> ~Delayed(r)
=============================================================================
