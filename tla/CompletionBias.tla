--------------------------- MODULE CompletionBias ---------------------------
(***************************************************************************)
(* The completion-bias gate (src/src/scheduler/completion_bias.rs) between *)
(* its callers, the requests inside DrrScheduler::admit, and the ticket    *)
(* drops that wake it.  The gate keeps no state: it reads the active-flow  *)
(* gauge, the flow's active counter and its enqueue timestamp, which other *)
(* code writes, and sleeps on a Notify that remembers nothing.  Of the     *)
(* DRR scheduler only permits and the order of those writes are kept here  *)
(* (module DrrScheduler has the rest).                                     *)
(***************************************************************************)
EXTENDS Integers, FiniteSets

CONSTANTS
    Requests, Flows,
    FlowOf,         \* [Requests -> Flows]
    MaxPermits,     \* max_active_flows
    Target,         \* target_active_flows, 0 for "use max_active_flows"
    Predictive,     \* predictive_admit
    Again           \* TRUE: clients stay and send another request after each one

ASSUME BiasAssumption ==
    /\ IsFiniteSet(Requests)
    /\ FlowOf \in [Requests -> Flows]
    /\ MaxPermits \in Nat \ {0} /\ Target \in Nat
    /\ Predictive \in BOOLEAN /\ Again \in BOOLEAN

VARIABLES
    active_flows,   \* the metrics gauge, an f64
    active,         \* [Flows -> Int], Flow.active
    enqueued_at,    \* [Flows -> Stamps]
    near_done,      \* FlowProgressTracker::any_flow_near_done(0.9)
    waited,         \* [Requests -> BOOLEAN]: inside admit longer than the timeout
    notified,       \* [Requests -> BOOLEAN]: woken since notified() was called
    pc              \* [Requests -> RequestStates]

flowVars == <<active_flows, active, enqueued_at>>
vars == <<flowVars, near_done, waited, notified, pc>>

Stamps == {"None", "Fresh", "Old"}

\* "looping" is the head of the gate's loop, "parked" its await, "rechecking" what
\* follows it.  "granted" has its ticket in the channel.
RequestStates == {"idle", "entering", "looping", "parked", "rechecking", "passed",
                  "queued", "granted", "active", "done"}

Gated(r) == pc[r] \in {"looping", "parked", "rechecking"}

\* The requests a permit is out for.
Holding == {r \in Requests : pc[r] \in {"granted", "active"}}

effective_target == IF Target = 0 THEN MaxPermits ELSE Target

\* `active_flows.get() as u32` saturates, so a negative gauge reads as zero.
BelowTarget == active_flows < effective_target

\* A counter that went below zero is a large u32.
is_active(f) == active[f] # 0

is_starved(f) == enqueued_at[f] = "Old"

Goto(r, from, to) == pc[r] = from /\ pc' = [pc EXCEPT ![r] = to]

-----------------------------------------------------------------------------
(* CompletionBiasGate::check *)

\* admit_blocking makes its guard and calls the gate.
Arrive(r) ==
    /\ Goto(r, "idle", "entering")
    /\ waited' = [waited EXCEPT ![r] = FALSE]
    /\ UNCHANGED <<flowVars, near_done, notified>>

\* The tests made once: an active flow, a free place, an early admission.
Enter(r) ==
    /\ Goto(r, "entering",
            IF is_active(FlowOf[r]) \/ BelowTarget \/ (Predictive /\ near_done)
            THEN "passed" ELSE "looping")
    /\ UNCHANGED <<flowVars, near_done, waited, notified>>

\* The loop: starvation and early admission are tested, then notified() is called.
Park(r) ==
    /\ Goto(r, "looping",
            IF is_starved(FlowOf[r]) \/ (Predictive /\ near_done)
            THEN "passed" ELSE "parked")
    /\ notified' = [notified EXCEPT ![r] = FALSE]
    /\ UNCHANGED <<flowVars, near_done, waited>>

\* Mutant of Wake: no interval, so only a notification ends the sleep.
WakeNotified(r) ==
    /\ Goto(r, "parked", "rechecking")
    /\ notified[r]
    /\ UNCHANGED <<flowVars, near_done, waited, notified>>

\* A notification, or the interval of a quarter of the starvation timeout.
Wake(r) ==
    /\ Goto(r, "parked", "rechecking")
    /\ UNCHANGED <<flowVars, near_done, waited, notified>>

\* Only the gauge is read again.
Recheck(r) ==
    /\ Goto(r, "rechecking", IF BelowTarget THEN "passed" ELSE "looping")
    /\ UNCHANGED <<flowVars, near_done, waited, notified>>

-----------------------------------------------------------------------------
(* Past the gate *)

\* The Pending is pushed and the flow stamped with the time the request came in.
Enqueue(r) ==
    /\ Goto(r, "passed", "queued")
    /\ enqueued_at' = [enqueued_at EXCEPT ![FlowOf[r]] =
                          IF waited[r] THEN "Old" ELSE "Fresh"]
    /\ UNCHANGED <<active_flows, active, near_done, waited, notified>>

\* The loop selects the request: it takes a permit and clears the timestamp.
Grant(r) ==
    /\ Cardinality(Holding) < MaxPermits
    /\ Goto(r, "queued", "granted")
    /\ enqueued_at' = [enqueued_at EXCEPT ![FlowOf[r]] = "None"]
    /\ UNCHANGED <<active_flows, active, near_done, waited, notified>>

Receive(r) ==
    /\ Goto(r, "granted", "active")
    /\ active_flows' = active_flows + 1
    /\ active' = [active EXCEPT ![FlowOf[r]] = @ + 1]
    /\ UNCHANGED <<enqueued_at, near_done, waited, notified>>

\* The ticket's drop handler: both counters, the permit, then notify_waiters, which
\* reaches only those already asleep.
DropTicket(r) ==
    /\ Goto(r, "active", IF Again THEN "idle" ELSE "done")
    /\ active_flows' = active_flows - 1
    /\ active' = [active EXCEPT ![FlowOf[r]] = @ - 1]
    /\ notified' = [s \in Requests |-> notified[s] \/ pc[s] = "parked"]
    /\ UNCHANGED <<enqueued_at, near_done, waited>>

\* The client leaves at an await.  A ticket in the channel is dropped with its
\* receiver, counted down without having been counted; the admission guard clears
\* the flow's timestamp.
GiveUp(r) ==
    LET unread == IF pc[r] = "granted" THEN 1 ELSE 0 IN
    /\ ~Again
    /\ pc[r] \in {"parked", "queued", "granted"}
    /\ pc' = [pc EXCEPT ![r] = "done"]
    /\ active_flows' = active_flows - unread
    /\ active' = [active EXCEPT ![FlowOf[r]] = @ - unread]
    /\ notified' = [s \in Requests |->
                      notified[s] \/ (unread = 1 /\ pc[s] = "parked")]
    /\ enqueued_at' = [enqueued_at EXCEPT ![FlowOf[r]] = "None"]
    /\ UNCHANGED <<near_done, waited>>

-----------------------------------------------------------------------------
(* Environment *)

\* The starvation timeout passes since the request came in, or since the stamp.
Wait(r) ==
    /\ Gated(r) /\ ~waited[r]
    /\ waited' = [waited EXCEPT ![r] = TRUE]
    /\ UNCHANGED <<flowVars, near_done, notified, pc>>

Age(f) ==
    /\ enqueued_at[f] = "Fresh"
    /\ enqueued_at' = [enqueued_at EXCEPT ![f] = "Old"]
    /\ UNCHANGED <<active_flows, active, near_done, waited, notified, pc>>

\* Usage frames and completions move the tracker (module RequestLifecycle).
Progress ==
    /\ Predictive
    /\ near_done' = ~near_done
    /\ UNCHANGED <<flowVars, waited, notified, pc>>

Init ==
    /\ active_flows = 0
    /\ active = [f \in Flows |-> 0]
    /\ enqueued_at = [f \in Flows |-> "None"]
    /\ near_done = FALSE
    /\ waited = [r \in Requests |-> FALSE]
    /\ notified = [r \in Requests |-> FALSE]
    /\ pc = [r \in Requests |-> "idle"]

Run(r) == \/ Enter(r) \/ Park(r) \/ Wake(r) \/ Recheck(r) \/ Enqueue(r)
          \/ Receive(r) \/ DropTicket(r)

Next ==
    \/ \E r \in Requests : Arrive(r) \/ Run(r) \/ Grant(r) \/ GiveUp(r) \/ Wait(r)
    \/ \E f \in Flows : Age(f)
    \/ Progress

Spec == Init /\ [][Next]_vars

\* Futures that can run do run, the gate's timer fires, streams end, time passes,
\* and the DRR scheduler grants.
Fairness ==
    \A r \in Requests :
        WF_vars(Run(r)) /\ WF_vars(Wait(r)) /\ SF_vars(Grant(r))

FairSpec == Spec /\ Fairness

-----------------------------------------------------------------------------
(* Properties *)

\* Nobody is forgotten at the gate: when clients send one request each, every gated
\* request passes or is given up, although the Notify keeps no permit and a ticket
\* may be dropped between the test of the gauge and the sleep.
GateOpens == \A r \in Requests : Gated(r) ~> ~Gated(r)

\* The comment of admit_blocking, "gate can wait indefinitely (starvation timeout
\* handles it)", and the header of completion_bias.rs: a flow that has been waiting
\* longer than starvation_timeout is let through.
StarvationRescues == \A r \in Requests : Gated(r) /\ waited[r] ~> ~Gated(r)
=============================================================================
