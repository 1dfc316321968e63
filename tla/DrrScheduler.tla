---------------------------- MODULE DrrScheduler ----------------------------
(***************************************************************************)
(* The Deficit Round Robin admission scheduler (src/src/scheduler/drr.rs). *)
(*                                                                         *)
(* One process per request (the future returned by `admit` and, after it   *)
(* returns, the handler that owns the ticket), one process for the         *)
(* background `admission_loop`, and an environment that publishes backend  *)
(* snapshots, lets time pass and drops request futures.  A step is a       *)
(* stretch of code between two points where another thread can interfere:  *)
(* a mutex section, a group of counters, a `notify_one`, a oneshot `send`. *)
(*                                                                         *)
(* Left out: metrics other than the active-flow gauge, and `flow.credit`   *)
(* (no decision of the scheduler reads it; module RequestLifecycle models  *)
(* it).                                                                    *)
(* The completion-bias gate is a step a request may always pass here;      *)
(* module CompletionBias models when it does.                              *)
(***************************************************************************)
EXTENDS Queues, FiniteSets

CONSTANTS
    Requests,       \* every request of the workload; each one is admitted once
    Flows,          \* flow identities
    NoRequest,      \* "no selected Pending in the loop's hands"
    FlowOf,         \* [Requests -> Flows]
    Cost,           \* [Requests -> Nat], `work_unit as i64`
    Weight,         \* [Flows -> Nat], `flow.weight() as i64`
    Priority,       \* [Flows -> Nat]
    Footprint,      \* [Flows -> Nat], KV footprint seen by the selection bias
    MaxPermits,     \* max_active_flows
    MaxQueueDepth,  \* max_queue_depth, read in fail-fast mode only
    Mode,           \* backpressure_mode
    SenderAlive,    \* the monitor task runs; FALSE for BackendMonitor::empty()
    Pressures,      \* levels of backend KV usage
    Thresholds,     \* kv_pressure.thresholds: set of [at, max_flows]
    BiasBelow       \* kv_bias.pressure_below, on the scale of Pressures

Modes == {"blocking", "fail_fast", "hybrid"}

ASSUME WorkloadAssumption ==
    /\ IsFiniteSet(Requests)
    /\ NoRequest \notin Requests
    /\ FlowOf \in [Requests -> Flows]
    /\ Cost \in [Requests -> Nat]

ASSUME FlowAssumption ==
    /\ Weight \in [Flows -> Nat]
    /\ Priority \in [Flows -> Nat]
    /\ Footprint \in [Flows -> Nat]

\* config/loader.rs rejects max_active_flows = 0 and thresholds outside
\* [1, max_active_flows].
ASSUME ConfigAssumption ==
    /\ MaxPermits \in Nat \ {0}
    /\ MaxQueueDepth \in Nat
    /\ Mode \in Modes
    /\ SenderAlive \in BOOLEAN
    /\ Pressures \subseteq Nat
    /\ Thresholds \subseteq [at : Nat, max_flows : 1..MaxPermits]
    /\ BiasBelow \in Nat

VARIABLES
    \* DrrState, protected by its mutex
    waiting,        \* [Flows -> Seq(Requests)]; <<>> stands for "no entry"
    rr_cursor,      \* Seq(Flows)
    available_permits,
    deficit,        \* [Flows -> Nat]; 0 stands for "no entry"
    \* Flow, atomics and a lock per flow
    depth,          \* [Flows -> Nat]
    waiting_queue,  \* Seq(Flows), one entry per live guard, under its own lock
    active,         \* [Flows -> Int]; a negative value is a wrapped u32
    enqueued_at,    \* [Flows -> Stamps]
    \* metrics.active_flows
    active_flows,
    \* the Notify's single stored permit
    notify,
    \* backend monitor as the loop sees it
    kv_pressure, snapshot_dirty,
    \* locals of admission_loop
    loop, cap, in_hand, monitor_alive,
    \* each request's future and its ticket
    pc, ticket

drrState == <<waiting, rr_cursor, available_permits, deficit>>
flowState == <<depth, waiting_queue, active, enqueued_at, active_flows>>
monitorState == <<kv_pressure, snapshot_dirty>>
loopState == <<loop, cap, in_hand, monitor_alive>>
requestState == <<pc, ticket>>
vars == <<drrState, flowState, notify, monitorState, loopState, requestState>>

-----------------------------------------------------------------------------
(* Types *)

\* Flow.enqueued_at: no instant, an instant within the starvation timeout,
\* an instant further back than the timeout.
Stamps == {"None", "Fresh", "Old"}

\* "checked" is the window of fail-fast mode between reading the queue depth
\* and creating the guard; "counted" is inside DrrAdmitGuard::new and "consumed"
\* inside its consume, each between the depth and the list; "cancelled" has dropped
\* the oneshot receiver but not yet its admission guard, "uncounted" and "unlisted"
\* are on the way through the guard's drop; "closing" runs the ticket's drop handler.
RequestStates == {"idle", "checked", "counted", "guarded", "pushed", "stamped",
                  "awaiting", "consumed", "active", "closing", "cancelled",
                  "uncounted", "unlisted", "done"}

\* "sent" is inside the oneshot channel; "dropping" has decremented the gauges,
\* "returned" has also given its permit back.
TicketStates == {"none", "sent", "held", "dropping", "returned"}

LoopStates == {"asleep", "check", "select", "granting"}

-----------------------------------------------------------------------------
(* Helpers *)

ActivePermits == MaxPermits - available_permits

\* A Pending's receiver is alive until the future that owns it is dropped.
Receiving(r) == pc[r] \in {"pushed", "stamped", "awaiting"}

\* DrrAdmitGuard.active: the request counts in its flow's depth.
Guarded(r) ==
    pc[r] \in {"counted", "guarded", "pushed", "stamped", "awaiting", "cancelled"}

queue_depth == FoldFunction(+, 0, depth)

is_starved(f) == enqueued_at[f] = "Old"

HasWaiting(f) == waiting[f] # <<>>

\* PressureCapHandle::effective_max
effective_max(p) ==
    LET matching == {t.max_flows : t \in {u \in Thresholds : p >= u.at}}
    IN  CHOOSE c \in matching \union {MaxPermits} :
            \A d \in matching \union {MaxPermits} : c <= d

\* Position of a flow in the cursor (FlowCandidate.base_score).
BaseScore(f) == CHOOSE i \in DOMAIN rr_cursor : rr_cursor[i] = f

\* priority::cmp_fair on two different flows: base scores differ, so the
\* enqueue-time tie-break is never reached.
CmpFairLess(f, g) ==
    \/ Priority[f] > Priority[g]
    \/ Priority[f] = Priority[g] /\ BaseScore(f) < BaseScore(g)

\* KvBiasHandle::select prefers f to g: footprint first once the bias has a
\* positive weight, the fair order otherwise.
Prefers(f, g) ==
    IF kv_pressure > BiasBelow /\ Footprint[f] # Footprint[g]
    THEN Footprint[f] > Footprint[g]
    ELSE CmpFairLess(f, g)

-----------------------------------------------------------------------------
(* admission_loop *)

\* Mutant of Wake: the notify arm of the select is lost.
WakeOnSnapshot ==
    /\ loop = "asleep"
    /\ monitor_alive /\ snapshot_dirty
    /\ snapshot_dirty' = FALSE
    /\ loop' = "check"
    /\ UNCHANGED <<drrState, flowState, requestState, notify, kv_pressure, cap,
                   in_hand, monitor_alive>>

\* The outer select: a stored notification, a new snapshot, or the snapshot
\* channel reporting that its sender is gone.
Wake ==
    /\ loop = "asleep"
    /\ \/ /\ notify
          /\ notify' = FALSE
          /\ UNCHANGED <<snapshot_dirty, monitor_alive>>
       \/ /\ monitor_alive /\ snapshot_dirty
          /\ snapshot_dirty' = FALSE
          /\ UNCHANGED <<notify, monitor_alive>>
       \/ /\ monitor_alive /\ ~snapshot_dirty /\ ~SenderAlive
          /\ monitor_alive' = FALSE
          /\ UNCHANGED <<notify, snapshot_dirty>>
    /\ loop' = "check"
    /\ UNCHANGED <<drrState, flowState, requestState, kv_pressure, cap,
                   in_hand>>

\* Head of the inner loop: read the cap, then active/has_waiting under the lock.
Check ==
    /\ loop = "check"
    /\ cap' = effective_max(kv_pressure)
    /\ loop' = IF ActivePermits >= cap' \/ rr_cursor = <<>>
               THEN "asleep" ELSE "select"
    /\ UNCHANGED <<drrState, flowState, notify, monitorState, requestState,
                   in_hand, monitor_alive>>

\* try_select is entered: the lock is taken and the cap and the cursor are
\* tested again.
Selecting ==
    /\ loop = "select"
    /\ ActivePermits < cap
    /\ rr_cursor # <<>>

StarvedFlows == {f \in Range(rr_cursor) : HasWaiting(f) /\ is_starved(f)}

\* Mutant of Serve: the newest Pending is popped (pop_back).
ServeNewest(f) ==
    LET n == Len(waiting[f]) IN
    /\ waiting' = [waiting EXCEPT ![f] = SubSeq(@, 1, n - 1)]
    /\ rr_cursor' = Without(rr_cursor, f) \o (IF n = 1 THEN <<>> ELSE <<f>>)
    /\ enqueued_at' = [enqueued_at EXCEPT ![f] = "None"]
    /\ available_permits' = available_permits - 1
    /\ in_hand' = waiting[f][n]
    /\ loop' = "granting"
    /\ UNCHANGED <<depth, waiting_queue, active, active_flows, notify, monitorState,
                   requestState, cap, monitor_alive>>

\* Mutant of Serve: a flow with more to serve keeps its place in the cursor.
ServeInPlace(f) ==
    /\ waiting' = [waiting EXCEPT ![f] = Tail(@)]
    /\ rr_cursor' = IF Tail(waiting[f]) = <<>> THEN Without(rr_cursor, f) ELSE rr_cursor
    /\ enqueued_at' = [enqueued_at EXCEPT ![f] = "None"]
    /\ available_permits' = available_permits - 1
    /\ in_hand' = Head(waiting[f])
    /\ loop' = "granting"
    /\ UNCHANGED <<depth, waiting_queue, active, active_flows, notify, monitorState,
                   requestState, cap, monitor_alive>>

\* The common tail of both selections: pop the head, rotate the cursor, clear
\* the flow's timestamp, take a permit.
Serve(f) ==
    /\ waiting' = [waiting EXCEPT ![f] = Tail(@)]
    /\ rr_cursor' = Without(rr_cursor, f)
                      \o (IF Tail(waiting[f]) = <<>> THEN <<>> ELSE <<f>>)
    /\ enqueued_at' = [enqueued_at EXCEPT ![f] = "None"]
    /\ available_permits' = available_permits - 1
    /\ in_hand' = Head(waiting[f])
    /\ loop' = "granting"
    /\ UNCHANGED <<depth, waiting_queue, active, active_flows, notify, monitorState,
                   requestState, cap, monitor_alive>>

\* Phase 1: the first starved flow of the cursor is served whatever its deficit,
\* and its deficit entry is left as it is.
ForceSelect(f) ==
    /\ Selecting
    /\ f \in StarvedFlows
    /\ \A g \in StarvedFlows : BaseScore(f) <= BaseScore(g)
    /\ UNCHANGED deficit
    /\ Serve(f)

\* Phase 2: every waiting flow of positive integer weight accumulates.
Accumulating == {f \in Range(rr_cursor) : HasWaiting(f) /\ Weight[f] > 0}

Accumulated == [f \in Flows |->
                  IF f \in Accumulating THEN deficit[f] + Weight[f] ELSE deficit[f]]

Eligible == {f \in Accumulating : Accumulated[f] >= Cost[Head(waiting[f])]}

\* Phase 3: the preferred eligible flow is served and its deficit removed.
CreditSelect(f) ==
    /\ Selecting
    /\ StarvedFlows = {}
    /\ f \in Eligible
    /\ \A g \in Eligible \ {f} : Prefers(f, g)
    /\ deficit' = [Accumulated EXCEPT ![f] = 0]
    /\ Serve(f)

\* Nobody eligible: the cursor rotates and the loop goes round again if some
\* flow accumulated, else waits for the next event.
NoneEligible ==
    /\ Selecting
    /\ StarvedFlows = {} /\ Eligible = {}
    /\ deficit' = Accumulated
    /\ rr_cursor' = Append(Tail(rr_cursor), Head(rr_cursor))
    /\ loop' = IF Accumulating = {} THEN "asleep" ELSE "check"
    /\ UNCHANGED <<waiting, available_permits, flowState, notify, monitorState,
                   requestState, cap, in_hand, monitor_alive>>

\* The early returns of try_select.
NothingToSelect ==
    /\ loop = "select"
    /\ ActivePermits >= cap \/ rr_cursor = <<>>
    /\ loop' = "asleep"
    /\ UNCHANGED <<drrState, flowState, notify, monitorState, requestState,
                   cap, in_hand, monitor_alive>>

\* The parts of Send its mutants share.
SendBut(backOnErr) ==
    /\ loop = "granting"
    /\ in_hand' = NoRequest
    /\ loop' = "check"
    /\ available_permits' = available_permits + (IF Receiving(in_hand) THEN 0 ELSE backOnErr)
    /\ notify' = (notify \/ ~Receiving(in_hand))
    /\ ticket' = IF Receiving(in_hand) THEN [ticket EXCEPT ![in_hand] = "sent"] ELSE ticket
    /\ UNCHANGED <<waiting, rr_cursor, deficit, flowState, monitorState, pc, cap,
                   monitor_alive>>

\* Mutants of Send: without disarm() the drop handler returns the permit as well;
\* or the error arm forgets to give the permit back.
SendWithoutDisarm == SendBut(2)
SendLosingPermit == SendBut(0)

\* pending.tx.send(ticket): Ok puts the ticket in the channel; Err means the
\* receiver is gone, so the ticket is disarmed and the permit given back.
Send ==
    /\ loop = "granting"
    /\ in_hand' = NoRequest
    /\ loop' = "check"
    /\ \/ /\ Receiving(in_hand)
          /\ ticket' = [ticket EXCEPT ![in_hand] = "sent"]
          /\ UNCHANGED <<available_permits, notify>>
       \/ /\ ~Receiving(in_hand)
          /\ available_permits' = available_permits + 1
          /\ notify' = TRUE
          /\ UNCHANGED ticket
    /\ UNCHANGED <<waiting, rr_cursor, deficit, flowState, monitorState, pc, cap,
                   monitor_alive>>

Loop ==
    \/ Wake \/ Check \/ NoneEligible \/ NothingToSelect \/ Send
    \/ \E f \in Flows : ForceSelect(f) \/ CreditSelect(f)

-----------------------------------------------------------------------------
(* admit, and the life of the ticket it returns *)

Goto(r, from, to) == pc[r] = from /\ pc' = [pc EXCEPT ![r] = to]

\* admit_fail_fast reads the total depth before any side effect; a rejection
\* changes nothing.
CheckDepth(r) ==
    /\ Mode = "fail_fast"
    /\ Goto(r, "idle", "checked")
    /\ queue_depth <= MaxQueueDepth
    /\ UNCHANGED <<drrState, flowState, notify, monitorState, loopState, ticket>>

\* DrrAdmitGuard::new counts the request ...
NewGuard(r) ==
    /\ Goto(r, IF Mode = "fail_fast" THEN "checked" ELSE "idle", "counted")
    /\ depth' = [depth EXCEPT ![FlowOf[r]] = @ + 1]
    /\ UNCHANGED <<drrState, waiting_queue, active, enqueued_at, active_flows, notify,
                   monitorState, loopState, ticket>>

\* ... and lists its flow under another lock.
ListFlow(r) ==
    /\ Goto(r, "counted", "guarded")
    /\ waiting_queue' = Append(waiting_queue, FlowOf[r])
    /\ UNCHANGED <<drrState, depth, active, enqueued_at, active_flows, notify,
                   monitorState, loopState, ticket>>

\* Mutant of Enqueue: the cursor is not searched for the flow first.
EnqueueUnchecked(r) ==
    /\ Goto(r, "guarded", "pushed")
    /\ waiting' = [waiting EXCEPT ![FlowOf[r]] = Append(@, r)]
    /\ rr_cursor' = Append(rr_cursor, FlowOf[r])
    /\ UNCHANGED <<available_permits, deficit, flowState, notify, monitorState,
                   loopState, ticket>>

\* Past the completion-bias gate: push a Pending, put the flow in the cursor.
Enqueue(r) ==
    LET f == FlowOf[r] IN
    /\ Goto(r, "guarded", "pushed")
    /\ waiting' = [waiting EXCEPT ![f] = Append(@, r)]
    /\ rr_cursor' = IF f \in Range(rr_cursor) THEN rr_cursor
                                              ELSE Append(rr_cursor, f)
    /\ UNCHANGED <<available_permits, deficit, flowState, notify, monitorState,
                   loopState, ticket>>

\* Outside the lock: enqueued_at = Some(enter).  The instant is the request's
\* own entry time, which may already lie beyond the starvation timeout.
StampFlow(r) ==
    /\ Goto(r, "pushed", "stamped")
    /\ \E s \in {"Fresh", "Old"} :
          enqueued_at' = [enqueued_at EXCEPT ![FlowOf[r]] = s]
    /\ UNCHANGED <<drrState, depth, waiting_queue, active, active_flows, notify, monitorState,
                   loopState, ticket>>

NotifyLoop(r) ==
    /\ Goto(r, "stamped", "awaiting")
    /\ notify' = TRUE
    /\ UNCHANGED <<drrState, flowState, monitorState, loopState, ticket>>

\* rx.await returns the ticket; consume leaves the depth count ...
Receive(r) ==
    /\ Goto(r, "awaiting", "consumed")
    /\ ticket[r] = "sent"
    /\ ticket' = [ticket EXCEPT ![r] = "held"]
    /\ depth' = [depth EXCEPT ![FlowOf[r]] = @ - 1]
    /\ UNCHANGED <<drrState, waiting_queue, active, enqueued_at, active_flows, notify,
                   monitorState, loopState>>

\* ... and then the list, and the request counts as active.
Activate(r) ==
    LET f == FlowOf[r] IN
    /\ Goto(r, "consumed", "active")
    /\ waiting_queue' = WithoutFirst(waiting_queue, f)
    /\ active' = [active EXCEPT ![f] = @ + 1]
    /\ active_flows' = active_flows + 1
    /\ UNCHANGED <<drrState, depth, enqueued_at, notify, monitorState, loopState, ticket>>

\* The request's future is dropped at an await point: a client disconnect, or
\* the hybrid timeout.  The receiver goes first.
Cancel(r) ==
    /\ pc[r] \in {"guarded", "awaiting"}
    /\ pc' = [pc EXCEPT ![r] = "cancelled"]
    /\ UNCHANGED <<drrState, flowState, notify, monitorState, loopState, ticket>>

\* The ticket's drop handler, run by the handler that held it or, when the
\* receiver was dropped with the ticket inside, by the receiver.
DropTicket(r) ==
    LET f == FlowOf[r] IN
    /\ \/ Goto(r, "active", "closing") /\ ticket[r] = "held"
       \/ pc[r] = "cancelled" /\ UNCHANGED pc /\ ticket[r] = "sent"
    /\ ticket' = [ticket EXCEPT ![r] = "dropping"]
    /\ active' = [active EXCEPT ![f] = @ - 1]
    /\ active_flows' = active_flows - 1
    /\ UNCHANGED <<drrState, depth, waiting_queue, enqueued_at, notify, monitorState, loopState>>

ReturnPermit(r) ==
    /\ ticket[r] = "dropping"
    /\ ticket' = [ticket EXCEPT ![r] = "returned"]
    /\ available_permits' = available_permits + 1
    /\ UNCHANGED <<waiting, rr_cursor, deficit, flowState, notify, monitorState,
                   loopState, pc>>

\* Mutant of NotifyReturn: the freed permit is not announced.
ReturnSilently(r) ==
    /\ ticket[r] = "returned"
    /\ ticket' = [ticket EXCEPT ![r] = "none"]
    /\ pc' = [pc EXCEPT ![r] = IF @ = "closing" THEN "done" ELSE @]
    /\ UNCHANGED <<drrState, flowState, notify, monitorState, loopState>>

NotifyReturn(r) ==
    /\ ticket[r] = "returned"
    /\ ticket' = [ticket EXCEPT ![r] = "none"]
    /\ notify' = TRUE
    /\ pc' = [pc EXCEPT ![r] = IF @ = "closing" THEN "done" ELSE @]
    /\ UNCHANGED <<drrState, flowState, monitorState, loopState>>

\* Mutant of Uncount: the guard's drop keeps the request in the depth count.
UncountNothing(r) ==
    /\ Goto(r, "cancelled", "uncounted")
    /\ ticket[r] = "none"
    /\ UNCHANGED <<drrState, flowState, notify, monitorState, loopState, ticket>>

\* DrrAdmitGuard::drop begins: the request leaves its flow's depth count ...
Uncount(r) ==
    /\ Goto(r, "cancelled", "uncounted")
    /\ ticket[r] = "none"
    /\ depth' = [depth EXCEPT ![FlowOf[r]] = @ - 1]
    /\ UNCHANGED <<drrState, waiting_queue, active, enqueued_at, active_flows, notify,
                   monitorState, loopState, ticket>>

\* Mutant of Unlist: the guard's drop takes every entry of its flow off the list.
UnlistFlow(r) ==
    /\ Goto(r, "uncounted", "unlisted")
    /\ waiting_queue' = SelectSeq(waiting_queue, LAMBDA f : f # FlowOf[r])
    /\ UNCHANGED <<drrState, depth, active, enqueued_at, active_flows, notify,
                   monitorState, loopState, ticket>>

\* ... and one entry of the flow, the oldest, leaves the list.
Unlist(r) ==
    /\ Goto(r, "uncounted", "unlisted")
    /\ waiting_queue' = WithoutFirst(waiting_queue, FlowOf[r])
    /\ UNCHANGED <<drrState, depth, active, enqueued_at, active_flows, notify,
                   monitorState, loopState, ticket>>

\* Mutant of Unwind: the guard removes its flow's whole queue.
UnwindFlow(r) ==
    LET f == FlowOf[r] IN
    /\ Goto(r, "unlisted", "done")
    /\ waiting' = [waiting EXCEPT ![f] = <<>>]
    /\ deficit' = [deficit EXCEPT ![f] = 0]
    /\ rr_cursor' = Without(rr_cursor, f)
    /\ enqueued_at' = [enqueued_at EXCEPT ![f] = "None"]
    /\ UNCHANGED <<available_permits, depth, waiting_queue, active, active_flows, notify,
                   monitorState, loopState, ticket>>

\* The rest of the drop, one mutex section: the request's own Pending, if still
\* queued, leaves the flow's queue; a queue emptied by that takes the deficit and
\* the cursor entry with it; the flow's timestamp is cleared, whoever set it.
Unwind(r) ==
    LET f == FlowOf[r]
        q == Without(waiting[f], r)
        emptied == HasWaiting(f) /\ q = <<>>
    IN
    /\ Goto(r, "unlisted", "done")
    /\ waiting' = [waiting EXCEPT ![f] = q]
    /\ deficit' = IF emptied THEN [deficit EXCEPT ![f] = 0] ELSE deficit
    /\ rr_cursor' = IF emptied THEN Without(rr_cursor, f) ELSE rr_cursor
    /\ enqueued_at' = [enqueued_at EXCEPT ![f] = "None"]
    /\ UNCHANGED <<available_permits, depth, waiting_queue, active, active_flows, notify,
                   monitorState, loopState, ticket>>

Request(r) ==
    \/ CheckDepth(r) \/ NewGuard(r) \/ ListFlow(r) \/ Enqueue(r) \/ StampFlow(r)
    \/ NotifyLoop(r) \/ Receive(r) \/ Activate(r) \/ Cancel(r) \/ DropTicket(r)
    \/ ReturnPermit(r) \/ NotifyReturn(r) \/ Uncount(r) \/ Unlist(r) \/ Unwind(r)

-----------------------------------------------------------------------------
(* Environment *)

\* The monitor publishes a snapshot (external: module BackendMonitor).
PublishSnapshot ==
    /\ SenderAlive
    /\ kv_pressure' \in Pressures
    /\ snapshot_dirty' = TRUE
    /\ UNCHANGED <<drrState, flowState, notify, loopState, requestState>>

\* The starvation timeout of a flow's timestamp elapses.
Age(f) ==
    /\ enqueued_at[f] = "Fresh"
    /\ enqueued_at' = [enqueued_at EXCEPT ![f] = "Old"]
    /\ UNCHANGED <<drrState, depth, waiting_queue, active, active_flows, notify, monitorState,
                   loopState, requestState>>

Environment == PublishSnapshot \/ \E f \in Flows : Age(f)

\* Every request has left and the loop sleeps with nothing to wake it.
Quiescent ==
    /\ \A r \in Requests : pc[r] = "done"
    /\ loop = "asleep" /\ ~notify
    /\ ~(monitor_alive /\ (snapshot_dirty \/ ~SenderAlive))
    /\ UNCHANGED vars

-----------------------------------------------------------------------------
Init ==
    /\ waiting = [f \in Flows |-> <<>>]
    /\ rr_cursor = <<>>
    /\ available_permits = MaxPermits
    /\ deficit = [f \in Flows |-> 0]
    /\ depth = [f \in Flows |-> 0]
    /\ waiting_queue = <<>>
    /\ active = [f \in Flows |-> 0]
    /\ enqueued_at = [f \in Flows |-> "None"]
    /\ active_flows = 0
    /\ notify = FALSE
    /\ kv_pressure \in Pressures
    /\ snapshot_dirty = FALSE
    /\ loop = "asleep" /\ cap = MaxPermits /\ in_hand = NoRequest
    /\ monitor_alive = TRUE
    /\ pc = [r \in Requests |-> "idle"]
    /\ ticket = [r \in Requests |-> "none"]

Next == Loop \/ (\E r \in Requests : Request(r)) \/ Environment \/ Quiescent

Spec == Init /\ [][Next]_vars

\* tokio runs every ready task: the loop, the steps of a request that do not
\* wait for anybody, and the handler that finally drops its ticket.  Arrivals,
\* cancellations and the environment are not fair.
Fairness ==
    /\ WF_vars(Loop)
    /\ \A r \in Requests :
          WF_vars(\/ ListFlow(r) \/ Enqueue(r) \/ StampFlow(r) \/ NotifyLoop(r)
                  \/ Receive(r) \/ Activate(r) \/ DropTicket(r) \/ ReturnPermit(r)
                  \/ NotifyReturn(r) \/ Uncount(r) \/ Unlist(r) \/ Unwind(r))

FairSpec == Spec /\ Fairness
-----------------------------------------------------------------------------
(* Properties *)

\* Every variable of the model stays in its type; in particular the pool never holds
\* more than max_active_flows permits and never goes below zero (a u32 underflow).
TypeOK ==
    /\ waiting \in [Flows -> Seq(Requests)]
    /\ rr_cursor \in Seq(Flows)
    /\ available_permits \in 0..MaxPermits
    /\ deficit \in [Flows -> Nat]
    /\ depth \in [Flows -> Nat]
    /\ waiting_queue \in Seq(Flows)
    /\ active \in [Flows -> Int]
    /\ enqueued_at \in [Flows -> Stamps]
    /\ active_flows \in Int
    /\ notify \in BOOLEAN
    /\ kv_pressure \in Pressures
    /\ snapshot_dirty \in BOOLEAN
    /\ loop \in LoopStates
    /\ cap \in 1..MaxPermits
    /\ in_hand \in Requests \union {NoRequest}
    /\ monitor_alive \in BOOLEAN
    /\ pc \in [Requests -> RequestStates]
    /\ ticket \in [Requests -> TicketStates]

\* The requests a permit is out for: selected and not yet sent, or carried by a
\* ticket whose drop handler has not given it back.
Holders ==
    {r \in Requests : r = in_hand \/ ticket[r] \in {"sent", "held", "dropping"}}

\* Permits are neither lost nor made: whatever mix of grants, failed sends,
\* tickets dropped inside their channel, hybrid timeouts and completions has
\* happened, the pool and the permits out add up to max_active_flows.
PermitConservation == available_permits + Cardinality(Holders) = MaxPermits

\* The cursor lists exactly the flows with queued requests, each once, although
\* the three places that empty a queue and the one that fills it keep it up
\* separately.
CursorExact ==
    /\ Range(rr_cursor) = {f \in Flows : HasWaiting(f)}
    /\ IsInjective(rr_cursor)

\* A request that waits for its oneshot is in exactly one place the loop will
\* serve it from: its own flow's queue, once, or the loop's hands, or an unread
\* ticket.  A guard dropped by a sibling never takes it away.
NoRequestLost ==
    \A r \in Requests :
        LET places == {i \in DOMAIN waiting[FlowOf[r]] : waiting[FlowOf[r]][i] = r}
        IN  Receiving(r) =>
              Cardinality(places) + (IF in_hand = r THEN 1 ELSE 0)
                + (IF ticket[r] = "sent" THEN 1 ELSE 0) = 1

\* Flow.depth counts the live admission guards of the flow: consume and drop
\* decrement it exactly once between them.
DepthExact ==
    \A f \in Flows :
        depth[f] = Cardinality({r \in Requests : FlowOf[r] = f /\ Guarded(r)})

\* The request's flow is on the list for it: pushed by DrrAdmitGuard::new, not yet
\* taken off by consume or drop.
Listed(r) == \/ Guarded(r) /\ pc[r] # "counted"
             \/ pc[r] \in {"consumed", "uncounted"}

\* GET /queue lists waiting_queue.  A guard takes off the oldest entry of its flow,
\* which may be a sibling's, at another moment than it changes the depth; still the
\* list holds one entry for each request between its push and its removal, so no
\* waiting flow is missing from it and none outlives its last guard.
QueueListExact ==
    \A f \in Flows :
        Cardinality({i \in DOMAIN waiting_queue : waiting_queue[i] = f})
            = Cardinality({r \in Requests : FlowOf[r] = f /\ Listed(r)})

\* How a ticket and the future it was made for move together: only a future that
\* has pushed its Pending can have one, only the holder counts as active, and a
\* drop handler runs either in the holder or inside a cancelled receiver.
TicketMatchesRequest ==
    \A r \in Requests :
        /\ ticket[r] = "sent" => Receiving(r) \/ pc[r] = "cancelled"
        /\ ticket[r] = "held" <=> pc[r] \in {"consumed", "active"}
        /\ ticket[r] \in {"dropping", "returned"} => pc[r] \in {"closing", "cancelled"}

\* The loop holds a Pending exactly between selection and send, and no ticket has
\* been made for it yet.
HandMatchesLoop ==
    /\ loop = "granting" <=> in_hand # NoRequest
    /\ in_hand # NoRequest =>
          /\ ticket[in_hand] = "none"
          /\ Receiving(in_hand) \/ pc[in_hand] \in {"cancelled", "uncounted", "unlisted", "done"}

\* A queued Pending is in its own flow's queue, once, and nowhere else.
QueuesOwnTheirEntries ==
    \A f \in Flows :
        /\ IsInjective(waiting[f])
        /\ \A r \in Range(waiting[f]) :
              /\ FlowOf[r] = f
              /\ ticket[r] = "none" /\ in_hand # r
              /\ Receiving(r) \/ pc[r] \in {"cancelled", "uncounted", "unlisted"}

\* A request that waits for its oneshot is somewhere the loop serves it from.
ReceiversArePlaced ==
    \A r \in Requests :
        Receiving(r) => \/ r \in Range(waiting[FlowOf[r]])
                        \/ in_hand = r
                        \/ ticket[r] = "sent"

\* The inductive invariant behind the properties above.
IInv ==
    /\ TypeOK
    /\ TicketMatchesRequest
    /\ HandMatchesLoop
    /\ QueuesOwnTheirEntries
    /\ ReceiversArePlaced
    /\ CursorExact
    /\ PermitConservation
    /\ DepthExact

\* Nobody sleeps on work: if the loop waits with a request queued and a permit
\* free under the current cap, then a wake-up is stored or some request is about
\* to send one.  Only flows whose weight truncates to zero are exempt.
NoLostWakeup ==
    (/\ loop = "asleep"
     /\ \E f \in Flows : HasWaiting(f) /\ Weight[f] > 0
     /\ ActivePermits < effective_max(kv_pressure))
    => \/ notify
       \/ monitor_alive /\ snapshot_dirty
       \/ \E r \in Requests : pc[r] \in {"pushed", "stamped"} \/ ticket[r] = "returned"

\* Every request waiting for its ticket gets it, unless its client gives up.
AdmissionIsLive ==
    \A r \in Requests : pc[r] = "awaiting" ~> pc[r] \in {"active", "cancelled"}

\* The doc comment of the `llm_active_flows` gauge (metrics/queue.rs) pairs each
\* decrement with an increment, so neither the gauge nor a flow's active counter
\* (a u32) can go below zero.
GaugesNeverNegative == active_flows >= 0 /\ \A f \in Flows : active[f] >= 0

\* The scheduler is a FIFO-per-flow pool of max_active_flows permits.
Pool == INSTANCE AdmissionPool WITH queue <- waiting, held <- Holders

PoolSpec == Pool!Spec
=============================================================================
