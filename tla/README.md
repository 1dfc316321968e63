# TLA+ models of tinyllb

tinyllb is an admission-controlling reverse proxy in front of one LLM inference
engine (vLLM or llama.cpp). It groups requests into flows (sessions), admits a
limited number of them at a time with Deficit Round Robin (DRR), and adapts to the
engine's KV-cache pressure, to stalls and to the pace of each session. This
directory holds TLA+ models of the code under `src/src/`, TLC configurations that
check them on small instances, and TLAPS proofs of every safety property the passing
runs check, for all values of the constants.

`PROJECT.json` is the index: components, runs, the line-by-line map from
definitions to code, the mutants that show each property can fail, findings,
hazards and theorems.

    tlc -workers 2 -config DrrRaces.cfg MCDrrFairness      # one run
    tlapm DrrSchedulerProofs.tla                           # one proof module

## 1. Inventory

| Component | State it keeps | Operations | What makes it correct |
|---|---|---|---|
| DRR scheduler (`scheduler/drr.rs`, `ticket.rs`, `starvation.rs`, `pressure_cap.rs`, `kv_bias.rs`, `priority.rs`) | `DrrState` under a mutex: per-flow queues of `Pending`, `rr_cursor`, `available_permits`, `deficit`; `waiting_queue` under its own lock; a `Notify`; per-flow `depth`, `active`, `enqueued_at`; the `active_flows` gauge | `admit` (three modes), `admission_loop` / `try_select`, `DrrAdmitGuard` drop and consume, ticket drop | permits conserved; queue, cursor and counters agree; nobody lost; FIFO within a flow; nobody passed twice; no lost wake-up; every waiter is served |
| Slot allocator (`flow/slots.rs`) | `assignments`, `occupancy` | `assign`, `release`, `sweep_missing` | the two maps agree; sharing only at saturation |
| Flow registry and reaper (`flow/mod.rs`, `main.rs`, `api/flows.rs`) | `DashMap<FlowId, Arc<Flow>>`, `last_seen` | `get_or_create`, `register`, `reap_idle` | idle flows go, slots do not leak, counters of every incarnation stay sane |
| Facade and KV gate (`scheduler/mod.rs`, `kv_admission.rs`) | `delayed_count`; reads two watch channels | `admit_with_turn_boundary`, `KvPolicy::check`, `wait_for` | the delay count is exact; a drop of the usage is never slept through; bounded modes are bounded |
| Lifecycle and accounting (`lifecycle.rs`, `flow_progress.rs`) | `flow.credit`, tracker entries, per-guard counts | debit at selection, `LifecycleGuard`, `register` / `add_delivered` / `unregister`, `report_accounting` | net credit is what was delivered; the tracker sums the running requests |
| Completion-bias gate (`completion_bias.rs`) | none; reads the gauge, `active`, `enqueued_at` | `check`, `maybe_force_admit`, `notify_waiters` | nobody stays gated for ever; starved flows are rescued |
| Backend monitor (`backend/mod.rs`) | last snapshot, stall signal, watchdog timer and last counters | `poll_loop`, `fetch_slots`, watchdog | a declared stall is a stall; a wedged engine is found; the signal clears |
| Proxy handler (`gateway/proxy.rs`) | none of its own | identify, pin, override, admit, guard, forward, transient retry, collect | every exit path settles what the request took |
| Streaming relay (`gateway/stream.rs`, `retry.rs`) | per-stream: two retry budgets, frame parser, deadline | relay, re-forward, premature-stop retry, stall abort | content and token counts of one response only; the settlement is what the client saw; the request ends |
| Cadence and priority (`flow/cadence.rs`, `flow/mod.rs`) | per flow: the state machine, last arrival, count of continuous arrivals; `priority` and `priority_source` | `record_arrival`, `classify_and_apply`, `state_of`, `reap_idle`, `apply_priority_override`, `register` | the state is the classification of the arrivals; a pin is kept, an unpinned flow has the priority of its state |
| Identification, Retry-After, admin API, errors, metrics, telemetry, configuration | none that admission depends on | pure functions, rendering, loading | see section 7 |

**How they interact.** The proxy handler pins a session to an engine slot, looks the
flow up, and awaits the facade. The facade runs cadence, the KV gate, the stall gate
and then `DrrScheduler::admit`, where the completion-bias gate, the depth check and
the queue follow. A background task, `admission_loop`, pops requests and sends them
tickets over oneshot channels; a ticket's drop returns the permit and wakes the loop.
The monitor task publishes snapshots and the stall signal through watch channels read
by the gates, the loop and the slot pinning. The reaper task evicts idle flows and
their slots. Everything runs on tokio, so any future may be dropped at any `await`:
that is how client disconnects and hybrid-mode timeouts show up.

**What is hard here.** Cancellation at every await (a ticket can be granted to a
future that is being dropped); `Notify`, which stores at most one permit, or none for
`notify_waiters`; watch channels that are tested and slept on in two steps;
`Arc<Flow>`s that outlive their registry entry; load/store pairs on atomics, and pairs
of atomics that are written one after the other; a
watchdog that samples an engine through scrapes that may fail; and a relay that swaps
the backend's stream under a client that is already reading. `PROJECT.json` lists
the hazards line by line.

## 2. Modules

| Module | Models | Extended or instantiated by |
|---|---|---|
| `DrrScheduler` | the admission loop, request futures, guards and tickets | `DrrFairness`, `MCDrrScheduler` |
| `DrrFairness` | the scheduler with a history of who was selected past whom | `DrrSchedulerProofs`, `MCDrrFairness` |
| `AdmissionPool` | abstract specification: a FIFO-per-flow pool of permits | instantiated by `DrrScheduler` as `Pool` |
| `Queues` | how an entry is taken out of a queue | `DrrScheduler`, `AdmissionPool` |
| `SlotAllocator` | `SlotAllocator` of `flow/slots.rs` | `FlowRegistry`, `SlotAllocatorProofs` |
| `FlowRegistry` | registry, reaper, admin endpoint and requests holding `Arc<Flow>`, composed with the slot allocator | `FlowRegistryProofs` (with `SlotAllocatorProofs`), `MCFlowRegistry` |
| `FlowPriority` | the cadence heuristic, the priority header, POST /flows and the cadence reaper on one flow | `FlowPriorityProofs`, `MCFlowPriority` |
| `AdmissionGates` | facade, KV gate, stall gate, depth check, against the monitor's channels | `AdmissionGatesProofs`, `MCAdmissionGates` |
| `RequestLifecycle` | credit ledger and progress tracker | `RequestLifecycleProofs`, `MCRequestLifecycle` |
| `CompletionBias` | the completion-bias gate with the code that writes what it reads | `MCCompletionBias` |
| `BackendMonitor` | `poll_loop` and the stall watchdog against an engine | `BackendMonitorProofs`, `MCBackendMonitor` |
| `RequestForwarding` | sending, transient retry, the retry stream, `MetricStream` and the collected body | `RequestForwardingProofs`, `MCRequestForwarding` |

### DrrScheduler

A step is a stretch of code between two points where another thread can interfere: a
mutex section, a group of atomic updates with no decision in between, a
`notify_one`, a oneshot `send`. `waiting[f] = <<>>` and `deficit[f] = 0` stand for
missing map entries. `active` and `active_flows` are integers, so that a `u32` that
wraps and a gauge that goes below zero are visible as negative numbers.

A request future goes `idle` → (`checked`, fail-fast only) → `counted` → `guarded`
(the two updates of `DrrAdmitGuard::new`) → `pushed` (queue section) → `stamped`
(`enqueued_at`) → `awaiting` (after `notify_one`) → `consumed` → `active` → `closing`
(ticket drop) → `done`, or through `cancelled` (receiver dropped), `uncounted` (depth
decremented) and `unlisted` (off the list) when it is dropped. Receiver and guard are dropped one after the other, so the loop can send in
between; a ticket that was `sent` and is never read runs its drop handler inside the
cancelled request. The loop goes `asleep` → `check` (reads the pressure cap) →
`select` → `granting` (has a `Pending` in hand) → `check`. `ForceSelect`,
`CreditSelect` and `NoneEligible` are the three ends of `try_select`.

`waiting_queue` is the list behind `GET /queue`: a guard appends its flow's id, and
takes out the first entry with that id when it is consumed or dropped, which may be a
sibling's. The list has a lock of its own and the depth is an atomic, so each of the
guard's three pairs of updates is two steps, the depth first (`NewGuard` and `ListFlow`,
`Receive` and `Activate`, `Uncount` and `Unlist`), and between them the two disagree.

`DrrFairness` adds the history variable `passed`: for each flow, the flows selected on
credit while it was eligible itself. It is cleared when the flow is served, leaves the
cursor or is found not to be eligible.

Time is abstract: `enqueued_at` is `None`, `Fresh` or `Old` (beyond
`starvation_timeout`), and `Age` may happen at any moment. Costs, weights,
priorities and footprints are constants of the instance.

### The others

`FlowRegistry` numbers the incarnations of each flow, because an evicted and
re-created flow is another object while requests keep the old `Arc`. `Register` and
`RegisterInsert` are the two halves of `register`; `Collect`, `Evict`, `ReleaseSlot`
and `Sweep` those of `reap_idle`. Each step is one DashMap or allocator operation;
the reaper's scan and the sweep's `contains_key` tests are one step each.

A request that is not in `Routable` is one whose URL cannot be built: the handler
pins its slot and returns (`Abandon`), so the slot has no flow until the sweep.

`FlowPriority` is about one registered flow. `priority` and `priority_source` are two
atomics that each writer stores one after the other: `ArriveAuto` and `UnsetPriority`
for `auto`, `ArrivePinned` and `PinSource` for a class, `RegisterPriority` and
`RegisterSource` for POST /flows. `classify_and_apply` is `ClassifyTest` (the source),
`ClassifyRead` (the entry) and `ClassifyApply` (the store), or `ClassifySkipped`.
`state = "None"` is a missing cadence entry; `record_arrival`, `ClassifyRead` and
`state_of` make it again (`OrDefault`), and the reaper's `CollectEntry` and
`RemoveEntry` may have an arrival in between. A role and a gap decide what an arrival
is: an idle boundary, a fast boundary or a continuous arrival. `history`, `pinned`,
`overlapped` and `raced` are read by the properties only: the arrivals the entry has
recorded, the last override, and which writers' windows have met, a window being the
stretch from a writer's first access to the two atomics to its last.

`AdmissionGates` splits `wait_for` at the points where the monitor can publish: read
the snapshot (`Test`), go to sleep (`Park`), wake (`Changed`), find the channel closed
(`Closed`). `fresh[r]` is "the receiver has an unseen version". The backpressure mode
is a variable that never changes, so one run covers all three.

`RequestLifecycle` keeps the load and the store of `flow.credit` apart on both sides,
and the two steps of `unregister`, with any number of requests of a flow in flight.
Each load is of the `Flow` object then registered and each store goes to the object
that was loaded from. `Doom` and `Replace` are an eviction (or the insertion by
`register`) with its window: the next look-up finds a new object with credit 0, also the
one `report_accounting` makes for a debit of the old object. Three history variables say
where the code's own races have struck: `disturbed` (an update of the credit was lost,
or the object was settled with for another's debit), `torn` (a tracker entry was removed
under a registered request) and `debited` (the object a request was charged to). Sums
over the requests of a flow are counted as the cardinality of a set of tokens (`Total`),
which the proofs can reason about where a fold would need induction.

`CompletionBias` has the gate's test, sleep and recheck as separate steps, and the
writes of gauge, `active` and `enqueued_at` where the scheduler makes them.

`BackendMonitor` counts time in polling intervals. They pass in every state of the loop:
a request takes up to `RequestTimeout` of them (the monitor's client gives up after 3 s
and polls every second by default), a poll makes one request or, for llama.cpp, a second
one for `/slots`, and the ticks it misses become one (`MissedTickBehavior::Skip`). The
engine writes its `/metrics` body somewhere within the request (`Answer`) and goes on
while the body travels. The timer counts ended intervals, so at the boundary the
watchdog may find the timeout reached or not (`late`). `wedged`, `age` and `idle_body`
are history variables that only the properties read.

`RequestForwarding` follows one request from its first send to the end of its body.
Backend responses are numbered in the order in which they are asked for, so
`content_from`, `counted` and `answer`, which only the properties read, say which of
them the client, the token counter and the accepted terminal frame belong to. A frame
is the record `classify_frame` returns, in every combination of its fields. The retry
stream's steps are the head of the read loop (`CheckStall`), the arrival of a chunk
(`Chunk`), each frame (`Frame`, one disjunct per branch), the end of the stream
(`StreamEnds`) and the two kinds of re-send; what follows the loop (flush, `accepted`,
the `match` on the outcome) belongs to the step that leaves it. A disconnect drops the
handler and `MetricStream`, and is only seen by the retry stream's task when it sends.

## 3. Runs

| Run | Instance | Checks | Distinct states |
|---|---|---|---|
| `drr_races` | 3 requests of 2 flows of the same priority, 2 permits, hybrid, no monitor | `TypeOK`, `PermitConservation`, `CursorExact`, `NoRequestLost`, `DepthExact`, `QueueListExact`, refinement `PoolSpec`, `NoSecondPass` | 2.76 million |
| `drr_liveness` | 2 requests, one of them two rounds long, 2 permits, fail-fast, pressure cap moving between 1 and 2 | `NoLostWakeup`, `AdmissionIsLive` | 394 000 |
| `registry` | a request of each of 2 flows with the same home, one not routable, up to 2 slots, admin endpoint, 3 incarnations of a flow | `TypeOK`, `DepthPerIncarnation`, `OccupancyExact`, `NoNeedlessSharing`, `OrphansSwept`, `IdleFlowsEvicted` | 175 000 |
| `priority` | 2 handlers of a flow, admin endpoint, thresholds 2 and 3, 6 arrivals per entry | `TypeOK`, `StateMatchesHistory`, `PrioritySettled` | 2.80 million |
| `gates` | 3 requests, one interactive, a usage level in each band, all modes, monitor may stop | `DelayedExact`, `NoMissedDrop`, `DelayEnds`, `DelayIsBounded` | 74 000 |
| `ledger` | 3 requests of a flow with estimates 1, 2 and 3, usage frames of 2 tokens, 2 Flow objects | `CreditExact`, `TrackerExact` | 4.36 million |
| `bias_gate` | 3 requests of 2 flows, 2 permits, target 1 | `GateOpens` | 7 500 |
| `monitor` | 2 counters, stall timeout of 3 intervals, requests of up to 2, both flavours, polls may fail | `StallIsGenuine`, `WedgeIsDetected`, `StallClears` | 393 000 |
| `forwarding` | one request, 2 transient re-forwards, 1 premature-stop retry, deadline, stall signal, disconnect | `OneSourceOfContent`, `OnlyAcceptedCounted`, `SettledAsSeen`, `RequestEnds` | 21 000 |
| `drr_gauge` | 2 requests | `GaugesNeverNegative` is violated | |
| `bias_starvation` | clients that send again | `StarvationRescues` is violated | |
| `ledger_race` | 2 overlapping requests of a flow | `NetCreditSettles` is violated | |

**Bounds and why they suffice.** Three requests of two flows are the least with which
a flow has a sibling to disturb (a guard dropped while a sibling is queued, selected
or granted) while another flow competes; two permits let grants overlap. The flow with
two requests can be selected twice, which is what `NoSecondPass` needs. In
`drr_liveness` one request per flow is enough, because a lost wake-up needs one sleeper
and one event; one of them costs two rounds, so accumulation without selection happens.
Two incarnations are the least with which a stale `Arc` exists, and three let
`register` replace what a request has just created again. Two sessions with one home
on one or two slots reach both the free-slot search and saturation, and the count
changes under them. In `priority` the thresholds 2 and 3 are the smallest at which a
run can reach the first and not the second; six arrivals hold a run, a boundary of each
kind and a second run, and two handlers and POST /flows let three writers' windows meet.
One usage level in each band of the KV policy distinguishes
all its decisions. In `ledger` the two tokens of a usage frame overrun one estimate, meet
one and fall short of one; three requests let two settlements and a debit overlap, and a
second object is enough to be settled with for the first one's debit. A stall timeout of
three intervals with requests of up to two lets a llama.cpp poll outlast the timeout and
a short one fit into it. In `forwarding` two re-forwards and one premature-stop retry let each
kind come before and after the other, and `gated` and `parses` range over all cases.
`MaxGen`, `MaxObjects`, `MaxDelivered`, `MaxSlots`, `MaxArrivals` and the cap on
`quiet`, `wedged` and `idle_body` (`AtMost`) are the only cut-offs; the last loses
nothing, because nothing distinguishes values beyond the timeout. `drr_races` uses the
symmetry of the two requests of its first flow, which have the same cost; all its
properties are safety properties.

Backend responses need no cut-off: the two budgets bound them.

Deadlock is checked in the DRR runs, `priority` and `monitor`. `Quiescent` is the DRR
scheduler's legal rest: every request over and the loop asleep. In `priority` the
reaper and POST /flows go on when the arrivals are used up. The other modules
stop when their finite set of requests is used up, so their configurations turn the
check off; what must not get stuck there is stated as a liveness property.

## 4. Fairness

* `DrrScheduler`: weak fairness of the loop (tokio polls a woken task) and of each
  request's own steps; a holder eventually drops its ticket (streams end: the backend
  client gives up after 300 seconds). Arrivals, cancellations, snapshots and the passing of time are
  not fair, so `AdmissionIsLive` does not depend on the starvation rescue.
* `AdmissionGates`: weak fairness of a gate's steps; strong fairness of the deadline,
  because a deadline that has passed stays passed and is looked at each time
  `wait_for` is pending again. The monitor and the clients are not fair.
* `FlowRegistry`: the reaper's interval fires, the TTL passes, a started request ends.
* `CompletionBias`: futures run, the gate's check interval fires, streams end, and
  the scheduler grants (strong fairness of `Grant`, which stands for
  `AdmissionIsLive`).
* `BackendMonitor`: the interval ticks, a poll ends because its HTTP client has a
  timeout, and the backend answers again and again.
* `RequestForwarding`: tasks run, a chunk holds finitely many frames, and the HTTP
  client ends a response after 300 seconds (`gateway/mod.rs:101`), however many chunks
  have come: strong fairness of `StreamEnds` and of the end of `MetricStream`. Clients
  either read or disconnect; a client that does neither blocks the task's channel and
  is outside the model. Deadline, stall signal and disconnects are not fair.

## 5. Proofs

Eight modules hold the theorems; `PROJECT.json` lists the ones to know. Each follows
the same plan: an inductive invariant that TLC has checked on the run's instance, one
lemma for each group of actions, and theorems that read the properties off it.

`DrrSchedulerProofs` proves, for every finite workload, every set of flows, any
number of permits and every mode:

* `TypeCorrect`, `PermitsConserved`, `CursorIsExact`, `DepthIsExact`,
  `NoRequestIsLost`, `ListIsExact`: the invariants of `drr_races`;
* `NoWakeupIsLost`: `Spec => []NoLostWakeup`;
* `NobodyPassesTwice`: `BypassSpec => NoSecondPass`;
* `SchedulerImplementsPool`: `Spec => PoolSpec`, the refinement to `AdmissionPool`
  with `queue <- waiting` and `held <- Holders`.

None of the invariants is inductive alone. Permit conservation needs that a selected
request has no ticket, and that a ticket is made for a request in hand, once
(`HandMatchesLoop`, `TicketMatchesRequest`). `DropTicket` must not return a permit
twice, which needs the pairing of ticket states with the future's. `NoRequestLost`
needs that a queue holds only its own flow's entries, once each
(`QueuesOwnTheirEntries`), and that a receiver is somewhere (`ReceiversArePlaced`).
The cursor's exactness is needed for `Head(rr_cursor)` to be a flow with work. `IInv`
is the conjunction:

    TypeOK, TicketMatchesRequest, HandMatchesLoop, QueuesOwnTheirEntries,
    ReceiversArePlaced, CursorExact, PermitConservation, DepthExact

and `Invariance` is `Spec => []IInv`, with one step per action and, under it, one per
conjunct the action can disturb. The lemmas before it say what `Append`, `Tail` and
the removal of an entry do to a sequence's range and injectivity, and what adding or
taking one request does to the cardinality of a set of requests. The refinement uses
`IInv` on both sides of a step: `Serve` is the pool's serve, `Unwind` of a queued
entry its withdrawal, returning a permit its release, and every other action leaves
`waiting` and `Holders` alone.

`ListIsExact` is inductive relative to `IInv`: appending adds one index to a flow's
entries, and removing the first entry of a flow moves the later indices down by one, a
bijection with the indices that remain. A request about to remove an entry is itself
among those between push and removal, so the flow has an entry, if not the request's own.

`NoWakeupIsLost` needs one fact beside `IInv`: when the loop is about to select, the cap
it has read is the current one or the snapshot that changed it is still unseen
(`CapIsCurrent`). Otherwise the loop could fall asleep on an old cap with nothing to
wake it. The three lemmas are about who makes work servable (a push or a returned
permit, both with a notification to come), when the loop goes to sleep, and the monitor.

`NobodyPassesTwice` rests on `PassedInOrder`: a flow stands in the cursor before every
flow that was selected past it. The winner of a selection goes to the back or leaves,
newcomers enter at the back, and the removal of an entry keeps the order of the others,
so only the rotation of `NoneEligible` could reverse two flows, and that one ends every
record because nobody was eligible. A second selection of the same flow would then have
to prefer the later of two base scores.

`FlowPriorityProofs` proves, for any thresholds with 1 <= suspected < confirmed, any
finite set of handlers and any number of arrivals:

* `CadenceMatchesHistory`: `Spec => []StateMatchesHistory`. The state machine keeps a
  counter and a state; the property speaks of the whole history. The invariant
  `CadenceInv` adds that the counter is the length of the run the history ends with
  (`RunIsCurrent`). The lemmas say what each kind of arrival does to `HasRun`: an idle
  boundary leaves no run, a fast one keeps those there were, a continuous one adds a
  run of n exactly when the last run reaches n. `ClassificationStep` puts them together.
* `PriorityTypes`: `Spec => []TypeOK`.
* `PriorityIsSettled`: `Spec => []PrioritySettled`. `PriorityInv` adds that writers
  inside their windows at the same time are both marked (`OverlapsMarked`), that an
  unmarked writer is on its way to a settled priority (`LoneWriterSettles`), and where
  handlers can be (`StagesReached`). A writer that closes its window unmarked was alone
  in it, so what it read still holds; one that was marked sets `raced`, and the property
  is void until a writer that was not closes its window.

`SlotAllocatorProofs` proves `OccupancyIsExact` (types and occupancy together are
inductive: a release must find a count of at least one) and `SharingOnlyWhenFull`, an
action property that follows from `OccupancyExact`, since an occupancy of zero then
means that no flow has the slot.

`FlowRegistryProofs` composes. `RegistryUsesAllocator` (`Spec => SlotSpec`) shows that
the registry's pins, releases and sweeps are steps of the allocator or leave it alone
(a pin with no slot count does), so `RegistryCountsSlots` and `RegistrySharesWhenFull`
carry the allocator's theorems over to the registry. `RegistryInv` says for the rest
that every incarnation held or captured was made (`ArcsWereMade`) and that the depth of
an incarnation counts the guards on it (`DepthsCounted`), which is
`RegistryDepthsAreExact` and, since a count is not negative, the part of
`RegistryTypesHold` that is not bookkeeping.

`AdmissionGatesProofs` proves `DelayCounterExact` and `DropsAreSeen` for any finite set
of requests. `NoMissedDrop` speaks of sleeping requests; it is inductive only with the
same claim about a request between its read of the snapshot and its sleep
(`DropUnseen`), because that is where the monitor can publish.

`RequestLifecycleProofs` proves `CreditIsExact` and `TrackerIsExact` for any number of
requests in flight and of Flow objects. `LifecycleInv` says that an object that was not
disturbed holds minus the charges of the requests debited to it (`Balanced`, which also
covers the disputed charges, as the code makes them), that objects loaded from or debited
are not newer than the registered one (`ObjectsInOrder`, so a replacement starts with no
charges), and that nothing is delivered before there is a guard (`NothingEarly`). A store whose load is not the credit any more marks the object, so what
remains is that each other store moves credit and charges by the same amount. For the
tracker, `Unregister` that leaves nothing has no other request's tokens in the entry; the
removal that follows either finds no other request registered or marks the flow.

`RequestForwardingProofs` proves `ContentHasOneSource`, `CountsAreAccepted` and
`GuardSettlesAsSeen` for every budget. `ForwardingInv` relates the history to the state
of the relay: nothing has gone out in a phase from which the request may be sent again
(`NothingSentYet`), and in the read loop what has gone out is of the current response
and remembered by `saw` or `accepted` (`RelayedIsCurrent`), the flags the code tests
before a re-send.

`BackendMonitorProofs` proves `StallsAreGenuine`, an action property, for every stall and
request timeout. `MonitorInv` says that the timer is not ahead of the wedge unless a
counter has moved that a scrape has still to show, that of a body on its way the timer is
ahead by no more than the body's age, that it is no older than the last published idle
body (`TimerIsTrue`), and that a body's age is bounded by the requests made since it was
asked for (`BodyAge`).

**Assumptions.** `WorkloadAssumption`, `FlowAssumption` and `ConfigAssumption` in
`DrrScheduler` (finite set of requests, non-negative costs and weights,
`max_active_flows >= 1` and thresholds within `1..max_active_flows`, which
`config/loader.rs` enforces); `SlotAssumption` and `RegistryAssumption` (finite sets of
flows and requests, the hash is below the slot count); `PolicyAssumption` (the
thresholds, from `config/loader.rs`), `PriorityAssumption` and `ProcessAssumption` in
`FlowPriority`; `GateAssumption` (delay threshold below reject threshold);
`LifecycleAssumption`; `ForwardingAssumption` (at least one premature-stop retry where
they are enabled); `MonitorAssumption`. TLC evaluates them on every run. No theorem has
a hypothesis beyond them. The bound `MaxGen` is any natural number; a request whose flow
has used up its incarnations stays where it is.

**Only model-checked.** The liveness properties: `AdmissionIsLive`, `OrphansSwept`,
`IdleFlowsEvicted`, `DelayEnds`, `DelayIsBounded`, `GateOpens`, `WedgeIsDetected`,
`StallClears` and `RequestEnds`. They need fairness and `ENABLED`, which this prover does
not handle. `CompletionBias` has only such a property. Every safety property of a passing
run is proved.

## 6. Findings

Three runs show the code contradicting its own comments or documents; `PROJECT.json`
quotes them.

1. `drr_gauge`: a ticket that is sent and never read decrements the gauge and
   `Flow.active`, which only a reader increments (`drr.rs:264`, `drr.rs:616`).
2. `bias_starvation`: the gate's starvation rescue reads `enqueued_at`, which is
   written after the gate (`completion_bias.rs:134`, `drr.rs:602`).
3. `ledger_race`: `flow.credit` is loaded and stored in two steps by several threads, and
   of two settlements, or of a settlement and a debit, one can be lost (`drr.rs:761`).

### Further disagreements

These are visible in the models (each path is an action) and have no run.

* A flow whose `active` has wrapped is never reaped (`flow/mod.rs:196`, test at 331),
  against `lat.md/app.md:235`, "The reaper caps unbounded growth of the flow and
  cadence registries". `IdleFlowsEvicted` excepts it.
* `ForceSelect` leaves the deficit of a flow whose queue has emptied (`drr.rs:351`);
  the comment at `drr.rs:10-11` and `lat.md/scheduler.md:142` say it is reset.
* `classify_and_apply` tests `priority_source` and stores the priority later
  (`cadence.rs:187`, `:200`), so a pin made in between is overwritten and the flow keeps
  the heuristic's priority, as an override, until the next override; the comment at
  `cadence.rs:185` says "do NOT overwrite" and `lat.md/flow.md:264` that such flows "are
  never modified by the state machine". For the same reason the class of an older state
  can be stored after a promotion, against `cadence.rs:182`, "promotion is immediate".
  `PrioritySettled` excepts writers whose windows overlap.
* The cadence reaper looks only at the last arrival (`cadence.rs:221`), so a flow whose
  request runs longer than the TTL is Cold afterwards.
* `remove_from_queue` takes the first entry with the flow's id (`drr.rs:890`), so when a
  newer request of a flow is cancelled the flow's older entry leaves the list and the
  flow moves back in `GET /queue`; `lat.md/api.md:150` says it answers "where is my flow
  in line?". `QueueListExact` is about how many entries a flow has.
* `queue_snapshot` reads the gauge, the depths and the list one after the other
  (`drr.rs:733`); `lat.md/api.md:185` says it "reflects queue state at a single instant".
* With `max_queue_depth = 0` the Retry-After is three times the base
  (`backpressure.rs:33-39`); the comment at `backpressure.rs:26` says `* 2`.
* `reap_idle` removes by a list collected earlier without testing again
  (`flow/mod.rs:338`), so a flow looked up in between is evicted;
  `lat.md/flow.md:121` says only idle entries are.
* `register` tests and inserts in two steps (`flow/mod.rs:309`) and can replace a flow
  object that a request has just created.
* The slot is assigned before the flow is registered (`proxy.rs:483`, lookup at 561),
  so a sweep can take it from a live request; `lat.md/gateway.md:612` says a session
  keeps its slot until it is reaped, and `flow/mod.rs:341-342` that such an assignment
  "should not occur".
* The KV gate is consulted before the stall signal (`scheduler/mod.rs:257`);
  `lat.md/scheduler.md:50` says it is not consulted while the signal is set.
* The fail-fast depth check does not count delayed requests (`drr.rs:630`);
  `kv_admission.rs:56-58` says it sees them.
* The debit of a request whose ticket was never read is not restored (`drr.rs:280`);
  `lat.md/scheduler.md:106` says credit is restored on cancellation, and
  `lifecycle.rs:18-19` that a cancelled request costs what was delivered. `CreditExact`
  excepts it (`Disputed`).
* A cancelled request that overran its estimate restores a negative amount
  (`lifecycle.rs:196`: `saturating_sub` on `i64` does not stop at zero);
  `lat.md/scheduler_policies.md:471` and `:480` say the restore is clamped at zero.
  `CreditExact` excepts it (`Disputed`).
* `report_accounting` looks the flow up again (`drr.rs:753`). After an eviction or a
  replacement the restore of a debited object goes to a fresh one, which then has credit
  it was never charged for; `lifecycle.rs:17-18` says the net credit is what was
  delivered. `CreditExact` excepts such an object (`disturbed`).
* `unregister` releases the entry before it removes it (`flow_progress.rs:73`), so a
  registration in between is lost, and later subtractions take the aggregates below
  zero (`flow_progress.rs:69`); `lat.md/admission.md:264` and `:266` exclude both.
  `TrackerExact` excepts such a flow (`torn`). A registered request with estimate 0 that
  has delivered nothing loses its entry the same way to a sibling's `unregister`.
* `is_active` is tested before the gate's wait and not again (`completion_bias.rs:152`);
  `lat.md/scheduler_policies.md:219` says an active flow never waits.
* The watchdog's idle reset needs a published body that says idle (`backend/mod.rs:593`),
  so an idle gap between two bodies, because polls failed or because one slow poll
  outlasted the gap, counts towards a stall; `lat.md/backend.md:215` says "an idle gap is
  never inherited as a stall by later work". `StallIsGenuine` speaks of the idle bodies
  that got through.
* The timer runs on while `/slots` is fetched (`backend/mod.rs:614`), so the engine is
  judged by a `/metrics` body up to two request timeouts old, and a stall can be declared
  of an engine that has moved since; `lat.md/backend.md:213` says no counter "advances
  for `backend.stall_timeout`". `StallIsGenuine` carries the body's age.
* Before a re-forward the retry stream flushes the dead response's incomplete frame to
  the client (`stream.rs:560`); `lat.md/gateway.md:565` says "the error frame or dead
  stream is discarded". `OneSourceOfContent` is about complete frames.
* A mid-stream timeout of the HTTP client is an `Err` item, hence `Outcome::Eof`, and
  is re-forwarded (`stream.rs:372`); `lat.md/gateway.md:571` says timeouts never are.
* `transient_retry` and the retry stream count separately, so a request can be
  re-forwarded `2 * max_attempts` times and sent `1 + 2 * max_attempts + max_retries`
  times in all; `lat.md/gateway.md:573` says "Total backend attempts are bounded by
  `max_attempts`", and `:565` that the stream uses "the `transient_retry` budget". No
  property states a bound.
* A retry stream whose request body does not parse as JSON ends without a terminal frame
  like any other, with its guard not marked; the comment at `stream.rs:317-319` says
  "mark_completed on end". `SettledAsSeen` follows the code.
* A frame with content and usage before the terminal frame is dropped with its content
  (`stream.rs:522`, where `accepted` is always false).
* A failed premature-stop re-send aborts the streaming body (`stream.rs:491`);
  `lat.md/gateway.md:536` says "the client always receives a body".

## 7. Not modelled

* **Pure functions**: how a flow id is found in headers and body (`flow/identify.rs`),
  the Retry-After formula, the mapping of errors to statuses, the parsers of the metric
  bodies, the SSE byte framing, temperature arithmetic. They keep no state; the models
  start from what they return.
* **Rendering and set-up**: the JSON of `GET /queue`, the route table, metrics,
  telemetry. The one gauge that the program reads back, `active_flows`, is a variable.
* **Configuration**: loaded once; what its validation guarantees is assumed of the
  modules' constants.
* **Real time**: instants and durations are two or three classes (fresh or old, short
  or long gap, expired or not). The back-off delays of the retries are left out.
* The FNV hash behind slot homes is any function into the slots. The relay's channel
  capacity and body and header rewriting are left out.
* Weights and priorities are constants of `DrrScheduler`, so that its proofs hold for
  each of them; how the priority changes is in `FlowPriority`.

## 8. Plan

Done: the DRR scheduler with its refinement and fairness, slots, registry, gates,
ledger, completion bias, monitor, forwarding and priority, each safety property checked
and proved.

What remains is to prove what the liveness arguments rest on, for all values of the
constants: that the steps `AdmissionIsLive` and `RequestEnds` wait for bring a measure
down or keep it (the deficit of a waiting flow grows each round; the sends left), and,
for `CompletionBias`, that the gauge counts the tickets out.
