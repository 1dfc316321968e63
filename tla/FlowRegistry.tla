---------------------------- MODULE FlowRegistry ----------------------------
(***************************************************************************)
(* The flow registry (src/src/flow/mod.rs) with its slot allocator, shared *)
(* by proxied requests, the admin endpoint POST /flows and the idle-flow   *)
(* reaper.  The registry maps an id to an `Arc<Flow>`; a flow that is      *)
(* evicted and looked up again is a new object, so each id has numbered    *)
(* incarnations and a request keeps the one it looked up.  A step is one   *)
(* DashMap or allocator operation.                                         *)
(***************************************************************************)
EXTENDS SlotAllocator

CONSTANTS
    Requests,   \* named inference requests
    FlowOf,     \* [Requests -> Flows]
    Routable,   \* requests whose path gives a valid backend URL
    AdminFlows, \* flows that POST /flows names
    MaxGen      \* bound on the incarnations of one flow

ASSUME RegistryAssumption ==
    /\ IsFiniteSet(Requests)
    /\ FlowOf \in [Requests -> Flows]
    /\ Routable \subseteq Requests
    /\ AdminFlows \subseteq Flows
    /\ MaxGen \in Nat

Gens == 1..MaxGen

VARIABLES
    flows,          \* [Flows -> 0..MaxGen], the registered incarnation, 0 for none
    newest,         \* [Flows -> 0..MaxGen], incarnations made so far
    depth, active,  \* [Flows -> [Gens -> Int]], Flow.depth and Flow.active
    recent,         \* [Flows -> [Gens -> BOOLEAN]], last_seen within the TTL
    slot_count,     \* BackendSnapshot.slot_count, 0 for None
    pc,             \* [Requests -> RequestStates]
    arc,            \* the incarnation admit() holds
    ticket_arc,     \* the incarnation captured by the ticket's drop handler
    reaper,         \* "sleeping" or "evicting"
    to_remove,      \* the reaper's list, less the entries it has removed
    unreleased,     \* the flow removed last, until its slot is released
    inserting       \* flows whose POST /flows found no entry and will insert

regVars == <<flows, newest, recent>>
reaperVars == <<reaper, to_remove, unreleased>>
vars == <<slotVars, regVars, depth, active, slot_count, pc, arc, ticket_arc,
          reaperVars, inserting>>

RequestStates == {"idle", "pinned", "known", "held", "queued", "granted", "active",
                  "done"}

\* States of a request in code that runs without awaiting.
Running(r) == pc[r] \in {"pinned", "held"}

-----------------------------------------------------------------------------
(* Registry operations *)

\* The incarnation get_or_create returns.
Looked(f) == IF flows[f] # 0 THEN flows[f] ELSE newest[f] + 1

\* get_or_create: one atomic entry(), and last_seen is refreshed.
get_or_create(f) ==
    /\ Looked(f) <= MaxGen
    /\ flows' = [flows EXCEPT ![f] = Looked(f)]
    /\ newest' = [newest EXCEPT ![f] = IF flows[f] # 0 THEN @ ELSE @ + 1]
    /\ recent' = [recent EXCEPT ![f][Looked(f)] = TRUE]

\* register, first half: update in place, or find nothing.
Register(f) ==
    /\ f \notin inserting
    /\ \/ /\ flows[f] # 0
          /\ recent' = [recent EXCEPT ![f][flows[f]] = TRUE]
          /\ UNCHANGED inserting
       \/ /\ flows[f] = 0
          /\ inserting' = inserting \union {f}
          /\ UNCHANGED recent
    /\ UNCHANGED <<slotVars, flows, newest, depth, active, slot_count, pc, arc,
                   ticket_arc, reaperVars>>

\* register, second half: DashMap::insert replaces whatever is there by now.
RegisterInsert(f) ==
    /\ f \in inserting
    /\ newest[f] < MaxGen
    /\ inserting' = inserting \ {f}
    /\ flows' = [flows EXCEPT ![f] = newest[f] + 1]
    /\ newest' = [newest EXCEPT ![f] = @ + 1]
    /\ recent' = [recent EXCEPT ![f][newest[f] + 1] = TRUE]
    /\ UNCHANGED <<slotVars, depth, active, slot_count, pc, arc, ticket_arc,
                   reaperVars>>

-----------------------------------------------------------------------------
(* A proxied request *)

Goto(r, from, to) == pc[r] = from /\ pc' = [pc EXCEPT ![r] = to]

\* proxy_handler pins the flow to a slot before it looks the flow up.
Pin(r) ==
    /\ Goto(r, "idle", "pinned")
    /\ IF slot_count = 0 THEN UNCHANGED slotVars ELSE assign(FlowOf[r], slot_count)
    /\ UNCHANGED <<regVars, depth, active, slot_count, arc, ticket_arc, reaperVars,
                   inserting>>

\* The backend URL cannot be built: the handler returns with the slot assigned.
Abandon(r) ==
    /\ Goto(r, "pinned", "done")
    /\ r \notin Routable
    /\ UNCHANGED <<slotVars, regVars, depth, active, slot_count, arc, ticket_arc,
                   reaperVars, inserting>>

\* apply_priority_override and the facade's lookup; then the KV gate's await.
Lookup(r) ==
    /\ Goto(r, "pinned", "known")
    /\ r \in Routable
    /\ get_or_create(FlowOf[r])
    /\ UNCHANGED <<slotVars, depth, active, slot_count, arc, ticket_arc, reaperVars,
                   inserting>>

\* The KV or stall gate rejects.
Reject(r) ==
    /\ Goto(r, "known", "done")
    /\ UNCHANGED <<slotVars, regVars, depth, active, slot_count, arc, ticket_arc,
                   reaperVars, inserting>>

\* DrrScheduler::admit looks the flow up again and keeps the Arc.
Admit(r) ==
    /\ Goto(r, "known", "held")
    /\ get_or_create(FlowOf[r])
    /\ arc' = [arc EXCEPT ![r] = Looked(FlowOf[r])]
    /\ UNCHANGED <<slotVars, depth, active, slot_count, ticket_arc, reaperVars,
                   inserting>>

\* DrrAdmitGuard::new
Enqueue(r) ==
    /\ Goto(r, "held", "queued")
    /\ depth' = [depth EXCEPT ![FlowOf[r]][arc[r]] = @ + 1]
    /\ UNCHANGED <<slotVars, regVars, active, slot_count, arc, ticket_arc,
                   reaperVars, inserting>>

\* admission_loop looks the flow up for the ticket's drop handler and sends.
Grant(r) ==
    /\ Goto(r, "queued", "granted")
    /\ get_or_create(FlowOf[r])
    /\ ticket_arc' = [ticket_arc EXCEPT ![r] = Looked(FlowOf[r])]
    /\ UNCHANGED <<slotVars, depth, active, slot_count, arc, reaperVars, inserting>>

\* The ticket is received: consume the guard, then inc_active.
Receive(r) ==
    LET f == FlowOf[r] IN
    /\ Goto(r, "granted", "active")
    /\ depth' = [depth EXCEPT ![f][arc[r]] = @ - 1]
    /\ active' = [active EXCEPT ![f][arc[r]] = @ + 1]
    /\ UNCHANGED <<slotVars, regVars, slot_count, arc, ticket_arc, reaperVars,
                   inserting>>

\* Mutant of Cancel: the guard's drop does not leave the depth.
CancelCounted(r) ==
    /\ Goto(r, "queued", "done")
    /\ UNCHANGED <<slotVars, regVars, depth, active, slot_count, arc, ticket_arc,
                   reaperVars, inserting>>

\* The waiting future is dropped before it has been granted a ticket.
Cancel(r) ==
    /\ Goto(r, "queued", "done")
    /\ depth' = [depth EXCEPT ![FlowOf[r]][arc[r]] = @ - 1]
    /\ UNCHANGED <<slotVars, regVars, active, slot_count, arc, ticket_arc,
                   reaperVars, inserting>>

\* Mutant of DropTicket: the holder's drop leaves the queue count a second time.
DropTicketTwice(r) ==
    LET f == FlowOf[r] IN
    /\ pc[r] \in {"granted", "active"}
    /\ pc' = [pc EXCEPT ![r] = "done"]
    /\ depth' = [depth EXCEPT ![f][arc[r]] = @ - 1]
    /\ active' = [active EXCEPT ![f][ticket_arc[r]] = @ - 1]
    /\ UNCHANGED <<slotVars, regVars, slot_count, arc, ticket_arc, reaperVars,
                   inserting>>

\* The ticket is dropped by its holder, or with the receiver it was sent to.
DropTicket(r) ==
    LET f == FlowOf[r] IN
    /\ pc[r] \in {"granted", "active"}
    /\ pc' = [pc EXCEPT ![r] = "done"]
    /\ depth' = IF pc[r] = "granted"
                THEN [depth EXCEPT ![f][arc[r]] = @ - 1] ELSE depth
    /\ active' = [active EXCEPT ![f][ticket_arc[r]] = @ - 1]
    /\ UNCHANGED <<slotVars, regVars, slot_count, arc, ticket_arc, reaperVars,
                   inserting>>

Request(r) ==
    \/ Pin(r) \/ Abandon(r) \/ Lookup(r) \/ Reject(r) \/ Admit(r) \/ Enqueue(r)
    \/ Grant(r) \/ Receive(r) \/ Cancel(r) \/ DropTicket(r)

-----------------------------------------------------------------------------
(* reap_idle *)

\* Mutant of Expired: last_seen is compared with the cutoff the wrong way round.
ExpiredRecent(f) ==
    /\ flows[f] # 0
    /\ depth[f][flows[f]] = 0
    /\ active[f][flows[f]] = 0
    /\ recent[f][flows[f]]

Expired(f) ==
    /\ flows[f] # 0
    /\ depth[f][flows[f]] = 0
    /\ active[f][flows[f]] = 0
    /\ ~recent[f][flows[f]]

\* The list of expired ids is collected first.
Collect ==
    /\ reaper = "sleeping"
    /\ reaper' = "evicting"
    /\ to_remove' = {f \in Flows : Expired(f)}
    /\ UNCHANGED <<slotVars, regVars, depth, active, slot_count, pc, arc,
                   ticket_arc, unreleased, inserting>>

\* flows.remove(id), whatever the flow has become since.
Evict(f) ==
    /\ reaper = "evicting" /\ unreleased = {}
    /\ f \in to_remove
    /\ to_remove' = to_remove \ {f}
    /\ unreleased' = {f}
    /\ flows' = [flows EXCEPT ![f] = 0]
    /\ UNCHANGED <<slotVars, newest, recent, depth, active, slot_count, pc, arc,
                   ticket_arc, reaper, inserting>>

\* slots.release(id)
ReleaseSlot(f) ==
    /\ f \in unreleased
    /\ unreleased' = {}
    /\ release(f)
    /\ UNCHANGED <<regVars, depth, active, slot_count, pc, arc, ticket_arc, reaper,
                   to_remove, inserting>>

\* Mutant of Sweep: the reaper trusts that no assignment was left behind.
SweepNothing ==
    /\ reaper = "evicting" /\ to_remove = {} /\ unreleased = {}
    /\ reaper' = "sleeping"
    /\ UNCHANGED <<slotVars, regVars, depth, active, slot_count, pc, arc, ticket_arc,
                   to_remove, unreleased, inserting>>

\* The defensive sweep that ends each run.
Sweep ==
    /\ reaper = "evicting" /\ to_remove = {} /\ unreleased = {}
    /\ reaper' = "sleeping"
    /\ sweep_missing({f \in Flows : flows[f] # 0})
    /\ UNCHANGED <<regVars, depth, active, slot_count, pc, arc, ticket_arc,
                   to_remove, unreleased, inserting>>

Reaper == Collect \/ Sweep \/ \E f \in Flows : Evict(f) \/ ReleaseSlot(f)

-----------------------------------------------------------------------------
(* Environment *)

\* The TTL passes since the flow was last looked up: minutes, so no request of
\* the flow is between two steps that run without awaiting.
Expire(f) ==
    /\ flows[f] # 0 /\ recent[f][flows[f]]
    /\ \A r \in Requests : FlowOf[r] = f => ~Running(r)
    /\ recent' = [recent EXCEPT ![f][flows[f]] = FALSE]
    /\ UNCHANGED <<slotVars, flows, newest, depth, active, slot_count, pc, arc,
                   ticket_arc, reaperVars, inserting>>

\* A /slots scrape reports another number of slots, or fails (external: module
\* BackendMonitor).
Scrape ==
    /\ slot_count' \in (0..MaxSlots) \ {slot_count}
    /\ UNCHANGED <<slotVars, regVars, depth, active, pc, arc, ticket_arc, reaperVars,
                   inserting>>

Init ==
    /\ InitSlots
    /\ flows = [f \in Flows |-> 0]
    /\ newest = [f \in Flows |-> 0]
    /\ depth = [f \in Flows |-> [g \in Gens |-> 0]]
    /\ active = [f \in Flows |-> [g \in Gens |-> 0]]
    /\ recent = [f \in Flows |-> [g \in Gens |-> FALSE]]
    /\ slot_count = 0
    /\ pc = [r \in Requests |-> "idle"]
    /\ arc = [r \in Requests |-> 0]
    /\ ticket_arc = [r \in Requests |-> 0]
    /\ reaper = "sleeping" /\ to_remove = {} /\ unreleased = {}
    /\ inserting = {}

Next ==
    \/ \E r \in Requests : Request(r)
    \/ \E f \in AdminFlows : Register(f) \/ RegisterInsert(f)
    \/ \E f \in Flows : Expire(f)
    \/ Reaper \/ Scrape

Spec == Init /\ [][Next]_vars

\* The reaper's timer keeps firing, time passes, and a request that has its slot
\* goes on to the end; arrivals and the admin endpoint are not fair.
Fairness ==
    /\ WF_vars(Reaper)
    /\ \A f \in Flows : WF_vars(Expire(f))
    /\ \A r \in Requests : WF_vars(pc[r] # "idle" /\ Request(r))

FairSpec == Spec /\ Fairness

-----------------------------------------------------------------------------
(* Properties *)

\* Types of the registry's state: an Arc held by a request or a ticket is one that
\* was made.
TypeOK ==
    /\ SlotTypeOK
    /\ flows \in [Flows -> 0..MaxGen] /\ newest \in [Flows -> 0..MaxGen]
    /\ depth \in [Flows -> [Gens -> Nat]] /\ active \in [Flows -> [Gens -> Int]]
    /\ recent \in [Flows -> [Gens -> BOOLEAN]]
    /\ slot_count \in 0..MaxSlots
    /\ pc \in [Requests -> RequestStates]
    /\ \A r \in Requests : {arc[r], ticket_arc[r]} \subseteq 0..newest[FlowOf[r]]
    /\ reaper \in {"sleeping", "evicting"}
    /\ {to_remove, unreleased, inserting} \subseteq SUBSET Flows

\* The requests with a live admission guard on incarnation g of flow f.
Guards(f, g) ==
    {r \in Requests : FlowOf[r] = f /\ arc[r] = g /\ pc[r] \in {"queued", "granted"}}

\* The depth of each object a flow has had counts the guards on that very object: a
\* request that outlives its flow's eviction or replacement leaves the count it
\* entered, and the reaper's test of the registered object sees no other's requests.
DepthPerIncarnation ==
    \A f \in Flows, g \in Gens : depth[f][g] = Cardinality(Guards(f, g))

\* A slot never leaks: an assignment whose flow is not registered (the handler gave
\* up after pinning, or the reaper and a new request crossed) is dropped by a later
\* sweep unless the flow is registered first.
OrphansSwept ==
    \A f \in Flows :
        assignments[f] # NoSlot /\ flows[f] = 0
            ~> assignments[f] = NoSlot \/ flows[f] # 0

\* "The reaper caps unbounded growth of the flow registry" (lat.md/app.md): a flow
\* without queued or active requests that nobody has looked up within the TTL is
\* evicted, unless it is looked up again first or a ticket dropped unread wraps its
\* active counter, which keeps it for ever.
IdleFlowsEvicted ==
    \A f \in Flows :
        LET Idle == active[f][flows[f]] = 0 /\ ~recent[f][flows[f]]
        IN  flows[f] # 0 /\ depth[f][flows[f]] = 0 /\ Idle ~> flows[f] = 0 \/ ~Idle
=============================================================================
