-------------------------- MODULE RequestLifecycle --------------------------
(***************************************************************************)
(* What a request costs its flow: the debit of `flow.credit` when the loop *)
(* selects it (src/src/scheduler/drr.rs), the LifecycleGuard that settles  *)
(* it when the request ends (src/src/scheduler/lifecycle.rs), and the      *)
(* token-progress tracker the guard keeps up                               *)
(* (src/src/scheduler/flow_progress.rs).  `flow.credit` is an atomic that  *)
(* both sides update by a load and a later store, of the Flow object they  *)
(* find under the flow's name; the reaper and POST /flows may put a fresh  *)
(* object there meanwhile.  Tracker operations hold one DashMap shard at a *)
(* time.                                                                   *)
(***************************************************************************)
EXTENDS Integers, FiniteSets

CONSTANTS
    Requests, Flows, NoRequest,
    FlowOf,         \* [Requests -> Flows]
    Est,            \* [Requests -> Nat], work_unit and estimated_cost
    Frame,          \* tokens reported by one usage frame
    MaxDelivered,   \* bound on the tokens delivered to one request
    MaxObjects      \* bound on the Flow objects made for one flow

ASSUME LifecycleAssumption ==
    /\ IsFiniteSet(Requests) /\ NoRequest \notin Requests
    /\ FlowOf \in [Requests -> Flows]
    /\ Est \in [Requests -> Nat]
    /\ Frame \in Nat \ {0} /\ MaxDelivered \in Nat
    /\ MaxObjects \in Nat \ {0}

VARIABLES
    \* the registry
    credit,         \* [Flows -> Int], credit of the Flow object under that name
    object,         \* [Flows -> 1..MaxObjects], which object that is
    doomed,         \* the flows whose object is about to be replaced
    \* FlowProgressTracker
    entries,        \* [Flows -> Entry \union {NoEntry}], the tracker's map
    \* the admission loop
    in_hand,        \* the request whose debit the loop is applying
    loop_loaded,    \* the credit the loop loaded for it, and of which object
    loop_object,
    \* the requests and their guards
    pc,             \* [Requests -> RequestStates]
    delivered,      \* [Requests -> Nat], LifecycleGuard.delivered_tokens
    completed,      \* [Requests -> BOOLEAN], LifecycleGuard.completed_normally
    loaded,         \* [Requests -> Int], `current` of report_accounting, and the
    loaded_object,  \* object it is of
    \* history, read by properties only
    debited,        \* [Requests -> Nat], the object that was debited, 0 for none
    disturbed,      \* the flows whose object lost an update, or was settled with for
                    \* a debit of an earlier object
    torn            \* the flows whose entry was removed under a registered request

registryVars == <<credit, object, doomed>>
loopVars == <<in_hand, loop_loaded, loop_object>>
guardVars == <<delivered, completed>>
reportVars == <<loaded, loaded_object>>
history == <<debited, disturbed, torn>>
vars == <<registryVars, entries, loopVars, pc, guardVars, reportVars, history>>

NoEntry == [estimated |-> 0, delivered |-> 0, present |-> FALSE]

\* "granted" has a ticket and no guard yet; "removing" is inside unregister with
\* the entry released; "settling" is about to report; "loaded" has read the credit.
\* "gone" gave up before selection, "abandoned" with its ticket unread.
RequestStates == {"idle", "queued", "selected", "granted", "running", "removing",
                  "settling", "loaded", "done", "gone", "abandoned"}

\* LifecycleGuard::new has registered the request and its drop has not yet undone
\* that.
Registered(r) == pc[r] \in {"running", "removing"}

OfFlow(f) == {r \in Requests : FlowOf[r] = f}

Goto(r, from, to) == pc[r] = from /\ pc' = [pc EXCEPT ![r] = to]

-----------------------------------------------------------------------------
(* The Flow object *)

\* The request is queued, has a ticket, or may have one.
HoldsFlow(r) == pc[r] \in {"queued", "selected", "granted", "running"}

\* reap_idle finds the flow without queued or active requests (or register finds no
\* flow under its name) ...
Doom(f) ==
    /\ object[f] < MaxObjects
    /\ f \notin doomed
    /\ \A r \in OfFlow(f) : ~HoldsFlow(r)
    /\ doomed' = doomed \union {f}
    /\ UNCHANGED <<credit, object, entries, loopVars, pc, guardVars, reportVars, history>>

\* ... and removes it (or inserts its own) without another look; the next
\* get_or_create finds a Flow with credit 0.
Replace(f) ==
    /\ f \in doomed
    /\ doomed' = doomed \ {f}
    /\ object' = [object EXCEPT ![f] = @ + 1]
    /\ credit' = [credit EXCEPT ![f] = 0]
    /\ disturbed' = disturbed \ {f}
    /\ UNCHANGED <<entries, loopVars, pc, guardVars, reportVars, debited, torn>>

\* A store of credit + amount, computed from the credit `seen` of object o.  It goes
\* to that object, whatever the registry holds by now.
StoreCredit(f, o, seen, amount) ==
    credit' = IF o = object[f] THEN [credit EXCEPT ![f] = seen + amount] ELSE credit

\* History: the store overwrites an update it has not seen.
Overwrites(f, o, seen) == o = object[f] /\ seen # credit[f]

-----------------------------------------------------------------------------
(* The debit at selection *)

Arrive(r) ==
    /\ Goto(r, "idle", "queued")
    /\ UNCHANGED <<registryVars, entries, loopVars, guardVars, reportVars, history>>

\* try_select: flow.credit.load
DebitLoad(r) ==
    /\ in_hand = NoRequest
    /\ Goto(r, "queued", "selected")
    /\ in_hand' = r
    /\ loop_loaded' = credit[FlowOf[r]] /\ loop_object' = object[FlowOf[r]]
    /\ UNCHANGED <<registryVars, entries, guardVars, reportVars, history>>

\* try_select: flow.credit.store; the ticket is sent.
DebitStore(r) ==
    LET f == FlowOf[r] IN
    /\ in_hand = r
    /\ Goto(r, "selected", "granted")
    /\ StoreCredit(f, loop_object, loop_loaded, -Est[r])
    /\ in_hand' = NoRequest
    /\ debited' = [debited EXCEPT ![r] = loop_object]
    /\ disturbed' = IF Overwrites(f, loop_object, loop_loaded)
                    THEN disturbed \union {f} ELSE disturbed
    /\ UNCHANGED <<object, doomed, entries, loop_loaded, loop_object, guardVars,
                   reportVars, torn>>

\* The waiting future is dropped, before selection or with its ticket unread.
\* DrrAdmitGuard leaves the credit alone.
GiveUp(r) ==
    /\ pc[r] \in {"queued", "granted"}
    /\ pc' = [pc EXCEPT ![r] = IF @ = "queued" THEN "gone" ELSE "abandoned"]
    /\ UNCHANGED <<registryVars, entries, loopVars, guardVars, reportVars, history>>

-----------------------------------------------------------------------------
(* LifecycleGuard and FlowProgressTracker *)

\* LifecycleGuard::new; register adds to the flow's entry or makes one.
NewGuard(r) ==
    /\ Goto(r, "granted", "running")
    /\ entries' = [entries EXCEPT ![FlowOf[r]].estimated = @ + Est[r],
                                  ![FlowOf[r]].present = TRUE]
    /\ UNCHANGED <<registryVars, loopVars, guardVars, reportVars, history>>

\* add_delivered_tokens; update_delivered ignores a flow without an entry.
add_delivered_tokens(r) ==
    /\ pc[r] = "running" /\ ~completed[r]
    /\ delivered[r] + Frame <= MaxDelivered
    /\ delivered' = [delivered EXCEPT ![r] = @ + Frame]
    /\ entries' = IF entries[FlowOf[r]].present
                  THEN [entries EXCEPT ![FlowOf[r]].delivered = @ + Frame]
                  ELSE entries
    /\ UNCHANGED <<registryVars, loopVars, pc, completed, reportVars, history>>

mark_completed(r) ==
    /\ pc[r] = "running" /\ ~completed[r]
    /\ completed' = [completed EXCEPT ![r] = TRUE]
    /\ UNCHANGED <<registryVars, entries, loopVars, pc, delivered, reportVars, history>>

\* Mutant of Unregister: the delivered tokens stay in the flow's entry.
UnregisterEstimate(r) ==
    LET e == entries[FlowOf[r]] IN
    /\ pc[r] = "running"
    /\ pc' = [pc EXCEPT ![r] = IF e.estimated = Est[r] /\ e.delivered = 0
                               THEN "removing" ELSE "settling"]
    /\ entries' = [entries EXCEPT ![FlowOf[r]].estimated = e.estimated - Est[r]]
    /\ UNCHANGED <<registryVars, loopVars, guardVars, reportVars, history>>

\* Drop, first step: unregister finds the flow's entry and subtracts.  i64
\* saturating_sub does not stop at zero.  If nothing is left the entry is released
\* unchanged, to be removed next.
Unregister(r) ==
    LET e == entries[FlowOf[r]]
        est == e.estimated - Est[r]
        del == e.delivered - delivered[r]
    IN
    /\ pc[r] = "running"
    /\ pc' = [pc EXCEPT ![r] = IF e.present /\ est = 0 /\ del = 0
                               THEN "removing" ELSE "settling"]
    /\ entries' = IF e.present /\ ~(est = 0 /\ del = 0)
                  THEN [entries EXCEPT ![FlowOf[r]].estimated = est,
                                       ![FlowOf[r]].delivered = del]
                  ELSE entries
    /\ UNCHANGED <<registryVars, loopVars, guardVars, reportVars, history>>

\* self.entries.remove(flow_id), whatever the entry holds by now.
RemoveEntry(r) ==
    LET f == FlowOf[r] IN
    /\ Goto(r, "removing", "settling")
    /\ entries' = [entries EXCEPT ![f] = NoEntry]
    /\ torn' = IF \E s \in OfFlow(f) \ {r} : Registered(s)
               THEN torn \union {f} ELSE torn
    /\ UNCHANGED <<registryVars, loopVars, guardVars, reportVars, debited, disturbed>>

\* Mutant of restore_cost: a cancelled request gets its whole estimate back.
RestoreAll(r) ==
    IF ~completed[r] THEN Est[r]
    ELSE IF delivered[r] > 0 THEN Est[r] - delivered[r] ELSE 0

\* The restore of each way to end: a completion without usage data restores
\* nothing; an overrun restores a negative amount.
restore_cost(r) ==
    IF completed[r] /\ delivered[r] = 0 THEN 0 ELSE Est[r] - delivered[r]

\* report_accounting: get_or_create, load ...
ReportLoad(r) ==
    /\ Goto(r, "settling", "loaded")
    /\ loaded' = [loaded EXCEPT ![r] = credit[FlowOf[r]]]
    /\ loaded_object' = [loaded_object EXCEPT ![r] = object[FlowOf[r]]]
    /\ UNCHANGED <<registryVars, entries, loopVars, guardVars, history>>

\* ... and store.
ReportStore(r) ==
    LET f == FlowOf[r]
        o == loaded_object[r]
    IN
    /\ Goto(r, "loaded", "done")
    /\ StoreCredit(f, o, loaded[r], restore_cost(r))
    /\ disturbed' = IF Overwrites(f, o, loaded[r]) \/ (o = object[f] /\ debited[r] # o)
                    THEN disturbed \union {f} ELSE disturbed
    /\ UNCHANGED <<object, doomed, entries, loopVars, guardVars, reportVars, debited,
                   torn>>

-----------------------------------------------------------------------------
Init ==
    /\ credit = [f \in Flows |-> 0]
    /\ object = [f \in Flows |-> 1] /\ doomed = {}
    /\ entries = [f \in Flows |-> NoEntry]
    /\ in_hand = NoRequest /\ loop_loaded = 0 /\ loop_object = 0
    /\ pc = [r \in Requests |-> "idle"]
    /\ delivered = [r \in Requests |-> 0]
    /\ completed = [r \in Requests |-> FALSE]
    /\ loaded = [r \in Requests |-> 0] /\ loaded_object = [r \in Requests |-> 0]
    /\ debited = [r \in Requests |-> 0] /\ disturbed = {} /\ torn = {}

Request(r) ==
    \/ Arrive(r) \/ DebitLoad(r) \/ DebitStore(r) \/ GiveUp(r) \/ NewGuard(r)
    \/ add_delivered_tokens(r) \/ mark_completed(r) \/ Unregister(r)
    \/ RemoveEntry(r) \/ ReportLoad(r) \/ ReportStore(r)

Registry(f) == Doom(f) \/ Replace(f)

Next == (\E r \in Requests : Request(r)) \/ (\E f \in Flows : Registry(f))

Spec == Init /\ [][Next]_vars

-----------------------------------------------------------------------------
(* Properties *)

\* The sum of a function of requests, counted as a set of tokens.
Tokens(cost) == UNION {{r} \X (1..cost[r]) : r \in DOMAIN cost}
Total(cost) == Cardinality(Tokens(cost))

\* What a request has cost the flow's object: nothing if that was not debited for it,
\* its estimate until it is settled, then what was delivered, or the estimate if a
\* completion came without usage data.
Charge(r) ==
    IF debited[r] # object[FlowOf[r]] THEN 0
    ELSE IF pc[r] # "done" \/ (completed[r] /\ delivered[r] = 0) THEN Est[r]
    ELSE delivered[r]

Charges(f) == Total([r \in OfFlow(f) |-> Charge(r)])

\* The charges on which the code and the repository's documents differ: a ticket that
\* was never read is not restored, and a cancelled overrun is not capped.
Disputed(r) ==
    /\ debited[r] = object[FlowOf[r]]
    /\ \/ pc[r] = "abandoned"
       \/ pc[r] = "done" /\ ~completed[r] /\ delivered[r] > Est[r]

\* The credit of a flow is minus what its requests cost it, with any number of them in
\* flight, whichever way each ends and however debits and settlements follow each
\* other, unless a load and a store of the unlocked atomic let an update slip between
\* them, or a fresh object is settled with for a debit of the one it replaced.
CreditExact ==
    \A f \in Flows :
        \/ f \in disturbed
        \/ \E r \in OfFlow(f) : Disputed(r)
        \/ credit[f] = -Charges(f)

\* The tracker's entry of a flow sums up the flow's registered requests, and is
\* there only while there are some: predictive admission never sees a finished one.
\* Only a removal under a request that registered after the entry was released, or
\* whose estimate is zero, spoils it.
TrackerExact ==
    \A f \in Flows \ torn :
        LET live == {r \in OfFlow(f) : Registered(r)}
        IN  entries[f] = [estimated |-> Total([r \in live |-> Est[r]]),
                          delivered |-> Total([r \in live |-> delivered[r]]),
                          present |-> live # {}]

\* The header of lifecycle.rs: once a flow's requests have all been settled, "net
\* credit reflects actual delivered tokens".
NetCreditSettles ==
    \A f \in Flows :
        (\A r \in OfFlow(f) : pc[r] \in {"idle", "gone", "done"})
            => credit[f] = -Charges(f)
=============================================================================
