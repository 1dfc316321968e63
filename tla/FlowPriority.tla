---------------------------- MODULE FlowPriority ----------------------------
(***************************************************************************)
(* The priority of one registered flow: the cadence heuristic              *)
(* (src/src/flow/cadence.rs), the X-LLM-Priority header, POST /flows and   *)
(* the reaper of cadence entries, on threads that interleave.  The flow's  *)
(* `priority` and `priority_source` are two atomics that each writer       *)
(* stores one after the other; the cadence entry is one DashMap entry.  A  *)
(* step is one atomic access or one entry section.                         *)
(*                                                                         *)
(* The stretch of a request modelled here, from apply_priority_override to *)
(* state_of, has no await, so a request is not dropped inside it.  What    *)
(* becomes of the Flow object itself is in module FlowRegistry.            *)
(***************************************************************************)
EXTENDS Integers, Sequences, FiniteSets

CONSTANTS
    Requests,           \* handlers that may run at the same time
    Admin,              \* the handler of POST /flows
    Interactive, Agent, Background,     \* config Priorities
    DefaultPriority,    \* the priority of a new Flow
    AdminPriorities,    \* priorities POST /flows may set
    Enabled,            \* priority_policy.enabled
    agentic_suspected_threshold,
    agentic_confirmed_threshold,
    MaxArrivals         \* bound on the arrivals one cadence entry records

\* config/loader.rs: 1 <= suspected < confirmed.
ASSUME PolicyAssumption ==
    /\ agentic_suspected_threshold \in Nat \ {0}
    /\ agentic_confirmed_threshold \in Nat
    /\ agentic_suspected_threshold < agentic_confirmed_threshold
    /\ Enabled \in BOOLEAN

ASSUME PriorityAssumption ==
    /\ {Interactive, Agent, Background, DefaultPriority} \subseteq Nat
    /\ AdminPriorities \subseteq Nat

ASSUME ProcessAssumption ==
    /\ IsFiniteSet(Requests)
    /\ Admin \notin Requests
    /\ MaxArrivals \in Nat

Processes == Requests \union {Admin}

\* CadenceState; the variable's "None" stands for "no entry".
CadenceStates == {"Cold", "Interactive", "AgenticSuspected", "AgenticConfirmed"}

\* What an arrival is to the state machine: a turn boundary after an idle gap, any
\* other turn boundary, a continuous arrival.
Kinds == {"idle", "fast", "continuous"}

\* X-LLM-Priority after parsing; an unknown value counts as absent.
Headers == {"absent", "auto", "interactive", "agent", "background"}

\* The role of the body's last message; "none" for a body without messages.
Roles == {"user", "system", "tool", "assistant", "none"}

\* "unset" and "pin" are between the two stores of an override, "test" has
\* recorded its arrival, "read" has found no override, "apply" has its class.
Stages == {"idle", "unset", "pin", "record", "test", "read", "apply", "report"}

VARIABLES
    \* Flow
    priority, priority_source,
    \* the flow's Cadence
    state, continuous_arrival_count,
    arrived,        \* last_arrival is Some
    expired,        \* last_seen lies before the reaper's cutoff
    \* CadenceRegistry::reap_idle
    to_remove,      \* the flow's id is in the list
    \* the handlers
    pc,
    value,          \* [Processes -> Nat], the priority a handler is about to store
    \* history, read by no action
    history,        \* the arrivals the entry has recorded, by what they were
    pinned,         \* the priority the last override asked for
    overlapped,     \* writers whose window another writer's window has met
    raced           \* the last writer was one of those

flowVars == <<priority, priority_source>>
cadence == <<state, continuous_arrival_count, arrived, expired>>
handlers == <<pc, value>>
windows == <<pinned, overlapped, raced>>
vars == <<flowVars, cadence, to_remove, handlers, history, windows>>

-----------------------------------------------------------------------------
(* Operators of the source *)

\* CadenceState::priority
PriorityOf(s) ==
    CASE s \in {"Cold", "Interactive"} -> Interactive
      [] s = "AgenticSuspected" -> Agent
      [] s = "AgenticConfirmed" -> Background

\* The class named by a header.
ClassOf(h) ==
    CASE h = "interactive" -> Interactive
      [] h = "agent" -> Agent
      [] h = "background" -> Background

is_turn_boundary_request(role) == role \notin {"tool", "assistant"}

\* How a continuous arrival, the n-th of its run, moves the state.
Demoted(s, n) ==
    CASE s \in {"Cold", "Interactive"} /\ n >= agentic_suspected_threshold -> "AgenticSuspected"
      [] s = "AgenticSuspected" /\ n >= agentic_confirmed_threshold -> "AgenticConfirmed"
      [] OTHER -> s

\* DashMap::entry(..).or_default(): the fields of a missing entry already have
\* the values Cadence::new gives them, all but the state.
OrDefault == IF state = "None" THEN "Cold" ELSE state

-----------------------------------------------------------------------------
(* History of the writers' windows: a window opens with a writer's first      *)
(* access to the flow's two atomics and closes with its last.                 *)

InWindow(p) == pc[p] \in {"unset", "pin", "read", "apply"}

Open(p) ==
    LET others == {q \in Processes \ {p} : InWindow(q)} IN
    /\ overlapped' = IF others = {} THEN overlapped ELSE overlapped \union others \union {p}
    /\ UNCHANGED raced

Close(p) ==
    /\ raced' = (p \in overlapped)
    /\ overlapped' = overlapped \ {p}

-----------------------------------------------------------------------------
(* A proxied request *)

Goto(p, from, to) == pc[p] = from /\ pc' = [pc EXCEPT ![p] = to]

\* The arrivals the entry has recorded or is about to.
Arrivals == Len(history) + Cardinality({r \in Requests : pc[r] \in {"unset", "pin", "record"}})

\* identify::resolve finds no override: apply_priority_override keeps the state.
ArrivePlain(r) ==
    /\ Goto(r, "idle", "record")
    /\ Arrivals < MaxArrivals
    /\ UNCHANGED <<flowVars, cadence, to_remove, value, history, windows>>

\* X-LLM-Priority: auto; the source is cleared first.
ArriveAuto(r) ==
    /\ Goto(r, "idle", "unset")
    /\ Arrivals < MaxArrivals
    /\ priority_source' = 0
    /\ Open(r)
    /\ UNCHANGED <<priority, cadence, to_remove, value, history, pinned>>

UnsetPriority(r) ==
    /\ Goto(r, "unset", "record")
    /\ priority' = Agent
    /\ Close(r)
    /\ UNCHANGED <<priority_source, cadence, to_remove, value, history, pinned>>

\* X-LLM-Priority names a class; the priority is stored first.
ArrivePinned(r, h) ==
    /\ h \in Headers \ {"absent", "auto"}
    /\ Goto(r, "idle", "pin")
    /\ Arrivals < MaxArrivals
    /\ priority' = ClassOf(h)
    /\ pinned' = ClassOf(h)
    /\ Open(r)
    /\ UNCHANGED <<priority_source, cadence, to_remove, value, history>>

PinSource(r) ==
    /\ Goto(r, "pin", "record")
    /\ priority_source' = 1
    /\ Close(r)
    /\ UNCHANGED <<priority, cadence, to_remove, value, history, pinned>>

\* The first arrival of an entry has no gap.
Kind(boundary, long_gap) ==
    IF ~boundary THEN "continuous"
    ELSE IF arrived /\ long_gap THEN "idle" ELSE "fast"

\* Mutant of Moved: a fast turn boundary leaves the run as it is.
MovedUnbroken(kind) ==
    \/ /\ kind = "idle"
       /\ state' = "Interactive"
       /\ continuous_arrival_count' = 0
    \/ /\ kind = "fast"
       /\ state' = OrDefault
       /\ UNCHANGED continuous_arrival_count
    \/ /\ kind = "continuous"
       /\ continuous_arrival_count' = continuous_arrival_count + 1
       /\ state' = Demoted(OrDefault, continuous_arrival_count + 1)

\* The state-machine transition of record_arrival.
Moved(kind) ==
    \/ /\ kind = "idle"
       /\ state' = "Interactive"
       /\ continuous_arrival_count' = 0
    \/ /\ kind = "fast"
       /\ state' = OrDefault
       /\ continuous_arrival_count' = 0
    \/ /\ kind = "continuous"
       /\ continuous_arrival_count' = continuous_arrival_count + 1
       /\ state' = Demoted(OrDefault, continuous_arrival_count + 1)

\* record_arrival: one section on the entry.
record_arrival(r) ==
    /\ Goto(r, "record", "test")
    /\ \E role \in Roles, long_gap \in BOOLEAN :
          LET kind == Kind(is_turn_boundary_request(role), long_gap) IN
          /\ Moved(kind)
          /\ history' = Append(history, kind)
    /\ arrived' = TRUE
    /\ expired' = FALSE
    /\ UNCHANGED <<flowVars, to_remove, value, windows>>

\* classify_and_apply returns early: the flow is pinned or the heuristic is off.
ClassifySkipped(r) ==
    /\ Goto(r, "test", "report")
    /\ priority_source # 0 \/ ~Enabled
    /\ UNCHANGED <<flowVars, cadence, to_remove, value, history, windows>>

\* Mutant of ClassifyTest: an explicit override does not stop the heuristic.
ClassifyAnyway(r) ==
    /\ Goto(r, "test", "read")
    /\ Enabled
    /\ Open(r)
    /\ UNCHANGED <<flowVars, cadence, to_remove, value, history, pinned>>

ClassifyTest(r) ==
    /\ Goto(r, "test", "read")
    /\ priority_source = 0 /\ Enabled
    /\ Open(r)
    /\ UNCHANGED <<flowVars, cadence, to_remove, value, history, pinned>>

\* The entry is read, and made again if the reaper has just removed it.
ClassifyRead(r) ==
    /\ Goto(r, "read", "apply")
    /\ state' = OrDefault
    /\ value' = [value EXCEPT ![r] = PriorityOf(OrDefault)]
    /\ UNCHANGED <<flowVars, continuous_arrival_count, arrived, expired, to_remove, history,
                   windows>>

\* flow.set_priority, with the entry unlocked and the source not tested again.
ClassifyApply(r) ==
    /\ Goto(r, "apply", "report")
    /\ priority' = value[r]
    /\ value' = [value EXCEPT ![r] = 0]
    /\ Close(r)
    /\ UNCHANGED <<priority_source, cadence, to_remove, history, pinned>>

\* state_of for the metric, which makes the entry as well.
state_of(r) ==
    /\ Goto(r, "report", "idle")
    /\ state' = OrDefault
    /\ UNCHANGED <<flowVars, continuous_arrival_count, arrived, expired, to_remove, value,
                   history, windows>>

Request(r) ==
    \/ ArrivePlain(r) \/ ArriveAuto(r) \/ UnsetPriority(r)
    \/ \E h \in Headers : ArrivePinned(r, h)
    \/ PinSource(r) \/ record_arrival(r) \/ ClassifySkipped(r) \/ ClassifyTest(r)
    \/ ClassifyRead(r) \/ ClassifyApply(r) \/ state_of(r)

-----------------------------------------------------------------------------
(* POST /flows, and the reaper *)

\* FlowRegistry::register on a flow that exists.
RegisterPriority(p) ==
    /\ Goto(Admin, "idle", "pin")
    /\ priority' = p
    /\ pinned' = p
    /\ Open(Admin)
    /\ UNCHANGED <<priority_source, cadence, to_remove, value, history>>

RegisterSource ==
    /\ Goto(Admin, "pin", "idle")
    /\ priority_source' = 2
    /\ Close(Admin)
    /\ UNCHANGED <<priority, cadence, to_remove, value, history, pinned>>

\* The TTL passes since the last arrival: minutes, so no handler is in the
\* stretch modelled here.
Expire ==
    /\ state # "None" /\ ~expired
    /\ \A p \in Processes : pc[p] = "idle"
    /\ expired' = TRUE
    /\ UNCHANGED <<flowVars, state, continuous_arrival_count, arrived, to_remove, handlers,
                   history, windows>>

\* reap_idle collects the expired entries, whether or not their flows have
\* requests in progress.
CollectEntry ==
    /\ ~to_remove
    /\ state # "None" /\ expired
    /\ to_remove' = TRUE
    /\ UNCHANGED <<flowVars, cadence, handlers, history, windows>>

\* Mutant of RemoveEntry: the next entry counts on from this one.
RemoveEntryCounting ==
    /\ to_remove
    /\ to_remove' = FALSE
    /\ state' = "None"
    /\ arrived' = FALSE /\ expired' = FALSE
    /\ history' = <<>>
    /\ UNCHANGED <<flowVars, continuous_arrival_count, handlers, windows>>

\* It removes them afterwards, whatever has arrived since.
RemoveEntry ==
    /\ to_remove
    /\ to_remove' = FALSE
    /\ state' = "None" /\ continuous_arrival_count' = 0
    /\ arrived' = FALSE /\ expired' = FALSE
    /\ history' = <<>>
    /\ UNCHANGED <<flowVars, handlers, windows>>

-----------------------------------------------------------------------------
Init ==
    /\ priority = DefaultPriority /\ priority_source = 0
    /\ state = "None" /\ continuous_arrival_count = 0
    /\ arrived = FALSE /\ expired = FALSE
    /\ to_remove = FALSE
    /\ pc = [p \in Processes |-> "idle"]
    /\ value = [p \in Processes |-> 0]
    /\ history = <<>>
    /\ pinned = DefaultPriority
    /\ overlapped = {} /\ raced = FALSE

Next ==
    \/ \E r \in Requests : Request(r)
    \/ \E p \in AdminPriorities : RegisterPriority(p)
    \/ RegisterSource
    \/ Expire \/ CollectEntry \/ RemoveEntry

Spec == Init /\ [][Next]_vars

-----------------------------------------------------------------------------
(* Properties *)

\* Types of the flow's atomics, its cadence entry and the handlers; an entry's run
\* is no longer than the arrivals the entry has seen.
TypeOK ==
    /\ priority \in Nat /\ priority_source \in 0..2
    /\ state \in CadenceStates \union {"None"}
    /\ continuous_arrival_count \in 0..Len(history)
    /\ arrived \in BOOLEAN /\ expired \in BOOLEAN /\ to_remove \in BOOLEAN
    /\ pc \in [Processes -> Stages]
    /\ value \in [Processes -> Nat]
    /\ history \in Seq(Kinds)
    /\ pinned \in Nat
    /\ overlapped \subseteq Processes
    /\ raced \in BOOLEAN

\* After the last idle boundary of h there are n continuous arrivals in a row.
HasRun(h, n) ==
    \E i \in 1..(Len(h) - n + 1) :
        /\ \A k \in i..(i + n - 1) : h[k] = "continuous"
        /\ \A k \in i..Len(h) : h[k] # "idle"

\* The classification lat.md/flow.md describes, read off the arrivals themselves.
Classification(h) ==
    IF HasRun(h, agentic_confirmed_threshold) THEN "AgenticConfirmed"
    ELSE IF HasRun(h, agentic_suspected_threshold) THEN "AgenticSuspected"
    ELSE IF \E i \in DOMAIN h : h[i] = "idle" THEN "Interactive"
    ELSE "Cold"

\* The cadence entry is what its arrivals make it: whatever handlers, lookups that
\* make the entry again and removals by the reaper come in between, the state is
\* Confirmed exactly when a long enough unbroken run of continuous arrivals follows
\* the last idle boundary, Suspected for a shorter run, and a fast boundary breaks a
\* run without forgiving it.
StateMatchesHistory == state # "None" => state = Classification(history)

\* The counter is the length of the run the arrivals end with, and a missing entry
\* has recorded none.
RunIsCurrent ==
    LET n == continuous_arrival_count IN
    /\ \A k \in (Len(history) - n + 1)..Len(history) : history[k] = "continuous"
    /\ n < Len(history) => history[Len(history) - n] # "continuous"
    /\ state = "None" => history = <<>>

\* The inductive invariant behind StateMatchesHistory.
CadenceInv == TypeOK /\ RunIsCurrent /\ StateMatchesHistory

\* No writer is between its first and its last access to the flow's atomics.
NobodyInside == \A p \in Processes : ~InWindow(p)

\* v is the class of the flow's state, unless the entry has recorded nothing or some
\* request still has its arrival to record or its classification to make.
Classified(v) ==
    \/ history = <<>>
    \/ \E r \in Requests : pc[r] \in {"record", "test"}
    \/ v = PriorityOf(state)

\* "Honor explicit overrides - do NOT overwrite" and "promotion is immediate"
\* (cadence.rs): with no writer inside its window, a pinned flow has the priority it
\* was pinned to and any other flow that has been classified has the class of its
\* state, unless the last writer's window met another writer's.
PrioritySettled ==
    NobodyInside /\ ~raced =>
        /\ priority_source # 0 => priority = pinned
        /\ priority_source = 0 /\ Enabled => Classified(priority)

\* Of two writers inside their windows both are marked, and nobody else is.
OverlapsMarked ==
    /\ \A p \in overlapped : InWindow(p)
    /\ \A p, q \in Processes : p # q /\ InWindow(p) /\ InWindow(q) => p \in overlapped

\* A writer that has met no other is on its way to a settled priority.
LoneWriterSettles ==
    \A p \in Processes \ overlapped :
        /\ pc[p] = "pin" => priority = pinned
        /\ pc[p] \in {"unset", "read", "apply"} => priority_source = 0
        /\ pc[p] = "apply" => Classified(value[p])

\* Where the handlers of requests and of POST /flows can be.
StagesReached ==
    /\ pc[Admin] \in {"idle", "pin"}
    /\ \A r \in Requests : pc[r] \in {"read", "apply"} => Enabled

\* The inductive invariant behind PrioritySettled.
PriorityInv ==
    /\ CadenceInv /\ StagesReached
    /\ OverlapsMarked /\ LoneWriterSettles /\ PrioritySettled
=============================================================================
