--------------------------- MODULE BackendMonitor ---------------------------
(***************************************************************************)
(* The backend monitor's polling loop and its inference-stall watchdog     *)
(* (src/src/backend/mod.rs) against an engine that takes work, makes       *)
(* progress, wedges, restarts and may fail to answer.  A poll asks for the *)
(* /metrics body and, for llama.cpp, for the /slots body after it, and     *)
(* then publishes the snapshot and the stall signal.  Time is counted in   *)
(* polling intervals and passes in every state of the loop: a poll lasts   *)
(* as long as its requests do, up to the client's timeout for each.        *)
(***************************************************************************)
EXTENDS Naturals

CONSTANTS
    Counters,       \* the progress counters of a scrape
    Levels,         \* levels of KV usage a body may report; 0 is the parser's default
    SlotCounts,     \* lengths of the /slots array; 0 stands for None
    StallTimeout,   \* backend.stall_timeout in intervals; 0 disables the watchdog
    RequestTimeout, \* the monitor client's timeout for one request, in intervals
    Flavors,        \* what a readable body may be: "vllm", "llama-cpp"
    PollsFail       \* TRUE: polls may find no body, or one without known metrics

ASSUME MonitorAssumption ==
    /\ Levels \subseteq Nat /\ 0 \in Levels
    /\ SlotCounts \subseteq Nat \ {0}
    /\ StallTimeout \in Nat
    /\ RequestTimeout \in Nat
    /\ Flavors \subseteq {"vllm", "llama-cpp"}
    /\ PollsFail \in BOOLEAN

VARIABLES
    \* the engine
    busy,           \* it has running or waiting requests
    changed,        \* counters that moved since the last body it wrote that counts
    wedged,         \* intervals since it made progress; read by properties only
    \* poll_loop
    due,            \* a tick of interval_timer has not been taken yet
    poll,           \* "idle" in tick().await, "asked" for /metrics, "answered" with a
                    \* body on its way, "slots" waiting for the second body
    waited,         \* intervals the request under way has taken
    scrape,         \* the /metrics body: [busy, changed] and, for the properties,
                    \* how long the engine had been wedged when it wrote it
    age,            \* intervals since then; read by properties only
    quiet,          \* last_progress.elapsed() in intervals
    stalled,
    idle_body,      \* intervals since the engine wrote the last published body that
                    \* said it was idle; read by properties only
    \* the watch channels
    snapshot,       \* [kv_usage, slot_count, busy]
    stall_signal

engineVars == <<busy, changed, wedged>>
watchVars == <<quiet, stalled, idle_body>>
pollVars == <<due, poll, waited, scrape, age>>
channelVars == <<snapshot, stall_signal>>
vars == <<engineVars, pollVars, watchVars, channelVars>>

\* Elapsed intervals, counted no further than the watchdog can tell them apart.
AtMost(n) == IF n <= StallTimeout THEN n ELSE StallTimeout + 1

NoScrape == [busy |-> FALSE, changed |-> {}, wedged |-> 0]

-----------------------------------------------------------------------------
(* The engine (external) *)

\* Work arrives, or the last request leaves.
Work ==
    /\ busy' = ~busy
    /\ UNCHANGED <<changed, wedged, pollVars, watchVars, channelVars>>

\* Some counter advances, or a restart sets counters back.
Progress ==
    /\ busy
    /\ \E c \in Counters : changed' = changed \union {c}
    /\ wedged' = 0
    /\ UNCHANGED <<busy, pollVars, watchVars, channelVars>>

-----------------------------------------------------------------------------
(* poll_loop *)

InRequest == poll # "idle"

\* An interval passes, whatever the loop is doing; a request is over when its
\* timeout is.  The ticks a long poll misses become one (MissedTickBehavior::Skip).
Tick ==
    /\ InRequest => waited < RequestTimeout
    /\ due' = TRUE
    /\ waited' = IF InRequest THEN waited + 1 ELSE waited
    /\ age' = IF poll \in {"answered", "slots"} THEN age + 1 ELSE age
    /\ quiet' = AtMost(quiet + 1)
    /\ wedged' = AtMost(wedged + 1)
    /\ idle_body' = AtMost(idle_body + 1)
    /\ UNCHANGED <<busy, changed, poll, scrape, stalled, channelVars>>

\* The tick is taken and /metrics is asked for.
Ask ==
    /\ poll = "idle" /\ due
    /\ poll' = "asked" /\ due' = FALSE /\ waited' = 0
    /\ UNCHANGED <<engineVars, scrape, age, watchVars, channelVars>>

\* The engine writes its /metrics body; it goes on while the body travels.
Answer ==
    /\ poll = "asked"
    /\ poll' = "answered"
    /\ scrape' = [busy |-> busy, changed |-> changed, wedged |-> wedged]
    /\ changed' = {} /\ age' = 0
    /\ UNCHANGED <<busy, wedged, due, waited, watchVars, channelVars>>

\* The loop goes back to its timer.
EndPoll == poll' = "idle" /\ waited' = 0 /\ scrape' = NoScrape /\ age' = 0

\* No answer, an unreadable body, or a body without any known metric: the last
\* snapshot, the stall signal and the watchdog's state stay as they are, last_* too.
FailedPoll ==
    /\ PollsFail
    /\ poll \in {"asked", "answered"}
    /\ EndPoll
    /\ changed' = changed \union scrape.changed
    /\ UNCHANGED <<busy, wedged, due, watchVars, channelVars>>

\* The outcome of the watchdog: the timer, the flag and the signal, unless disabled.
Judge(elapsed, now_stalled) ==
    /\ quiet' = IF StallTimeout = 0 THEN quiet ELSE elapsed
    /\ stalled' = IF StallTimeout = 0 THEN stalled ELSE now_stalled
    /\ stall_signal' = IF StallTimeout = 0 THEN stall_signal ELSE now_stalled

\* Mutant of Watchdog: the timer is not reset while the engine is idle.
WatchdogWithoutIdle(s) ==
    \E late \in {0, 1} :
        LET elapsed == IF s.changed # {} THEN 0 ELSE quiet
        IN Judge(elapsed, s.busy /\ elapsed >= StallTimeout + late)

\* Mutant of Watchdog: a stall, once declared, is not cleared.
WatchdogLatched(s) ==
    \E late \in {0, 1} :
        LET elapsed == IF ~s.busy \/ s.changed # {} THEN 0 ELSE quiet
        IN Judge(elapsed, stalled \/ (s.busy /\ elapsed >= StallTimeout + late))

\* Mutant of Watchdog: every scrape counts as progress.
WatchdogAlwaysFresh(s) == Judge(0, FALSE)

\* The watchdog on a published scrape: the timer restarts when the engine is idle or
\* some counter moved; a busy engine whose timer has run out is stalled.  Where as
\* many intervals have ended as the timeout has, the time may be a fraction short.
Watchdog(s) ==
    \E late \in {0, 1} :
        LET elapsed == IF ~s.busy \/ s.changed # {} THEN 0 ELSE quiet
        IN Judge(elapsed, s.busy /\ elapsed >= StallTimeout + late)

Publish(s, kv_usage, slot_count) ==
    /\ snapshot' = [kv_usage |-> kv_usage, slot_count |-> slot_count, busy |-> s.busy]
    /\ Watchdog(s)
    /\ idle_body' = IF s.busy THEN idle_body ELSE AtMost(age)

\* A vLLM body carries the KV usage itself, of the moment it was written.
PollVllm ==
    /\ "vllm" \in Flavors
    /\ poll = "answered"
    /\ \E kv_usage \in Levels : Publish(scrape, kv_usage, 0)
    /\ EndPoll
    /\ UNCHANGED <<engineVars, due>>

\* A llama.cpp body: /slots is fetched next, and the engine goes on meanwhile.
PollLlama ==
    /\ "llama-cpp" \in Flavors
    /\ poll = "answered"
    /\ poll' = "slots" /\ waited' = 0
    /\ UNCHANGED <<engineVars, due, scrape, age, watchVars, channelVars>>

\* fetch_slots: usage and slot count, or neither: then this snapshot says usage 0 and
\* no slot count.  The watchdog judges the /metrics body, however old it is by now.
FetchSlots ==
    /\ poll = "slots"
    /\ \/ \E kv_usage \in Levels, n \in SlotCounts : Publish(scrape, kv_usage, n)
       \/ PollsFail /\ Publish(scrape, 0, 0)
    /\ EndPoll
    /\ UNCHANGED <<engineVars, due>>

Poll == Ask \/ Answer \/ FailedPoll \/ PollVllm \/ PollLlama \/ FetchSlots

\* The engine may be at work already; last_* start at zero; the first tick is due.
Init ==
    /\ busy \in BOOLEAN /\ changed \in SUBSET Counters
    /\ wedged = 0
    /\ due = TRUE /\ poll = "idle" /\ waited = 0 /\ scrape = NoScrape /\ age = 0
    /\ quiet = 0 /\ stalled = FALSE /\ idle_body = 0
    /\ snapshot = [kv_usage |-> 0, slot_count |-> 0, busy |-> FALSE]
    /\ stall_signal = FALSE

Next == Work \/ Progress \/ Tick \/ Poll

Spec == Init /\ [][Next]_vars

\* Time passes, a request ends (its client gives up in the end), and the backend
\* answers again and again with bodies that get through.
Fairness ==
    /\ WF_vars(Tick) /\ WF_vars(Poll)
    /\ SF_vars(Answer) /\ SF_vars(PollVllm \/ PollLlama)

FairSpec == Spec /\ Fairness

-----------------------------------------------------------------------------
(* Properties *)

\* A stall is declared only of an engine that
\*   - had made no progress for stall_timeout, less the age of the judged body, when
\*     it wrote that body, and the body is no older than the two requests of a poll
\*     may take: progress is never overlooked, whatever polls fail or are slow, and
\*     neither is progress between the two bodies;
\*   - wrote no body in the last stall_timeout that said it was idle and got through.
StallIsGenuine ==
    [][~stalled /\ stalled' => /\ scrape.wedged + age >= StallTimeout
                               /\ age <= 2 * RequestTimeout
                               /\ idle_body >= StallTimeout]_vars

\* A wedged engine is found out, even if some of the polls fail.
WedgeIsDetected == []<>(~busy \/ wedged < StallTimeout \/ stall_signal)

\* The admission gate opens again: the signal does not outlive the work that stalled.
StallClears == stall_signal /\ ~busy ~> ~stall_signal \/ busy
=============================================================================
