------------------------ MODULE BackendMonitorProofs ------------------------
(***************************************************************************)
(* Proof about BackendMonitor: for any stall timeout, request timeout,     *)
(* counters and flavors of backend, a stall is declared only of an engine  *)
(* that was wedged, as of a body of bounded age.                           *)
(***************************************************************************)
EXTENDS BackendMonitor, TLAPS

InFlight == {"answered", "slots"}

\* Types of what the watchdog's timer depends on.
MonitorTypes ==
    /\ wedged \in Nat /\ quiet \in Nat /\ idle_body \in Nat
    /\ waited \in Nat /\ age \in Nat /\ scrape.wedged \in Nat
    /\ poll \in {"idle", "asked"} \union InFlight

\* A body is at most as old as the requests made since it was asked for; outside the
\* flight of a body there is none.
BodyAge ==
    /\ waited <= RequestTimeout
    /\ poll \in {"idle", "asked"} => scrape = NoScrape /\ age = 0
    /\ poll = "answered" => age <= waited
    /\ poll = "slots" => age <= RequestTimeout + waited

\* While no counter has moved, the timer is not ahead of the wedge; a body that shows
\* no progress was written by an engine wedged for as long as the timer ran then; and
\* the last idle body is as old as the timer.
TimerIsTrue ==
    StallTimeout # 0 =>
        /\ changed = {} /\ scrape.changed = {} => quiet <= wedged
        /\ poll \in InFlight /\ scrape.changed = {} => quiet <= scrape.wedged + age
        /\ quiet <= idle_body

\* The inductive invariant of the watchdog.
MonitorInv == MonitorTypes /\ BodyAge /\ TimerIsTrue

-----------------------------------------------------------------------------
LEMMA AtMostFacts ==
    ASSUME NEW m \in Nat, NEW n \in Nat
    PROVE  /\ AtMost(n) \in Nat
           /\ AtMost(n) <= n
           /\ m <= n => AtMost(m) <= AtMost(n)
BY MonitorAssumption DEF AtMost

LEMMA NoScrapeFacts == NoScrape.changed = {} /\ NoScrape.wedged = 0
BY DEF NoScrape

\* What publishing scrape s does to the timer and to the flag.
LEMMA PublishStep ==
    ASSUME NEW s, NEW k, NEW n, Publish(s, k, n), quiet \in Nat, age \in Nat,
           idle_body \in Nat
    PROVE  /\ quiet' \in Nat /\ idle_body' \in Nat
           /\ StallTimeout # 0 =>
                \/ quiet' = 0
                \/ s.busy /\ s.changed = {} /\ quiet' = quiet /\ idle_body' = idle_body
           /\ ~stalled /\ stalled' =>
                StallTimeout # 0 /\ s.changed = {} /\ quiet >= StallTimeout
<1>0. StallTimeout \in Nat
    BY MonitorAssumption
<1> DEFINE elapsed == IF ~s.busy \/ s.changed # {} THEN 0 ELSE quiet
<1>1. PICK late \in {0, 1} : Judge(elapsed, s.busy /\ elapsed >= StallTimeout + late)
    BY DEF Publish, Watchdog
<1>2. /\ quiet' = IF StallTimeout = 0 THEN quiet ELSE elapsed
      /\ stalled' = IF StallTimeout = 0 THEN stalled
                    ELSE s.busy /\ elapsed >= StallTimeout + late
    BY <1>1 DEF Judge
<1>3. idle_body' = IF s.busy THEN idle_body ELSE AtMost(age)
    BY DEF Publish
<1>4. quiet' \in Nat
    BY <1>2
<1>5. idle_body' \in Nat
    <2>1. AtMost(age) \in Nat
        BY AtMostFacts
    <2> QED BY <1>3, <2>1
<1>6. ASSUME StallTimeout # 0, quiet' # 0
      PROVE  s.busy /\ s.changed = {} /\ quiet' = quiet /\ idle_body' = idle_body
    BY <1>2, <1>3, <1>6
<1>7. ASSUME ~stalled, stalled'
      PROVE  StallTimeout # 0 /\ s.changed = {} /\ quiet >= StallTimeout
    <2>1. StallTimeout # 0 /\ elapsed >= StallTimeout + late
        BY <1>2, <1>7, Zenon
    <2>2. elapsed # 0 /\ elapsed >= StallTimeout
        <3>1. elapsed \in Nat
            OBVIOUS
        <3> HIDE DEF elapsed
        <3> QED BY <1>0, <2>1, <3>1
    <2> QED BY <2>1, <2>2
<1> QED BY <1>4, <1>5, <1>6, <1>7

\* The engine moves: progress is in a counter until a body shows it.
LEMMA EngineKeepsTimer ==
    ASSUME MonitorInv, Work \/ Progress
    PROVE  MonitorInv'
<1>1. CASE Work
    <2>1. UNCHANGED <<changed, wedged, quiet, idle_body, waited, age, poll, scrape>>
        BY <1>1 DEF Work, pollVars, watchVars
    <2> QED BY <2>1 DEF MonitorInv, MonitorTypes, BodyAge, TimerIsTrue
<1>2. CASE Progress
    <2>1. /\ changed' # {} /\ wedged' = 0
          /\ UNCHANGED <<quiet, idle_body, waited, age, poll, scrape>>
        BY <1>2 DEF Progress, pollVars, watchVars
    <2>2. MonitorTypes' /\ BodyAge'
        BY <2>1 DEF MonitorInv, MonitorTypes, BodyAge
    <2>3. TimerIsTrue'
        BY <2>1 DEF MonitorInv, TimerIsTrue
    <2> QED BY <2>2, <2>3 DEF MonitorInv
<1> QED BY <1>1, <1>2

\* An interval moves the timer, the wedge and the age of the body together.
LEMMA TickKeepsTimer ==
    ASSUME MonitorInv, Tick
    PROVE  MonitorInv'
<1>1. /\ StallTimeout \in Nat /\ RequestTimeout \in Nat
      /\ quiet \in Nat /\ wedged \in Nat /\ idle_body \in Nat /\ waited \in Nat
      /\ age \in Nat /\ scrape.wedged \in Nat
    BY MonitorAssumption DEF MonitorInv, MonitorTypes
<1>2. /\ quiet' = AtMost(quiet + 1) /\ wedged' = AtMost(wedged + 1)
      /\ idle_body' = AtMost(idle_body + 1)
      /\ age' = IF poll \in InFlight THEN age + 1 ELSE age
      /\ waited' = IF poll # "idle" THEN waited + 1 ELSE waited
      /\ poll # "idle" => waited < RequestTimeout
      /\ UNCHANGED <<changed, scrape, poll>>
    BY DEF Tick, InRequest, InFlight
<1>3. MonitorTypes'
    BY <1>1, <1>2, AtMostFacts DEF MonitorInv, MonitorTypes
<1>4. BodyAge'
    BY <1>1, <1>2 DEF MonitorInv, BodyAge, InFlight
<1>5. TimerIsTrue'
    <2> SUFFICES ASSUME StallTimeout # 0
                 PROVE  TimerIsTrue'
        BY <1>2 DEF TimerIsTrue
    <2>1. ASSUME changed' = {}, scrape'.changed = {}
          PROVE  quiet' <= wedged'
        <3>1. quiet + 1 <= wedged + 1
            BY <1>1, <1>2, <2>1 DEF MonitorInv, TimerIsTrue
        <3> QED BY <1>1, <1>2, <3>1, AtMostFacts
    <2>2. ASSUME poll' \in InFlight, scrape'.changed = {}
          PROVE  quiet' <= scrape'.wedged + age'
        <3>1. quiet <= scrape.wedged + age
            BY <1>1, <1>2, <2>2 DEF MonitorInv, TimerIsTrue
        <3>2. quiet' <= quiet + 1 /\ quiet' \in Nat
            BY <1>1, <1>2, AtMostFacts
        <3>3. age' = age + 1 /\ scrape' = scrape
            BY <1>2, <2>2
        <3> QED BY <1>1, <3>1, <3>2, <3>3
    <2>3. quiet' <= idle_body'
        <3>1. quiet + 1 <= idle_body + 1
            BY <1>1 DEF MonitorInv, TimerIsTrue
        <3> QED BY <1>1, <1>2, <3>1, AtMostFacts
    <2> QED BY <2>1, <2>2, <2>3 DEF TimerIsTrue
<1> QED BY <1>3, <1>4, <1>5 DEF MonitorInv

\* A published body restarts the timer or showed no progress.
LEMMA PublishKeepsTimer ==
    ASSUME MonitorInv, NEW k, NEW n, Publish(scrape, k, n), EndPoll,
           UNCHANGED <<changed, wedged>>
    PROVE  MonitorInv'
<1>1. /\ quiet \in Nat /\ wedged \in Nat /\ idle_body \in Nat /\ age \in Nat
      /\ RequestTimeout \in Nat
    BY MonitorAssumption DEF MonitorInv, MonitorTypes
<1>2. /\ quiet' \in Nat /\ idle_body' \in Nat
      /\ StallTimeout # 0 =>
            \/ quiet' = 0
            \/ scrape.changed = {} /\ quiet' = quiet /\ idle_body' = idle_body
    BY <1>1, PublishStep
<1>3. poll' = "idle" /\ waited' = 0 /\ scrape' = NoScrape /\ age' = 0
    BY DEF EndPoll
<1>4. MonitorTypes'
    BY <1>1, <1>2, <1>3, NoScrapeFacts DEF MonitorTypes
<1>5. BodyAge'
    BY <1>1, <1>3 DEF BodyAge
<1>6. TimerIsTrue'
    <2>1. CASE StallTimeout = 0
        BY <2>1 DEF TimerIsTrue
    <2>2. CASE StallTimeout # 0 /\ quiet' = 0
        BY <1>1, <1>2, <1>3, <2>2 DEF TimerIsTrue, InFlight
    <2>3. CASE /\ StallTimeout # 0 /\ scrape.changed = {}
               /\ quiet' = quiet /\ idle_body' = idle_body
        BY <1>3, <2>3 DEF MonitorInv, TimerIsTrue, InFlight
    <2> QED BY <1>2, <2>1, <2>2, <2>3
<1> QED BY <1>4, <1>5, <1>6 DEF MonitorInv

\* A poll asks, is answered, fails, publishes, or waits for its second body.
LEMMA PollKeepsTimer ==
    ASSUME MonitorInv, Poll
    PROVE  MonitorInv'
<1>0. /\ wedged \in Nat /\ quiet \in Nat /\ RequestTimeout \in Nat /\ waited \in Nat
      /\ age \in Nat
    BY MonitorAssumption DEF MonitorInv, MonitorTypes
<1>1. CASE Ask
    <2>1. /\ poll = "idle" /\ poll' = "asked" /\ waited' = 0
          /\ UNCHANGED <<changed, wedged, quiet, idle_body, age, scrape>>
        BY <1>1 DEF Ask, engineVars, watchVars
    <2> QED BY <1>0, <2>1 DEF MonitorInv, MonitorTypes, BodyAge, TimerIsTrue, InFlight
<1>2. CASE Answer
    <2>1. /\ poll = "asked" /\ poll' = "answered" /\ changed' = {} /\ age' = 0
          /\ scrape' = [busy |-> busy, changed |-> changed, wedged |-> wedged]
          /\ UNCHANGED <<wedged, quiet, idle_body, waited>>
        BY <1>2 DEF Answer, watchVars
    <2>2. scrape'.changed = changed /\ scrape'.wedged = wedged
        BY <2>1
    <2>3. scrape.changed = {}
        BY <2>1, NoScrapeFacts DEF MonitorInv, BodyAge
    <2>4. MonitorTypes' /\ BodyAge'
        BY <1>0, <2>1, <2>2 DEF MonitorInv, MonitorTypes, BodyAge, InFlight
    <2>5. TimerIsTrue'
        BY <1>0, <2>1, <2>2, <2>3 DEF MonitorInv, TimerIsTrue
    <2> QED BY <2>4, <2>5 DEF MonitorInv
<1>3. CASE FailedPoll
    <2>1. /\ poll' = "idle" /\ waited' = 0 /\ scrape' = NoScrape /\ age' = 0
          /\ changed' = changed \union scrape.changed
          /\ UNCHANGED <<wedged, quiet, idle_body>>
        BY <1>3 DEF FailedPoll, EndPoll, watchVars
    <2>2. MonitorTypes' /\ BodyAge'
        BY <1>0, <2>1, NoScrapeFacts DEF MonitorInv, MonitorTypes, BodyAge
    <2>3. changed' = {} => changed = {} /\ scrape.changed = {}
        BY <2>1
    <2>4. TimerIsTrue'
        BY <2>1, <2>3 DEF MonitorInv, TimerIsTrue, InFlight
    <2> QED BY <2>2, <2>4 DEF MonitorInv
<1>4. CASE PollVllm
    BY <1>4, PublishKeepsTimer DEF PollVllm, engineVars
<1>5. CASE PollLlama
    <2>1. /\ poll = "answered" /\ poll' = "slots" /\ waited' = 0
          /\ UNCHANGED <<changed, wedged, quiet, idle_body, age, scrape>>
        BY <1>5 DEF PollLlama, engineVars, watchVars
    <2> QED BY <1>0, <2>1 DEF MonitorInv, MonitorTypes, BodyAge, TimerIsTrue, InFlight
<1>6. CASE FetchSlots
    BY <1>6, PublishKeepsTimer DEF FetchSlots, engineVars
<1> QED BY <1>1, <1>2, <1>3, <1>4, <1>5, <1>6 DEF Poll

\* The watchdog's timer never runs ahead of the engine's wedge, and no body outlives
\* the two requests of its poll.
THEOREM MonitorInvariance == Spec => []MonitorInv
<1>1. Init => MonitorInv
    BY MonitorAssumption, NoScrapeFacts
    DEF Init, MonitorInv, MonitorTypes, BodyAge, TimerIsTrue, InFlight
<1>2. MonitorInv /\ [Next]_vars => MonitorInv'
    <2> SUFFICES ASSUME MonitorInv, [Next]_vars PROVE MonitorInv'
        OBVIOUS
    <2>1. CASE UNCHANGED vars
        BY <2>1 DEF vars, engineVars, pollVars, watchVars, MonitorInv, MonitorTypes,
                    BodyAge, TimerIsTrue
    <2> QED BY <2>1, EngineKeepsTimer, TickKeepsTimer, PollKeepsTimer DEF Next
<1> QED BY <1>1, <1>2, PTL DEF Spec

\* No stall is declared of an engine that progressed within the timeout before it
\* wrote the judged body, less that body's age of at most two request timeouts, or
\* that wrote a body in that time that said it was idle and got through.
THEOREM StallsAreGenuine == Spec => StallIsGenuine
<1> DEFINE Genuine == /\ scrape.wedged + age >= StallTimeout
                      /\ age <= 2 * RequestTimeout
                      /\ idle_body >= StallTimeout
<1>1. MonitorInv /\ [Next]_vars => [~stalled /\ stalled' => Genuine]_vars
    <2> SUFFICES ASSUME MonitorInv, [Next]_vars, stalled', ~stalled,
                        ~(UNCHANGED vars)
                 PROVE  Genuine
        BY Zenon
    <2>0. /\ StallTimeout \in Nat /\ RequestTimeout \in Nat /\ quiet \in Nat
          /\ age \in Nat /\ waited \in Nat /\ idle_body \in Nat /\ scrape.wedged \in Nat
        BY MonitorAssumption DEF MonitorInv, MonitorTypes
    <2>1. ASSUME NEW k, NEW n, Publish(scrape, k, n), poll \in InFlight
          PROVE  Genuine
        <3>1. StallTimeout # 0 /\ scrape.changed = {} /\ quiet >= StallTimeout
            BY <2>0, <2>1, PublishStep
        <3>2. quiet <= scrape.wedged + age /\ quiet <= idle_body
            BY <2>1, <3>1 DEF MonitorInv, TimerIsTrue
        <3>3. waited <= RequestTimeout /\ age <= RequestTimeout + waited
            BY <2>0, <2>1 DEF MonitorInv, BodyAge, InFlight
        <3> QED BY <2>0, <3>1, <3>2, <3>3
    <2>2. CASE PollVllm
        BY <2>1, <2>2 DEF PollVllm, InFlight
    <2>3. CASE FetchSlots
        BY <2>1, <2>3 DEF FetchSlots, InFlight
    <2>4. CASE Work \/ Progress \/ Tick \/ Ask \/ Answer \/ FailedPoll \/ PollLlama
        <3>1. stalled' = stalled
            BY <2>4 DEF Work, Progress, Tick, Ask, Answer, FailedPoll, PollLlama,
                        watchVars
        <3> QED BY <3>1
    <2> QED BY <2>2, <2>3, <2>4 DEF Next, Poll
<1> QED BY <1>1, MonitorInvariance, PTL DEF Spec, StallIsGenuine
=============================================================================
