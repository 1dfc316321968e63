------------------------- MODULE FlowPriorityProofs -------------------------
(* Machine-checked proofs about FlowPriority, for every set of handlers and    *)
(* every pair of thresholds the loader accepts.                                *)
EXTENDS FlowPriority, SequenceTheorems, TLAPS

-----------------------------------------------------------------------------
(* Lemmas about runs of continuous arrivals *)

\* One more arrival: the entries of the longer history.
LEMMA AppendEntries ==
    ASSUME NEW h \in Seq(Kinds), NEW kind \in Kinds
    PROVE  /\ Append(h, kind) \in Seq(Kinds)
           /\ Len(h) \in Nat
           /\ Len(Append(h, kind)) = Len(h) + 1
           /\ \A k \in 1..Len(h) : Append(h, kind)[k] = h[k]
           /\ Append(h, kind)[Len(h) + 1] = kind
    BY AppendProperties, LenProperties

\* An idle boundary leaves no run.
LEMMA IdleEndsRuns ==
    ASSUME NEW h \in Seq(Kinds), NEW n \in Nat \ {0}
    PROVE  ~HasRun(Append(h, "idle"), n)
<1> DEFINE g == Append(h, "idle")
<1>1. Len(h) \in Nat /\ Len(g) = Len(h) + 1 /\ g[Len(h) + 1] = "idle"
    BY AppendEntries DEF Kinds
<1>2. SUFFICES ASSUME NEW i \in 1..(Len(g) - n + 1),
                      \A k \in i..Len(g) : g[k] # "idle"
               PROVE  FALSE
    BY DEF HasRun
<1>3. Len(h) + 1 \in i..Len(g)
    BY <1>1
<1> QED BY <1>1, <1>2, <1>3

\* A fast boundary breaks the current run and keeps what there was.
LEMMA FastKeepsRuns ==
    ASSUME NEW h \in Seq(Kinds), NEW n \in Nat \ {0}
    PROVE  HasRun(Append(h, "fast"), n) <=> HasRun(h, n)
<1> DEFINE g == Append(h, "fast")
<1>1. /\ Len(h) \in Nat /\ Len(g) = Len(h) + 1 /\ g[Len(h) + 1] = "fast"
      /\ \A k \in 1..Len(h) : g[k] = h[k]
    BY AppendEntries DEF Kinds
<1> HIDE DEF g
<1>2. ASSUME HasRun(g, n) PROVE HasRun(h, n)
    <2>1. PICK i \in 1..(Len(g) - n + 1) :
             /\ \A k \in i..(i + n - 1) : g[k] = "continuous"
             /\ \A k \in i..Len(g) : g[k] # "idle"
        BY <1>2 DEF HasRun
    <2>2. i + n - 1 # Len(h) + 1
        <3> SUFFICES ASSUME i + n - 1 = Len(h) + 1 PROVE FALSE
            OBVIOUS
        <3>1. Len(h) + 1 \in i..(i + n - 1)
            BY <1>1
        <3> QED BY <1>1, <2>1, <3>1
    <2>3. i \in 1..(Len(h) - n + 1)
        BY <1>1, <2>2
    <2>4. \A k \in i..(i + n - 1) : h[k] = "continuous"
        BY <1>1, <2>1, <2>3
    <2>5. \A k \in i..Len(h) : h[k] # "idle"
        BY <1>1, <2>1, <2>3
    <2> QED BY <2>3, <2>4, <2>5 DEF HasRun
<1>3. ASSUME HasRun(h, n) PROVE HasRun(g, n)
    <2>1. PICK i \in 1..(Len(h) - n + 1) :
             /\ \A k \in i..(i + n - 1) : h[k] = "continuous"
             /\ \A k \in i..Len(h) : h[k] # "idle"
        BY <1>3 DEF HasRun
    <2>2. i \in 1..(Len(g) - n + 1)
        BY <1>1
    <2>3. \A k \in i..(i + n - 1) : g[k] = "continuous"
        BY <1>1, <2>1
    <2>4. \A k \in i..Len(g) : g[k] # "idle"
        <3> SUFFICES ASSUME NEW k \in i..Len(g) PROVE g[k] # "idle"
            OBVIOUS
        <3>1. CASE k = Len(h) + 1
            BY <1>1, <3>1
        <3>2. CASE k # Len(h) + 1
            BY <1>1, <2>1, <3>2
        <3> QED BY <3>1, <3>2
    <2> QED BY <2>2, <2>3, <2>4 DEF HasRun
<1> QED BY <1>2, <1>3 DEF g

\* c is the length of the run that h ends with.
EndsWith(h, c) ==
    /\ c \in 0..Len(h)
    /\ \A k \in (Len(h) - c + 1)..Len(h) : h[k] = "continuous"
    /\ c < Len(h) => h[Len(h) - c] # "continuous"

\* The last run is one of the runs.
LEMMA LastRunCounts ==
    ASSUME NEW h \in Seq(Kinds), NEW c \in Nat, EndsWith(h, c),
           NEW n \in Nat \ {0}, n <= c
    PROVE  HasRun(h, n)
<1> DEFINE i == Len(h) - c + 1
<1>1. Len(h) \in Nat /\ c <= Len(h)
    BY LenProperties DEF EndsWith
<1>2. i \in 1..(Len(h) - n + 1)
    BY <1>1
<1>3. \A k \in i..Len(h) : h[k] = "continuous"
    BY DEF EndsWith
<1>4. \A k \in i..(i + n - 1) : h[k] = "continuous"
    BY <1>1, <1>3
<1>5. \A k \in i..Len(h) : h[k] # "idle"
    BY <1>3
<1> HIDE DEF i
<1> QED BY <1>2, <1>4, <1>5 DEF HasRun

\* A continuous arrival makes a run of n exactly when the last run reaches n.
LEMMA ContinuousAddsRuns ==
    ASSUME NEW h \in Seq(Kinds), NEW c \in Nat, EndsWith(h, c), NEW n \in Nat \ {0}
    PROVE  HasRun(Append(h, "continuous"), n) <=> HasRun(h, n) \/ n <= c + 1
<1> DEFINE g == Append(h, "continuous")
<1>1. /\ Len(h) \in Nat /\ Len(g) = Len(h) + 1 /\ g[Len(h) + 1] = "continuous"
      /\ \A k \in 1..Len(h) : g[k] = h[k]
      /\ g \in Seq(Kinds)
    BY AppendEntries DEF Kinds
<1>2. EndsWith(g, c + 1)
    BY <1>1 DEF EndsWith
<1> HIDE DEF g
<1>3. ASSUME HasRun(g, n), n > c + 1 PROVE HasRun(h, n)
    <2>1. PICK i \in 1..(Len(g) - n + 1) :
             /\ \A k \in i..(i + n - 1) : g[k] = "continuous"
             /\ \A k \in i..Len(g) : g[k] # "idle"
        BY <1>3 DEF HasRun
    <2>2. i + n - 1 # Len(h) + 1
        <3> SUFFICES ASSUME i + n - 1 = Len(h) + 1 PROVE FALSE
            OBVIOUS
        <3>1. c < Len(h) /\ h[Len(h) - c] # "continuous"
            BY <1>1, <1>3 DEF EndsWith
        <3>2. Len(h) - c \in i..(i + n - 1) /\ Len(h) - c \in 1..Len(h)
            BY <1>1, <1>3, <3>1
        <3> QED BY <1>1, <2>1, <3>1, <3>2
    <2>3. i \in 1..(Len(h) - n + 1)
        BY <1>1, <2>2
    <2>4. \A k \in i..(i + n - 1) : h[k] = "continuous"
        BY <1>1, <2>1, <2>3
    <2>5. \A k \in i..Len(h) : h[k] # "idle"
        BY <1>1, <2>1, <2>3
    <2> QED BY <2>3, <2>4, <2>5 DEF HasRun
<1>4. ASSUME HasRun(h, n) PROVE HasRun(g, n)
    <2>1. PICK i \in 1..(Len(h) - n + 1) :
             /\ \A k \in i..(i + n - 1) : h[k] = "continuous"
             /\ \A k \in i..Len(h) : h[k] # "idle"
        BY <1>4 DEF HasRun
    <2>2. i \in 1..(Len(g) - n + 1)
        BY <1>1
    <2>3. \A k \in i..(i + n - 1) : g[k] = "continuous"
        BY <1>1, <2>1
    <2>4. \A k \in i..Len(g) : g[k] # "idle"
        <3> SUFFICES ASSUME NEW k \in i..Len(g) PROVE g[k] # "idle"
            OBVIOUS
        <3>1. CASE k = Len(h) + 1
            BY <1>1, <3>1
        <3>2. CASE k # Len(h) + 1
            BY <1>1, <2>1, <3>2
        <3> QED BY <3>1, <3>2
    <2> QED BY <2>2, <2>3, <2>4 DEF HasRun
<1>5. ASSUME n <= c + 1 PROVE HasRun(g, n)
    BY <1>1, <1>2, <1>5, LastRunCounts
<1> QED BY <1>3, <1>4, <1>5 DEF g

\* A run of the larger threshold contains one of the smaller.
LEMMA LongerRunsHoldShorter ==
    ASSUME NEW h \in Seq(Kinds), NEW n \in Nat \ {0}, NEW m \in Nat, n <= m,
           HasRun(h, m)
    PROVE  HasRun(h, n)
<1>1. Len(h) \in Nat
    BY LenProperties
<1>2. PICK i \in 1..(Len(h) - m + 1) :
         /\ \A k \in i..(i + m - 1) : h[k] = "continuous"
         /\ \A k \in i..Len(h) : h[k] # "idle"
    BY DEF HasRun
<1>3. i \in 1..(Len(h) - n + 1) /\ \A k \in i..(i + n - 1) : h[k] = "continuous"
    BY <1>1, <1>2
<1> QED BY <1>2, <1>3 DEF HasRun

-----------------------------------------------------------------------------
(* The reference classification, one arrival further *)

\* Whether there has been an idle boundary.
LEMMA IdleSeen ==
    ASSUME NEW h \in Seq(Kinds), NEW kind \in Kinds
    PROVE  (\E i \in DOMAIN Append(h, kind) : Append(h, kind)[i] = "idle")
              <=> kind = "idle" \/ \E i \in DOMAIN h : h[i] = "idle"
<1> DEFINE g == Append(h, kind)
<1>1. /\ Len(h) \in Nat /\ Len(g) = Len(h) + 1 /\ g[Len(h) + 1] = kind
      /\ \A k \in 1..Len(h) : g[k] = h[k]
      /\ g \in Seq(Kinds)
    BY AppendEntries
<1> HIDE DEF g
<1>2. DOMAIN g = 1..(Len(h) + 1) /\ DOMAIN h = 1..Len(h)
    BY <1>1, LenProperties
<1>3. (\E i \in DOMAIN g : g[i] = "idle") <=> kind = "idle" \/ \E i \in DOMAIN h : h[i] = "idle"
    <2>1. ASSUME NEW i \in DOMAIN g, g[i] = "idle"
          PROVE  kind = "idle" \/ \E j \in DOMAIN h : h[j] = "idle"
        BY <1>1, <1>2, <2>1
    <2>2. kind = "idle" => \E i \in DOMAIN g : g[i] = "idle"
        BY <1>1, <1>2
    <2>3. ASSUME NEW i \in DOMAIN h, h[i] = "idle"
          PROVE  \E j \in DOMAIN g : g[j] = "idle"
        BY <1>1, <1>2, <2>3
    <2> QED BY <2>1, <2>2, <2>3
<1> QED BY <1>3 DEF g

\* The state machine follows the reference: idle boundaries promote, fast ones
\* change nothing, continuous arrivals demote by the length of the last run.
LEMMA ClassificationStep ==
    ASSUME NEW h \in Seq(Kinds), NEW c \in Nat, EndsWith(h, c)
    PROVE  /\ Classification(Append(h, "idle")) = "Interactive"
           /\ Classification(Append(h, "fast")) = Classification(h)
           /\ Classification(Append(h, "continuous")) = Demoted(Classification(h), c + 1)
<1> DEFINE s == agentic_suspected_threshold
           t == agentic_confirmed_threshold
<1>1. s \in Nat \ {0} /\ t \in Nat \ {0} /\ s < t
    BY PolicyAssumption
<1>2. Classification(Append(h, "idle")) = "Interactive"
    BY <1>1, IdleEndsRuns, IdleSeen DEF Classification, Kinds
<1>3. Classification(Append(h, "fast")) = Classification(h)
    BY <1>1, FastKeepsRuns, IdleSeen DEF Classification, Kinds
<1>4. Classification(Append(h, "continuous")) = Demoted(Classification(h), c + 1)
    <2> DEFINE g == Append(h, "continuous")
    <2>1. HasRun(g, s) <=> HasRun(h, s) \/ s <= c + 1
        BY <1>1, ContinuousAddsRuns
    <2>2. HasRun(g, t) <=> HasRun(h, t) \/ t <= c + 1
        BY <1>1, ContinuousAddsRuns
    <2>3. (\E i \in DOMAIN g : g[i] = "idle") <=> \E i \in DOMAIN h : h[i] = "idle"
        BY IdleSeen DEF Kinds
    <2>4. HasRun(h, t) => HasRun(h, s)
        BY <1>1, LongerRunsHoldShorter
    <2>5. t <= c + 1 => HasRun(h, s)
        BY <1>1, LastRunCounts
    <2> SUFFICES Classification(g) = Demoted(Classification(h), c + 1)
        OBVIOUS
    <2> HIDE DEF g
    <2>6. CASE HasRun(h, t)
        BY <1>1, <2>2, <2>6 DEF Classification, Demoted
    <2>7. CASE ~HasRun(h, t) /\ HasRun(h, s)
        BY <1>1, <2>1, <2>2, <2>7 DEF Classification, Demoted
    <2>8. CASE ~HasRun(h, t) /\ ~HasRun(h, s)
        BY <1>1, <2>1, <2>2, <2>3, <2>5, <2>8 DEF Classification, Demoted
    <2> QED BY <2>4, <2>6, <2>7, <2>8
<1> QED BY <1>2, <1>3, <1>4

\* An entry nobody has arrived at is Cold.
LEMMA EmptyIsCold == Classification(<<>>) = "Cold"
<1>1. ASSUME NEW n \in Nat \ {0} PROVE ~HasRun(<<>>, n)
    BY DEF HasRun
<1> QED BY <1>1, PolicyAssumption DEF Classification

-----------------------------------------------------------------------------
(* The invariant *)

\* What one arrival does to the run the history ends with.
LEMMA EndsWithStep ==
    ASSUME NEW h \in Seq(Kinds), NEW c \in Nat, EndsWith(h, c)
    PROVE  /\ EndsWith(Append(h, "idle"), 0)
           /\ EndsWith(Append(h, "fast"), 0)
           /\ EndsWith(Append(h, "continuous"), c + 1)
<1>1. ASSUME NEW kind \in Kinds, kind # "continuous"
      PROVE  EndsWith(Append(h, kind), 0)
    BY <1>1, AppendEntries DEF EndsWith
<1>2. EndsWith(Append(h, "continuous"), c + 1)
    BY AppendEntries DEF EndsWith, Kinds
<1> QED BY <1>1, <1>2 DEF Kinds

\* The part of the invariant that is about the cadence entry.
Entry == /\ history \in Seq(Kinds) /\ continuous_arrival_count \in Nat
         /\ EndsWith(history, continuous_arrival_count)
         /\ state = "None" => history = <<>>
         /\ state # "None" => state = Classification(history)

\* Making a missing entry gives it the class of an empty history.
LEMMA DefaultIsReference == Entry => OrDefault = Classification(history)
    BY EmptyIsCold DEF Entry, OrDefault

\* Only an arrival, a lookup that makes the entry and its removal change it.
LEMMA EntryStep == Entry /\ [Next]_vars => Entry'
<1> SUFFICES ASSUME Entry, [Next]_vars PROVE Entry'
    OBVIOUS
<1>1. ASSUME NEW r \in Requests, record_arrival(r) PROVE Entry'
    <2>1. PICK kind \in Kinds : Moved(kind) /\ history' = Append(history, kind)
        BY <1>1 DEF record_arrival, Kind, Kinds
    <2>2. history' \in Seq(Kinds)
        BY <2>1, AppendEntries DEF Entry
    <2>3. /\ continuous_arrival_count' \in Nat
          /\ EndsWith(history', continuous_arrival_count')
        BY <2>1, EndsWithStep DEF Entry, Moved
    <2>4. state' = Classification(history')
        BY <2>1, ClassificationStep, DefaultIsReference DEF Entry, Moved
    <2>5. state' # "None"
        BY <2>4 DEF Classification
    <2> QED BY <2>2, <2>3, <2>4, <2>5 DEF Entry
<1>2. ASSUME state' = OrDefault, UNCHANGED <<continuous_arrival_count, history>>
      PROVE  Entry'
    <2>1. state' = Classification(history')
        BY <1>2, DefaultIsReference
    <2>2. state' # "None"
        BY <1>2 DEF OrDefault
    <2> QED BY <1>2, <2>1, <2>2 DEF Entry
<1>3. CASE RemoveEntry
    BY <1>3 DEF RemoveEntry, Entry, EndsWith
<1>4. ASSUME UNCHANGED <<state, continuous_arrival_count, history>> PROVE Entry'
    BY <1>4 DEF Entry
<1>5. ASSUME NEW r \in Requests, Request(r) PROVE Entry'
    <2>1. CASE record_arrival(r)
        BY <1>1, <2>1
    <2>2. CASE ClassifyRead(r) \/ state_of(r)
        BY <1>2, <2>2 DEF ClassifyRead, state_of
    <2>3. CASE ArrivePlain(r) \/ ArriveAuto(r) \/ UnsetPriority(r) \/ PinSource(r)
        BY <1>4, <2>3 DEF ArrivePlain, ArriveAuto, UnsetPriority, PinSource, cadence
    <2>4. CASE ClassifySkipped(r) \/ ClassifyTest(r) \/ ClassifyApply(r)
        BY <1>4, <2>4 DEF ClassifySkipped, ClassifyTest, ClassifyApply, cadence
    <2>5. ASSUME NEW h \in Headers, ArrivePinned(r, h) PROVE Entry'
        BY <1>4, <2>5 DEF ArrivePinned, cadence
    <2> QED BY <1>5, <2>1, <2>2, <2>3, <2>4, <2>5 DEF Request
<1>6. ASSUME NEW p \in AdminPriorities, RegisterPriority(p) PROVE Entry'
    BY <1>4, <1>6 DEF RegisterPriority, cadence
<1>7. CASE RegisterSource \/ Expire \/ CollectEntry
    BY <1>4, <1>7 DEF RegisterSource, Expire, CollectEntry, cadence
<1>8. CASE UNCHANGED vars
    BY <1>4, <1>8 DEF vars, cadence
<1> QED BY <1>3, <1>5, <1>6, <1>7, <1>8 DEF Next

\* There is no entry at first.
LEMMA EntryInit == Init => Entry
    BY DEF Init, Entry, EndsWith

\* For every set of handlers, every bound on the arrivals and all thresholds with
\* 1 <= suspected < confirmed, the state machine of record_arrival computes the
\* classification of the arrivals its entry has recorded, under any interleaving
\* with lookups and with the reaper.
THEOREM CadenceMatchesHistory == Spec => []StateMatchesHistory
<1>1. Entry => StateMatchesHistory
    BY DEF Entry, StateMatchesHistory
<1> QED BY <1>1, EntryInit, EntryStep, PTL DEF Spec

-----------------------------------------------------------------------------
(* Types *)

\* Every cadence state has a configured priority.
LEMMA PriorityOfType ==
    ASSUME NEW s \in CadenceStates
    PROVE  PriorityOf(s) \in Nat
    BY PriorityAssumption DEF CadenceStates, PriorityOf

\* An entry made again is in one of the four states.
LEMMA OrDefaultType == TypeOK => OrDefault \in CadenceStates
    BY DEF TypeOK, OrDefault, CadenceStates

\* Moving one handler keeps the stages' type.
LEMMA GotoType ==
    ASSUME TypeOK, NEW p \in Processes, NEW from, NEW to \in Stages, Goto(p, from, to)
    PROVE  pc' \in [Processes -> Stages]
    BY DEF TypeOK, Goto

\* Windows open and close on writers only.
LEMMA WindowType ==
    ASSUME TypeOK, NEW p \in Processes, Open(p) \/ Close(p)
    PROVE  overlapped' \subseteq Processes /\ raced' \in BOOLEAN
<1>1. CASE Open(p)
    <2>1. raced' \in BOOLEAN
        BY <1>1 DEF TypeOK, Open
    <2>2. overlapped' \subseteq Processes
        BY <1>1 DEF TypeOK, Open
    <2> QED BY <2>1, <2>2
<1>2. CASE Close(p)
    <2>1. raced' \in BOOLEAN
        <3>1. (p \in overlapped) \in BOOLEAN
            OBVIOUS
        <3> QED BY <1>2, <3>1 DEF Close
    <2>2. overlapped' \subseteq Processes
        BY <1>2 DEF TypeOK, Close
    <2> QED BY <2>1, <2>2
<1> QED BY <1>1, <1>2

\* The history of a new entry.
LEMMA NoArrivals == <<>> \in Seq(Kinds) /\ 0 \in 0..Len(<<>>)
    BY EmptySeq

\* The initial state has its types.
LEMMA TypeInit == Init => TypeOK
<1> SUFFICES ASSUME Init PROVE TypeOK
    OBVIOUS
<1>1. history \in Seq(Kinds) /\ continuous_arrival_count \in 0..Len(history)
    BY NoArrivals DEF Init
<1>2. pc \in [Processes -> Stages] /\ value \in [Processes -> Nat]
    BY DEF Init, Stages
<1>3. priority \in Nat /\ pinned \in Nat /\ priority_source \in 0..2
    BY PriorityAssumption DEF Init
<1> QED BY <1>1, <1>2, <1>3 DEF Init, TypeOK

\* Every step keeps the types.
LEMMA TypeStep == TypeOK /\ [Next]_vars => TypeOK'
<1> SUFFICES ASSUME TypeOK, [Next]_vars PROVE TypeOK'
    OBVIOUS
<1> USE DEF flowVars, cadence, handlers, windows
<1>1. ASSUME NEW r \in Requests, Request(r) PROVE TypeOK'
    <2> r \in Processes
        BY DEF Processes
    <2>1. CASE ArrivePlain(r)
        <3>1. pc' \in [Processes -> Stages]
            BY <2>1, GotoType DEF ArrivePlain, Stages
        <3> QED BY <2>1, <3>1 DEF ArrivePlain, TypeOK
    <2>2. CASE ArriveAuto(r)
        <3>1. pc' \in [Processes -> Stages]
            BY <2>2, GotoType DEF ArriveAuto, Stages
        <3>2. overlapped' \subseteq Processes /\ raced' \in BOOLEAN
            BY <2>2, WindowType DEF ArriveAuto
        <3> QED BY <2>2, <3>1, <3>2 DEF ArriveAuto, TypeOK
    <2>3. CASE UnsetPriority(r)
        <3>1. pc' \in [Processes -> Stages]
            BY <2>3, GotoType DEF UnsetPriority, Stages
        <3>2. overlapped' \subseteq Processes /\ raced' \in BOOLEAN
            BY <2>3, WindowType DEF UnsetPriority
        <3> QED BY <2>3, <3>1, <3>2, PriorityAssumption DEF UnsetPriority, TypeOK
    <2>4. ASSUME NEW h \in Headers, ArrivePinned(r, h) PROVE TypeOK'
        <3>1. pc' \in [Processes -> Stages]
            BY <2>4, GotoType DEF ArrivePinned, Stages
        <3>2. overlapped' \subseteq Processes /\ raced' \in BOOLEAN
            BY <2>4, WindowType DEF ArrivePinned
        <3>3. ClassOf(h) \in Nat
            BY <2>4, PriorityAssumption DEF ArrivePinned, Headers, ClassOf
        <3> QED BY <2>4, <3>1, <3>2, <3>3 DEF ArrivePinned, TypeOK
    <2>5. CASE PinSource(r)
        <3>1. pc' \in [Processes -> Stages]
            BY <2>5, GotoType DEF PinSource, Stages
        <3>2. overlapped' \subseteq Processes /\ raced' \in BOOLEAN
            BY <2>5, WindowType DEF PinSource
        <3> QED BY <2>5, <3>1, <3>2 DEF PinSource, TypeOK
    <2>6. CASE record_arrival(r)
        <3>1. pc' \in [Processes -> Stages]
            BY <2>6, GotoType DEF record_arrival, Stages
        <3>2. PICK kind \in Kinds : Moved(kind) /\ history' = Append(history, kind)
            BY <2>6 DEF record_arrival, Kind, Kinds
        <3>3. /\ history' \in Seq(Kinds) /\ Len(history) \in Nat
              /\ Len(history') = Len(history) + 1
            BY <3>2, AppendEntries DEF TypeOK
        <3>4. continuous_arrival_count' \in 0..Len(history')
            BY <3>2, <3>3 DEF TypeOK, Moved
        <3>5. state' \in CadenceStates
            BY <3>2, OrDefaultType DEF Moved, Demoted, CadenceStates
        <3> QED BY <2>6, <3>1, <3>3, <3>4, <3>5 DEF record_arrival, TypeOK
    <2>7. CASE ClassifySkipped(r)
        <3>1. pc' \in [Processes -> Stages]
            BY <2>7, GotoType DEF ClassifySkipped, Stages
        <3> QED BY <2>7, <3>1 DEF ClassifySkipped, TypeOK
    <2>8. CASE ClassifyTest(r)
        <3>1. pc' \in [Processes -> Stages]
            BY <2>8, GotoType DEF ClassifyTest, Stages
        <3>2. overlapped' \subseteq Processes /\ raced' \in BOOLEAN
            BY <2>8, WindowType DEF ClassifyTest
        <3> QED BY <2>8, <3>1, <3>2 DEF ClassifyTest, TypeOK
    <2>9. CASE ClassifyRead(r)
        <3>1. pc' \in [Processes -> Stages]
            BY <2>9, GotoType DEF ClassifyRead, Stages
        <3>2. PriorityOf(OrDefault) \in Nat /\ OrDefault \in CadenceStates
            BY OrDefaultType, PriorityOfType
        <3> QED BY <2>9, <3>1, <3>2 DEF ClassifyRead, TypeOK
    <2>10. CASE ClassifyApply(r)
        <3>1. pc' \in [Processes -> Stages]
            BY <2>10, GotoType DEF ClassifyApply, Stages
        <3>2. overlapped' \subseteq Processes /\ raced' \in BOOLEAN
            BY <2>10, WindowType DEF ClassifyApply
        <3> QED BY <2>10, <3>1, <3>2 DEF ClassifyApply, TypeOK
    <2>11. CASE state_of(r)
        <3>1. pc' \in [Processes -> Stages]
            BY <2>11, GotoType DEF state_of, Stages
        <3> QED BY <2>11, <3>1, OrDefaultType DEF state_of, TypeOK
    <2> QED BY <1>1, <2>1, <2>2, <2>3, <2>4, <2>5, <2>6, <2>7, <2>8, <2>9, <2>10, <2>11
            DEF Request
<1> Admin \in Processes
    BY DEF Processes
<1>2. ASSUME NEW p \in AdminPriorities, RegisterPriority(p) PROVE TypeOK'
    <2>1. pc' \in [Processes -> Stages]
        BY <1>2, GotoType DEF RegisterPriority, Stages
    <2>2. overlapped' \subseteq Processes /\ raced' \in BOOLEAN
        BY <1>2, WindowType DEF RegisterPriority
    <2>3. p \in Nat
        BY PriorityAssumption
    <2> QED BY <1>2, <2>1, <2>2, <2>3 DEF RegisterPriority, TypeOK
<1>3. CASE RegisterSource
    <2>1. pc' \in [Processes -> Stages]
        BY <1>3, GotoType DEF RegisterSource, Stages
    <2>2. overlapped' \subseteq Processes /\ raced' \in BOOLEAN
        BY <1>3, WindowType DEF RegisterSource
    <2> QED BY <1>3, <2>1, <2>2 DEF RegisterSource, TypeOK
<1>4. CASE Expire \/ CollectEntry
    BY <1>4 DEF Expire, CollectEntry, TypeOK
<1>5. CASE RemoveEntry
    <2>1. history' \in Seq(Kinds) /\ continuous_arrival_count' \in 0..Len(history')
        BY <1>5, NoArrivals DEF RemoveEntry
    <2> QED BY <1>5, <2>1 DEF RemoveEntry, TypeOK
<1>6. CASE UNCHANGED vars
    BY <1>6 DEF vars, TypeOK
<1> QED BY <1>1, <1>2, <1>3, <1>4, <1>5, <1>6 DEF Next

\* The flow's atomics, its cadence entry and the handlers keep their types, and the
\* counter of an entry never exceeds the arrivals the entry has recorded.
THEOREM PriorityTypes == Spec => []TypeOK
    BY TypeInit, TypeStep, PTL DEF Spec

-----------------------------------------------------------------------------
(* The priority settles *)

\* The stages of InWindow.
Inside == {"unset", "pin", "read", "apply"}

\* A writer that enters its window is the only one there or is marked, and so is
\* everybody else there.
LEMMA OpenWindow ==
    ASSUME TypeOK, OverlapsMarked, NEW p \in Processes, NEW to \in Inside,
           ~InWindow(p), pc' = [pc EXCEPT ![p] = to], Open(p)
    PROVE  /\ OverlapsMarked'
           /\ ~NobodyInside'
           /\ \A q \in Processes \ overlapped' : pc'[q] \in Inside => q = p
<1>1. \A q \in Processes : pc'[q] = IF q = p THEN to ELSE pc[q]
    BY DEF TypeOK
<1>2. ~NobodyInside'
    BY <1>1 DEF NobodyInside, InWindow, Inside
<1> DEFINE others == {q \in Processes \ {p} : InWindow(q)}
<1>3. CASE others = {}
    <2>1. overlapped' = overlapped /\ overlapped = {}
        BY <1>3 DEF Open, OverlapsMarked, TypeOK
    <2>2. \A q \in Processes \ {p} : ~InWindow(q)
        BY <1>3
    <2>3. \A q \in Processes : pc'[q] \in Inside => q = p
        BY <1>1, <2>2 DEF InWindow, Inside
    <2>4. OverlapsMarked'
        BY <2>1, <2>3 DEF OverlapsMarked, InWindow, Inside
    <2> QED BY <1>2, <2>3, <2>4
<1>4. CASE others # {}
    <2>1. overlapped' = overlapped \union others \union {p}
        BY <1>4 DEF Open
    <2>2. \A q \in Processes : pc'[q] \in Inside => q \in overlapped'
        BY <1>1, <2>1 DEF InWindow, Inside
    <2>3. \A q \in overlapped' : pc'[q] \in Inside
        BY <1>1, <2>1 DEF InWindow, Inside, OverlapsMarked, TypeOK
    <2>4. OverlapsMarked'
        BY <2>2, <2>3 DEF OverlapsMarked, InWindow, Inside
    <2> QED BY <1>2, <2>2, <2>4
<1> QED BY <1>3, <1>4

\* A writer that leaves its window unmarked was alone in it, and whoever is still
\* inside is marked.
LEMMA CloseWindow ==
    ASSUME TypeOK, OverlapsMarked, NEW p \in Processes, NEW to \in Stages \ Inside,
           InWindow(p), pc' = [pc EXCEPT ![p] = to], Close(p)
    PROVE  /\ OverlapsMarked'
           /\ LoneWriterSettles'
           /\ ~raced' => p \notin overlapped
<1>1. \A q \in Processes : pc'[q] = IF q = p THEN to ELSE pc[q]
    BY DEF TypeOK
<1>2. \A q \in Processes : pc'[q] \in Inside => q \in overlapped /\ q # p
    BY <1>1 DEF OverlapsMarked, InWindow, Inside
<1>3. overlapped' = overlapped \ {p}
    BY DEF Close
<1>4. \A q \in overlapped' : pc'[q] \in Inside
    BY <1>1, <1>3 DEF OverlapsMarked, InWindow, Inside, TypeOK
<1>5. OverlapsMarked'
    BY <1>2, <1>3, <1>4 DEF OverlapsMarked, InWindow, Inside
<1>6. LoneWriterSettles'
    BY <1>2, <1>3 DEF LoneWriterSettles, Inside
<1>7. ~raced' => p \notin overlapped
    BY DEF Close
<1> QED BY <1>5, <1>6, <1>7

\* A step outside the windows.
LEMMA QuietStep ==
    ASSUME TypeOK, OverlapsMarked, LoneWriterSettles, PrioritySettled, StagesReached,
           UNCHANGED <<priority, priority_source, value, pinned, overlapped, raced>>,
           \A q \in Processes : pc'[q] = pc[q] \/ {pc'[q], pc[q]} \cap Inside = {},
           priority_source = 0 /\ Enabled => \A v : Classified(v) => Classified(v)'
    PROVE  OverlapsMarked' /\ LoneWriterSettles' /\ PrioritySettled'
<1>1. \A q \in Processes : InWindow(q)' <=> InWindow(q)
    BY DEF InWindow, Inside
<1>2. OverlapsMarked'
    BY <1>1 DEF OverlapsMarked, TypeOK
<1>3. LoneWriterSettles'
    <2> SUFFICES ASSUME NEW q \in Processes \ overlapped'
                 PROVE  /\ pc'[q] = "pin" => priority' = pinned'
                        /\ pc'[q] \in {"unset", "read", "apply"} => priority_source' = 0
                        /\ pc'[q] = "apply" => Classified(value[q])'
        BY DEF LoneWriterSettles
    <2>1. pc'[q] \in Inside => pc'[q] = pc[q]
        OBVIOUS
    <2>2. pc'[q] = "pin" => priority' = pinned'
        BY <2>1 DEF LoneWriterSettles, Inside
    <2>3. pc'[q] \in {"unset", "read", "apply"} => priority_source' = 0
        BY <2>1 DEF LoneWriterSettles, Inside
    <2>4. ASSUME pc'[q] = "apply" PROVE Classified(value[q])'
        <3>1. pc[q] = "apply" /\ priority_source = 0 /\ Classified(value[q])
            BY <2>1, <2>4 DEF LoneWriterSettles, Inside
        <3>2. Enabled
            BY <3>1 DEF StagesReached, Processes
        <3> QED BY <3>1, <3>2 DEF Classified
    <2> QED BY <2>2, <2>3, <2>4
<1>4. PrioritySettled'
    BY <1>1 DEF PrioritySettled, NobodyInside, Classified
<1> QED BY <1>2, <1>3, <1>4

\* The entry's part of the invariant in the words of FlowPriority.
LEMMA EntryIsCadence == CadenceInv <=> TypeOK /\ Entry
<1>1. TypeOK => history \in Seq(Kinds) /\ continuous_arrival_count \in Nat
    BY LenProperties DEF TypeOK
<1>2. TypeOK => (RunIsCurrent /\ StateMatchesHistory <=> Entry)
    BY <1>1 DEF TypeOK, RunIsCurrent, StateMatchesHistory, Entry, EndsWith
<1> QED BY <1>2 DEF CadenceInv

\* Handlers stay in the stages of their kind.
LEMMA StagesStep ==
    ASSUME TypeOK, StagesReached, [Next]_vars
    PROVE  StagesReached'
<1> USE ProcessAssumption DEF TypeOK, StagesReached, Goto, Processes, handlers
<1>1. ASSUME NEW r \in Requests, Request(r) PROVE StagesReached'
    <2>1. CASE \/ ArrivePlain(r) \/ ArriveAuto(r) \/ UnsetPriority(r) \/ PinSource(r)
               \/ record_arrival(r) \/ ClassifySkipped(r)
        BY <2>1 DEF ArrivePlain, ArriveAuto, UnsetPriority, PinSource, record_arrival,
                    ClassifySkipped
    <2>2. CASE ClassifyTest(r) \/ ClassifyRead(r) \/ ClassifyApply(r) \/ state_of(r)
        BY <2>2 DEF ClassifyTest, ClassifyRead, ClassifyApply, state_of
    <2>3. ASSUME NEW h \in Headers, ArrivePinned(r, h) PROVE StagesReached'
        BY <2>3 DEF ArrivePinned
    <2> QED BY <1>1, <2>1, <2>2, <2>3 DEF Request
<1>2. ASSUME NEW p \in AdminPriorities, RegisterPriority(p) PROVE StagesReached'
    BY <1>2 DEF RegisterPriority
<1>3. CASE RegisterSource \/ Expire \/ CollectEntry \/ RemoveEntry \/ UNCHANGED vars
    BY <1>3 DEF RegisterSource, Expire, CollectEntry, RemoveEntry, vars
<1> QED BY <1>1, <1>2, <1>3 DEF Next

\* The part of the invariant that is about the writers' windows.
Settles == OverlapsMarked /\ LoneWriterSettles /\ PrioritySettled

\* The steps of a request.
LEMMA RequestSettles ==
    ASSUME PriorityInv, NEW r \in Requests, Request(r)
    PROVE  Settles'
<1> TypeOK /\ Entry /\ StagesReached /\ Settles
    BY EntryIsCadence DEF PriorityInv, Settles
<1> r \in Processes /\ r # Admin
    BY ProcessAssumption DEF Processes
<1> USE DEF flowVars, cadence, handlers, windows
<1>1. CASE ArrivePlain(r)
    <2>1. \A q \in Processes : pc'[q] = IF q = r THEN "record" ELSE pc[q]
        BY <1>1 DEF ArrivePlain, Goto, TypeOK
    <2>2. pc[r] = "idle"
        BY <1>1 DEF ArrivePlain, Goto
    <2>3. \A v : Classified(v)'
        BY <2>1 DEF Classified
    <2>4. UNCHANGED <<priority, priority_source, value, pinned, overlapped, raced>>
        BY <1>1 DEF ArrivePlain
    <2>5. \A q \in Processes : pc'[q] = pc[q] \/ {pc'[q], pc[q]} \cap Inside = {}
        BY <2>1, <2>2 DEF Inside
    <2> QED BY <2>3, <2>4, <2>5, QuietStep DEF Settles
<1>2. CASE record_arrival(r)
    <2>1. \A q \in Processes : pc'[q] = IF q = r THEN "test" ELSE pc[q]
        BY <1>2 DEF record_arrival, Goto, TypeOK
    <2>2. pc[r] = "record"
        BY <1>2 DEF record_arrival, Goto
    <2>3. \A v : Classified(v)'
        BY <2>1 DEF Classified
    <2>4. UNCHANGED <<priority, priority_source, value, pinned, overlapped, raced>>
        BY <1>2 DEF record_arrival
    <2>5. \A q \in Processes : pc'[q] = pc[q] \/ {pc'[q], pc[q]} \cap Inside = {}
        BY <2>1, <2>2 DEF Inside
    <2> QED BY <2>3, <2>4, <2>5, QuietStep DEF Settles
<1>3. CASE ClassifySkipped(r)
    <2>1. \A q \in Processes : pc'[q] = IF q = r THEN "report" ELSE pc[q]
        BY <1>3 DEF ClassifySkipped, Goto, TypeOK
    <2>2. pc[r] = "test"
        BY <1>3 DEF ClassifySkipped, Goto
    <2>3. ~(priority_source = 0 /\ Enabled)
        BY <1>3 DEF ClassifySkipped
    <2>4. UNCHANGED <<priority, priority_source, value, pinned, overlapped, raced>>
        BY <1>3 DEF ClassifySkipped
    <2>5. \A q \in Processes : pc'[q] = pc[q] \/ {pc'[q], pc[q]} \cap Inside = {}
        BY <2>1, <2>2 DEF Inside
    <2> QED BY <2>3, <2>4, <2>5, QuietStep DEF Settles
<1>4. CASE state_of(r)
    <2>1. \A q \in Processes : pc'[q] = IF q = r THEN "idle" ELSE pc[q]
        BY <1>4 DEF state_of, Goto, TypeOK
    <2>2. pc[r] = "report"
        BY <1>4 DEF state_of, Goto
    <2>3. \A v : Classified(v) => Classified(v)'
        <3>1. history' = history /\ (history # <<>> => state' = state)
            BY <1>4 DEF state_of, OrDefault, Entry
        <3>2. \A q \in Requests : pc[q] \in {"record", "test"} => pc'[q] = pc[q]
            BY <2>1, <2>2 DEF Processes
        <3> QED BY <3>1, <3>2 DEF Classified
    <2>4. UNCHANGED <<priority, priority_source, value, pinned, overlapped, raced>>
        BY <1>4 DEF state_of
    <2>5. \A q \in Processes : pc'[q] = pc[q] \/ {pc'[q], pc[q]} \cap Inside = {}
        BY <2>1, <2>2 DEF Inside
    <2> QED BY <2>3, <2>4, <2>5, QuietStep DEF Settles
<1>5. CASE ArriveAuto(r)
    <2>1. /\ OverlapsMarked' /\ ~NobodyInside'
          /\ \A q \in Processes \ overlapped' : pc'[q] \in Inside => q = r
        BY <1>5, OpenWindow DEF ArriveAuto, Goto, InWindow, Inside, Settles
    <2>2. pc'[r] = "unset" /\ priority_source' = 0
        BY <1>5 DEF ArriveAuto, Goto, TypeOK
    <2>3. LoneWriterSettles'
        BY <2>1, <2>2 DEF LoneWriterSettles, Inside
    <2> QED BY <2>1, <2>3 DEF Settles, PrioritySettled
<1>6. ASSUME NEW h \in Headers, ArrivePinned(r, h) PROVE Settles'
    <2>1. /\ OverlapsMarked' /\ ~NobodyInside'
          /\ \A q \in Processes \ overlapped' : pc'[q] \in Inside => q = r
        BY <1>6, OpenWindow DEF ArrivePinned, Goto, InWindow, Inside, Settles
    <2>2. pc'[r] = "pin" /\ priority' = pinned'
        BY <1>6 DEF ArrivePinned, Goto, TypeOK
    <2>3. LoneWriterSettles'
        BY <2>1, <2>2 DEF LoneWriterSettles, Inside
    <2> QED BY <2>1, <2>3 DEF Settles, PrioritySettled
<1>7. CASE ClassifyTest(r)
    <2>1. /\ OverlapsMarked' /\ ~NobodyInside'
          /\ \A q \in Processes \ overlapped' : pc'[q] \in Inside => q = r
        BY <1>7, OpenWindow DEF ClassifyTest, Goto, InWindow, Inside, Settles
    <2>2. pc'[r] = "read" /\ priority_source' = 0
        BY <1>7 DEF ClassifyTest, Goto, TypeOK
    <2>3. LoneWriterSettles'
        BY <2>1, <2>2 DEF LoneWriterSettles, Inside
    <2> QED BY <2>1, <2>3 DEF Settles, PrioritySettled
<1>8. CASE ClassifyRead(r)
    <2>1. \A q \in Processes : pc'[q] = IF q = r THEN "apply" ELSE pc[q]
        BY <1>8 DEF ClassifyRead, Goto, TypeOK
    <2>2. pc[r] = "read"
        BY <1>8 DEF ClassifyRead, Goto
    <2>3. UNCHANGED <<priority, priority_source, pinned, overlapped, raced>>
        BY <1>8 DEF ClassifyRead
    <2>4. \A q \in Processes : InWindow(q)' <=> InWindow(q)
        BY <2>1, <2>2 DEF InWindow
    <2>5. OverlapsMarked'
        BY <2>3, <2>4 DEF OverlapsMarked, Settles, TypeOK
    <2>6. ~NobodyInside'
        BY <2>1 DEF NobodyInside, InWindow
    <2>7. \A q \in Processes \ overlapped' : pc'[q] \in Inside => q = r
        BY <2>2, <2>3, <2>4 DEF OverlapsMarked, Settles, InWindow, Inside
    <2>8. Classified(value[r])'
        <3>1. value'[r] = PriorityOf(state')
            BY <1>8 DEF ClassifyRead, TypeOK
        <3> QED BY <3>1 DEF Classified
    <2>9. r \notin overlapped' => priority_source' = 0
        BY <2>2, <2>3 DEF LoneWriterSettles, Settles
    <2>10. LoneWriterSettles'
        BY <2>1, <2>7, <2>8, <2>9 DEF LoneWriterSettles, Inside
    <2> QED BY <2>5, <2>6, <2>10 DEF Settles, PrioritySettled
<1>9. CASE UnsetPriority(r)
    <2>1. OverlapsMarked' /\ LoneWriterSettles' /\ (~raced' => r \notin overlapped)
        BY <1>9, CloseWindow DEF UnsetPriority, Goto, InWindow, Inside, Settles, Stages
    <2>2. pc'[r] = "record" /\ pc[r] = "unset" /\ priority_source' = priority_source
        BY <1>9 DEF UnsetPriority, Goto, TypeOK
    <2>3. ~raced' => priority_source' = 0
        BY <2>1, <2>2 DEF LoneWriterSettles, Settles
    <2>4. \A v : Classified(v)'
        BY <2>2 DEF Classified
    <2> QED BY <2>1, <2>3, <2>4 DEF Settles, PrioritySettled
<1>10. CASE PinSource(r)
    <2>1. OverlapsMarked' /\ LoneWriterSettles' /\ (~raced' => r \notin overlapped)
        BY <1>10, CloseWindow DEF PinSource, Goto, InWindow, Inside, Settles, Stages
    <2>2. pc[r] = "pin" /\ priority_source' = 1 /\ UNCHANGED <<priority, pinned>>
        BY <1>10 DEF PinSource, Goto
    <2>3. ~raced' => priority' = pinned'
        BY <2>1, <2>2 DEF LoneWriterSettles, Settles
    <2> QED BY <2>1, <2>2, <2>3 DEF Settles, PrioritySettled
<1>11. CASE ClassifyApply(r)
    <2>1. OverlapsMarked' /\ LoneWriterSettles' /\ (~raced' => r \notin overlapped)
        BY <1>11, CloseWindow DEF ClassifyApply, Goto, InWindow, Inside, Settles, Stages
    <2>2. /\ pc[r] = "apply" /\ priority' = value[r]
          /\ UNCHANGED <<priority_source, state, history>>
          /\ \A q \in Processes : pc'[q] = IF q = r THEN "report" ELSE pc[q]
        BY <1>11 DEF ClassifyApply, Goto, TypeOK
    <2>3. ~raced' => priority_source' = 0 /\ Classified(value[r])
        BY <2>1, <2>2 DEF LoneWriterSettles, Settles
    <2>4. Classified(value[r]) => Classified(priority)'
        BY <2>2 DEF Classified, Processes
    <2> QED BY <2>1, <2>3, <2>4 DEF Settles, PrioritySettled
<1> QED BY <1>1, <1>2, <1>3, <1>4, <1>5, <1>6, <1>7, <1>8, <1>9, <1>10, <1>11 DEF Request

\* Nobody has written anything at first.
LEMMA PriorityInit == Init => PriorityInv
<1> SUFFICES ASSUME Init PROVE PriorityInv
    OBVIOUS
<1>1. CadenceInv
    BY EntryInit, TypeInit, EntryIsCadence
<1>2. \A p \in Processes : pc[p] = "idle" /\ ~InWindow(p)
    BY DEF Init, InWindow
<1>3. StagesReached
    BY <1>2 DEF StagesReached, Processes
<1>4. OverlapsMarked /\ LoneWriterSettles
    BY <1>2 DEF Init, OverlapsMarked, LoneWriterSettles
<1>5. PrioritySettled
    BY DEF Init, PrioritySettled, Classified
<1> QED BY <1>1, <1>3, <1>4, <1>5 DEF PriorityInv

\* Every step of a handler, of POST /flows and of the reaper keeps the invariant.
LEMMA PriorityStep == PriorityInv /\ [Next]_vars => PriorityInv'
<1> SUFFICES ASSUME PriorityInv, [Next]_vars PROVE PriorityInv'
    OBVIOUS
<1> TypeOK /\ Entry /\ StagesReached /\ Settles
    BY EntryIsCadence DEF PriorityInv, Settles
<1>1. CadenceInv'
    <2>1. TypeOK' /\ Entry'
        BY TypeStep, EntryStep
    <2> QED BY <2>1, EntryIsCadence, PTL
<1>2. StagesReached'
    BY StagesStep
<1>3. Settles'
    <2> Admin \in Processes
        BY DEF Processes
    <2> USE DEF flowVars, cadence, handlers, windows
    <2>1. ASSUME NEW r \in Requests, Request(r) PROVE Settles'
        BY <2>1, RequestSettles
    <2>2. ASSUME NEW p \in AdminPriorities, RegisterPriority(p) PROVE Settles'
        <3>1. /\ OverlapsMarked' /\ ~NobodyInside'
              /\ \A q \in Processes \ overlapped' : pc'[q] \in Inside => q = Admin
            BY <2>2, OpenWindow DEF RegisterPriority, Goto, InWindow, Inside, Settles
        <3>2. pc'[Admin] = "pin" /\ priority' = pinned'
            BY <2>2 DEF RegisterPriority, Goto, TypeOK
        <3>3. LoneWriterSettles'
            BY <3>1, <3>2 DEF LoneWriterSettles, Inside
        <3> QED BY <3>1, <3>3 DEF Settles, PrioritySettled
    <2>3. CASE RegisterSource
        <3>1. OverlapsMarked' /\ LoneWriterSettles' /\ (~raced' => Admin \notin overlapped)
            BY <2>3, CloseWindow DEF RegisterSource, Goto, InWindow, Inside, Settles, Stages
        <3>2. pc[Admin] = "pin" /\ priority_source' = 2 /\ UNCHANGED <<priority, pinned>>
            BY <2>3 DEF RegisterSource, Goto
        <3>3. ~raced' => priority' = pinned'
            BY <3>1, <3>2 DEF LoneWriterSettles, Settles
        <3> QED BY <3>1, <3>2, <3>3 DEF Settles, PrioritySettled
    <2>4. CASE Expire \/ CollectEntry \/ UNCHANGED vars
        <3>1. UNCHANGED <<priority, priority_source, value, pinned, overlapped, raced>>
            BY <2>4 DEF Expire, CollectEntry, vars
        <3>2. UNCHANGED <<pc, state, history>>
            BY <2>4 DEF Expire, CollectEntry, vars
        <3>3. \A v : Classified(v) => Classified(v)'
            BY <3>2 DEF Classified
        <3> QED BY <3>1, <3>2, <3>3, QuietStep DEF Settles
    <2>5. CASE RemoveEntry
        <3>1. UNCHANGED <<priority, priority_source, value, pinned, overlapped, raced, pc>>
            BY <2>5 DEF RemoveEntry
        <3>2. \A v : Classified(v)'
            BY <2>5 DEF RemoveEntry, Classified
        <3> QED BY <3>1, <3>2, QuietStep DEF Settles
    <2> QED BY <2>1, <2>2, <2>3, <2>4, <2>5 DEF Next
<1> QED BY <1>1, <1>2, <1>3 DEF PriorityInv, Settles

\* For any number of handlers: an override is never overwritten and a classification
\* never lost except by writers whose windows overlap, and the next writer that has
\* its window to itself repairs what they left.
THEOREM PriorityIsSettled == Spec => []PrioritySettled
<1>1. PriorityInv => PrioritySettled
    BY DEF PriorityInv
<1> QED BY <1>1, PriorityInit, PriorityStep, PTL DEF Spec
=============================================================================
