---------------------- MODULE RequestForwardingProofs ----------------------
(***************************************************************************)
(* Proofs about RequestForwarding: whatever the backend answers, however   *)
(* often it is asked again and whenever the client goes away, the client   *)
(* is sent content of one response, only the accepted response is counted, *)
(* and the guard settles what the client saw.                              *)
(***************************************************************************)
EXTENDS RequestForwarding, FiniteSetTheorems, TLAPS

Responses == Nat \ {0}
ReadLoop == {"reading", "awaiting", "frames"}

\* The types of what the properties depend on.
ForwardingTypes ==
    /\ phase \in StreamPhases \union HandlerPhases \union {"ended"}
    /\ response \in Responses
    /\ saw \in BOOLEAN /\ accepted \in BOOLEAN /\ completed \in BOOLEAN
    /\ answer \in Nat
    /\ content_from \in SUBSET Responses /\ counted \in SUBSET Responses

\* Nothing of any response has reached the client or the counters.
Untouched == content_from = {} /\ counted = {} /\ answer = 0

\* Before a relay path is chosen, and in the collected one, nothing goes out; nothing
\* has gone out either when the request is sent again.
NothingSentYet ==
    /\ phase \in HandlerPhases => ~saw /\ ~accepted
    /\ phase \in {"sending", "collecting", "recollecting", "reforwarding", "retrying"}
          => Untouched
    /\ phase = "recollecting" => response - 1 \in Responses

\* In the read loop, what went out is of the current response, and the flags of the
\* attempt remember it.
RelayedIsCurrent ==
    /\ phase \in ReadLoop => /\ answer = IF accepted THEN response ELSE 0
                             /\ content_from # {} => saw \/ accepted
    /\ phase = "polling" => answer = response
    /\ phase # "ended" => content_from \subseteq {response}

\* All content is of one response, the accepted one if there is one.
SingleSource ==
    \E n \in Responses : content_from \subseteq {n} /\ (answer # 0 => answer = n)

NotSettledYet == phase # "ended" => ~completed

\* The inductive invariant.
ForwardingInv ==
    /\ ForwardingTypes
    /\ NothingSentYet
    /\ RelayedIsCurrent
    /\ SingleSource
    /\ OnlyAcceptedCounted
    /\ NotSettledYet
    /\ SettledAsSeen

\* The initial state: the request has been sent, nothing else has happened.
LEMMA ForwardingInit == Init => ForwardingInv
<1> SUFFICES ASSUME Init PROVE ForwardingInv
    OBVIOUS
<1>1. ForwardingTypes
    <2>1. /\ phase \in HandlerPhases /\ response = 1 /\ answer = 0
          /\ content_from = {} /\ counted = {}
        BY DEF Init, HandlerPhases
    <2>2. saw \in BOOLEAN /\ accepted \in BOOLEAN /\ completed \in BOOLEAN
        BY DEF Init
    <2> QED BY <2>1, <2>2 DEF ForwardingTypes, Responses
<1>2. NothingSentYet /\ RelayedIsCurrent
    <2>1. phase = "sending" /\ ~saw /\ ~accepted /\ Untouched
        BY DEF Init, Untouched
    <2>2. NothingSentYet
        BY <2>1 DEF NothingSentYet
    <2>3. RelayedIsCurrent
        BY <2>1 DEF RelayedIsCurrent, Untouched, ReadLoop
    <2> QED BY <2>2, <2>3
<1>3. SingleSource
    BY <1>1 DEF Init, ForwardingTypes, SingleSource
<1>4. OnlyAcceptedCounted /\ NotSettledYet /\ SettledAsSeen
    BY DEF Init, OnlyAcceptedCounted, NotSettledYet, SettledAsSeen
<1> QED BY <1>1, <1>2, <1>3, <1>4 DEF ForwardingInv

\* The request ends with nothing more sent: the invariant is left with what concerns
\* the end itself.
LEMMA EndStep ==
    ASSUME ForwardingInv, NEW how, End(how), completed' \in BOOLEAN,
           UNCHANGED <<response, saw, accepted, answer, content_from, counted>>,
           how \in {"aborted", "failed"} => ~completed',
           how \in {"clean", "error"} => completed',
           how = "clean" => answer # 0
    PROVE  ForwardingInv'
<1>1. ForwardingTypes'
    BY DEF ForwardingInv, ForwardingTypes, End
<1>2. NothingSentYet' /\ RelayedIsCurrent' /\ NotSettledYet'
    BY DEF End, NothingSentYet, RelayedIsCurrent, NotSettledYet, ReadLoop, HandlerPhases
<1>3. SingleSource' /\ OnlyAcceptedCounted'
    BY DEF ForwardingInv, SingleSource, OnlyAcceptedCounted
<1>4. SettledAsSeen'
    BY DEF End, SettledAsSeen
<1> QED BY <1>1, <1>2, <1>3, <1>4 DEF ForwardingInv

\* An end that settles nothing: the guard stays uncompleted.
LEMMA StopStep ==
    ASSUME ForwardingInv, phase # "ended", NEW how \in {"failed", "aborted", "dropped"},
           Stop(how)
    PROVE  ForwardingInv'
<1>1. completed = FALSE /\ completed' = FALSE
    BY DEF ForwardingInv, ForwardingTypes, NotSettledYet, Stop
<1> QED BY <1>1, EndStep DEF Stop, flags

\* A re-forward is only made of an attempt that has sent nothing.
LEMMA ReforwardStep ==
    ASSUME ForwardingInv, phase \in ReadLoop, ~accepted, ~saw, Reforward
    PROVE  ForwardingInv'
<1>1. Untouched /\ UNCHANGED <<saw, accepted, answer, content_from, counted, completed, body>>
    <2>1. content_from = {} /\ answer = 0
        BY DEF ForwardingInv, RelayedIsCurrent
    <2>2. counted = {}
        BY <2>1 DEF ForwardingInv, ForwardingTypes, OnlyAcceptedCounted, Responses
    <2> QED BY <2>1, <2>2 DEF Untouched, Reforward, flags, outcome
<1>2. phase' = "reforwarding" /\ response' = response + 1
    BY DEF Reforward
<1>3. ForwardingTypes'
    BY <1>1, <1>2 DEF ForwardingInv, ForwardingTypes, StreamPhases, Responses
<1>4. NothingSentYet' /\ RelayedIsCurrent'
    BY <1>1, <1>2 DEF NothingSentYet, RelayedIsCurrent, Untouched, HandlerPhases, ReadLoop
<1>5. SingleSource' /\ OnlyAcceptedCounted' /\ SettledAsSeen'
    BY <1>1, <1>2 DEF SingleSource, OnlyAcceptedCounted, SettledAsSeen, Untouched, Responses
<1>6. NotSettledYet'
    BY <1>1 DEF ForwardingInv, NotSettledYet, ReadLoop
<1> QED BY <1>3, <1>4, <1>5, <1>6 DEF ForwardingInv

\* Leaving the read loop, whatever ended it.
LEMMA LeaveLoopStep ==
    ASSUME ForwardingInv, phase \in ReadLoop, NEW o, LeaveLoop(o)
    PROVE  ForwardingInv'
<1>0. phase # "ended"
    BY DEF ReadLoop
<1>1. CASE buffered /\ gone
    BY <1>0, <1>1, StopStep DEF LeaveLoop
<1>2. CASE ~(buffered /\ gone)
    <2>1. CASE /\ accepted
               /\ End(IF gone THEN "dropped" ELSE "clean")
               /\ completed' = TRUE
               /\ UNCHANGED <<config, response, budgets, flags, env, answer, content_from,
                              counted>>
        <3>1. answer # 0
            BY <2>1 DEF ForwardingInv, ForwardingTypes, RelayedIsCurrent, Responses
        <3> QED BY <2>1, <3>1, EndStep DEF flags
    <2>2. CASE ~accepted /\ o = "Eof" /\ Reforwards(saw) /\ Reforward
        BY <2>2, ReforwardStep DEF Reforwards
    <2>3. CASE ~accepted /\ ~(o = "Eof" /\ Reforwards(saw)) /\ Abort
        BY <1>0, <2>3, StopStep DEF Abort
    <2> QED BY <1>2, <2>1, <2>2, <2>3 DEF LeaveLoop, Finish
<1> QED BY <1>1, <1>2

\* A frame of the current response goes out.  Its usage may be counted only if the
\* response is accepted, and its content must be remembered.
LEMMA ForwardStep ==
    ASSUME ForwardingInv, phase = "frames", NEW f \in Frames, Forward(f),
           saw' \in BOOLEAN, accepted' \in BOOLEAN,
           answer' = IF accepted' THEN response ELSE 0,
           accepted => accepted',
           f.usage => accepted',
           saw \/ f.content => saw' \/ accepted'
    PROVE  ForwardingInv'
<1>1. /\ content_from' \subseteq {response}
      /\ content_from' # {} => saw' \/ accepted'
    <2>1. content_from \subseteq {response} /\ (content_from # {} => saw \/ accepted)
        BY DEF ForwardingInv, RelayedIsCurrent, ReadLoop
    <2>2. \/ content_from' = content_from
          \/ f.content /\ content_from' = content_from \union {response}
        BY DEF Forward
    <2> QED BY <2>1, <2>2
<1>2. counted' \subseteq {answer'} /\ counted' \subseteq Responses
    <2>1. counted \subseteq {answer} /\ counted \subseteq Responses /\ response \in Responses
        BY DEF ForwardingInv, ForwardingTypes, OnlyAcceptedCounted
    <2>2. answer = IF accepted THEN response ELSE 0
        BY DEF ForwardingInv, RelayedIsCurrent, ReadLoop
    <2>3. counted = {} \/ accepted
        BY <2>1, <2>2 DEF Responses
    <2>4. \/ counted' = counted
          \/ f.usage /\ counted' = counted \union {response}
        BY DEF Forward
    <2> QED BY <2>1, <2>2, <2>3, <2>4
<1>3. /\ phase' \in {"frames", "ended"}
      /\ phase' = "ended" => body' = "dropped"
      /\ response' = response /\ completed' = completed
    BY DEF Forward, End
<1>4. ForwardingTypes'
    BY <1>1, <1>2, <1>3 DEF ForwardingInv, ForwardingTypes, StreamPhases, Responses
<1>5. NothingSentYet' /\ RelayedIsCurrent'
    BY <1>1, <1>3 DEF NothingSentYet, RelayedIsCurrent, HandlerPhases, ReadLoop
<1>6. SingleSource'
    BY <1>1 DEF ForwardingInv, ForwardingTypes, SingleSource
<1>7. OnlyAcceptedCounted'
    BY <1>2 DEF OnlyAcceptedCounted
<1>8. NotSettledYet' /\ SettledAsSeen'
    BY <1>3 DEF ForwardingInv, NotSettledYet, SettledAsSeen
<1> QED BY <1>4, <1>5, <1>6, <1>7, <1>8 DEF ForwardingInv

\* The retry stream's handling of one classified frame.
LEMMA FrameStep ==
    ASSUME ForwardingInv, NEW f \in Frames, Frame(f)
    PROVE  ForwardingInv'
<1>0. /\ phase = "frames" /\ phase \in ReadLoop
      /\ saw \in BOOLEAN /\ accepted \in BOOLEAN
      /\ f.content \in BOOLEAN /\ f.usage \in BOOLEAN
      /\ answer = IF accepted THEN response ELSE 0
    BY DEF Frame, ForwardingInv, ForwardingTypes, RelayedIsCurrent, ReadLoop, Frames
<1>1. CASE ForwardAccepted(f)
    BY <1>0, <1>1, ForwardStep DEF ForwardAccepted
<1>2. CASE ErrorFrame(f)
    BY <1>0, <1>2, ReforwardStep DEF ErrorFrame, Recoverable, Reforwards, Seen
<1>3. CASE RetryPremature(f)
    <2>1. ~accepted /\ ~saw
        BY <1>3 DEF RetryPremature, Premature, Seen
    <2>2. CASE gone
        <3>1. completed = FALSE /\ completed' = FALSE
            BY <1>0, <1>3 DEF RetryPremature, ForwardingInv, ForwardingTypes, NotSettledYet
        <3> QED BY <1>3, <2>2, <3>1, EndStep DEF RetryPremature, flags
    <2>3. CASE ~gone
        <3>1. Untouched
            <4>1. content_from = {} /\ answer = 0
                BY <1>0, <2>1 DEF ForwardingInv, RelayedIsCurrent
            <4>2. counted = {}
                BY <4>1 DEF ForwardingInv, ForwardingTypes, OnlyAcceptedCounted, Responses
            <4> QED BY <4>1, <4>2 DEF Untouched
        <3>2. /\ phase' = "retrying" /\ response' = response + 1
              /\ UNCHANGED <<saw, accepted, answer, content_from, counted, completed, body>>
            BY <1>3, <2>3 DEF RetryPremature, flags
        <3>3. ForwardingTypes'
            BY <3>2 DEF ForwardingInv, ForwardingTypes, StreamPhases, Responses
        <3>4. NothingSentYet' /\ RelayedIsCurrent'
            BY <3>1, <3>2 DEF NothingSentYet, RelayedIsCurrent, Untouched, HandlerPhases,
                              ReadLoop
        <3>5. SingleSource' /\ OnlyAcceptedCounted' /\ SettledAsSeen'
            BY <3>1, <3>2 DEF SingleSource, OnlyAcceptedCounted, SettledAsSeen, Untouched,
                              Responses
        <3>6. NotSettledYet'
            BY <1>0, <3>2 DEF ForwardingInv, NotSettledYet
        <3> QED BY <3>3, <3>4, <3>5, <3>6 DEF ForwardingInv
    <2> QED BY <2>2, <2>3
<1>4. CASE AcceptTerminal(f)
    BY <1>0, <1>4, ForwardStep DEF AcceptTerminal, Seen
<1>5. CASE HoldFrame(f)
    <2>1. /\ UNCHANGED <<phase, response, accepted, completed, body, answer, content_from,
                         counted>>
          /\ saw' = (saw \/ f.content)
        BY <1>5 DEF HoldFrame, Seen, outcome
    <2>2. ForwardingTypes' /\ NotSettledYet' /\ SettledAsSeen' /\ OnlyAcceptedCounted'
        BY <1>0, <2>1 DEF ForwardingInv, ForwardingTypes, NotSettledYet, SettledAsSeen,
                          OnlyAcceptedCounted
    <2>3. NothingSentYet' /\ RelayedIsCurrent' /\ SingleSource'
        BY <1>0, <2>1 DEF ForwardingInv, NothingSentYet, RelayedIsCurrent, SingleSource,
                          HandlerPhases, ReadLoop
    <2> QED BY <2>2, <2>3 DEF ForwardingInv
<1>6. CASE ForwardDelta(f)
    BY <1>0, <1>6, ForwardStep DEF ForwardDelta, Seen, Held
<1> QED BY <1>1, <1>2, <1>3, <1>4, <1>5, <1>6 DEF Frame

\* Steps within the read loop, and of the environment, that touch nothing but the
\* phase of the loop.
LEMMA LoopStep ==
    ASSUME ForwardingInv, phase \in ReadLoop, phase' \in ReadLoop,
           UNCHANGED <<response, saw, accepted, outcome>>
    PROVE  ForwardingInv'
<1>1. UNCHANGED <<completed, body, answer, content_from, counted>>
    BY DEF outcome
<1>2. ForwardingTypes'
    BY <1>1 DEF ForwardingInv, ForwardingTypes, ReadLoop, StreamPhases
<1>3. NothingSentYet'
    BY DEF NothingSentYet, ReadLoop, HandlerPhases
<1>4. RelayedIsCurrent' /\ SingleSource' /\ OnlyAcceptedCounted'
    BY <1>1 DEF ForwardingInv, RelayedIsCurrent, SingleSource, OnlyAcceptedCounted, ReadLoop
<1>5. NotSettledYet' /\ SettledAsSeen'
    BY <1>1 DEF ForwardingInv, NotSettledYet, SettledAsSeen, ReadLoop
<1> QED BY <1>2, <1>3, <1>4, <1>5 DEF ForwardingInv

\* Steps that leave everything the invariant reads as it is.
LEMMA IdleStep ==
    ASSUME ForwardingInv, UNCHANGED <<phase, response, saw, accepted, outcome>>
    PROVE  ForwardingInv'
BY DEF ForwardingInv, ForwardingTypes, NothingSentYet, RelayedIsCurrent, SingleSource,
       OnlyAcceptedCounted, NotSettledYet, SettledAsSeen, Untouched, outcome

\* The collected answer n goes out as a whole.
LEMMA RespondStep ==
    ASSUME ForwardingInv, phase \in {"collecting", "recollecting"}, NEW n \in Responses,
           Respond(n)
    PROVE  ForwardingInv'
<1>1. content_from' = {n} /\ answer' = n /\ counted' \subseteq {n}
    BY DEF ForwardingInv, NothingSentYet, Untouched, Respond
<1>2. /\ phase' = "ended" /\ body' = "clean" /\ completed' = TRUE
      /\ UNCHANGED <<response, saw, accepted>>
    BY DEF Respond, End, flags
<1>3. ForwardingTypes'
    BY <1>1, <1>2 DEF ForwardingInv, ForwardingTypes, Responses
<1>4. NothingSentYet' /\ RelayedIsCurrent' /\ NotSettledYet'
    BY <1>2 DEF NothingSentYet, RelayedIsCurrent, NotSettledYet, ReadLoop, HandlerPhases
<1>5. SingleSource' /\ OnlyAcceptedCounted' /\ SettledAsSeen'
    BY <1>1, <1>2 DEF SingleSource, OnlyAcceptedCounted, SettledAsSeen, Responses
<1> QED BY <1>3, <1>4, <1>5 DEF ForwardingInv

\* The handler's send and transient_retry keep the invariant.
LEMMA SendStep ==
    ASSUME ForwardingInv, Send
    PROVE  ForwardingInv'
<1>0. phase = "sending" /\ Untouched /\ ~saw /\ ~accepted /\ ~completed
    BY DEF Send, Answered, Resend, ErrorStatus, SendFails, ForwardingInv, NothingSentYet,
           NotSettledYet, HandlerPhases
<1>1. CASE Answered
    <2>1. /\ phase' \in {"reading", "polling", "collecting"}
          /\ answer' = IF phase' = "polling" THEN response ELSE 0
          /\ UNCHANGED <<response, saw, accepted, completed, body, content_from, counted>>
        BY <1>1 DEF Answered, flags
    <2>2. ForwardingTypes'
        BY <2>1 DEF ForwardingInv, ForwardingTypes, StreamPhases, HandlerPhases, Responses
    <2>3. NothingSentYet' /\ RelayedIsCurrent'
        BY <1>0, <2>1 DEF NothingSentYet, RelayedIsCurrent, Untouched, HandlerPhases,
                          ReadLoop
    <2>4. SingleSource' /\ OnlyAcceptedCounted'
        BY <1>0, <2>1, <2>2 DEF SingleSource, OnlyAcceptedCounted, Untouched,
                                ForwardingTypes
    <2>5. NotSettledYet' /\ SettledAsSeen'
        BY <1>0, <2>1 DEF NotSettledYet, SettledAsSeen
    <2> QED BY <2>2, <2>3, <2>4, <2>5 DEF ForwardingInv
<1>2. CASE Resend
    <2>1. /\ phase' = "sending" /\ response' = response + 1
          /\ UNCHANGED <<saw, accepted, completed, body, answer, content_from, counted>>
        BY <1>0, <1>2 DEF Resend, flags, outcome
    <2>2. ForwardingTypes'
        BY <2>1 DEF ForwardingInv, ForwardingTypes, HandlerPhases, Responses
    <2>3. NothingSentYet' /\ RelayedIsCurrent'
        BY <1>0, <2>1 DEF NothingSentYet, RelayedIsCurrent, Untouched, HandlerPhases,
                          ReadLoop
    <2>4. SingleSource' /\ OnlyAcceptedCounted' /\ NotSettledYet' /\ SettledAsSeen'
        BY <1>0, <2>1 DEF SingleSource, OnlyAcceptedCounted, NotSettledYet, SettledAsSeen,
                          Untouched, Responses
    <2> QED BY <2>2, <2>3, <2>4 DEF ForwardingInv
<1>3. CASE ErrorStatus
    BY <1>3, EndStep DEF ErrorStatus, flags
<1>4. CASE SendFails
    BY <1>0, <1>4, StopStep DEF SendFails
<1> QED BY <1>1, <1>2, <1>3, <1>4 DEF Send

\* A re-forward or retry got its response: a fresh attempt of the read loop.
LEMMA ResentStep ==
    ASSUME ForwardingInv, Resent
    PROVE  ForwardingInv'
<1>1. Untouched /\ phase # "ended" /\ ~completed
    BY DEF Resent, ForwardingInv, NothingSentYet, NotSettledYet
<1>2. /\ phase' = "reading" /\ saw' = FALSE /\ accepted' = FALSE
      /\ UNCHANGED <<response, completed, body, answer, content_from, counted>>
    BY DEF Resent, NewAttempt, outcome
<1>3. ForwardingTypes'
    BY <1>2 DEF ForwardingInv, ForwardingTypes, StreamPhases
<1>4. NothingSentYet' /\ RelayedIsCurrent'
    BY <1>1, <1>2 DEF NothingSentYet, RelayedIsCurrent, Untouched, HandlerPhases, ReadLoop
<1>5. SingleSource' /\ OnlyAcceptedCounted' /\ NotSettledYet' /\ SettledAsSeen'
    BY <1>1, <1>2 DEF SingleSource, OnlyAcceptedCounted, NotSettledYet, SettledAsSeen,
                      Untouched, Responses
<1> QED BY <1>3, <1>4, <1>5 DEF ForwardingInv

\* A chunk of the MetricStream passes through.
LEMMA PollChunkStep ==
    ASSUME ForwardingInv, PollChunk
    PROVE  ForwardingInv'
<1>1. /\ phase = "polling" /\ answer = response /\ response \in Responses
      /\ content_from \subseteq {response} /\ counted \subseteq {response} /\ ~completed
    BY DEF PollChunk, ForwardingInv, ForwardingTypes, RelayedIsCurrent, OnlyAcceptedCounted,
           NotSettledYet
<1>2. /\ content_from' = {response} /\ counted' \subseteq {response}
      /\ UNCHANGED <<phase, response, saw, accepted, completed, body, answer>>
    BY <1>1 DEF PollChunk, flags
<1>3. ForwardingTypes'
    BY <1>1, <1>2 DEF ForwardingInv, ForwardingTypes
<1>4. NothingSentYet' /\ RelayedIsCurrent'
    BY <1>1, <1>2 DEF ForwardingInv, NothingSentYet, RelayedIsCurrent, HandlerPhases,
                      ReadLoop
<1>5. SingleSource' /\ OnlyAcceptedCounted' /\ NotSettledYet' /\ SettledAsSeen'
    BY <1>1, <1>2 DEF SingleSource, OnlyAcceptedCounted, NotSettledYet, SettledAsSeen
<1> QED BY <1>3, <1>4, <1>5 DEF ForwardingInv

\* A premature answer was collected: it is kept back and the request is sent again.
LEMMA CollectedStep ==
    ASSUME ForwardingInv, Collected
    PROVE  ForwardingInv'
<1>0. phase \in {"collecting", "recollecting"} /\ response \in Responses
    BY DEF Collected, ForwardingInv, ForwardingTypes
<1>1. CASE Respond(response)
    BY <1>0, <1>1, RespondStep
<1>2. CASE ~Respond(response)
    <2>1. /\ phase' = "recollecting" /\ response' = response + 1
          /\ UNCHANGED <<saw, accepted, completed, body, answer, content_from, counted>>
        BY <1>2 DEF Collected, flags, outcome
    <2>2. Untouched /\ ~saw /\ ~accepted /\ ~completed
        BY <1>0 DEF ForwardingInv, NothingSentYet, NotSettledYet, HandlerPhases
    <2>3. ForwardingTypes'
        BY <2>1 DEF ForwardingInv, ForwardingTypes, HandlerPhases, Responses
    <2>4. response' - 1 \in Responses
        BY <1>0, <2>1 DEF Responses
    <2>5. NothingSentYet' /\ RelayedIsCurrent'
        BY <2>1, <2>2, <2>4 DEF NothingSentYet, RelayedIsCurrent, Untouched, HandlerPhases,
                          ReadLoop
    <2>6. SingleSource' /\ OnlyAcceptedCounted' /\ NotSettledYet' /\ SettledAsSeen'
        BY <2>1, <2>2 DEF SingleSource, OnlyAcceptedCounted, NotSettledYet, SettledAsSeen,
                          Untouched, Responses
    <2> QED BY <2>3, <2>5, <2>6 DEF ForwardingInv
<1> QED BY <1>1, <1>2

\* Every step of a relay keeps the invariant.
LEMMA RelayStep ==
    ASSUME ForwardingInv, Relay
    PROVE  ForwardingInv'
<1>1. CASE CheckStall
    <2>1. phase \in ReadLoop
        BY <1>1 DEF CheckStall, ReadLoop
    <2>2. CASE stalled /\ LeaveLoop("Stall")
        BY <2>1, <2>2, LeaveLoopStep
    <2>3. CASE ~(stalled /\ LeaveLoop("Stall"))
        BY <1>1, <2>1, <2>3, LoopStep DEF CheckStall, ReadLoop, flags
    <2> QED BY <2>2, <2>3
<1>2. CASE Chunk
    <2>1. phase \in ReadLoop
        BY <1>2 DEF Chunk, ReadLoop
    <2>2. CASE late /\ LeaveLoop("Deadline")
        BY <2>1, <2>2, LeaveLoopStep
    <2>3. CASE ~(late /\ LeaveLoop("Deadline"))
        BY <1>2, <2>1, <2>3, LoopStep DEF Chunk, ReadLoop
    <2> QED BY <2>2, <2>3
<1>3. CASE StreamEnds
    BY <1>3, LeaveLoopStep DEF StreamEnds, ReadLoop
<1>4. CASE ChunkDone
    BY <1>4, LoopStep DEF ChunkDone, ReadLoop, flags
<1>5. CASE \E f \in Frames : Frame(f)
    BY <1>5, FrameStep
<1>6. CASE Resent
    BY <1>6, ResentStep
<1>7. CASE ResendFails
    BY <1>7, StopStep DEF ResendFails, Abort
<1>8. CASE PollChunk
    BY <1>8, PollChunkStep
<1>9. CASE PollFails
    BY <1>9, StopStep DEF PollFails
<1>10. CASE PollEnds
    <2>1. answer # 0
        BY <1>10 DEF PollEnds, ForwardingInv, ForwardingTypes, RelayedIsCurrent, Responses
    <2> QED BY <1>10, <2>1, EndStep DEF PollEnds, flags
<1>11. CASE Collected
    BY <1>11, CollectedStep
<1>12. CASE CollectFails
    <2>1. CASE phase = "collecting" /\ Stop("failed")
        BY <2>1, StopStep
    <2>2. CASE phase = "recollecting" /\ Respond(response - 1)
        BY <2>2, RespondStep DEF ForwardingInv, NothingSentYet
    <2> QED BY <1>12, <2>1, <2>2 DEF CollectFails
<1> QED BY <1>1, <1>2, <1>3, <1>4, <1>5, <1>6, <1>7, <1>8, <1>9, <1>10, <1>11, <1>12
        DEF Relay

\* A disconnect drops the handler's future, or leaves the task of a retry stream alone.
LEMMA DisconnectStep ==
    ASSUME ForwardingInv, Disconnect
    PROVE  ForwardingInv'
<1>1. /\ phase # "ended" /\ completed = FALSE
      /\ UNCHANGED <<response, saw, accepted, completed, answer, content_from, counted>>
    BY DEF Disconnect, ForwardingInv, ForwardingTypes, NotSettledYet, flags
<1>2. CASE phase \in HandlerPhases
    BY <1>1, <1>2, EndStep DEF Disconnect
<1>3. CASE phase \notin HandlerPhases
    BY <1>1, <1>3, IdleStep DEF Disconnect, outcome
<1> QED BY <1>2, <1>3

\* The invariant holds in every reachable state, for every budget of retries.
THEOREM ForwardingInvariance == Spec => []ForwardingInv
<1>1. ForwardingInv /\ [Next]_vars => ForwardingInv'
    <2> SUFFICES ASSUME ForwardingInv, [Next]_vars PROVE ForwardingInv'
        OBVIOUS
    <2>1. CASE DeadlinePasses
        BY <2>1, IdleStep DEF DeadlinePasses
    <2>2. CASE StallSignal \/ UNCHANGED vars
        BY <2>2, IdleStep DEF StallSignal, vars, flags
    <2> QED BY <2>1, <2>2, SendStep, RelayStep, DisconnectStep DEF Next
<1> QED BY <1>1, ForwardingInit, PTL DEF Spec

\* Through re-forwards and retries with any budgets the client is sent content of one
\* response, and of the accepted one if there is one.
THEOREM ContentHasOneSource == Spec => []OneSourceOfContent
<1>1. ForwardingInv => OneSourceOfContent
    <2> SUFFICES ASSUME ForwardingInv PROVE OneSourceOfContent
        OBVIOUS
    <2>1. PICK n \in Responses : content_from \subseteq {n} /\ (answer # 0 => answer = n)
        BY DEF ForwardingInv, SingleSource
    <2>2. Cardinality(content_from) <= 1
        <3>1. content_from = {} \/ content_from = {n}
            BY <2>1
        <3>2. Cardinality({}) = 0 /\ Cardinality({n}) = 1
            BY FS_EmptySet, FS_Singleton
        <3> QED BY <3>1, <3>2
    <2> QED BY <2>1, <2>2 DEF OneSourceOfContent
<1> QED BY <1>1, ForwardingInvariance, PTL

\* No usage of a response that was or will be discarded is counted.
THEOREM CountsAreAccepted == Spec => []OnlyAcceptedCounted
<1>1. ForwardingInv => OnlyAcceptedCounted
    BY DEF ForwardingInv
<1> QED BY <1>1, ForwardingInvariance, PTL

\* The guard is marked completed exactly as the response ended for the client.
THEOREM GuardSettlesAsSeen == Spec => []SettledAsSeen
<1>1. ForwardingInv => SettledAsSeen
    BY DEF ForwardingInv
<1> QED BY <1>1, ForwardingInvariance, PTL
=============================================================================
