------------------------- MODULE RequestForwarding -------------------------
(***************************************************************************)
(* What happens to a request once it has its ticket and lifecycle guard:   *)
(* forwarding with transient re-forwards (src/src/gateway/proxy.rs), then  *)
(* one of three ways to relay the answer: the retry stream, a task of its  *)
(* own (src/src/gateway/stream.rs, spawn_retry_stream), the MetricStream,  *)
(* or a collected body.  One request against a backend that may answer     *)
(* anything, a client that may go away, a deadline and the stall signal.   *)
(* Backend responses are numbered; a frame is what classify_frame tells.   *)
(***************************************************************************)
EXTENDS Naturals, FiniteSets

CONSTANTS
    MaxRetries,     \* retry_policy.max_retries
    MaxTransient,   \* transient_retry.max_attempts
    HasTimeout      \* request_timeout is configured

ASSUME ForwardingAssumption ==
    /\ MaxRetries \in Nat \ {0} /\ MaxTransient \in Nat
    /\ HasTimeout \in BOOLEAN

VARIABLES
    gated,          \* premature-stop retry applies: enabled, chat; never changes
    parses,         \* the forwarded body parses as JSON; never changes
    phase,          \* where the handler, the task or the body stream is
    response,       \* number of the latest request sent to the backend
    resends,        \* `attempt` of transient_retry
    attempt,        \* premature-stop retries
    transient_attempt,
    saw,            \* saw_content \/ saw_tool_calls
    accepted,
    buffered,       \* the parser holds an incomplete frame
    late,           \* the attempt's deadline has passed
    stalled,        \* the stall signal
    gone,           \* the client has gone away
    completed,      \* LifecycleGuard.completed_normally
    body,           \* how the client's response ended
    answer,         \* the response that was accepted, 0 for none
    content_from,   \* the responses of which the client was sent complete content frames
    counted         \* the responses whose tokens were counted

config == <<gated, parses>>
env == <<stalled, gone>>
budgets == <<resends, attempt, transient_attempt>>
flags == <<saw, accepted, buffered, late>>
outcome == <<completed, body, answer, content_from, counted>>
vars == <<config, phase, response, budgets, flags, env, outcome>>

\* "sending" covers the first send and transient_retry's loop.  In the retry stream,
\* "reading" is the head of the read loop, "awaiting" its await, "frames" the loop
\* over a chunk's frames, and the two others await a send of their own.
StreamPhases == {"reading", "awaiting", "frames", "reforwarding", "retrying"}
HandlerPhases == {"sending", "polling", "collecting", "recollecting"}

\* classify_frame: "stop" stands for "stop" and "length", "other" for any other finish
\* reason; content stands for content and tool calls.
Frames == [error : BOOLEAN, done : BOOLEAN, content : BOOLEAN, usage : BOOLEAN,
           finish : {"None", "stop", "other"}]

\* The request ends; the ticket and the guard are dropped.
End(how) == phase' = "ended" /\ body' = how

\* Nothing but the request's end changes.
Stop(how) ==
    /\ End(how)
    /\ UNCHANGED <<config, response, budgets, flags, env, completed, answer,
                   content_from, counted>>

-----------------------------------------------------------------------------
(* proxy_handler: the first send and transient_retry *)

\* No error status: streaming or not, retry stream or not.
Answered ==
    /\ phase = "sending"
    /\ \/ phase' = (IF gated THEN "reading" ELSE "polling")
       \/ phase' = "collecting"
    /\ answer' = IF phase' = "polling" THEN response ELSE 0
    /\ UNCHANGED <<config, response, budgets, flags, env, completed, body,
                   content_from, counted>>

\* A transient llama.cpp error or network failure with attempts left: back off and
\* send the same body again.
Resend ==
    /\ phase = "sending"
    /\ resends < MaxTransient
    /\ resends' = resends + 1
    /\ response' = response + 1
    /\ UNCHANGED <<config, phase, attempt, transient_attempt, flags, env, outcome>>

\* build_error_response: a permanent error status, or a transient one too many.
ErrorStatus ==
    /\ phase = "sending"
    /\ End("error")
    /\ completed' = TRUE
    /\ UNCHANGED <<config, response, budgets, flags, env, answer, content_from, counted>>

\* A network error that is not transient or one too many, or a timeout.
SendFails ==
    /\ phase = "sending"
    /\ Stop("failed")

-----------------------------------------------------------------------------
(* spawn_retry_stream *)

\* The head of 'retry: fresh parser, flags and deadline.
NewAttempt ==
    /\ phase' = "reading"
    /\ saw' = FALSE /\ accepted' = FALSE /\ buffered' = FALSE /\ late' = FALSE

\* The task stops without an accepted terminal frame.
Abort == Stop(IF gone THEN "dropped" ELSE "aborted")

\* Mutant of Reforwards: content does not rule a re-forward out.
ReforwardsAnyway(seen) == transient_attempt < MaxTransient

\* A re-forward is still possible: nothing substantive seen, budget left.
Reforwards(seen) == ~seen /\ transient_attempt < MaxTransient

\* Mutant of Reforward: the attempt is not counted.
ReforwardUncounted ==
    /\ phase' = "reforwarding"
    /\ UNCHANGED <<config, response, budgets, flags, env, outcome>>

\* Back off and send the original request again.
Reforward ==
    /\ phase' = "reforwarding"
    /\ transient_attempt' = transient_attempt + 1
    /\ response' = response + 1
    /\ UNCHANGED <<config, resends, attempt, flags, env, outcome>>

\* Mutant of Finish: a stream that just ends is taken as complete.
FinishAlways(o) ==
    /\ End(IF gone THEN "dropped" ELSE "clean")
    /\ completed' = TRUE
    /\ UNCHANGED <<config, response, budgets, flags, env, answer, content_from, counted>>

\* The read loop is left with outcome o.
Finish(o) ==
    \/ /\ accepted
       /\ End(IF gone THEN "dropped" ELSE "clean")
       /\ completed' = TRUE
       /\ UNCHANGED <<config, response, budgets, flags, env, answer, content_from,
                      counted>>
    \/ /\ ~accepted /\ o = "Eof" /\ Reforwards(saw)
       /\ Reforward
    \/ /\ ~accepted /\ ~(o = "Eof" /\ Reforwards(saw))
       /\ Abort

\* First an incomplete frame is flushed, unclassified: its bytes are no content frame,
\* and the send finds out whether the client is gone.
LeaveLoop(o) == IF buffered /\ gone THEN Stop("dropped") ELSE Finish(o)

\* The head of the read loop looks at the stall signal.
CheckStall ==
    /\ phase = "reading"
    /\ \/ stalled /\ LeaveLoop("Stall")
       \/ /\ ~stalled
          /\ phase' = "awaiting"
          /\ UNCHANGED <<config, response, budgets, flags, env, outcome>>

\* A chunk: the deadline is looked at, then it is fed to the parser.
Chunk ==
    /\ phase = "awaiting"
    /\ \/ late /\ LeaveLoop("Deadline")
       \/ /\ ~late
          /\ phase' = "frames"
          /\ buffered' \in BOOLEAN
          /\ UNCHANGED <<config, response, budgets, saw, accepted, late, env, outcome>>

\* The stream ends, breaks, or runs into the HTTP client's own timeout.
StreamEnds ==
    /\ phase = "awaiting"
    /\ LeaveLoop("Eof")

ChunkDone ==
    /\ phase = "frames"
    /\ phase' = "reading"
    /\ UNCHANGED <<config, response, budgets, flags, env, outcome>>

\* tx.send of a frame of the current response, its usage counted; the task returns
\* if the client is gone.  count_and_forward_frame counts before it sends.
Forward(f) ==
    /\ counted' = IF f.usage THEN counted \union {response} ELSE counted
    /\ IF gone
       THEN End("dropped") /\ UNCHANGED content_from
       ELSE /\ content_from' = IF f.content THEN content_from \union {response}
                               ELSE content_from
            /\ UNCHANGED <<phase, body>>
    /\ UNCHANGED <<config, response, budgets, buffered, late, env, completed>>

Seen(f) == saw \/ f.content

\* After the terminal frame everything is forwarded.
ForwardAccepted(f) ==
    /\ accepted
    /\ Forward(f)
    /\ UNCHANGED <<saw, accepted, answer>>

\* An error event before anything substantive: the request is sent again.
Recoverable(f) == f.error /\ Reforwards(Seen(f))

ErrorFrame(f) ==
    /\ ~accepted /\ Recoverable(f)
    /\ Reforward

\* A degenerate stop: tell the client, bump the temperature, send again.
Premature(f) == f.finish = "stop" /\ ~Seen(f) /\ attempt < MaxRetries /\ parses

RetryPremature(f) ==
    /\ ~accepted /\ ~Recoverable(f) /\ Premature(f)
    /\ attempt' = attempt + 1
    /\ IF gone THEN End("dropped") /\ UNCHANGED response
       ELSE phase' = "retrying" /\ response' = response + 1 /\ UNCHANGED body
    /\ UNCHANGED <<config, resends, transient_attempt, flags, env, completed, answer,
                   content_from, counted>>

\* Any other terminal frame is accepted.
AcceptTerminal(f) ==
    /\ ~accepted /\ ~Recoverable(f) /\ f.finish # "None" /\ ~Premature(f)
    /\ Forward(f)
    /\ accepted' = TRUE /\ answer' = response
    /\ saw' = Seen(f)

\* Mutant of Held: usage that comes before the terminal frame is passed on.
HeldDone(f) == f.done

\* [DONE] and usage frames before the terminal frame are not forwarded.
Held(f) == f.done \/ f.usage

HoldFrame(f) ==
    /\ ~accepted /\ ~Recoverable(f) /\ f.finish = "None" /\ Held(f)
    /\ saw' = Seen(f)
    /\ UNCHANGED <<config, phase, response, budgets, accepted, buffered, late, env,
                   outcome>>

\* Deltas are forwarded live, and so is an error event that is not re-forwarded.
ForwardDelta(f) ==
    /\ ~accepted /\ ~Recoverable(f) /\ f.finish = "None" /\ ~Held(f)
    /\ Forward(f)
    /\ saw' = Seen(f)
    /\ UNCHANGED <<accepted, answer>>

Frame(f) ==
    /\ phase = "frames"
    /\ \/ ForwardAccepted(f) \/ ErrorFrame(f) \/ RetryPremature(f) \/ AcceptTerminal(f)
       \/ HoldFrame(f) \/ ForwardDelta(f)

\* The send of a re-forward or of a retry succeeds, or fails or times out.
Resent ==
    /\ phase \in {"reforwarding", "retrying"}
    /\ NewAttempt
    /\ UNCHANGED <<config, response, budgets, env, outcome>>

ResendFails ==
    /\ phase \in {"reforwarding", "retrying"}
    /\ Abort

-----------------------------------------------------------------------------
(* MetricStream and the collected body *)

\* A chunk passes through, with or without a token count in it.
PollChunk ==
    /\ phase = "polling" /\ ~late
    /\ content_from' = content_from \union {response}
    /\ counted' \in {counted, counted \union {response}}
    /\ UNCHANGED <<config, phase, response, budgets, flags, env, completed, body, answer>>

\* The deadline or an error: an Err item ends the body.
PollFails ==
    /\ phase = "polling"
    /\ Stop("aborted")

PollEnds ==
    /\ phase = "polling" /\ ~late
    /\ End("clean")
    /\ completed' = TRUE
    /\ UNCHANGED <<config, response, budgets, flags, env, answer, content_from, counted>>

\* The non-streaming answer n goes out: count, mark_completed, respond.
Respond(n) ==
    /\ End("clean")
    /\ completed' = TRUE /\ answer' = n
    /\ counted' \in {counted, counted \union {n}}
    /\ content_from' = content_from \union {n}
    /\ UNCHANGED <<config, response, budgets, flags, env>>

\* A body has been collected: is_premature_stop says whether to try again.
Collected ==
    /\ phase \in {"collecting", "recollecting"}
    /\ \/ Respond(response)
       \/ /\ gated /\ parses /\ attempt < MaxRetries
          /\ phase' = "recollecting"
          /\ attempt' = attempt + 1
          /\ response' = response + 1
          /\ UNCHANGED <<config, resends, transient_attempt, flags, env, outcome>>

\* The first body must arrive; a retry that fails leaves the last body.
CollectFails ==
    \/ phase = "collecting" /\ Stop("failed")
    \/ phase = "recollecting" /\ Respond(response - 1)

-----------------------------------------------------------------------------
(* Environment *)

\* A disconnect drops the handler's future or the body stream; the retry stream's
\* task only finds out when it sends.
Disconnect ==
    /\ ~gone /\ phase # "ended"
    /\ gone' = TRUE
    /\ IF phase \in HandlerPhases THEN End("dropped") ELSE UNCHANGED <<phase, body>>
    /\ UNCHANGED <<config, response, budgets, flags, stalled, completed, answer,
                   content_from, counted>>

DeadlinePasses ==
    /\ HasTimeout /\ ~late
    /\ phase \in {"reading", "awaiting", "frames", "polling"}
    /\ late' = TRUE
    /\ UNCHANGED <<config, phase, response, budgets, saw, accepted, buffered, env,
                   outcome>>

\* The monitor's signal (module BackendMonitor).
StallSignal ==
    /\ stalled' = ~stalled
    /\ UNCHANGED <<config, phase, response, budgets, flags, gone, outcome>>

Init ==
    /\ gated \in BOOLEAN /\ parses \in BOOLEAN
    /\ phase = "sending" /\ response = 1
    /\ resends = 0 /\ attempt = 0 /\ transient_attempt = 0
    /\ saw = FALSE /\ accepted = FALSE /\ buffered = FALSE /\ late = FALSE
    /\ stalled = FALSE /\ gone = FALSE
    /\ completed = FALSE /\ body = "open" /\ answer = 0
    /\ content_from = {} /\ counted = {}

Send == Answered \/ Resend \/ ErrorStatus \/ SendFails

Relay == \/ CheckStall \/ Chunk \/ StreamEnds \/ ChunkDone
         \/ (\E f \in Frames : Frame(f)) \/ Resent \/ ResendFails
         \/ PollChunk \/ PollFails \/ PollEnds \/ Collected \/ CollectFails

Next == Send \/ Relay \/ Disconnect \/ DeadlinePasses \/ StallSignal

Spec == Init /\ [][Next]_vars

\* Tasks run, and the HTTP client gives up on a response after 300 seconds however
\* many chunks have come; a chunk is finite.
Fairness ==
    /\ WF_vars(Send) /\ WF_vars(Relay)
    /\ WF_vars(ChunkDone)
    /\ SF_vars(StreamEnds) /\ SF_vars(PollFails \/ PollEnds)

FairSpec == Spec /\ Fairness

-----------------------------------------------------------------------------
(* Properties *)

\* "Re-forwarding would duplicate tokens": through re-forwards, premature-stop retries
\* and both budgets, the complete content frames the client is sent are of one response
\* only, and it is the accepted one if there is one.  The bytes of an incomplete frame,
\* flushed unclassified before a re-forward, are not seen by this property.
OneSourceOfContent ==
    /\ Cardinality(content_from) <= 1
    /\ answer # 0 => content_from \subseteq {answer}

\* "Token accounting only applies to the accepted attempt": no usage of an attempt that
\* was or will be discarded reaches the counter or the guard.
OnlyAcceptedCounted == counted \subseteq {answer}

\* The guard settles what the client saw: a truncated or failed response is never
\* charged as completed, and one that closed cleanly was accepted and is charged.
SettledAsSeen ==
    phase = "ended" =>
        /\ body \in {"aborted", "failed"} => ~completed
        /\ body \in {"clean", "error"} => completed
        /\ body = "clean" => answer # 0

\* The ticket comes back: the request ends although the backend may stay silent, end
\* its streams and ask for retries again and again, and nobody tells a retry stream
\* that its client has gone.
RequestEnds == <>(phase = "ended")
=============================================================================
