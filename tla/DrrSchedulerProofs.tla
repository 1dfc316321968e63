------------------------- MODULE DrrSchedulerProofs -------------------------
(* Machine-checked proofs about DrrScheduler, for every workload, weight,   *)
(* priority, threshold and permit budget.                                   *)
EXTENDS DrrFairness, FiniteSetTheorems, SequenceTheorems,
        WellFoundedInduction, TLAPS

-----------------------------------------------------------------------------
(* Lemmas about Without and about the cap *)

\* Taking the entry at position i out of a sequence closes the gap it leaves.
LEMMA RemovedAtProperties ==
    ASSUME NEW S, NEW s \in Seq(S), NEW i \in 1..Len(s)
    PROVE  /\ RemovedAt(s, i) \in Seq(S)
           /\ Len(RemovedAt(s, i)) = Len(s) - 1
           /\ \A k \in 1..(Len(s) - 1) :
                 RemovedAt(s, i)[k] = IF k < i THEN s[k] ELSE s[k + 1]
<1> DEFINE a == SubSeq(s, 1, i - 1)
           b == SubSeq(s, i + 1, Len(s))
<1>1. /\ a \in Seq(S) /\ Len(a) = i - 1
      /\ \A k \in 1..(i - 1) : a[k] = s[k]
    BY LenProperties
<1>2. /\ b \in Seq(S) /\ Len(b) = Len(s) - i
      /\ \A k \in 1..(Len(s) - i) : b[k] = s[i + k]
    BY LenProperties
<1>3. RemovedAt(s, i) = a \o b
    BY DEF RemovedAt
<1> HIDE DEF a, b
<1>4. /\ a \o b \in Seq(S)
      /\ Len(a \o b) = Len(a) + Len(b)
      /\ \A k \in 1..(Len(a) + Len(b)) :
            (a \o b)[k] = IF k <= Len(a) THEN a[k] ELSE b[k - Len(a)]
    BY <1>1, <1>2, ConcatProperties
<1>5. Len(s) \in Nat
    BY LenProperties
<1>6. Len(a \o b) = Len(s) - 1
    BY <1>1, <1>2, <1>4, <1>5
<1>7. ASSUME NEW k \in 1..(Len(s) - 1)
      PROVE  (a \o b)[k] = IF k < i THEN s[k] ELSE s[k + 1]
    <2>1. CASE k < i
        BY <1>1, <1>2, <1>4, <1>5, <2>1
    <2>2. CASE ~(k < i)
        <3>1. (a \o b)[k] = b[k - (i - 1)]
            BY <1>1, <1>2, <1>4, <1>5, <2>2
        <3>2. k - (i - 1) \in 1..(Len(s) - i) /\ i + (k - (i - 1)) = k + 1
            BY <1>5, <2>2
        <3> QED BY <1>2, <2>2, <3>1, <3>2
    <2> QED BY <2>1, <2>2
<1> QED BY <1>3, <1>4, <1>6, <1>7

\* Removing x from a sequence that holds it closes the gap it leaves.
LEMMA WithoutAt ==
    ASSUME NEW S, NEW s \in Seq(S), NEW x \in Range(s)
    PROVE  \E i \in 1..Len(s) :
              /\ s[i] = x
              /\ Without(s, x) \in Seq(S)
              /\ Len(Without(s, x)) = Len(s) - 1
              /\ \A k \in 1..(Len(s) - 1) :
                    Without(s, x)[k] = IF k < i THEN s[k] ELSE s[k + 1]
<1> DEFINE i == CHOOSE j \in DOMAIN s : s[j] = x
<1>1. i \in 1..Len(s) /\ s[i] = x
    <2>1. \E j \in DOMAIN s : s[j] = x
        BY DEF Range
    <2>2. i \in DOMAIN s /\ s[i] = x
        BY <2>1
    <2> QED BY <2>2, LenProperties
<1>2. Without(s, x) = RemovedAt(s, i)
    BY DEF Without
<1> HIDE DEF i
<1> QED BY <1>1, <1>2, RemovedAtProperties

\* Removal keeps a sequence a sequence over the same set.
LEMMA WithoutType ==
    ASSUME NEW S, NEW s \in Seq(S), NEW x
    PROVE  Without(s, x) \in Seq(S)
<1>1. CASE x \in Range(s)
    BY <1>1, WithoutAt
<1>2. CASE x \notin Range(s)
    BY <1>2 DEF Without
<1> QED BY <1>1, <1>2

\* On a sequence without repetitions removal takes away exactly x and creates
\* no repetition.
LEMMA WithoutElements ==
    ASSUME NEW S, NEW s \in Seq(S), NEW x, IsInjective(s)
    PROVE  /\ Range(Without(s, x)) = Range(s) \ {x}
           /\ IsInjective(Without(s, x))
<1> DEFINE w == Without(s, x)
<1>1. CASE x \notin Range(s)
    BY <1>1 DEF Without
<1>2. CASE x \in Range(s)
    <2>1. PICK i \in 1..Len(s) :
              /\ s[i] = x
              /\ w \in Seq(S)
              /\ Len(w) = Len(s) - 1
              /\ \A k \in 1..(Len(s) - 1) : w[k] = IF k < i THEN s[k] ELSE s[k + 1]
        BY <1>2, WithoutAt
    <2> HIDE DEF w
    <2>2. DOMAIN w = 1..(Len(s) - 1) /\ DOMAIN s = 1..Len(s) /\ Len(s) \in Nat
        BY <2>1, LenProperties
    <2>3. Range(w) \subseteq Range(s) \ {x}
        BY <2>1, <2>2 DEF Range, IsInjective
    <2>4. ASSUME NEW y \in Range(s) \ {x}
          PROVE  y \in Range(w)
        <3>1. PICK j \in 1..Len(s) : s[j] = y
            BY <2>2 DEF Range
        <3>2. CASE j < i
            <4>1. j \in DOMAIN w /\ w[j] = y
                BY <2>1, <2>2, <3>1, <3>2
            <4> QED BY <4>1 DEF Range
        <3>3. CASE j > i
            <4>1. j - 1 \in DOMAIN w /\ w[j - 1] = y
                BY <2>1, <2>2, <3>1, <3>3
            <4> QED BY <4>1 DEF Range
        <3>4. j # i
            BY <2>1, <2>4, <3>1
        <3> QED BY <3>2, <3>3, <3>4
    <2>5. IsInjective(w)
        <3> SUFFICES ASSUME NEW p \in DOMAIN w, NEW q \in DOMAIN w, w[p] = w[q]
                     PROVE  p = q
            BY DEF IsInjective
        <3> DEFINE up(k) == IF k < i THEN k ELSE k + 1
        <3>1. s[up(p)] = s[up(q)] /\ up(p) \in DOMAIN s /\ up(q) \in DOMAIN s
            BY <2>1, <2>2
        <3>2. up(p) = up(q)
            BY <3>1 DEF IsInjective
        <3> QED BY <2>2, <3>2
    <2> QED BY <2>3, <2>4, <2>5 DEF w
<1> QED BY <1>1, <1>2

\* A non-empty set of naturals has a least element.
LEMMA LeastExists ==
    ASSUME NEW T, T \subseteq Nat, T # {}
    PROVE  \E c \in T : \A d \in T : c <= d
<1>1. PICK c \in T : \A d \in T : ~(<<d, c>> \in OpToRel(<, Nat))
    BY WFMin, NatLessThanWellFounded
<1>2. \A d \in T : ~(d < c)
    BY <1>1 DEF OpToRel
<1> QED BY <1>2

\* The first entry equal to x exists, and it is the one that goes.
LEMMA WithoutFirstAt ==
    ASSUME NEW S, NEW s \in Seq(S), NEW x \in Range(s)
    PROVE  \E i \in 1..Len(s) :
              /\ s[i] = x
              /\ WithoutFirst(s, x) \in Seq(S)
              /\ Len(WithoutFirst(s, x)) = Len(s) - 1
              /\ \A k \in 1..(Len(s) - 1) :
                    WithoutFirst(s, x)[k] = IF k < i THEN s[k] ELSE s[k + 1]
<1> DEFINE P(j) == s[j] = x /\ \A k \in 1..(j - 1) : s[k] # x
           T == {j \in DOMAIN s : s[j] = x}
           i == CHOOSE j \in DOMAIN s : P(j)
<1>1. DOMAIN s = 1..Len(s) /\ Len(s) \in Nat
    BY LenProperties
<1>2. PICK c \in T : \A d \in T : c <= d
    <2>1. T # {} /\ T \subseteq Nat
        BY <1>1 DEF Range
    <2> HIDE DEF T
    <2> QED BY <2>1, LeastExists
<1>3. c \in DOMAIN s /\ P(c)
    BY <1>1, <1>2
<1>4. i \in DOMAIN s /\ P(i)
    <2> HIDE DEF P
    <2> QED BY <1>3
<1>5. WithoutFirst(s, x) = RemovedAt(s, i)
    BY DEF WithoutFirst
<1>6. i \in 1..Len(s) /\ s[i] = x
    BY <1>1, <1>4
<1> HIDE DEF i
<1> QED BY <1>5, <1>6, RemovedAtProperties

\* Removing the first entry keeps a sequence a sequence over the same set.
LEMMA WithoutFirstType ==
    ASSUME NEW S, NEW s \in Seq(S), NEW x
    PROVE  WithoutFirst(s, x) \in Seq(S)
<1>1. CASE x \in Range(s)
    BY <1>1, WithoutFirstAt
<1>2. CASE x \notin Range(s)
    BY <1>2 DEF WithoutFirst
<1> QED BY <1>1, <1>2

\* The cap the loop works with is a number of permits of the pool: it is at
\* least one, so pressure alone never closes admission, and at most the budget.
LEMMA EffectiveMaxRange ==
    ASSUME NEW p
    PROVE  effective_max(p) \in 1..MaxPermits
<1> DEFINE m == {t.max_flows : t \in {u \in Thresholds : p >= u.at}}
                   \union {MaxPermits}
<1>1. m \subseteq 1..MaxPermits /\ m # {}
    BY ConfigAssumption
<1>2. \E c \in m : \A d \in m : c <= d
    <2>1. m \subseteq Nat
        BY <1>1, ConfigAssumption
    <2> HIDE DEF m
    <2> QED BY <1>1, <2>1, LeastExists
<1> QED BY <1>1, <1>2 DEF effective_max

-----------------------------------------------------------------------------
(* The inductive invariant *)

\* The requests counted in a flow's depth.
GuardsOf(f) == {r \in Requests : FlowOf[r] = f /\ Guarded(r)}

\* Sets of requests are finite, so their cardinalities are naturals.
LEMMA RequestSetsFinite ==
    ASSUME NEW T, T \subseteq Requests
    PROVE  IsFiniteSet(T) /\ Cardinality(T) \in Nat
BY FS_Subset, FS_CardinalityType, WorkloadAssumption

\* A step that leaves the permits out and the pool alone keeps the balance.
LEMMA PermitsUntouched ==
    ASSUME PermitConservation, Holders' = Holders, UNCHANGED available_permits
    PROVE  PermitConservation'
BY DEF PermitConservation

\* Handing out a permit that nobody holds moves it from the pool to its holder.
LEMMA PermitTaken ==
    ASSUME PermitConservation, TypeOK,
           NEW r \in Requests, r \notin Holders, Holders' = Holders \union {r},
           available_permits' = available_permits - 1
    PROVE  PermitConservation'
<1>1. IsFiniteSet(Holders) /\ Cardinality(Holders) \in Nat
    BY RequestSetsFinite DEF Holders
<1>2. Cardinality(Holders \union {r}) = Cardinality(Holders) + 1
    BY <1>1, FS_AddElement
<1> QED BY <1>1, <1>2, ConfigAssumption DEF PermitConservation, TypeOK

\* Giving a permit back moves it from its holder to the pool.
LEMMA PermitGivenBack ==
    ASSUME PermitConservation, TypeOK,
           NEW r \in Requests, r \in Holders, Holders' = Holders \ {r},
           available_permits' = available_permits + 1
    PROVE  PermitConservation' /\ available_permits' \in 0..MaxPermits
<1>1. IsFiniteSet(Holders) /\ Cardinality(Holders) \in Nat
    BY RequestSetsFinite DEF Holders
<1>2. /\ Cardinality(Holders \ {r}) = Cardinality(Holders) - 1
      /\ Cardinality(Holders \ {r}) \in Nat
    BY <1>1, FS_RemoveElement, FS_CardinalityType
<1> QED BY <1>1, <1>2, ConfigAssumption DEF PermitConservation, TypeOK

\* A step that neither opens nor closes an admission guard keeps every depth.
LEMMA DepthsUntouched ==
    ASSUME DepthExact, UNCHANGED depth,
           \A r \in Requests : Guarded(r)' <=> Guarded(r)
    PROVE  DepthExact'
<1>1. \A f \in Flows : GuardsOf(f)' = GuardsOf(f)
    BY DEF GuardsOf
<1> QED BY <1>1 DEF DepthExact, GuardsOf

\* Opening one guard raises its own flow's depth and no other.
LEMMA GuardOpened ==
    ASSUME DepthExact, TypeOK, NEW r \in Requests,
           ~Guarded(r), Guarded(r)',
           \A q \in Requests \ {r} : Guarded(q)' <=> Guarded(q),
           depth' = [depth EXCEPT ![FlowOf[r]] = @ + 1]
    PROVE  DepthExact' /\ depth' \in [Flows -> Nat]
<1> FlowOf[r] \in Flows
    BY WorkloadAssumption
<1> SUFFICES ASSUME NEW f \in Flows
             PROVE  depth'[f] = Cardinality(GuardsOf(f)')
    BY DEF DepthExact, GuardsOf, TypeOK
<1>1. IsFiniteSet(GuardsOf(f)) /\ depth[f] = Cardinality(GuardsOf(f))
    BY RequestSetsFinite DEF GuardsOf, DepthExact
<1>2. CASE f = FlowOf[r]
    <2>1. GuardsOf(f)' = GuardsOf(f) \union {r} /\ r \notin GuardsOf(f)
        BY <1>2 DEF GuardsOf
    <2>2. Cardinality(GuardsOf(f)') = Cardinality(GuardsOf(f)) + 1
        BY <1>1, <2>1, FS_AddElement
    <2> QED BY <1>1, <1>2, <2>2 DEF TypeOK
<1>3. CASE f # FlowOf[r]
    <2>1. GuardsOf(f)' = GuardsOf(f)
        BY <1>3 DEF GuardsOf
    <2> QED BY <1>1, <1>3, <2>1 DEF TypeOK
<1> QED BY <1>2, <1>3

\* Closing one guard lowers its own flow's depth, which was positive.
LEMMA GuardClosed ==
    ASSUME DepthExact, TypeOK, NEW r \in Requests,
           Guarded(r), ~Guarded(r)',
           \A q \in Requests \ {r} : Guarded(q)' <=> Guarded(q),
           depth' = [depth EXCEPT ![FlowOf[r]] = @ - 1]
    PROVE  DepthExact' /\ depth' \in [Flows -> Nat]
<1> FlowOf[r] \in Flows
    BY WorkloadAssumption
<1> SUFFICES ASSUME NEW f \in Flows
             PROVE  depth'[f] = Cardinality(GuardsOf(f)') /\ depth'[f] \in Nat
    BY DEF DepthExact, GuardsOf, TypeOK
<1>1. IsFiniteSet(GuardsOf(f)) /\ depth[f] = Cardinality(GuardsOf(f))
    BY RequestSetsFinite DEF GuardsOf, DepthExact
<1>2. CASE f = FlowOf[r]
    <2>1. GuardsOf(f)' = GuardsOf(f) \ {r} /\ r \in GuardsOf(f)
        BY <1>2 DEF GuardsOf
    <2>2. /\ Cardinality(GuardsOf(f)') = Cardinality(GuardsOf(f)) - 1
          /\ Cardinality(GuardsOf(f)') \in Nat
        BY <1>1, <2>1, FS_RemoveElement, FS_CardinalityType
    <2> QED BY <1>1, <1>2, <2>2 DEF TypeOK
<1>3. CASE f # FlowOf[r]
    <2>1. GuardsOf(f)' = GuardsOf(f)
        BY <1>3 DEF GuardsOf
    <2> QED BY <1>1, <1>3, <2>1 DEF TypeOK
<1> QED BY <1>2, <1>3

\* Steps that only move the loop's or the environment's own variables.
LEMMA FrameStep ==
    ASSUME IInv, TypeOK', (loop = "granting") <=> (loop' = "granting"),
           UNCHANGED <<waiting, rr_cursor, available_permits, depth, ticket, pc,
                       in_hand>>
    PROVE  IInv'
<1>1. /\ \A r \in Requests : (Receiving(r)' <=> Receiving(r)) /\ (Guarded(r)' <=> Guarded(r))
      /\ Receiving(in_hand)' <=> Receiving(in_hand)
    BY DEF Receiving, Guarded
<1>2. TicketMatchesRequest' /\ HandMatchesLoop'
    BY <1>1 DEF IInv, TicketMatchesRequest, HandMatchesLoop, Receiving
<1>3. QueuesOwnTheirEntries' /\ ReceiversArePlaced'
    BY DEF IInv, QueuesOwnTheirEntries, ReceiversArePlaced, Receiving
<1>4. CursorExact'
    BY DEF IInv, CursorExact, HasWaiting
<1>5. PermitConservation'
    BY PermitsUntouched DEF IInv, Holders
<1>6. DepthExact'
    BY <1>1, DepthsUntouched DEF IInv
<1> QED BY <1>2, <1>3, <1>4, <1>5, <1>6 DEF IInv

\* Steps of one request that leave the queues, the pool and the tickets alone and
\* keep the request a receiver: it stays where it is.
LEMMA ReceiverMoves ==
    ASSUME IInv, TypeOK', NEW r \in Requests, NEW to,
           Receiving(r), to \in {"pushed", "stamped", "awaiting"},
           pc' = [pc EXCEPT ![r] = to],
           UNCHANGED <<waiting, rr_cursor, available_permits, depth, ticket, loop,
                       in_hand>>
    PROVE  IInv'
<1>0. pc \in [Requests -> RequestStates] /\ in_hand \in Requests \union {NoRequest}
    BY DEF IInv, TypeOK
<1>1. \A q \in Requests : /\ Receiving(q)' <=> Receiving(q)
                          /\ Guarded(q)' <=> Guarded(q)
                          /\ ~Receiving(q) => pc'[q] = pc[q]
    BY <1>0 DEF Receiving, Guarded
<1>2. TicketMatchesRequest'
    BY <1>0, <1>1 DEF IInv, TicketMatchesRequest, Receiving
<1>3. HandMatchesLoop'
    BY <1>0, <1>1, WorkloadAssumption DEF IInv, HandMatchesLoop, Receiving
<1>4. QueuesOwnTheirEntries'
    <2> SUFFICES ASSUME NEW f \in Flows, NEW q \in Range(waiting[f])
                 PROVE  /\ FlowOf[q] = f /\ ticket[q] = "none" /\ in_hand # q
                        /\ Receiving(q)' \/ pc'[q] \in {"cancelled", "uncounted", "unlisted"}
        BY DEF IInv, QueuesOwnTheirEntries
    <2>1. q \in Requests
        BY DEF IInv, TypeOK, Range
    <2> QED BY <1>0, <1>1, <2>1 DEF IInv, QueuesOwnTheirEntries
<1>5. ReceiversArePlaced'
    BY <1>1 DEF IInv, ReceiversArePlaced
<1>6. CursorExact'
    BY DEF IInv, CursorExact, HasWaiting
<1>7. PermitConservation'
    BY PermitsUntouched DEF IInv, Holders
<1>8. DepthExact'
    BY <1>1, DepthsUntouched DEF IInv
<1> QED BY <1>2, <1>3, <1>4, <1>5, <1>6, <1>7, <1>8 DEF IInv

\* Members of a queue are requests.
LEMMA QueuedAreRequests ==
    ASSUME TypeOK, NEW f \in Flows
    PROVE  Range(waiting[f]) \subseteq Requests
BY DEF TypeOK, Range

\* A step that leaves queues and cursor alone keeps the cursor exact.
LEMMA CursorUntouched ==
    ASSUME CursorExact, UNCHANGED <<waiting, rr_cursor>>
    PROVE  CursorExact'
BY DEF CursorExact, HasWaiting

\* Steps of one request between states in which it neither waits for a ticket nor
\* has one, outside every queue.
LEMMA OutsiderMoves ==
    ASSUME IInv, TypeOK', NEW r \in Requests, NEW to \in RequestStates,
           pc[r] \in {"idle", "checked", "counted"},
           to \in {"checked", "counted", "guarded"},
           pc' = [pc EXCEPT ![r] = to],
           UNCHANGED <<waiting, rr_cursor, available_permits, ticket, loop, in_hand>>
    PROVE  /\ TicketMatchesRequest' /\ HandMatchesLoop' /\ QueuesOwnTheirEntries'
           /\ ReceiversArePlaced' /\ CursorExact' /\ PermitConservation'
<1>0. pc \in [Requests -> RequestStates] /\ in_hand \in Requests \union {NoRequest}
    BY DEF IInv, TypeOK
<1>1. \A q \in Requests : Receiving(q)' <=> Receiving(q)
    BY <1>0 DEF Receiving
<1>2. ticket[r] = "none"
    BY DEF IInv, TypeOK, TicketMatchesRequest, TicketStates, Receiving
<1>3. TicketMatchesRequest'
    BY <1>0, <1>1, <1>2 DEF IInv, TicketMatchesRequest
<1>4. HandMatchesLoop'
    BY <1>0, <1>1, WorkloadAssumption DEF IInv, HandMatchesLoop, Receiving
<1>5. QueuesOwnTheirEntries'
    <2> SUFFICES ASSUME NEW f \in Flows, NEW q \in Range(waiting[f])
                 PROVE  /\ FlowOf[q] = f /\ ticket[q] = "none" /\ in_hand # q
                        /\ Receiving(q)' \/ pc'[q] \in {"cancelled", "uncounted", "unlisted"}
        BY DEF IInv, QueuesOwnTheirEntries
    <2> QED BY <1>0, <1>1, QueuedAreRequests DEF IInv, QueuesOwnTheirEntries
<1>6. ReceiversArePlaced'
    BY <1>1 DEF IInv, ReceiversArePlaced
<1>7. CursorExact' /\ PermitConservation'
    BY CursorUntouched, PermitsUntouched DEF IInv, Holders
<1> QED BY <1>3, <1>4, <1>5, <1>6, <1>7

\* The fail-fast depth check keeps the invariant.
LEMMA CheckDepthStep ==
    ASSUME IInv, NEW r \in Requests, CheckDepth(r)
    PROVE  IInv'
<1>1. TypeOK'
    BY DEF IInv, TypeOK, CheckDepth, Goto, RequestStates, drrState, flowState,
           monitorState, loopState
<1>2. DepthExact'
    BY DepthsUntouched DEF IInv, TypeOK, CheckDepth, Goto, Guarded, flowState
<1> QED BY <1>1, <1>2, OutsiderMoves
        DEF IInv, CheckDepth, Goto, RequestStates, drrState, loopState

\* A new guard adds one to its flow's depth and one live guard.
LEMMA NewGuardStep ==
    ASSUME IInv, NEW r \in Requests, NewGuard(r)
    PROVE  IInv'
<1>1. DepthExact' /\ depth' \in [Flows -> Nat]
    <2>1. ~Guarded(r) /\ Guarded(r)'
        BY DEF IInv, TypeOK, NewGuard, Goto, Guarded
    <2>2. \A q \in Requests \ {r} : Guarded(q)' <=> Guarded(q)
        BY DEF IInv, TypeOK, NewGuard, Goto, Guarded
    <2> QED BY <2>1, <2>2, GuardOpened DEF IInv, NewGuard
<1>2. TypeOK'
    BY <1>1 DEF IInv, TypeOK, NewGuard, Goto, RequestStates, drrState,
           monitorState, loopState
<1> QED BY <1>1, <1>2, OutsiderMoves
        DEF IInv, NewGuard, Goto, RequestStates, drrState, loopState

\* The guard's entry of the list changes no count.
LEMMA ListFlowStep ==
    ASSUME IInv, NEW r \in Requests, ListFlow(r)
    PROVE  IInv'
<1>1. TypeOK'
    <2>1. waiting_queue' \in Seq(Flows)
        BY WorkloadAssumption DEF IInv, TypeOK, ListFlow
    <2> QED BY <2>1 DEF IInv, TypeOK, ListFlow, Goto, RequestStates, drrState,
               monitorState, loopState
<1>2. DepthExact'
    BY DepthsUntouched DEF IInv, TypeOK, ListFlow, Goto, Guarded
<1> QED BY <1>1, <1>2, OutsiderMoves
        DEF IInv, ListFlow, Goto, RequestStates, drrState, loopState

\* Steps of a guard's drop that leave queues, pool and tickets alone: the request is
\* no longer a receiver and has no ticket.
LEMMA LeaverMoves ==
    ASSUME IInv, NEW r \in Requests, NEW to \in {"uncounted", "unlisted"},
           pc[r] \in {"cancelled", "uncounted"}, ticket[r] = "none",
           pc' = [pc EXCEPT ![r] = to],
           UNCHANGED <<waiting, rr_cursor, available_permits, ticket, loop, in_hand>>
    PROVE  /\ TicketMatchesRequest' /\ HandMatchesLoop' /\ QueuesOwnTheirEntries'
           /\ ReceiversArePlaced' /\ CursorExact' /\ PermitConservation'
<1>0. pc \in [Requests -> RequestStates] /\ in_hand \in Requests \union {NoRequest}
    BY DEF IInv, TypeOK
<1>1. \A q \in Requests : /\ q # r => pc'[q] = pc[q]
                          /\ Receiving(q)' <=> Receiving(q)
                          /\ q = r => pc'[q] = to
    BY <1>0 DEF Receiving
<1>2. TicketMatchesRequest'
    BY <1>0, <1>1 DEF IInv, TicketMatchesRequest
<1>3. HandMatchesLoop'
    BY <1>0, <1>1, WorkloadAssumption DEF IInv, HandMatchesLoop
<1>4. QueuesOwnTheirEntries'
    <2> SUFFICES ASSUME NEW f \in Flows, NEW q \in Range(waiting[f])
                 PROVE  /\ FlowOf[q] = f /\ ticket[q] = "none" /\ in_hand # q
                        /\ Receiving(q)' \/ pc'[q] \in {"cancelled", "uncounted", "unlisted"}
        BY DEF IInv, QueuesOwnTheirEntries
    <2> QED BY <1>1, QueuedAreRequests DEF IInv, QueuesOwnTheirEntries
<1>5. ReceiversArePlaced'
    BY <1>1 DEF IInv, ReceiversArePlaced
<1>6. CursorExact' /\ PermitConservation'
    BY CursorUntouched, PermitsUntouched DEF IInv, Holders
<1> QED BY <1>2, <1>3, <1>4, <1>5, <1>6

\* A guard being dropped takes its count with it.
LEMMA UncountStep ==
    ASSUME IInv, NEW r \in Requests, Uncount(r)
    PROVE  IInv'
<1>0. /\ pc \in [Requests -> RequestStates]
      /\ pc[r] = "cancelled" /\ ticket[r] = "none"
    BY DEF IInv, TypeOK, Uncount, Goto
<1>1. /\ pc' = [pc EXCEPT ![r] = "uncounted"]
      /\ UNCHANGED <<waiting, rr_cursor, available_permits, ticket, loop, in_hand>>
    BY DEF Uncount, Goto, drrState, loopState
<1>2. \A q \in Requests : /\ q # r => (Guarded(q)' <=> Guarded(q))
                          /\ q = r => Guarded(q) /\ ~Guarded(q)'
    BY <1>0, <1>1 DEF Guarded
<1>3. DepthExact' /\ depth' \in [Flows -> Nat]
    BY <1>2, GuardClosed DEF IInv, Uncount
<1>4. TypeOK'
    BY <1>3 DEF IInv, TypeOK, Uncount, Goto, RequestStates, drrState, monitorState, loopState
<1> QED BY <1>0, <1>1, <1>3, <1>4, LeaverMoves DEF IInv

\* Then one entry of its flow leaves the list.
LEMMA UnlistStep ==
    ASSUME IInv, NEW r \in Requests, Unlist(r)
    PROVE  IInv'
<1>0. /\ pc \in [Requests -> RequestStates]
      /\ pc[r] = "uncounted"
    BY DEF IInv, TypeOK, Unlist, Goto
<1>1. /\ pc' = [pc EXCEPT ![r] = "unlisted"]
      /\ UNCHANGED <<waiting, rr_cursor, available_permits, depth, ticket, loop, in_hand>>
    BY DEF Unlist, Goto, drrState, loopState
<1>2. ticket[r] = "none"
    BY <1>0 DEF IInv, TypeOK, TicketMatchesRequest, TicketStates, Receiving
<1>3. DepthExact'
    BY <1>0, <1>1, DepthsUntouched DEF IInv, Guarded
<1>4. TypeOK'
    <2>1. waiting_queue' \in Seq(Flows)
        BY WithoutFirstType DEF IInv, TypeOK, Unlist
    <2> QED BY <2>1 DEF IInv, TypeOK, Unlist, Goto, RequestStates, drrState, monitorState,
               loopState
<1> QED BY <1>0, <1>1, <1>2, <1>3, <1>4, LeaverMoves DEF IInv

\* Dropping the receiver leaves the request's entry to its guard or to the loop.
LEMMA CancelStep ==
    ASSUME IInv, NEW r \in Requests, Cancel(r)
    PROVE  IInv'
<1>0. pc \in [Requests -> RequestStates] /\ in_hand \in Requests \union {NoRequest}
    BY DEF IInv, TypeOK
<1>1. TypeOK'
    BY DEF IInv, TypeOK, Cancel, RequestStates, drrState, flowState,
           monitorState, loopState
<1>2. \A q \in Requests : /\ Guarded(q)' <=> Guarded(q)
                          /\ Receiving(q)' => Receiving(q)
                          /\ q # r => (Receiving(q)' <=> Receiving(q)) /\ pc'[q] = pc[q]
                          /\ q = r => pc'[q] = "cancelled"
    BY <1>0 DEF Cancel, Guarded, Receiving
<1>3. DepthExact'
    BY <1>2, DepthsUntouched DEF IInv, Cancel, flowState
<1>4. TicketMatchesRequest'
    BY <1>2 DEF IInv, TicketMatchesRequest, Cancel, Receiving
<1>5. HandMatchesLoop'
    BY <1>0, <1>2, WorkloadAssumption DEF IInv, HandMatchesLoop, Cancel, loopState
<1>6. QueuesOwnTheirEntries'
    <2> SUFFICES ASSUME NEW f \in Flows, NEW q \in Range(waiting[f])
                 PROVE  /\ FlowOf[q] = f /\ ticket[q] = "none" /\ in_hand # q
                        /\ Receiving(q)' \/ pc'[q] \in {"cancelled", "uncounted", "unlisted"}
        BY DEF IInv, QueuesOwnTheirEntries, Cancel, drrState, loopState
    <2> QED BY <1>2, QueuedAreRequests DEF IInv, QueuesOwnTheirEntries
<1>7. ReceiversArePlaced'
    BY <1>2 DEF IInv, ReceiversArePlaced, Cancel, drrState, loopState
<1>8. CursorExact' /\ PermitConservation'
    BY CursorUntouched, PermitsUntouched DEF IInv, Holders, Cancel, drrState, loopState
<1> QED BY <1>1, <1>3, <1>4, <1>5, <1>6, <1>7, <1>8 DEF IInv

\* Reading the ticket consumes the guard: one holder for one sent ticket.
LEMMA ReceiveStep ==
    ASSUME IInv, NEW r \in Requests, Receive(r)
    PROVE  IInv'
<1>0. pc \in [Requests -> RequestStates] /\ in_hand \in Requests \union {NoRequest}
    BY DEF IInv, TypeOK
<1>1. \A q \in Requests : /\ q # r => /\ Guarded(q)' <=> Guarded(q)
                                      /\ Receiving(q)' <=> Receiving(q)
                                      /\ pc'[q] = pc[q] /\ ticket'[q] = ticket[q]
                          /\ q = r => pc'[q] = "consumed" /\ ticket'[q] = "held"
    BY <1>0 DEF IInv, TypeOK, Receive, Goto, Guarded, Receiving
<1>2. pc[r] = "awaiting" /\ ticket[r] = "sent" /\ in_hand # r
    BY <1>0, WorkloadAssumption DEF IInv, Receive, Goto, HandMatchesLoop
<1>3. DepthExact' /\ depth' \in [Flows -> Nat]
    <2>1. Guarded(r) /\ ~Guarded(r)'
        BY <1>1, <1>2 DEF Guarded
    <2> QED BY <1>1, <2>1, GuardClosed DEF IInv, Receive
<1>4. TypeOK'
    <2>1. pc' \in [Requests -> RequestStates] /\ ticket' \in [Requests -> TicketStates]
        BY DEF IInv, TypeOK, Receive, Goto, RequestStates, TicketStates
    <2> QED BY <1>3, <2>1 DEF IInv, TypeOK, Receive, drrState, monitorState, loopState
<1>5. TicketMatchesRequest'
    BY <1>1 DEF IInv, TicketMatchesRequest
<1>6. HandMatchesLoop'
    BY <1>0, <1>1, <1>2, WorkloadAssumption DEF IInv, HandMatchesLoop, Receive, loopState
<1>7. QueuesOwnTheirEntries'
    <2> SUFFICES ASSUME NEW f \in Flows, NEW q \in Range(waiting[f])
                 PROVE  /\ FlowOf[q] = f /\ ticket'[q] = "none" /\ in_hand # q
                        /\ Receiving(q)' \/ pc'[q] \in {"cancelled", "uncounted", "unlisted"}
        BY DEF IInv, QueuesOwnTheirEntries, Receive, drrState, loopState
    <2> QED BY <1>1, <1>2, QueuedAreRequests DEF IInv, QueuesOwnTheirEntries
<1>8. ReceiversArePlaced'
    <2>1. ~Receiving(r)'
        BY <1>1 DEF Receiving
    <2> QED BY <1>1, <2>1 DEF IInv, ReceiversArePlaced, Receive, drrState, loopState
<1>9. CursorExact' /\ PermitConservation'
    <2>1. Holders' = Holders
        BY <1>1, <1>2 DEF Holders, Receive, loopState
    <2> QED BY <2>1, CursorUntouched, PermitsUntouched DEF IInv, Receive, drrState
<1> QED BY <1>3, <1>4, <1>5, <1>6, <1>7, <1>8, <1>9 DEF IInv

\* The holder of a ticket leaves the list and counts as active.
LEMMA ActivateStep ==
    ASSUME IInv, NEW r \in Requests, Activate(r)
    PROVE  IInv'
<1>0. pc \in [Requests -> RequestStates] /\ in_hand \in Requests \union {NoRequest}
    BY DEF IInv, TypeOK
<1>1. /\ pc[r] = "consumed" /\ pc' = [pc EXCEPT ![r] = "active"]
      /\ UNCHANGED <<waiting, rr_cursor, available_permits, depth, ticket, loop, in_hand>>
    BY DEF Activate, Goto, drrState, loopState
<1>2. \A q \in Requests : /\ Guarded(q)' <=> Guarded(q)
                          /\ Receiving(q)' <=> Receiving(q)
                          /\ q # r => pc'[q] = pc[q]
                          /\ q = r => pc'[q] = "active"
    BY <1>0, <1>1 DEF Guarded, Receiving
<1>3. ticket[r] = "held" /\ in_hand # r
    BY <1>0, <1>1, WorkloadAssumption
    DEF IInv, TicketMatchesRequest, HandMatchesLoop
<1>4. TypeOK'
    <2>1. waiting_queue' \in Seq(Flows)
        BY WithoutFirstType DEF IInv, TypeOK, Activate
    <2>2. active' \in [Flows -> Int] /\ active_flows' \in Int
        <3>1. active \in [Flows -> Int] /\ active_flows \in Int
            BY DEF IInv, TypeOK
        <3>2. /\ active' = [active EXCEPT ![FlowOf[r]] = active[FlowOf[r]] + 1]
              /\ active_flows' = active_flows + 1
            BY DEF Activate
        <3>3. FlowOf[r] \in Flows /\ active[FlowOf[r]] + 1 \in Int
            BY <3>1, WorkloadAssumption
        <3> QED BY <3>1, <3>2, <3>3
    <2>3. pc' \in [Requests -> RequestStates]
        BY <1>0, <1>1 DEF RequestStates
    <2> QED BY <1>1, <2>1, <2>2, <2>3 DEF IInv, TypeOK, Activate, drrState, monitorState,
               loopState
<1>5. TicketMatchesRequest'
    BY <1>0, <1>1, <1>2, <1>3 DEF IInv, TicketMatchesRequest
<1>6. HandMatchesLoop'
    BY <1>0, <1>1, <1>2, <1>3, WorkloadAssumption DEF IInv, HandMatchesLoop
<1>7. QueuesOwnTheirEntries'
    <2> SUFFICES ASSUME NEW f \in Flows, NEW q \in Range(waiting[f])
                 PROVE  /\ FlowOf[q] = f /\ ticket[q] = "none" /\ in_hand # q
                        /\ Receiving(q)' \/ pc'[q] \in {"cancelled", "uncounted", "unlisted"}
        BY <1>1 DEF IInv, QueuesOwnTheirEntries
    <2>1. q \in Requests /\ ticket[q] = "none"
        BY QueuedAreRequests DEF IInv, QueuesOwnTheirEntries
    <2> QED BY <1>2, <1>3, <2>1 DEF IInv, QueuesOwnTheirEntries
<1>8. ReceiversArePlaced'
    BY <1>1, <1>2 DEF IInv, ReceiversArePlaced
<1>9. CursorExact' /\ PermitConservation' /\ DepthExact'
    BY <1>1, <1>2, CursorUntouched, PermitsUntouched, DepthsUntouched DEF IInv, Holders
<1> QED BY <1>4, <1>5, <1>6, <1>7, <1>8, <1>9 DEF IInv

\* A ticket's drop begins: its permit is still out.
LEMMA DropTicketStep ==
    ASSUME IInv, NEW r \in Requests, DropTicket(r)
    PROVE  IInv'
<1>0. /\ pc \in [Requests -> RequestStates] /\ ticket \in [Requests -> TicketStates]
      /\ in_hand \in Requests \union {NoRequest}
    BY DEF IInv, TypeOK
<1>1. /\ \/ pc[r] = "active" /\ ticket[r] = "held" /\ pc'[r] = "closing"
         \/ pc[r] = "cancelled" /\ ticket[r] = "sent" /\ pc'[r] = "cancelled"
      /\ ticket' = [ticket EXCEPT ![r] = "dropping"]
      /\ pc' \in [Requests -> RequestStates]
      /\ \A q \in Requests \ {r} : pc'[q] = pc[q]
      /\ UNCHANGED <<waiting, rr_cursor, available_permits, depth, loop, in_hand>>
    BY <1>0 DEF DropTicket, Goto, drrState, loopState, RequestStates
<1>2. \A q \in Requests : /\ Guarded(q)' <=> Guarded(q)
                          /\ Receiving(q)' <=> Receiving(q)
    BY <1>1 DEF Guarded, Receiving
<1>3. in_hand # r
    BY <1>1, WorkloadAssumption DEF IInv, HandMatchesLoop
<1>4. TypeOK'
    <2>1. active' \in [Flows -> Int] /\ active_flows' \in Int
        <3>1. /\ active' = [active EXCEPT ![FlowOf[r]] = active[FlowOf[r]] - 1]
              /\ active_flows' = active_flows - 1
            BY DEF DropTicket
        <3>2. FlowOf[r] \in Flows /\ active \in [Flows -> Int] /\ active_flows \in Int
            BY WorkloadAssumption DEF IInv, TypeOK
        <3> QED BY <3>1, <3>2
    <2>2. ticket' \in [Requests -> TicketStates]
        BY <1>0, <1>1 DEF TicketStates
    <2>3. UNCHANGED <<deficit, waiting_queue, enqueued_at, notify, kv_pressure,
                      snapshot_dirty, cap, monitor_alive>>
        BY DEF DropTicket, drrState, monitorState, loopState
    <2> QED BY <1>1, <2>1, <2>2, <2>3 DEF IInv, TypeOK
<1>5. TicketMatchesRequest'
    BY <1>0, <1>1, <1>2 DEF IInv, TicketMatchesRequest
<1>6. HandMatchesLoop'
    BY <1>0, <1>1, <1>2, <1>3, WorkloadAssumption DEF IInv, HandMatchesLoop
<1>7. QueuesOwnTheirEntries'
    <2> SUFFICES ASSUME NEW f \in Flows, NEW q \in Range(waiting[f])
                 PROVE  /\ FlowOf[q] = f /\ ticket'[q] = "none" /\ in_hand # q
                        /\ Receiving(q)' \/ pc'[q] \in {"cancelled", "uncounted", "unlisted"}
        BY <1>1 DEF IInv, QueuesOwnTheirEntries
    <2>1. q \in Requests /\ ticket[q] = "none"
        BY QueuedAreRequests DEF IInv, QueuesOwnTheirEntries
    <2> QED BY <1>0, <1>1, <1>2, <2>1 DEF IInv, QueuesOwnTheirEntries
<1>8. ReceiversArePlaced'
    <2>1. ~Receiving(r)
        BY <1>1 DEF Receiving
    <2> QED BY <1>0, <1>1, <1>2, <2>1 DEF IInv, ReceiversArePlaced
<1>9. CursorExact' /\ PermitConservation' /\ DepthExact'
    <2>1. Holders' = Holders
        BY <1>0, <1>1 DEF Holders
    <2> QED BY <1>1, <1>2, <2>1, CursorUntouched, PermitsUntouched, DepthsUntouched
            DEF IInv
<1> QED BY <1>4, <1>5, <1>6, <1>7, <1>8, <1>9 DEF IInv

\* A ticket's drop returns its permit, once.
LEMMA ReturnPermitStep ==
    ASSUME IInv, NEW r \in Requests, ReturnPermit(r)
    PROVE  IInv'
<1>0. /\ ticket \in [Requests -> TicketStates]
      /\ in_hand \in Requests \union {NoRequest}
    BY DEF IInv, TypeOK
<1>1. /\ ticket[r] = "dropping" /\ ticket' = [ticket EXCEPT ![r] = "returned"]
      /\ available_permits' = available_permits + 1
      /\ UNCHANGED <<waiting, rr_cursor, depth, loop, in_hand, pc>>
    BY DEF ReturnPermit, flowState, loopState
<1>2. in_hand # r
    BY <1>1, WorkloadAssumption DEF IInv, HandMatchesLoop
<1>3. \A q \in Requests : /\ Guarded(q)' <=> Guarded(q)
                          /\ Receiving(q)' <=> Receiving(q)
    BY <1>1 DEF Guarded, Receiving
<1>4. PermitConservation' /\ available_permits' \in 0..MaxPermits
    <2>1. r \in Holders /\ Holders' = Holders \ {r}
        BY <1>0, <1>1, <1>2 DEF Holders
    <2> QED BY <1>1, <2>1, PermitGivenBack DEF IInv
<1>5. TypeOK'
    BY <1>4 DEF IInv, TypeOK, ReturnPermit, TicketStates, flowState, monitorState,
           loopState
<1>6. TicketMatchesRequest'
    BY <1>0, <1>1, <1>3 DEF IInv, TicketMatchesRequest
<1>7. HandMatchesLoop'
    BY <1>0, <1>1, <1>2, <1>3, WorkloadAssumption DEF IInv, HandMatchesLoop
<1>8. QueuesOwnTheirEntries'
    <2> SUFFICES ASSUME NEW f \in Flows, NEW q \in Range(waiting[f])
                 PROVE  /\ FlowOf[q] = f /\ ticket'[q] = "none" /\ in_hand # q
                        /\ Receiving(q)' \/ pc'[q] \in {"cancelled", "uncounted", "unlisted"}
        BY <1>1 DEF IInv, QueuesOwnTheirEntries
    <2>1. q \in Requests /\ ticket[q] = "none"
        BY QueuedAreRequests DEF IInv, QueuesOwnTheirEntries
    <2> QED BY <1>0, <1>1, <1>3, <2>1 DEF IInv, QueuesOwnTheirEntries
<1>9. ReceiversArePlaced'
    BY <1>0, <1>1, <1>3 DEF IInv, ReceiversArePlaced
<1>10. CursorExact' /\ DepthExact'
    BY <1>1, <1>3, CursorUntouched, DepthsUntouched DEF IInv
<1> QED BY <1>4, <1>5, <1>6, <1>7, <1>8, <1>9, <1>10 DEF IInv

\* A ticket's drop ends with the loop's wake-up.
LEMMA NotifyReturnStep ==
    ASSUME IInv, NEW r \in Requests, NotifyReturn(r)
    PROVE  IInv'
<1>0. /\ pc \in [Requests -> RequestStates] /\ ticket \in [Requests -> TicketStates]
      /\ in_hand \in Requests \union {NoRequest}
    BY DEF IInv, TypeOK
<1>1. /\ ticket[r] = "returned" /\ ticket' = [ticket EXCEPT ![r] = "none"]
      /\ \/ pc[r] = "closing" /\ pc'[r] = "done"
         \/ pc[r] = "cancelled" /\ pc'[r] = "cancelled"
      /\ pc' \in [Requests -> RequestStates]
      /\ \A q \in Requests \ {r} : pc'[q] = pc[q]
      /\ UNCHANGED <<waiting, rr_cursor, available_permits, depth, loop, in_hand>>
    BY <1>0 DEF IInv, TicketMatchesRequest, NotifyReturn, drrState, flowState,
           loopState, RequestStates
<1>2. in_hand # r
    BY <1>1, WorkloadAssumption DEF IInv, HandMatchesLoop
<1>3. \A q \in Requests : /\ Guarded(q)' <=> Guarded(q)
                          /\ Receiving(q)' <=> Receiving(q)
    BY <1>1 DEF Guarded, Receiving
<1>4. TypeOK'
    BY <1>0, <1>1 DEF IInv, TypeOK, NotifyReturn, TicketStates, drrState, flowState,
           monitorState, loopState
<1>5. TicketMatchesRequest'
    BY <1>0, <1>1, <1>3 DEF IInv, TicketMatchesRequest
<1>6. HandMatchesLoop'
    BY <1>0, <1>1, <1>2, <1>3, WorkloadAssumption DEF IInv, HandMatchesLoop
<1>7. QueuesOwnTheirEntries'
    <2> SUFFICES ASSUME NEW f \in Flows, NEW q \in Range(waiting[f])
                 PROVE  /\ FlowOf[q] = f /\ ticket'[q] = "none" /\ in_hand # q
                        /\ Receiving(q)' \/ pc'[q] \in {"cancelled", "uncounted", "unlisted"}
        BY <1>1 DEF IInv, QueuesOwnTheirEntries
    <2>1. q \in Requests /\ ticket[q] = "none"
        BY QueuedAreRequests DEF IInv, QueuesOwnTheirEntries
    <2> QED BY <1>0, <1>1, <1>3, <2>1 DEF IInv, QueuesOwnTheirEntries
<1>8. ReceiversArePlaced'
    BY <1>0, <1>1, <1>3 DEF IInv, ReceiversArePlaced
<1>9. CursorExact' /\ PermitConservation' /\ DepthExact'
    <2>1. Holders' = Holders
        BY <1>0, <1>1 DEF Holders
    <2> QED BY <1>1, <1>3, <2>1, CursorUntouched, PermitsUntouched, DepthsUntouched
            DEF IInv
<1> QED BY <1>4, <1>5, <1>6, <1>7, <1>8, <1>9 DEF IInv

\* A send hands the permit to a receiver, or gives it back if there is none.
LEMMA SendStep ==
    ASSUME IInv, Send
    PROVE  IInv'
<1> DEFINE r == in_hand
<1>0. /\ pc \in [Requests -> RequestStates] /\ ticket \in [Requests -> TicketStates]
      /\ r \in Requests /\ loop = "granting" /\ ticket[r] = "none"
    BY DEF IInv, TypeOK, HandMatchesLoop, Send
<1>1. /\ in_hand' = NoRequest /\ loop' = "check"
      /\ \/ Receiving(r) /\ ticket' = [ticket EXCEPT ![r] = "sent"]
                         /\ UNCHANGED available_permits
         \/ ~Receiving(r) /\ available_permits' = available_permits + 1
                          /\ UNCHANGED ticket
      /\ UNCHANGED <<waiting, rr_cursor, depth, pc>>
    BY DEF Send, flowState
<1> HIDE DEF r
<1>2. \A q \in Requests : /\ Guarded(q)' <=> Guarded(q)
                          /\ Receiving(q)' <=> Receiving(q)
    BY <1>1 DEF Guarded, Receiving
<1>3. PermitConservation' /\ available_permits' \in 0..MaxPermits
    <2>1. CASE Receiving(r)
        <3>1. Holders' = Holders
            BY <1>0, <1>1, <2>1, WorkloadAssumption DEF Holders, r
        <3> QED BY <1>1, <2>1, <3>1, PermitsUntouched DEF IInv, TypeOK
    <2>2. CASE ~Receiving(r)
        <3>1. r \in Holders /\ Holders' = Holders \ {r}
            BY <1>0, <1>1, <2>2, WorkloadAssumption DEF Holders, r
        <3> QED BY <1>0, <1>1, <2>2, <3>1, PermitGivenBack DEF IInv
    <2> QED BY <2>1, <2>2
<1>4. TypeOK'
    BY <1>0, <1>1, <1>3 DEF IInv, TypeOK, Send, TicketStates, LoopStates, flowState,
           monitorState
<1>5. TicketMatchesRequest'
    BY <1>0, <1>1, <1>2 DEF IInv, TicketMatchesRequest
<1>6. HandMatchesLoop'
    BY <1>1 DEF HandMatchesLoop
<1>7. QueuesOwnTheirEntries'
    <2> SUFFICES ASSUME NEW f \in Flows, NEW q \in Range(waiting[f])
                 PROVE  /\ FlowOf[q] = f /\ ticket'[q] = "none" /\ in_hand' # q
                        /\ Receiving(q)' \/ pc'[q] \in {"cancelled", "uncounted", "unlisted"}
        BY <1>1 DEF IInv, QueuesOwnTheirEntries
    <2>1. q \in Requests /\ ticket[q] = "none" /\ q # r
        BY QueuedAreRequests DEF IInv, QueuesOwnTheirEntries, r
    <2> QED BY <1>0, <1>1, <1>2, <2>1, WorkloadAssumption
            DEF IInv, QueuesOwnTheirEntries
<1>8. ReceiversArePlaced'
    BY <1>0, <1>1, <1>2 DEF IInv, ReceiversArePlaced, r
<1>9. CursorExact' /\ DepthExact'
    BY <1>1, <1>2, CursorUntouched, DepthsUntouched DEF IInv
<1> QED BY <1>3, <1>4, <1>5, <1>6, <1>7, <1>8, <1>9 DEF IInv

\* Appending a new element adds exactly it and no repetition.
LEMMA AppendElements ==
    ASSUME NEW S, NEW s \in Seq(S), NEW x \in S, x \notin Range(s), IsInjective(s)
    PROVE  /\ Append(s, x) \in Seq(S) /\ Append(s, x) # <<>>
           /\ Range(Append(s, x)) = Range(s) \union {x}
           /\ IsInjective(Append(s, x))
<1> DEFINE t == Append(s, x)
<1>1. /\ t \in Seq(S) /\ Len(t) = Len(s) + 1 /\ Len(s) \in Nat
      /\ DOMAIN t = 1..(Len(s) + 1) /\ DOMAIN s = 1..Len(s)
      /\ \A k \in 1..Len(s) : t[k] = s[k]
      /\ t[Len(s) + 1] = x
    BY AppendProperties, LenProperties
<1> HIDE DEF t
<1>2. t # <<>>
    BY <1>1
<1>3. Range(t) = Range(s) \union {x}
    <2>1. Range(t) \subseteq Range(s) \union {x}
        BY <1>1 DEF Range
    <2>2. Range(s) \subseteq Range(t)
        BY <1>1 DEF Range
    <2>3. x \in Range(t)
        BY <1>1 DEF Range
    <2> QED BY <2>1, <2>2, <2>3
<1>4. IsInjective(t)
    BY <1>1 DEF IsInjective, Range
<1> QED BY <1>1, <1>2, <1>3, <1>4 DEF t

\* Popping the head takes away exactly it.
LEMMA TailElements ==
    ASSUME NEW S, NEW s \in Seq(S), s # <<>>, IsInjective(s)
    PROVE  /\ Head(s) \in Range(s) /\ Head(s) \in S
           /\ Tail(s) \in Seq(S)
           /\ Range(Tail(s)) = Range(s) \ {Head(s)}
           /\ IsInjective(Tail(s))
<1> DEFINE t == Tail(s)
<1>1. /\ t \in Seq(S) /\ Len(t) = Len(s) - 1 /\ Len(s) \in Nat \ {0}
      /\ DOMAIN t = 1..(Len(s) - 1) /\ DOMAIN s = 1..Len(s)
      /\ \A k \in 1..(Len(s) - 1) : t[k] = s[k + 1]
      /\ Head(s) = s[1]
    BY HeadTailProperties, LenProperties, EmptySeq
<1> HIDE DEF t
<1>2. Head(s) \in Range(s) /\ Head(s) \in S
    BY <1>1, ElementOfSeq DEF Range
<1>3. Range(t) \subseteq Range(s) \ {Head(s)}
    BY <1>1 DEF Range, IsInjective
<1>4. ASSUME NEW y \in Range(s) \ {Head(s)}
      PROVE  y \in Range(t)
    <2>1. PICK j \in 1..Len(s) : s[j] = y
        BY <1>1 DEF Range
    <2>2. j - 1 \in DOMAIN t /\ t[j - 1] = y
        BY <1>1, <1>4, <2>1
    <2> QED BY <2>2 DEF Range
<1>5. IsInjective(t)
    <2> SUFFICES ASSUME NEW p \in DOMAIN t, NEW q \in DOMAIN t, t[p] = t[q]
                 PROVE  p = q
        BY DEF IsInjective
    <2>1. s[p + 1] = s[q + 1] /\ p + 1 \in DOMAIN s /\ q + 1 \in DOMAIN s
        BY <1>1
    <2>2. p + 1 = q + 1
        BY <2>1 DEF IsInjective
    <2> QED BY <1>1, <2>2
<1> QED BY <1>1, <1>2, <1>3, <1>4, <1>5 DEF t

\* A sequence is empty exactly when it has no elements.
LEMMA EmptyIffNoElements ==
    ASSUME NEW S, NEW s \in Seq(S)
    PROVE  s = <<>> <=> Range(s) = {}
<1>1. CASE s = <<>>
    BY <1>1 DEF Range
<1>2. CASE s # <<>>
    <2>1. 1 \in DOMAIN s
        BY <1>2, LenProperties, EmptySeq
    <2> QED BY <1>2, <2>1 DEF Range
<1> QED BY <1>1, <1>2

\* Pushing a Pending and entering its flow in the cursor.
LEMMA EnqueueStep ==
    ASSUME IInv, NEW r \in Requests, Enqueue(r)
    PROVE  IInv'
<1> DEFINE f == FlowOf[r]
<1>0. /\ pc \in [Requests -> RequestStates] /\ ticket \in [Requests -> TicketStates]
      /\ in_hand \in Requests \union {NoRequest} /\ f \in Flows
      /\ waiting \in [Flows -> Seq(Requests)] /\ rr_cursor \in Seq(Flows)
    BY WorkloadAssumption DEF IInv, TypeOK
<1>1. /\ pc[r] = "guarded" /\ pc' = [pc EXCEPT ![r] = "pushed"]
      /\ waiting' = [waiting EXCEPT ![f] = Append(waiting[f], r)]
      /\ rr_cursor' = IF f \in Range(rr_cursor) THEN rr_cursor ELSE Append(rr_cursor, f)
      /\ UNCHANGED <<available_permits, deficit, depth, ticket, loop, in_hand>>
    BY DEF Enqueue, Goto, flowState, loopState
<1>2. \A g \in Flows : r \notin Range(waiting[g])
    BY <1>1 DEF IInv, QueuesOwnTheirEntries, Receiving
<1>3. ticket[r] = "none" /\ in_hand # r
    BY <1>0, <1>1, WorkloadAssumption
    DEF IInv, TicketMatchesRequest, HandMatchesLoop, Receiving, TicketStates
<1>4. \A q \in Requests : /\ Guarded(q)' <=> Guarded(q)
                          /\ q # r => (Receiving(q)' <=> Receiving(q)) /\ pc'[q] = pc[q]
                          /\ q = r => Receiving(q)'
    BY <1>0, <1>1 DEF Guarded, Receiving
<1>5. /\ waiting'[f] \in Seq(Requests) /\ waiting'[f] # <<>>
      /\ Range(waiting'[f]) = Range(waiting[f]) \union {r}
      /\ IsInjective(waiting'[f])
      /\ \A g \in Flows \ {f} : waiting'[g] = waiting[g]
    <2>1. IsInjective(waiting[f]) /\ r \notin Range(waiting[f])
        BY <1>0, <1>2 DEF IInv, QueuesOwnTheirEntries
    <2>2. waiting'[f] = Append(waiting[f], r)
        BY <1>0, <1>1
    <2>3. waiting[f] \in Seq(Requests)
        BY <1>0
    <2>4. \A g \in Flows \ {f} : waiting'[g] = waiting[g]
        BY <1>0, <1>1
    <2> QED BY <2>1, <2>2, <2>3, <2>4, AppendElements
<1> HIDE DEF f
<1>6. rr_cursor' \in Seq(Flows) /\ CursorExact'
    <2>1. CASE f \in Range(rr_cursor)
        <3>1. \A g \in Flows : HasWaiting(g)' <=> HasWaiting(g)
            BY <1>0, <1>5, <2>1 DEF HasWaiting, IInv, CursorExact
        <3>2. rr_cursor' = rr_cursor
            BY <1>1, <2>1
        <3>3. {g \in Flows : HasWaiting(g)'} = {g \in Flows : HasWaiting(g)}
            BY <3>1
        <3> QED BY <1>0, <3>2, <3>3 DEF IInv, CursorExact
    <2>2. CASE f \notin Range(rr_cursor)
        <3>1. /\ rr_cursor' \in Seq(Flows)
              /\ Range(rr_cursor') = Range(rr_cursor) \union {f}
              /\ IsInjective(rr_cursor')
            BY <1>0, <1>1, <2>2, AppendElements DEF IInv, CursorExact
        <3>2. \A g \in Flows : HasWaiting(g)' <=> (HasWaiting(g) \/ g = f)
            BY <1>0, <1>5 DEF HasWaiting
        <3> QED BY <1>0, <3>1, <3>2 DEF IInv, CursorExact
    <2> QED BY <2>1, <2>2
<1>7. TypeOK'
    <2>1. waiting' \in [Flows -> Seq(Requests)]
        BY <1>0, <1>1, <1>5
    <2>2. pc' \in [Requests -> RequestStates]
        BY <1>0, <1>1 DEF RequestStates
    <2>3. UNCHANGED <<waiting_queue, active, enqueued_at, active_flows, notify,
                      kv_pressure, snapshot_dirty, cap, monitor_alive>>
        BY DEF Enqueue, flowState, monitorState, loopState
    <2> QED BY <1>1, <1>6, <2>1, <2>2, <2>3 DEF IInv, TypeOK
<1>8. TicketMatchesRequest'
    BY <1>0, <1>1, <1>3, <1>4 DEF IInv, TicketMatchesRequest
<1>9. HandMatchesLoop'
    BY <1>0, <1>1, <1>3, <1>4, WorkloadAssumption DEF IInv, HandMatchesLoop
<1>10. QueuesOwnTheirEntries'
    <2>1. \A g \in Flows : IsInjective(waiting'[g])
        BY <1>5 DEF IInv, QueuesOwnTheirEntries
    <2>2. ASSUME NEW g \in Flows, NEW q \in Range(waiting'[g])
          PROVE  /\ FlowOf[q] = g /\ ticket'[q] = "none" /\ in_hand' # q
                 /\ Receiving(q)' \/ pc'[q] \in {"cancelled", "uncounted", "unlisted"}
        <3>1. CASE q \in Range(waiting[g])
            <4>1. q \in Requests /\ q # r
                BY <1>2, <3>1, QueuedAreRequests DEF IInv
            <4> QED BY <1>1, <1>4, <3>1, <4>1 DEF IInv, QueuesOwnTheirEntries
        <3>2. CASE q \notin Range(waiting[g])
            <4>1. g = f /\ q = r
                BY <1>5, <2>2, <3>2
            <4> QED BY <1>1, <1>3, <1>4, <4>1 DEF f
        <3> QED BY <3>1, <3>2
    <2> QED BY <2>1, <2>2 DEF QueuesOwnTheirEntries
<1>11. ReceiversArePlaced'
    <2> SUFFICES ASSUME NEW q \in Requests, Receiving(q)'
                 PROVE  \/ q \in Range(waiting'[FlowOf[q]])
                        \/ in_hand' = q \/ ticket'[q] = "sent"
        BY DEF ReceiversArePlaced
    <2>1. CASE q = r
        BY <1>5, <2>1 DEF f
    <2>2. CASE q # r
        <3>1. FlowOf[q] \in Flows
            BY WorkloadAssumption
        <3> QED BY <1>1, <1>4, <1>5, <2>2, <3>1 DEF IInv, ReceiversArePlaced
    <2> QED BY <2>1, <2>2
<1>12. PermitConservation' /\ DepthExact'
    BY <1>1, <1>4, PermitsUntouched, DepthsUntouched DEF IInv, Holders
<1> QED BY <1>6, <1>7, <1>8, <1>9, <1>10, <1>11, <1>12 DEF IInv

\* Dropping the admission guard of a cancelled request.
LEMMA UnwindStep ==
    ASSUME IInv, NEW r \in Requests, Unwind(r)
    PROVE  IInv'
<1> DEFINE f == FlowOf[r]
           q == Without(waiting[f], r)
           emptied == HasWaiting(f) /\ q = <<>>
<1>0. /\ pc \in [Requests -> RequestStates] /\ ticket \in [Requests -> TicketStates]
      /\ in_hand \in Requests \union {NoRequest} /\ f \in Flows
      /\ waiting \in [Flows -> Seq(Requests)] /\ rr_cursor \in Seq(Flows)
      /\ deficit \in [Flows -> Nat]
    BY WorkloadAssumption DEF IInv, TypeOK
<1>1. /\ pc[r] = "unlisted" /\ pc' = [pc EXCEPT ![r] = "done"]
      /\ waiting' = [waiting EXCEPT ![f] = q]
      /\ deficit' = IF emptied THEN [deficit EXCEPT ![f] = 0] ELSE deficit
      /\ rr_cursor' = IF emptied THEN Without(rr_cursor, f) ELSE rr_cursor
      /\ UNCHANGED <<available_permits, depth, ticket, loop, in_hand>>
    BY DEF Unwind, Goto, loopState
<1>2. /\ q \in Seq(Requests) /\ IsInjective(q)
      /\ Range(q) = Range(waiting[f]) \ {r}
    <2>1. IsInjective(waiting[f]) /\ waiting[f] \in Seq(Requests)
        BY <1>0 DEF IInv, QueuesOwnTheirEntries
    <2> QED BY <2>1, WithoutType, WithoutElements
<1>3. waiting'[f] = q /\ \A g \in Flows \ {f} : waiting'[g] = waiting[g]
    BY <1>0, <1>1
<1>4. \A p \in Requests : /\ Guarded(p)' <=> Guarded(p)
                          /\ p # r => /\ Receiving(p)' <=> Receiving(p)
                                      /\ pc'[p] = pc[p]
                          /\ p = r => ~Receiving(p)' /\ ~Receiving(p) /\ pc'[p] = "done"
    BY <1>0, <1>1 DEF Guarded, Receiving
<1> HIDE DEF f, q
<1>5. CursorExact' /\ rr_cursor' \in Seq(Flows)
    <2>1. CASE emptied
        <3>1. /\ rr_cursor' \in Seq(Flows)
              /\ Range(rr_cursor') = Range(rr_cursor) \ {f}
              /\ IsInjective(rr_cursor')
            BY <1>0, <1>1, <2>1, WithoutType, WithoutElements DEF IInv, CursorExact
        <3>2. {g \in Flows : HasWaiting(g)'} = {g \in Flows : HasWaiting(g)} \ {f}
            BY <1>0, <1>3, <2>1 DEF HasWaiting
        <3> QED BY <3>1, <3>2 DEF IInv, CursorExact
    <2>2. CASE ~emptied
        <3>1. rr_cursor' = rr_cursor
            BY <1>1, <2>2
        <3>2. HasWaiting(f)' <=> HasWaiting(f)
            <4>1. CASE HasWaiting(f)
                BY <1>3, <2>2, <4>1 DEF HasWaiting
            <4>2. CASE ~HasWaiting(f)
                <5>1. Range(waiting[f]) = {} /\ Range(q) = {}
                    BY <1>0, <1>2, <4>2, EmptyIffNoElements DEF HasWaiting
                <5> QED BY <1>2, <1>3, <4>2, <5>1, EmptyIffNoElements DEF HasWaiting
            <4> QED BY <4>1, <4>2
        <3>3. {g \in Flows : HasWaiting(g)'} = {g \in Flows : HasWaiting(g)}
            BY <1>3, <3>2 DEF HasWaiting
        <3> QED BY <1>0, <3>1, <3>3 DEF IInv, CursorExact
    <2> QED BY <2>1, <2>2
<1>6. DepthExact'
    BY <1>1, <1>4, DepthsUntouched DEF IInv
<1>7. TypeOK'
    <2>1. waiting' \in [Flows -> Seq(Requests)]
        BY <1>0, <1>1, <1>2
    <2>2. pc' \in [Requests -> RequestStates]
        BY <1>0, <1>1 DEF RequestStates
    <2>3. deficit' \in [Flows -> Nat]
        <3>1. [deficit EXCEPT ![f] = 0] \in [Flows -> Nat]
            BY <1>0
        <3> QED BY <1>0, <1>1, <3>1
    <2>4. UNCHANGED <<waiting_queue, active, active_flows, notify, kv_pressure,
                      snapshot_dirty, cap, monitor_alive>>
        BY DEF Unwind, monitorState, loopState
    <2>5. enqueued_at' \in [Flows -> Stamps]
        BY DEF Unwind, IInv, TypeOK, Stamps
    <2> QED BY <1>1, <1>5, <2>1, <2>2, <2>3, <2>4, <2>5 DEF IInv, TypeOK
<1>8. TicketMatchesRequest'
    BY <1>0, <1>1, <1>4 DEF IInv, TicketMatchesRequest
<1>9. HandMatchesLoop'
    BY <1>0, <1>1, <1>4, WorkloadAssumption DEF IInv, HandMatchesLoop
<1>10. QueuesOwnTheirEntries'
    <2>1. \A g \in Flows : IsInjective(waiting'[g])
        BY <1>2, <1>3 DEF IInv, QueuesOwnTheirEntries
    <2>2. ASSUME NEW g \in Flows, NEW p \in Range(waiting'[g])
          PROVE  /\ FlowOf[p] = g /\ ticket'[p] = "none" /\ in_hand' # p
                 /\ Receiving(p)' \/ pc'[p] \in {"cancelled", "uncounted", "unlisted"}
        <3>1. p \in Range(waiting[g])
            BY <1>2, <1>3, <2>2
        <3>2. p # r
            <4>1. CASE g = f
                BY <1>2, <1>3, <2>2, <4>1
            <4>2. CASE g # f
                BY <3>1, <4>2 DEF IInv, QueuesOwnTheirEntries, f
            <4> QED BY <4>1, <4>2
        <3>3. p \in Requests
            BY <3>1, QueuedAreRequests DEF IInv
        <3> QED BY <1>1, <1>4, <3>1, <3>2, <3>3 DEF IInv, QueuesOwnTheirEntries
    <2> QED BY <2>1, <2>2 DEF QueuesOwnTheirEntries
<1>11. ReceiversArePlaced'
    <2> SUFFICES ASSUME NEW p \in Requests, Receiving(p)'
                 PROVE  \/ p \in Range(waiting'[FlowOf[p]])
                        \/ in_hand' = p \/ ticket'[p] = "sent"
        BY DEF ReceiversArePlaced
    <2>1. p # r /\ FlowOf[p] \in Flows
        BY <1>4, WorkloadAssumption
    <2>2. \/ p \in Range(waiting[FlowOf[p]])
          \/ in_hand = p \/ ticket[p] = "sent"
        BY <1>4, <2>1 DEF IInv, ReceiversArePlaced
    <2> QED BY <1>1, <1>2, <1>3, <2>1, <2>2
<1>12. PermitConservation'
    BY <1>1, PermitsUntouched DEF IInv, Holders
<1> QED BY <1>5, <1>6, <1>7, <1>8, <1>9, <1>10, <1>11, <1>12 DEF IInv

\* The deficits after a round of accumulation are naturals.
LEMMA AccumulatedType ==
    ASSUME TypeOK
    PROVE  Accumulated \in [Flows -> Nat]
<1>1. \A f \in Flows : deficit[f] \in Nat /\ Weight[f] \in Nat
    BY FlowAssumption DEF TypeOK
<1> QED BY <1>1 DEF Accumulated

\* The common tail of a selection: the head of a waiting flow's queue moves to the
\* loop's hands and takes a permit.
LEMMA ServeStep ==
    ASSUME IInv, NEW f \in Flows, Serve(f), Selecting, f \in Range(rr_cursor),
           deficit' \in [Flows -> Nat]
    PROVE  IInv'
<1> DEFINE r == Head(waiting[f])
           rest == Tail(waiting[f])
           back == IF rest = <<>> THEN <<>> ELSE <<f>>
<1>0. /\ pc \in [Requests -> RequestStates] /\ ticket \in [Requests -> TicketStates]
      /\ waiting \in [Flows -> Seq(Requests)] /\ rr_cursor \in Seq(Flows)
      /\ available_permits \in 0..MaxPermits /\ cap \in 1..MaxPermits
    BY DEF IInv, TypeOK
<1>1. /\ waiting' = [waiting EXCEPT ![f] = rest]
      /\ rr_cursor' = Without(rr_cursor, f) \o back
      /\ available_permits' = available_permits - 1
      /\ in_hand' = r /\ loop' = "granting"
      /\ UNCHANGED <<depth, pc, ticket>>
    BY DEF Serve, requestState
<1>2. in_hand = NoRequest
    BY DEF IInv, HandMatchesLoop, Selecting
<1>3. waiting[f] # <<>> /\ IsInjective(waiting[f])
    BY DEF IInv, CursorExact, HasWaiting, QueuesOwnTheirEntries
<1>4. /\ r \in Range(waiting[f]) /\ r \in Requests
      /\ rest \in Seq(Requests) /\ IsInjective(rest)
      /\ Range(rest) = Range(waiting[f]) \ {r}
    BY <1>0, <1>3, TailElements
<1>5. /\ FlowOf[r] = f /\ ticket[r] = "none"
      /\ Receiving(r) \/ pc[r] \in {"cancelled", "uncounted", "unlisted"}
    BY <1>4 DEF IInv, QueuesOwnTheirEntries
<1>6. waiting'[f] = rest /\ \A g \in Flows \ {f} : waiting'[g] = waiting[g]
    BY <1>0, <1>1
<1>7. \A p \in Requests : /\ Guarded(p)' <=> Guarded(p)
                          /\ Receiving(p)' <=> Receiving(p)
    BY <1>1 DEF Guarded, Receiving
<1> HIDE DEF r, rest
<1>8. CursorExact' /\ rr_cursor' \in Seq(Flows)
    <2> DEFINE w == Without(rr_cursor, f)
    <2>1. w \in Seq(Flows) /\ IsInjective(w) /\ Range(w) = Range(rr_cursor) \ {f}
        BY <1>0, WithoutType, WithoutElements DEF IInv, CursorExact
    <2> HIDE DEF w
    <2>2. CASE rest = <<>>
        <3>1. w \o <<>> = w
            BY <2>1, ConcatEmptySeq
        <3>2. rr_cursor' = w
            BY <1>1, <2>2, <3>1 DEF w
        <3>3. {g \in Flows : HasWaiting(g)'} = {g \in Flows : HasWaiting(g)} \ {f}
            BY <1>6, <2>2 DEF HasWaiting
        <3> QED BY <2>1, <3>2, <3>3 DEF IInv, CursorExact
    <2>3. CASE rest # <<>>
        <3>1. rr_cursor' = Append(w, f)
            BY <1>1, <2>1, <2>3, AppendIsConcat DEF w
        <3>2. /\ Append(w, f) \in Seq(Flows) /\ IsInjective(Append(w, f))
              /\ Range(Append(w, f)) = Range(rr_cursor)
            <4>1. f \notin Range(w)
                BY <2>1
            <4>2. /\ Append(w, f) \in Seq(Flows) /\ IsInjective(Append(w, f))
                  /\ Range(Append(w, f)) = Range(w) \union {f}
                BY <2>1, <4>1, AppendElements
            <4>3. Range(w) \union {f} = Range(rr_cursor)
                BY <2>1
            <4> QED BY <4>2, <4>3
        <3>3. {g \in Flows : HasWaiting(g)'} = {g \in Flows : HasWaiting(g)}
            BY <1>3, <1>6, <2>3 DEF HasWaiting
        <3> QED BY <3>1, <3>2, <3>3 DEF IInv, CursorExact
    <2> QED BY <2>2, <2>3
<1>9. PermitConservation'
    <2>1. r \notin Holders /\ Holders' = Holders \union {r}
        BY <1>1, <1>2, <1>4, <1>5, WorkloadAssumption DEF Holders
    <2> QED BY <1>1, <1>4, <2>1, PermitTaken DEF IInv
<1>10. TypeOK'
    <2>1. available_permits' \in 0..MaxPermits
        BY <1>0, <1>1, ConfigAssumption DEF Selecting, ActivePermits
    <2>2. waiting' \in [Flows -> Seq(Requests)]
        BY <1>0, <1>1, <1>4
    <2>3. enqueued_at' \in [Flows -> Stamps]
        BY DEF IInv, TypeOK, Serve, Stamps
    <2>4. UNCHANGED <<waiting_queue, active, active_flows, notify, kv_pressure,
                      snapshot_dirty, cap, monitor_alive>>
        BY DEF Serve, monitorState
    <2> QED BY <1>1, <1>4, <1>8, <2>1, <2>2, <2>3, <2>4 DEF IInv, TypeOK, LoopStates
<1>11. TicketMatchesRequest'
    BY <1>1, <1>7 DEF IInv, TicketMatchesRequest
<1>12. HandMatchesLoop'
    BY <1>1, <1>4, <1>5, <1>7, WorkloadAssumption DEF HandMatchesLoop
<1>13. QueuesOwnTheirEntries'
    <2>1. \A g \in Flows : IsInjective(waiting'[g])
        BY <1>4, <1>6 DEF IInv, QueuesOwnTheirEntries
    <2>2. ASSUME NEW g \in Flows, NEW p \in Range(waiting'[g])
          PROVE  /\ FlowOf[p] = g /\ ticket'[p] = "none" /\ in_hand' # p
                 /\ Receiving(p)' \/ pc'[p] \in {"cancelled", "uncounted", "unlisted"}
        <3>1. p \in Range(waiting[g])
            BY <1>4, <1>6, <2>2
        <3>2. p # r
            <4>1. CASE g = f
                BY <1>4, <1>6, <2>2, <4>1
            <4>2. CASE g # f
                BY <1>5, <3>1, <4>2 DEF IInv, QueuesOwnTheirEntries
            <4> QED BY <4>1, <4>2
        <3>3. p \in Requests
            BY <3>1, QueuedAreRequests DEF IInv
        <3> QED BY <1>1, <1>7, <3>1, <3>2, <3>3 DEF IInv, QueuesOwnTheirEntries
    <2> QED BY <2>1, <2>2 DEF QueuesOwnTheirEntries
<1>14. ReceiversArePlaced'
    <2> SUFFICES ASSUME NEW p \in Requests, Receiving(p)'
                 PROVE  \/ p \in Range(waiting'[FlowOf[p]])
                        \/ in_hand' = p \/ ticket'[p] = "sent"
        BY DEF ReceiversArePlaced
    <2>1. p # NoRequest /\ FlowOf[p] \in Flows
        BY WorkloadAssumption
    <2>2. p \in Range(waiting[FlowOf[p]]) \/ ticket[p] = "sent"
        BY <1>2, <1>7, <2>1 DEF IInv, ReceiversArePlaced
    <2> QED BY <1>1, <1>4, <1>6, <2>1, <2>2
<1>15. DepthExact'
    BY <1>1, <1>7, DepthsUntouched DEF IInv
<1> QED BY <1>8, <1>9, <1>10, <1>11, <1>12, <1>13, <1>14, <1>15 DEF IInv

\* A fruitless round only rotates the cursor and accumulates.
LEMMA NoneEligibleStep ==
    ASSUME IInv, NoneEligible
    PROVE  IInv'
<1> DEFINE t == Tail(rr_cursor)
           h == Head(rr_cursor)
<1>0. rr_cursor \in Seq(Flows) /\ IsInjective(rr_cursor) /\ rr_cursor # <<>>
    BY DEF IInv, TypeOK, CursorExact, NoneEligible, Selecting
<1>1. /\ deficit' = Accumulated /\ rr_cursor' = Append(t, h)
      /\ UNCHANGED <<waiting, available_permits, depth, ticket, pc, in_hand>>
      /\ loop = "select" /\ loop' \in {"asleep", "check"}
    BY DEF NoneEligible, Selecting, flowState, requestState
<1>2. /\ t \in Seq(Flows) /\ IsInjective(t) /\ h \in Range(rr_cursor) /\ h \in Flows
      /\ Range(t) = Range(rr_cursor) \ {h}
    BY <1>0, TailElements
<1> HIDE DEF t, h
<1>3. /\ rr_cursor' \in Seq(Flows) /\ IsInjective(rr_cursor')
      /\ Range(rr_cursor') = Range(rr_cursor)
    <2>1. h \notin Range(t)
        BY <1>2
    <2>2. /\ Append(t, h) \in Seq(Flows) /\ IsInjective(Append(t, h))
          /\ Range(Append(t, h)) = Range(t) \union {h}
        BY <1>2, <2>1, AppendElements
    <2>3. Range(t) \union {h} = Range(rr_cursor)
        BY <1>2
    <2> QED BY <1>1, <2>2, <2>3
<1>4. TypeOK'
    <2>1. deficit' \in [Flows -> Nat]
        BY <1>1, AccumulatedType DEF IInv
    <2>2. UNCHANGED <<waiting_queue, active, enqueued_at, active_flows, notify,
                      kv_pressure, snapshot_dirty, cap, monitor_alive>>
        BY DEF NoneEligible, flowState, monitorState
    <2> QED BY <1>1, <1>3, <2>1, <2>2 DEF IInv, TypeOK, LoopStates
<1>5. \A p \in Requests : /\ Guarded(p)' <=> Guarded(p)
                          /\ Receiving(p)' <=> Receiving(p)
    BY <1>1 DEF Guarded, Receiving
<1>6. TicketMatchesRequest' /\ HandMatchesLoop'
    BY <1>1, <1>5 DEF IInv, TicketMatchesRequest, HandMatchesLoop
<1>7. QueuesOwnTheirEntries' /\ ReceiversArePlaced'
    BY <1>1 DEF IInv, QueuesOwnTheirEntries, ReceiversArePlaced, Receiving
<1>8. CursorExact'
    BY <1>1, <1>3 DEF IInv, CursorExact, HasWaiting
<1>9. PermitConservation' /\ DepthExact'
    BY <1>1, <1>5, PermitsUntouched, DepthsUntouched DEF IInv, Holders
<1> QED BY <1>4, <1>6, <1>7, <1>8, <1>9 DEF IInv

-----------------------------------------------------------------------------
(* Theorems *)

\* Every step of the scheduler, of a request or of the environment preserves the
\* inductive invariant.
LEMMA NextPreservesIInv == IInv /\ [Next]_vars => IInv'
<1> SUFFICES ASSUME IInv, [Next]_vars
             PROVE  IInv'
    OBVIOUS
<1>1. CASE Wake
    <2>1. TypeOK'
        BY <1>1 DEF IInv, TypeOK, Wake, LoopStates, drrState, flowState, requestState
    <2> QED BY <1>1, <2>1, FrameStep
            DEF Wake, drrState, flowState, requestState
<1>2. CASE Check
    <2>1. cap' \in 1..MaxPermits
        BY <1>2, EffectiveMaxRange DEF Check
    <2>2. loop = "check" /\ loop' \in {"asleep", "select"}
        BY <1>2 DEF Check
    <2>3. TypeOK'
        BY <1>2, <2>1, <2>2 DEF IInv, TypeOK, Check, LoopStates, drrState, flowState,
           monitorState, requestState
    <2> QED BY <1>2, <2>2, <2>3, FrameStep
            DEF Check, drrState, flowState, requestState
<1>3. CASE NoneEligible
    BY <1>3, NoneEligibleStep
<1>4. CASE NothingToSelect
    <2>1. TypeOK'
        BY <1>4 DEF IInv, TypeOK, NothingToSelect, LoopStates, drrState, flowState,
           monitorState, requestState
    <2> QED BY <1>4, <2>1, FrameStep
            DEF NothingToSelect, drrState, flowState, requestState
<1>5. CASE Send
    BY <1>5, SendStep
<1>6. ASSUME NEW f \in Flows, ForceSelect(f)
      PROVE  IInv'
    <2>1. f \in Range(rr_cursor) /\ deficit' \in [Flows -> Nat]
        BY <1>6 DEF ForceSelect, StarvedFlows, IInv, TypeOK
    <2> QED BY <1>6, <2>1, ServeStep DEF ForceSelect
<1>7. ASSUME NEW f \in Flows, CreditSelect(f)
      PROVE  IInv'
    <2>1. f \in Range(rr_cursor)
        BY <1>7 DEF CreditSelect, Eligible, Accumulating
    <2>2. deficit' \in [Flows -> Nat]
        BY <1>7, AccumulatedType DEF CreditSelect, IInv
    <2> QED BY <1>7, <2>1, <2>2, ServeStep DEF CreditSelect
<1>8. ASSUME NEW r \in Requests, Request(r)
      PROVE  IInv'
    <2>1. CASE StampFlow(r)
        <3>1. TypeOK'
            BY <2>1 DEF IInv, TypeOK, StampFlow, Goto, RequestStates, Stamps, drrState,
               monitorState, loopState
        <3>2. Receiving(r)
            BY <2>1 DEF StampFlow, Goto, Receiving
        <3> QED BY <2>1, <3>1, <3>2, ReceiverMoves
                DEF StampFlow, Goto, drrState, loopState
    <2>2. CASE NotifyLoop(r)
        <3>1. TypeOK'
            BY <2>2 DEF IInv, TypeOK, NotifyLoop, Goto, RequestStates, drrState,
               flowState, monitorState, loopState
        <3>2. Receiving(r)
            BY <2>2 DEF NotifyLoop, Goto, Receiving
        <3> QED BY <2>2, <3>1, <3>2, ReceiverMoves
                DEF NotifyLoop, Goto, drrState, flowState, loopState
    <2> QED BY <1>8, <2>1, <2>2, CheckDepthStep, NewGuardStep, EnqueueStep, ReceiveStep,
               CancelStep, DropTicketStep, ReturnPermitStep, NotifyReturnStep,
               UnwindStep, UncountStep, ListFlowStep, ActivateStep, UnlistStep
            DEF Request
<1>9. CASE PublishSnapshot
    <2>1. TypeOK'
        BY <1>9 DEF IInv, TypeOK, PublishSnapshot, drrState, flowState, loopState,
           requestState
    <2> QED BY <1>9, <2>1, FrameStep
            DEF PublishSnapshot, drrState, flowState, loopState, requestState
<1>10. ASSUME NEW f \in Flows, Age(f)
       PROVE  IInv'
    <2>1. TypeOK'
        BY <1>10 DEF IInv, TypeOK, Age, Stamps, drrState, monitorState, loopState,
           requestState
    <2> QED BY <1>10, <2>1, FrameStep DEF Age, drrState, loopState, requestState
<1>11. CASE UNCHANGED vars
    <2>1. TypeOK'
        BY <1>11 DEF IInv, TypeOK, vars, drrState, flowState, monitorState, loopState,
           requestState
    <2> QED BY <1>11, <2>1, FrameStep
            DEF vars, drrState, flowState, loopState, requestState
<1> QED BY <1>1, <1>2, <1>3, <1>4, <1>5, <1>6, <1>7, <1>8, <1>9, <1>10, <1>11
        DEF Next, Loop, Environment, Quiescent

\* The scheduler starts with an empty queue and every permit in the pool.
LEMMA InitEstablishesIInv == Init => IInv
<1> SUFFICES ASSUME Init PROVE IInv
    OBVIOUS
<1>1. TypeOK
    <2>1. <<>> \in Seq(Requests) /\ <<>> \in Seq(Flows)
        BY EmptySeq
    <2>2. /\ waiting \in [Flows -> Seq(Requests)] /\ rr_cursor \in Seq(Flows)
          /\ waiting_queue \in Seq(Flows)
        BY <2>1 DEF Init
    <2>3. available_permits \in 0..MaxPermits /\ cap \in 1..MaxPermits
        BY ConfigAssumption DEF Init
    <2>4. /\ deficit \in [Flows -> Nat] /\ depth \in [Flows -> Nat]
          /\ active \in [Flows -> Int] /\ active_flows \in Int
        BY DEF Init
    <2>5. /\ enqueued_at \in [Flows -> Stamps] /\ loop \in LoopStates
          /\ pc \in [Requests -> RequestStates] /\ ticket \in [Requests -> TicketStates]
        BY DEF Init, Stamps, LoopStates, RequestStates, TicketStates
    <2>6. /\ notify \in BOOLEAN /\ snapshot_dirty \in BOOLEAN
          /\ monitor_alive \in BOOLEAN
          /\ kv_pressure \in Pressures /\ in_hand \in Requests \union {NoRequest}
        BY DEF Init
    <2> QED BY <2>2, <2>3, <2>4, <2>5, <2>6 DEF TypeOK
<1>2. TicketMatchesRequest /\ HandMatchesLoop /\ ReceiversArePlaced
    BY DEF Init, TicketMatchesRequest, HandMatchesLoop, ReceiversArePlaced, Receiving
<1>3. QueuesOwnTheirEntries /\ CursorExact
    <2>1. Range(<<>>) = {} /\ IsInjective(<<>>)
        BY DEF Range, IsInjective
    <2>2. \A f \in Flows : waiting[f] = <<>>
        BY DEF Init
    <2>3. QueuesOwnTheirEntries
        BY <2>1, <2>2 DEF QueuesOwnTheirEntries
    <2>4. CursorExact
        BY <2>1, <2>2 DEF Init, CursorExact, HasWaiting
    <2> QED BY <2>3, <2>4
<1>4. PermitConservation
    <2>1. Holders = {}
        BY WorkloadAssumption DEF Init, Holders
    <2> QED BY <2>1, FS_EmptySet, ConfigAssumption DEF Init, PermitConservation
<1>5. DepthExact
    <2>1. \A f \in Flows : {r \in Requests : FlowOf[r] = f /\ Guarded(r)} = {}
        BY DEF Init, Guarded
    <2> QED BY <2>1, FS_EmptySet DEF Init, DepthExact
<1> QED BY <1>1, <1>2, <1>3, <1>4, <1>5 DEF IInv

\* The inductive invariant holds in every reachable state.
THEOREM Invariance == Spec => []IInv
BY InitEstablishesIInv, NextPreservesIInv, PTL DEF Spec

\* All of the scheduler's variables keep their types; in particular the permit
\* count stays between 0 and max_active_flows and no depth counter underflows,
\* although both are changed by unchecked u32 arithmetic.
THEOREM TypeCorrect == Spec => []TypeOK
BY Invariance, PTL DEF IInv

\* No interleaving of grants, failed sends, cancellations and completions loses
\* or duplicates a permit.
THEOREM PermitsConserved == Spec => []PermitConservation
BY Invariance, PTL DEF IInv

\* The round-robin cursor is exactly the set of flows with queued requests.
THEOREM CursorIsExact == Spec => []CursorExact
BY Invariance, PTL DEF IInv

\* Every admission guard is counted once and uncounted once.
THEOREM DepthIsExact == Spec => []DepthExact
BY Invariance, PTL DEF IInv

\* A receiver waits in exactly one place: no cancellation of a sibling, failed
\* send or force-selection drops its Pending or serves it twice.
THEOREM NoRequestIsLost == Spec => []NoRequestLost
<1>1. IInv => NoRequestLost
    <2> SUFFICES ASSUME IInv, NEW r \in Requests, Receiving(r)
                 PROVE  LET places == {i \in DOMAIN waiting[FlowOf[r]] :
                                         waiting[FlowOf[r]][i] = r}
                        IN  Cardinality(places) + (IF in_hand = r THEN 1 ELSE 0)
                              + (IF ticket[r] = "sent" THEN 1 ELSE 0) = 1
        BY DEF NoRequestLost
    <2> DEFINE q == waiting[FlowOf[r]]
               places == {i \in DOMAIN q : q[i] = r}
    <2>1. FlowOf[r] \in Flows /\ IsInjective(q)
        BY WorkloadAssumption DEF IInv, QueuesOwnTheirEntries
    <2>2. CASE r \in Range(q)
        <3>1. PICK i \in DOMAIN q : q[i] = r
            BY <2>2 DEF Range
        <3>2. places = {i}
            BY <2>1, <3>1 DEF IsInjective
        <3>3. Cardinality(places) = 1
            BY <3>2, FS_Singleton
        <3>4. in_hand # r /\ ticket[r] # "sent"
            BY <2>1, <2>2 DEF IInv, QueuesOwnTheirEntries
        <3> QED BY <3>3, <3>4
    <2>3. CASE r \notin Range(q)
        <3>1. places = {}
            BY <2>3 DEF Range
        <3>2. Cardinality(places) = 0
            BY <3>1, FS_EmptySet
        <3>3. in_hand = r \/ ticket[r] = "sent"
            BY <2>3 DEF IInv, ReceiversArePlaced
        <3>4. in_hand = r => ticket[r] = "none"
            BY WorkloadAssumption DEF IInv, HandMatchesLoop
        <3> QED BY <3>2, <3>3, <3>4
    <2> QED BY <2>2, <2>3
<1> QED BY <1>1, Invariance, PTL

-----------------------------------------------------------------------------
(* The list behind GET /queue *)

\* The positions of y in a sequence.
Places(s, y) == {k \in DOMAIN s : s[k] = y}

\* A sequence is finite, so an entry is counted by a natural number.
LEMMA PlacesFinite ==
    ASSUME NEW S, NEW s \in Seq(S), NEW y
    PROVE  IsFiniteSet(Places(s, y)) /\ Cardinality(Places(s, y)) \in Nat
<1>1. DOMAIN s = 1..Len(s) /\ Len(s) \in Nat
    BY LenProperties
<1>2. IsFiniteSet(1..Len(s))
    BY <1>1, FS_Interval
<1>3. Places(s, y) \subseteq 1..Len(s)
    BY <1>1 DEF Places
<1> QED BY <1>2, <1>3, FS_Subset, FS_CardinalityType

\* push_back adds one occurrence of what it pushes.
LEMMA AppendCounts ==
    ASSUME NEW S, NEW s \in Seq(S), NEW x \in S, NEW y
    PROVE  Cardinality(Places(Append(s, x), y))
             = IF x = y THEN Cardinality(Places(s, y)) + 1 ELSE Cardinality(Places(s, y))
<1>1. /\ DOMAIN s = 1..Len(s) /\ Len(s) \in Nat
      /\ DOMAIN Append(s, x) = 1..(Len(s) + 1)
      /\ \A k \in 1..Len(s) : Append(s, x)[k] = s[k]
      /\ Append(s, x)[Len(s) + 1] = x
    BY LenProperties, AppendProperties
<1>2. CASE x = y
    <2>1. Places(Append(s, x), y) = Places(s, y) \union {Len(s) + 1}
        BY <1>1, <1>2 DEF Places
    <2>2. Len(s) + 1 \notin Places(s, y)
        BY <1>1 DEF Places
    <2> QED BY <1>2, <2>1, <2>2, PlacesFinite, FS_AddElement
<1>3. CASE x # y
    <2>1. Places(Append(s, x), y) = Places(s, y)
        BY <1>1, <1>3 DEF Places
    <2> QED BY <1>3, <2>1
<1> QED BY <1>2, <1>3

\* remove_from_queue takes one occurrence of what it removes and moves the others
\* without losing one.
LEMMA WithoutFirstCounts ==
    ASSUME NEW S, NEW s \in Seq(S), NEW x \in Range(s), NEW y
    PROVE  Cardinality(Places(WithoutFirst(s, x), y))
             = IF x = y THEN Cardinality(Places(s, y)) - 1 ELSE Cardinality(Places(s, y))
<1> DEFINE w == WithoutFirst(s, x)
<1>1. PICK i \in 1..Len(s) :
          /\ s[i] = x
          /\ w \in Seq(S)
          /\ Len(w) = Len(s) - 1
          /\ \A k \in 1..(Len(s) - 1) : w[k] = IF k < i THEN s[k] ELSE s[k + 1]
    BY WithoutFirstAt
<1> HIDE DEF w
<1>2. DOMAIN s = 1..Len(s) /\ Len(s) \in Nat /\ DOMAIN w = 1..(Len(s) - 1)
    BY <1>1, LenProperties
<1> DEFINE A == Places(w, y)
           B == Places(s, y) \ {i}
           up == [k \in A |-> IF k < i THEN k ELSE k + 1]
<1>3. up \in [A -> B]
    <2> SUFFICES ASSUME NEW k \in A
                 PROVE  (IF k < i THEN k ELSE k + 1) \in B
        OBVIOUS
    <2>1. k \in 1..(Len(s) - 1) /\ w[k] = y
        BY <1>2 DEF Places
    <2> QED BY <1>1, <1>2, <2>1 DEF Places
<1>4. IsInjective(up)
    <2> SUFFICES ASSUME NEW k \in A, NEW m \in A, up[k] = up[m]
                 PROVE  k = m
        BY DEF IsInjective
    <2>1. k \in Nat /\ m \in Nat
        BY <1>2 DEF Places
    <2> QED BY <1>1, <2>1
<1>5. ASSUME NEW m \in B
      PROVE  \E k \in A : up[k] = m
    <2>1. m \in 1..Len(s) /\ s[m] = y /\ m # i
        BY <1>2 DEF Places
    <2>2. CASE m < i
        <3>1. m \in A
            BY <1>1, <1>2, <2>1, <2>2 DEF Places
        <3> QED BY <2>2, <3>1
    <2>3. CASE m > i
        <3>1. m - 1 \in 1..(Len(s) - 1) /\ ~(m - 1 < i) /\ (m - 1) + 1 = m
            BY <1>1, <1>2, <2>1, <2>3
        <3>2. w[m - 1] = y
            BY <1>1, <2>1, <3>1
        <3>3. m - 1 \in A
            BY <1>2, <3>1, <3>2 DEF Places
        <3> QED BY <3>1, <3>3
    <2> QED BY <1>1, <2>1, <2>2, <2>3
<1>6. up \in Bijection(A, B)
    BY <1>3, <1>4, <1>5 DEF Bijection, Injection, Surjection
<1>7. Cardinality(B) = Cardinality(A)
    <2>1. IsFiniteSet(A)
        BY <1>1, PlacesFinite
    <2>2. ExistsBijection(A, B)
        BY <1>6 DEF ExistsBijection
    <2> HIDE DEF A, B
    <2> QED BY <2>1, <2>2, FS_Bijection
<1>8. CASE x = y
    <2>1. i \in Places(s, y)
        BY <1>1, <1>2, <1>8 DEF Places
    <2> QED BY <1>7, <1>8, <2>1, PlacesFinite, FS_RemoveElement DEF w
<1>9. CASE x # y
    <2>1. B = Places(s, y)
        BY <1>1, <1>9 DEF Places
    <2> QED BY <1>7, <1>9, <2>1 DEF w
<1> QED BY <1>8, <1>9

\* The requests a flow is listed for.
ListedOf(f) == {r \in Requests : FlowOf[r] = f /\ Listed(r)}

LEMMA ListByPlaces ==
    QueueListExact <=>
        \A f \in Flows : Cardinality(Places(waiting_queue, f)) = Cardinality(ListedOf(f))
BY DEF QueueListExact, Places, ListedOf

LEMMA ListByPlacesNext ==
    QueueListExact' <=>
        \A f \in Flows : Cardinality(Places(waiting_queue', f)) = Cardinality(ListedOf(f)')
BY DEF QueueListExact, Places, ListedOf

\* A step that neither lists nor unlists.
LEMMA ListKept ==
    ASSUME QueueListExact, UNCHANGED waiting_queue,
           \A r \in Requests : Listed(r)' <=> Listed(r)
    PROVE  QueueListExact'
<1>1. \A f \in Flows : ListedOf(f)' = ListedOf(f)
    BY DEF ListedOf
<1> QED BY <1>1, ListByPlaces, ListByPlacesNext

\* A request is listed: one entry of its flow more.
LEMMA ListGrows ==
    ASSUME IInv, QueueListExact, NEW r \in Requests, ~Listed(r), Listed(r)',
           \A q \in Requests \ {r} : Listed(q)' <=> Listed(q),
           waiting_queue' = Append(waiting_queue, FlowOf[r])
    PROVE  QueueListExact'
<1>1. FlowOf[r] \in Flows /\ waiting_queue \in Seq(Flows)
    BY WorkloadAssumption DEF IInv, TypeOK
<1> SUFFICES ASSUME NEW f \in Flows
             PROVE  Cardinality(Places(waiting_queue', f)) = Cardinality(ListedOf(f)')
    BY ListByPlacesNext
<1>2. Cardinality(Places(waiting_queue, f)) = Cardinality(ListedOf(f))
    BY ListByPlaces
<1>3. IsFiniteSet(ListedOf(f))
    BY RequestSetsFinite DEF ListedOf
<1>4. CASE f = FlowOf[r]
    <2>1. ListedOf(f)' = ListedOf(f) \union {r} /\ r \notin ListedOf(f)
        BY <1>4 DEF ListedOf
    <2>2. Cardinality(ListedOf(f)') = Cardinality(ListedOf(f)) + 1
        BY <1>3, <2>1, FS_AddElement
    <2> QED BY <1>1, <1>2, <1>4, <2>2, AppendCounts
<1>5. CASE f # FlowOf[r]
    <2>1. ListedOf(f)' = ListedOf(f)
        BY <1>5 DEF ListedOf
    <2> QED BY <1>1, <1>2, <1>5, <2>1, AppendCounts
<1> QED BY <1>4, <1>5

\* A request is taken off: its flow has an entry, and exactly one entry goes.
LEMMA ListShrinks ==
    ASSUME IInv, QueueListExact, NEW r \in Requests, Listed(r), ~Listed(r)',
           \A q \in Requests \ {r} : Listed(q)' <=> Listed(q),
           waiting_queue' = WithoutFirst(waiting_queue, FlowOf[r])
    PROVE  QueueListExact'
<1>1. FlowOf[r] \in Flows /\ waiting_queue \in Seq(Flows)
    BY WorkloadAssumption DEF IInv, TypeOK
<1>2. FlowOf[r] \in Range(waiting_queue)
    <2>1. r \in ListedOf(FlowOf[r]) /\ IsFiniteSet(ListedOf(FlowOf[r]))
        BY RequestSetsFinite DEF ListedOf
    <2>2. Cardinality(ListedOf(FlowOf[r])) # 0
        BY <2>1, FS_EmptySet
    <2>3. Places(waiting_queue, FlowOf[r]) # {}
        BY <1>1, <2>2, ListByPlaces, FS_EmptySet
    <2> QED BY <2>3 DEF Places, Range
<1> SUFFICES ASSUME NEW f \in Flows
             PROVE  Cardinality(Places(waiting_queue', f)) = Cardinality(ListedOf(f)')
    BY ListByPlacesNext
<1>3. Cardinality(Places(waiting_queue, f)) = Cardinality(ListedOf(f))
    BY ListByPlaces
<1>4. IsFiniteSet(ListedOf(f))
    BY RequestSetsFinite DEF ListedOf
<1>5. CASE f = FlowOf[r]
    <2>1. ListedOf(f)' = ListedOf(f) \ {r} /\ r \in ListedOf(f)
        BY <1>5 DEF ListedOf
    <2>2. Cardinality(ListedOf(f)') = Cardinality(ListedOf(f)) - 1
        BY <1>4, <2>1, FS_RemoveElement
    <2> QED BY <1>1, <1>2, <1>3, <1>5, <2>2, WithoutFirstCounts
<1>6. CASE f # FlowOf[r]
    <2>1. ListedOf(f)' = ListedOf(f)
        BY <1>6 DEF ListedOf
    <2> QED BY <1>1, <1>2, <1>3, <1>6, <2>1, WithoutFirstCounts
<1> QED BY <1>5, <1>6

\* Every step keeps the list and the requests on it in agreement.
LEMMA NextKeepsList == IInv /\ QueueListExact /\ [Next]_vars => QueueListExact'
<1> SUFFICES ASSUME IInv, QueueListExact, [Next]_vars
             PROVE  QueueListExact'
    OBVIOUS
<1>0. pc \in [Requests -> RequestStates]
    BY DEF IInv, TypeOK
<1>1. ASSUME NEW r \in Requests, ListFlow(r)
      PROVE  QueueListExact'
    <2>1. /\ pc[r] = "counted" /\ pc' = [pc EXCEPT ![r] = "guarded"]
          /\ waiting_queue' = Append(waiting_queue, FlowOf[r])
        BY <1>1 DEF ListFlow, Goto
    <2>2. /\ ~Listed(r) /\ Listed(r)'
          /\ \A q \in Requests \ {r} : Listed(q)' <=> Listed(q)
        BY <1>0, <2>1 DEF Listed, Guarded
    <2> QED BY <2>1, <2>2, ListGrows
<1>2. ASSUME NEW r \in Requests, Activate(r) \/ Unlist(r)
      PROVE  QueueListExact'
    <2>1. /\ pc[r] \in {"consumed", "uncounted"}
          /\ pc' = [pc EXCEPT ![r] = "active"] \/ pc' = [pc EXCEPT ![r] = "unlisted"]
          /\ waiting_queue' = WithoutFirst(waiting_queue, FlowOf[r])
        BY <1>2 DEF Activate, Unlist, Goto
    <2>2. /\ Listed(r) /\ ~Listed(r)'
          /\ \A q \in Requests \ {r} : Listed(q)' <=> Listed(q)
        BY <1>0, <2>1 DEF Listed, Guarded
    <2> QED BY <2>1, <2>2, ListShrinks
<1>3. ASSUME NEW r \in Requests, Request(r), ~ListFlow(r), ~Activate(r), ~Unlist(r)
      PROVE  QueueListExact'
    <2>1. UNCHANGED waiting_queue
        BY <1>3 DEF Request, CheckDepth, NewGuard, Enqueue, StampFlow, NotifyLoop, Receive,
                    Cancel, DropTicket, ReturnPermit, NotifyReturn, Uncount, Unwind, flowState
    <2>2. \A q \in Requests : Listed(q)' <=> Listed(q)
        <3>1. CASE CheckDepth(r) \/ NewGuard(r) \/ Enqueue(r) \/ StampFlow(r) \/ NotifyLoop(r)
            BY <1>0, <3>1 DEF CheckDepth, NewGuard, Enqueue, StampFlow, NotifyLoop, Goto,
                              Listed, Guarded
        <3>2. CASE Receive(r) \/ Cancel(r) \/ Uncount(r) \/ Unwind(r)
            BY <1>0, <3>2 DEF Receive, Cancel, Uncount, Unwind, Goto, Listed, Guarded
        <3>3. CASE DropTicket(r)
            BY <1>0, <3>3 DEF DropTicket, Goto, Listed, Guarded
        <3>4. CASE ReturnPermit(r) \/ NotifyReturn(r)
            BY <1>0, <3>4 DEF ReturnPermit, NotifyReturn, Listed, Guarded
        <3> QED BY <1>3, <3>1, <3>2, <3>3, <3>4 DEF Request
    <2> QED BY <2>1, <2>2, ListKept
<1>4. CASE Loop \/ Environment \/ Quiescent \/ UNCHANGED vars
    <2>1. UNCHANGED <<waiting_queue, pc>>
        BY <1>4 DEF Loop, Wake, Check, NoneEligible, NothingToSelect, Send,
                    ForceSelect, CreditSelect, Serve, Environment, PublishSnapshot, Age,
                    Quiescent, vars, flowState, requestState
    <2>2. \A q \in Requests : Listed(q)' <=> Listed(q)
        BY <2>1 DEF Listed, Guarded
    <2> QED BY <2>1, <2>2, ListKept
<1> QED BY <1>1, <1>2, <1>3, <1>4 DEF Next

\* The list GET /queue reads has one entry for each request between its guard's push
\* and removal, for every workload: siblings may remove each other's entries, and the
\* depths change at other moments, but never is an entry lost or left behind.
THEOREM ListIsExact == Spec => []QueueListExact
<1>1. Init => QueueListExact
    <2> SUFFICES ASSUME Init, NEW f \in Flows
                 PROVE  Cardinality(Places(waiting_queue, f)) = Cardinality(ListedOf(f))
        BY ListByPlaces
    <2>1. Places(waiting_queue, f) = {} /\ ListedOf(f) = {}
        BY DEF Init, Places, ListedOf, Listed, Guarded
    <2> QED BY <2>1
<1> QED BY <1>1, Invariance, NextKeepsList, PTL DEF Spec

-----------------------------------------------------------------------------
(* No lost wake-up *)

\* What will bring the loop out of its sleep.
WakeUpComing ==
    \/ notify
    \/ monitor_alive /\ snapshot_dirty
    \/ \E r \in Requests : pc[r] \in {"pushed", "stamped"} \/ ticket[r] = "returned"

\* There is a request to serve and a permit to serve it with.
Servable ==
    /\ \E f \in Flows : HasWaiting(f) /\ Weight[f] > 0
    /\ ActivePermits < effective_max(kv_pressure)

\* The cap the loop read is still the current one when it selects, or the snapshot
\* that changed it is waiting to be seen; and a monitor that publishes has not been
\* given up.
CapIsCurrent ==
    /\ loop = "select" => \/ cap = effective_max(kv_pressure)
                          \/ monitor_alive /\ snapshot_dirty
    /\ SenderAlive => monitor_alive

\* The inductive form of NoLostWakeup: the loop may also fall asleep on a cap that it
\* read before the pressure changed.
WakeInv == NoLostWakeup /\ CapIsCurrent

\* Requests: whoever queues work or frees a permit is on its way to notify the loop,
\* and nobody takes a wake-up back.
LEMMA RequestKeepsWake ==
    ASSUME IInv, WakeInv, NEW r \in Requests, Request(r)
    PROVE  WakeInv'
<1>1. UNCHANGED <<loop, cap, kv_pressure, snapshot_dirty, monitor_alive>>
    BY DEF Request, CheckDepth, NewGuard, ListFlow, Enqueue, StampFlow, NotifyLoop, Receive,
           Activate, Cancel, DropTicket, ReturnPermit, NotifyReturn, Uncount, Unlist, Unwind,
           monitorState, loopState
<1>2. CapIsCurrent'
    BY <1>1 DEF WakeInv, CapIsCurrent
<1>3. pc \in [Requests -> RequestStates] /\ ticket \in [Requests -> TicketStates]
    BY DEF IInv, TypeOK
<1>4. WakeUpComing => WakeUpComing'
    <2>1. ASSUME notify PROVE notify'
        BY <2>1 DEF Request, CheckDepth, NewGuard, ListFlow, Enqueue, StampFlow, NotifyLoop,
                    Receive, Activate, Cancel, DropTicket, ReturnPermit, NotifyReturn,
                    Uncount, Unlist, Unwind
    <2>2. ASSUME NEW s \in Requests,
                 pc[s] \in {"pushed", "stamped"} \/ ticket[s] = "returned"
          PROVE  notify' \/ pc'[s] \in {"pushed", "stamped"} \/ ticket'[s] = "returned"
        <3>1. CASE CheckDepth(r) \/ NewGuard(r) \/ ListFlow(r) \/ Enqueue(r)
            BY <1>3, <2>2, <3>1 DEF CheckDepth, NewGuard, ListFlow, Enqueue, Goto
        <3>2. CASE StampFlow(r) \/ NotifyLoop(r) \/ Receive(r) \/ Activate(r) \/ Cancel(r)
            BY <1>3, <2>2, <3>2 DEF StampFlow, NotifyLoop, Receive, Activate, Cancel, Goto
        <3>3. CASE DropTicket(r)
            BY <1>3, <2>2, <3>3 DEF DropTicket, Goto
        <3>4. CASE ReturnPermit(r) \/ NotifyReturn(r)
            BY <1>3, <2>2, <3>4 DEF ReturnPermit, NotifyReturn
        <3>5. CASE Uncount(r) \/ Unlist(r) \/ Unwind(r)
            BY <1>3, <2>2, <3>5 DEF Uncount, Unlist, Unwind, Goto
        <3> QED BY <3>1, <3>2, <3>3, <3>4, <3>5 DEF Request
    <2> QED BY <1>1, <2>1, <2>2 DEF WakeUpComing
<1>5. Servable' => Servable \/ WakeUpComing'
    <2>1. CASE Enqueue(r)
        <3>1. pc'[r] = "pushed"
            BY <1>3, <2>1 DEF Enqueue, Goto
        <3> QED BY <3>1 DEF WakeUpComing
    <2>2. CASE ReturnPermit(r)
        <3>1. ticket'[r] = "returned"
            BY <1>3, <2>2 DEF ReturnPermit
        <3> QED BY <3>1 DEF WakeUpComing
    <2>3. CASE Unwind(r)
        <3>1. available_permits' = available_permits
            BY <2>3 DEF Unwind
        <3>2. ASSUME NEW f \in Flows, HasWaiting(f)' PROVE HasWaiting(f)
            <4>1. waiting \in [Flows -> Seq(Requests)]
                BY DEF IInv, TypeOK
            <4>2. Without(<<>>, r) = <<>>
                BY DEF Without, Range
            <4> QED BY <2>3, <3>2, <4>1, <4>2 DEF Unwind, HasWaiting
        <3> QED BY <1>1, <3>1, <3>2 DEF Servable, ActivePermits
    <2>4. CASE ~(Enqueue(r) \/ ReturnPermit(r) \/ Unwind(r))
        <3>1. UNCHANGED <<waiting, available_permits>>
            BY <2>4 DEF Request, CheckDepth, NewGuard, ListFlow, StampFlow, NotifyLoop,
                        Receive, Activate, Cancel, DropTicket, NotifyReturn, Uncount, Unlist,
                        drrState
        <3> QED BY <1>1, <3>1 DEF Servable, ActivePermits, HasWaiting
    <2> QED BY <2>1, <2>2, <2>3, <2>4
<1>6. NoLostWakeup'
    BY <1>1, <1>4, <1>5 DEF WakeInv, NoLostWakeup, Servable, WakeUpComing
<1> QED BY <1>2, <1>6 DEF WakeInv

\* The loop: it goes to sleep only when it has seen that there is nothing to serve, or
\* with a snapshot unseen.
LEMMA LoopKeepsWake ==
    ASSUME IInv, WakeInv, Loop
    PROVE  WakeInv'
<1>0. Range(rr_cursor) = {f \in Flows : HasWaiting(f)}
    BY DEF IInv, CursorExact
<1>1. CASE Wake
    BY <1>1 DEF Wake, WakeInv, CapIsCurrent, NoLostWakeup
<1>2. CASE Check
    <2>1. /\ cap' = effective_max(kv_pressure)
          /\ loop' = "asleep" => ActivePermits >= cap' \/ rr_cursor = <<>>
          /\ UNCHANGED <<waiting, available_permits, kv_pressure, snapshot_dirty,
                         monitor_alive>>
        BY <1>2 DEF Check, drrState, monitorState
    <2>2. CapIsCurrent'
        BY <2>1 DEF WakeInv, CapIsCurrent
    <2>3. loop' = "asleep" => ~Servable'
        <3>1. rr_cursor = <<>> => \A f \in Flows : ~HasWaiting(f)
            BY <1>0 DEF Range
        <3>2. effective_max(kv_pressure) \in Nat /\ ActivePermits \in Int
            BY EffectiveMaxRange, ConfigAssumption DEF IInv, TypeOK, ActivePermits
        <3> QED BY <2>1, <3>1, <3>2 DEF Servable, HasWaiting, ActivePermits
    <2> QED BY <2>2, <2>3 DEF WakeInv, NoLostWakeup, Servable
<1>3. CASE NoneEligible
    <2>1. /\ loop' = "asleep" => Accumulating = {}
          /\ loop' # "select"
          /\ UNCHANGED <<waiting, monitor_alive>>
        BY <1>3 DEF NoneEligible
    <2>2. loop' = "asleep" => ~\E f \in Flows : HasWaiting(f)' /\ Weight[f] > 0
        BY <1>0, <2>1 DEF Accumulating, HasWaiting
    <2> QED BY <2>1, <2>2 DEF WakeInv, CapIsCurrent, NoLostWakeup
<1>4. CASE NothingToSelect
    <2>1. /\ loop = "select" /\ loop' = "asleep"
          /\ ActivePermits >= cap \/ rr_cursor = <<>>
          /\ UNCHANGED <<waiting, available_permits, kv_pressure, snapshot_dirty,
                         monitor_alive>>
        BY <1>4 DEF NothingToSelect, drrState, monitorState
    <2>2. rr_cursor = <<>> => \A f \in Flows : ~HasWaiting(f)
        BY <1>0 DEF Range
    <2>3. effective_max(kv_pressure) \in Nat /\ ActivePermits \in Int
        BY EffectiveMaxRange, ConfigAssumption DEF IInv, TypeOK, ActivePermits
    <2>4. Servable' => monitor_alive /\ snapshot_dirty
        BY <2>1, <2>2, <2>3 DEF WakeInv, CapIsCurrent, Servable, HasWaiting, ActivePermits
    <2>5. NoLostWakeup'
        BY <2>1, <2>4 DEF NoLostWakeup, Servable
    <2> QED BY <2>1, <2>5 DEF WakeInv, CapIsCurrent
<1>5. CASE Send
    BY <1>5 DEF Send, WakeInv, CapIsCurrent, NoLostWakeup
<1>6. CASE \E f \in Flows : ForceSelect(f) \/ CreditSelect(f)
    <2>1. loop' = "granting" /\ monitor_alive' = monitor_alive
        BY <1>6 DEF ForceSelect, CreditSelect, Serve
    <2> QED BY <2>1 DEF WakeInv, CapIsCurrent, NoLostWakeup
<1> QED BY <1>1, <1>2, <1>3, <1>4, <1>5, <1>6 DEF Loop

\* A new snapshot is its own wake-up; time and stuttering change nothing here.
LEMMA EnvironmentKeepsWake ==
    ASSUME IInv, WakeInv, Environment \/ Quiescent \/ UNCHANGED vars
    PROVE  WakeInv'
<1>1. CASE PublishSnapshot
    <2>1. SenderAlive /\ snapshot_dirty' = TRUE /\ monitor_alive' = monitor_alive
        BY <1>1 DEF PublishSnapshot, loopState
    <2>2. monitor_alive' /\ snapshot_dirty'
        BY <2>1 DEF WakeInv, CapIsCurrent
    <2> QED BY <2>2 DEF WakeInv, CapIsCurrent, NoLostWakeup
<1>2. CASE ~PublishSnapshot
    <2>1. UNCHANGED <<waiting, available_permits, notify, kv_pressure, snapshot_dirty, loop,
                      cap, monitor_alive, pc, ticket>>
        BY <1>2 DEF Environment, Age, Quiescent, vars, drrState, monitorState, loopState,
                    requestState
    <2>2. CapIsCurrent'
        BY <2>1 DEF WakeInv, CapIsCurrent
    <2>3. NoLostWakeup'
        BY <2>1 DEF WakeInv, NoLostWakeup, HasWaiting, ActivePermits
    <2> QED BY <2>2, <2>3 DEF WakeInv
<1> QED BY <1>1, <1>2

\* The admission loop never sleeps on a request it could serve without a wake-up stored
\* or on its way, for every workload, cap table and monitor.
THEOREM NoWakeupIsLost == Spec => []NoLostWakeup
<1>1. Init => WakeInv
    BY DEF Init, WakeInv, CapIsCurrent, NoLostWakeup, HasWaiting
<1>2. IInv /\ WakeInv /\ [Next]_vars => WakeInv'
    BY RequestKeepsWake, LoopKeepsWake, EnvironmentKeepsWake DEF Next
<1>3. WakeInv => NoLostWakeup
    BY DEF WakeInv
<1> QED BY <1>1, <1>2, <1>3, Invariance, PTL DEF Spec

-----------------------------------------------------------------------------
(* Who is passed over by whom *)

\* Wherever a and b are in s, a comes first.
Before(s, a, b) == \A i, j \in DOMAIN s : s[i] = a /\ s[j] = b => i < j

\* A flow is behind every flow it was passed by: selection sends the winner to the back
\* of the cursor, or out of it, and whoever enters does so at the back.
PassedInOrder ==
    /\ passed \in [Flows -> SUBSET Flows]
    /\ \A f \in Flows : f \notin Range(rr_cursor) => passed[f] = {}
    /\ \A f \in Flows : \A g \in passed[f] : g # f /\ Before(rr_cursor, f, g)

\* Removal keeps the order of those that stay.
LEMMA WithoutKeepsOrder ==
    ASSUME NEW S, NEW s \in Seq(S), NEW x, NEW a, NEW b, Before(s, a, b)
    PROVE  Before(Without(s, x), a, b)
<1> DEFINE w == Without(s, x)
<1>1. CASE x \notin Range(s)
    BY <1>1 DEF Without
<1>2. CASE x \in Range(s)
    <2>1. PICK i \in 1..Len(s) :
              /\ s[i] = x
              /\ w \in Seq(S)
              /\ Len(w) = Len(s) - 1
              /\ \A k \in 1..(Len(s) - 1) : w[k] = IF k < i THEN s[k] ELSE s[k + 1]
        BY <1>2, WithoutAt
    <2> HIDE DEF w
    <2>2. DOMAIN w = 1..(Len(s) - 1) /\ DOMAIN s = 1..Len(s) /\ Len(s) \in Nat
        BY <2>1, LenProperties
    <2> SUFFICES ASSUME NEW p \in DOMAIN w, NEW q \in DOMAIN w, w[p] = a, w[q] = b
                 PROVE  p < q
        BY DEF Before, w
    <2> DEFINE up(k) == IF k < i THEN k ELSE k + 1
    <2>3. s[up(p)] = a /\ s[up(q)] = b /\ up(p) \in DOMAIN s /\ up(q) \in DOMAIN s
        BY <2>1, <2>2
    <2>4. up(p) < up(q)
        BY <2>3 DEF Before
    <2> QED BY <2>2, <2>4
<1> QED BY <1>1, <1>2

\* Whoever is appended comes after all that are there.
LEMMA AppendKeepsOrder ==
    ASSUME NEW S, NEW s \in Seq(S), NEW x \in S, x \notin Range(s), NEW a, NEW b,
           a # x, b = x \/ Before(s, a, b)
    PROVE  Before(Append(s, x), a, b)
<1> DEFINE t == Append(s, x)
<1>1. /\ Len(s) \in Nat
      /\ DOMAIN t = 1..(Len(s) + 1) /\ DOMAIN s = 1..Len(s)
      /\ \A k \in 1..Len(s) : t[k] = s[k]
      /\ t[Len(s) + 1] = x
    BY AppendProperties, LenProperties
<1> HIDE DEF t
<1> SUFFICES ASSUME NEW i \in DOMAIN t, NEW j \in DOMAIN t, t[i] = a, t[j] = b
             PROVE  i < j
    BY DEF Before, t
<1>2. i \in DOMAIN s /\ s[i] = a
    BY <1>1
<1>3. CASE j = Len(s) + 1
    BY <1>1, <1>2, <1>3
<1>4. CASE j # Len(s) + 1
    <2>1. j \in DOMAIN s /\ s[j] = b
        BY <1>1, <1>4
    <2>2. b # x
        BY <2>1 DEF Range
    <2> QED BY <1>2, <2>1, <2>2 DEF Before
<1> QED BY <1>3, <1>4

\* What a selection hands to the loop is a request of the flow it served.
LEMMA SelectedIsServed ==
    ASSUME IInv, NEW h \in Flows, ForceSelect(h) \/ CreditSelect(h)
    PROVE  Selected = h /\ h \in Range(rr_cursor)
<1>1. h \in Range(rr_cursor)
    BY DEF ForceSelect, CreditSelect, StarvedFlows, Eligible, Accumulating
<1>2. /\ waiting[h] # <<>> /\ waiting[h] \in Seq(Requests) /\ IsInjective(waiting[h])
      /\ \A r \in Range(waiting[h]) : FlowOf[r] = h
    BY <1>1 DEF IInv, TypeOK, CursorExact, HasWaiting, QueuesOwnTheirEntries
<1>3. Head(waiting[h]) \in Range(waiting[h])
    BY <1>2, TailElements
<1>4. in_hand' = Head(waiting[h])
    BY DEF ForceSelect, CreditSelect, Serve
<1> QED BY <1>1, <1>2, <1>3, <1>4 DEF Selected

\* Only the two selections hand a Pending to the loop.
LEMMA OnlySelectionsSelect ==
    ASSUME Next, Selects
    PROVE  \E h \in Flows : ForceSelect(h) \/ CreditSelect(h)
<1>1. loop = "select" /\ loop' = "granting"
    BY DEF Selects
<1>2. ~(Wake \/ Check \/ NoneEligible \/ NothingToSelect \/ Send)
    BY <1>1 DEF Wake, Check, NoneEligible, NothingToSelect, Send
<1>3. ASSUME NEW r \in Requests, Request(r)
      PROVE  FALSE
    BY <1>1, <1>3 DEF Request, CheckDepth, NewGuard, ListFlow, Enqueue, StampFlow, NotifyLoop,
                      Receive, Activate, Cancel, DropTicket, ReturnPermit, NotifyReturn,
                      Uncount, Unlist, Unwind, loopState
<1>4. ~(Environment \/ Quiescent)
    BY <1>1 DEF Environment, PublishSnapshot, Age, Quiescent, vars, loopState
<1> QED BY <1>2, <1>3, <1>4 DEF Next, Loop

\* Every step keeps a flow behind those it was passed by, or ends its record.
LEMMA StepKeepsOrder ==
    ASSUME IInv, PassedInOrder, BypassNext
    PROVE  PassedInOrder'
<1>0. /\ rr_cursor \in Seq(Flows) /\ IsInjective(rr_cursor)
      /\ passed \in [Flows -> SUBSET Flows] /\ in_hand' \in Requests \union {NoRequest}
    <2>1. IInv'
        BY NextPreservesIInv DEF BypassNext
    <2> QED BY <2>1 DEF IInv, TypeOK, CursorExact, PassedInOrder
<1>1. Selects => Selected \in Flows
    BY OnlySelectionsSelect, SelectedIsServed DEF BypassNext
<1>2. passed' \in [Flows -> SUBSET Flows]
    BY <1>0, <1>1 DEF BypassNext, RecordPasses
<1>3. \A f \in Flows : f \notin Range(rr_cursor') => passed'[f] = {}
    BY DEF BypassNext, RecordPasses
<1>4. ASSUME NEW f \in Flows, NEW g \in passed'[f]
      PROVE  g # f /\ Before(rr_cursor', f, g)
    <2>1. /\ f \in Range(rr_cursor') /\ ~FindsNobody
          /\ ~(Selects /\ Selected = f)
          /\ g \in passed[f] \/ (Selects /\ g = Selected)
        BY <1>4 DEF BypassNext, RecordPasses
    <2>2. g # f
        BY <2>1 DEF PassedInOrder
    <2>3. g \in passed[f] => f \in Range(rr_cursor) /\ Before(rr_cursor, f, g)
        BY DEF PassedInOrder
    <2>4. CASE Selects
        <3>1. PICK h \in Flows : ForceSelect(h) \/ CreditSelect(h)
            BY <2>4, OnlySelectionsSelect DEF BypassNext
        <3>2. Selected = h
            BY <3>1, SelectedIsServed
        <3>3. f # h /\ (g = h \/ Before(rr_cursor, f, g))
            BY <2>1, <2>3, <2>4, <3>2
        <3> DEFINE w == Without(rr_cursor, h)
        <3>4. w \in Seq(Flows) /\ h \notin Range(w)
            BY <1>0, WithoutType, WithoutElements
        <3>5. g = h \/ Before(w, f, g)
            BY <1>0, <3>3, WithoutKeepsOrder
        <3>6. rr_cursor' = w \/ rr_cursor' = Append(w, h)
            <4>1. \/ rr_cursor' = w \o <<>>
                  \/ rr_cursor' = w \o <<h>>
                BY <3>1 DEF ForceSelect, CreditSelect, Serve
            <4> HIDE DEF w
            <4>2. w \o <<>> = w /\ w \o <<h>> = Append(w, h)
                BY <3>4
            <4> QED BY <4>1, <4>2
        <3> HIDE DEF w
        <3>7. CASE rr_cursor' = w
            <4>1. g = h => Before(w, f, g)
                BY <3>4 DEF Before, Range
            <4> QED BY <2>2, <3>5, <3>7, <4>1
        <3>8. CASE rr_cursor' = Append(w, h)
            BY <2>2, <3>3, <3>4, <3>5, <3>8, AppendKeepsOrder
        <3> QED BY <3>6, <3>7, <3>8
    <2>5. CASE ~Selects
        <3>1. f \in Range(rr_cursor) /\ Before(rr_cursor, f, g)
            BY <2>1, <2>3, <2>5
        <3>2. ASSUME NEW r \in Requests, Enqueue(r)
              PROVE  Before(rr_cursor', f, g)
            <4>1. FlowOf[r] \in Flows
                BY WorkloadAssumption
            <4>2. CASE FlowOf[r] \in Range(rr_cursor)
                BY <3>1, <3>2, <4>2 DEF Enqueue
            <4>3. CASE FlowOf[r] \notin Range(rr_cursor)
                <5>1. rr_cursor' = Append(rr_cursor, FlowOf[r]) /\ f # FlowOf[r]
                    BY <3>1, <3>2, <4>3 DEF Enqueue
                <5> QED BY <1>0, <3>1, <4>1, <4>3, <5>1, AppendKeepsOrder
            <4> QED BY <4>2, <4>3
        <3>3. ASSUME NEW r \in Requests, Unwind(r)
              PROVE  Before(rr_cursor', f, g)
            <4>1. rr_cursor' = rr_cursor \/ rr_cursor' = Without(rr_cursor, FlowOf[r])
                BY <3>3 DEF Unwind
            <4>2. Before(Without(rr_cursor, FlowOf[r]), f, g)
                BY <1>0, <3>1, WithoutKeepsOrder
            <4> QED BY <3>1, <4>1, <4>2
        <3>4. CASE NoneEligible
            <4>1. loop' # "granting"
                BY <3>4 DEF NoneEligible
            <4> QED BY <2>1, <3>4, <4>1 DEF NoneEligible, FindsNobody
        <3>5. ASSUME NEW h \in Flows, ForceSelect(h) \/ CreditSelect(h)
              PROVE  FALSE
            BY <2>5, <3>5 DEF ForceSelect, CreditSelect, Serve, Selecting, Selects
        <3>6. CASE rr_cursor' = rr_cursor
            BY <2>2, <3>1, <3>6 DEF Before
        <3>7. ASSUME NEW r \in Requests, Request(r), ~Enqueue(r), ~Unwind(r)
              PROVE  rr_cursor' = rr_cursor
            BY <3>7 DEF Request, CheckDepth, NewGuard, ListFlow, StampFlow, NotifyLoop,
                        Receive, Activate, Cancel, DropTicket, ReturnPermit, NotifyReturn,
                        Uncount, Unlist, drrState
        <3>8. ASSUME Wake \/ Check \/ NothingToSelect \/ Send \/ Environment \/ Quiescent
              PROVE  rr_cursor' = rr_cursor
            BY <3>8 DEF Wake, Check, NothingToSelect, Send, Environment, PublishSnapshot, Age,
                        Quiescent, vars, drrState
        <3>9. Before(rr_cursor', f, g)
            BY <3>2, <3>3, <3>4, <3>5, <3>6, <3>7, <3>8 DEF BypassNext, Next, Loop
        <3> QED BY <2>2, <3>9
    <2> QED BY <2>4, <2>5
<1> QED BY <1>2, <1>3, <1>4 DEF PassedInOrder

\* Round robin is fair: an eligible flow is selected before any flow of the same or a
\* lower priority is selected a second time, for any weights, costs and arrivals, save
\* where the KV bias prefers the larger footprint.
THEOREM NobodyPassesTwice == BypassSpec => NoSecondPass
<1>1. BypassInit => Init /\ PassedInOrder
    BY DEF BypassInit, PassedInOrder
<1>2. [BypassNext]_<<vars, passed>> => [Next]_vars
    BY DEF BypassNext
<1>3. IInv /\ PassedInOrder /\ [BypassNext]_<<vars, passed>> => PassedInOrder'
    <2>1. ASSUME PassedInOrder, UNCHANGED <<vars, passed>>
          PROVE  PassedInOrder'
        BY <2>1 DEF PassedInOrder, vars, drrState
    <2> QED BY <2>1, StepKeepsOrder
<1>4. ASSUME IInv, PassedInOrder, BypassNext, Selects, StarvedFlows = {},
             NEW f \in Eligible \ {Selected}, Selected \in passed[f]
      PROVE  \/ Priority[Selected] > Priority[f]
             \/ kv_pressure > BiasBelow /\ Footprint[Selected] > Footprint[f]
    <2>1. PICK h \in Flows : CreditSelect(h)
        BY <1>4, OnlySelectionsSelect DEF BypassNext, ForceSelect
    <2>2. Selected = h /\ h \in Range(rr_cursor)
        BY <1>4, <2>1, SelectedIsServed
    <2>3. Prefers(h, f)
        BY <1>4, <2>1, <2>2 DEF CreditSelect
    <2>4. f \in Range(rr_cursor) /\ f \in Flows
        BY <1>4 DEF Eligible, Accumulating, IInv, CursorExact
    <2>5. Before(rr_cursor, f, h)
        BY <1>4, <2>2, <2>4 DEF PassedInOrder
    <2>6. \A x \in Range(rr_cursor) :
             BaseScore(x) \in DOMAIN rr_cursor /\ rr_cursor[BaseScore(x)] = x
        BY DEF BaseScore, Range
    <2>7. BaseScore(f) < BaseScore(h)
        BY <2>2, <2>4, <2>5, <2>6 DEF Before
    <2>8. BaseScore(f) \in Nat /\ BaseScore(h) \in Nat
        <3>1. rr_cursor \in Seq(Flows)
            BY <1>4 DEF IInv, TypeOK
        <3> QED BY <2>2, <2>4, <2>6, <3>1, LenProperties
    <2>9. CmpFairLess(h, f) => Priority[h] > Priority[f]
        BY <2>7, <2>8 DEF CmpFairLess
    <2> QED BY <2>2, <2>3, <2>9 DEF Prefers
<1>5. IInv /\ PassedInOrder /\ [BypassNext]_<<vars, passed>> =>
          [Selects /\ StarvedFlows = {} =>
              \A f \in Eligible \ {Selected} :
                  Selected \in passed[f]
                  => \/ Priority[Selected] > Priority[f]
                     \/ kv_pressure > BiasBelow /\ Footprint[Selected] > Footprint[f]
          ]_<<vars, passed>>
    BY <1>4
<1>6. BypassSpec => Spec
    BY <1>1, <1>2, PTL DEF BypassSpec, Spec
<1> QED BY <1>1, <1>3, <1>5, <1>6, Invariance, PTL DEF BypassSpec, NoSecondPass

-----------------------------------------------------------------------------
(* The scheduler implements the admission pool *)

\* A step that changes neither queues nor permits is a stutter of the pool.
LEMMA PoolStutter ==
    ASSUME UNCHANGED waiting, Holders' = Holders
    PROVE  [Pool!Next]_(Pool!poolVars)
BY DEF Pool!poolVars

\* Pushing a Pending is a join.
LEMMA EnqueueJoins ==
    ASSUME IInv, NEW r \in Requests, Enqueue(r)
    PROVE  [Pool!Next]_(Pool!poolVars)
<1>1. /\ pc[r] = "guarded" /\ UNCHANGED <<ticket, in_hand>>
      /\ waiting' = [waiting EXCEPT ![FlowOf[r]] = Append(@, r)]
    BY DEF Enqueue, Goto, loopState
<1>2. Holders' = Holders
    BY <1>1 DEF Holders
<1>3. \A f \in Flows : r \notin Range(waiting[f])
    BY <1>1 DEF IInv, QueuesOwnTheirEntries, Receiving
<1>4. ticket[r] = "none" /\ in_hand # r
    BY <1>1, WorkloadAssumption
    DEF IInv, TypeOK, TicketMatchesRequest, HandMatchesLoop, Receiving, TicketStates
<1>5. r \notin Pool!Queued \union Holders
    BY <1>3, <1>4 DEF Pool!Queued, Pool!Range, Range, Holders
<1>6. Pool!Join(r)
    BY <1>1, <1>2, <1>5 DEF Pool!Join
<1> QED BY <1>6 DEF Pool!Next

\* A guard's drop is a leave, or nothing when the Pending was already taken.
LEMMA UnwindLeaves ==
    ASSUME IInv, NEW r \in Requests, Unwind(r)
    PROVE  [Pool!Next]_(Pool!poolVars)
<1>1. /\ waiting' = [waiting EXCEPT ![FlowOf[r]] = Without(waiting[FlowOf[r]], r)]
      /\ UNCHANGED <<ticket, in_hand>>
    BY DEF Unwind, loopState
<1>2. Holders' = Holders
    BY <1>1 DEF Holders
<1>3. FlowOf[r] \in Flows /\ waiting \in [Flows -> Seq(Requests)]
    BY WorkloadAssumption DEF IInv, TypeOK
<1>4. CASE r \in Range(waiting[FlowOf[r]])
    <2>1. r \in Pool!Queued
        BY <1>3, <1>4 DEF Pool!Queued, Pool!Range, Range
    <2>2. Pool!Leave(r)
        BY <1>1, <1>2, <1>3, <2>1
        DEF Pool!Leave, Pool!Without, Pool!RemovedAt, Pool!Range, Without, RemovedAt,
            Range
    <2> QED BY <2>2 DEF Pool!Next
<1>5. CASE r \notin Range(waiting[FlowOf[r]])
    <2>1. waiting' = waiting
        BY <1>1, <1>3, <1>5 DEF Without
    <2> QED BY <1>2, <2>1, PoolStutter
<1> QED BY <1>4, <1>5

\* Both selections grant a permit to the head of one queue.
LEMMA ServeGrants ==
    ASSUME IInv, NEW f \in Flows, Serve(f), Selecting, f \in Range(rr_cursor)
    PROVE  [Pool!Next]_(Pool!poolVars)
<1> DEFINE r == Head(waiting[f])
<1>1. /\ waiting' = [waiting EXCEPT ![f] = Tail(@)]
      /\ in_hand' = r /\ UNCHANGED ticket
    BY DEF Serve, requestState
<1>2. waiting[f] # <<>> /\ waiting[f] \in Seq(Requests) /\ IsInjective(waiting[f])
    BY DEF IInv, TypeOK, CursorExact, HasWaiting, QueuesOwnTheirEntries
<1>3. r \in Requests /\ r # NoRequest
    BY <1>2, TailElements, WorkloadAssumption
<1>4. in_hand = NoRequest
    BY DEF IInv, HandMatchesLoop, Selecting
<1>5. Holders' = Holders \union {r}
    BY <1>1, <1>3, <1>4, WorkloadAssumption DEF Holders
<1>6. Cardinality(Holders) < MaxPermits
    <2>1. Cardinality(Holders) \in Nat
        BY RequestSetsFinite DEF Holders
    <2> QED BY <2>1, ConfigAssumption
            DEF IInv, TypeOK, PermitConservation, Selecting, ActivePermits
<1>7. Pool!Cardinality(Holders) = Cardinality(Holders)
    BY DEF Pool!Cardinality, Cardinality
<1>8. Pool!Grant(f)
    BY <1>1, <1>2, <1>5, <1>6, <1>7 DEF Pool!Grant
<1> QED BY <1>8 DEF Pool!Next

\* A send delivers the permit (a stutter) or, to a dropped receiver, returns it.
LEMMA SendReturns ==
    ASSUME IInv, Send
    PROVE  [Pool!Next]_(Pool!poolVars)
<1> DEFINE r == in_hand
<1>1. r \in Requests /\ ticket[r] = "none" /\ ticket \in [Requests -> TicketStates]
    BY DEF IInv, TypeOK, HandMatchesLoop, Send
<1>2. in_hand' = NoRequest /\ UNCHANGED waiting
    BY DEF Send
<1> HIDE DEF r
<1>3. CASE Receiving(r)
    <2>1. ticket' = [ticket EXCEPT ![r] = "sent"]
        BY <1>3 DEF Send, r
    <2>2. Holders' = Holders
        BY <1>1, <1>2, <2>1, WorkloadAssumption DEF Holders, r
    <2> QED BY <1>2, <2>2, PoolStutter
<1>4. CASE ~Receiving(r)
    <2>1. UNCHANGED ticket
        BY <1>4 DEF Send, r
    <2>2. r \in Holders /\ Holders' = Holders \ {r}
        BY <1>1, <1>2, <2>1, WorkloadAssumption DEF Holders, r
    <2>3. Pool!Return(r)
        BY <1>2, <2>2 DEF Pool!Return
    <2> QED BY <1>1, <2>3 DEF Pool!Next
<1> QED BY <1>3, <1>4

\* Only the middle of the drop handler returns a permit.
LEMMA TicketStepsRefine ==
    ASSUME IInv, NEW r \in Requests,
           Receive(r) \/ DropTicket(r) \/ ReturnPermit(r) \/ NotifyReturn(r)
    PROVE  [Pool!Next]_(Pool!poolVars)
<1>0. ticket \in [Requests -> TicketStates] /\ in_hand \in Requests \union {NoRequest}
    BY DEF IInv, TypeOK
<1>1. CASE Receive(r)
    <2>1. Holders' = Holders /\ UNCHANGED waiting
        BY <1>0, <1>1 DEF Holders, Receive, drrState, loopState
    <2> QED BY <2>1, PoolStutter
<1>2. CASE DropTicket(r)
    <2>1. /\ ticket[r] \in {"held", "sent"} /\ ticket' = [ticket EXCEPT ![r] = "dropping"]
          /\ UNCHANGED <<waiting, in_hand>>
        BY <1>2 DEF DropTicket, drrState, loopState
    <2>2. Holders' = Holders
        BY <1>0, <2>1 DEF Holders
    <2> QED BY <2>1, <2>2, PoolStutter
<1>3. CASE ReturnPermit(r)
    <2>1. /\ ticket[r] = "dropping" /\ ticket' = [ticket EXCEPT ![r] = "returned"]
          /\ UNCHANGED <<waiting, in_hand>>
        BY <1>3 DEF ReturnPermit, loopState
    <2>2. in_hand # r
        BY <2>1, WorkloadAssumption DEF IInv, HandMatchesLoop
    <2>3. r \in Holders /\ Holders' = Holders \ {r}
        BY <1>0, <2>1, <2>2 DEF Holders
    <2>4. Pool!Return(r)
        BY <2>1, <2>3 DEF Pool!Return
    <2> QED BY <2>4 DEF Pool!Next
<1>4. CASE NotifyReturn(r)
    <2>1. Holders' = Holders /\ UNCHANGED waiting
        BY <1>0, <1>4 DEF Holders, NotifyReturn, drrState, loopState
    <2> QED BY <2>1, PoolStutter
<1> QED BY <1>1, <1>2, <1>3, <1>4

\* Every step of the scheduler is a step or a stutter of the pool.
LEMMA StepRefines == IInv /\ [Next]_vars => [Pool!Next]_(Pool!poolVars)
<1> SUFFICES ASSUME IInv, [Next]_vars
             PROVE  [Pool!Next]_(Pool!poolVars)
    OBVIOUS
<1>1. CASE Wake \/ Check \/ NoneEligible \/ NothingToSelect
    <2>1. UNCHANGED <<waiting, ticket, in_hand>>
        BY <1>1 DEF Wake, Check, NoneEligible, NothingToSelect, drrState, requestState
    <2> QED BY <2>1, PoolStutter DEF Holders
<1>2. ASSUME NEW f \in Flows, ForceSelect(f) \/ CreditSelect(f)
      PROVE  [Pool!Next]_(Pool!poolVars)
    <2>1. f \in Range(rr_cursor) /\ Serve(f) /\ Selecting
        BY <1>2 DEF ForceSelect, CreditSelect, StarvedFlows, Eligible, Accumulating
    <2> QED BY <2>1, ServeGrants
<1>3. ASSUME NEW r \in Requests,
             \/ CheckDepth(r) \/ NewGuard(r) \/ ListFlow(r) \/ StampFlow(r)
             \/ NotifyLoop(r) \/ Activate(r) \/ Cancel(r) \/ Uncount(r) \/ Unlist(r)
      PROVE  [Pool!Next]_(Pool!poolVars)
    <2>1. UNCHANGED <<waiting, ticket, in_hand>>
        BY <1>3 DEF CheckDepth, NewGuard, ListFlow, StampFlow, NotifyLoop, Activate, Cancel,
           Uncount, Unlist, drrState, loopState
    <2> QED BY <2>1, PoolStutter DEF Holders
<1>4. CASE Environment
    <2>1. UNCHANGED <<waiting, ticket, in_hand>>
        BY <1>4 DEF Environment, PublishSnapshot, Age, drrState, loopState, requestState
    <2> QED BY <2>1, PoolStutter DEF Holders
<1>5. CASE UNCHANGED vars
    BY <1>5, PoolStutter DEF Holders, vars, drrState, loopState, requestState
<1> QED BY <1>1, <1>2, <1>3, <1>4, <1>5, SendReturns, EnqueueJoins, UnwindLeaves,
           TicketStepsRefine
        DEF Next, Loop, Request, Quiescent

\* The scheduler, with its background loop, oneshot channels, guards and drop
\* handlers, implements a pool of max_active_flows permits with one FIFO queue per
\* flow.
THEOREM SchedulerImplementsPool == Spec => PoolSpec
<1>1. Init => Pool!Init
    BY WorkloadAssumption DEF Init, Pool!Init, Holders
<1> QED BY <1>1, StepRefines, Invariance, PTL DEF Spec, PoolSpec, Pool!Spec
=============================================================================
