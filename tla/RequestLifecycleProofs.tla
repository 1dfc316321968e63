----------------------- MODULE RequestLifecycleProofs -----------------------
(***************************************************************************)
(* Proofs about RequestLifecycle, for any number of flows, of requests in  *)
(* flight and of Flow objects, any estimates and any tokens delivered:     *)
(* unless an update of it was lost, a flow's credit is minus what its      *)
(* requests have cost it; and unless its entry was removed under one of    *)
(* them, the tracker sums up its registered requests.                      *)
(***************************************************************************)
EXTENDS RequestLifecycle, FiniteSetTheorems, TLAPS

-----------------------------------------------------------------------------
(* Sums counted as sets of tokens *)

\* The tokens of a function of requests, one by one.
LEMMA InTokens ==
    ASSUME NEW S, NEW cost \in [S -> Nat], NEW t
    PROVE  t \in Tokens(cost) <=> \E s \in S : \E i \in 1..cost[s] : t = <<s, i>>
BY DEF Tokens

\* One request's tokens are as many as its cost.
LEMMA BlockSize ==
    ASSUME NEW r, NEW n \in Nat
    PROVE  /\ IsFiniteSet({r} \X (1..n))
           /\ Cardinality({r} \X (1..n)) = n
<1>1. IsFiniteSet({r}) /\ Cardinality({r}) = 1
    BY FS_Singleton
<1>2. IsFiniteSet(1..n) /\ Cardinality(1..n) = n
    BY FS_Interval
<1>3. /\ IsFiniteSet({r} \X (1..n))
      /\ Cardinality({r} \X (1..n)) = Cardinality({r}) * Cardinality(1..n)
    BY <1>1, <1>2, FS_Product
<1> QED BY <1>1, <1>2, <1>3

\* The sum over a finite set is a natural number.
LEMMA TotalType ==
    ASSUME NEW S, IsFiniteSet(S), NEW cost \in [S -> Nat]
    PROVE  IsFiniteSet(Tokens(cost)) /\ Total(cost) \in Nat
<1> DEFINE block == [r \in S |-> {r} \X (1..cost[r])]
           blocks == {{r} \X (1..cost[r]) : r \in S}
<1>1. block \in Surjection(S, blocks)
    <2>1. block \in [S -> blocks]
        OBVIOUS
    <2>2. \A b \in blocks : \E r \in S : block[r] = b
        OBVIOUS
    <2> HIDE DEF block, blocks
    <2> QED BY <2>1, <2>2 DEF Surjection
<1>2. IsFiniteSet(blocks)
    BY <1>1, FS_Surjection
<1>3. ASSUME NEW b \in blocks PROVE IsFiniteSet(b)
    <2>1. PICK r \in S : b = {r} \X (1..cost[r])
        OBVIOUS
    <2>2. cost[r] \in Nat
        OBVIOUS
    <2> QED BY <2>1, <2>2, BlockSize
<1>4. IsFiniteSet(UNION blocks)
    BY <1>2, <1>3, FS_UNION
<1>5. Tokens(cost) = UNION blocks
    BY DEF Tokens
<1> QED BY <1>4, <1>5, FS_CardinalityType DEF Total

\* One request is taken out of the sum.
LEMMA TotalSplit ==
    ASSUME NEW S, IsFiniteSet(S), NEW cost \in [S -> Nat], NEW r \in S
    PROVE  Total(cost) = Total([s \in S \ {r} |-> cost[s]]) + cost[r]
<1> DEFINE rest == [s \in S \ {r} |-> cost[s]]
           own == {r} \X (1..cost[r])
<1>1. rest \in [S \ {r} -> Nat] /\ \A s \in S \ {r} : rest[s] = cost[s]
    OBVIOUS
<1>2. IsFiniteSet(S \ {r})
    BY FS_RemoveElement
<1>3. IsFiniteSet(Tokens(rest)) /\ Total(rest) \in Nat
    BY <1>1, <1>2, TotalType
<1>4. IsFiniteSet(own) /\ Cardinality(own) = cost[r]
    BY BlockSize
<1> HIDE DEF rest
<1>5. Tokens(cost) = Tokens(rest) \cup own
    <2>1. ASSUME NEW t PROVE t \in Tokens(cost) <=> t \in Tokens(rest) \cup own
        <3>1. t \in Tokens(cost) <=> \E s \in S : \E i \in 1..cost[s] : t = <<s, i>>
            BY InTokens
        <3>2. t \in Tokens(rest) <=> \E s \in S \ {r} : \E i \in 1..rest[s] : t = <<s, i>>
            BY <1>1, InTokens
        <3>3. t \in own <=> \E i \in 1..cost[r] : t = <<r, i>>
            OBVIOUS
        <3> QED BY <1>1, <3>1, <3>2, <3>3, Zenon
    <2> QED BY <2>1
<1>6. Tokens(rest) \cap own = {}
    BY <1>1, InTokens
<1> HIDE DEF own
<1>7. Cardinality(Tokens(cost)) = Cardinality(Tokens(rest)) + Cardinality(own) - 0
    BY <1>3, <1>4, <1>5, <1>6, FS_Union, FS_EmptySet
<1> QED BY <1>3, <1>4, <1>7 DEF Total, rest

\* One request's cost changes.
LEMMA TotalUpdate ==
    ASSUME NEW S, IsFiniteSet(S), NEW cost \in [S -> Nat], NEW new \in [S -> Nat],
           NEW r \in S, \A s \in S \ {r} : new[s] = cost[s]
    PROVE  Total(new) = Total(cost) - cost[r] + new[r]
<1> DEFINE rest == [s \in S \ {r} |-> cost[s]]
<1>1. [s \in S \ {r} |-> new[s]] = rest
    OBVIOUS
<1>2. IsFiniteSet(S \ {r}) /\ rest \in [S \ {r} -> Nat]
    BY FS_RemoveElement
<1>3. Total(rest) \in Nat
    BY <1>2, TotalType
<1>4. Total(cost) = Total(rest) + cost[r] /\ Total(new) = Total(rest) + new[r]
    BY <1>1, TotalSplit
<1> QED BY <1>3, <1>4

\* The sum of g over a set of requests.
Sum(S, g) == Total([s \in S |-> g[s]])

LEMMA SumType ==
    ASSUME NEW S \in SUBSET Requests, NEW g \in [Requests -> Nat]
    PROVE  IsFiniteSet(S) /\ [s \in S |-> g[s]] \in [S -> Nat] /\ Sum(S, g) \in Nat
<1>1. IsFiniteSet(S)
    BY LifecycleAssumption, FS_Subset
<1>2. [s \in S |-> g[s]] \in [S -> Nat]
    OBVIOUS
<1> QED BY <1>1, <1>2, TotalType DEF Sum

\* Nobody's sum is nothing.
LEMMA SumEmpty ==
    ASSUME NEW g \in [Requests -> Nat]
    PROVE  Sum({}, g) = 0
<1> DEFINE cost == [s \in {} |-> g[s]]
<1>1. cost \in [{} -> Nat]
    OBVIOUS
<1>2. Tokens(cost) = {}
    BY <1>1, InTokens
<1> QED BY <1>2, FS_EmptySet DEF Total, Sum

\* One request is taken out.
LEMMA SumWithout ==
    ASSUME NEW S \in SUBSET Requests, NEW g \in [Requests -> Nat], NEW r \in S
    PROVE  Sum(S, g) = Sum(S \ {r}, g) + g[r]
<1> DEFINE cost == [s \in S |-> g[s]]
<1>1. IsFiniteSet(S) /\ cost \in [S -> Nat]
    BY SumType
<1>2. Total(cost) = Total([s \in S \ {r} |-> cost[s]]) + cost[r]
    <2> HIDE DEF cost
    <2> QED BY <1>1, TotalSplit
<1>3. [s \in S \ {r} |-> cost[s]] = [s \in S \ {r} |-> g[s]] /\ cost[r] = g[r]
    OBVIOUS
<1> QED BY <1>2, <1>3 DEF Sum

\* One request's share changes.
LEMMA SumChange ==
    ASSUME NEW S \in SUBSET Requests, NEW g \in [Requests -> Nat],
           NEW h \in [Requests -> Nat], NEW r \in S, \A s \in S \ {r} : h[s] = g[s]
    PROVE  Sum(S, h) = Sum(S, g) - g[r] + h[r]
<1>1. [s \in S \ {r} |-> h[s]] = [s \in S \ {r} |-> g[s]]
    OBVIOUS
<1>2. Sum(S \ {r}, h) = Sum(S \ {r}, g)
    BY <1>1 DEF Sum
<1>3. Sum(S, h) = Sum(S \ {r}, h) + h[r] /\ Sum(S, g) = Sum(S \ {r}, g) + g[r]
    BY SumWithout
<1>4. Sum(S \ {r}, g) \in Nat /\ g[r] \in Nat /\ h[r] \in Nat
    BY SumType
<1> QED BY <1>2, <1>3, <1>4

\* Shares that agree on the set have the same sum.
LEMMA SumSame ==
    ASSUME NEW S, NEW g, NEW h, \A s \in S : h[s] = g[s]
    PROVE  Sum(S, h) = Sum(S, g)
<1>1. [s \in S |-> h[s]] = [s \in S |-> g[s]]
    OBVIOUS
<1> QED BY <1>1 DEF Sum

-----------------------------------------------------------------------------
(* Types, and which object a request deals with *)

Entries == [estimated : Int, delivered : Int, present : BOOLEAN]

LifecycleTypes ==
    /\ credit \in [Flows -> Int] /\ object \in [Flows -> Nat]
    /\ entries \in [Flows -> Entries]
    /\ in_hand \in Requests \union {NoRequest}
    /\ loop_loaded \in Int /\ loop_object \in Nat
    /\ pc \in [Requests -> RequestStates]
    /\ delivered \in [Requests -> Nat] /\ completed \in [Requests -> BOOLEAN]
    /\ loaded \in [Requests -> Int] /\ loaded_object \in [Requests -> Nat]
    /\ debited \in [Requests -> Nat]

\* A request deals with the objects of its flow in the order they were made: the one
\* debited for it, the one it is settled with, the one there is now.
ObjectsInOrder ==
    /\ \A f \in Flows : object[f] > 0
    /\ in_hand # NoRequest => loop_object <= object[FlowOf[in_hand]]
    /\ \A r \in Requests :
          /\ debited[r] <= object[FlowOf[r]]
          /\ pc[r] \in {"idle", "queued", "selected"} => debited[r] = 0
          /\ pc[r] = "loaded" =>
                debited[r] <= loaded_object[r] /\ loaded_object[r] <= object[FlowOf[r]]

\* CreditExact, disputed charges included.
Balanced == \A f \in Flows \ disturbed : credit[f] = -Charges(f)

\* Nothing is delivered to a request before it has its guard.
NothingEarly ==
    \A r \in Requests : pc[r] \in {"idle", "queued", "selected", "granted"} => delivered[r] = 0

\* The inductive invariant of the ledger.
LifecycleInv ==
    /\ LifecycleTypes /\ ObjectsInOrder /\ NothingEarly
    /\ Balanced /\ TrackerExact

\* The initial state: no credit, no entry, nothing debited.
LEMMA TypesInit == Init => LifecycleTypes /\ ObjectsInOrder
BY LifecycleAssumption DEF Init, LifecycleTypes, ObjectsInOrder, Entries, NoEntry,
                           RequestStates

\* Every step keeps the types.
LEMMA TypesStep ==
    ASSUME LifecycleTypes, NEW r \in Requests, Request(r)
    PROVE  LifecycleTypes'
<1> DEFINE f == FlowOf[r]
<1>0. /\ f \in Flows /\ Est[r] \in Nat /\ Frame \in Nat /\ delivered[r] \in Nat
      /\ credit[f] \in Int /\ object[f] \in Nat /\ entries[f] \in Entries
      /\ NoEntry \in Entries /\ loaded[r] \in Int
    BY LifecycleAssumption DEF LifecycleTypes, Entries, NoEntry
<1>1. CASE Arrive(r) \/ DebitLoad(r) \/ GiveUp(r) \/ mark_completed(r) \/ ReportLoad(r)
    BY <1>0, <1>1 DEF Arrive, DebitLoad, GiveUp, mark_completed, ReportLoad, Goto,
        registryVars, loopVars, guardVars, reportVars, history, LifecycleTypes, RequestStates
<1>2. CASE DebitStore(r)
    <2>1. loop_loaded + -Est[r] \in Int
        BY <1>0 DEF LifecycleTypes
    <2>2. credit' \in [Flows -> Int]
        BY <1>0, <1>2, <2>1 DEF DebitStore, StoreCredit, LifecycleTypes
    <2>3. /\ pc' = [pc EXCEPT ![r] = "granted"] /\ in_hand' = NoRequest
          /\ debited' = [debited EXCEPT ![r] = loop_object]
          /\ UNCHANGED <<object, entries, loop_loaded, loop_object, delivered, completed,
                         loaded, loaded_object>>
        BY <1>2 DEF DebitStore, Goto, guardVars, reportVars
    <2> QED BY <2>2, <2>3 DEF LifecycleTypes, RequestStates
<1>3. CASE NewGuard(r)
    <2>1. entries' \in [Flows -> Entries]
        <3>0. /\ entries[f].estimated + Est[r] \in Int
              /\ entries[f] \in [estimated : Int, delivered : Int, present : BOOLEAN]
            BY <1>0 DEF Entries
        <3>1. [entries[f] EXCEPT !.estimated = @ + Est[r], !.present = TRUE] \in Entries
            <4> HIDE DEF f
            <4> QED BY <3>0 DEF Entries
        <3>2. entries' = [entries EXCEPT ![f] = [entries[f] EXCEPT !.estimated = @ + Est[r],
                                                                   !.present = TRUE]]
            BY <1>0, <1>3 DEF NewGuard, LifecycleTypes
        <3> QED BY <1>0, <3>1, <3>2 DEF LifecycleTypes
    <2> QED BY <1>3, <2>1 DEF NewGuard, Goto, registryVars, loopVars, guardVars, reportVars,
                            history, LifecycleTypes, RequestStates
<1>4. CASE add_delivered_tokens(r)
    <2>1. entries' \in [Flows -> Entries]
        BY <1>0, <1>4 DEF add_delivered_tokens, LifecycleTypes, Entries
    <2>2. delivered' \in [Requests -> Nat]
        BY <1>0, <1>4 DEF add_delivered_tokens, LifecycleTypes
    <2> QED BY <1>4, <2>1, <2>2 DEF add_delivered_tokens, registryVars, loopVars, reportVars,
                                  history, LifecycleTypes
<1>5. CASE Unregister(r)
    <2>1. entries' \in [Flows -> Entries]
        BY <1>0, <1>5 DEF Unregister, LifecycleTypes, Entries
    <2>2. pc' \in [Requests -> RequestStates]
        BY <1>5 DEF Unregister, LifecycleTypes, RequestStates
    <2>3. UNCHANGED <<credit, object, in_hand, loop_loaded, loop_object, delivered,
                      completed, loaded, loaded_object, debited>>
        BY <1>5 DEF Unregister, registryVars, loopVars, guardVars, reportVars, history
    <2> QED BY <2>1, <2>2, <2>3 DEF LifecycleTypes
<1>6. CASE RemoveEntry(r)
    BY <1>0, <1>6 DEF RemoveEntry, Goto, registryVars, loopVars, guardVars, reportVars,
                    LifecycleTypes, RequestStates
<1>7. CASE ReportStore(r)
    <2>1. loaded[r] + restore_cost(r) \in Int
        BY <1>0 DEF restore_cost
    <2>2. credit' \in [Flows -> Int]
        BY <1>0, <1>7, <2>1 DEF ReportStore, StoreCredit, LifecycleTypes
    <2> QED BY <1>7, <2>2 DEF ReportStore, Goto, loopVars, guardVars, reportVars,
                            LifecycleTypes, RequestStates
<1> QED BY <1>1, <1>2, <1>3, <1>4, <1>5, <1>6, <1>7 DEF Request

\* Objects stay in order: new ones come after the ones in hand.
LEMMA OrderStep ==
    ASSUME LifecycleTypes, ObjectsInOrder, NEW r \in Requests, Request(r)
    PROVE  ObjectsInOrder'
<1>0. FlowOf \in [Requests -> Flows] /\ NoRequest \notin Requests
    BY LifecycleAssumption
<1>1. CASE \/ Arrive(r) \/ GiveUp(r) \/ NewGuard(r) \/ add_delivered_tokens(r)
           \/ mark_completed(r) \/ Unregister(r) \/ RemoveEntry(r)
    <2>1. UNCHANGED <<object, in_hand, loop_object, debited, loaded_object>>
        BY <1>1 DEF Arrive, GiveUp, NewGuard, add_delivered_tokens, mark_completed,
                    Unregister, RemoveEntry, registryVars, loopVars, reportVars, history
    <2>2. \A s \in Requests : \/ pc'[s] = pc[s]
                             \/ (pc[s] = "idle" /\ pc'[s] = "queued")
                             \/ pc'[s] \in {"gone", "abandoned", "running", "removing",
                                           "settling"}
        <3>0. pc \in [Requests -> RequestStates]
            BY DEF LifecycleTypes
        <3>1. CASE Arrive(r) \/ GiveUp(r) \/ NewGuard(r) \/ RemoveEntry(r)
            BY <3>0, <3>1 DEF Arrive, GiveUp, NewGuard, RemoveEntry, Goto
        <3>2. CASE add_delivered_tokens(r) \/ mark_completed(r)
            BY <3>2 DEF add_delivered_tokens, mark_completed
        <3>3. CASE Unregister(r)
            BY <3>0, <3>3 DEF Unregister
        <3> QED BY <1>1, <3>1, <3>2, <3>3
    <2> QED BY <2>1, <2>2 DEF ObjectsInOrder
<1>2. CASE DebitLoad(r)
    <2>1. /\ pc[r] = "queued" /\ pc' = [pc EXCEPT ![r] = "selected"] /\ in_hand' = r
          /\ loop_object' = object[FlowOf[r]]
          /\ UNCHANGED <<object, debited, loaded_object>>
        BY <1>2 DEF DebitLoad, Goto, registryVars, reportVars, history
    <2> QED BY <1>0, <2>1 DEF ObjectsInOrder, LifecycleTypes
<1>3. CASE DebitStore(r)
    <2>1. /\ pc' = [pc EXCEPT ![r] = "granted"] /\ in_hand = r /\ in_hand' = NoRequest
          /\ debited' = [debited EXCEPT ![r] = loop_object]
          /\ UNCHANGED <<object, loaded_object, loop_object>>
        BY <1>3 DEF DebitStore, Goto, reportVars
    <2>2. loop_object <= object[FlowOf[r]]
        BY <1>0, <2>1 DEF ObjectsInOrder
    <2>3. /\ \A s \in Requests : debited'[s] = IF s = r THEN loop_object ELSE debited[s]
          /\ \A s \in Requests : pc'[s] = IF s = r THEN "granted" ELSE pc[s]
        BY <2>1 DEF LifecycleTypes
    <2> QED BY <2>1, <2>2, <2>3 DEF ObjectsInOrder
<1>4. CASE ReportLoad(r)
    <2>1. /\ pc' = [pc EXCEPT ![r] = "loaded"]
          /\ loaded_object' = [loaded_object EXCEPT ![r] = object[FlowOf[r]]]
          /\ UNCHANGED <<object, in_hand, loop_object, debited>>
        BY <1>4 DEF ReportLoad, Goto, registryVars, loopVars, history
    <2>2. \A s \in Requests : /\ pc'[s] = IF s = r THEN "loaded" ELSE pc[s]
                             /\ loaded_object'[s] = IF s = r THEN object[FlowOf[r]]
                                                    ELSE loaded_object[s]
        BY <2>1 DEF LifecycleTypes
    <2>3. object[FlowOf[r]] \in Nat
        BY <1>0 DEF LifecycleTypes
    <2> QED BY <2>1, <2>2, <2>3 DEF ObjectsInOrder
<1>5. CASE ReportStore(r)
    <2>1. /\ pc' = [pc EXCEPT ![r] = "done"]
          /\ UNCHANGED <<object, in_hand, loop_object, debited, loaded_object>>
        BY <1>5 DEF ReportStore, Goto, loopVars, reportVars
    <2> QED BY <2>1 DEF ObjectsInOrder, LifecycleTypes
<1> QED BY <1>1, <1>2, <1>3, <1>4, <1>5 DEF Request

-----------------------------------------------------------------------------
(* The credit *)

\* A flow's requests are finitely many and each has cost a natural number.
LEMMA ChargeType ==
    ASSUME LifecycleTypes, NEW f \in Flows
    PROVE  /\ IsFiniteSet(OfFlow(f))
           /\ [r \in OfFlow(f) |-> Charge(r)] \in [OfFlow(f) -> Nat]
           /\ Charges(f) \in Nat
<1>1. IsFiniteSet(OfFlow(f))
    BY LifecycleAssumption, FS_Subset DEF OfFlow
<1>2. ASSUME NEW r \in Requests PROVE Charge(r) \in Nat
    BY LifecycleAssumption DEF Charge, LifecycleTypes
<1>3. [r \in OfFlow(f) |-> Charge(r)] \in [OfFlow(f) -> Nat]
    BY <1>2 DEF OfFlow
<1> QED BY <1>1, <1>3, TotalType DEF Charges

\* A step that changes no charge changes no sum.
LEMMA ChargesUnchanged ==
    ASSUME NEW f \in Flows, \A r \in OfFlow(f) : Charge(r)' = Charge(r)
    PROVE  Charges(f)' = Charges(f)
<1>1. [r \in OfFlow(f) |-> Charge(r)]' = [r \in OfFlow(f) |-> Charge(r)]
    BY DEF OfFlow
<1> QED BY <1>1 DEF Charges

\* A step that changes one charge changes its flow's sum by the difference.
LEMMA ChargesUpdate ==
    ASSUME LifecycleTypes, LifecycleTypes', NEW r \in Requests,
           \A s \in Requests \ {r} : Charge(s)' = Charge(s)
    PROVE  /\ Charges(FlowOf[r])' = Charges(FlowOf[r]) - Charge(r) + Charge(r)'
           /\ \A f \in Flows \ {FlowOf[r]} : Charges(f)' = Charges(f)
<1> DEFINE f == FlowOf[r]
           S == OfFlow(f)
           old == [s \in S |-> Charge(s)]
           new == [s \in S |-> Charge(s)']
<1>1. f \in Flows /\ r \in S
    BY LifecycleAssumption DEF OfFlow
<1>2. IsFiniteSet(S) /\ old \in [S -> Nat]
    BY <1>1, ChargeType
<1>3. new \in [S -> Nat]
    <2>1. \A s \in Requests : Charge(s)' \in Nat
        BY LifecycleAssumption DEF Charge, LifecycleTypes
    <2> QED BY <2>1 DEF OfFlow
<1>4. \A s \in S \ {r} : new[s] = old[s]
    BY DEF OfFlow
<1>5. Total(new) = Total(old) - old[r] + new[r]
    <2> HIDE DEF old, new, S
    <2> QED BY <1>1, <1>2, <1>3, <1>4, TotalUpdate
<1>6. old[r] = Charge(r) /\ new[r] = Charge(r)'
    BY <1>1
<1>7. Charges(f) = Total(old) /\ Charges(f)' = Total(new)
    BY DEF Charges, OfFlow
<1>8. ASSUME NEW g \in Flows \ {f} PROVE Charges(g)' = Charges(g)
    BY <1>8, ChargesUnchanged DEF OfFlow
<1> QED BY <1>5, <1>6, <1>7, <1>8

\* A flow none of whose requests has cost its object anything.
LEMMA ChargesNone ==
    ASSUME NEW f \in Flows, \A r \in OfFlow(f) : Charge(r) = 0
    PROVE  Charges(f) = 0
<1> DEFINE cost == [r \in OfFlow(f) |-> Charge(r)]
<1>1. cost \in [OfFlow(f) -> Nat] /\ \A r \in OfFlow(f) : cost[r] = 0
    OBVIOUS
<1> HIDE DEF cost
<1>2. Tokens(cost) = {}
    BY <1>1, InTokens
<1>3. Total(cost) = 0
    BY <1>2, FS_EmptySet DEF Total
<1> QED BY <1>3 DEF Charges, cost

\* A step that leaves credits, objects and the settled requests alone.
LEMMA QuietStep ==
    ASSUME LifecycleTypes, Balanced, UNCHANGED <<credit, object, debited, disturbed>>,
           \A s \in Requests :
               /\ pc'[s] = "done" <=> pc[s] = "done"
               /\ pc[s] = "done" => delivered'[s] = delivered[s] /\ completed'[s] = completed[s]
    PROVE  Balanced'
<1>1. \A s \in Requests : Charge(s)' = Charge(s)
    BY DEF Charge
<1>2. \A f \in Flows : Charges(f)' = Charges(f)
    BY <1>1, ChargesUnchanged DEF OfFlow
<1> QED BY <1>2 DEF Balanced

\* A store that takes from a request's charge what it adds to its flow's credit, or
\* overwrites an update; others stay as they are.
LEMMA StoreStep ==
    ASSUME LifecycleTypes, LifecycleTypes', Balanced, NEW r \in Requests,
           \A s \in Requests \ {r} : Charge(s)' = Charge(s),
           Charge(r) \in Nat, Charge(r)' \in Nat,
           \A g \in Flows \ {FlowOf[r]} : credit'[g] = credit[g],
           disturbed \subseteq disturbed',
           \/ FlowOf[r] \in disturbed'
           \/ credit'[FlowOf[r]] = credit[FlowOf[r]] + Charge(r) - Charge(r)'
    PROVE  Balanced'
<1> DEFINE f == FlowOf[r]
<1>1. f \in Flows /\ credit \in [Flows -> Int]
    BY LifecycleAssumption DEF LifecycleTypes
<1>2. /\ Charges(f)' = Charges(f) - Charge(r) + Charge(r)'
      /\ \A g \in Flows \ {f} : Charges(g)' = Charges(g)
    BY ChargesUpdate
<1>3. Charges(f) \in Nat /\ credit[f] \in Int
    BY <1>1, ChargeType
<1> SUFFICES ASSUME NEW g \in Flows \ disturbed' PROVE credit'[g] = -Charges(g)'
    BY DEF Balanced
<1>4. credit[g] = -Charges(g)
    BY DEF Balanced
<1> HIDE DEF f
<1>5. CASE g = f
    <2>1. credit'[f] = credit[f] + Charge(r) - Charge(r)'
        BY <1>5 DEF f
    <2> QED BY <1>2, <1>3, <1>4, <1>5, <2>1
<1>6. CASE g # f
    BY <1>2, <1>4, <1>6 DEF f
<1> QED BY <1>5, <1>6

\* The debit: the object that was loaded from is charged the estimate.
LEMMA DebitStep ==
    ASSUME LifecycleInv, LifecycleTypes', NEW r \in Requests, DebitStore(r)
    PROVE  Balanced'
<1> DEFINE f == FlowOf[r]
<1>1. /\ in_hand = r /\ pc[r] = "selected" /\ pc' = [pc EXCEPT ![r] = "granted"]
      /\ StoreCredit(f, loop_object, loop_loaded, -Est[r])
      /\ debited' = [debited EXCEPT ![r] = loop_object]
      /\ disturbed' = IF Overwrites(f, loop_object, loop_loaded)
                      THEN disturbed \union {f} ELSE disturbed
      /\ UNCHANGED <<object, delivered, completed>>
    BY DEF DebitStore, Goto, guardVars
<1>2. /\ f \in Flows /\ Est[r] \in Nat /\ credit \in [Flows -> Int] /\ object[f] \in Nat
      /\ debited \in [Requests -> Nat] /\ pc \in [Requests -> RequestStates]
      /\ loop_loaded \in Int
    BY LifecycleAssumption DEF LifecycleInv, LifecycleTypes
<1>3. debited[r] = 0 /\ object[f] > 0
    BY <1>1, <1>2 DEF LifecycleInv, ObjectsInOrder
<1>4. Charge(r) = 0
    BY <1>2, <1>3 DEF Charge
<1>5. Charge(r)' = IF loop_object = object[f] THEN Est[r] ELSE 0
    BY <1>1, <1>2 DEF Charge
<1>6. \A s \in Requests \ {r} : Charge(s)' = Charge(s)
    BY <1>1, <1>2 DEF Charge
<1>7. \A g \in Flows \ {f} : credit'[g] = credit[g]
    BY <1>1, <1>2 DEF StoreCredit
<1>8. f \in disturbed' \/ credit'[f] = credit[f] + Charge(r) - Charge(r)'
    <2>1. CASE loop_object # object[f]
        BY <1>1, <1>2, <1>4, <1>5, <2>1 DEF StoreCredit
    <2>2. CASE loop_object = object[f] /\ loop_loaded # credit[f]
        BY <1>1, <2>2 DEF Overwrites
    <2>3. CASE loop_object = object[f] /\ loop_loaded = credit[f]
        <3>1. credit'[f] = credit[f] + -Est[r]
            BY <1>1, <1>2, <2>3 DEF StoreCredit
        <3>2. Charge(r) = 0 /\ Charge(r)' = Est[r]
            BY <1>4, <1>5, <2>3
        <3> QED BY <1>2, <3>1, <3>2
    <2> QED BY <2>1, <2>2, <2>3
<1>9. Charge(r) \in Nat /\ Charge(r)' \in Nat
    BY <1>2, <1>4, <1>5
<1>10. disturbed \subseteq disturbed'
    BY <1>1
<1> QED BY <1>6, <1>7, <1>8, <1>9, <1>10, StoreStep DEF LifecycleInv

\* The settlement: the estimate is replaced by what the request really cost, on the
\* object that was debited for it.
LEMMA SettleStep ==
    ASSUME LifecycleInv, LifecycleTypes', NEW r \in Requests, ReportStore(r)
    PROVE  Balanced'
<1> DEFINE f == FlowOf[r]
           o == loaded_object[r]
<1>1. /\ pc[r] = "loaded" /\ pc' = [pc EXCEPT ![r] = "done"]
      /\ StoreCredit(f, o, loaded[r], restore_cost(r))
      /\ disturbed' = IF Overwrites(f, o, loaded[r]) \/ (o = object[f] /\ debited[r] # o)
                      THEN disturbed \union {f} ELSE disturbed
      /\ UNCHANGED <<object, delivered, completed, debited>>
    BY DEF ReportStore, Goto, guardVars
<1>2. /\ f \in Flows /\ Est[r] \in Nat /\ credit \in [Flows -> Int] /\ object[f] \in Nat
      /\ debited[r] \in Nat /\ o \in Nat /\ pc \in [Requests -> RequestStates]
      /\ loaded[r] \in Int /\ delivered[r] \in Nat
    BY LifecycleAssumption DEF LifecycleInv, LifecycleTypes
<1>3. debited[r] <= o /\ debited[r] <= object[f]
    BY <1>1 DEF LifecycleInv, ObjectsInOrder
<1> DEFINE final == IF completed[r] /\ delivered[r] = 0 THEN Est[r] ELSE delivered[r]
<1>4. Charge(r) = IF debited[r] = object[f] THEN Est[r] ELSE 0
    BY <1>1 DEF Charge
<1>5. Charge(r)' = IF debited[r] = object[f] THEN final ELSE 0
    BY <1>1, <1>2 DEF Charge
<1>6. \A s \in Requests \ {r} : Charge(s)' = Charge(s)
    BY <1>1, <1>2 DEF Charge
<1>7. \A g \in Flows \ {f} : credit'[g] = credit[g]
    BY <1>1, <1>2 DEF StoreCredit
<1>a. final \in Nat /\ restore_cost(r) = Est[r] - final
    BY <1>2 DEF restore_cost
<1>8. f \in disturbed' \/ credit'[f] = credit[f] + Charge(r) - Charge(r)'
    <2> HIDE DEF final
    <2>1. CASE o = object[f] /\ (loaded[r] # credit[f] \/ debited[r] # o)
        BY <1>1, <2>1 DEF Overwrites
    <2>2. CASE o = object[f] /\ loaded[r] = credit[f] /\ debited[r] = o
        <3>1. credit'[f] = credit[f] + restore_cost(r)
            BY <1>1, <1>2, <2>2 DEF StoreCredit
        <3>2. Charge(r) = Est[r] /\ Charge(r)' = final
            BY <1>4, <1>5, <2>2
        <3> QED BY <1>2, <1>a, <3>1, <3>2
    <2>3. CASE o # object[f]
        <3>1. credit'[f] = credit[f]
            BY <1>1, <2>3 DEF StoreCredit
        <3>2. o <= object[f] => debited[r] # object[f]
            BY <1>2, <1>3, <2>3
        <3>3. CASE debited[r] # object[f]
            BY <1>2, <1>4, <1>5, <3>1, <3>3
        <3>4. o <= object[f]
            BY <1>1 DEF LifecycleInv, ObjectsInOrder
        <3> QED BY <3>2, <3>3, <3>4
    <2> QED BY <2>1, <2>2, <2>3
<1>9. Charge(r) \in Nat /\ Charge(r)' \in Nat
    BY <1>2, <1>4, <1>5, <1>a
<1>10. disturbed \subseteq disturbed'
    BY <1>1
<1> QED BY <1>6, <1>7, <1>8, <1>9, <1>10, StoreStep DEF LifecycleInv

\* Every step of a request keeps the balance.
LEMMA BalanceStep ==
    ASSUME LifecycleInv, LifecycleTypes', NEW r \in Requests, Request(r)
    PROVE  Balanced'
<1>0. /\ LifecycleTypes /\ Balanced /\ pc \in [Requests -> RequestStates]
      /\ delivered \in [Requests -> Nat] /\ completed \in [Requests -> BOOLEAN]
    BY DEF LifecycleInv, LifecycleTypes
<1>1. CASE \/ Arrive(r) \/ DebitLoad(r) \/ GiveUp(r) \/ NewGuard(r) \/ RemoveEntry(r)
           \/ ReportLoad(r)
    <2>1. UNCHANGED <<credit, object, debited, disturbed, delivered, completed>>
        BY <1>1 DEF Arrive, DebitLoad, GiveUp, NewGuard, RemoveEntry, ReportLoad,
                    registryVars, guardVars, history
    <2>2. \E to \in {"queued", "selected", "gone", "abandoned", "running", "settling",
                     "loaded"} : pc' = [pc EXCEPT ![r] = to]
        BY <1>1 DEF Arrive, DebitLoad, GiveUp, NewGuard, RemoveEntry, ReportLoad, Goto
    <2>3. pc[r] # "done"
        BY <1>1 DEF Arrive, DebitLoad, GiveUp, NewGuard, RemoveEntry, ReportLoad, Goto
    <2>4. \A s \in Requests : pc'[s] = "done" <=> pc[s] = "done"
        BY <1>0, <2>2, <2>3
    <2> QED BY <1>0, <2>1, <2>4, QuietStep
<1>2. CASE add_delivered_tokens(r) \/ mark_completed(r)
    <2>1. /\ pc[r] = "running" /\ pc' = pc
          /\ UNCHANGED <<credit, object, debited, disturbed>>
        BY <1>2 DEF add_delivered_tokens, mark_completed, registryVars, history
    <2>2. \A s \in Requests \ {r} : delivered'[s] = delivered[s]
        BY <1>0, <1>2 DEF add_delivered_tokens, mark_completed
    <2>3. \A s \in Requests \ {r} : completed'[s] = completed[s]
        BY <1>0, <1>2 DEF add_delivered_tokens, mark_completed
    <2> QED BY <1>0, <2>1, <2>2, <2>3, QuietStep
<1>3. CASE Unregister(r)
    <2>1. /\ pc[r] = "running"
          /\ pc' = [pc EXCEPT ![r] = "removing"] \/ pc' = [pc EXCEPT ![r] = "settling"]
          /\ UNCHANGED <<credit, object, debited, disturbed, delivered, completed>>
        BY <1>3 DEF Unregister, registryVars, guardVars, history
    <2>2. \A s \in Requests : pc'[s] = "done" <=> pc[s] = "done"
        BY <1>0, <2>1
    <2> QED BY <1>0, <2>1, <2>2, QuietStep
<1> QED BY <1>1, <1>2, <1>3, DebitStep, SettleStep DEF Request

\* The shape in which the credit is compared with a sum of charges.
LEMMA Opposite ==
    ASSUME NEW m \in Int, NEW n \in Int, m + n = 0
    PROVE  m = -n
OBVIOUS

\* A fresh object owes nothing: whatever was debited, was debited to an older one.
LEMMA ReplaceStep ==
    ASSUME LifecycleInv, NEW f \in Flows, Replace(f)
    PROVE  LifecycleTypes' /\ ObjectsInOrder' /\ Balanced'
<1>1. /\ object' = [object EXCEPT ![f] = object[f] + 1]
      /\ credit' = [credit EXCEPT ![f] = 0]
      /\ disturbed' = disturbed \ {f}
      /\ UNCHANGED <<entries, in_hand, loop_loaded, loop_object, pc, delivered, completed,
                     loaded, loaded_object, debited>>
    BY DEF Replace, loopVars, guardVars, reportVars
<1>2. /\ object \in [Flows -> Nat] /\ credit \in [Flows -> Int]
      /\ FlowOf \in [Requests -> Flows] /\ debited \in [Requests -> Nat]
      /\ loaded_object \in [Requests -> Nat] /\ loop_object \in Nat
      /\ in_hand \in Requests \union {NoRequest}
    BY LifecycleAssumption DEF LifecycleInv, LifecycleTypes
<1>3. LifecycleTypes'
    BY <1>1, <1>2 DEF LifecycleInv, LifecycleTypes
<1>4. \A g \in Flows : object'[g] = IF g = f THEN object[f] + 1 ELSE object[g]
    BY <1>1, <1>2
<1>5. ObjectsInOrder'
    <2>1. \A g \in Flows : object[g] \in Nat /\ object[g] <= object'[g] /\ object'[g] \in Nat
        BY <1>2, <1>4
    <2>2. in_hand # NoRequest => FlowOf[in_hand] \in Flows
        BY <1>2
    <2> QED BY <1>1, <1>2, <2>1, <2>2 DEF LifecycleInv, ObjectsInOrder
<1>6. Balanced'
    <2> SUFFICES ASSUME NEW g \in Flows \ disturbed' PROVE credit'[g] = -Charges(g)'
        BY DEF Balanced
    <2>1. CASE g = f
        <3>1. \A s \in OfFlow(f) : Charge(s)' = 0
            BY <1>1, <1>2, <1>4 DEF Charge, OfFlow, LifecycleInv, ObjectsInOrder
        <3>2. Charges(f)' = 0
            <4> DEFINE cost == [s \in OfFlow(f) |-> Charge(s)']
            <4>1. cost \in [OfFlow(f) -> Nat] /\ \A s \in OfFlow(f) : cost[s] = 0
                BY <3>1
            <4>2. Charges(f)' = Total(cost)
                BY DEF Charges, OfFlow
            <4> HIDE DEF cost
            <4>3. Tokens(cost) = {}
                BY <4>1, InTokens
            <4> QED BY <4>2, <4>3, FS_EmptySet DEF Total
        <3>3. credit'[f] = 0
            BY <1>1, <1>2
        <3>4. credit'[f] \in Int /\ Charges(f)' \in Int /\ credit'[f] + Charges(f)' = 0
            BY <3>2, <3>3
        <3> HIDE <3>2, <3>3
        <3> QED BY <2>1, <3>4, Opposite
    <2>2. CASE g # f
        <3>1. \A s \in OfFlow(g) : Charge(s)' = Charge(s)
            <4> TAKE s \in OfFlow(g)
            <4>1. s \in Requests /\ FlowOf[s] = g /\ object'[g] = object[g]
                BY <1>4, <2>2 DEF OfFlow
            <4> QED BY <1>1, <4>1 DEF Charge
        <3>2. Charges(g)' = Charges(g)
            BY <3>1, ChargesUnchanged
        <3>3. credit'[g] = credit[g] /\ g \notin disturbed
            BY <1>1, <1>2, <2>2
        <3> QED BY <3>2, <3>3 DEF LifecycleInv, Balanced
    <2> QED BY <2>1, <2>2
<1> QED BY <1>3, <1>5, <1>6

-----------------------------------------------------------------------------
(* The tracker *)

Live(f) == {r \in OfFlow(f) : Registered(r)}

\* The entry of f sums up its registered requests.
EntryExact(f) ==
    entries[f] = [estimated |-> Sum(Live(f), Est), delivered |-> Sum(Live(f), delivered),
                  present |-> Live(f) # {}]

LEMMA TrackerByEntry == TrackerExact <=> \A f \in Flows \ torn : EntryExact(f)
BY DEF TrackerExact, EntryExact, Live, Sum

LEMMA TrackerByEntryNext == TrackerExact' <=> \A f \in Flows \ torn' : EntryExact(f)'
BY DEF TrackerExact, EntryExact, Live, Sum

\* A flow of which nobody registers, unregisters or delivers keeps its entry exact.
LEMMA EntryKept ==
    ASSUME NEW f \in Flows, EntryExact(f), entries'[f] = entries[f],
           \A s \in OfFlow(f) : Registered(s)' <=> Registered(s),
           \A s \in OfFlow(f) : Registered(s) => delivered'[s] = delivered[s]
    PROVE  EntryExact(f)'
<1>1. Live(f)' = Live(f)
    BY DEF Live, OfFlow
<1>2. Sum(Live(f), delivered') = Sum(Live(f), delivered)
    BY SumSame DEF Live
<1>3. EntryExact(f)' <=>
          entries'[f] = [estimated |-> Sum(Live(f)', Est),
                         delivered |-> Sum(Live(f)', delivered'), present |-> Live(f)' # {}]
    BY DEF EntryExact
<1>4. entries[f] = [estimated |-> Sum(Live(f), Est), delivered |-> Sum(Live(f), delivered),
                    present |-> Live(f) # {}]
    BY DEF EntryExact
<1> QED BY <1>1, <1>2, <1>3, <1>4

\* The fields of an exact entry.
LEMMA EntryFields ==
    ASSUME LifecycleTypes, NEW f \in Flows, EntryExact(f)
    PROVE  /\ Live(f) \in SUBSET Requests
           /\ Sum(Live(f), Est) \in Nat /\ Sum(Live(f), delivered) \in Nat
           /\ entries[f].estimated = Sum(Live(f), Est)
           /\ entries[f].delivered = Sum(Live(f), delivered)
           /\ entries[f].present = (Live(f) # {})
<1>1. Live(f) \in SUBSET Requests
    BY DEF Live, OfFlow
<1>2. Est \in [Requests -> Nat] /\ delivered \in [Requests -> Nat]
    BY LifecycleAssumption DEF LifecycleTypes
<1>3. Sum(Live(f), Est) \in Nat /\ Sum(Live(f), delivered) \in Nat
    BY <1>1, <1>2, SumType
<1> QED BY <1>1, <1>3 DEF EntryExact

\* A step of one request moves its flow's entry only.
LEMMA TrackerStep ==
    ASSUME TrackerExact, NEW r \in Requests,
           \A g \in Flows \ {FlowOf[r]} : entries'[g] = entries[g],
           \A s \in Requests \ {r} : pc'[s] = pc[s] /\ delivered'[s] = delivered[s],
           torn \subseteq torn',
           FlowOf[r] \in torn' \/ EntryExact(FlowOf[r])'
    PROVE  TrackerExact'
<1> SUFFICES ASSUME NEW g \in Flows \ torn', g # FlowOf[r] PROVE EntryExact(g)'
    BY TrackerByEntryNext
<1>1. EntryExact(g) /\ entries'[g] = entries[g]
    BY TrackerByEntry
<1>2. \A s \in OfFlow(g) : s \in Requests \ {r}
    BY DEF OfFlow
<1>3. \A s \in OfFlow(g) : /\ Registered(s)' <=> Registered(s)
                          /\ delivered'[s] = delivered[s]
    BY <1>2 DEF Registered
<1> QED BY <1>1, <1>3, EntryKept

\* LifecycleGuard::new adds its estimate to the flow's entry.
LEMMA RegisterStep ==
    ASSUME LifecycleInv, NEW r \in Requests, NewGuard(r)
    PROVE  TrackerExact'
<1> DEFINE f == FlowOf[r]
           L == Live(f)
<1>1. /\ pc[r] = "granted" /\ pc' = [pc EXCEPT ![r] = "running"]
      /\ entries' = [entries EXCEPT ![f].estimated = @ + Est[r], ![f].present = TRUE]
      /\ UNCHANGED <<delivered, torn>>
    BY DEF NewGuard, Goto, guardVars, history
<1>2. /\ f \in Flows /\ Est \in [Requests -> Nat] /\ delivered \in [Requests -> Nat]
      /\ pc \in [Requests -> RequestStates] /\ entries \in [Flows -> Entries]
      /\ delivered[r] = 0 /\ LifecycleTypes /\ TrackerExact
    BY <1>1, LifecycleAssumption DEF LifecycleInv, LifecycleTypes, NothingEarly
<1>3. /\ \A g \in Flows \ {f} : entries'[g] = entries[g]
      /\ \A s \in Requests \ {r} : pc'[s] = pc[s] /\ delivered'[s] = delivered[s]
    BY <1>1, <1>2
<1>4. ASSUME f \notin torn PROVE EntryExact(f)'
    <2>1. EntryExact(f)
        BY <1>2, <1>4, TrackerByEntry
    <2>2. /\ L \in SUBSET Requests /\ Sum(L, Est) \in Nat /\ Sum(L, delivered) \in Nat
          /\ entries[f].estimated = Sum(L, Est) /\ entries[f].delivered = Sum(L, delivered)
        BY <1>2, <2>1, EntryFields
    <2>3. Live(f)' = L \union {r} /\ r \notin L
        <3>1. pc'[r] = "running" /\ r \in OfFlow(f)
            BY <1>1, <1>2 DEF OfFlow
        <3>2. \A s \in OfFlow(f) \ {r} : Registered(s)' <=> Registered(s)
            BY <1>3 DEF Registered, OfFlow
        <3>3. Registered(r)' /\ ~Registered(r)
            BY <1>1, <3>1 DEF Registered
        <3> QED BY <3>1, <3>2, <3>3 DEF Live, OfFlow
    <2>4. entries'[f] = [estimated |-> entries[f].estimated + Est[r],
                         delivered |-> entries[f].delivered, present |-> TRUE]
        BY <1>1, <1>2 DEF Entries
    <2> HIDE DEF L, f
    <2>5. (L \union {r}) \ {r} = L /\ L \union {r} \in SUBSET Requests
        BY <2>2, <2>3
    <2>6. /\ Sum(L \union {r}, Est) = Sum(L, Est) + Est[r]
          /\ Sum(L \union {r}, delivered) = Sum(L, delivered) + delivered[r]
        BY <1>2, <2>5, SumWithout
    <2>7. Sum(L \union {r}, delivered) = Sum(L, delivered)
        BY <1>2, <2>2, <2>6
    <2>8. Live(f)' # {} /\ delivered' = delivered
        BY <1>1, <2>3
    <2> QED BY <2>2, <2>3, <2>4, <2>6, <2>7, <2>8 DEF EntryExact
<1> QED BY <1>1, <1>2, <1>3, <1>4, TrackerStep

\* A usage frame goes into the guard's count and into the flow's entry.
LEMMA DeliverStep ==
    ASSUME LifecycleInv, LifecycleTypes', NEW r \in Requests, add_delivered_tokens(r)
    PROVE  TrackerExact'
<1> DEFINE f == FlowOf[r]
           L == Live(f)
<1>1. /\ pc[r] = "running" /\ delivered' = [delivered EXCEPT ![r] = @ + Frame]
      /\ entries' = IF entries[f].present
                    THEN [entries EXCEPT ![f].delivered = @ + Frame] ELSE entries
      /\ UNCHANGED <<pc, torn>>
    BY DEF add_delivered_tokens, history
<1>2. /\ f \in Flows /\ delivered \in [Requests -> Nat] /\ delivered' \in [Requests -> Nat]
      /\ Frame \in Nat /\ entries \in [Flows -> Entries] /\ LifecycleTypes /\ TrackerExact
    BY LifecycleAssumption DEF LifecycleInv, LifecycleTypes
<1>3. /\ \A g \in Flows \ {f} : entries'[g] = entries[g]
      /\ \A s \in Requests \ {r} : pc'[s] = pc[s] /\ delivered'[s] = delivered[s]
      /\ delivered'[r] = delivered[r] + Frame
    BY <1>1, <1>2
<1>4. ASSUME f \notin torn PROVE EntryExact(f)'
    <2>1. EntryExact(f)
        BY <1>2, <1>4, TrackerByEntry
    <2>2. /\ L \in SUBSET Requests /\ Sum(L, Est) \in Nat /\ Sum(L, delivered) \in Nat
          /\ entries[f].estimated = Sum(L, Est) /\ entries[f].delivered = Sum(L, delivered)
          /\ entries[f].present = (L # {})
        BY <1>2, <2>1, EntryFields
    <2>3. Live(f)' = L /\ r \in L
        BY <1>1 DEF Live, OfFlow, Registered
    <2>4. entries'[f] = [estimated |-> entries[f].estimated,
                         delivered |-> entries[f].delivered + Frame, present |-> L # {}]
        <3>1. entries[f].present = TRUE /\ (L # {}) = TRUE
            BY <2>2, <2>3
        <3>2. entries' = [entries EXCEPT ![f].delivered = @ + Frame]
            BY <1>1, <3>1
        <3>3. entries'[f] = [estimated |-> entries[f].estimated,
                             delivered |-> entries[f].delivered + Frame, present |-> TRUE]
            BY <1>2, <3>1, <3>2 DEF Entries
        <3> QED BY <3>1, <3>3
    <2> HIDE DEF L, f
    <2>5. Sum(L, delivered') = Sum(L, delivered) - delivered[r] + delivered'[r]
        BY <1>2, <1>3, <2>2, <2>3, SumChange
    <2>6. Sum(L, delivered') = Sum(L, delivered) + Frame
        BY <1>2, <1>3, <2>2, <2>5
    <2> QED BY <2>2, <2>3, <2>4, <2>6 DEF EntryExact
<1> QED BY <1>1, <1>2, <1>3, <1>4, TrackerStep

\* unregister takes the request's share out of the entry, or finds nothing else left
\* and keeps the entry for its removal.
LEMMA UnregisterStep ==
    ASSUME LifecycleInv, NEW r \in Requests, Unregister(r)
    PROVE  TrackerExact'
<1> DEFINE f == FlowOf[r]
           L == Live(f)
           e == entries[f]
           est == e.estimated - Est[r]
           del == e.delivered - delivered[r]
<1>1. /\ pc[r] = "running"
      /\ pc' = [pc EXCEPT ![r] = IF e.present /\ est = 0 /\ del = 0
                                 THEN "removing" ELSE "settling"]
      /\ entries' = IF e.present /\ ~(est = 0 /\ del = 0)
                    THEN [entries EXCEPT ![f].estimated = est, ![f].delivered = del]
                    ELSE entries
      /\ UNCHANGED <<delivered, torn>>
    BY DEF Unregister, guardVars, history
<1>2. /\ f \in Flows /\ Est \in [Requests -> Nat] /\ delivered \in [Requests -> Nat]
      /\ pc \in [Requests -> RequestStates] /\ entries \in [Flows -> Entries]
      /\ LifecycleTypes /\ TrackerExact
    BY LifecycleAssumption DEF LifecycleInv, LifecycleTypes
<1>3. /\ \A g \in Flows \ {f} : entries'[g] = entries[g]
      /\ \A s \in Requests \ {r} : pc'[s] = pc[s] /\ delivered'[s] = delivered[s]
    BY <1>1, <1>2
<1>4. ASSUME f \notin torn PROVE EntryExact(f)'
    <2>1. EntryExact(f)
        BY <1>2, <1>4, TrackerByEntry
    <2>2. /\ L \in SUBSET Requests /\ Sum(L, Est) \in Nat /\ Sum(L, delivered) \in Nat
          /\ e.estimated = Sum(L, Est) /\ e.delivered = Sum(L, delivered)
          /\ e.present = (L # {})
        BY <1>2, <2>1, EntryFields
    <2>3. r \in L
        BY <1>1 DEF Live, OfFlow, Registered
    <2>4. e.present = TRUE
        BY <2>2, <2>3
    <2>5. CASE est = 0 /\ del = 0
        <3>1. pc' = [pc EXCEPT ![r] = "removing"] /\ entries' = entries
            BY <1>1, <2>4, <2>5
        <3>2. \A s \in OfFlow(f) : Registered(s)' <=> Registered(s)
            BY <1>1, <1>2, <3>1 DEF Registered, OfFlow
        <3> QED BY <1>1, <1>2, <2>1, <3>1, <3>2, EntryKept
    <2>6. CASE ~(est = 0 /\ del = 0)
        <3>1. /\ pc' = [pc EXCEPT ![r] = "settling"]
              /\ entries' = [entries EXCEPT ![f].estimated = est, ![f].delivered = del]
            BY <1>1, <2>4, <2>6
        <3>2. Live(f)' = L \ {r}
            <4>1. pc'[r] = "settling"
                BY <1>2, <3>1
            <4>2. \A s \in OfFlow(f) \ {r} : Registered(s)' <=> Registered(s)
                BY <1>3 DEF Registered, OfFlow
            <4>3. ~Registered(r)'
                BY <4>1 DEF Registered
            <4> QED BY <4>2, <4>3 DEF Live, OfFlow
        <3>3. entries'[f] = [estimated |-> est, delivered |-> del, present |-> TRUE]
            BY <1>2, <2>4, <3>1 DEF Entries
        <3> HIDE DEF L, f, e
        <3>4. /\ Sum(L, Est) = Sum(L \ {r}, Est) + Est[r]
              /\ Sum(L, delivered) = Sum(L \ {r}, delivered) + delivered[r]
            BY <1>2, <2>2, <2>3, SumWithout
        <3>5. Sum(L \ {r}, Est) \in Nat /\ Sum(L \ {r}, delivered) \in Nat
            BY <1>2, <2>2, SumType
        <3>6. est = Sum(L \ {r}, Est) /\ del = Sum(L \ {r}, delivered)
            BY <1>2, <2>2, <3>4, <3>5
        <3>7. L \ {r} # {}
            BY <1>2, <2>6, <3>6, SumEmpty
        <3> QED BY <1>1, <3>2, <3>3, <3>6, <3>7 DEF EntryExact
    <2> QED BY <2>5, <2>6
<1> QED BY <1>1, <1>2, <1>3, <1>4, TrackerStep

\* The entry is removed: it was the request's own, or another request is torn out.
LEMMA RemoveStep ==
    ASSUME LifecycleInv, NEW r \in Requests, RemoveEntry(r)
    PROVE  TrackerExact'
<1> DEFINE f == FlowOf[r]
<1>1. /\ pc' = [pc EXCEPT ![r] = "settling"]
      /\ entries' = [entries EXCEPT ![f] = NoEntry]
      /\ torn' = IF \E s \in OfFlow(f) \ {r} : Registered(s) THEN torn \union {f} ELSE torn
      /\ delivered' = delivered
    BY DEF RemoveEntry, Goto, guardVars
<1>2. /\ f \in Flows /\ Est \in [Requests -> Nat] /\ delivered \in [Requests -> Nat]
      /\ pc \in [Requests -> RequestStates] /\ entries \in [Flows -> Entries]
      /\ TrackerExact
    BY LifecycleAssumption DEF LifecycleInv, LifecycleTypes
<1>3. /\ \A g \in Flows \ {f} : entries'[g] = entries[g]
      /\ \A s \in Requests \ {r} : pc'[s] = pc[s] /\ delivered'[s] = delivered[s]
      /\ torn \subseteq torn'
    BY <1>1, <1>2
<1>4. ASSUME f \notin torn' PROVE EntryExact(f)'
    <2>1. \A s \in OfFlow(f) \ {r} : ~Registered(s)
        BY <1>1, <1>4
    <2>2. Live(f)' = {}
        <3>1. pc'[r] = "settling"
            BY <1>1, <1>2
        <3>2. \A s \in OfFlow(f) : ~Registered(s)'
            BY <1>3, <2>1, <3>1 DEF Registered, OfFlow
        <3> QED BY <3>2 DEF Live, OfFlow
    <2>3. Sum({}, Est) = 0 /\ Sum({}, delivered) = 0
        BY <1>2, SumEmpty
    <2>4. entries'[f] = NoEntry
        BY <1>1, <1>2
    <2> QED BY <1>1, <2>2, <2>3, <2>4 DEF EntryExact, NoEntry
<1> QED BY <1>2, <1>3, <1>4, TrackerStep

\* Every step of a request keeps the tracker exact.
LEMMA TrackerKept ==
    ASSUME LifecycleInv, LifecycleTypes', NEW r \in Requests, Request(r)
    PROVE  TrackerExact'
<1>1. CASE \/ Arrive(r) \/ DebitLoad(r) \/ DebitStore(r) \/ GiveUp(r) \/ mark_completed(r)
           \/ ReportLoad(r) \/ ReportStore(r)
    <2>0. TrackerExact /\ FlowOf[r] \in Flows /\ pc \in [Requests -> RequestStates]
        BY LifecycleAssumption DEF LifecycleInv, LifecycleTypes
    <2>1. UNCHANGED <<entries, delivered, torn>>
        BY <1>1 DEF Arrive, DebitLoad, DebitStore, GiveUp, mark_completed, ReportLoad,
                    ReportStore, guardVars, history
    <2>2. \/ pc' = pc
          \/ /\ pc[r] \in {"idle", "queued", "selected", "granted", "settling", "loaded"}
             /\ \E to \in {"queued", "selected", "granted", "gone", "abandoned", "loaded",
                           "done"} : pc' = [pc EXCEPT ![r] = to]
        BY <1>1 DEF Arrive, DebitLoad, DebitStore, GiveUp, mark_completed, ReportLoad,
                    ReportStore, Goto
    <2>3. \A s \in Requests : Registered(s)' <=> Registered(s)
        BY <2>0, <2>2 DEF Registered
    <2>4. ASSUME NEW g \in Flows \ torn PROVE EntryExact(g)'
        BY <2>0, <2>1, <2>3, TrackerByEntry, EntryKept DEF OfFlow
    <2> QED BY <2>1, <2>4, TrackerByEntryNext
<1> QED BY <1>1, RegisterStep, DeliverStep, UnregisterStep, RemoveStep DEF Request

\* Tokens come to running requests only.
LEMMA EarlyStep ==
    ASSUME LifecycleTypes, NothingEarly, NEW r \in Requests, Request(r)
    PROVE  NothingEarly'
<1>0. pc \in [Requests -> RequestStates] /\ delivered \in [Requests -> Nat]
    BY DEF LifecycleTypes
<1>1. CASE add_delivered_tokens(r)
    BY <1>0, <1>1 DEF add_delivered_tokens, NothingEarly
<1>2. CASE ~add_delivered_tokens(r)
    <2>1. delivered' = delivered
        BY <1>2 DEF Request, Arrive, DebitLoad, DebitStore, GiveUp, NewGuard, mark_completed,
                    Unregister, RemoveEntry, ReportLoad, ReportStore, guardVars
    <2>2. \/ pc' = pc
          \/ /\ pc[r] \in {"idle", "queued", "selected"}
             /\ \E to \in RequestStates : pc' = [pc EXCEPT ![r] = to]
          \/ \E to \in {"gone", "abandoned", "running", "removing", "settling", "loaded",
                        "done"} : pc' = [pc EXCEPT ![r] = to]
        BY <1>2 DEF Request, Arrive, DebitLoad, DebitStore, GiveUp, NewGuard, mark_completed,
                    Unregister, RemoveEntry, ReportLoad, ReportStore, Goto, RequestStates
    <2> QED BY <1>0, <2>1, <2>2 DEF NothingEarly
<1> QED BY <1>1, <1>2

-----------------------------------------------------------------------------
(* The invariant *)

\* Nothing is debited and nobody is registered at the start.
LEMMA InvInit == Init => LifecycleInv
<1> SUFFICES ASSUME Init PROVE LifecycleInv
    OBVIOUS
<1>1. LifecycleTypes /\ ObjectsInOrder
    BY TypesInit
<1>2. NothingEarly
    BY DEF Init, NothingEarly
<1>3. ASSUME NEW f \in Flows PROVE credit[f] = -Charges(f)
    <2>1. \A r \in OfFlow(f) : Charge(r) = 0
        BY LifecycleAssumption DEF Init, Charge, OfFlow
    <2>2. credit[f] \in Int /\ Charges(f) \in Int /\ credit[f] + Charges(f) = 0
        BY <2>1, ChargesNone DEF Init
    <2> QED BY <2>2, Opposite
<1>4. ASSUME NEW f \in Flows PROVE EntryExact(f)
    <2>1. Live(f) = {}
        BY DEF Init, Live, OfFlow, Registered
    <2>2. Est \in [Requests -> Nat] /\ delivered \in [Requests -> Nat]
        BY <1>1, LifecycleAssumption DEF LifecycleTypes
    <2>3. Sum({}, Est) = 0 /\ Sum({}, delivered) = 0
        BY <2>2, SumEmpty
    <2> QED BY <2>1, <2>3 DEF EntryExact, Init, NoEntry
<1> QED BY <1>1, <1>2, <1>3, <1>4, TrackerByEntry DEF LifecycleInv, Balanced

\* The registry's steps leave guards and tracker alone.
LEMMA RegistryStep ==
    ASSUME LifecycleInv, NEW f \in Flows, Registry(f)
    PROVE  LifecycleInv'
<1>1. /\ UNCHANGED <<entries, pc, delivered, torn>>
      /\ TrackerExact /\ NothingEarly
    BY DEF Registry, Doom, Replace, guardVars, history, LifecycleInv
<1>2. NothingEarly'
    BY <1>1 DEF NothingEarly
<1>3. TrackerExact'
    BY <1>1 DEF TrackerExact, OfFlow, Registered
<1>4. CASE Doom(f)
    <2>1. UNCHANGED <<credit, object, entries, in_hand, loop_loaded, loop_object, pc,
                      delivered, completed, loaded, loaded_object, debited, disturbed>>
        BY <1>4 DEF Doom, loopVars, guardVars, reportVars, history
    <2>2. LifecycleTypes' /\ ObjectsInOrder'
        BY <2>1 DEF LifecycleInv, LifecycleTypes, ObjectsInOrder
    <2>3. Balanced'
        BY <2>1, QuietStep DEF LifecycleInv
    <2> QED BY <1>2, <1>3, <2>2, <2>3 DEF LifecycleInv
<1> QED BY <1>2, <1>3, <1>4, ReplaceStep DEF LifecycleInv, Registry

\* The inductive step.
LEMMA InvStep == LifecycleInv /\ [Next]_vars => LifecycleInv'
<1> SUFFICES ASSUME LifecycleInv, [Next]_vars PROVE LifecycleInv'
    OBVIOUS
<1>1. ASSUME NEW r \in Requests, Request(r) PROVE LifecycleInv'
    <2>1. LifecycleTypes'
        BY <1>1, TypesStep DEF LifecycleInv
    <2> QED BY <1>1, <2>1, OrderStep, EarlyStep, BalanceStep, TrackerKept DEF LifecycleInv
<1>2. CASE UNCHANGED vars
    <2>1. UNCHANGED <<credit, object, entries, in_hand, loop_loaded, loop_object, pc,
                      delivered, completed, loaded, loaded_object, debited, disturbed, torn>>
        BY <1>2 DEF vars, registryVars, loopVars, guardVars, reportVars, history
    <2>2. LifecycleTypes' /\ ObjectsInOrder' /\ NothingEarly'
        BY <2>1 DEF LifecycleInv, LifecycleTypes, ObjectsInOrder, NothingEarly
    <2>3. Balanced'
        BY <2>1, QuietStep DEF LifecycleInv
    <2>4. TrackerExact'
        BY <2>1 DEF LifecycleInv, TrackerExact, OfFlow, Registered
    <2> QED BY <2>2, <2>3, <2>4 DEF LifecycleInv
<1> QED BY <1>1, <1>2, RegistryStep DEF Next

\* Whatever the number of flows, requests in flight and Flow objects, estimates and
\* tokens: try_select, LifecycleGuard, report_accounting, the tracker, the reaper and
\* register keep the ledger's inductive invariant.
THEOREM LifecycleInvariance == Spec => []LifecycleInv
<1> QED BY InvInit, InvStep, PTL DEF Spec

\* The credit of a flow is minus the estimates debited for its requests in flight and
\* what the settled ones delivered, except on an object that lost an update to a
\* load and store of another (or was settled with for an earlier object's debit).
THEOREM CreditIsExact == Spec => []CreditExact
<1>1. LifecycleInv => CreditExact
    BY DEF LifecycleInv, Balanced, CreditExact
<1> QED BY <1>1, LifecycleInvariance, PTL

\* The tracker's entry of a flow sums up its registered requests, however many there
\* are, unless unregister removed it under one of them.
THEOREM TrackerIsExact == Spec => []TrackerExact
<1>1. LifecycleInv => TrackerExact
    BY DEF LifecycleInv
<1> QED BY <1>1, LifecycleInvariance, PTL
=============================================================================
