------------------------- MODULE FlowRegistryProofs -------------------------
(***************************************************************************)
(* Proofs about FlowRegistry: for any flows, requests, slots and           *)
(* incarnations, the registry uses its slot allocator as SlotAllocator     *)
(* says, so what is proved of that module holds here, and the depth of     *)
(* each incarnation of a flow counts the requests that hold it.            *)
(***************************************************************************)
EXTENDS FlowRegistry, SlotAllocatorProofs

\* Types of the registry's own state.
RegistryTypes ==
    /\ flows \in [Flows -> 0..MaxGen] /\ newest \in [Flows -> 0..MaxGen]
    /\ active \in [Flows -> [Gens -> Int]]
    /\ recent \in [Flows -> [Gens -> BOOLEAN]]
    /\ slot_count \in 0..MaxSlots
    /\ pc \in [Requests -> RequestStates]
    /\ arc \in [Requests -> Nat] /\ ticket_arc \in [Requests -> Nat]
    /\ reaper \in {"sleeping", "evicting"}
    /\ to_remove \in SUBSET Flows /\ unreleased \in SUBSET Flows
    /\ inserting \in SUBSET Flows

\* Every incarnation that is registered, held or captured has been made; a request
\* that has passed admit holds one, and a ticket has captured one.
ArcsWereMade ==
    /\ \A f \in Flows : flows[f] <= newest[f]
    /\ \A r \in Requests :
          /\ arc[r] <= newest[FlowOf[r]] /\ ticket_arc[r] <= newest[FlowOf[r]]
          /\ pc[r] \in {"held", "queued", "granted", "active"} => arc[r] # 0
          /\ pc[r] \in {"granted", "active"} => ticket_arc[r] # 0

\* The depth of an incarnation counts the guards on it, and so is never below zero.
DepthsCounted == depth \in [Flows -> [Gens -> Nat]] /\ DepthPerIncarnation

\* The inductive invariant of the registry.
RegistryInv == RegistryTypes /\ ArcsWereMade /\ DepthsCounted

-----------------------------------------------------------------------------
(* Incarnations and depths *)

\* Sets of requests are finite.
LEMMA GuardsFinite ==
    ASSUME NEW f, NEW g
    PROVE  IsFiniteSet(Guards(f, g)) /\ Cardinality(Guards(f, g)) \in Nat
BY RegistryAssumption, FS_Subset, FS_CardinalityType DEF Guards

\* The incarnation a request holds is one of the numbered ones.
LEMMA HeldIsMade ==
    ASSUME RegistryInv, NEW r \in Requests,
           pc[r] \in {"held", "queued", "granted", "active"}
    PROVE  /\ FlowOf[r] \in Flows /\ pc \in [Requests -> RequestStates]
           /\ arc[r] \in Gens
<1>1. FlowOf[r] \in Flows /\ MaxGen \in Nat
    BY RegistryAssumption
<1>2. pc \in [Requests -> RequestStates] /\ arc[r] \in Nat
      /\ newest[FlowOf[r]] \in 0..MaxGen
    BY <1>1 DEF RegistryInv, RegistryTypes
<1>3. arc[r] # 0 /\ arc[r] <= newest[FlowOf[r]]
    BY DEF RegistryInv, ArcsWereMade
<1> QED BY <1>1, <1>2, <1>3 DEF Gens

\* What get_or_create returns is a made incarnation, and nobody else's is touched.
LEMMA LookupStep ==
    ASSUME RegistryInv, NEW f \in Flows, get_or_create(f)
    PROVE  /\ flows' \in [Flows -> 0..MaxGen] /\ newest' \in [Flows -> 0..MaxGen]
           /\ recent' \in [Flows -> [Gens -> BOOLEAN]]
           /\ Looked(f) \in Gens /\ Looked(f) <= newest'[f]
           /\ \A h \in Flows : newest[h] <= newest'[h] /\ flows'[h] <= newest'[h]
<1>1. /\ flows \in [Flows -> 0..MaxGen] /\ newest \in [Flows -> 0..MaxGen]
      /\ recent \in [Flows -> [Gens -> BOOLEAN]]
      /\ \A h \in Flows : flows[h] <= newest[h]
      /\ MaxGen \in Nat
    BY RegistryAssumption DEF RegistryInv, RegistryTypes, ArcsWereMade
<1>2. Looked(f) \in Gens
    BY <1>1 DEF get_or_create, Looked, Gens
<1>3. /\ flows' = [flows EXCEPT ![f] = Looked(f)]
      /\ newest' = [newest EXCEPT ![f] = IF flows[f] # 0 THEN newest[f] ELSE newest[f] + 1]
      /\ recent' = [recent EXCEPT ![f][Looked(f)] = TRUE]
    BY DEF get_or_create
<1>4. newest' \in [Flows -> 0..MaxGen]
    <2>1. flows[f] = 0 => newest[f] + 1 \in 0..MaxGen
        BY <1>1 DEF get_or_create, Looked
    <2> QED BY <1>1, <1>3, <2>1
<1>5. Looked(f) <= newest'[f] /\ newest[f] <= newest'[f]
    BY <1>1, <1>3 DEF Looked
<1>6. \A h \in Flows : newest[h] <= newest'[h] /\ flows'[h] <= newest'[h]
    BY <1>1, <1>3, <1>5
<1>7. flows' \in [Flows -> 0..MaxGen] /\ recent' \in [Flows -> [Gens -> BOOLEAN]]
    BY <1>1, <1>2, <1>3 DEF Gens
<1> QED BY <1>2, <1>4, <1>5, <1>6, <1>7

\* A step that opens and closes no guard.
LEMMA DepthsKept ==
    ASSUME RegistryInv, NEW r \in Requests, NEW to,
           pc' = [pc EXCEPT ![r] = to],
           \A s \in Requests \ {r} : arc'[s] = arc[s],
           \/ /\ pc[r] \in {"queued", "granted"} /\ to \in {"queued", "granted"}
              /\ arc'[r] = arc[r]
           \/ pc[r] \notin {"queued", "granted"} /\ to \notin {"queued", "granted"},
           depth' = depth
    PROVE  DepthsCounted'
<1>1. \A f \in Flows, g \in Gens : Guards(f, g)' = Guards(f, g)
    BY DEF RegistryInv, RegistryTypes, Guards
<1> QED BY <1>1 DEF RegistryInv, DepthsCounted, DepthPerIncarnation

\* DrrAdmitGuard::new counts the request on the incarnation admit looked up.
LEMMA GuardOpens ==
    ASSUME RegistryInv, NEW r \in Requests, NEW to \in {"queued", "granted"},
           pc[r] \notin {"queued", "granted"}, arc[r] \in Gens,
           pc' = [pc EXCEPT ![r] = to], arc' = arc,
           depth' = [depth EXCEPT ![FlowOf[r]][arc[r]] = @ + 1]
    PROVE  DepthsCounted'
<1>1. FlowOf[r] \in Flows /\ pc \in [Requests -> RequestStates]
    BY RegistryAssumption DEF RegistryInv, RegistryTypes
<1>2. depth \in [Flows -> [Gens -> Nat]]
    BY DEF RegistryInv, DepthsCounted, DepthPerIncarnation
<1>3. depth' \in [Flows -> [Gens -> Nat]]
    BY <1>1, <1>2
<1>4. ASSUME NEW f \in Flows, NEW g \in Gens
      PROVE  depth'[f][g] = Cardinality(Guards(f, g)')
    <2>0. depth[f][g] = Cardinality(Guards(f, g))
        BY DEF RegistryInv, DepthsCounted, DepthPerIncarnation
    <2>1. CASE f = FlowOf[r] /\ g = arc[r]
        <3>1. Guards(f, g)' = Guards(f, g) \union {r} /\ r \notin Guards(f, g)
            BY <1>1, <2>1 DEF Guards
        <3>2. Cardinality(Guards(f, g)') = Cardinality(Guards(f, g)) + 1
            BY <3>1, GuardsFinite, FS_AddElement
        <3>3. depth'[f][g] = depth[f][g] + 1
            BY <1>2, <2>1
        <3> QED BY <2>0, <3>2, <3>3
    <2>2. CASE ~(f = FlowOf[r] /\ g = arc[r])
        <3>1. Guards(f, g)' = Guards(f, g)
            BY <1>1, <2>2 DEF Guards
        <3>2. depth'[f][g] = depth[f][g]
            BY <1>1, <1>2, <2>2
        <3> QED BY <2>0, <3>1, <3>2
    <2> QED BY <2>1, <2>2
<1> QED BY <1>3, <1>4 DEF DepthsCounted, DepthPerIncarnation

\* A guard that is consumed or dropped leaves the count it entered, which is positive.
LEMMA GuardCloses ==
    ASSUME RegistryInv, NEW r \in Requests, NEW to,
           to \notin {"queued", "granted"},
           pc[r] \in {"queued", "granted"},
           pc' = [pc EXCEPT ![r] = to], arc' = arc,
           depth' = [depth EXCEPT ![FlowOf[r]][arc[r]] = @ - 1]
    PROVE  DepthsCounted'
<1>1. /\ FlowOf[r] \in Flows /\ pc \in [Requests -> RequestStates]
      /\ arc[r] \in Gens
    BY HeldIsMade
<1>2. depth \in [Flows -> [Gens -> Nat]]
    BY DEF RegistryInv, DepthsCounted, DepthPerIncarnation
<1>3. ASSUME NEW f \in Flows, NEW g \in Gens
      PROVE  depth'[f][g] = Cardinality(Guards(f, g)')
    <2>0. depth[f][g] = Cardinality(Guards(f, g))
        BY DEF RegistryInv, DepthsCounted, DepthPerIncarnation
    <2>1. CASE f = FlowOf[r] /\ g = arc[r]
        <3>1. Guards(f, g)' = Guards(f, g) \ {r} /\ r \in Guards(f, g)
            BY <1>1, <2>1 DEF Guards
        <3>2. Cardinality(Guards(f, g)') = Cardinality(Guards(f, g)) - 1
            BY <3>1, GuardsFinite, FS_RemoveElement
        <3>3. depth'[f][g] = depth[f][g] - 1
            BY <1>2, <2>1
        <3> QED BY <2>0, <3>2, <3>3
    <2>2. CASE ~(f = FlowOf[r] /\ g = arc[r])
        <3>1. Guards(f, g)' = Guards(f, g)
            BY <1>1, <2>2 DEF Guards
        <3>2. depth'[f][g] = depth[f][g]
            BY <1>1, <1>2, <2>2
        <3> QED BY <2>0, <3>1, <3>2
    <2> QED BY <2>1, <2>2
<1>4. depth' \in [Flows -> [Gens -> Nat]]
    <2>1. depth' \in [Flows -> [Gens -> Int]]
        BY <1>1, <1>2
    <2>2. \A f \in Flows, g \in Gens : Cardinality(Guards(f, g)') \in Nat
        <3>1. ASSUME NEW f \in Flows, NEW g \in Gens
              PROVE  IsFiniteSet(Guards(f, g)')
            BY RegistryAssumption, FS_Subset DEF Guards
        <3> QED BY <3>1, FS_CardinalityType
    <2>3. \A f \in Flows, g \in Gens : depth'[f][g] \in Nat
        BY <1>3, <2>2
    <2> QED BY <2>1, <2>3
<1> QED BY <1>3, <1>4 DEF DepthsCounted, DepthPerIncarnation

-----------------------------------------------------------------------------
(* The steps of the registry *)

\* The three steps of a request that look its flow up: the facade's and admit's, and
\* the loop's for the ticket.
LEMMA LookupsKeepRegistry ==
    ASSUME RegistryInv, NEW r \in Requests, Lookup(r) \/ Admit(r) \/ Grant(r)
    PROVE  RegistryInv'
<1> DEFINE f == FlowOf[r]
<1>1. f \in Flows /\ get_or_create(f)
    BY RegistryAssumption DEF Lookup, Admit, Grant
<1>2. /\ flows' \in [Flows -> 0..MaxGen] /\ newest' \in [Flows -> 0..MaxGen]
      /\ recent' \in [Flows -> [Gens -> BOOLEAN]]
      /\ Looked(f) \in Gens /\ Looked(f) <= newest'[f]
      /\ \A h \in Flows : newest[h] <= newest'[h] /\ flows'[h] <= newest'[h]
    BY <1>1, LookupStep
<1>3. /\ pc \in [Requests -> RequestStates]
      /\ arc \in [Requests -> Nat] /\ ticket_arc \in [Requests -> Nat]
      /\ newest \in [Flows -> 0..MaxGen] /\ MaxGen \in Nat
      /\ \A s \in Requests : FlowOf[s] \in Flows
      /\ Looked(f) \in Nat /\ Looked(f) # 0
    BY <1>2, RegistryAssumption DEF RegistryInv, RegistryTypes, Gens
<1>4. /\ UNCHANGED <<depth, active, slot_count, reaper, to_remove, unreleased, inserting>>
      /\ \/ pc' = [pc EXCEPT ![r] = "known"] /\ arc' = arc /\ ticket_arc' = ticket_arc
            /\ pc[r] = "pinned"
         \/ pc' = [pc EXCEPT ![r] = "held"] /\ pc[r] = "known"
            /\ arc' = [arc EXCEPT ![r] = Looked(f)] /\ ticket_arc' = ticket_arc
         \/ pc' = [pc EXCEPT ![r] = "granted"] /\ pc[r] = "queued"
            /\ arc' = arc /\ ticket_arc' = [ticket_arc EXCEPT ![r] = Looked(f)]
    BY DEF Lookup, Admit, Grant, Goto, reaperVars
<1>5. /\ pc' \in [Requests -> RequestStates]
      /\ arc' \in [Requests -> Nat] /\ ticket_arc' \in [Requests -> Nat]
    BY <1>3, <1>4 DEF RequestStates
<1>6. RegistryTypes'
    BY <1>2, <1>4, <1>5 DEF RegistryInv, RegistryTypes
<1>7. ArcsWereMade'
    <2>1. ASSUME NEW s \in Requests
          PROVE  /\ arc'[s] <= newest'[FlowOf[s]] /\ ticket_arc'[s] <= newest'[FlowOf[s]]
                 /\ pc'[s] \in {"held", "queued", "granted", "active"} => arc'[s] # 0
                 /\ pc'[s] \in {"granted", "active"} => ticket_arc'[s] # 0
        <3>1. /\ arc[s] <= newest[FlowOf[s]] /\ ticket_arc[s] <= newest[FlowOf[s]]
              /\ pc[s] \in {"held", "queued", "granted", "active"} => arc[s] # 0
              /\ pc[s] \in {"granted", "active"} => ticket_arc[s] # 0
            BY DEF RegistryInv, ArcsWereMade
        <3>2. /\ newest[FlowOf[s]] \in Nat /\ newest'[FlowOf[s]] \in Nat
              /\ newest[FlowOf[s]] <= newest'[FlowOf[s]]
            BY <1>2, <1>3
        <3>3. CASE s = r
            BY <1>2, <1>3, <1>4, <3>1, <3>2, <3>3
        <3>4. CASE s # r
            BY <1>3, <1>4, <3>1, <3>2, <3>4
        <3> QED BY <3>3, <3>4
    <2> QED BY <1>2, <2>1 DEF ArcsWereMade
<1>8. DepthsCounted'
    <2>1. \A s \in Requests \ {r} : arc'[s] = arc[s]
        BY <1>3, <1>4
    <2>2. CASE pc' = [pc EXCEPT ![r] = "known"] /\ pc[r] = "pinned"
        BY <1>4, <2>1, <2>2, DepthsKept
    <2>3. CASE pc' = [pc EXCEPT ![r] = "held"] /\ pc[r] = "known"
        BY <1>4, <2>1, <2>3, DepthsKept
    <2>4. CASE pc' = [pc EXCEPT ![r] = "granted"] /\ pc[r] = "queued" /\ arc' = arc
        BY <1>4, <2>1, <2>4, DepthsKept
    <2> QED BY <1>4, <2>2, <2>3, <2>4
<1> QED BY <1>6, <1>7, <1>8 DEF RegistryInv

\* The other steps of a request: pinning, giving up, and the life of its guard and
\* ticket.
LEMMA RequestKeepsRegistry ==
    ASSUME RegistryInv, NEW r \in Requests, Request(r)
    PROVE  RegistryInv'
<1>1. CASE Lookup(r) \/ Admit(r) \/ Grant(r)
    BY <1>1, LookupsKeepRegistry
<1>2. CASE Pin(r) \/ Abandon(r) \/ Reject(r) \/ Enqueue(r) \/ Receive(r) \/ Cancel(r)
           \/ DropTicket(r)
    <2>1. /\ UNCHANGED <<flows, newest, recent, slot_count, arc, ticket_arc, reaper,
                          to_remove, unreleased, inserting>>
          /\ \/ /\ pc[r] \in {"idle", "known", "pinned"} /\ active' = active
                /\ \E to \in {"pinned", "done"} : pc' = [pc EXCEPT ![r] = to]
                /\ depth' = depth
             \/ /\ pc[r] = "held" /\ pc' = [pc EXCEPT ![r] = "queued"]
                /\ depth' = [depth EXCEPT ![FlowOf[r]][arc[r]] = @ + 1]
                /\ active' = active
             \/ /\ pc[r] = "granted" /\ pc' = [pc EXCEPT ![r] = "active"]
                /\ depth' = [depth EXCEPT ![FlowOf[r]][arc[r]] = @ - 1]
                /\ active' = [active EXCEPT ![FlowOf[r]][arc[r]] = @ + 1]
             \/ /\ pc[r] = "queued" /\ pc' = [pc EXCEPT ![r] = "done"]
                /\ depth' = [depth EXCEPT ![FlowOf[r]][arc[r]] = @ - 1]
                /\ active' = active
             \/ /\ pc[r] = "granted" /\ pc' = [pc EXCEPT ![r] = "done"]
                /\ depth' = [depth EXCEPT ![FlowOf[r]][arc[r]] = @ - 1]
                /\ active' = [active EXCEPT ![FlowOf[r]][ticket_arc[r]] = @ - 1]
             \/ /\ pc[r] = "active" /\ pc' = [pc EXCEPT ![r] = "done"]
                /\ depth' = depth
                /\ active' = [active EXCEPT ![FlowOf[r]][ticket_arc[r]] = @ - 1]
        BY <1>2 DEF Pin, Abandon, Reject, Enqueue, Receive, Cancel, DropTicket, Goto,
                    regVars, reaperVars
    <2>2. pc' \in [Requests -> RequestStates]
        BY <2>1 DEF RegistryInv, RegistryTypes, RequestStates
    <2>3. active' \in [Flows -> [Gens -> Int]]
        <3>1. active \in [Flows -> [Gens -> Int]]
            BY DEF RegistryInv, RegistryTypes
        <3> QED BY <2>1, <3>1
    <2>4. RegistryTypes'
        BY <2>1, <2>2, <2>3 DEF RegistryInv, RegistryTypes
    <2>5. ArcsWereMade'
        <3>1. \A s \in Requests : 
                 /\ pc'[s] \in {"held", "queued", "granted", "active"}
                      => pc[s] \in {"held", "queued", "granted", "active"}
                 /\ pc'[s] \in {"granted", "active"} => pc[s] \in {"granted", "active"}
            BY <2>1 DEF RegistryInv, RegistryTypes
        <3> QED BY <2>1, <3>1 DEF RegistryInv, ArcsWereMade
    <2>6. DepthsCounted'
        <3>0. \A s \in Requests \ {r} : arc'[s] = arc[s]
            BY <2>1
        <3>1. CASE /\ pc[r] \in {"idle", "known", "pinned", "active"}
                   /\ \E to \in {"pinned", "done"} : pc' = [pc EXCEPT ![r] = to]
                   /\ depth' = depth
            <4>1. PICK to \in {"pinned", "done"} : pc' = [pc EXCEPT ![r] = to]
                BY <3>1
            <4>2. pc[r] \notin {"queued", "granted"} /\ to \notin {"queued", "granted"}
                BY <3>1
            <4> QED BY <3>0, <3>1, <4>1, <4>2, DepthsKept
        <3>2. CASE pc[r] = "held" /\ pc' = [pc EXCEPT ![r] = "queued"]
                   /\ depth' = [depth EXCEPT ![FlowOf[r]][arc[r]] = @ + 1]
            BY <2>1, <3>2, GuardOpens, HeldIsMade
        <3>3. CASE /\ pc[r] \in {"queued", "granted"}
                   /\ \E to \in {"active", "done"} : pc' = [pc EXCEPT ![r] = to]
                   /\ depth' = [depth EXCEPT ![FlowOf[r]][arc[r]] = @ - 1]
            BY <2>1, <3>3, GuardCloses
        <3> QED BY <2>1, <3>1, <3>2, <3>3
    <2> QED BY <2>4, <2>5, <2>6 DEF RegistryInv
<1> QED BY <1>1, <1>2 DEF Request

\* The steps that touch no guard: the admin endpoint, the reaper, the passing of the
\* TTL, a scrape.
LEMMA OthersKeepRegistry ==
    ASSUME RegistryInv,
           \/ \E f \in AdminFlows : Register(f) \/ RegisterInsert(f)
           \/ \E f \in Flows : Expire(f)
           \/ Reaper \/ Scrape
    PROVE  RegistryInv'
<1> USE RegistryAssumption
<1>1. UNCHANGED <<depth, active, pc, arc, ticket_arc>>
    BY DEF Register, RegisterInsert, Expire, Reaper, Collect, Sweep, Evict, ReleaseSlot,
           Scrape
<1>2. DepthsCounted'
    BY <1>1 DEF RegistryInv, DepthsCounted, DepthPerIncarnation, Guards
<1>3. /\ flows \in [Flows -> 0..MaxGen] /\ newest \in [Flows -> 0..MaxGen]
      /\ recent \in [Flows -> [Gens -> BOOLEAN]] /\ AdminFlows \subseteq Flows
      /\ slot_count \in 0..MaxSlots /\ reaper \in {"sleeping", "evicting"}
      /\ to_remove \in SUBSET Flows /\ unreleased \in SUBSET Flows
      /\ inserting \in SUBSET Flows
    BY DEF RegistryInv, RegistryTypes
<1>4. /\ flows' \in [Flows -> 0..MaxGen] /\ newest' \in [Flows -> 0..MaxGen]
      /\ \A h \in Flows : newest[h] <= newest'[h] /\ flows'[h] <= newest'[h]
    <2>1. \A h \in Flows : flows[h] <= newest[h]
        BY DEF RegistryInv, ArcsWereMade
    <2>2. CASE flows' = flows /\ newest' = newest
        BY <1>3, <2>1, <2>2
    <2>3. ASSUME NEW f \in AdminFlows, RegisterInsert(f)
          PROVE  <1>4
        BY <1>3, <2>1, <2>3 DEF RegisterInsert
    <2>4. ASSUME NEW f \in Flows, Evict(f)
          PROVE  <1>4
        BY <1>3, <2>1, <2>4 DEF Evict
    <2> QED BY <2>2, <2>3, <2>4 DEF Register, Expire, Reaper, Collect, Sweep,
               ReleaseSlot, Scrape, regVars
<1>5. recent' \in [Flows -> [Gens -> BOOLEAN]]
    <2>1. CASE recent' = recent
        BY <1>3, <2>1
    <2>2. ASSUME NEW f \in AdminFlows, Register(f), recent' # recent
          PROVE  <1>5
        <3>1. flows[f] # 0 /\ recent' = [recent EXCEPT ![f][flows[f]] = TRUE]
            BY <2>2 DEF Register
        <3> QED BY <1>3, <3>1
    <2>3. ASSUME NEW f \in AdminFlows, RegisterInsert(f)
          PROVE  <1>5
        BY <1>3, <2>3 DEF RegisterInsert
    <2>4. ASSUME NEW f \in Flows, Expire(f)
          PROVE  <1>5
        BY <1>3, <2>4 DEF Expire
    <2> QED BY <2>1, <2>2, <2>3, <2>4 DEF Reaper, Collect, Sweep, Evict, ReleaseSlot,
               Scrape, regVars
<1>6. /\ slot_count' \in 0..MaxSlots /\ reaper' \in {"sleeping", "evicting"}
      /\ to_remove' \in SUBSET Flows /\ unreleased' \in SUBSET Flows
      /\ inserting' \in SUBSET Flows
    BY <1>3 DEF Register, RegisterInsert, Expire, Reaper, Collect, Sweep, Evict,
                ReleaseSlot, Scrape, reaperVars
<1>7. RegistryTypes'
    BY <1>1, <1>4, <1>5, <1>6 DEF RegistryInv, RegistryTypes
<1>8. ArcsWereMade'
    <2>1. ASSUME NEW r \in Requests
          PROVE  arc[r] <= newest'[FlowOf[r]] /\ ticket_arc[r] <= newest'[FlowOf[r]]
        <3>1. /\ FlowOf[r] \in Flows /\ arc[r] \in Nat /\ ticket_arc[r] \in Nat
              /\ arc[r] <= newest[FlowOf[r]] /\ ticket_arc[r] <= newest[FlowOf[r]]
            BY DEF RegistryInv, RegistryTypes, ArcsWereMade
        <3> QED BY <1>3, <1>4, <3>1
    <2> QED BY <1>1, <1>4, <2>1 DEF RegistryInv, ArcsWereMade
<1> QED BY <1>2, <1>7, <1>8 DEF RegistryInv

\* The depth of every incarnation counts its guards, and every Arc was made.
THEOREM RegistryInvariance == Spec => []RegistryInv
<1>1. Init => RegistryInv
    <2> SUFFICES ASSUME Init PROVE RegistryInv
        OBVIOUS
    <2>1. RegistryTypes /\ ArcsWereMade
        BY RegistryAssumption, SlotAssumption
           DEF Init, RegistryTypes, ArcsWereMade, RequestStates
    <2>2. \A f \in Flows, g \in Gens : Guards(f, g) = {}
        BY DEF Init, Guards
    <2>3. DepthsCounted
        BY <2>2, FS_EmptySet DEF Init, DepthsCounted, DepthPerIncarnation
    <2> QED BY <2>1, <2>3 DEF RegistryInv
<1>2. RegistryInv /\ [Next]_vars => RegistryInv'
    <2> SUFFICES ASSUME RegistryInv, [Next]_vars PROVE RegistryInv'
        OBVIOUS
    <2>1. CASE UNCHANGED vars
        BY <2>1 DEF vars, regVars, reaperVars, RegistryInv, RegistryTypes, ArcsWereMade,
                    DepthsCounted, DepthPerIncarnation, Guards
    <2> QED BY <2>1, RequestKeepsRegistry, OthersKeepRegistry DEF Next
<1> QED BY <1>1, <1>2, PTL DEF Spec

-----------------------------------------------------------------------------
(* The registry implements the slot allocator *)

\* Whatever requests, the reaper and the admin endpoint interleave, the allocator
\* only ever sees the calls SlotAllocator allows.
THEOREM RegistryUsesAllocator == Spec => SlotSpec
<1>1. Init => InitSlots
    BY DEF Init
<1>2. RegistryInv /\ [Next]_vars => [NextSlots]_slotVars
    <2> SUFFICES ASSUME RegistryInv, [Next]_vars PROVE [NextSlots]_slotVars
        OBVIOUS
    <2>1. ASSUME NEW r \in Requests, Pin(r)
          PROVE  [NextSlots]_slotVars
        <3>1. CASE slot_count = 0
            BY <2>1, <3>1 DEF Pin
        <3>2. CASE slot_count # 0
            <4>1. slot_count \in SlotCounts /\ FlowOf[r] \in Flows
                BY <3>2, RegistryAssumption, SlotAssumption
                   DEF RegistryInv, RegistryTypes, SlotCounts
            <4>2. assign(FlowOf[r], slot_count)
                BY <2>1, <3>2 DEF Pin
            <4> QED BY <4>1, <4>2 DEF NextSlots
        <3> QED BY <3>1, <3>2
    <2>2. ASSUME NEW f \in Flows, ReleaseSlot(f)
          PROVE  [NextSlots]_slotVars
        BY <2>2 DEF ReleaseSlot, NextSlots
    <2>3. CASE Sweep
        <3>1. {f \in Flows : flows[f] # 0} \in SUBSET Flows
            OBVIOUS
        <3> QED BY <2>3, <3>1 DEF Sweep, NextSlots
    <2>4. CASE UNCHANGED slotVars
        BY <2>4
    <2> QED BY <2>1, <2>2, <2>3, <2>4
            DEF Next, Request, Abandon, Lookup, Reject, Admit, Enqueue, Grant, Receive,
                Cancel, DropTicket, Register, RegisterInsert, Expire, Reaper, Collect,
                Evict, Scrape, vars
<1> QED BY <1>1, <1>2, RegistryInvariance, PTL DEF Spec, SlotSpec

\* A request leaves the depth of the object it entered, whatever the reaper and POST
\* /flows have put in its place since.
THEOREM RegistryDepthsAreExact == Spec => []DepthPerIncarnation
<1>1. RegistryInv => DepthPerIncarnation
    BY DEF RegistryInv, DepthsCounted
<1> QED BY <1>1, RegistryInvariance, PTL

\* Types of the registry with its allocator; no depth goes below zero.
THEOREM RegistryTypesHold == Spec => []TypeOK
<1>1. RegistryInv /\ SlotInv => TypeOK
    <2> SUFFICES ASSUME RegistryInv, SlotInv PROVE TypeOK
        OBVIOUS
    <2>1. ASSUME NEW r \in Requests
          PROVE  {arc[r], ticket_arc[r]} \subseteq 0..newest[FlowOf[r]]
        <3>1. /\ FlowOf[r] \in Flows /\ arc[r] \in Nat /\ ticket_arc[r] \in Nat
              /\ newest[FlowOf[r]] \in Nat
              /\ arc[r] <= newest[FlowOf[r]] /\ ticket_arc[r] <= newest[FlowOf[r]]
            BY RegistryAssumption DEF RegistryInv, RegistryTypes, ArcsWereMade
        <3> QED BY <3>1
    <2> QED BY <2>1 DEF TypeOK, RegistryInv, RegistryTypes, DepthsCounted, SlotInv
<1> QED BY <1>1, RegistryInvariance, RegistryUsesAllocator, SlotInvariance, PTL

\* The allocator's two maps agree in the registry: no interleaving of pins, evictions,
\* releases and sweeps loses or doubles a count.
THEOREM RegistryCountsSlots == Spec => []OccupancyExact
BY RegistryUsesAllocator, OccupancyIsExact, PTL

\* Nor does any make two flows share a slot while one is free.
THEOREM RegistrySharesWhenFull == Spec => NoNeedlessSharing
BY RegistryUsesAllocator, SharingOnlyWhenFull, PTL
=============================================================================
