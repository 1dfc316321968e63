------------------------- MODULE SlotAllocatorProofs -------------------------
(***************************************************************************)
(* Proofs about SlotAllocator: the occupancy counts are exact and no flow  *)
(* is made to share a slot while one is free, for any number of flows and  *)
(* slots and whatever the hash.                                            *)
(***************************************************************************)
EXTENDS SlotAllocator, FiniteSetTheorems, WellFoundedInduction, TLAPS

\* The allocator's inductive invariant.
SlotInv == SlotTypeOK /\ OccupancyExact

\* Sets of flows are finite, so their cardinalities are naturals.
LEMMA FlowSetsFinite ==
    ASSUME NEW S \in SUBSET Flows
    PROVE  IsFiniteSet(S) /\ Cardinality(S) \in Nat
BY SlotAssumption, FS_Subset, FS_CardinalityType

\* A count is positive exactly when somebody holds the slot.
LEMMA CountedHasTenant ==
    ASSUME NEW S \in SUBSET Flows
    PROVE  (Cardinality(S) = 0) <=> (S = {})
BY FlowSetsFinite, FS_EmptySet

\* Taking a flow off its slot: the freed counts are those of the other flows.
LEMMA FreedIsExact ==
    ASSUME SlotInv, NEW f \in Flows, assignments[f] # NoSlot
    PROVE  /\ Freed(occupied, assignments[f]) \in [Slots -> Nat]
           /\ \A s \in Slots : Freed(occupied, assignments[f])[s]
                                 = Cardinality(Tenants(s) \ {f})
<1> DEFINE old == assignments[f]
<1>1. old \in Slots /\ occupied \in [Slots -> Nat]
    BY DEF SlotInv, SlotTypeOK
<1>2. f \in Tenants(old)
    BY DEF Tenants
<1>3. ASSUME NEW s \in Slots
      PROVE  /\ IsFiniteSet(Tenants(s)) /\ occupied[s] = Cardinality(Tenants(s))
             /\ Cardinality(Tenants(s)) \in Nat
    BY FlowSetsFinite DEF SlotInv, OccupancyExact, Tenants
<1>4. Cardinality(Tenants(old) \ {f}) = Cardinality(Tenants(old)) - 1
    BY <1>1, <1>2, <1>3, FS_RemoveElement
<1>5. occupied[old] > 0
    <2>1. Tenants(old) # {}
        BY <1>2
    <2>2. Cardinality(Tenants(old)) # 0
        BY <2>1, CountedHasTenant DEF Tenants
    <2> QED BY <1>1, <1>3, <2>2
<1>6. ASSUME NEW s \in Slots, s # old
      PROVE  Tenants(s) \ {f} = Tenants(s)
    BY <1>6 DEF Tenants
<1>7. Freed(occupied, old) = [occupied EXCEPT ![old] = occupied[old] - 1]
    BY <1>5 DEF Freed
<1> HIDE DEF old
<1>8. Freed(occupied, old) \in [Slots -> Nat]
    BY <1>1, <1>5, <1>7
<1>9. ASSUME NEW s \in Slots
      PROVE  Freed(occupied, old)[s] = Cardinality(Tenants(s) \ {f})
    <2>1. CASE s = old
        BY <1>1, <1>3, <1>4, <1>7, <2>1
    <2>2. CASE s # old
        BY <1>1, <1>3, <1>6, <1>7, <2>2
    <2> QED BY <2>1, <2>2
<1> QED BY <1>8, <1>9 DEF old

\* The counts `assign` chooses from: those of everybody but the flow being placed.
LEMMA OthersCounted ==
    ASSUME SlotInv, NEW f \in Flows
    PROVE  LET occ == IF assignments[f] # NoSlot
                      THEN Freed(occupied, assignments[f]) ELSE occupied
           IN  /\ occ \in [Slots -> Nat]
               /\ \A s \in Slots : occ[s] = Cardinality(Tenants(s) \ {f})
<1>1. CASE assignments[f] # NoSlot
    BY <1>1, FreedIsExact
<1>2. CASE assignments[f] = NoSlot
    <2>1. \A s \in Slots : Tenants(s) \ {f} = Tenants(s)
        BY <1>2, SlotAssumption DEF Tenants
    <2> QED BY <1>2, <2>1 DEF SlotInv, SlotTypeOK, OccupancyExact
<1> QED BY <1>1, <1>2

\* The slot picked is below the live count, and is free unless none is.
LEMMA PickedSlot ==
    ASSUME NEW f \in Flows, NEW n \in SlotCounts, NEW occ \in [Slots -> Nat]
    PROVE  /\ PickSlot(f, n, occ) \in 0..(n - 1)
           /\ PickSlot(f, n, occ) \in Slots
           /\ occ[PickSlot(f, n, occ)] = 0 \/ FreeSlots(occ, n) = {}
<1> DEFINE free == FreeSlots(occ, n)
<1>1. free \subseteq 0..(n - 1) /\ Home[f][n] \in 0..(n - 1)
    BY SlotAssumption DEF FreeSlots
<1>2. 0..(n - 1) \subseteq Slots
    BY SlotAssumption DEF SlotCounts, Slots
<1>3. CASE Home[f][n] \in free \/ free = {}
    BY <1>1, <1>2, <1>3 DEF PickSlot, FreeSlots
<1>4. CASE Home[f][n] \notin free /\ free # {}
    <2>1. \E s \in free : \A t \in free : s <= t
        <3>1. free \subseteq Nat
            BY <1>1
        <3>2. PICK s \in free : \A t \in free : ~(<<t, s>> \in OpToRel(<, Nat))
            BY <1>4, <3>1, WFMin, NatLessThanWellFounded
        <3>3. \A t \in free : ~(t < s)
            BY <3>1, <3>2 DEF OpToRel
        <3> QED BY <3>1, <3>3
    <2>2. PickSlot(f, n, occ) \in free
        BY <1>4, <2>1 DEF PickSlot
    <2> QED BY <1>1, <1>2, <2>2 DEF FreeSlots
<1> QED BY <1>3, <1>4

\* Placing a flow keeps the two maps in step.
LEMMA PlaceStep ==
    ASSUME SlotInv, NEW f \in Flows, NEW n \in SlotCounts, Place(f, n)
    PROVE  SlotInv'
<1> DEFINE occ == IF assignments[f] # NoSlot
                  THEN Freed(occupied, assignments[f]) ELSE occupied
           slot == PickSlot(f, n, occ)
<1>1. /\ assignments' = [assignments EXCEPT ![f] = slot]
      /\ occupied' = [occ EXCEPT ![slot] = @ + 1]
    BY DEF Place
<1>2. /\ occ \in [Slots -> Nat]
      /\ \A s \in Slots : occ[s] = Cardinality(Tenants(s) \ {f})
    BY OthersCounted
<1> HIDE DEF occ
<1>3. slot \in Slots
    BY <1>2, PickedSlot
<1> HIDE DEF slot
<1>4. SlotTypeOK'
    BY <1>1, <1>2, <1>3 DEF SlotInv, SlotTypeOK
<1>5. assignments \in [Flows -> Slots \union {NoSlot}]
    BY DEF SlotInv, SlotTypeOK
<1>6. ASSUME NEW s \in Slots
      PROVE  occupied'[s] = Cardinality(Tenants(s)')
    <2>1. IsFiniteSet(Tenants(s) \ {f}) /\ Cardinality(Tenants(s) \ {f}) \in Nat
        BY FlowSetsFinite DEF Tenants
    <2>2. CASE s = slot
        <3>1. Tenants(s)' = (Tenants(s) \ {f}) \union {f}
            BY <1>1, <1>5, <2>2 DEF Tenants
        <3>2. Cardinality(Tenants(s)') = Cardinality(Tenants(s) \ {f}) + 1
            BY <2>1, <3>1, FS_AddElement
        <3> QED BY <1>1, <1>2, <2>2, <3>2
    <2>3. CASE s # slot
        <3>1. Tenants(s)' = Tenants(s) \ {f}
            BY <1>1, <1>5, <2>3 DEF Tenants
        <3> QED BY <1>1, <1>2, <2>3, <3>1
    <2> QED BY <2>2, <2>3
<1> QED BY <1>4, <1>6 DEF SlotInv, OccupancyExact

\* Releasing a flow, assigned or not, keeps the two maps in step.
LEMMA ReleaseStep ==
    ASSUME SlotInv, NEW f \in Flows, release(f)
    PROVE  SlotInv'
<1> DEFINE occ == IF assignments[f] # NoSlot
                  THEN Freed(occupied, assignments[f]) ELSE occupied
<1>1. assignments' = [assignments EXCEPT ![f] = NoSlot] /\ occupied' = occ
    BY DEF release
<1>2. /\ occ \in [Slots -> Nat]
      /\ \A s \in Slots : occ[s] = Cardinality(Tenants(s) \ {f})
    BY OthersCounted
<1> HIDE DEF occ
<1>3. assignments \in [Flows -> Slots \union {NoSlot}]
    BY DEF SlotInv, SlotTypeOK
<1>4. \A s \in Slots : Tenants(s)' = Tenants(s) \ {f}
    BY <1>1, <1>3, SlotAssumption DEF Tenants
<1> QED BY <1>1, <1>2, <1>3, <1>4 DEF SlotInv, SlotTypeOK, OccupancyExact

\* So does the sweep, which may take several flows off one slot.
LEMMA SweepStep ==
    ASSUME SlotInv, NEW existing \in SUBSET Flows, sweep_missing(existing)
    PROVE  SlotInv'
<1> DEFINE gone(s) == {f \in Flows \ existing : assignments[f] = s}
<1>1. /\ assignments' = [f \in Flows |-> IF f \in existing THEN assignments[f] ELSE NoSlot]
      /\ occupied' = [s \in Slots |-> IF occupied[s] > Cardinality(gone(s))
                                      THEN occupied[s] - Cardinality(gone(s)) ELSE 0]
    BY DEF sweep_missing
<1>2. assignments \in [Flows -> Slots \union {NoSlot}]
    BY DEF SlotInv, SlotTypeOK
<1>3. ASSUME NEW s \in Slots
      PROVE  occupied'[s] = Cardinality(Tenants(s)') /\ occupied'[s] \in Nat
    <2>1. /\ IsFiniteSet(Tenants(s)) /\ Cardinality(Tenants(s)) \in Nat
          /\ IsFiniteSet(gone(s)) /\ Cardinality(gone(s)) \in Nat
        BY FlowSetsFinite DEF Tenants
    <2>2. occupied[s] = Cardinality(Tenants(s))
        BY DEF SlotInv, OccupancyExact
    <2>3. gone(s) \subseteq Tenants(s) /\ Tenants(s) \cap gone(s) = gone(s)
        BY DEF Tenants
    <2>4. Tenants(s)' = Tenants(s) \ gone(s)
        BY <1>1, <1>2, SlotAssumption DEF Tenants
    <2> HIDE DEF gone
    <2>5. /\ Cardinality(Tenants(s)') = Cardinality(Tenants(s)) - Cardinality(gone(s))
          /\ Cardinality(gone(s)) <= Cardinality(Tenants(s))
        BY <2>1, <2>3, <2>4, FS_Difference, FS_Subset
    <2> QED BY <1>1, <2>1, <2>2, <2>5
<1>4. SlotTypeOK'
    <2>1. assignments' \in [Flows -> Slots \union {NoSlot}]
        BY <1>1, <1>2
    <2>2. occupied' \in [Slots -> Nat]
        BY <1>1, <1>3
    <2> QED BY <2>1, <2>2 DEF SlotTypeOK
<1> QED BY <1>3, <1>4 DEF SlotInv, OccupancyExact

\* The invariant holds in every state of the allocator.
THEOREM SlotInvariance == SlotSpec => []SlotInv
<1>1. InitSlots => SlotInv
    <2> SUFFICES ASSUME InitSlots PROVE SlotInv
        OBVIOUS
    <2>1. \A s \in Slots : Tenants(s) = {}
        BY SlotAssumption DEF InitSlots, Tenants
    <2> QED BY <2>1, FS_EmptySet DEF InitSlots, SlotInv, SlotTypeOK, OccupancyExact
<1>2. SlotInv /\ [NextSlots]_slotVars => SlotInv'
    <2> SUFFICES ASSUME SlotInv, [NextSlots]_slotVars PROVE SlotInv'
        OBVIOUS
    <2>1. CASE UNCHANGED slotVars
        BY <2>1 DEF SlotInv, SlotTypeOK, OccupancyExact, Tenants, slotVars
    <2>2. ASSUME NEW f \in Flows, NEW n \in SlotCounts, assign(f, n)
          PROVE  SlotInv'
        BY <2>1, <2>2, PlaceStep DEF assign, Keep
    <2> QED BY <2>1, <2>2, ReleaseStep, SweepStep DEF NextSlots
<1> QED BY <1>1, <1>2, PTL DEF SlotSpec

\* A slot's count is the number of flows assigned to it.
THEOREM OccupancyIsExact == SlotSpec => []OccupancyExact
<1>1. SlotInv => OccupancyExact
    BY DEF SlotInv
<1> QED BY <1>1, SlotInvariance, PTL

\* No flow is made to share a slot while one below the live count is free.
THEOREM SharingOnlyWhenFull == SlotSpec => NoNeedlessSharing
<1> DEFINE Apart(f, n) ==
              \/ \A g \in Flows \ {f} : assignments'[g] # assignments'[f]
              \/ \A s \in 0..(n - 1) : \E g \in Flows \ {f} : assignments'[g] = s
<1>1. ASSUME SlotInv, NEW f \in Flows, NEW n \in SlotCounts, assign(f, n),
             assignments'[f] # assignments[f]
      PROVE  Apart(f, n)
    <2> DEFINE occ == IF assignments[f] # NoSlot
                      THEN Freed(occupied, assignments[f]) ELSE occupied
               slot == PickSlot(f, n, occ)
    <2>1. Place(f, n)
        BY <1>1 DEF assign, Keep, slotVars
    <2>2. assignments' = [assignments EXCEPT ![f] = slot]
        BY <2>1 DEF Place
    <2>3. /\ occ \in [Slots -> Nat]
          /\ \A s \in Slots : occ[s] = Cardinality(Tenants(s) \ {f})
        BY <1>1, OthersCounted
    <2> HIDE DEF occ
    <2>4. \A s \in Slots : (occ[s] = 0) <=> (Tenants(s) \ {f} = {})
        BY <2>3, CountedHasTenant DEF Tenants
    <2>5. slot \in Slots /\ (occ[slot] = 0 \/ FreeSlots(occ, n) = {})
        BY <2>3, PickedSlot
    <2> HIDE DEF slot
    <2>6. assignments \in [Flows -> Slots \union {NoSlot}]
        BY <1>1 DEF SlotInv, SlotTypeOK
    <2>7. /\ assignments'[f] = slot
          /\ \A g \in Flows \ {f} : assignments'[g] = assignments[g]
        BY <2>2, <2>6
    <2>8. CASE occ[slot] = 0
        BY <2>4, <2>5, <2>7, <2>8 DEF Tenants
    <2>9. CASE FreeSlots(occ, n) = {}
        <3> SUFFICES ASSUME NEW s \in 0..(n - 1)
                     PROVE  \E g \in Flows \ {f} : assignments'[g] = s
            OBVIOUS
        <3>1. s \in Slots
            BY SlotAssumption DEF SlotCounts, Slots
        <3>2. occ[s] # 0
            BY <2>9 DEF FreeSlots
        <3>3. PICK g \in Flows : g \in Tenants(s) \ {f}
            BY <2>4, <3>1, <3>2 DEF Tenants
        <3> QED BY <2>7, <3>3 DEF Tenants
    <2> QED BY <2>5, <2>8, <2>9
<1>2. SlotInv /\ [NextSlots]_slotVars
        => [\A f \in Flows, n \in SlotCounts :
              assign(f, n) /\ assignments'[f] # assignments[f] => Apart(f, n)]_slotVars
    BY <1>1
<1> QED BY <1>2, SlotInvariance, PTL DEF SlotSpec, NoNeedlessSharing
=============================================================================
