---------------------------- MODULE SlotAllocator ----------------------------
(***************************************************************************)
(* The flow-to-slot allocator behind `id_slot` pinning                     *)
(* (src/src/flow/slots.rs).  Every operation is one mutex section.         *)
(***************************************************************************)
EXTENDS Integers, FiniteSets

CONSTANTS
    Flows,      \* named flows
    MaxSlots,   \* the largest slot count the backend ever reports
    Home,       \* [Flows -> [1..MaxSlots -> Nat]], slot_id_for_flow
    NoSlot      \* "no assignment"

SlotCounts == 1..MaxSlots
Slots == 0..(MaxSlots - 1)

\* slot_id_for_flow is a hash modulo the slot count.
ASSUME SlotAssumption ==
    /\ IsFiniteSet(Flows)
    /\ MaxSlots \in Nat \ {0}
    /\ NoSlot \notin Slots
    /\ \A f \in Flows, n \in SlotCounts : Home[f][n] \in 0..(n - 1)

VARIABLES
    assignments,    \* [Flows -> Slots \union {NoSlot}]
    occupied        \* [Slots -> Nat]; 0 stands for "no entry"

slotVars == <<assignments, occupied>>

-----------------------------------------------------------------------------
\* Mutant of Freed: a slot that two flows shared is freed by the first to leave.
FreedAtOnce(occ, slot) == [occ EXCEPT ![slot] = 0]

\* Inner::free
Freed(occ, slot) == [occ EXCEPT ![slot] = IF @ > 0 THEN @ - 1 ELSE 0]

\* The slots below the live count that nobody is assigned to.
FreeSlots(occ, n) == {s \in 0..(n - 1) : occ[s] = 0}

\* Mutant of PickSlot: the hash home, as before allocation became stateful.
PickHome(f, n, occ) == Home[f][n]

\* Home slot if free, else the lowest free slot, else the home slot shared.
PickSlot(f, n, occ) ==
    LET free == FreeSlots(occ, n) IN
    IF Home[f][n] \in free \/ free = {}
    THEN Home[f][n]
    ELSE CHOOSE s \in free : \A t \in free : s <= t

\* A live assignment in range is returned as it is.
Keep(f, n) ==
    /\ assignments[f] # NoSlot /\ assignments[f] < n
    /\ UNCHANGED slotVars

\* A new flow, or one whose slot fell out of range when the count shrank.
Place(f, n) ==
    LET stale == assignments[f] # NoSlot
        occ == IF stale THEN Freed(occupied, assignments[f]) ELSE occupied
        slot == PickSlot(f, n, occ)
    IN
    /\ stale => assignments[f] >= n
    /\ assignments' = [assignments EXCEPT ![f] = slot]
    /\ occupied' = [occ EXCEPT ![slot] = @ + 1]

assign(f, n) == Keep(f, n) \/ Place(f, n)

release(f) ==
    /\ assignments' = [assignments EXCEPT ![f] = NoSlot]
    /\ occupied' = IF assignments[f] = NoSlot THEN occupied
                                              ELSE Freed(occupied, assignments[f])

\* Drop every assignment of a flow outside the given set.
sweep_missing(existing) ==
    LET orphans(s) == Cardinality({f \in Flows \ existing : assignments[f] = s}) IN
    /\ assignments' = [f \in Flows |-> IF f \in existing THEN assignments[f] ELSE NoSlot]
    /\ occupied' = [s \in Slots |-> IF occupied[s] > orphans(s)
                                    THEN occupied[s] - orphans(s) ELSE 0]

InitSlots ==
    /\ assignments = [f \in Flows |-> NoSlot]
    /\ occupied = [s \in Slots |-> 0]

NextSlots ==
    \/ \E f \in Flows, n \in SlotCounts : assign(f, n)
    \/ \E f \in Flows : release(f)
    \/ \E existing \in SUBSET Flows : sweep_missing(existing)

SlotSpec == InitSlots /\ [][NextSlots]_slotVars

-----------------------------------------------------------------------------
(* Properties *)

\* Types of the two maps of SlotAllocator.
SlotTypeOK ==
    /\ assignments \in [Flows -> Slots \union {NoSlot}]
    /\ occupied \in [Slots -> Nat]

Tenants(s) == {f \in Flows : assignments[f] = s}

\* The two maps of the allocator agree: a slot's count is the number of flows
\* assigned to it, through shrinking slot counts, sharing, releases and sweeps.
OccupancyExact == \A s \in Slots : occupied[s] = Cardinality(Tenants(s))

\* "Two live flows never share a slot while capacity allows": an assignment puts a
\* flow on a slot that another flow holds only when every slot below the live count
\* is held by another flow.
NoNeedlessSharing ==
    [][\A f \in Flows, n \in SlotCounts :
          assign(f, n) /\ assignments'[f] # assignments[f] =>
             \/ \A g \in Flows \ {f} : assignments'[g] # assignments'[f]
             \/ \A s \in 0..(n - 1) : \E g \in Flows \ {f} : assignments'[g] = s
      ]_slotVars
=============================================================================
