----------------------------- MODULE DrrFairness -----------------------------
(***************************************************************************)
(* Who is passed over by whom.  DrrScheduler with a history variable that  *)
(* records, for each flow, the flows selected on credit while it was       *)
(* eligible itself; the scheduler's steps are not restricted.              *)
(***************************************************************************)
EXTENDS DrrScheduler

VARIABLE passed     \* [Flows -> SUBSET Flows], history: read by no action

\* A selection hands its Pending to the loop; try_select that finds nobody
\* eligible leaves the loop's hands empty.
Selects == loop = "select" /\ loop' = "granting"
FindsNobody == Selecting /\ StarvedFlows = {} /\ loop' # "granting"

Selected == FlowOf[in_hand']

\* A flow's record is kept while it waits: it begins anew when the flow is
\* served, leaves the cursor or is found not to be eligible.
RecordPasses ==
    passed' = [f \in Flows |->
        IF \/ f \notin Range(rr_cursor')
           \/ FindsNobody
           \/ Selects /\ Selected = f
           \/ Selects /\ StarvedFlows = {} /\ f \notin Eligible
        THEN {}
        ELSE passed[f] \union (IF Selects /\ StarvedFlows = {} THEN {Selected} ELSE {})]

BypassInit == Init /\ passed = [f \in Flows |-> {}]
BypassNext == Next /\ RecordPasses
BypassSpec == BypassInit /\ [][BypassNext]_<<vars, passed>>

-----------------------------------------------------------------------------
(* Properties *)

\* "Deficit round-robin provides proportional fairness" (lat.md/scheduler.md): while
\* a flow is eligible and waits, another flow of the same or a lower priority is
\* selected before it at most once, although arrivals re-enter the cursor, starved
\* flows jump it, cancellations rearrange it and a flow served by force keeps its
\* deficit.  The KV bias may prefer the larger footprint and is excepted.
NoSecondPass ==
    [][Selects /\ StarvedFlows = {} =>
          \A f \in Eligible \ {Selected} :
              Selected \in passed[f]
              => \/ Priority[Selected] > Priority[f]
                 \/ kv_pressure > BiasBelow /\ Footprint[Selected] > Footprint[f]
      ]_<<vars, passed>>
=============================================================================
