----------------------- MODULE MCPlanningReservations -----------------------
(* Small instances of PlanningReservations for TLC.                        *)
EXTENDS PlanningReservations, TLC

\* Runs, batches and lines are only compared for equality.
Symmetry ==
  Permutations(Run) \cup Permutations(Batch)
    \cup Permutations(Capacity) \cup Permutations(Material)
=============================================================================
