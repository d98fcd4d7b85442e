-------------------------- MODULE MCPlanningWorker --------------------------
(* A small instance of PlanningWorker for TLC; liveness is checked, so no    *)
(* symmetry is declared.                                                     *)
EXTENDS PlanningWorker
=============================================================================
