------------------------- MODULE MCPlanningRunQueue -------------------------
(* A small instance of PlanningRunQueue for TLC.  Liveness is checked, so no *)
(* symmetry is declared; tokens, which are only compared for equality, are   *)
(* numbers here, and a new one is the least that nobody has.                 *)
EXTENDS PlanningRunQueue

LeastIfNew(token, before, fresh) ==
  token \in {before, NoToken} \/ \A t \in fresh : token <= t

TokensInOrder ==
  \A r \in Run :
    /\ LeastIfNew(run'[r].lease, run[r].lease, FreshLeaseToken)
    /\ LeastIfNew(run'[r].exec, run[r].exec, FreshExecutionToken)

Exploration == Init /\ [][Next /\ TokensInOrder]_vars /\ Fairness
=============================================================================
