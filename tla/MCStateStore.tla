---------------------------- MODULE MCStateStore ----------------------------
(* Small instances of StateStore for TLC.                                  *)
EXTENDS StateStore, TLC

\* Processes and updates are only compared for equality.
Symmetry == Permutations(Server) \cup Permutations(Update)
=============================================================================
