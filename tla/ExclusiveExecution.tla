------------------------- MODULE ExclusiveExecution -------------------------
(***************************************************************************)
(* What execute, claim-next and recover promise about each Planning Run,   *)
(* without tokens, leases or clocks: executions of a run happen one at a   *)
(* time and are numbered, only the one under way writes a result, each     *)
(* writes at most one, and a final result is never reopened.               *)
(* PlanningRunQueue implements this.                                       *)
(***************************************************************************)
EXTENDS Integers

CONSTANT Run

VARIABLES
  phase,    \* waiting | executing | failed | final
  epoch,    \* the number of the latest execution
  result    \* the number of the execution whose result the run carries

vars == <<phase, epoch, result>>

Init ==
  /\ phase = [r \in Run |-> "waiting"]
  /\ epoch = [r \in Run |-> 0]
  /\ result = [r \in Run |-> 0]

Move(r, p) == phase' = [phase EXCEPT ![r] = p]

Begin(r) ==
  /\ phase[r] = "waiting" /\ Move(r, "executing")
  /\ epoch' = [epoch EXCEPT ![r] = @ + 1]
  /\ UNCHANGED result

\* The execution under way writes its result: the run is done, has failed, or
\* waits for another attempt.
Settle(r) ==
  /\ phase[r] = "executing" /\ result[r] < epoch[r]
  /\ \E p \in {"waiting", "failed", "final"} : Move(r, p)
  /\ result' = [result EXCEPT ![r] = epoch[r]]
  /\ UNCHANGED epoch

\* The execution under way loses the run without a result.
Abandon(r) ==
  /\ phase[r] = "executing"
  /\ \E p \in {"waiting", "failed"} : Move(r, p)
  /\ UNCHANGED <<epoch, result>>

Reopen(r) ==
  /\ phase[r] = "failed" /\ Move(r, "waiting")
  /\ UNCHANGED <<epoch, result>>

Withdraw(r) ==
  /\ phase[r] = "waiting" /\ Move(r, "final")
  /\ UNCHANGED <<epoch, result>>

Next == \E r \in Run :
  Begin(r) \/ Settle(r) \/ Abandon(r) \/ Reopen(r) \/ Withdraw(r)

Spec == Init /\ [][Next]_vars
=============================================================================
