---------------------------- MODULE RunLifecycle ----------------------------
(***************************************************************************)
(* The statuses of Planning Runs and the changes the code allows between   *)
(* them, without leases, claims or clocks.  PlanningRunQueue implements    *)
(* this, and PlanningReservations builds on it.                            *)
(***************************************************************************)
CONSTANT Run

VARIABLE status

Status == {"Absent", "Pending", "Queued", "Running", "Completed", "Failed",
           "DeadLetter", "Cancelled"}

Init == status = [r \in Run |-> "Absent"]

Become(r, s) == status' = [status EXCEPT ![r] = s]

Create(r, s) == status[r] = "Absent" /\ s \in {"Pending", "Queued"} /\ Become(r, s)
Enqueue(r) == status[r] = "Pending" /\ Become(r, "Queued")
Cancel(r) == status[r] = "Pending" /\ Become(r, "Cancelled")

\* A worker claims the run, or a planner executes it.
Begin(r) == status[r] \in {"Pending", "Queued"} /\ Become(r, "Running")

\* An execution ends; Queued is a retry.
Finish(r, s) ==
  /\ status[r] = "Running"
  /\ s \in {"Completed", "Failed", "DeadLetter", "Queued"}
  /\ Become(r, s)

Recover(r) == status[r] \in {"Failed", "DeadLetter"} /\ Become(r, "Queued")

Next == \E r \in Run :
  \/ \E s \in Status : Create(r, s) \/ Finish(r, s)
  \/ Enqueue(r) \/ Cancel(r) \/ Begin(r) \/ Recover(r)

Spec == Init /\ [][Next]_status
=============================================================================
