--------------------------- MODULE BatchLifecycle ---------------------------
(***************************************************************************)
(* What happens to a reservation batch, seen by whoever reads only its     *)
(* status and RecordVersion: it is confirmed, held any number of times,    *)
(* and perhaps converted into scheduled operations, which is the end.  A   *)
(* run moves the batches it selected together.  PlanningReservations       *)
(* implements this, and OrderCommitment builds on it.                      *)
(***************************************************************************)
EXTENDS Naturals

CONSTANT Batch

VARIABLE batch

Absent == [status |-> "Absent", version |-> 0]

Init == batch = [b \in Batch |-> Absent]

Pending(b) == batch[b].status \in {"Active", "Held"}

Confirm(b) ==
  /\ batch[b] = Absent
  /\ batch' = [batch EXCEPT ![b] = [status |-> "Active", version |-> 1]]

Move(bs, s) ==
  /\ \A b \in bs : Pending(b)
  /\ s \in {"Held", "Converted"}
  /\ batch' = [b \in Batch |->
       IF b \in bs THEN [status |-> s, version |-> batch[b].version + 1] ELSE batch[b]]

Next ==
  \/ \E b \in Batch : Confirm(b)
  \/ \E bs \in SUBSET Batch, s \in {"Held", "Converted"} : Move(bs, s)

Spec == Init /\ [][Next]_batch
=============================================================================
