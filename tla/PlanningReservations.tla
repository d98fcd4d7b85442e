------------------------ MODULE PlanningReservations ------------------------
(***************************************************************************)
(* Reservation batches and the Planning Runs that use them:                *)
(* sdbr/planning_run_reservation_bridge.py, apply_reservation_write_set of *)
(* sdbr/planning_reservations.py, and the places of sdbr/api.py that call  *)
(* them.  The planner's acceptance of an order creates a batch with its    *)
(* capacity reservations and material allocations, and a run that froze    *)
(* it; a planner may create more runs that freeze the same batch.  A run   *)
(* compares what it froze with the live records when it is finalized, in   *)
(* the same store update that writes its status.                           *)
(*                                                                         *)
(* RunLifecycle gives the statuses a run goes through.  A record is        *)
(* abstracted to its transition metadata, of which LastTransitionAt moves  *)
(* with RecordVersion; its other fields are never written after it was     *)
(* confirmed, and neither is the demand commitment of the batch.  Graphs   *)
(* of older formats, and material taken over by an external authority,     *)
(* which nothing in src/ writes, are not modelled.                         *)
(***************************************************************************)
EXTENDS Integers

CONSTANTS
  Run, Batch,
  Capacity, Material,   \* the capacity and material lines of a batch
  NoRun,
  MaxVersion            \* bound: RecordVersion stops here

BatchRecord == "batch"

ASSUME ReservationAssumption ==
  /\ NoRun \notin Run
  /\ BatchRecord \notin Capacity \cup Material /\ Capacity \cap Material = {}
  /\ MaxVersion \in Nat

VARIABLES
  status,   \* of each run
  frozen,   \* FrozenPlanningReservations of each run: the batches it selected
  ledger    \* the live records of each batch

vars == <<status, frozen, ledger>>

Lifecycle == INSTANCE RunLifecycle

Part == {BatchRecord} \cup Capacity \cup Material

PartStatus == {"Active", "Held", "Converted"}

Event == {"Activated", "Completed", "Failed", "DeadLetter"}

Record == [status: PartStatus, version: Nat, by: Run \cup {NoRun}, event: Event]

\* A batch that is not there has no records.
Records == [Part -> Record]
NoRecords == [p \in {} |-> p]

Exists(b) == ledger[b] # NoRecords

Init ==
  /\ Lifecycle!Init
  /\ frozen = [r \in Run |-> [b \in {} |-> NoRecords]]
  /\ ledger = [b \in Batch |-> NoRecords]

Selected(r) == DOMAIN frozen[r]

-----------------------------------------------------------------------------
(* Creating batches and runs.                                              *)

Confirmed ==
  [p \in Part |-> [status |-> "Active", version |-> 1, by |-> NoRun, event |-> "Activated"]]

\* freeze_planning_reservations
FreezeEligible(b) == Exists(b) /\ \A p \in Part : ledger[b][p].status = "Active"

Freeze(bs) == [b \in bs |-> ledger[b]]

\* The planner accepts an order: the reservations are applied and a run that
\* froze them is queued.
Accept(r, b) ==
  /\ ~Exists(b)
  /\ Lifecycle!Create(r, "Queued")
  /\ ledger' = [ledger EXCEPT ![b] = Confirmed]
  /\ frozen' = [frozen EXCEPT ![r] = [c \in {b} |-> Confirmed]]

\* POST planning-runs
CreateRun(r, bs) ==
  /\ \A b \in bs : FreezeEligible(b)
  /\ Lifecycle!Create(r, "Pending")
  /\ frozen' = [frozen EXCEPT ![r] = Freeze(bs)]
  /\ UNCHANGED ledger

-----------------------------------------------------------------------------
(* Finalizing a run: transition_planning_reservations_for_run.             *)

\* Deviations of Unmoved: whoever failed may go on; a new version of a record is
\* never accepted, not even the run's own.
UnmovedForAnyRun(r, live, was) ==
  \/ live = was
  \/ /\ live.version > was.version /\ live.event \in {"Failed", "DeadLetter"}
     /\ live.status \in {"Held", "Active"}
UnmovedAtAll(r, live, was) == live = was

\* _assert_record_compare_and_set: the record is as it was frozen, or only this
\* run's own failures have moved it.
Unmoved(r, live, was) ==
  \/ live = was
  \/ /\ live.version > was.version
     /\ live.by = r /\ live.event \in {"Failed", "DeadLetter"}
     /\ live.status \in {"Held", "Active"}

\* _compare_live_graph_to_frozen
Matches(r) ==
  \A b \in Selected(r), p \in Part :
    /\ ledger[b][p].status \in {"Active", "Held"}
    /\ Unmoved(r, ledger[b][p], frozen[r][b][p])

\* Deviation of StatusAfter: only the batch itself is held.
StatusAfterBatchOnly(r, p, m, event) ==
  CASE p = BatchRecord /\ event = "Completed" -> "Converted"
    [] p = BatchRecord /\ event # "Completed" -> "Held"
    [] OTHER -> m.status

\* The status of part p whose record is m: occupancy and the batch are converted
\* or held; material is held by a failure and given back by the run that held it.
StatusAfter(r, p, m, event) ==
  CASE p \notin Material /\ event = "Completed" -> "Converted"
    [] p \notin Material /\ event # "Completed" -> "Held"
    [] p \in Material /\ event = "Completed" ->
         IF m.status = "Held" /\ m.by = r THEN "Active" ELSE m.status
    [] p \in Material /\ event # "Completed" -> "Held"

\* Deviation of Traced: only the first move of a record raises its version.
TracedOnce(r, p, m, event) ==
  [status |-> StatusAfter(r, p, m, event),
   version |-> IF m.status = "Held" THEN m.version ELSE m.version + 1,
   by |-> r, event |-> event]

\* _trace_run_record
Traced(r, p, m, event) ==
  [status |-> StatusAfter(r, p, m, event), version |-> m.version + 1, by |-> r, event |-> event]

Transition(r, event) ==
  /\ \A b \in Selected(r), p \in Part : ledger[b][p].version < MaxVersion
  /\ ledger' = [b \in Batch |->
       IF b \in Selected(r)
       THEN [p \in Part |-> Traced(r, p, ledger[b][p], event)]
       ELSE ledger[b]]

\* persist_execution_finalization for a run whose solver and failure policy say
\* s, up to what it does to the reservations.

\* The schedule occupies every frozen capacity reservation.
FinishCompleted(r) ==
  /\ Matches(r)
  /\ Lifecycle!Finish(r, "Completed") /\ Transition(r, "Completed")
  /\ UNCHANGED frozen

\* ScheduledOccupancyEvidenceError: the schedule misses a capacity reservation.
FinishWithoutEvidence(r) ==
  /\ Matches(r) /\ Selected(r) # {} /\ Capacity # {}
  /\ Lifecycle!Finish(r, "Failed") /\ Transition(r, "Failed")
  /\ UNCHANGED frozen

FinishFailed(r, s) ==
  /\ Matches(r) /\ s \in {"Failed", "DeadLetter"}
  /\ Lifecycle!Finish(r, s) /\ Transition(r, s)
  /\ UNCHANGED frozen

\* ReservationGraphDriftError: whatever the run came to, it is Failed and the
\* records stay as they are.
FinishDrifted(r) ==
  /\ ~Matches(r)
  /\ Lifecycle!Finish(r, "Failed")
  /\ UNCHANGED <<frozen, ledger>>

-----------------------------------------------------------------------------
(* What else a run goes through leaves the reservations alone.             *)

\* Also the compensation of a finalization that could not be stored.
Compensate(r) == Lifecycle!Finish(r, "Failed") /\ UNCHANGED <<frozen, ledger>>

Retry(r) == Lifecycle!Finish(r, "Queued") /\ UNCHANGED <<frozen, ledger>>

Cancel(r) == Lifecycle!Cancel(r) /\ UNCHANGED <<frozen, ledger>>

Enqueue(r) == Lifecycle!Enqueue(r) /\ UNCHANGED <<frozen, ledger>>

Begin(r) == Lifecycle!Begin(r) /\ UNCHANGED <<frozen, ledger>>

Recover(r) == Lifecycle!Recover(r) /\ UNCHANGED <<frozen, ledger>>

Next == \E r \in Run :
  \/ \E b \in Batch : Accept(r, b)
  \/ \E bs \in SUBSET Batch : CreateRun(r, bs)
  \/ Enqueue(r) \/ Cancel(r) \/ Begin(r) \/ Recover(r)
  \/ FinishCompleted(r) \/ FinishWithoutEvidence(r) \/ FinishDrifted(r)
  \/ FinishFailed(r, "Failed") \/ FinishFailed(r, "DeadLetter")
  \/ Retry(r) \/ Compensate(r)

Spec == Init /\ [][Next]_vars

-----------------------------------------------------------------------------
(* What reservations promise.                                              *)

\* Every variable has its type.
TypeOK ==
  /\ status \in [Run -> Lifecycle!Status]
  /\ \A r \in Run : Selected(r) \subseteq Batch /\ \A b \in Selected(r) : frozen[r][b] \in Records
  /\ \A b \in Batch : Exists(b) => ledger[b] \in Records

\* A batch is scheduled once: it is converted exactly when a completed run has
\* selected it, and no two completed runs have.
ConvertedOnce ==
  \A b \in Batch, r \in Run :
    Exists(b) =>
      (status[r] = "Completed" /\ b \in Selected(r)
         <=> ledger[b][BatchRecord].status = "Converted" /\ ledger[b][BatchRecord].by = r)

\* The records of a batch move together: no step leaves a batch half held or
\* half converted.
PartsAgree ==
  \A b \in Batch : Exists(b) =>
    LET batch == ledger[b][BatchRecord]
    IN  \A p \in Part :
          /\ ledger[b][p].by = batch.by
          /\ p \in Capacity => ledger[b][p].status = batch.status
          /\ p \in Material => (ledger[b][p].status = "Held" <=> batch.status = "Held")

\* A held batch is never stuck: the run that holds it can still be recovered
\* or is on its way, holds its whole selection, and will not be refused for drift.
HeldIsRecoverable ==
  \A b \in Batch :
    Exists(b) /\ ledger[b][BatchRecord].status = "Held" =>
      \E r \in Run :
        /\ ledger[b][BatchRecord].by = r /\ b \in Selected(r)
        /\ status[r] \in {"Failed", "DeadLetter", "Queued", "Running"}
        /\ Matches(r)

\* The run that has moved a batch keeps it: no other run ever touches it again,
\* whenever it froze the batch.
OneHolder ==
  [][\A b \in Batch :
       Exists(b) /\ ledger[b][BatchRecord].by # NoRun =>
         \A p \in Part : ledger'[b][p].by = ledger[b][p].by]_vars

\* The records keep to the life of a batch: a batch that is converted stays so,
\* and every move of its record, even from one hold to the next, has a new
\* version, which is how an evaluation made on the older record is found stale.
Batches == INSTANCE BatchLifecycle WITH
  batch <- [b \in Batch |->
    IF Exists(b)
    THEN [status |-> ledger[b][BatchRecord].status, version |-> ledger[b][BatchRecord].version]
    ELSE [status |-> "Absent", version |-> 0]]

ImplementsBatches == Batches!Spec
=============================================================================
