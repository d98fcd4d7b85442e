--------------------- MODULE PlanningReservationsProofs ---------------------
(* Theorems about PlanningReservations for every value of its constants.   *)
EXTENDS PlanningReservations, TLAPS

-----------------------------------------------------------------------------
(* The inductive invariant.  Frozen graphs are all alike, because a batch  *)
(* can only be frozen before anybody has moved it, so that what matters of *)
(* a live record is which run has moved it and how.                        *)

HeldBy(r, b) ==
  /\ ledger[b] \in Records
  /\ \A p \in Part :
       /\ ledger[b][p].status = "Held" /\ ledger[b][p].by = r
       /\ ledger[b][p].event \in {"Failed", "DeadLetter"} /\ ledger[b][p].version > 1

ConvertedBy(r, b) ==
  /\ ledger[b] \in Records
  /\ \A p \in Part :
       /\ ledger[b][p].status = IF p \in Material THEN "Active" ELSE "Converted"
       /\ ledger[b][p].by = r /\ ledger[b][p].event = "Completed"

\* Everything a run has moved it has moved together.
RunInv(r) ==
  /\ Selected(r) \subseteq Batch
  /\ \A b \in Selected(r) : Exists(b) /\ frozen[r][b] = Confirmed
  /\ status[r] = "Absent" => Selected(r) = {}
  /\ status[r] = "Completed" => \A b \in Selected(r) : ConvertedBy(r, b)
  /\ (\E b \in Selected(r) : HeldBy(r, b)) =>
       /\ \A b \in Selected(r) : HeldBy(r, b)
       /\ status[r] \in {"Failed", "DeadLetter", "Queued", "Running"}

BatchInv(b) ==
  Exists(b) =>
    \/ ledger[b] = Confirmed
    \/ \E r \in Run : b \in Selected(r) /\ HeldBy(r, b)
    \/ \E r \in Run : b \in Selected(r) /\ ConvertedBy(r, b) /\ status[r] = "Completed"

IInv ==
  /\ status \in [Run -> Lifecycle!Status]
  /\ DOMAIN frozen = Run /\ DOMAIN ledger = Batch
  /\ \A r \in Run : RunInv(r)
  /\ \A b \in Batch : BatchInv(b)

LEMMA ConfirmedType ==
  /\ Confirmed \in Records
  /\ \A p \in Part : /\ Confirmed[p].status = "Active" /\ Confirmed[p].version = 1
                     /\ Confirmed[p].by = NoRun /\ Confirmed[p].event = "Activated"
BY DEF Confirmed, Records, Record, PartStatus, Event

LEMMA RecordsExist == \A f \in Records : f # NoRecords
<1>1. BatchRecord \in Part
  BY DEF Part
<1>2. DOMAIN NoRecords = {}
  BY DEF NoRecords
<1> QED
  BY <1>1, <1>2 DEF Records

LEMMA IInvTypeOK == IInv => TypeOK
BY ConfirmedType DEF IInv, TypeOK, RunInv, BatchInv, HeldBy, ConvertedBy

\* The comparison with the frozen graph succeeds exactly when nobody else has
\* moved any of the batches.
LEMMA MatchesMeans ==
  ASSUME IInv, NEW r \in Run
  PROVE  Matches(r) <=> \A b \in Selected(r) : ledger[b] = Confirmed \/ HeldBy(r, b)
<1>1. ASSUME NEW b \in Selected(r), ledger[b] = Confirmed \/ HeldBy(r, b), NEW p \in Part
      PROVE  /\ ledger[b][p].status \in {"Active", "Held"}
             /\ Unmoved(r, ledger[b][p], frozen[r][b][p])
  <2>1. frozen[r][b] = Confirmed
    BY DEF IInv, RunInv
  <2> QED
    BY <1>1, <2>1, ConfirmedType DEF HeldBy, Unmoved
<1>2. ASSUME NEW b \in Selected(r), Matches(r)
      PROVE  ledger[b] = Confirmed \/ HeldBy(r, b)
  <2>1. /\ b \in Batch /\ Exists(b) /\ frozen[r][b] = Confirmed /\ BatchInv(b)
        /\ BatchRecord \in Part
    BY DEF IInv, RunInv, Part
  <2>2. /\ ledger[b][BatchRecord].status \in {"Active", "Held"}
        /\ Unmoved(r, ledger[b][BatchRecord], Confirmed[BatchRecord])
    BY <1>2, <2>1 DEF Matches
  <2>3. BatchRecord \notin Material
    BY ReservationAssumption
  <2>4. ASSUME NEW s \in Run, ConvertedBy(s, b)
        PROVE  FALSE
    BY <2>1, <2>2, <2>3, <2>4 DEF ConvertedBy
  <2>5. ASSUME NEW s \in Run, HeldBy(s, b)
        PROVE  s = r
    BY <2>1, <2>2, <2>5, ConfirmedType, ReservationAssumption DEF HeldBy, Unmoved
  <2> QED
    BY <2>1, <2>4, <2>5 DEF BatchInv
<1> QED
  BY <1>1, <1>2 DEF Matches

LEMMA TracedType ==
  ASSUME NEW r \in Run, NEW p \in Part, NEW m \in Record,
         NEW event \in {"Completed", "Failed", "DeadLetter"}
  PROVE  /\ Traced(r, p, m, event) \in Record
         /\ Traced(r, p, m, event).status = StatusAfter(r, p, m, event)
         /\ Traced(r, p, m, event).by = r /\ Traced(r, p, m, event).event = event
         /\ Traced(r, p, m, event).version = m.version + 1
<1>1. StatusAfter(r, p, m, event) \in PartStatus
  BY DEF StatusAfter, Record, PartStatus
<1>2. m.version + 1 \in Nat /\ event \in Event
  BY DEF Record, Event
<1> QED
  BY <1>1, <1>2 DEF Traced, Record

\* What the transition of a run that nobody else has interfered with makes of
\* its batches.
LEMMA TransitionEffect ==
  ASSUME IInv, NEW r \in Run, Matches(r),
         NEW event \in {"Completed", "Failed", "DeadLetter"}, Transition(r, event)
  PROVE  /\ \A b \in Selected(r) : IF event = "Completed" THEN ConvertedBy(r, b)'
                                   ELSE HeldBy(r, b)'
         /\ \A b \in Batch \ Selected(r) : ledger'[b] = ledger[b]
         /\ DOMAIN ledger' = Batch
<1>1. ASSUME NEW b \in Selected(r)
      PROVE  IF event = "Completed" THEN ConvertedBy(r, b)' ELSE HeldBy(r, b)'
  <2>1. b \in Batch /\ (ledger[b] = Confirmed \/ HeldBy(r, b))
    BY MatchesMeans DEF IInv, RunInv
  <2>2. ledger[b] \in Records
    BY <2>1, ConfirmedType DEF HeldBy
  <2>3. ledger'[b] = [p \in Part |-> Traced(r, p, ledger[b][p], event)]
    BY <2>1 DEF Transition
  <2>4. ASSUME NEW p \in Part
        PROVE  /\ ledger[b][p] \in Record /\ ledger[b][p].version >= 1
               /\ \/ ledger[b][p].status = "Active"
                  \/ ledger[b][p].status = "Held" /\ ledger[b][p].by = r
    <3>1. ledger[b][p] \in Record
      BY <2>2 DEF Records
    <3>2. ledger[b][p].version \in Nat
      BY <3>1 DEF Record
    <3>3. CASE ledger[b] = Confirmed
      <4>1. ledger[b][p] = Confirmed[p]
        BY <3>3
      <4>2. ledger[b][p].status = "Active" /\ ledger[b][p].version = 1
        BY <4>1, ConfirmedType
      <4> QED
        BY <3>1, <4>2
    <3>4. CASE HeldBy(r, b)
      BY <3>1, <3>2, <3>4 DEF HeldBy
    <3> QED
      BY <2>1, <3>3, <3>4
  <2>5. ledger'[b] \in Records
    BY <2>3, <2>4, TracedType DEF Records
  <2>6. ASSUME NEW p \in Part
        PROVE  /\ ledger'[b][p].by = r /\ ledger'[b][p].event = event
               /\ ledger'[b][p].version > 1
               /\ ledger'[b][p].status = StatusAfter(r, p, ledger[b][p], event)
    <3>1. ledger'[b][p] = Traced(r, p, ledger[b][p], event)
      BY <2>3
    <3>2. ledger[b][p] \in Record /\ ledger[b][p].version \in Nat /\ ledger[b][p].version >= 1
      BY <2>4 DEF Record
    <3>3. ledger[b][p].version + 1 > 1
      BY <3>2
    <3> QED
      BY <3>1, <3>2, <3>3, TracedType
  <2>7. CASE event = "Completed"
    BY <2>4, <2>5, <2>6, <2>7 DEF ConvertedBy, StatusAfter
  <2>8. CASE event \in {"Failed", "DeadLetter"}
    BY <2>5, <2>6, <2>8 DEF HeldBy, StatusAfter
  <2> QED
    BY <2>7, <2>8
<1>2. \A b \in Batch \ Selected(r) : ledger'[b] = ledger[b]
  BY DEF Transition
<1> QED
  BY <1>1, <1>2 DEF Transition

LEMMA InitIInv == Init => IInv
<1> SUFFICES ASSUME Init PROVE IInv
  OBVIOUS
<1>1. \A r \in Run : Selected(r) = {}
  BY DEF Init, Selected
<1>2. \A b \in Batch : ~Exists(b)
  BY DEF Init, Exists
<1> QED
  BY <1>1, <1>2 DEF Init, IInv, RunInv, BatchInv, Lifecycle!Init, Lifecycle!Status

\* A change of status that leaves the reservations alone.
LEMMA StatusChange ==
  ASSUME IInv, NEW q \in Run, NEW s \in Lifecycle!Status \ {"Absent", "Completed"},
         status[q] # "Completed",
         status[q] \in {"Failed", "DeadLetter", "Queued", "Running"}
           => s \in {"Failed", "DeadLetter", "Queued", "Running"},
         status' = [status EXCEPT ![q] = s], UNCHANGED <<frozen, ledger>>
  PROVE  IInv'
<1>1. status' \in [Run -> Lifecycle!Status]
  BY DEF IInv
<1>2. ASSUME NEW r \in Run
      PROVE  RunInv(r)'
  BY DEF IInv, RunInv, Selected, Exists, HeldBy, ConvertedBy
<1>3. ASSUME NEW b \in Batch
      PROVE  BatchInv(b)'
  BY DEF IInv, BatchInv, Selected, Exists, HeldBy, ConvertedBy
<1> QED
  BY <1>1, <1>2, <1>3 DEF IInv

\* The transition of a run that nobody else has interfered with.
LEMMA FinishTransition ==
  ASSUME IInv, NEW q \in Run, status[q] = "Running", Matches(q),
         NEW s \in {"Completed", "Failed", "DeadLetter"},
         NEW event \in {"Completed", "Failed", "DeadLetter"},
         s = "Completed" <=> event = "Completed",
         status' = [status EXCEPT ![q] = s], Transition(q, event), UNCHANGED frozen
  PROVE  IInv'
<1>1. /\ \A b \in Selected(q) : IF event = "Completed" THEN ConvertedBy(q, b)'
                                ELSE HeldBy(q, b)'
      /\ \A b \in Batch \ Selected(q) : ledger'[b] = ledger[b]
      /\ DOMAIN ledger' = Batch
  BY TransitionEffect
<1>2. /\ status' \in [Run -> Lifecycle!Status] /\ status'[q] = s
      /\ \A r \in Run \ {q} : status'[r] = status[r]
      /\ \A r \in Run : Selected(r)' = Selected(r)
      /\ \A r \in Run : Selected(r) \subseteq Batch
  BY DEF IInv, RunInv, Selected, Lifecycle!Status
<1>3. ASSUME NEW b \in Selected(q)
      PROVE  /\ b \in Batch /\ Exists(b)' /\ BatchInv(b)'
             /\ \A r \in Run \ {q} : /\ ~HeldBy(r, b)' /\ ~ConvertedBy(r, b)'
                                     /\ ~HeldBy(r, b) /\ ~ConvertedBy(r, b)
  <2>1. b \in Batch /\ BatchRecord \in Part /\ (ledger[b] = Confirmed \/ HeldBy(q, b))
    BY <1>2, MatchesMeans DEF Part
  <2>2. (ConvertedBy(q, b)' \/ HeldBy(q, b)') /\ ledger'[b] \in Records
    BY <1>1 DEF ConvertedBy, HeldBy
  <2>3. \A r \in Run \ {q} : ~HeldBy(r, b) /\ ~ConvertedBy(r, b)
    BY <2>1, ConfirmedType DEF HeldBy, ConvertedBy
  <2>4. \A r \in Run \ {q} : ~HeldBy(r, b)' /\ ~ConvertedBy(r, b)'
    BY <2>1, <2>2 DEF HeldBy, ConvertedBy
  <2> QED
    BY <1>1, <1>2, <2>1, <2>2, <2>3, <2>4, RecordsExist DEF Exists, BatchInv
<1>4. ASSUME NEW b \in Batch \ Selected(q), NEW r \in Run
      PROVE  /\ HeldBy(r, b)' <=> HeldBy(r, b)
             /\ ConvertedBy(r, b)' <=> ConvertedBy(r, b)
             /\ Exists(b)' <=> Exists(b)
  BY <1>1 DEF HeldBy, ConvertedBy, Exists
<1>5. ASSUME NEW b \in Batch
      PROVE  BatchInv(b)'
  <2>1. CASE b \in Selected(q)
    BY <1>3, <2>1
  <2>2. CASE b \notin Selected(q)
    <3>1. ledger'[b] = ledger[b] /\ BatchInv(b) /\ (Exists(b)' <=> Exists(b))
      BY <1>1, <2>2 DEF IInv, Exists
    <3>2. ASSUME NEW r \in Run, b \in Selected(r)
          PROVE  r # q /\ b \in Selected(r)' /\ status'[r] = status[r]
      BY <1>2, <2>2, <3>2
    <3> QED
      BY <1>4, <2>2, <3>1, <3>2 DEF BatchInv
  <2> QED
    BY <2>1, <2>2
<1>6. ASSUME NEW r \in Run
      PROVE  RunInv(r)'
  <2>1. /\ RunInv(r) /\ \A b \in Selected(r) : frozen'[r][b] = Confirmed
    BY DEF IInv, RunInv
  <2>2. \A b \in Selected(r) : Exists(b)'
    BY <1>2, <1>3, <1>4, <2>1 DEF RunInv
  <2>3. CASE r = q
    BY <1>1, <1>2, <2>1, <2>2, <2>3 DEF RunInv, ConvertedBy, HeldBy, Part
  <2>4. CASE r # q
    <3>1. ASSUME NEW b \in Selected(r)
          PROVE  (HeldBy(r, b)' <=> HeldBy(r, b)) /\ (ConvertedBy(r, b)' <=> ConvertedBy(r, b))
      BY <1>2, <1>3, <1>4, <2>4
    <3> QED
      BY <1>2, <2>1, <2>2, <2>4, <3>1 DEF RunInv
  <2> QED
    BY <2>3, <2>4
<1> QED
  BY <1>1, <1>2, <1>5, <1>6 DEF IInv

\* A new run, whose batches are all as they were confirmed, one of them perhaps new.
LEMMA NewRunInv ==
  ASSUME IInv, NEW q \in Run, status[q] = "Absent", NEW s \in {"Pending", "Queued"},
         NEW bs \in SUBSET Batch,
         status' = [status EXCEPT ![q] = s],
         frozen' = [frozen EXCEPT ![q] = [b \in bs |-> Confirmed]],
         DOMAIN ledger' = Batch,
         \A b \in bs : ledger'[b] = Confirmed,
         \A b \in Batch : ledger'[b] = ledger[b] \/ (~Exists(b) /\ ledger'[b] = Confirmed)
  PROVE  IInv'
<1>1. /\ status' \in [Run -> Lifecycle!Status] /\ status'[q] = s
      /\ \A r \in Run \ {q} : status'[r] = status[r] /\ frozen'[r] = frozen[r]
      /\ Selected(q) = {} /\ Selected(q)' = bs /\ frozen'[q] = [b \in bs |-> Confirmed]
      /\ DOMAIN frozen' = Run
  BY DEF IInv, RunInv, Selected, Lifecycle!Status
<1>2. Confirmed # NoRecords
  BY ConfirmedType, RecordsExist
<1>3. ASSUME NEW b \in Batch, ledger'[b] = Confirmed, NEW r \in Run
      PROVE  ~HeldBy(r, b)' /\ ~ConvertedBy(r, b)'
  BY <1>3, ConfirmedType, ReservationAssumption DEF HeldBy, ConvertedBy, Part
<1>4. ASSUME NEW r \in Run, r # q
      PROVE  RunInv(r)'
  <2>1. RunInv(r) /\ Selected(r)' = Selected(r) /\ \A b \in Selected(r) : ledger'[b] = ledger[b]
    BY <1>1, <1>4 DEF IInv, RunInv, Selected
  <2> QED
    BY <1>1, <1>4, <2>1 DEF RunInv, HeldBy, ConvertedBy, Exists
<1>5. RunInv(q)'
  BY <1>1, <1>2, <1>3 DEF RunInv, Exists
<1>6. ASSUME NEW b \in Batch
      PROVE  BatchInv(b)'
  <2>1. CASE ledger'[b] = Confirmed
    BY <2>1 DEF BatchInv
  <2>2. CASE ledger'[b] = ledger[b] /\ ledger[b] # Confirmed
    <3>1. ASSUME NEW r \in Run, b \in Selected(r)
          PROVE  b \in Selected(r)' /\ status'[r] = status[r]
      BY <1>1, <3>1 DEF Selected
    <3> QED
      BY <2>2, <3>1 DEF IInv, BatchInv, Exists, HeldBy, ConvertedBy
  <2> QED
    BY <2>1, <2>2
<1> QED
  BY <1>1, <1>4, <1>5, <1>6 DEF IInv

LEMMA NextIInv == IInv /\ [Next]_vars => IInv'
<1> SUFFICES ASSUME IInv, [Next]_vars PROVE IInv'
  OBVIOUS
<1>1. ASSUME NEW r \in Run, NEW b \in Batch, Accept(r, b)
      PROVE  IInv'
  <2>1. /\ status[r] = "Absent" /\ status' = [status EXCEPT ![r] = "Queued"]
        /\ frozen' = [frozen EXCEPT ![r] = [c \in {b} |-> Confirmed]]
        /\ ~Exists(b) /\ ledger' = [ledger EXCEPT ![b] = Confirmed] /\ DOMAIN ledger = Batch
    BY <1>1 DEF Accept, Lifecycle!Create, Lifecycle!Become, IInv
  <2>2. /\ ledger'[b] = Confirmed /\ DOMAIN ledger' = Batch
        /\ \A c \in Batch : ledger'[c] = ledger[c] \/ (~Exists(c) /\ ledger'[c] = Confirmed)
    BY <2>1
  <2>3. {b} \in SUBSET Batch /\ \A c \in {b} : ledger'[c] = Confirmed
    BY <2>2
  <2> QED
    BY <2>1, <2>2, <2>3, NewRunInv
<1>2. ASSUME NEW r \in Run, NEW bs \in SUBSET Batch, CreateRun(r, bs)
      PROVE  IInv'
  <2>1. /\ status[r] = "Absent" /\ status' = [status EXCEPT ![r] = "Pending"]
        /\ frozen' = [frozen EXCEPT ![r] = [b \in bs |-> ledger[b]]]
        /\ UNCHANGED ledger /\ DOMAIN ledger = Batch
    BY <1>2 DEF CreateRun, Freeze, Lifecycle!Create, Lifecycle!Become, IInv
  <2>2. ASSUME NEW b \in bs
        PROVE  ledger[b] = Confirmed
    <3>1. /\ b \in Batch /\ BatchInv(b) /\ Exists(b) /\ BatchRecord \in Part
          /\ BatchRecord \notin Material /\ ledger[b][BatchRecord].status = "Active"
      BY <1>2, ReservationAssumption DEF CreateRun, FreezeEligible, IInv, Part
    <3> QED
      BY <3>1 DEF BatchInv, HeldBy, ConvertedBy
  <2>3. [b \in bs |-> ledger[b]] = [b \in bs |-> Confirmed]
    BY <2>2
  <2> QED
    BY <2>1, <2>2, <2>3, NewRunInv
<1>3. ASSUME NEW r \in Run, FinishCompleted(r) \/ FinishWithoutEvidence(r)
                              \/ FinishFailed(r, "Failed") \/ FinishFailed(r, "DeadLetter")
      PROVE  IInv'
  BY <1>3, FinishTransition
  DEF FinishCompleted, FinishWithoutEvidence, FinishFailed, Lifecycle!Finish, Lifecycle!Become
<1>4. ASSUME NEW r \in Run, FinishDrifted(r) \/ Compensate(r) \/ Retry(r)
      PROVE  IInv'
  BY <1>4, StatusChange
  DEF FinishDrifted, Compensate, Retry, Lifecycle!Finish, Lifecycle!Become, Lifecycle!Status
<1>5. ASSUME NEW r \in Run, Enqueue(r) \/ Cancel(r) \/ Begin(r) \/ Recover(r)
      PROVE  IInv'
  BY <1>5, StatusChange
  DEF Enqueue, Cancel, Begin, Recover, Lifecycle!Enqueue, Lifecycle!Cancel,
      Lifecycle!Begin, Lifecycle!Recover, Lifecycle!Become, Lifecycle!Status
<1>6. ASSUME UNCHANGED vars
      PROVE  IInv'
  BY <1>6 DEF vars, IInv, RunInv, BatchInv, Selected, Exists, HeldBy, ConvertedBy
<1> QED
  BY <1>1, <1>2, <1>3, <1>4, <1>5, <1>6 DEF Next

LEMMA InductiveInvariant == Spec => []IInv
BY InitIInv, NextIInv, PTL DEF Spec

-----------------------------------------------------------------------------
(* The theorems.                                                           *)

\* Every variable always has its type.
THEOREM TypeCorrect == Spec => []TypeOK
BY InductiveInvariant, IInvTypeOK, PTL

\* No batch is ever turned into scheduled occupancy by two runs, and every batch
\* a completed run selected has been.
THEOREM EachBatchConvertedOnce == Spec => []ConvertedOnce
<1>1. ASSUME IInv, NEW b \in Batch, NEW r \in Run, Exists(b)
      PROVE  status[r] = "Completed" /\ b \in Selected(r)
               <=> ledger[b][BatchRecord].status = "Converted" /\ ledger[b][BatchRecord].by = r
  <2>1. BatchRecord \in Part /\ BatchRecord \notin Material
    BY ReservationAssumption DEF Part
  <2>2. \A s \in Run : ConvertedBy(s, b) =>
          ledger[b][BatchRecord].status = "Converted" /\ ledger[b][BatchRecord].by = s
    BY <2>1 DEF ConvertedBy
  <2>3. ASSUME ledger[b][BatchRecord].status = "Converted", ledger[b][BatchRecord].by = r
        PROVE  status[r] = "Completed" /\ b \in Selected(r)
    <3>1. ledger[b] # Confirmed /\ \A s \in Run : ~HeldBy(s, b)
      BY <2>1, <2>3, ConfirmedType DEF HeldBy
    <3>2. PICK s \in Run : b \in Selected(s) /\ ConvertedBy(s, b) /\ status[s] = "Completed"
      BY <1>1, <3>1 DEF IInv, BatchInv
    <3> QED
      BY <2>2, <2>3, <3>2
  <2>4. ASSUME status[r] = "Completed", b \in Selected(r)
        PROVE  ConvertedBy(r, b)
    BY <1>1, <2>4 DEF IInv, RunInv
  <2> QED
    BY <2>2, <2>3, <2>4
<1>2. IInv => ConvertedOnce
  BY <1>1 DEF ConvertedOnce
<1> QED
  BY <1>2, InductiveInvariant, PTL

\* A batch is never left half held or half converted.
THEOREM BatchesMoveWhole == Spec => []PartsAgree
<1>1. ASSUME IInv, NEW b \in Batch, Exists(b), NEW p \in Part
      PROVE  /\ ledger[b][p].by = ledger[b][BatchRecord].by
             /\ p \in Capacity => ledger[b][p].status = ledger[b][BatchRecord].status
             /\ p \in Material =>
                  (ledger[b][p].status = "Held" <=> ledger[b][BatchRecord].status = "Held")
  <2>1. /\ BatchRecord \in Part /\ BatchRecord \notin Material
        /\ p \in Capacity => p \notin Material
    BY ReservationAssumption DEF Part
  <2>2. CASE ledger[b] = Confirmed
    <3>1. ledger[b][p] = Confirmed[p] /\ ledger[b][BatchRecord] = Confirmed[BatchRecord]
      BY <2>2
    <3> QED
      BY <2>1, <3>1, ConfirmedType
  <2>3. ASSUME NEW r \in Run, HeldBy(r, b) \/ ConvertedBy(r, b)
        PROVE  /\ ledger[b][p].by = ledger[b][BatchRecord].by
               /\ p \in Capacity => ledger[b][p].status = ledger[b][BatchRecord].status
               /\ p \in Material =>
                    (ledger[b][p].status = "Held" <=> ledger[b][BatchRecord].status = "Held")
    BY <2>1, <2>3 DEF HeldBy, ConvertedBy
  <2> QED
    BY <1>1, <2>2, <2>3 DEF IInv, BatchInv
<1>2. IInv => PartsAgree
  BY <1>1 DEF PartsAgree
<1> QED
  BY <1>2, InductiveInvariant, PTL

\* Whoever holds a batch can be recovered and will not be refused for drift.
THEOREM HeldBatchesRecoverable == Spec => []HeldIsRecoverable
<1>1. ASSUME IInv, NEW b \in Batch, Exists(b), ledger[b][BatchRecord].status = "Held"
      PROVE  \E r \in Run :
               /\ ledger[b][BatchRecord].by = r /\ b \in Selected(r)
               /\ status[r] \in {"Failed", "DeadLetter", "Queued", "Running"}
               /\ Matches(r)
  <2>1. BatchRecord \in Part /\ BatchRecord \notin Material
    BY ReservationAssumption DEF Part
  <2>2. ledger[b] # Confirmed /\ \A s \in Run : ~ConvertedBy(s, b)
    BY <1>1, <2>1, ConfirmedType DEF ConvertedBy
  <2>3. PICK r \in Run : b \in Selected(r) /\ HeldBy(r, b)
    BY <1>1, <2>2 DEF IInv, BatchInv
  <2>4. /\ \A c \in Selected(r) : HeldBy(r, c)
        /\ status[r] \in {"Failed", "DeadLetter", "Queued", "Running"}
    BY <1>1, <2>3 DEF IInv, RunInv
  <2>5. Matches(r)
    BY <1>1, <2>4, MatchesMeans
  <2> QED
    BY <2>1, <2>3, <2>4, <2>5 DEF HeldBy
<1>2. IInv => HeldIsRecoverable
  BY <1>1 DEF HeldIsRecoverable
<1> QED
  BY <1>2, InductiveInvariant, PTL

\* The first run to move a batch is the only one that ever does.
THEOREM OnlyOneHolder == Spec => OneHolder
<1> DEFINE Kept(b) ==
      Exists(b) /\ ledger[b][BatchRecord].by # NoRun =>
        \A p \in Part : ledger'[b][p].by = ledger[b][p].by
<1>1. ASSUME IInv, [Next]_vars, NEW b \in Batch
      PROVE  Kept(b)
  <2>1. ASSUME NEW r \in Run, Matches(r), NEW e \in Event, e # "Activated", Transition(r, e)
        PROVE  Kept(b)
    <3>1. CASE b \notin Selected(r)
      BY <2>1, <3>1 DEF Transition
    <3>2. CASE b \in Selected(r) /\ ledger[b] = Confirmed
      BY <3>2, ConfirmedType DEF Part
    <3>3. CASE b \in Selected(r) /\ HeldBy(r, b)
      BY <2>1, <3>3 DEF Transition, Traced, HeldBy
    <3> QED
      BY <1>1, <2>1, <3>1, <3>2, <3>3, MatchesMeans
  <2>2. ASSUME NEW r \in Run, FinishCompleted(r) \/ FinishWithoutEvidence(r)
                                \/ FinishFailed(r, "Failed") \/ FinishFailed(r, "DeadLetter")
        PROVE  Kept(b)
    BY <2>1, <2>2 DEF FinishCompleted, FinishWithoutEvidence, FinishFailed, Event
  <2>3. ASSUME NEW r \in Run, NEW c \in Batch, Accept(r, c)
        PROVE  Kept(b)
    BY <1>1, <2>3 DEF Accept, IInv
  <2>4. ASSUME NEW r \in Run,
               \/ \E bs \in SUBSET Batch : CreateRun(r, bs)
               \/ FinishDrifted(r) \/ Compensate(r) \/ Retry(r)
               \/ Enqueue(r) \/ Cancel(r) \/ Begin(r) \/ Recover(r)
        PROVE  Kept(b)
    BY <2>4
    DEF CreateRun, FinishDrifted, Compensate, Retry, Enqueue, Cancel, Begin, Recover
  <2>5. ASSUME UNCHANGED vars
        PROVE  Kept(b)
    BY <2>5 DEF vars
  <2> HIDE DEF Kept
  <2> QED
    BY <1>1, <2>2, <2>3, <2>4, <2>5 DEF Next
<1>2. IInv /\ [Next]_vars => \A b \in Batch : Kept(b)
  BY <1>1
<1> QED
  BY <1>2, InductiveInvariant, PTL DEF Spec, OneHolder

\* The batch part of the records, as BatchLifecycle sees it.
Seen(b) ==
  IF Exists(b)
  THEN [status |-> ledger[b][BatchRecord].status, version |-> ledger[b][BatchRecord].version]
  ELSE [status |-> "Absent", version |-> 0]

LEMMA FinishMovesBatches ==
  ASSUME IInv, NEW r \in Run, Matches(r),
         NEW event \in {"Completed", "Failed", "DeadLetter"}, Transition(r, event)
  PROVE  Batches!Move(Selected(r), IF event = "Completed" THEN "Converted" ELSE "Held")
<1> DEFINE s == IF event = "Completed" THEN "Converted" ELSE "Held"
<1>1. /\ Selected(r) \subseteq Batch /\ BatchRecord \in Part /\ BatchRecord \notin Material
      /\ \A b \in Selected(r) : Exists(b)
  BY ReservationAssumption DEF IInv, RunInv, Part
<1>2. ASSUME NEW b \in Selected(r)
      PROVE  /\ Seen(b).status \in {"Active", "Held"}
             /\ Seen(b)' = [status |-> s, version |-> Seen(b).version + 1]
  <2>1. ledger[b][BatchRecord].status \in {"Active", "Held"}
    BY <1>1 DEF Matches
  <2>2. ledger'[b] \in Records
    BY TransitionEffect DEF ConvertedBy, HeldBy
  <2>3. Exists(b)'
    BY <2>2, RecordsExist DEF Exists
  <2>4. ledger'[b][BatchRecord] = Traced(r, BatchRecord, ledger[b][BatchRecord], event)
    BY <1>1 DEF Transition
  <2>5. StatusAfter(r, BatchRecord, ledger[b][BatchRecord], event) = s
    BY <1>1 DEF StatusAfter
  <2> QED
    BY <1>1, <2>1, <2>3, <2>4, <2>5 DEF Seen, Traced
<1>3. ASSUME NEW b \in Batch \ Selected(r)
      PROVE  Seen(b)' = Seen(b)
  BY TransitionEffect DEF Seen, Exists
<1>4. s \in {"Held", "Converted"}
  OBVIOUS
<1> HIDE DEF s
<1>5. [b \in Batch |-> Seen(b)]' =
        [b \in Batch |-> IF b \in Selected(r)
                         THEN [status |-> s, version |-> Seen(b).version + 1] ELSE Seen(b)]
  BY <1>1, <1>2, <1>3
<1>6. \A b \in Selected(r) : Seen(b).status \in {"Active", "Held"}
  BY <1>2
<1> QED
  BY <1>1, <1>4, <1>5, <1>6 DEF Batches!Move, Batches!Pending, Seen, s

\* Whoever reads only a batch's status and version sees it confirmed once, moved
\* by a new version each time, together with the rest of a run's selection, and
\* never moved again after it was converted.
THEOREM BatchesKeepToTheirLife == Spec => ImplementsBatches
<1>1. Init => Batches!Init
  BY DEF Init, Batches!Init, Batches!Absent, Exists
<1>2. ASSUME IInv, [Next]_vars
      PROVE  [Batches!Next]_([b \in Batch |-> Seen(b)])
  <2>1. ASSUME NEW r \in Run, NEW c \in Batch, Accept(r, c)
        PROVE  Batches!Confirm(c)
    <3>1. /\ ~Exists(c) /\ ledger' = [ledger EXCEPT ![c] = Confirmed] /\ DOMAIN ledger = Batch
      BY <1>2, <2>1 DEF Accept, IInv
    <3>2. Seen(c)' = [status |-> "Active", version |-> 1]
      BY <3>1, ConfirmedType, RecordsExist DEF Seen, Exists, Part
    <3>3. \A b \in Batch \ {c} : Seen(b)' = Seen(b)
      BY <3>1 DEF Seen, Exists
    <3>4. Seen(c) = [status |-> "Absent", version |-> 0]
      BY <3>1 DEF Seen
    <3>5. [b \in Batch |-> Seen(b)]' =
            [[b \in Batch |-> Seen(b)] EXCEPT ![c] = [status |-> "Active", version |-> 1]]
      BY <3>2, <3>3
    <3> QED
      BY <3>4, <3>5 DEF Batches!Confirm, Batches!Absent, Seen
  <2>2. ASSUME NEW r \in Run, FinishCompleted(r) \/ FinishWithoutEvidence(r)
                                \/ FinishFailed(r, "Failed") \/ FinishFailed(r, "DeadLetter")
        PROVE  \E bs \in SUBSET Batch, s \in {"Held", "Converted"} : Batches!Move(bs, s)
    <3>1. PICK event \in {"Completed", "Failed", "DeadLetter"} :
            Matches(r) /\ Transition(r, event)
      BY <2>2 DEF FinishCompleted, FinishWithoutEvidence, FinishFailed
    <3>2. Selected(r) \in SUBSET Batch
      BY <1>2 DEF IInv, RunInv
    <3> QED
      BY <1>2, <3>1, <3>2, FinishMovesBatches
  <2>3. ASSUME UNCHANGED ledger
        PROVE  UNCHANGED [b \in Batch |-> Seen(b)]
    BY <2>3 DEF Seen, Exists
  <2>4. ASSUME NEW r \in Run,
               \/ \E bs \in SUBSET Batch : CreateRun(r, bs)
               \/ FinishDrifted(r) \/ Compensate(r) \/ Retry(r)
               \/ Enqueue(r) \/ Cancel(r) \/ Begin(r) \/ Recover(r)
        PROVE  UNCHANGED ledger
    BY <2>4
    DEF CreateRun, FinishDrifted, Compensate, Retry, Enqueue, Cancel, Begin, Recover
  <2>5. ASSUME UNCHANGED vars
        PROVE  UNCHANGED ledger
    BY <2>5 DEF vars
  <2> QED
    BY <1>2, <2>1, <2>2, <2>3, <2>4, <2>5 DEF Next, Batches!Next
<1> QED
  BY <1>1, <1>2, InductiveInvariant, PTL DEF Spec, ImplementsBatches, Batches!Spec, Seen
=============================================================================
