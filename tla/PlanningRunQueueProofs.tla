----------------------- MODULE PlanningRunQueueProofs -----------------------
(* Theorems about PlanningRunQueue for every value of its constants.       *)
EXTENDS PlanningRunQueue, TLAPS

-----------------------------------------------------------------------------
(* Type correctness.  One lemma for each update of a record.               *)

LEMMA NextAttemptType ==
  ASSUME NEW m \in RunRecord
  PROVE  NextAttempt(m) \in Nat
BY DEF NextAttempt, RunRecord

LEMMA SolvedStatusType ==
  ASSUME NEW m, NEW viaLease \in BOOLEAN, NEW verdict \in Verdict
  PROVE  SolvedStatus(m, viaLease, verdict)
           \in {"Completed", "Failed", "Queued", "DeadLetter"}
BY DEF SolvedStatus, Verdict

LEMMA CreatedType ==
  ASSUME NEW m \in RunRecord, NEW status \in {"Pending", "Queued"}, NEW at \in Nat,
         NEW limit \in Nat
  PROVE  Created(m, status, at, limit) \in RunRecord
BY DEF Created, RunRecord, Status

LEMMA EnqueuedType ==
  ASSUME NEW m \in RunRecord, NEW at \in Nat, NEW skew \in Nat, NEW limit \in Nat
  PROVE  Enqueued(m, at, skew, limit) \in RunRecord
BY DEF Enqueued, RunRecord, Status

LEMMA RecoveredType ==
  ASSUME NEW m \in RunRecord, NEW attempts \in Nat, NEW skew \in Nat
  PROVE  Recovered(m, attempts, skew) \in RunRecord
BY DEF Recovered, RunRecord, Status

LEMMA ClaimedType ==
  ASSUME NEW m \in RunRecord, NEW w \in Actor, NEW t \in Token
  PROVE  Claimed(m, w, t) \in RunRecord
BY NextAttemptType, QueueAssumption DEF Claimed, RunRecord, Status

LEMMA RenewedType ==
  ASSUME NEW m \in RunRecord
  PROVE  Renewed(m) \in RunRecord
<1>1. LeaseSeconds \in Nat
  BY QueueAssumption
<1>2. (IF m.exec # NoToken THEN LeaseSeconds ELSE m.execLeft) \in Nat
  BY <1>1 DEF RunRecord
<1> QED
  BY <1>1, <1>2 DEF Renewed, RunRecord

LEMMA ExecutingType ==
  ASSUME NEW m \in RunRecord, NEW a \in Actor, NEW t \in Token, NEW left \in Nat
  PROVE  Executing(m, a, t, left) \in RunRecord
<1>1. m.version + 1 \in Nat
  BY DEF RunRecord
<1> QED
  BY <1>1 DEF Executing, RunRecord, Status

LEMMA FinalizedType ==
  ASSUME NEW m \in RunRecord, NEW e \in Execution, NEW v \in Verdict,
         NEW err \in BOOLEAN
  PROVE  Finalized(m, e, v, err) \in RunRecord
<1> DEFINE s == SolvedStatus(m, e.viaLease, v)
           policy == e.viaLease /\ s # "Completed"
           status == FinalStatus(m, e.viaLease, v, err)
           wait == IF s = "Queued" THEN RetryDelaySeconds ELSE m.waitLeft
           lease == IF policy THEN NoToken ELSE m.lease
           left == IF policy THEN 0 ELSE m.leaseLeft
           version == e.version
<1>1. e.viaLease \in BOOLEAN /\ version \in Nat
  BY DEF Execution
<1>2. status \in Status
  BY <1>1, SolvedStatusType DEF FinalStatus, Status
<1>3. wait \in Nat /\ lease \in Token \cup {NoToken} /\ left \in Nat
  BY QueueAssumption DEF RunRecord
<1>4. Finalized(m, e, v, err) =
        [m EXCEPT !.status = status, !.waitLeft = wait, !.lease = lease,
                  !.leaseLeft = left, !.exec = NoToken, !.execLeft = 0,
                  !.finalized = version]
  BY DEF Finalized, RunRecord
<1> HIDE DEF s, policy, status, wait, lease, left, version
<1>5. [m EXCEPT !.status = status, !.waitLeft = wait, !.lease = lease,
                !.leaseLeft = left, !.exec = NoToken, !.execLeft = 0,
                !.finalized = version] \in RunRecord
  BY <1>1, <1>2, <1>3 DEF RunRecord
<1> QED
  BY <1>4, <1>5

LEMMA CompensatedType ==
  ASSUME NEW m \in RunRecord
  PROVE  Compensated(m) \in RunRecord
BY DEF Compensated, RunRecord, Status

LEMMA AgedType ==
  ASSUME NEW m \in RunRecord
  PROVE  Aged(m) \in RunRecord
<1>1. ASSUME NEW n \in Nat PROVE Elapse(n) \in Nat
  BY DEF Elapse
<1>2. /\ Elapse(m.waitLeft) \in Nat
      /\ Elapse(m.leaseLeft) \in Nat
      /\ Elapse(m.execLeft) \in Nat
  BY <1>1 DEF RunRecord
<1> QED
  BY <1>2 DEF Aged, RunRecord

LEMMA InitTypeOK == Init => TypeOK
BY DEF Init, TypeOK, NewRun, RunRecord, Status

\* TypeOK is preserved by every step.
LEMMA NextTypeOK == TypeOK /\ [Next]_vars => TypeOK'
<1> SUFFICES ASSUME TypeOK, [Next]_vars PROVE TypeOK'
  OBVIOUS
<1>1. ASSUME NEW r \in Run PROVE run[r] \in RunRecord
  BY DEF TypeOK
<1>2. ASSUME NEW r \in Run, NEW m \in RunRecord
      PROVE  [run EXCEPT ![r] = m] \in [Run -> RunRecord]
  BY DEF TypeOK
<1>3. ASSUME NEW r \in Run, Create(r) \/ Enqueue(r) \/ Cancel(r) \/ Recover(r)
      PROVE  TypeOK'
  <2>1. CASE Create(r)
    <3>1. PICK status \in {"Pending", "Queued"}, at \in Instant, limit \in AttemptLimit :
            run' = [run EXCEPT ![r] = Created(run[r], status, at, limit)]
      BY <2>1 DEF Create
    <3>2. at \in Nat /\ limit \in Nat
      BY QueueAssumption
    <3> QED
      BY <2>1, <1>1, <1>2, <3>1, <3>2, CreatedType DEF Create, TypeOK
  <2>2. CASE Enqueue(r)
    <3>1. PICK at \in Instant, skew \in 0..MaxClientSkew, limit \in AttemptLimit :
            run' = [run EXCEPT ![r] = Enqueued(run[r], at, skew, limit)]
      BY <2>2 DEF Enqueue
    <3>2. at \in Nat /\ skew \in Nat /\ limit \in Nat
      BY QueueAssumption
    <3> QED
      BY <2>2, <1>1, <1>2, <3>1, <3>2, EnqueuedType DEF Enqueue, TypeOK
  <2>3. CASE Cancel(r)
    <3>1. [run[r] EXCEPT !.status = "Cancelled"] \in RunRecord
      BY <1>1 DEF RunRecord, Status
    <3> QED
      BY <2>3, <1>2, <3>1 DEF Cancel, TypeOK
  <2>4. CASE Recover(r)
    <3>1. PICK attempts \in {0, run[r].attempts}, skew \in 0..MaxClientSkew :
            run' = [run EXCEPT ![r] = Recovered(run[r], attempts, skew)]
      BY <2>4 DEF Recover
    <3>2. attempts \in Nat /\ skew \in Nat
      BY <1>1, QueueAssumption DEF RunRecord
    <3> QED
      BY <2>4, <1>1, <1>2, <3>1, <3>2, RecoveredType DEF Recover, TypeOK
  <2> QED
    BY <1>3, <2>1, <2>2, <2>3, <2>4
<1>4. ASSUME NEW w \in Actor, ClaimNext(w) \/ \E r \in Run : ProcessQueued(w, r)
      PROVE  TypeOK'
  <2>1. PICK r \in Run, t \in Token, b \in BOOLEAN :
          /\ run' = [run EXCEPT ![r] = Claimed(run[r], w, t)]
          /\ leases' = leases \cup
               {[run |-> r, worker |-> w, token |-> t, interactive |-> b]}
    BY <1>4 DEF ClaimNext, ProcessQueued, NextInQueue, FreshLeaseToken
  <2>2. executions' = executions
    BY <1>4 DEF ClaimNext, ProcessQueued
  <2>3. run' \in [Run -> RunRecord]
    BY <2>1, <1>1, <1>2, ClaimedType
  <2>4. [run |-> r, worker |-> w, token |-> t, interactive |-> b] \in Lease
    BY DEF Lease
  <2> QED
    BY <2>1, <2>2, <2>3, <2>4 DEF TypeOK
<1>5. ASSUME NEW c \in leases, RenewLease(c) \/ ForgetLease(c)
      PROVE  TypeOK'
  <2>1. c.run \in Run
    BY DEF TypeOK, Lease
  <2>2. run' \in [Run -> RunRecord]
    BY <1>5, <1>1, <1>2, <2>1, RenewedType DEF RenewLease, ForgetLease, TypeOK
  <2> QED
    BY <1>5, <2>2 DEF RenewLease, ForgetLease, TypeOK
<1>6. ASSUME NEW r \in Run, NEW a \in Actor, NEW left \in Nat,
             NEW lease \in Token \cup {NoToken}, BeginExecution(r, a, left, lease)
      PROVE  TypeOK'
  <2> DEFINE viaLease == lease # NoToken
             version == run[r].version + 1
  <2>1. PICK t \in Token :
          /\ run' = [run EXCEPT ![r] = Executing(run[r], a, t, left)]
          /\ executions' = executions \cup
               {[run |-> r, by |-> a, token |-> t, version |-> version,
                 viaLease |-> viaLease, lease |-> lease, phase |-> "solving"]}
    BY <1>6 DEF BeginExecution, FreshExecutionToken
  <2>2. viaLease \in BOOLEAN /\ version \in Nat
    BY <1>1 DEF RunRecord
  <2> HIDE DEF viaLease, version
  <2>3. [run |-> r, by |-> a, token |-> t, version |-> version,
         viaLease |-> viaLease, lease |-> lease, phase |-> "solving"] \in Execution
    BY <2>2 DEF Execution
  <2>4. run' \in [Run -> RunRecord]
    BY <2>1, <1>1, <1>2, ExecutingType
  <2> QED
    BY <1>6, <2>1, <2>3, <2>4 DEF TypeOK, BeginExecution
<1>7. ASSUME NEW a \in Actor, NEW r \in Run, ExecuteDirect(a, r)
      PROVE  TypeOK'
  BY <1>6, <1>7, QueueAssumption DEF ExecuteDirect
<1>8. ASSUME NEW c \in leases, ExecuteWithLease(c)
      PROVE  TypeOK'
  <2>1. c.run \in Run /\ c.worker \in Actor /\ c.token \in Token
    BY DEF TypeOK, Lease
  <2>2. run[c.run].leaseLeft \in Nat
    BY <1>1, <2>1 DEF RunRecord
  <2> QED
    BY <1>6, <1>8, <2>1, <2>2 DEF ExecuteWithLease
<1>9. ASSUME NEW e \in executions, NEW v \in Verdict, NEW err \in BOOLEAN,
             Finalize(e, v, err)
      PROVE  TypeOK'
  <2>1. e \in Execution /\ e.run \in Run
    BY DEF TypeOK, Execution
  <2>2. run' \in [Run -> RunRecord]
    BY <1>9, <1>1, <1>2, <2>1, FinalizedType DEF Finalize
  <2> QED
    BY <1>9, <2>2 DEF TypeOK, Finalize
<1>10. ASSUME NEW e \in executions,
              RefuseFinalization(e) \/ FailFinalization(e) \/ Compensate(e)
       PROVE  TypeOK'
  <2>1. e \in Execution /\ e.run \in Run
    BY DEF TypeOK, Execution
  <2>2. run' \in [Run -> RunRecord]
    BY <1>10, <1>1, <1>2, <2>1, CompensatedType
       DEF RefuseFinalization, FailFinalization, Compensate, TypeOK
  <2>3. executions' \subseteq Execution
    BY <1>10, <2>1 DEF TypeOK, RefuseFinalization, FailFinalization, Compensate,
                      Execution
  <2> QED
    BY <1>10, <2>2, <2>3 DEF TypeOK, RefuseFinalization, FailFinalization, Compensate
<1>11. CASE ServerRestart
  BY <1>11 DEF TypeOK, ServerRestart
<1>12. CASE Tick
  BY <1>12, <1>1, AgedType DEF TypeOK, Tick
<1>13. CASE UNCHANGED vars
  BY <1>13 DEF TypeOK, vars
<1> QED
  BY <1>3, <1>4, <1>5, <1>7, <1>8, <1>9, <1>10, <1>11, <1>12, <1>13 DEF Next

\* Every run record, execution and lease always has its type.
THEOREM TypeCorrect == Spec => []TypeOK
<1>1. Init => TypeOK
  BY InitTypeOK
<1>2. TypeOK /\ [Next]_vars => TypeOK'
  BY NextTypeOK
<1> QED
  BY <1>1, <1>2, PTL DEF Spec

-----------------------------------------------------------------------------
(* The inductive invariant.  A record alone cannot violate the properties  *)
(* of the queue in one step when it satisfies RecordInv; the executions    *)
(* in flight only add that no two of them hold the same token.             *)

RecordInv(m) ==
  /\ m.exec # NoToken => m.status = "Running"
  /\ m.status = "Running" => m.worker # Nobody \/ m.exec # NoToken
  /\ m.status \in {"Absent", "Pending"} => m.worker = Nobody
  /\ m.exec # NoToken /\ m.worker # Nobody => m.execLeft = m.leaseLeft
  /\ m.finalized <= m.version
  /\ m.exec # NoToken => m.finalized < m.version

OneTokenEach ==
  \A e, f \in executions : e.token = f.token => e = f

IInv ==
  /\ TypeOK
  /\ \A r \in Run : RecordInv(run[r])
  /\ OneTokenEach

\* Each update keeps RecordInv under the guards of the actions that make it.
LEMMA PlannerUpdatesInv ==
  ASSUME NEW m \in RunRecord, RecordInv(m), NEW at, NEW skew, NEW limit, NEW attempts,
         NEW status \in {"Pending", "Queued"}
  PROVE  /\ m.status = "Absent" => RecordInv(Created(m, status, at, limit))
         /\ m.status = "Pending" => RecordInv(Enqueued(m, at, skew, limit))
         /\ m.status = "Pending" => RecordInv([m EXCEPT !.status = "Cancelled"])
         /\ m.status \in {"Failed", "DeadLetter"} =>
              RecordInv(Recovered(m, attempts, skew))
BY DEF RecordInv, RunRecord, Created, Enqueued, Recovered

LEMMA ClaimedInv ==
  ASSUME NEW m \in RunRecord, RecordInv(m), NEW w \in Actor, NEW t,
         Ready(m) \/ LeaseExpired(m)
  PROVE  RecordInv(Claimed(m, w, t))
BY QueueAssumption DEF RecordInv, RunRecord, Claimed, Ready, LeaseExpired

LEMMA RenewedInv ==
  ASSUME NEW m \in RunRecord, RecordInv(m)
  PROVE  RecordInv(Renewed(m))
BY DEF RecordInv, RunRecord, Renewed

LEMMA ExecutingInv ==
  ASSUME NEW m \in RunRecord, RecordInv(m), NEW a, NEW t \in Token, NEW left,
         \/ m.status = "Pending"
         \/ m.status = "Running" /\ left = m.leaseLeft
  PROVE  RecordInv(Executing(m, a, t, left))
BY QueueAssumption DEF RecordInv, RunRecord, Executing

LEMMA FinalizedInv ==
  ASSUME NEW m \in RunRecord, RecordInv(m), NEW e \in Execution,
         NEW v \in Verdict, NEW err \in BOOLEAN, e.version = m.version
  PROVE  RecordInv(Finalized(m, e, v, err))
<1> DEFINE status == FinalStatus(m, e.viaLease, v, err)
           n == Finalized(m, e, v, err)
<1>1. e.viaLease \in BOOLEAN
  BY DEF Execution
<1>2. status \in {"Completed", "Failed", "Queued", "DeadLetter"}
  BY <1>1, SolvedStatusType DEF FinalStatus
<1>3. /\ n.status = status /\ n.exec = NoToken
      /\ n.finalized = m.version /\ n.version = m.version
  BY DEF Finalized, RunRecord
<1>4. m.version \in Nat
  BY DEF RunRecord
<1> HIDE DEF status, n
<1>5. RecordInv(n)
  BY <1>2, <1>3, <1>4 DEF RecordInv
<1> QED
  BY <1>5 DEF n

LEMMA CompensatedInv ==
  ASSUME NEW m \in RunRecord, RecordInv(m)
  PROVE  RecordInv(Compensated(m))
BY DEF RecordInv, RunRecord, Compensated

LEMMA AgedInv ==
  ASSUME NEW m \in RunRecord, RecordInv(m)
  PROVE  RecordInv(Aged(m))
BY DEF RecordInv, RunRecord, Aged

LEMMA InitIInv == Init => IInv
BY InitTypeOK DEF Init, IInv, NewRun, RecordInv, OneTokenEach

\* IInv is preserved by every step.
LEMMA NextIInv == IInv /\ [Next]_vars => IInv'
<1> SUFFICES ASSUME IInv, [Next]_vars PROVE IInv'
  OBVIOUS
<1>1. TypeOK /\ TypeOK' /\ OneTokenEach
  BY NextTypeOK DEF IInv
<1>2. ASSUME NEW r \in Run PROVE run[r] \in RunRecord /\ RecordInv(run[r])
  BY DEF IInv, TypeOK
<1>3. ASSUME NEW r \in Run, NEW m, run' = [run EXCEPT ![r] = m], RecordInv(m)
      PROVE  \A q \in Run : RecordInv(run'[q])
  BY <1>1, <1>2, <1>3 DEF TypeOK
<1> DEFINE RecordsInv == \A q \in Run : RecordInv(run[q])
<1>4. ASSUME NEW r \in Run, Create(r) \/ Enqueue(r) \/ Cancel(r) \/ Recover(r)
      PROVE  RecordsInv' /\ OneTokenEach'
  <2>1. RecordsInv'
    <3>1. PICK m :
            /\ run' = [run EXCEPT ![r] = m]
            /\ \/ \E status \in {"Pending", "Queued"}, at \in Instant, limit \in AttemptLimit :
                    run[r].status = "Absent" /\ m = Created(run[r], status, at, limit)
               \/ \E at \in Instant, skew \in 0..MaxClientSkew, limit \in AttemptLimit :
                    run[r].status = "Pending" /\ m = Enqueued(run[r], at, skew, limit)
               \/ run[r].status = "Pending" /\ m = [run[r] EXCEPT !.status = "Cancelled"]
               \/ \E attempts \in {0, run[r].attempts}, skew \in 0..MaxClientSkew :
                    /\ run[r].status \in {"Failed", "DeadLetter"}
                    /\ m = Recovered(run[r], attempts, skew)
      BY <1>4 DEF Create, Enqueue, Cancel, Recover
    <3>2. RecordInv(m)
      <4>1. run[r] \in RunRecord /\ RecordInv(run[r])
        BY <1>2
      <4> DEFINE old == run[r]
      <4> HIDE DEF old
      <4>2. \A at, skew, limit, attempts : \A status \in {"Pending", "Queued"} :
              /\ old.status = "Absent" => RecordInv(Created(old, status, at, limit))
              /\ old.status = "Pending" => RecordInv(Enqueued(old, at, skew, limit))
              /\ old.status = "Pending" => RecordInv([old EXCEPT !.status = "Cancelled"])
              /\ old.status \in {"Failed", "DeadLetter"} =>
                   RecordInv(Recovered(old, attempts, skew))
        BY <4>1, PlannerUpdatesInv DEF old
      <4> QED
        BY <3>1, <4>2, Zenon DEF old
    <3> QED
      BY <1>3, <3>1, <3>2
  <2> QED
    BY <1>1, <1>4, <2>1 DEF OneTokenEach, Create, Enqueue, Cancel, Recover
<1>5. ASSUME NEW w \in Actor, ClaimNext(w) \/ \E r \in Run : ProcessQueued(w, r)
      PROVE  RecordsInv' /\ OneTokenEach'
  <2>1. PICK r \in Run, t \in Token :
          /\ run' = [run EXCEPT ![r] = Claimed(run[r], w, t)]
          /\ Ready(run[r]) \/ LeaseExpired(run[r])
    BY <1>5 DEF ClaimNext, ProcessQueued, NextInQueue, Claimable, FreshLeaseToken
  <2>2. RecordInv(Claimed(run[r], w, t))
    BY <1>2, <2>1, ClaimedInv
  <2> QED
    BY <1>1, <1>3, <1>5, <2>1, <2>2 DEF OneTokenEach, ClaimNext, ProcessQueued
<1>6. ASSUME NEW c \in leases, RenewLease(c) \/ ForgetLease(c)
      PROVE  RecordsInv' /\ OneTokenEach'
  <2>1. c.run \in Run
    BY <1>1 DEF TypeOK, Lease
  <2>2. RecordsInv'
    BY <1>2, <1>3, <1>6, <2>1, RenewedInv DEF RenewLease, ForgetLease
  <2> QED
    BY <1>1, <1>6, <2>2 DEF OneTokenEach, RenewLease, ForgetLease
<1>7. ASSUME NEW r \in Run, NEW a, NEW left, NEW lease,
             BeginExecution(r, a, left, lease),
             \/ run[r].status = "Pending"
             \/ run[r].status = "Running" /\ left = run[r].leaseLeft
      PROVE  RecordsInv' /\ OneTokenEach'
  <2>1. PICK t, version, viaLease :
          /\ t \in FreshExecutionToken
          /\ run' = [run EXCEPT ![r] = Executing(run[r], a, t, left)]
          /\ executions' = executions \cup
               {[run |-> r, by |-> a, token |-> t, version |-> version,
                 viaLease |-> viaLease, lease |-> lease, phase |-> "solving"]}
    BY <1>7 DEF BeginExecution
  <2>2. t \in Token /\ \A e \in executions : e.token # t
    BY <2>1 DEF FreshExecutionToken
  <2>3. RecordInv(Executing(run[r], a, t, left))
    BY <1>2, <1>7, <2>2, ExecutingInv
  <2>4. RecordsInv'
    BY <1>3, <2>1, <2>3
  <2>5. OneTokenEach'
    BY <1>1, <2>1, <2>2 DEF OneTokenEach
  <2> QED
    BY <2>4, <2>5
<1>8. ASSUME NEW a \in Actor, NEW r \in Run, ExecuteDirect(a, r)
      PROVE  RecordsInv' /\ OneTokenEach'
  BY <1>7, <1>8 DEF ExecuteDirect
<1>9. ASSUME NEW c \in leases, ExecuteWithLease(c)
      PROVE  RecordsInv' /\ OneTokenEach'
  <2>1. c.run \in Run
    BY <1>1 DEF TypeOK, Lease
  <2> QED
    BY <1>7, <1>9, <2>1 DEF ExecuteWithLease
<1>10. ASSUME NEW e \in executions, NEW v \in Verdict, NEW err \in BOOLEAN,
              Finalize(e, v, err)
       PROVE  RecordsInv' /\ OneTokenEach'
  <2>1. e \in Execution /\ e.run \in Run
    BY <1>1 DEF TypeOK, Execution
  <2>2. RecordInv(Finalized(run[e.run], e, v, err))
    BY <1>2, <1>10, <2>1, FinalizedInv DEF Finalize, OwnsExecution
  <2> QED
    BY <1>1, <1>3, <1>10, <2>1, <2>2 DEF Finalize, OneTokenEach
<1>11. ASSUME NEW e \in executions, RefuseFinalization(e) \/ FailFinalization(e)
       PROVE  RecordsInv' /\ OneTokenEach'
  <2>1. e \in Execution
    BY <1>1 DEF TypeOK
  <2>2. OneTokenEach'
    BY <1>1, <1>11, <2>1
       DEF OneTokenEach, RefuseFinalization, FailFinalization, Execution
  <2> QED
    BY <1>2, <1>11, <2>2 DEF RefuseFinalization, FailFinalization
<1>12. ASSUME NEW e \in executions, Compensate(e)
       PROVE  RecordsInv' /\ OneTokenEach'
  <2>1. e.run \in Run
    BY <1>1 DEF TypeOK, Execution
  <2>2. RecordsInv'
    BY <1>2, <1>3, <1>12, <2>1, CompensatedInv DEF Compensate
  <2> QED
    BY <1>1, <1>12, <2>2 DEF Compensate, OneTokenEach
<1>13. ASSUME ServerRestart PROVE RecordsInv' /\ OneTokenEach'
  BY <1>1, <1>2, <1>13 DEF ServerRestart, OneTokenEach
<1>14. ASSUME Tick PROVE RecordsInv' /\ OneTokenEach'
  BY <1>1, <1>2, <1>14, AgedInv DEF Tick, OneTokenEach
<1>15. ASSUME UNCHANGED vars PROVE RecordsInv' /\ OneTokenEach'
  BY <1>1, <1>2, <1>15 DEF vars, OneTokenEach
<1>16. RecordsInv' /\ OneTokenEach'
  BY <1>4, <1>5, <1>6, <1>8, <1>9, <1>10, <1>11, <1>12, <1>13, <1>14, <1>15 DEF Next
<1> QED
  BY <1>1, <1>16 DEF IInv

LEMMA InductiveInvariant == Spec => []IInv
<1>1. Init => IInv
  BY InitIInv
<1>2. IInv /\ [Next]_vars => IInv'
  BY NextIInv
<1> QED
  BY <1>1, <1>2, PTL DEF Spec

-----------------------------------------------------------------------------
(* The properties of the queue.                                            *)

\* A running run always has a lease or an execution claim to expire, and no
\* other run carries an execution claim.
THEOREM NoRunStranded == Spec => []NeverStranded
<1>1. IInv => NeverStranded
  BY DEF IInv, RecordInv, NeverStranded
<1> QED
  BY <1>1, InductiveInvariant, PTL

LEMMA RefusalMatchesExpiry == IInv => ReclaimableIffRefused
<1> SUFFICES ASSUME IInv, NEW e \in executions, OwnsExecution(e)
             PROVE  LeaseExpired(run[e.run]) <=> ~ClaimCurrent(e)
  BY DEF ReclaimableIffRefused
<1> DEFINE m == run[e.run]
<1>1. /\ e.run \in Run /\ e.token \in Token /\ e.by \in Actor
      /\ e.viaLease \in BOOLEAN
  BY DEF IInv, TypeOK, Execution
<1>2. m \in RunRecord /\ RecordInv(m)
  BY <1>1 DEF IInv, TypeOK
<1>3. m.status = "Running" /\ m.exec # NoToken /\ (e.viaLease => m.worker # Nobody)
  BY <1>1, QueueAssumption DEF OwnsExecution
<1>4. LeaseExpired(m) <=> IF m.worker # Nobody THEN m.leaseLeft = 0 ELSE m.execLeft = 0
  BY <1>3 DEF LeaseExpired
<1>5. ClaimCurrent(e) <=> m.execLeft > 0 /\ (e.viaLease => m.leaseLeft > 0)
  BY DEF ClaimCurrent
<1>6. m.execLeft \in Nat /\ m.leaseLeft \in Nat
  BY <1>2 DEF RunRecord
<1>7. m.worker # Nobody => m.execLeft = m.leaseLeft
  BY <1>2, <1>3 DEF RecordInv
<1> HIDE DEF m
<1> QED
  BY <1>1, <1>3, <1>4, <1>5, <1>6, <1>7 DEF m

\* Claim-next may take a run from the request that owns its execution exactly
\* when that request's finalization is refused.
THEOREM ExpiryTestsAgree == Spec => []ReclaimableIffRefused
BY RefusalMatchesExpiry, InductiveInvariant, PTL

\* Only a finalization changes the result of a run, and it is the latest claim's.
LEMMA ResultChange ==
  ASSUME IInv, [Next]_vars, NEW r \in Run, run'[r].finalized # run[r].finalized
  PROVE  \E e \in executions, v \in Verdict, err \in BOOLEAN :
           e.run = r /\ Finalize(e, v, err)
<1> USE DEF IInv, TypeOK
<1>1. ASSUME NEW q \in Run, NEW m, run' = [run EXCEPT ![q] = m],
             m.finalized = run[q].finalized
      PROVE  FALSE
  BY <1>1
<1>2. ASSUME NEW q \in Run, Create(q) \/ Enqueue(q) \/ Cancel(q) \/ Recover(q)
      PROVE  FALSE
  <2>1. run[q] \in RunRecord
    OBVIOUS
  <2> QED
    BY <1>1, <1>2, <2>1 DEF Create, Created, Enqueue, Enqueued, Cancel, Recover,
                            Recovered, RunRecord
<1>3. ASSUME NEW q \in Run, NEW w \in Actor, ClaimNext(w) \/ ProcessQueued(w, q)
      PROVE  FALSE
  <2>1. PICK s \in Run, t \in FreshLeaseToken : run' = [run EXCEPT ![s] = Claimed(run[s], w, t)]
    BY <1>3 DEF ClaimNext, ProcessQueued, NextInQueue
  <2>2. Claimed(run[s], w, t).finalized = run[s].finalized
    BY DEF Claimed, RunRecord
  <2> QED
    BY <1>1, <2>1, <2>2
<1>4. ASSUME NEW c \in leases, RenewLease(c) \/ ForgetLease(c)
      PROVE  FALSE
  <2>1. c.run \in Run /\ run[c.run] \in RunRecord
    BY DEF Lease
  <2>2. Renewed(run[c.run]).finalized = run[c.run].finalized
    BY <2>1 DEF Renewed, RunRecord
  <2> QED
    BY <1>1, <1>4, <2>1, <2>2 DEF RenewLease, ForgetLease
<1>5. ASSUME NEW q \in Run, NEW a, NEW left, NEW lease, BeginExecution(q, a, left, lease)
      PROVE  FALSE
  <2>1. PICK t : run' = [run EXCEPT ![q] = Executing(run[q], a, t, left)]
    BY <1>5 DEF BeginExecution
  <2>2. Executing(run[q], a, t, left).finalized = run[q].finalized
    BY DEF Executing, RunRecord
  <2> QED
    BY <1>1, <2>1, <2>2
<1>6. ASSUME NEW q \in Run, NEW a \in Actor, ExecuteDirect(a, q)
      PROVE  FALSE
  BY <1>5, <1>6 DEF ExecuteDirect
<1>7. ASSUME NEW c \in leases, ExecuteWithLease(c)
      PROVE  FALSE
  BY <1>5, <1>7 DEF ExecuteWithLease, Lease
<1>8. ASSUME NEW e \in executions, RefuseFinalization(e) \/ FailFinalization(e)
      PROVE  FALSE
  BY <1>8 DEF RefuseFinalization, FailFinalization
<1>9. ASSUME NEW e \in executions, Compensate(e)
      PROVE  FALSE
  <2>1. e.run \in Run /\ run[e.run] \in RunRecord
    BY DEF Execution
  <2>2. Compensated(run[e.run]).finalized = run[e.run].finalized
    BY <2>1 DEF Compensated, RunRecord
  <2> QED
    BY <1>1, <1>9, <2>1, <2>2 DEF Compensate
<1>10. ASSUME ServerRestart \/ UNCHANGED vars
       PROVE  FALSE
  BY <1>10 DEF ServerRestart, vars
<1>11. ASSUME Tick
       PROVE  FALSE
  <2>1. run'[r] = Aged(run[r])
    BY <1>11 DEF Tick
  <2> QED
    BY <2>1 DEF Aged, RunRecord
<1>12. ASSUME NEW e \in executions, NEW v \in Verdict, NEW err \in BOOLEAN,
              Finalize(e, v, err)
       PROVE  e.run = r
  BY <1>12 DEF Finalize, Execution
<1> QED
  BY <1>2, <1>3, <1>4, <1>6, <1>7, <1>8, <1>9, <1>10, <1>11, <1>12 DEF Next

\* A solver whose execution claim was superseded never writes its result, and
\* no claim writes twice.
THEOREM OnlyLatestClaimFinalizes == Spec => LatestClaimFinalizes
<1>1. ASSUME IInv, [Next]_vars, NEW r \in Run, run'[r].finalized # run[r].finalized
      PROVE  run'[r].finalized = run[r].version /\ run[r].finalized < run[r].version
  <2>1. PICK e \in executions, v \in Verdict, err \in BOOLEAN :
          e.run = r /\ Finalize(e, v, err)
    BY <1>1, ResultChange
  <2>2. e.version = run[r].version /\ run[r].exec = e.token
    BY <2>1 DEF Finalize, OwnsExecution
  <2>3. e.token \in Token /\ run[r] \in RunRecord
    BY <1>1 DEF IInv, TypeOK, Execution
  <2>4. run'[r].finalized = e.version
    BY <1>1, <2>1, <2>3 DEF Finalize, Finalized, RunRecord, IInv, TypeOK
  <2>5. run[r].finalized < run[r].version
    BY <1>1, <2>2, <2>3, QueueAssumption DEF IInv, RecordInv
  <2> QED
    BY <2>2, <2>4, <2>5
<1>2. IInv /\ [Next]_vars =>
        [\A r \in Run : run'[r].finalized # run[r].finalized =>
           run'[r].finalized = run[r].version /\ run[r].finalized < run[r].version]_vars
  BY <1>1
<1> QED
  BY <1>2, InductiveInvariant, PTL DEF Spec, LatestClaimFinalizes

\* While an execution owns its run and is current, no claim, recovery,
\* cancellation or other execution touches that run.
THEOREM OwnerUndisturbed == Spec => CurrentOwnerUndisturbed
<1> DEFINE Undisturbed(e) ==
      OwnsExecution(e) /\ ClaimCurrent(e) =>
         \/ run'[e.run].finalized = e.version
         \/ /\ run'[e.run].status = "Running"
            /\ run'[e.run].exec = e.token
            /\ run'[e.run].worker = run[e.run].worker
            /\ run'[e.run].lease = run[e.run].lease
         \/ e.phase = "compensating"
<1>1. ASSUME IInv, [Next]_vars, NEW e \in executions, OwnsExecution(e),
             ClaimCurrent(e), e.phase # "compensating"
      PROVE  \/ run'[e.run].finalized = e.version
             \/ /\ run'[e.run].status = "Running"
                /\ run'[e.run].exec = e.token
                /\ run'[e.run].worker = run[e.run].worker
                /\ run'[e.run].lease = run[e.run].lease
  <2> DEFINE m == run[e.run]
             Kept(n) == /\ n.status = "Running" /\ n.exec = e.token
                        /\ n.worker = m.worker /\ n.lease = m.lease
  <2> USE <1>1
  <2>1. e \in Execution /\ e.run \in Run /\ e.token \in Token /\ run \in [Run -> RunRecord]
    BY DEF IInv, TypeOK, Execution
  <2>2. m \in RunRecord /\ m.status = "Running" /\ m.exec = e.token /\ m.exec # NoToken
    BY <2>1, QueueAssumption DEF OwnsExecution
  <2>3. ~Claimable(e.run)
    BY <2>2, RefusalMatchesExpiry DEF ReclaimableIffRefused, Claimable, Ready
  <2>4. Kept(m)
    BY <2>2
  <2>5. ASSUME run'[e.run] = m PROVE Kept(run'[e.run])
    BY <2>4, <2>5
  <2>6. ASSUME NEW r \in Run, Create(r) \/ Enqueue(r) \/ Cancel(r) \/ Recover(r)
        PROVE  Kept(run'[e.run])
    <3>1. r # e.run
      BY <2>2, <2>6 DEF Create, Enqueue, Cancel, Recover
    <3> QED
      BY <2>1, <2>5, <2>6, <3>1 DEF Create, Enqueue, Cancel, Recover
  <2>7. ASSUME NEW w \in Actor, ClaimNext(w) \/ \E q \in Run : ProcessQueued(w, q)
        PROVE  Kept(run'[e.run])
    <3>1. PICK r \in Run, t \in FreshLeaseToken :
           Claimable(r) /\ run' = [run EXCEPT ![r] = Claimed(run[r], w, t)]
      BY <2>7 DEF ClaimNext, ProcessQueued, NextInQueue, Claimable
    <3> QED
      BY <2>1, <2>3, <2>5, <3>1
  <2>8. ASSUME NEW c \in leases, RenewLease(c) \/ ForgetLease(c)
        PROVE  Kept(run'[e.run])
    <3>1. Kept(Renewed(m))
      BY <2>2, <2>4 DEF Renewed, RunRecord
    <3> HIDE DEF Kept
    <3> QED
      BY <2>1, <2>4, <2>8, <3>1 DEF RenewLease, ForgetLease
  <2>9. ASSUME NEW r \in Run, NEW a, NEW left, NEW lease, BeginExecution(r, a, left, lease)
        PROVE  Kept(run'[e.run])
    BY <2>1, <2>2, <2>5, <2>9 DEF BeginExecution
  <2>10. ASSUME NEW r \in Run, NEW a \in Actor, ExecuteDirect(a, r)
         PROVE  Kept(run'[e.run])
    BY <2>9, <2>10 DEF ExecuteDirect
  <2>11. ASSUME NEW c \in leases, ExecuteWithLease(c)
         PROVE  Kept(run'[e.run])
    BY <2>9, <2>11 DEF ExecuteWithLease, IInv, TypeOK, Lease
  <2>12. ASSUME NEW f \in executions, NEW v \in Verdict, NEW err \in BOOLEAN,
                Finalize(f, v, err)
         PROVE  Kept(run'[e.run]) \/ run'[e.run].finalized = e.version
    <3>1. CASE f = e
      BY <2>1, <2>2, <2>12, <3>1 DEF Finalize, Finalized, RunRecord
    <3>2. CASE f # e
      <4>1. f.run # e.run
        BY <2>2, <2>12, <3>2 DEF Finalize, OwnsExecution, IInv, OneTokenEach
      <4> QED
        BY <2>1, <2>5, <2>12, <4>1 DEF Finalize
    <3> QED
      BY <3>1, <3>2
  <2>13. ASSUME NEW f \in executions, RefuseFinalization(f) \/ FailFinalization(f)
         PROVE  Kept(run'[e.run])
    BY <2>5, <2>13 DEF RefuseFinalization, FailFinalization
  <2>14. ASSUME NEW f \in executions, Compensate(f)
         PROVE  Kept(run'[e.run])
    <3>1. f.run # e.run \/ run' = run
      BY <2>2, <2>14 DEF Compensate, OwnsExecution, IInv, OneTokenEach
    <3> QED
      BY <2>1, <2>5, <2>14, <3>1 DEF Compensate
  <2>15. ASSUME ServerRestart \/ UNCHANGED vars
         PROVE  Kept(run'[e.run])
    BY <2>5, <2>15 DEF ServerRestart, vars
  <2>16. ASSUME Tick
         PROVE  Kept(run'[e.run])
    <3>1. Kept(Aged(m))
      BY <2>2, <2>4 DEF Aged, RunRecord
    <3> HIDE DEF Kept
    <3> QED
      BY <2>1, <2>16, <3>1 DEF Tick
  <2> HIDE DEF Kept, m
  <2>17. Kept(run'[e.run]) \/ run'[e.run].finalized = e.version
    BY Zenon, <2>6, <2>7, <2>8, <2>10, <2>11, <2>12, <2>13, <2>14, <2>15, <2>16 DEF Next
  <2> QED
    BY <2>17 DEF Kept, m
<1>2. IInv /\ [Next]_vars => [\A e \in executions : Undisturbed(e)]_vars
  BY <1>1
<1> QED
  BY <1>2, InductiveInvariant, PTL DEF Spec, CurrentOwnerUndisturbed

-----------------------------------------------------------------------------
(* The queue implements ExclusiveExecution.                                *)

phaseBar == [r \in Run |-> Phase(run[r])]
epochBar == [r \in Run |-> run[r].version]
resultBar == [r \in Run |-> run[r].finalized]

\* What replacing one record does to the three abstract variables.
LEMMA BarStep ==
  ASSUME TypeOK, NEW r \in Run, NEW m, run' = [run EXCEPT ![r] = m]
  PROVE  /\ phaseBar' = [phaseBar EXCEPT ![r] = Phase(m)]
         /\ epochBar' = [epochBar EXCEPT ![r] = m.version]
         /\ resultBar' = [resultBar EXCEPT ![r] = m.finalized]
BY DEF TypeOK, phaseBar, epochBar, resultBar

LEMMA BarStutter ==
  ASSUME TypeOK, NEW r \in Run, NEW m, run' = [run EXCEPT ![r] = m],
         Phase(m) = Phase(run[r]), m.version = run[r].version,
         m.finalized = run[r].finalized
  PROVE  phaseBar' = phaseBar /\ epochBar' = epochBar /\ resultBar' = resultBar
BY BarStep DEF phaseBar, epochBar, resultBar

\* Every step of the queue is a step of ExclusiveExecution or leaves its
\* variables unchanged.
LEMMA StepRefines ==
  ASSUME IInv, [Next]_vars
  PROVE  [Exclusive!Next]_(Exclusive!vars)
<1> DEFINE Stutter == phaseBar' = phaseBar /\ epochBar' = epochBar /\ resultBar' = resultBar
           Goal == Stutter \/ Exclusive!Next
<1> USE DEF phaseBar, epochBar, resultBar
<1>1. TypeOK /\ run \in [Run -> RunRecord]
  BY DEF IInv, TypeOK
<1>2. ASSUME NEW r \in Run PROVE run[r] \in RunRecord /\ RecordInv(run[r])
  BY DEF IInv, TypeOK
<1>3. ASSUME run' = run PROVE Goal
  BY <1>3
<1>4. ASSUME NEW r \in Run, Create(r) \/ Enqueue(r)
      PROVE  Goal
  <2>1. PICK m :
          /\ run' = [run EXCEPT ![r] = m]
          /\ m.version = run[r].version /\ m.finalized = run[r].finalized
          /\ m.exec = run[r].exec /\ m.status \in {"Pending", "Queued"}
    <3>1. CASE Create(r)
      <4>1. PICK status \in {"Pending", "Queued"}, at \in Instant, limit \in AttemptLimit :
              run' = [run EXCEPT ![r] = Created(run[r], status, at, limit)]
        BY <3>1 DEF Create
      <4> DEFINE m == Created(run[r], status, at, limit)
      <4>2. /\ m.version = run[r].version /\ m.finalized = run[r].finalized
            /\ m.exec = run[r].exec /\ m.status \in {"Pending", "Queued"}
        BY <1>2 DEF Created, RunRecord
      <4> QED
        BY <4>1, <4>2
    <3>2. CASE Enqueue(r)
      <4>1. PICK at \in Instant, skew \in 0..MaxClientSkew, limit \in AttemptLimit :
              run' = [run EXCEPT ![r] = Enqueued(run[r], at, skew, limit)]
        BY <3>2 DEF Enqueue
      <4>2. /\ Enqueued(run[r], at, skew, limit).version = run[r].version
            /\ Enqueued(run[r], at, skew, limit).finalized = run[r].finalized
            /\ Enqueued(run[r], at, skew, limit).exec = run[r].exec
            /\ Enqueued(run[r], at, skew, limit).status = "Queued"
        BY <1>2 DEF Enqueued, RunRecord
      <4> QED
        BY <4>1, <4>2
    <3> QED
      BY <1>4, <3>1, <3>2
  <2>2. run[r].exec = NoToken /\ run[r].status \in {"Absent", "Pending"}
    BY <1>2, <1>4 DEF Create, Enqueue, RecordInv
  <2>3. Phase(m) = Phase(run[r])
    BY <2>1, <2>2 DEF Phase
  <2> QED
    BY <1>1, <2>1, <2>3, BarStutter
<1>5. ASSUME NEW r \in Run, Cancel(r)
      PROVE  Goal
  <2> DEFINE m == [run[r] EXCEPT !.status = "Cancelled"]
  <2>1. run' = [run EXCEPT ![r] = m] /\ run[r].status = "Pending"
    BY <1>5 DEF Cancel
  <2>2. run[r].exec = NoToken
    BY <1>2, <2>1 DEF RecordInv
  <2>3. /\ m.version = run[r].version /\ m.finalized = run[r].finalized
        /\ m.exec = NoToken /\ m.status = "Cancelled"
    BY <1>2, <2>2 DEF RunRecord
  <2> HIDE DEF m
  <2>4. Phase(run[r]) = "waiting" /\ Phase(m) = "final"
    BY <2>1, <2>2, <2>3 DEF Phase
  <2>5. Exclusive!Withdraw(r)
    BY <1>1, <2>1, <2>3, <2>4, BarStep DEF Exclusive!Withdraw, Exclusive!Move
  <2> QED
    BY <2>5 DEF Exclusive!Next
<1>6. ASSUME NEW r \in Run, Recover(r)
      PROVE  Goal
  <2>1. PICK m :
          /\ run' = [run EXCEPT ![r] = m]
          /\ m.version = run[r].version /\ m.finalized = run[r].finalized
          /\ m.exec = NoToken /\ m.status = "Queued"
    <3>1. PICK attempts, skew : run' = [run EXCEPT ![r] = Recovered(run[r], attempts, skew)]
      BY <1>6 DEF Recover
    <3>2. /\ Recovered(run[r], attempts, skew).version = run[r].version
          /\ Recovered(run[r], attempts, skew).finalized = run[r].finalized
          /\ Recovered(run[r], attempts, skew).exec = NoToken
          /\ Recovered(run[r], attempts, skew).status = "Queued"
      BY <1>2 DEF Recovered, RunRecord
    <3> QED
      BY <3>1, <3>2
  <2>2. run[r].exec = NoToken /\ run[r].status \in {"Failed", "DeadLetter"}
    BY <1>2, <1>6 DEF Recover, RecordInv
  <2>3. Phase(run[r]) = "failed" /\ Phase(m) = "waiting"
    BY <2>1, <2>2 DEF Phase
  <2>4. Exclusive!Reopen(r)
    BY <1>1, <2>1, <2>3, BarStep DEF Exclusive!Reopen, Exclusive!Move
  <2> QED
    BY <2>4 DEF Exclusive!Next
<1>7. ASSUME NEW w \in Actor, ClaimNext(w) \/ \E q \in Run : ProcessQueued(w, q)
      PROVE  Goal
  <2>1. PICK r \in Run, t \in FreshLeaseToken :
         Claimable(r) /\ run' = [run EXCEPT ![r] = Claimed(run[r], w, t)]
    BY <1>7 DEF ClaimNext, ProcessQueued, NextInQueue, Claimable
  <2> DEFINE m == Claimed(run[r], w, t)
  <2>2. run[r].status \in {"Queued", "Running"}
    BY <2>1 DEF Claimable, Ready, LeaseExpired
  <2>3. /\ m.version = run[r].version /\ m.finalized = run[r].finalized
        /\ m.exec = NoToken /\ m.status = "Running"
    BY <1>2, <2>2 DEF Claimed, RunRecord, RecordInv
  <2>4. run' = [run EXCEPT ![r] = m]
    BY <2>1
  <2> HIDE DEF m
  <2>5. Phase(m) = "waiting" /\ Phase(run[r]) \in {"waiting", "executing"}
    BY <2>2, <2>3 DEF Phase
  <2>6. CASE Phase(run[r]) = "waiting"
    BY <1>1, <2>3, <2>4, <2>5, <2>6, BarStutter
  <2>7. CASE Phase(run[r]) = "executing"
    <3>1. Exclusive!Abandon(r)
      BY <1>1, <2>3, <2>4, <2>5, <2>7, BarStep DEF Exclusive!Abandon, Exclusive!Move
    <3> QED
      BY <3>1 DEF Exclusive!Next
  <2> QED
    BY <2>5, <2>6, <2>7
<1>8. ASSUME NEW c \in leases, RenewLease(c)
      PROVE  Goal
  <2> DEFINE r == c.run
             m == Renewed(run[r])
  <2>1. r \in Run
    BY <1>1 DEF TypeOK, Lease
  <2>2. /\ m.version = run[r].version /\ m.finalized = run[r].finalized
        /\ m.exec = run[r].exec /\ m.status = run[r].status
    BY <1>2, <2>1 DEF Renewed, RunRecord
  <2>3. run' = [run EXCEPT ![r] = m]
    BY <1>8 DEF RenewLease
  <2> HIDE DEF m, r
  <2>4. Phase(m) = Phase(run[r])
    BY <2>2 DEF Phase
  <2> QED
    BY <1>1, <2>1, <2>2, <2>3, <2>4, BarStutter
<1>9. ASSUME NEW r \in Run, NEW a, NEW left, NEW lease, BeginExecution(r, a, left, lease),
             run[r].status \in {"Pending", "Running"}
      PROVE  Goal
  <2>1. PICK t \in Token : run' = [run EXCEPT ![r] = Executing(run[r], a, t, left)]
    BY <1>9 DEF BeginExecution, FreshExecutionToken
  <2> DEFINE m == Executing(run[r], a, t, left)
  <2>2. /\ m.version = run[r].version + 1 /\ m.finalized = run[r].finalized
        /\ m.exec = t /\ t # NoToken
    BY <1>2, QueueAssumption DEF Executing, RunRecord
  <2>3. run[r].exec = NoToken
    BY <1>9 DEF BeginExecution
  <2>4. run' = [run EXCEPT ![r] = m]
    BY <2>1
  <2> HIDE DEF m
  <2>5. Phase(m) = "executing" /\ Phase(run[r]) = "waiting"
    BY <1>9, <2>2, <2>3 DEF Phase
  <2>6. Exclusive!Begin(r)
    BY <1>1, <2>2, <2>4, <2>5, BarStep DEF Exclusive!Begin, Exclusive!Move
  <2> QED
    BY <2>6 DEF Exclusive!Next
<1>10. ASSUME NEW a \in Actor, NEW r \in Run, ExecuteDirect(a, r)
       PROVE  Goal
  BY <1>9, <1>10 DEF ExecuteDirect
<1>11. ASSUME NEW c \in leases, ExecuteWithLease(c)
       PROVE  Goal
  BY <1>1, <1>9, <1>11 DEF ExecuteWithLease, TypeOK, Lease
<1>12. ASSUME NEW e \in executions, NEW v \in Verdict, NEW err \in BOOLEAN,
              Finalize(e, v, err)
       PROVE  Goal
  <2> DEFINE r == e.run
             m == Finalized(run[r], e, v, err)
  <2>1. r \in Run /\ e.token \in Token /\ e.viaLease \in BOOLEAN
    BY <1>1 DEF TypeOK, Execution
  <2>2. /\ run[r].exec = e.token /\ run[r].exec # NoToken
        /\ e.version = run[r].version
    BY <1>12, <2>1, QueueAssumption DEF Finalize, OwnsExecution
  <2>3. /\ m.version = run[r].version /\ m.finalized = run[r].version
        /\ m.exec = NoToken /\ m.status = FinalStatus(run[r], e.viaLease, v, err)
    BY <1>2, <2>1, <2>2 DEF Finalized, RunRecord
  <2>4. m.status \in {"Completed", "Failed", "Queued", "DeadLetter"}
    BY <2>1, <2>3, SolvedStatusType DEF FinalStatus
  <2>5. run[r].finalized < run[r].version
    BY <1>2, <2>1, <2>2 DEF RecordInv
  <2>6. run' = [run EXCEPT ![r] = m]
    BY <1>12 DEF Finalize
  <2> HIDE DEF m, r
  <2>7. Phase(run[r]) = "executing" /\ Phase(m) \in {"waiting", "failed", "final"}
    BY <2>2, <2>3, <2>4 DEF Phase
  <2>8. Exclusive!Settle(r)
    BY <1>1, <2>1, <2>3, <2>5, <2>6, <2>7, BarStep DEF Exclusive!Settle, Exclusive!Move
  <2> QED
    BY <2>1, <2>8 DEF Exclusive!Next
<1>13. ASSUME NEW e \in executions, Compensate(e)
       PROVE  Goal
  <2> DEFINE r == e.run
             m == Compensated(run[r])
  <2>1. r \in Run /\ e.token \in Token
    BY <1>1 DEF TypeOK, Execution
  <2>2. CASE run' = run
    BY <1>3, <2>2
  <2>3. CASE OwnsExecution(e) /\ run' = [run EXCEPT ![r] = m]
    <3>1. run[r].exec # NoToken /\ run' = [run EXCEPT ![r] = m]
      BY <2>1, <2>3, QueueAssumption DEF OwnsExecution
    <3>2. /\ m.version = run[r].version /\ m.finalized = run[r].finalized
          /\ m.exec = NoToken /\ m.status = "Failed"
      BY <1>2, <2>1 DEF Compensated, RunRecord
    <3> HIDE DEF m, r
    <3>3. Phase(run[r]) = "executing" /\ Phase(m) = "failed"
      BY <3>1, <3>2 DEF Phase
    <3>4. Exclusive!Abandon(r)
      BY <1>1, <2>1, <3>1, <3>2, <3>3, BarStep DEF Exclusive!Abandon, Exclusive!Move
    <3> QED
      BY <2>1, <3>4 DEF Exclusive!Next
  <2> QED
    BY <1>13, <2>2, <2>3 DEF Compensate
<1>14. ASSUME Tick
       PROVE  Goal
  <2>1. ASSUME NEW r \in Run
        PROVE  /\ run'[r].version = run[r].version
               /\ run'[r].finalized = run[r].finalized
               /\ Phase(run'[r]) = Phase(run[r])
    <3>1. run'[r] = Aged(run[r])
      BY <1>14 DEF Tick
    <3> QED
      BY <1>2, <3>1 DEF Aged, RunRecord, Phase
  <2> QED
    BY <2>1
<1>15. ASSUME NEW e \in executions, RefuseFinalization(e) \/ FailFinalization(e)
       PROVE  Goal
  BY <1>3, <1>15 DEF RefuseFinalization, FailFinalization
<1>16. ASSUME NEW c \in leases, ForgetLease(c)
       PROVE  Goal
  BY <1>3, <1>16 DEF ForgetLease
<1>17. ASSUME ServerRestart \/ UNCHANGED vars
       PROVE  Goal
  BY <1>3, <1>17 DEF ServerRestart, vars
<1> HIDE DEF Goal
<1>18. Goal
  BY <1>4, <1>5, <1>6, <1>7, <1>8, <1>10, <1>11, <1>12, <1>13, <1>14, <1>15,
     <1>16, <1>17 DEF Next
<1> QED
  BY <1>18 DEF Goal, Exclusive!vars

\* Executions of a run are one at a time, each writes at most one result, and
\* a completed or cancelled run is never reopened.
THEOREM ImplementsExclusive == Spec => ImplementsExclusiveExecution
<1>1. Init => Exclusive!Init
  BY QueueAssumption DEF Init, Exclusive!Init, NewRun, Phase
<1>2. IInv /\ [Next]_vars => [Exclusive!Next]_(Exclusive!vars)
  BY StepRefines
<1> QED
  BY <1>1, <1>2, InductiveInvariant, PTL DEF Spec, ImplementsExclusiveExecution, Exclusive!Spec

-----------------------------------------------------------------------------
(* The queue implements RunLifecycle.                                      *)

statusBar == [r \in Run |-> run[r].status]

Allowed(from, to) ==
  \/ from = to
  \/ from = "Absent" /\ to \in {"Pending", "Queued"}
  \/ from = "Pending" /\ to \in {"Queued", "Cancelled", "Running"}
  \/ from = "Queued" /\ to = "Running"
  \/ from = "Running" /\ to \in {"Completed", "Failed", "DeadLetter", "Queued"}
  \/ from \in {"Failed", "DeadLetter"} /\ to = "Queued"

\* An allowed change of one status is a step of RunLifecycle.
LEMMA AllowedStep ==
  ASSUME TypeOK, NEW r \in Run, NEW m, run' = [run EXCEPT ![r] = m],
         Allowed(run[r].status, m.status)
  PROVE  [Lifecycle!Next]_statusBar
<1>1. statusBar' = [statusBar EXCEPT ![r] = m.status] /\ statusBar[r] = run[r].status
  BY DEF TypeOK, statusBar
<1>2. CASE run[r].status = m.status
  BY <1>1, <1>2 DEF statusBar
<1>3. CASE run[r].status # m.status
  <2>1. \/ \E s \in Lifecycle!Status : Lifecycle!Create(r, s) \/ Lifecycle!Finish(r, s)
        \/ Lifecycle!Enqueue(r) \/ Lifecycle!Cancel(r) \/ Lifecycle!Begin(r)
        \/ Lifecycle!Recover(r)
    BY <1>1, <1>3
    DEF Allowed, statusBar, Lifecycle!Status, Lifecycle!Create, Lifecycle!Finish,
        Lifecycle!Enqueue, Lifecycle!Cancel, Lifecycle!Begin, Lifecycle!Recover,
        Lifecycle!Become
  <2> QED
    BY <2>1 DEF Lifecycle!Next
<1> QED
  BY <1>2, <1>3

LEMMA StepFollowsLifecycle ==
  ASSUME IInv, [Next]_vars
  PROVE  [Lifecycle!Next]_statusBar
<1> DEFINE Goal == [Lifecycle!Next]_statusBar
<1>1. TypeOK /\ \A r \in Run : run[r] \in RunRecord
  BY DEF IInv, TypeOK
<1>2. ASSUME run' = run PROVE Goal
  BY <1>2 DEF statusBar
<1>3. ASSUME NEW r \in Run, Create(r)
      PROVE  Goal
  <2>1. PICK status \in {"Pending", "Queued"}, at \in Instant, limit \in AttemptLimit :
          run' = [run EXCEPT ![r] = Created(run[r], status, at, limit)]
    BY <1>3 DEF Create
  <2>2. Created(run[r], status, at, limit).status = status /\ run[r].status = "Absent"
    BY <1>1, <1>3 DEF Create, Created, RunRecord
  <2> QED
    BY <1>1, <2>1, <2>2, AllowedStep DEF Allowed
<1>4. ASSUME NEW r \in Run, Enqueue(r)
      PROVE  Goal
  <2>1. PICK at \in Instant, skew \in 0..MaxClientSkew, limit \in AttemptLimit :
          run' = [run EXCEPT ![r] = Enqueued(run[r], at, skew, limit)]
    BY <1>4 DEF Enqueue
  <2>2. Enqueued(run[r], at, skew, limit).status = "Queued" /\ run[r].status = "Pending"
    BY <1>1, <1>4 DEF Enqueue, Enqueued, RunRecord
  <2> QED
    BY <1>1, <2>1, <2>2, AllowedStep DEF Allowed
<1>5. ASSUME NEW r \in Run, Cancel(r)
      PROVE  Goal
  <2> DEFINE m == [run[r] EXCEPT !.status = "Cancelled"]
  <2>1. run' = [run EXCEPT ![r] = m] /\ run[r].status = "Pending" /\ m.status = "Cancelled"
    BY <1>1, <1>5 DEF Cancel, RunRecord
  <2> QED
    BY <1>1, <2>1, AllowedStep DEF Allowed
<1>6. ASSUME NEW r \in Run, Recover(r)
      PROVE  Goal
  <2>1. PICK attempts, skew : run' = [run EXCEPT ![r] = Recovered(run[r], attempts, skew)]
    BY <1>6 DEF Recover
  <2>2. /\ Recovered(run[r], attempts, skew).status = "Queued"
        /\ run[r].status \in {"Failed", "DeadLetter"}
    BY <1>1, <1>6 DEF Recover, Recovered, RunRecord
  <2> QED
    BY <1>1, <2>1, <2>2, AllowedStep DEF Allowed
<1>7. ASSUME NEW w \in Actor, ClaimNext(w) \/ \E q \in Run : ProcessQueued(w, q)
      PROVE  Goal
  <2>1. PICK r \in Run, t \in FreshLeaseToken :
         Claimable(r) /\ run' = [run EXCEPT ![r] = Claimed(run[r], w, t)]
    BY <1>7 DEF ClaimNext, ProcessQueued, NextInQueue, Claimable
  <2>2. /\ Claimed(run[r], w, t).status = "Running"
        /\ run[r].status \in {"Queued", "Running"}
    BY <1>1, <2>1 DEF Claimable, Ready, LeaseExpired, Claimed, RunRecord
  <2> QED
    BY <1>1, <2>1, <2>2, AllowedStep DEF Allowed
<1>8. ASSUME NEW c \in leases, RenewLease(c)
      PROVE  Goal
  <2>1. c.run \in Run /\ run' = [run EXCEPT ![c.run] = Renewed(run[c.run])]
    BY <1>1, <1>8 DEF RenewLease, TypeOK, Lease
  <2>2. Renewed(run[c.run]).status = run[c.run].status
    BY <1>1, <2>1 DEF Renewed, RunRecord
  <2> QED
    BY <1>1, <2>1, <2>2, AllowedStep DEF Allowed
<1>9. ASSUME NEW r \in Run, NEW a, NEW left, NEW lease, BeginExecution(r, a, left, lease),
             run[r].status \in {"Pending", "Running"}
      PROVE  Goal
  <2>1. PICK t \in Token : run' = [run EXCEPT ![r] = Executing(run[r], a, t, left)]
    BY <1>9 DEF BeginExecution, FreshExecutionToken
  <2>2. Executing(run[r], a, t, left).status = "Running"
    BY <1>1 DEF Executing, RunRecord
  <2> QED
    BY <1>1, <1>9, <2>1, <2>2, AllowedStep DEF Allowed
<1>10. ASSUME NEW a \in Actor, NEW r \in Run, ExecuteDirect(a, r)
       PROVE  Goal
  BY <1>9, <1>10 DEF ExecuteDirect
<1>11. ASSUME NEW c \in leases, ExecuteWithLease(c)
       PROVE  Goal
  BY <1>1, <1>9, <1>11 DEF ExecuteWithLease, TypeOK, Lease
<1>12. ASSUME NEW e \in executions, NEW v \in Verdict, NEW err \in BOOLEAN,
              Finalize(e, v, err)
       PROVE  Goal
  <2> DEFINE r == e.run
             m == Finalized(run[r], e, v, err)
  <2>1. r \in Run /\ e.viaLease \in BOOLEAN /\ run' = [run EXCEPT ![r] = m]
    BY <1>1, <1>12 DEF TypeOK, Execution, Finalize
  <2>2. m.status = FinalStatus(run[r], e.viaLease, v, err) /\ run[r].status = "Running"
    BY <1>1, <1>12, <2>1 DEF Finalize, OwnsExecution, Finalized, RunRecord
  <2>3. m.status \in {"Completed", "Failed", "Queued", "DeadLetter"}
    BY <2>1, <2>2, SolvedStatusType DEF FinalStatus
  <2> HIDE DEF m, r
  <2> QED
    BY <1>1, <2>1, <2>2, <2>3, AllowedStep DEF Allowed
<1>13. ASSUME NEW e \in executions, Compensate(e)
       PROVE  Goal
  <2> DEFINE r == e.run
             m == Compensated(run[r])
  <2>1. r \in Run
    BY <1>1 DEF TypeOK, Execution
  <2>2. CASE run' = run
    BY <1>2, <2>2
  <2>3. CASE OwnsExecution(e) /\ run' = [run EXCEPT ![r] = m]
    <3>1. run[r].status = "Running" /\ m.status = "Failed" /\ run' = [run EXCEPT ![r] = m]
      BY <1>1, <2>1, <2>3 DEF OwnsExecution, Compensated, RunRecord
    <3> HIDE DEF m, r
    <3> QED
      BY <1>1, <2>1, <3>1, AllowedStep DEF Allowed
  <2> QED
    BY <1>13, <2>2, <2>3 DEF Compensate
<1>14. ASSUME Tick
       PROVE  Goal
  <2>1. ASSUME NEW r \in Run
        PROVE  run'[r].status = run[r].status
    <3>1. run'[r] = Aged(run[r])
      BY <1>14 DEF Tick
    <3> QED
      BY <1>1, <3>1 DEF Aged, RunRecord
  <2> QED
    BY <2>1 DEF statusBar
<1>15. ASSUME \/ ServerRestart \/ UNCHANGED vars
              \/ \E e \in executions : RefuseFinalization(e) \/ FailFinalization(e)
              \/ \E c \in leases : ForgetLease(c)
       PROVE  Goal
  BY <1>2, <1>15 DEF ServerRestart, vars, RefuseFinalization, FailFinalization, ForgetLease
<1> HIDE DEF Goal
<1>16. Goal
  BY <1>3, <1>4, <1>5, <1>6, <1>7, <1>8, <1>10, <1>11, <1>12, <1>13, <1>14, <1>15 DEF Next
<1> QED
  BY <1>16 DEF Goal

\* Runs change their status only as RunLifecycle says.
THEOREM FollowsLifecycle == Spec => ImplementsRunLifecycle
<1>1. Init => Lifecycle!Init
  BY DEF Init, Lifecycle!Init, NewRun
<1>2. IInv /\ [Next]_vars => [Lifecycle!Next]_statusBar
  BY StepFollowsLifecycle
<1> QED
  BY <1>1, <1>2, InductiveInvariant, PTL
  DEF Spec, ImplementsRunLifecycle, Lifecycle!Spec, statusBar
=============================================================================
