------------------------ MODULE PlanningWorkerProofs ------------------------
(* Theorems about PlanningWorker for every value of its constants.          *)
EXTENDS PlanningWorker, PlanningRunQueueProofs, FiniteSetTheorems

-----------------------------------------------------------------------------
(* The inductive invariant: what a thread, a lease and a worker may rely    *)
(* on, over the invariant of the queue.                                     *)

\* A lease has left at least what the renewals have not used of its length.
\* Nothing is said of the run's status: the queue never gives a lease back.
Covered(b, m) ==
  ~b.stop /\ m.lease = b.lease.token =>
    m.leaseLeft >= LeaseSeconds - HeartbeatSeconds + b.left

WorkersLease(c) == c \in leases /\ ~c.interactive

BeatInv(b) == b \in Heartbeat /\ WorkersLease(b.lease) /\ Covered(b, run[b.lease.run])

LeaseInv == \A c \in leases : c.interactive => c.worker \in Planner
OwnerInv(m) == m.lease # NoToken => m.worker # Nobody

SolvesNothing(w) == \A e \in executions : e.by # w

\* A worker that has not sent its request, or has the plan, has no solver.
ProcessInv(w) ==
  LET p == proc[w]
  IN  /\ \A c \in p.held : WorkersLease(c) /\ c.worker = w
      /\ p.phase \in {"polling", "claimed"} => p.answer = NoAnswer /\ SolvesNothing(w)
      /\ p.phase = "executing" /\ p.answer = "ok" => SolvesNothing(w)
      /\ \A e, f \in executions : e.by = w /\ f.by = w => e = f
      /\ \A e \in executions : e.by = w => e.viaLease

WInv ==
  /\ IInv
  /\ proc \in [Worker -> Process]
  /\ \A r \in Run : OwnerInv(run[r])
  /\ LeaseInv
  /\ \A b \in beats : BeatInv(b)
  /\ \A w \in Worker : ProcessInv(w)

-----------------------------------------------------------------------------
(* The updates of a record that leave its lease alone or give it up.        *)

Kept(m, n) ==
  n.lease # NoToken =>
    n.lease = m.lease /\ n.leaseLeft = m.leaseLeft /\ n.worker = m.worker

LEMMA KeptCovered ==
  ASSUME NEW b \in Heartbeat, NEW m, NEW n, Kept(m, n), Covered(b, m)
  PROVE  Covered(b, n)
<1>1. b.lease.token # NoToken
  BY QueueAssumption DEF Heartbeat, Lease
<1> QED
  BY <1>1 DEF Kept, Covered

LEMMA KeptOwned ==
  ASSUME NEW m, NEW n, Kept(m, n), OwnerInv(m)
  PROVE  OwnerInv(n)
BY DEF Kept, OwnerInv

LEMMA UpdatesKeep ==
  ASSUME NEW m \in RunRecord
  PROVE  /\ \A status, at, limit : Kept(m, Created(m, status, at, limit))
         /\ \A at, skew, limit : Kept(m, Enqueued(m, at, skew, limit))
         /\ Kept(m, [m EXCEPT !.status = "Cancelled"])
         /\ \A attempts, skew : Kept(m, Recovered(m, attempts, skew))
         /\ \A a, t, left : Kept(m, Executing(m, a, t, left))
         /\ Kept(m, Compensated(m))
BY DEF RunRecord, Kept, Created, Enqueued, Recovered, Executing, Compensated

LEMMA FinalizedKeeps ==
  ASSUME NEW m \in RunRecord, NEW e, NEW v, NEW err
  PROVE  Kept(m, Finalized(m, e, v, err))
<1> DEFINE policy == e.viaLease /\ SolvedStatus(m, e.viaLease, v) # "Completed"
           n == Finalized(m, e, v, err)
<1>1. /\ n.lease = IF policy THEN NoToken ELSE m.lease
      /\ n.leaseLeft = IF policy THEN 0 ELSE m.leaseLeft
      /\ n.worker = m.worker
  BY DEF Finalized, RunRecord
<1> HIDE DEF n, policy
<1>2. Kept(m, n)
  BY <1>1 DEF Kept
<1> QED
  BY <1>2 DEF n

\* The steps of the queue that are neither a claim, a renewal nor a tick.
QuietStep ==
  \/ \E r \in Run : Create(r) \/ Enqueue(r) \/ Cancel(r) \/ Recover(r)
  \/ \E a \in Actor, r \in Run : ExecuteDirect(a, r)
  \/ \E c \in leases : ExecuteWithLease(c) \/ ForgetLease(c)
  \/ \E e \in executions, v \in Verdict, err \in BOOLEAN : Finalize(e, v, err)
  \/ \E e \in executions : RefuseFinalization(e) \/ FailFinalization(e) \/ Compensate(e)
  \/ ServerRestart
  \/ UNCHANGED vars

LEMMA QuietStepKeeps ==
  ASSUME TypeOK, QuietStep
  PROVE  \A r \in Run : Kept(run[r], run'[r])
<1>1. \A r \in Run : run[r] \in RunRecord
  BY DEF TypeOK
<1>2. ASSUME run' = run PROVE \A r \in Run : Kept(run[r], run'[r])
  BY <1>2 DEF Kept
<1>3. ASSUME NEW q \in Run, NEW n, run' = [run EXCEPT ![q] = n], Kept(run[q], n)
      PROVE  \A r \in Run : Kept(run[r], run'[r])
  <2>1. TAKE r \in Run
  <2>2. CASE r = q
    BY <1>3, <2>2 DEF TypeOK
  <2>3. CASE r # q
    BY <1>3, <2>3 DEF TypeOK, Kept
  <2> QED
    BY <2>2, <2>3
<1>4. ASSUME NEW r \in Run, Create(r) \/ Enqueue(r) \/ Cancel(r) \/ Recover(r)
      PROVE  \E n : run' = [run EXCEPT ![r] = n] /\ Kept(run[r], n)
  <2> DEFINE m == run[r]
  <2>1. \/ \E status, at, limit : run' = [run EXCEPT ![r] = Created(m, status, at, limit)]
        \/ \E at, skew, limit : run' = [run EXCEPT ![r] = Enqueued(m, at, skew, limit)]
        \/ run' = [run EXCEPT ![r] = [m EXCEPT !.status = "Cancelled"]]
        \/ \E attempts, skew : run' = [run EXCEPT ![r] = Recovered(m, attempts, skew)]
    BY <1>4 DEF Create, Enqueue, Cancel, Recover
  <2>2. m \in RunRecord
    BY <1>1
  <2> HIDE DEF m
  <2>3. \E n : run' = [run EXCEPT ![r] = n] /\ Kept(m, n)
    BY <2>1, <2>2, UpdatesKeep
  <2> QED
    BY <2>3 DEF m
<1>5. ASSUME NEW r \in Run, NEW a, NEW left, NEW lease, BeginExecution(r, a, left, lease)
      PROVE  \E n : run' = [run EXCEPT ![r] = n] /\ Kept(run[r], n)
  BY <1>1, <1>5, UpdatesKeep DEF BeginExecution
<1>6. ASSUME NEW e \in executions, NEW v \in Verdict, NEW err \in BOOLEAN,
             Finalize(e, v, err)
      PROVE  \E n : run' = [run EXCEPT ![e.run] = n] /\ Kept(run[e.run], n)
  <2>1. e.run \in Run
    BY DEF TypeOK, Execution
  <2> QED
    BY <1>1, <1>6, <2>1, FinalizedKeeps DEF Finalize
<1>7. ASSUME NEW e \in executions,
             RefuseFinalization(e) \/ FailFinalization(e) \/ Compensate(e)
      PROVE  \/ run' = run
             \/ \E n : run' = [run EXCEPT ![e.run] = n] /\ Kept(run[e.run], n)
  <2>1. e.run \in Run
    BY DEF TypeOK, Execution
  <2> QED
    BY <1>1, <1>7, <2>1, UpdatesKeep DEF RefuseFinalization, FailFinalization, Compensate
<1>8. CASE \E r \in Run : Create(r) \/ Enqueue(r) \/ Cancel(r) \/ Recover(r)
  BY <1>3, <1>4, <1>8
<1>9. CASE \/ \E a \in Actor, r \in Run : ExecuteDirect(a, r)
           \/ \E c \in leases : ExecuteWithLease(c)
  <2>1. \E r \in Run : \E a, left, lease : BeginExecution(r, a, left, lease)
    BY <1>9 DEF ExecuteDirect, ExecuteWithLease, TypeOK, Lease
  <2> QED
    BY <1>3, <1>5, <2>1
<1>10. CASE \E e \in executions, v \in Verdict, err \in BOOLEAN : Finalize(e, v, err)
  BY <1>3, <1>6, <1>10 DEF TypeOK, Execution
<1>11. CASE \E e \in executions :
              RefuseFinalization(e) \/ FailFinalization(e) \/ Compensate(e)
  BY <1>2, <1>3, <1>7, <1>11 DEF TypeOK, Execution
<1>12. CASE \/ \E c \in leases : ForgetLease(c)
            \/ ServerRestart \/ UNCHANGED vars
  BY <1>2, <1>12 DEF ForgetLease, ServerRestart, vars
<1> QED
  BY <1>8, <1>9, <1>10, <1>11, <1>12 DEF QuietStep

-----------------------------------------------------------------------------
(* Leases and threads.                                                      *)

LeasesInv == (\A r \in Run : OwnerInv(run[r])) /\ LeaseInv
ThreadsInv == \A b \in beats : BeatInv(b)

\* A quiet step keeps what is said of a thread whose lease it does not take.
LEMMA QuietKeepsThread ==
  ASSUME TypeOK, QuietStep, NEW b, BeatInv(b), WorkersLease(b.lease)'
  PROVE  BeatInv(b)'
<1>1. b \in Heartbeat /\ b.lease.run \in Run
  BY DEF BeatInv, Heartbeat, Lease
<1>2. Covered(b, run[b.lease.run])'
  BY <1>1, QuietStepKeeps, KeptCovered DEF BeatInv
<1> QED
  BY <1>1, <1>2 DEF BeatInv

LEMMA QuietKeepsLeases ==
  ASSUME TypeOK, QuietStep, LeasesInv, leases' \subseteq leases
  PROVE  LeasesInv'
BY QuietStepKeeps, KeptOwned DEF LeasesInv, LeaseInv

\* A claim takes a token that no lease has, so no thread is concerned.
LEMMA ClaimKeepsLeases ==
  ASSUME TypeOK, LeasesInv, NEW w \in Actor, NEW q \in Run, NEW t \in FreshLeaseToken,
         NEW i \in BOOLEAN, i => w \in Planner,
         run' = [run EXCEPT ![q] = Claimed(run[q], w, t)],
         leases' = leases \cup {[run |-> q, worker |-> w, token |-> t, interactive |-> i]}
  PROVE  /\ LeasesInv'
         /\ \A b : BeatInv(b) => BeatInv(b)'
         /\ run'[q].leaseLeft = LeaseSeconds
<1>1. run[q] \in RunRecord
  BY DEF TypeOK
<1>2. /\ Claimed(run[q], w, t).worker = w /\ Claimed(run[q], w, t).lease = t
      /\ Claimed(run[q], w, t).leaseLeft = LeaseSeconds
  BY <1>1 DEF RunRecord, Claimed
<1>3. /\ run'[q].worker = w /\ run'[q].lease = t /\ run'[q].leaseLeft = LeaseSeconds
      /\ \A r \in Run : r # q => run'[r] = run[r]
  BY <1>2 DEF TypeOK
<1>4. LeasesInv'
  BY <1>3, QueueAssumption DEF LeasesInv, LeaseInv, OwnerInv
<1>5. ASSUME NEW b, BeatInv(b)
      PROVE  BeatInv(b)'
  <2>1. b \in Heartbeat /\ b.lease.run \in Run /\ b.lease \in leases /\ b.lease.token # t
    BY <1>5 DEF BeatInv, Heartbeat, Lease, WorkersLease, FreshLeaseToken
  <2>2. WorkersLease(b.lease)'
    BY <1>5 DEF BeatInv, WorkersLease
  <2>3. Covered(b, run[b.lease.run])'
    BY <1>3, <1>5, <2>1 DEF BeatInv, Covered
  <2> QED
    BY <2>1, <2>2, <2>3 DEF BeatInv
<1> QED
  BY <1>3, <1>4, <1>5

\* A renewal gives the lease its full length, which covers every thread of it.
LEMMA RenewalKeepsLeases ==
  ASSUME TypeOK, LeasesInv, NEW c \in leases, RenewLease(c)
  PROVE  /\ LeasesInv'
         /\ \A b : BeatInv(b) => BeatInv(b)'
         /\ run'[c.run].leaseLeft = LeaseSeconds
<1>1. c.run \in Run
  BY DEF TypeOK, Lease
<1>2. run[c.run] \in RunRecord
  BY <1>1 DEF TypeOK
<1>3. /\ Renewed(run[c.run]).worker = run[c.run].worker
      /\ Renewed(run[c.run]).lease = run[c.run].lease
      /\ Renewed(run[c.run]).leaseLeft = LeaseSeconds
  BY <1>2 DEF RunRecord, Renewed
<1>4. /\ run'[c.run].worker = run[c.run].worker /\ run'[c.run].lease = run[c.run].lease
      /\ run'[c.run].leaseLeft = LeaseSeconds
      /\ \A r \in Run : r # c.run => run'[r] = run[r]
      /\ leases' = leases
  BY <1>1, <1>3 DEF TypeOK, RenewLease
<1>5. LeasesInv'
  BY <1>4 DEF LeasesInv, LeaseInv, OwnerInv
<1>6. ASSUME NEW b, BeatInv(b)
      PROVE  BeatInv(b)'
  <2>1. b \in Heartbeat /\ b.lease.run \in Run
    BY <1>6 DEF BeatInv, Heartbeat, Lease
  <2>2. LeaseSeconds >= LeaseSeconds - HeartbeatSeconds + b.left
    BY <2>1, QueueAssumption, WorkerAssumption DEF Heartbeat
  <2>3. Covered(b, run[b.lease.run])'
    BY <1>4, <1>6, <2>1, <2>2 DEF BeatInv, Covered
  <2> QED
    BY <1>4, <1>6, <2>1, <2>3 DEF BeatInv, WorkersLease
<1> QED
  BY <1>4, <1>5, <1>6

\* A thread that waits and its lease lose the same second: the lease cannot
\* run out first, since the thread is not later than MaxLateness.
LEMMA TickKeepsLeases ==
  ASSUME TypeOK, LeasesInv, Tick
  PROVE  /\ LeasesInv'
         /\ \A b : BeatInv(b) /\ b.left > -MaxLateness =>
              BeatInv([b EXCEPT !.left = @ - 1])'
<1>1. ASSUME NEW r \in Run
      PROVE  /\ run[r] \in RunRecord
             /\ run'[r].worker = run[r].worker /\ run'[r].lease = run[r].lease
             /\ run'[r].leaseLeft = Elapse(run[r].leaseLeft)
  BY DEF Tick, TypeOK, Aged, RunRecord
<1>2. leases' = leases
  BY DEF Tick
<1>3. LeasesInv'
  BY <1>1, <1>2 DEF LeasesInv, LeaseInv, OwnerInv
<1>4. ASSUME NEW b, BeatInv(b), b.left > -MaxLateness
      PROVE  BeatInv([b EXCEPT !.left = @ - 1])'
  <2> DEFINE d == [b EXCEPT !.left = @ - 1]
  <2>1. b \in Heartbeat /\ b.lease.run \in Run
    BY <1>4 DEF BeatInv, Heartbeat, Lease
  <2>2. /\ d \in Heartbeat /\ d.lease = b.lease /\ d.stop = b.stop
        /\ d.left = b.left - 1 /\ b.left \in Int
    BY <1>4, <2>1, WorkerAssumption DEF Heartbeat
  <2>3. ASSUME ~b.stop, run[b.lease.run].lease = b.lease.token
        PROVE  run'[b.lease.run].leaseLeft >= LeaseSeconds - HeartbeatSeconds + d.left
    <3>1. run[b.lease.run].leaseLeft >= LeaseSeconds - HeartbeatSeconds + b.left
      BY <1>4, <2>3 DEF BeatInv, Covered
    <3>2. run[b.lease.run].leaseLeft > 0
      BY <1>1, <1>4, <2>1, <2>2, <3>1, QueueAssumption, WorkerAssumption DEF RunRecord
    <3>3. run'[b.lease.run].leaseLeft = run[b.lease.run].leaseLeft - 1
      BY <1>1, <2>1, <3>2 DEF Elapse
    <3> QED
      BY <1>1, <2>1, <2>2, <3>1, <3>3, QueueAssumption, WorkerAssumption DEF RunRecord
  <2> HIDE DEF d
  <2>4. Covered(d, run[d.lease.run])'
    BY <1>1, <2>1, <2>2, <2>3 DEF Covered
  <2>5. BeatInv(d)'
    BY <1>2, <1>4, <2>2, <2>4 DEF BeatInv, WorkersLease
  <2> QED
    BY <2>5 DEF d
<1> QED
  BY <1>3, <1>4

-----------------------------------------------------------------------------
(* The steps of the workers.                                                *)

LEMMA HeldIsLease ==
  ASSUME WInv
  PROVE  /\ \A w \in Worker : \A c \in proc[w].held : WorkersLease(c) /\ c.worker = w
         /\ \A b \in beats : WorkersLease(b.lease)
BY DEF WInv, ProcessInv, BeatInv

\* Whatever workers, threads and planners do is a step of the queue.
LEMMA StepOfQueue ==
  ASSUME WInv, [WorkerNext]_workerVars
  PROVE  [Next]_vars
<1>1. ASSUME NEW w \in Worker, Claim(w) \/ ClaimAnswerLost(w)
      PROVE  Next
  BY <1>1, WorkerAssumption DEF Claim, ClaimAnswerLost, Next
<1>2. ASSUME NEW w \in Worker, SendExecute(w)
      PROVE  Next
  BY <1>2, HeldIsLease DEF SendExecute, WorkersLease, Next
<1>3. ASSUME NEW w \in Worker,
             \/ Raise(w) \/ ReturnFromRunOnce(w) \/ Signal(w) \/ LeaveLoop(w) \/ Kill(w)
      PROVE  UNCHANGED vars
  BY <1>3 DEF Raise, ReturnFromRunOnce, Signal, LeaveLoop, Kill, vars
<1>4. ASSUME NEW b \in beats, Renew(b) \/ RenewFails(b)
      PROVE  [Next]_vars
  BY <1>4, HeldIsLease DEF Renew, RenewFails, WorkersLease, Next, vars
<1>5. ASSUME NEW e \in executions, AnswerExecute(e)
      PROVE  Next
  BY <1>5 DEF AnswerExecute, Next
<1>6. ASSUME NEW c \in leases, Forget(c)
      PROVE  Next
  BY <1>6 DEF Forget, Next
<1>7. CASE RestartServer
  BY <1>7 DEF RestartServer, Next
<1>8. CASE PlannerStep
  BY <1>8 DEF PlannerStep, Planner, Next
<1>9. CASE TimePasses
  BY <1>9 DEF TimePasses, Next
<1>10. CASE UNCHANGED workerVars
  BY <1>10 DEF workerVars, vars
<1> QED
  BY <1>1, <1>2, <1>3, <1>4, <1>5, <1>6, <1>7, <1>8, <1>9, <1>10 DEF WorkerNext

LEMMA StepKeepsThreads ==
  ASSUME WInv, [WorkerNext]_workerVars
  PROVE  LeasesInv' /\ ThreadsInv'
<1> DEFINE Goal == LeasesInv' /\ ThreadsInv'
<1>1. TypeOK /\ LeasesInv /\ \A b \in beats : BeatInv(b)
  BY DEF WInv, IInv, LeasesInv
<1>2. ASSUME QuietStep, leases' \subseteq leases, beats' = beats,
             \A b \in beats : b.lease \in leases'
      PROVE  Goal
  <2>1. ASSUME NEW b \in beats PROVE WorkersLease(b.lease)'
    BY <1>2, HeldIsLease DEF WorkersLease
  <2> QED
    BY <1>1, <1>2, <2>1, QuietKeepsThread, QuietKeepsLeases DEF ThreadsInv
<1>3. ASSUME QuietStep, leases' = leases, beats' = beats
      PROVE  Goal
  BY <1>2, <1>3, HeldIsLease DEF WorkersLease
<1>4. ASSUME NEW w \in Worker, ClaimNext(w)
      PROVE  /\ LeasesInv' /\ \A b : BeatInv(b) => BeatInv(b)'
             /\ \A c \in leases' \ leases :
                  BeatInv([lease |-> c, left |-> HeartbeatSeconds, stop |-> FALSE])'
  <2>1. PICK q \in Run, t \in FreshLeaseToken :
          /\ run' = [run EXCEPT ![q] = Claimed(run[q], w, t)]
          /\ leases' = leases \cup
               {[run |-> q, worker |-> w, token |-> t, interactive |-> FALSE]}
    BY <1>4 DEF ClaimNext, NextInQueue
  <2>2. /\ LeasesInv' /\ \A b : BeatInv(b) => BeatInv(b)'
        /\ run'[q].leaseLeft = LeaseSeconds
    BY <1>1, <2>1, WorkerAssumption, ClaimKeepsLeases
  <2>3. ASSUME NEW c \in leases' \ leases
        PROVE  BeatInv([lease |-> c, left |-> HeartbeatSeconds, stop |-> FALSE])'
    <3> DEFINE b == [lease |-> c, left |-> HeartbeatSeconds, stop |-> FALSE]
    <3>1. c = [run |-> q, worker |-> w, token |-> t, interactive |-> FALSE]
      BY <2>1, <2>3
    <3>2. c \in Lease /\ c.run = q /\ WorkersLease(c)'
      BY <2>3, <3>1, WorkerAssumption DEF Lease, FreshLeaseToken, WorkersLease
    <3>3. b \in Heartbeat
      BY <3>2, WorkerAssumption DEF Heartbeat
    <3>4. Covered(b, run[b.lease.run])'
      BY <2>2, <3>2, QueueAssumption, WorkerAssumption DEF Covered
    <3> QED
      BY <3>2, <3>3, <3>4 DEF BeatInv
  <2> QED
    BY <2>2, <2>3
<1>5. ASSUME NEW w \in Worker, Claim(w) \/ ClaimAnswerLost(w)
      PROVE  Goal
  BY <1>1, <1>4, <1>5 DEF Claim, ClaimAnswerLost, ThreadsInv
<1>6. ASSUME NEW w \in Worker, SendExecute(w)
      PROVE  Goal
  <2>1. PICK c \in proc[w].held : ExecuteWithLease(c)
    BY <1>6 DEF SendExecute
  <2>2. QuietStep /\ leases' = leases
    BY <2>1, HeldIsLease DEF QuietStep, WorkersLease, ExecuteWithLease, BeginExecution
  <2> QED
    BY <1>3, <1>6, <2>2 DEF SendExecute
<1>7. ASSUME NEW w \in Worker,
             \/ Raise(w) \/ ReturnFromRunOnce(w) \/ Signal(w) \/ LeaveLoop(w) \/ Kill(w)
      PROVE  Goal
  <2>1. UNCHANGED vars /\ leases' = leases /\ run' = run
    BY <1>7 DEF Raise, ReturnFromRunOnce, Signal, LeaveLoop, Kill, vars
  <2>2. \A b \in beats' : b \in beats \/ \E d \in beats : b = [d EXCEPT !.stop = TRUE]
    BY <1>7 DEF Raise, ReturnFromRunOnce, Signal, LeaveLoop, Kill, WithoutThreadsOf, BeatsOf
  <2>3. ASSUME NEW b, BeatInv(b)
        PROVE  BeatInv(b)' /\ BeatInv([b EXCEPT !.stop = TRUE])'
    <3>1. BeatInv(b)'
      BY <2>1, <2>3 DEF BeatInv, WorkersLease, Covered
    <3>2. /\ [b EXCEPT !.stop = TRUE] \in Heartbeat
          /\ [b EXCEPT !.stop = TRUE].lease = b.lease /\ [b EXCEPT !.stop = TRUE].stop
      BY <2>3 DEF BeatInv, Heartbeat
    <3>3. BeatInv([b EXCEPT !.stop = TRUE])'
      BY <3>1, <3>2 DEF BeatInv, Covered
    <3> QED
      BY <3>1, <3>3
  <2>4. LeasesInv'
    BY <1>1, <2>1 DEF LeasesInv, LeaseInv
  <2> QED
    BY <1>1, <2>2, <2>3, <2>4 DEF ThreadsInv
<1>8. ASSUME NEW b \in beats, Renew(b) \/ RenewFails(b)
      PROVE  Goal
  <2>1. CASE UNCHANGED <<run, executions, leases>> /\ beats' \subseteq beats
    BY <1>1, <2>1 DEF LeasesInv, LeaseInv, ThreadsInv, BeatInv, WorkersLease
  <2>2. CASE RenewLease(b.lease)
    <3>1. b.lease \in leases
      BY HeldIsLease DEF WorkersLease
    <3>2. /\ LeasesInv' /\ \A d : BeatInv(d) => BeatInv(d)'
          /\ run'[b.lease.run].leaseLeft = LeaseSeconds
      BY <1>1, <2>2, <3>1, RenewalKeepsLeases
    <3> DEFINE d == [b EXCEPT !.left = HeartbeatSeconds]
    <3>3. BeatInv(b)' /\ b \in Heartbeat
      BY <1>1, <3>2 DEF BeatInv
    <3>4. d \in Heartbeat /\ d.lease = b.lease /\ d.left = HeartbeatSeconds
      BY <3>3, WorkerAssumption DEF Heartbeat
    <3> HIDE DEF d
    <3>5. Covered(d, run[d.lease.run])'
      BY <3>2, <3>4, QueueAssumption, WorkerAssumption DEF Covered
    <3>6. BeatInv(d)'
      BY <3>3, <3>4, <3>5 DEF BeatInv
    <3>7. \A x \in beats' : x \in beats \/ x = d
      BY <1>8 DEF d, Renew, RenewFails
    <3> QED
      BY <1>1, <3>2, <3>6, <3>7 DEF ThreadsInv
  <2> QED
    BY <1>8, <2>1, <2>2 DEF Renew, RenewFails
<1>9. ASSUME NEW e \in executions, AnswerExecute(e)
      PROVE  Goal
  <2>1. \/ \E v \in Verdict, err \in BOOLEAN : Finalize(e, v, err)
        \/ RefuseFinalization(e) \/ FailFinalization(e) \/ Compensate(e)
    BY <1>9 DEF AnswerExecute
  <2>2. leases' = leases
    BY <2>1 DEF Finalize, RefuseFinalization, FailFinalization, Compensate
  <2>3. QuietStep
    BY <2>1 DEF QuietStep
  <2> QED
    BY <1>3, <1>9, <2>2, <2>3 DEF AnswerExecute
<1>10. ASSUME NEW c \in leases, Forget(c)
       PROVE  Goal
  <2>1. QuietStep /\ leases' = leases \ {c} /\ beats' = beats
    BY <1>10 DEF Forget, ForgetLease, QuietStep
  <2>2. \A b \in beats : b.lease \in leases'
    BY <1>10, <2>1, HeldIsLease DEF Forget, WorkersLease
  <2> QED
    BY <1>2, <2>1, <2>2
<1>11. ASSUME RestartServer
       PROVE  Goal
  <2>1. /\ QuietStep /\ beats' = beats
        /\ leases' = {c \in leases : ~c.interactive}
    BY <1>11 DEF RestartServer, ServerRestart, QuietStep
  <2>2. \A b \in beats : b.lease \in leases'
    BY <2>1, HeldIsLease DEF WorkersLease
  <2> QED
    BY <1>2, <2>1, <2>2
<1>12. ASSUME PlannerStep
       PROVE  Goal
  <2>1. beats' = beats
    BY <1>12 DEF PlannerStep
  <2>2. ASSUME \/ \E r \in Run : Create(r) \/ Enqueue(r) \/ Cancel(r) \/ Recover(r)
               \/ \E a \in Planner, r \in Run : ExecuteDirect(a, r)
               \/ \E c \in leases : c.interactive /\ ExecuteWithLease(c)
        PROVE  Goal
    <3>1. QuietStep
      BY <2>2 DEF QuietStep, Planner
    <3>2. leases' = leases
      BY <2>2 DEF Create, Enqueue, Cancel, Recover, ExecuteDirect, ExecuteWithLease,
                  BeginExecution
    <3> QED
      BY <1>3, <2>1, <3>1, <3>2
  <2>3. ASSUME NEW c \in leases, c.interactive, ForgetLease(c)
        PROVE  Goal
    <3>1. QuietStep /\ leases' = leases \ {c}
      BY <2>3 DEF QuietStep, ForgetLease
    <3>2. \A b \in beats : b.lease \in leases'
      BY <2>3, <3>1, HeldIsLease DEF WorkersLease
    <3> QED
      BY <1>2, <2>1, <3>1, <3>2
  <2>4. ASSUME NEW a \in Planner, NEW r \in Run, ProcessQueued(a, r)
        PROVE  Goal
    <3>1. PICK t \in FreshLeaseToken :
            /\ run' = [run EXCEPT ![r] = Claimed(run[r], a, t)]
            /\ leases' = leases \cup
                 {[run |-> r, worker |-> a, token |-> t, interactive |-> TRUE]}
      BY <2>4 DEF ProcessQueued
    <3>2. LeasesInv' /\ \A b : BeatInv(b) => BeatInv(b)'
      BY <1>1, <3>1, ClaimKeepsLeases DEF Planner
    <3> QED
      BY <1>1, <2>1, <3>2 DEF ThreadsInv
  <2> HIDE DEF Goal
  <2> QED
    BY <1>12, <2>2, <2>3, <2>4 DEF PlannerStep
<1>13. ASSUME TimePasses
       PROVE  Goal
  <2>1. /\ LeasesInv'
        /\ \A b : BeatInv(b) /\ b.left > -MaxLateness =>
             BeatInv([b EXCEPT !.left = @ - 1])'
    BY <1>1, <1>13, TickKeepsLeases DEF TimePasses
  <2> QED
    BY <1>1, <1>13, <2>1 DEF TimePasses, ThreadsInv
<1>14. ASSUME UNCHANGED workerVars
       PROVE  Goal
  <2>1. QuietStep /\ leases' = leases /\ beats' = beats
    BY <1>14 DEF workerVars, QuietStep, vars
  <2> QED
    BY <1>3, <2>1
<1> HIDE DEF Goal
<1>15. Goal
  BY <1>5, <1>6, <1>7, <1>8, <1>9, <1>10, <1>11, <1>12, <1>13, <1>14 DEF WorkerNext
<1> QED
  BY <1>15 DEF Goal

-----------------------------------------------------------------------------
(* Processes and the solvers that run for them.                             *)

\* No step but SendExecute starts a solver for w.
StartsNothing(w) == \A e \in executions' : e.by = w => e \in executions

\* A process that keeps or loses its lease, and gets no solver, goes on as the
\* code of the loop has it.
LEMMA ProcessGoesOn ==
  ASSUME NEW w \in Worker, ProcessInv(w), StartsNothing(w),
         \A c \in proc'[w].held : c \in proc[w].held /\ c \in leases',
         \/ proc'[w].phase = "ended"
         \/ proc'[w].phase = proc[w].phase /\ proc'[w].answer = proc[w].answer
         \/ /\ proc'[w].phase = "polling" /\ proc'[w].answer = NoAnswer
            /\ SolvesNothing(w)
         \/ proc'[w].phase = "executing" /\ proc'[w].answer # "ok"
         \/ proc'[w].phase = "executing" /\ SolvesNothing(w)'
  PROVE  ProcessInv(w)'
<1>1. SolvesNothing(w) => SolvesNothing(w)'
  BY DEF StartsNothing, SolvesNothing
<1>2. \A c \in proc'[w].held : WorkersLease(c)' /\ c.worker = w
  BY DEF ProcessInv, WorkersLease
<1>3. /\ \A e, f \in executions' : e.by = w /\ f.by = w => e = f
      /\ \A e \in executions' : e.by = w => e.viaLease
  BY DEF ProcessInv, StartsNothing
<1>4. /\ proc'[w].phase \in {"polling", "claimed"} =>
           proc'[w].answer = NoAnswer /\ SolvesNothing(w)'
      /\ proc'[w].phase = "executing" /\ proc'[w].answer = "ok" => SolvesNothing(w)'
  BY <1>1 DEF ProcessInv
<1> QED
  BY <1>2, <1>3, <1>4 DEF ProcessInv

\* A process that a step does not touch.
LEMMA ProcessUntouched ==
  ASSUME WInv, NEW w \in Worker, proc'[w] = proc[w], StartsNothing(w),
         \A c \in leases : ~c.interactive /\ c \in proc[w].held => c \in leases'
  PROVE  ProcessInv(w)'
<1>1. ProcessInv(w) /\ \A c \in proc[w].held : WorkersLease(c)
  BY HeldIsLease DEF WInv
<1> QED
  BY <1>1, ProcessGoesOn DEF WorkersLease

\* The end of an execute request, seen by the worker that sent it.
LEMMA AnswerKeepsProcesses ==
  ASSUME WInv, NEW e \in executions, AnswerExecute(e)
  PROVE  proc' \in [Worker -> Process] /\ \A w \in Worker : ProcessInv(w)'
<1>1. \/ /\ \E v \in Verdict, err \in BOOLEAN : Finalize(e, v, err)
         /\ proc' = Answered(e, "ok")
      \/ (RefuseFinalization(e) \/ FailFinalization(e)) /\ proc' = Answered(e, "error")
      \/ Compensate(e) /\ UNCHANGED proc
  BY DEF AnswerExecute
<1>2. e \in Execution /\ proc \in [Worker -> Process]
  BY DEF WInv, IInv, TypeOK
<1>3. leases' = leases
  BY <1>1 DEF Finalize, RefuseFinalization, FailFinalization, Compensate
<1>4. \A f \in executions' :
        \/ f \in executions /\ f # e
        \/ ~e.viaLease /\ f.by = e.by
  BY <1>1, <1>2 DEF Finalize, RefuseFinalization, FailFinalization, Compensate, Execution
<1>5. ASSUME NEW w \in Worker
      PROVE  StartsNothing(w) /\ (e.by = w => SolvesNothing(w)')
  BY <1>4 DEF WInv, ProcessInv, StartsNothing, SolvesNothing
<1>6. ASSUME NEW w \in Worker
      PROVE  \/ proc'[w] = proc[w]
             \/ \E answer \in {"ok", "error"} :
                  e.by = w /\ proc'[w] = [proc[w] EXCEPT !.answer = answer]
  BY <1>1 DEF Answered, ServesWorker
<1>7. ASSUME NEW w \in Worker
      PROVE  ProcessInv(w)' /\ proc'[w] \in Process
  <2>1. proc[w] \in Process
    BY <1>2
  <2>2. CASE proc'[w] = proc[w]
    BY <1>3, <1>5, <2>1, <2>2, ProcessUntouched
  <2>3. ASSUME NEW answer \in {"ok", "error"}, e.by = w,
               proc'[w] = [proc[w] EXCEPT !.answer = answer]
        PROVE  ProcessInv(w)' /\ proc'[w] \in Process
    <3>1. /\ proc'[w] \in Process /\ proc'[w].held = proc[w].held
          /\ proc'[w].phase = proc[w].phase
      BY <2>1, <2>3 DEF Process
    <3>2. proc[w].phase \in {"executing", "ended"}
      BY <2>1, <2>3 DEF WInv, ProcessInv, SolvesNothing, Process
    <3>3. \A c \in proc[w].held : c \in leases'
      BY <1>3, HeldIsLease DEF WorkersLease
    <3> QED
      BY <1>5, <2>3, <3>1, <3>2, <3>3, ProcessGoesOn DEF WInv
  <2> QED
    BY <1>6, <2>2, <2>3
<1>8. proc' \in [Worker -> Process]
  <2>1. proc' = [w \in Worker |-> proc'[w]]
    BY <1>1, <1>2 DEF Answered
  <2> QED
    BY <1>7, <2>1
<1> QED
  BY <1>7, <1>8

LEMMA StepKeepsProcesses ==
  ASSUME WInv, [WorkerNext]_workerVars
  PROVE  proc' \in [Worker -> Process] /\ \A w \in Worker : ProcessInv(w)'
<1> DEFINE Goal == proc' \in [Worker -> Process] /\ \A w \in Worker : ProcessInv(w)'
<1>1. proc \in [Worker -> Process] /\ TypeOK /\ LeaseInv
  BY DEF WInv, IInv
<1>2. ASSUME NEW w \in Worker PROVE proc[w] \in Process /\ ProcessInv(w)
  BY <1>1 DEF WInv
<1>3. ASSUME executions' \subseteq executions PROVE \A w \in Worker : StartsNothing(w)
  BY <1>3 DEF StartsNothing
<1>4. ASSUME NEW w \in Worker, NEW p \in Process, proc' = [proc EXCEPT ![w] = p],
             leases \subseteq leases', ProcessInv(w)',
             \A u \in Worker : u # w => StartsNothing(u)
      PROVE  Goal
  <2>1. proc' \in [Worker -> Process]
    BY <1>1, <1>4
  <2>2. ASSUME NEW u \in Worker, u # w PROVE ProcessInv(u)'
    BY <1>1, <1>4, <2>2, ProcessUntouched
  <2> QED
    BY <1>4, <2>1, <2>2
<1>5. ASSUME proc' = proc, \A w \in Worker : StartsNothing(w),
             \A w \in Worker : \A c \in proc[w].held : c \in leases'
      PROVE  Goal
  BY <1>1, <1>5, ProcessUntouched
<1>6. ASSUME NEW w \in Worker, Claim(w)
      PROVE  Goal
  <2>1. PICK q \in Run, t \in FreshLeaseToken :
          leases' = leases \cup
            {[run |-> q, worker |-> w, token |-> t, interactive |-> FALSE]}
    BY <1>6 DEF Claim, ClaimNext, NextInQueue
  <2> DEFINE held == leases' \ leases
             p == [proc[w] EXCEPT !.phase = "claimed", !.held = held]
  <2>2. \A c \in held : c \in Lease /\ WorkersLease(c)' /\ c.worker = w
    <3> SUFFICES ASSUME NEW c \in held PROVE c \in Lease /\ WorkersLease(c)' /\ c.worker = w
      OBVIOUS
    <3>1. c = [run |-> q, worker |-> w, token |-> t, interactive |-> FALSE]
      BY <2>1
    <3> QED
      BY <3>1, WorkerAssumption DEF Lease, FreshLeaseToken, WorkersLease
  <2>3. executions' = executions /\ proc' = [proc EXCEPT ![w] = p]
    BY <1>1, <1>6 DEF Claim, ClaimNext, Process
  <2>4. proc[w].answer = NoAnswer /\ SolvesNothing(w)
    BY <1>2, <1>6 DEF Claim, MayClaim, ProcessInv
  <2> HIDE DEF held
  <2>5. /\ p \in Process /\ p.phase = "claimed" /\ p.held = held
        /\ p.answer = proc[w].answer
    BY <1>2, <2>2 DEF Process
  <2> HIDE DEF p
  <2>6. proc'[w] = p
    BY <1>1, <2>3
  <2>7. ProcessInv(w)'
    BY <2>2, <2>3, <2>4, <2>5, <2>6 DEF ProcessInv, SolvesNothing
  <2> QED
    BY <1>3, <1>4, <2>1, <2>3, <2>5, <2>7
<1>7. ASSUME NEW w \in Worker, NEW p \in Process, proc' = [proc EXCEPT ![w] = p],
             leases \subseteq leases', executions' = executions,
             p.held \subseteq proc[w].held,
             \/ p.phase = "ended"
             \/ p.phase = proc[w].phase /\ p.answer = proc[w].answer
             \/ p.phase = "polling" /\ p.answer = NoAnswer /\ SolvesNothing(w)
      PROVE  Goal
  <2>1. proc'[w] = p
    BY <1>1, <1>7
  <2>2. \A c \in p.held : c \in leases'
    BY <1>7, HeldIsLease DEF WorkersLease
  <2>3. ProcessInv(w)'
    BY <1>2, <1>3, <1>7, <2>1, <2>2, ProcessGoesOn
  <2> QED
    BY <1>3, <1>4, <1>7, <2>3
<1>8. ASSUME NEW w \in Worker, ClaimAnswerLost(w)
      PROVE  Goal
  <2>1. leases \subseteq leases' /\ executions' = executions
    BY <1>8 DEF ClaimAnswerLost, ClaimNext
  <2> DEFINE p == [proc[w] EXCEPT !.phase = "ended"]
  <2>2. p \in Process /\ p.phase = "ended" /\ p.held = proc[w].held
    BY <1>2 DEF Process
  <2>3. proc' = [proc EXCEPT ![w] = p]
    BY <1>1, <1>8 DEF ClaimAnswerLost
  <2> HIDE DEF p
  <2> QED
    BY <1>7, <2>1, <2>2, <2>3
<1>9. ASSUME NEW w \in Worker, SendExecute(w)
      PROVE  Goal
  <2>1. PICK c \in proc[w].held : ExecuteWithLease(c)
    BY <1>9 DEF SendExecute
  <2>2. c \in leases /\ c.worker = w /\ c.token # NoToken
    BY <1>1, <2>1, HeldIsLease, QueueAssumption DEF WorkersLease, TypeOK, Lease
  <2>3. PICK x : executions' = executions \cup {x} /\ x.by = w /\ x.viaLease
    <3>1. PICK t \in FreshExecutionToken :
            executions' = executions \cup
              {[run |-> c.run, by |-> c.worker, token |-> t,
                version |-> run[c.run].version + 1, viaLease |-> c.token # NoToken,
                lease |-> c.token, phase |-> "solving"]}
      BY <2>1 DEF ExecuteWithLease, BeginExecution
    <3> DEFINE via == c.token # NoToken
               x == [run |-> c.run, by |-> c.worker, token |-> t,
                     version |-> run[c.run].version + 1, viaLease |-> via,
                     lease |-> c.token, phase |-> "solving"]
    <3>2. x.by = w /\ x.viaLease = via /\ via
      BY <2>2
    <3>3. executions' = executions \cup {x}
      BY <3>1
    <3> HIDE DEF x, via
    <3> QED
      BY <3>2, <3>3
  <2>4. leases' = leases
    BY <2>1 DEF ExecuteWithLease, BeginExecution
  <2> DEFINE p == [proc[w] EXCEPT !.phase = "executing"]
  <2>5. /\ p \in Process /\ p.phase = "executing" /\ p.held = proc[w].held
        /\ p.answer = proc[w].answer
    BY <1>2 DEF Process
  <2>6. proc' = [proc EXCEPT ![w] = p] /\ proc[w].phase = "claimed"
    BY <1>1, <1>9 DEF SendExecute
  <2> HIDE DEF p
  <2>7. proc'[w] = p
    BY <1>1, <2>6
  <2>8. proc[w].answer = NoAnswer /\ SolvesNothing(w)
    BY <1>2, <2>6 DEF ProcessInv
  <2>9. \A d \in p.held : WorkersLease(d)' /\ d.worker = w
    BY <2>4, <2>5, HeldIsLease DEF WorkersLease
  <2>10. ProcessInv(w)'
    BY <2>3, <2>5, <2>7, <2>8, <2>9 DEF ProcessInv, SolvesNothing, NoAnswer
  <2>11. \A u \in Worker : u # w => StartsNothing(u)
    BY <2>3 DEF StartsNothing
  <2> QED
    BY <1>4, <2>4, <2>5, <2>6, <2>10, <2>11
<1>10. ASSUME NEW w \in Worker,
              Raise(w) \/ ReturnFromRunOnce(w) \/ Signal(w) \/ LeaveLoop(w) \/ Kill(w)
       PROVE  Goal
  <2>1. leases' = leases /\ executions' = executions
    BY <1>10 DEF Raise, ReturnFromRunOnce, Signal, LeaveLoop, Kill
  <2>2. CASE Raise(w) \/ LeaveLoop(w) \/ Kill(w)
    <3> DEFINE p == [proc[w] EXCEPT !.phase = "ended", !.held = {}, !.answer = NoAnswer]
    <3>1. p \in Process /\ p.phase = "ended" /\ p.held = {}
      BY <1>2 DEF Process
    <3>2. proc' = [proc EXCEPT ![w] = p]
      BY <1>1, <2>2 DEF Raise, LeaveLoop, Kill, Ended
    <3> HIDE DEF p
    <3> QED
      BY <1>7, <2>1, <3>1, <3>2
  <2>3. CASE ReturnFromRunOnce(w)
    <3> DEFINE p == Polling(proc[w])
    <3>1. p \in Process /\ p.phase = "polling" /\ p.held = {} /\ p.answer = NoAnswer
      BY <1>2 DEF Process, Polling
    <3>2. proc' = [proc EXCEPT ![w] = p]
      BY <1>1, <2>3 DEF ReturnFromRunOnce
    <3>3. SolvesNothing(w)
      BY <1>2, <2>3 DEF ReturnFromRunOnce, ProcessInv
    <3> HIDE DEF p
    <3> QED
      BY <1>7, <2>1, <3>1, <3>2, <3>3
  <2>4. CASE Signal(w)
    <3> DEFINE p == [proc[w] EXCEPT !.stopping = TRUE]
    <3>1. /\ p \in Process /\ p.phase = proc[w].phase /\ p.held = proc[w].held
          /\ p.answer = proc[w].answer
      BY <1>2 DEF Process
    <3>2. proc' = [proc EXCEPT ![w] = p]
      BY <1>1, <2>4 DEF Signal
    <3> HIDE DEF p
    <3> QED
      BY <1>7, <2>1, <3>1, <3>2
  <2> QED
    BY <1>10, <2>2, <2>3, <2>4
<1>11. ASSUME NEW b \in beats, Renew(b) \/ RenewFails(b)
       PROVE  Goal
  <2>1. proc' = proc /\ executions' = executions /\ leases' = leases
    BY <1>11 DEF Renew, RenewFails, RenewLease
  <2> QED
    BY <1>3, <1>5, <2>1, HeldIsLease DEF WorkersLease
<1>12. ASSUME NEW e \in executions, AnswerExecute(e)
       PROVE  Goal
  BY <1>12, AnswerKeepsProcesses
<1>13. ASSUME NEW c \in leases, Forget(c)
       PROVE  Goal
  <2>1. proc' = proc /\ executions' = executions /\ leases' = leases \ {c}
    BY <1>13 DEF Forget, ForgetLease
  <2>2. \A w \in Worker : \A d \in proc[w].held : d \in leases'
    BY <1>13, <2>1, HeldIsLease DEF Forget, WorkersLease
  <2> QED
    BY <1>3, <1>5, <2>1, <2>2
<1>14. ASSUME RestartServer
       PROVE  Goal
  <2>1. executions' = {} /\ leases' = {c \in leases : ~c.interactive}
    BY <1>14 DEF RestartServer, ServerRestart
  <2>2. ASSUME NEW w \in Worker
        PROVE  ProcessInv(w)' /\ proc'[w] \in Process
    <3>1. \/ proc'[w] = proc[w]
          \/ /\ proc[w].phase = "executing"
             /\ proc'[w] = [proc[w] EXCEPT !.answer = "error"]
      BY <1>14 DEF RestartServer
    <3>2. /\ proc'[w] \in Process /\ proc'[w].held = proc[w].held
          /\ \/ proc'[w].phase = proc[w].phase /\ proc'[w].answer = proc[w].answer
             \/ proc'[w].phase = "executing" /\ proc'[w].answer # "ok"
      BY <1>2, <3>1 DEF Process
    <3>3. \A c \in proc[w].held : c \in leases'
      BY <2>1, HeldIsLease DEF WorkersLease
    <3> QED
      BY <1>2, <1>3, <2>1, <3>2, <3>3, ProcessGoesOn
  <2>3. proc' = [w \in Worker |-> proc'[w]]
    BY <1>14 DEF RestartServer
  <2> QED
    BY <2>2, <2>3
<1>15. ASSUME PlannerStep
       PROVE  Goal
  <2>1. proc' = proc
    BY <1>15 DEF PlannerStep
  <2>2. CASE \/ \E r \in Run : Create(r) \/ Enqueue(r) \/ Cancel(r) \/ Recover(r)
             \/ \E a \in Planner, r \in Run : ProcessQueued(a, r)
    <3>1. executions' = executions /\ leases \subseteq leases'
      BY <2>2 DEF Create, Enqueue, Cancel, Recover, ProcessQueued
    <3> QED
      BY <1>3, <1>5, <2>1, <3>1, HeldIsLease DEF WorkersLease
  <2>3. CASE \/ \E a \in Planner, r \in Run : ExecuteDirect(a, r)
             \/ \E c \in leases : c.interactive /\ ExecuteWithLease(c)
    <3>1. /\ leases' = leases
          /\ \E x : executions' = executions \cup {x} /\ x.by \in Planner
      <4>1. \E a \in Planner, r \in Run : \E left, lease : BeginExecution(r, a, left, lease)
        BY <1>1, <2>3 DEF ExecuteDirect, ExecuteWithLease, LeaseInv, TypeOK, Lease
      <4>2. PICK a \in Planner, r \in Run : \E left, lease : BeginExecution(r, a, left, lease)
        BY <4>1
      <4>3. PICK left, lease : BeginExecution(r, a, left, lease)
        BY <4>2
      <4>4. PICK t \in FreshExecutionToken :
              executions' = executions \cup
                {[run |-> r, by |-> a, token |-> t, version |-> run[r].version + 1,
                  viaLease |-> lease # NoToken, lease |-> lease, phase |-> "solving"]}
        BY <4>3 DEF BeginExecution
      <4> DEFINE x == [run |-> r, by |-> a, token |-> t, version |-> run[r].version + 1,
                       viaLease |-> lease # NoToken, lease |-> lease, phase |-> "solving"]
      <4>5. x.by = a /\ executions' = executions \cup {x} /\ leases' = leases
        BY <4>3, <4>4 DEF BeginExecution
      <4> HIDE DEF x
      <4> QED
        BY <4>5
    <3>2. \A w \in Worker : StartsNothing(w)
      BY <3>1 DEF StartsNothing, Planner
    <3> QED
      BY <1>5, <2>1, <3>1, <3>2, HeldIsLease DEF WorkersLease
  <2>4. ASSUME NEW c \in leases, c.interactive, ForgetLease(c)
        PROVE  Goal
    <3>1. leases' = leases \ {c} /\ executions' = executions
      BY <2>4 DEF ForgetLease
    <3>2. \A w \in Worker : \A d \in proc[w].held : d \in leases'
      BY <2>4, <3>1, HeldIsLease DEF WorkersLease
    <3> QED
      BY <1>3, <1>5, <2>1, <3>1, <3>2
  <2> QED
    BY <1>15, <2>2, <2>3, <2>4 DEF PlannerStep
<1>16. ASSUME TimePasses \/ UNCHANGED workerVars
       PROVE  Goal
  <2>1. proc' = proc /\ executions' = executions /\ leases' = leases
    BY <1>16 DEF TimePasses, Tick, workerVars
  <2> QED
    BY <1>3, <1>5, <2>1, HeldIsLease DEF WorkersLease
<1> HIDE DEF Goal
<1>17. Goal
  BY <1>6, <1>8, <1>9, <1>10, <1>11, <1>12, <1>13, <1>14, <1>15, <1>16 DEF WorkerNext
<1> QED
  BY <1>17 DEF Goal

-----------------------------------------------------------------------------
(* The theorems.                                                            *)

LEMMA InitWInv == WorkerInit => WInv
BY InitIInv, QueueAssumption
DEF WorkerInit, Init, NewRun, WInv, Process, OwnerInv, LeaseInv, ProcessInv, SolvesNothing, NoAnswer

LEMMA NextWInv == WInv /\ [WorkerNext]_workerVars => WInv'
<1> SUFFICES ASSUME WInv, [WorkerNext]_workerVars PROVE WInv'
  OBVIOUS
<1>1. IInv'
  BY StepOfQueue, NextIInv DEF WInv
<1> QED
  BY <1>1, StepKeepsThreads, StepKeepsProcesses DEF WInv, LeasesInv, ThreadsInv

LEMMA WInvKeepsClaims == WInv => ClaimsKept
<1> SUFFICES ASSUME WInv PROVE ClaimsKept
  OBVIOUS
<1>1. HeartbeatKeepsClaim
  <2> SUFFICES ASSUME NEW b \in beats, run[b.lease.run].status = "Running",
                      run[b.lease.run].lease = b.lease.token, ~b.stop
               PROVE  /\ run[b.lease.run].leaseLeft > 0
                      /\ run[b.lease.run].exec # NoToken => run[b.lease.run].execLeft > 0
    BY DEF HeartbeatKeepsClaim
  <2> DEFINE m == run[b.lease.run]
  <2>1. b \in Heartbeat /\ b.lease \in Lease /\ b.lease.run \in Run /\ Covered(b, m)
    BY DEF WInv, BeatInv, Heartbeat, Lease
  <2>2. m \in RunRecord /\ RecordInv(m) /\ OwnerInv(m)
    BY <2>1 DEF WInv, IInv, TypeOK
  <2>3. m.leaseLeft > 0
    <3>1. /\ m.leaseLeft \in Nat /\ b.left \in Int /\ b.left >= -MaxLateness
          /\ m.leaseLeft >= LeaseSeconds - HeartbeatSeconds + b.left
      BY <2>1, <2>2, WorkerAssumption DEF RunRecord, Heartbeat, Covered
    <3> QED
      BY <3>1, QueueAssumption, WorkerAssumption
  <2>4. m.worker # Nobody
    BY <2>1, <2>2, QueueAssumption DEF OwnerInv, Lease
  <2> QED
    BY <2>2, <2>3, <2>4 DEF RecordInv
<1>2. OneSolverPerWorker
  <2> SUFFICES ASSUME NEW w \in Worker
               PROVE  Cardinality({e \in executions : e.by = w}) <= 1
    BY DEF OneSolverPerWorker
  <2> DEFINE S == {e \in executions : e.by = w}
  <2>1. \A e, f \in S : e = f
    BY DEF WInv, ProcessInv
  <2>2. S = {} \/ \E e : S = {e}
    BY <2>1
  <2> HIDE DEF S
  <2>3. Cardinality(S) <= 1
    <3>1. CASE S = {}
      BY <3>1, FS_EmptySet
    <3>2. ASSUME NEW e, S = {e} PROVE Cardinality(S) = 1
      BY <3>2, FS_Singleton
    <3> QED
      BY <2>2, <3>1, <3>2
  <2> QED
    BY <2>3 DEF S
<1> QED
  BY <1>1, <1>2 DEF ClaimsKept

\* A living heartbeat keeps the lease and the execution claim, and a worker has
\* one solver at most, for any number of workers, planners and runs and any
\* lengths that satisfy WorkerAssumption.
THEOREM ClaimsAreKept == WorkerSpec => []ClaimsKept
<1>1. WorkerInit => WInv
  BY InitWInv
<1>2. WInv /\ [WorkerNext]_workerVars => WInv'
  BY NextWInv
<1>3. WInv => ClaimsKept
  BY WInvKeepsClaims
<1> QED
  BY <1>1, <1>2, <1>3, PTL DEF WorkerSpec

\* What is proved of the queue holds of the queue the workers work on: they
\* and the planners take no other steps.
THEOREM WorkersUseTheQueue == WorkerSpec => Spec
<1>1. WorkerInit => Init
  BY DEF WorkerInit
<1>2. WInv /\ [WorkerNext]_workerVars => [Next]_vars
  BY StepOfQueue
<1>3. WorkerInit => WInv
  BY InitWInv
<1>4. WInv /\ [WorkerNext]_workerVars => WInv'
  BY NextWInv
<1> QED
  BY <1>1, <1>2, <1>3, <1>4, PTL DEF WorkerSpec, Spec
=============================================================================
