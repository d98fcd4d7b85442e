-------------------------- MODULE PlanningRunQueue --------------------------
(***************************************************************************)
(* The life of a Planning Run in sdbr/api.py: it is created, enqueued,     *)
(* claimed under a lease by a worker or executed directly by a planner,    *)
(* solved outside every lock, and finalized by one atomic store update.    *)
(* Leases and execution claims run out by the server's clock; workers and  *)
(* the server crash; failures are retried, dead-lettered and recovered.    *)
(*                                                                         *)
(* Every action here is one atomic update of the store (StateStore says    *)
(* why that is sound).  An instant that is only ever compared with the     *)
(* server's clock, such as LeaseExpiresAt, is kept as the time left until  *)
(* it: 0 means "not after now", which is also how the code reads an absent *)
(* instant.  The hash of a random token is an element of Token that nobody *)
(* else holds.  Runs of a paused solver backend, which every handler       *)
(* refuses, are not modelled.                                              *)
(***************************************************************************)
EXTENDS Integers, FiniteSets

CONSTANTS
  Run,                  \* RunID
  Actor,                \* workers and planners (WorkerID, ExecutedBy)
  Token,                \* lease tokens and execution tokens
  Nobody, NoToken,      \* an absent actor, an absent token
  Instant,              \* client-supplied EnqueuedAt / RequestedAt, as ranks
  LeaseSeconds,         \* length of a lease
  DirectClaimSeconds,   \* TimeLimitSeconds + _DIRECT_EXECUTION_CLAIM_GRACE_SECONDS
  RetryDelaySeconds,
  MaxClientSkew,        \* how far in the future a client's EnqueuedAt may lie
  AttemptLimit,         \* the MaxAttempts a client may enqueue a run with
  AttemptCap,           \* bound: AttemptCount saturates here, above every limit
  MaxExecutions         \* bound: ExecutionVersion stops here

ASSUME QueueAssumption ==
  /\ Nobody \notin Actor /\ NoToken \notin Token
  /\ Instant \subseteq Nat /\ Instant # {}
  /\ LeaseSeconds \in Nat \ {0} /\ DirectClaimSeconds \in Nat \ {0}
  /\ RetryDelaySeconds \in Nat /\ MaxClientSkew \in Nat
  /\ AttemptLimit \subseteq Nat \ {0} /\ MaxExecutions \in Nat
  /\ AttemptCap \in Nat /\ \A n \in AttemptLimit : n < AttemptCap

VARIABLES
  run,          \* planning_runs
  executions,   \* execute requests whose solver is running in a server thread
  leases        \* the lease tokens handed out and still held by somebody

vars == <<run, executions, leases>>

Status == {"Absent", "Pending", "Queued", "Running", "Completed", "Failed",
           "DeadLetter", "Cancelled"}

\* What a solver reports: its plan, a failure worth retrying (Error,
\* Unavailable, TimeLimit), or one that is not (Infeasible).
Verdict == {"Solved", "Retryable", "NonRetryable"}

RunRecord ==
  [status: Status, queuedAt: Nat, waitLeft: Nat, attempts: Nat, maxAttempts: Nat,
   worker: Actor \cup {Nobody}, lease: Token \cup {NoToken}, leaseLeft: Nat,
   exec: Token \cup {NoToken}, execBy: Actor \cup {Nobody}, execLeft: Nat,
   version: Nat, finalized: Nat]

Execution ==
  [run: Run, by: Actor, token: Token, version: Nat, viaLease: BOOLEAN,
   lease: Token \cup {NoToken}, phase: {"solving", "compensating"}]

\* interactive: the token never left the server thread of process-queued.
Lease == [run: Run, worker: Actor, token: Token, interactive: BOOLEAN]

NewRun ==
  [status |-> "Absent", queuedAt |-> 0, waitLeft |-> 0, attempts |-> 0, maxAttempts |-> 0,
   worker |-> Nobody, lease |-> NoToken, leaseLeft |-> 0,
   exec |-> NoToken, execBy |-> Nobody, execLeft |-> 0,
   version |-> 0, finalized |-> 0]

Init ==
  /\ run = [r \in Run |-> NewRun]
  /\ executions = {}
  /\ leases = {}

-----------------------------------------------------------------------------
(* Predicates of the handlers.                                             *)

FreshLeaseToken ==
  Token \ ({run[r].lease : r \in Run} \cup {c.token : c \in leases}
             \cup {e.lease : e \in executions})

FreshExecutionToken ==
  Token \ ({run[r].exec : r \in Run} \cup {e.token : e \in executions})

\* _planning_run_ready_for_claim
Ready(m) == m.status = "Queued" /\ m.waitLeft = 0

\* Deviations of LeaseExpired: an absent lease is taken for an expired one; a
\* lease only counts once execution began; a direct execution never expires.
LeaseExpiredWithoutLease(m) == m.status = "Running" /\ m.leaseLeft = 0
LeaseExpiredOnlyExecuting(m) ==
  /\ m.status = "Running" /\ m.exec # NoToken
  /\ IF m.worker # Nobody THEN m.leaseLeft = 0 ELSE m.execLeft = 0
LeaseExpiredWorkersOnly(m) == m.status = "Running" /\ m.worker # Nobody /\ m.leaseLeft = 0

\* _planning_run_lease_expired: a worker's lease decides when there is one,
\* the expiry of the direct execution claim otherwise.
LeaseExpired(m) ==
  /\ m.status = "Running"
  /\ \/ m.worker # Nobody /\ m.leaseLeft = 0
     \/ m.worker = Nobody /\ m.exec # NoToken /\ m.execLeft = 0

\* The candidates of claim-next: the oldest by EnqueuedAt or RequestedAt.
Claimable(r) == Ready(run[r]) \/ LeaseExpired(run[r])
NextInQueue ==
  {r \in Run : Claimable(r) /\ \A s \in Run : Claimable(s) => run[r].queuedAt <= run[s].queuedAt}

\* _planning_run_execution_lease_error finds no error.
HoldsLease(c) ==
  LET m == run[c.run]
  IN  m.worker = c.worker /\ m.lease = c.token /\ m.leaseLeft > 0

\* ownership_matches in persist_execution_finalization
OwnsExecution(e) ==
  LET m == run[e.run]
  IN  /\ m.status = "Running"
      /\ m.version = e.version
      /\ m.execBy = e.by
      /\ m.exec = e.token
      /\ e.viaLease => m.worker = e.by /\ m.lease = e.lease

\* _planning_run_execution_claim_expiry_error finds no error.
ClaimCurrent(e) ==
  LET m == run[e.run]
  IN  m.execLeft > 0 /\ (e.viaLease => m.leaseLeft > 0)

\* Status of the finalized run before its reservations are looked at: only a
\* worker's failure goes through _apply_planning_run_failure_policy.
SolvedStatus(m, viaLease, verdict) ==
  CASE verdict = "Solved" -> "Completed"
    [] verdict # "Solved" /\ ~viaLease -> "Failed"
    [] verdict = "Retryable" /\ viaLease /\ m.attempts < m.maxAttempts -> "Queued"
    [] OTHER -> "DeadLetter"

\* Deviation of FinalStatus: a direct run takes over the solver's own status.
FinalStatusUnmapped(m, viaLease, verdict, reservationError) ==
  IF viaLease THEN SolvedStatus(m, viaLease, verdict) ELSE verdict

\* A reservation error makes the run Failed.
FinalStatus(m, viaLease, verdict, reservationError) ==
  IF reservationError THEN "Failed" ELSE SolvedStatus(m, viaLease, verdict)

NextAttempt(m) == IF m.attempts < AttemptCap THEN m.attempts + 1 ELSE m.attempts

-----------------------------------------------------------------------------
(* Operations of the planner.  An operator named for a past participle is   *)
(* the record m after the update an operation makes.                       *)

Created(m, status, at, limit) ==
  [m EXCEPT !.status = status, !.queuedAt = at, !.maxAttempts = limit]

\* POST planning-runs, and the planner's acceptance of an order commitment,
\* whose run is born queued.
Create(r) ==
  /\ run[r].status = "Absent"
  /\ \E status \in {"Pending", "Queued"}, at \in Instant, limit \in AttemptLimit :
       run' = [run EXCEPT ![r] = Created(run[r], status, at, limit)]
  /\ UNCHANGED <<executions, leases>>

Enqueued(m, at, skew, limit) ==
  [m EXCEPT !.status = "Queued", !.queuedAt = at, !.waitLeft = skew,
            !.attempts = 0, !.maxAttempts = limit]

\* POST {run}/enqueue: NextAttemptAt is the client's EnqueuedAt.
Enqueue(r) ==
  /\ run[r].status = "Pending"
  /\ \E at \in Instant, skew \in 0..MaxClientSkew, limit \in AttemptLimit :
       run' = [run EXCEPT ![r] = Enqueued(run[r], at, skew, limit)]
  /\ UNCHANGED <<executions, leases>>

\* Deviation of Cancel: a run waiting in the queue is withdrawn as well.
CancelQueued(r) ==
  /\ run[r].status \in {"Pending", "Queued"}
  /\ run' = [run EXCEPT ![r].status = "Cancelled"]
  /\ UNCHANGED <<executions, leases>>

\* POST {run}/cancel
Cancel(r) ==
  /\ run[r].status = "Pending"
  /\ run' = [run EXCEPT ![r].status = "Cancelled"]
  /\ UNCHANGED <<executions, leases>>

Recovered(m, attempts, skew) ==
  [m EXCEPT !.status = "Queued", !.attempts = attempts, !.waitLeft = skew,
            !.exec = NoToken, !.execLeft = 0, !.lease = NoToken, !.leaseLeft = 0]

\* Deviation of Recover: any run that is not under way can be recovered.
RecoverUnlessActive(r) ==
  /\ run[r].status \in {"Completed", "Cancelled", "Failed", "DeadLetter"}
  /\ run' = [run EXCEPT ![r] = Recovered(run[r], 0, 0)]
  /\ UNCHANGED <<executions, leases>>

\* POST {run}/recover: the planner may reset AttemptCount.
Recover(r) ==
  /\ run[r].status \in {"Failed", "DeadLetter"}
  /\ \E attempts \in {0, run[r].attempts}, skew \in 0..MaxClientSkew :
       run' = [run EXCEPT ![r] = Recovered(run[r], attempts, skew)]
  /\ UNCHANGED <<executions, leases>>

-----------------------------------------------------------------------------
(* Claims and leases.                                                      *)

\* The record a worker leaves behind when it claims r; taking over an expired
\* run invalidates the execution claim it still carries.
Claimed(m, w, t) ==
  LET recovered == m.status = "Running"
  IN  [m EXCEPT !.status = "Running", !.worker = w, !.lease = t,
                !.leaseLeft = LeaseSeconds, !.attempts = NextAttempt(m),
                !.exec = IF recovered THEN NoToken ELSE @,
                !.execBy = IF recovered THEN Nobody ELSE @,
                !.execLeft = IF recovered THEN 0 ELSE @]

\* POST jobs/claim-next
ClaimNext(w) ==
  /\ \E r \in NextInQueue, t \in FreshLeaseToken :
       /\ run' = [run EXCEPT ![r] = Claimed(run[r], w, t)]
       /\ leases' = leases \cup
            {[run |-> r, worker |-> w, token |-> t, interactive |-> FALSE]}
  /\ UNCHANGED executions

\* POST {run}/process-queued, its first update; ExecuteWithLease follows in
\* the same request.
ProcessQueued(w, r) ==
  /\ Ready(run[r])
  /\ \E t \in FreshLeaseToken :
       /\ run' = [run EXCEPT ![r] = Claimed(run[r], w, t)]
       /\ leases' = leases \cup
            {[run |-> r, worker |-> w, token |-> t, interactive |-> TRUE]}
  /\ UNCHANGED executions

\* Deviation of Renewed: the execution claim is forgotten.
RenewedLeaseOnly(m) == [m EXCEPT !.leaseLeft = LeaseSeconds]

\* One expiry is written to the lease and to the execution claim on it.
Renewed(m) ==
  [m EXCEPT !.leaseLeft = LeaseSeconds,
            !.execLeft = IF m.exec # NoToken THEN LeaseSeconds ELSE @]

\* POST {run}/renew-lease
RenewLease(c) ==
  /\ run[c.run].status = "Running" /\ HoldsLease(c)
  /\ run' = [run EXCEPT ![c.run] = Renewed(run[c.run])]
  /\ UNCHANGED <<executions, leases>>

\* The holder is done with the lease or has crashed (its answer was lost).
ForgetLease(c) ==
  /\ leases' = leases \ {c}
  /\ UNCHANGED <<run, executions>>

-----------------------------------------------------------------------------
(* POST {run}/execute: claim, solve without a lock, finalize.              *)

Executing(m, a, t, left) ==
  [m EXCEPT !.status = "Running", !.exec = t, !.execBy = a, !.execLeft = left,
            !.version = @ + 1]

\* persist_execution_claim for the run r, by actor a, valid for `left`.
BeginExecution(r, a, left, lease) ==
  /\ run[r].exec = NoToken
  /\ run[r].version < MaxExecutions
  /\ \E t \in FreshExecutionToken :
       /\ run' = [run EXCEPT ![r] = Executing(run[r], a, t, left)]
       /\ executions' = executions \cup
            {[run |-> r, by |-> a, token |-> t, version |-> run[r].version + 1,
              viaLease |-> lease # NoToken, lease |-> lease, phase |-> "solving"]}
  /\ UNCHANGED leases

ExecuteDirect(a, r) ==
  /\ run[r].status = "Pending"
  /\ BeginExecution(r, a, DirectClaimSeconds, NoToken)

ExecuteWithLease(c) ==
  /\ run[c.run].status = "Running" /\ HoldsLease(c)
  /\ BeginExecution(c.run, c.worker, run[c.run].leaseLeft, c.token)

\* The failure policy drops the lease; a success keeps it.
Finalized(m, e, verdict, reservationError) ==
  LET s == SolvedStatus(m, e.viaLease, verdict)
      policy == e.viaLease /\ s # "Completed"
  IN  [m EXCEPT !.status = FinalStatus(m, e.viaLease, verdict, reservationError),
                !.waitLeft = IF s = "Queued" THEN RetryDelaySeconds ELSE @,
                !.lease = IF policy THEN NoToken ELSE @,
                !.leaseLeft = IF policy THEN 0 ELSE @,
                !.exec = NoToken, !.execLeft = 0, !.finalized = e.version]

\* persist_execution_finalization commits; a retry leaves the graph alone.
Finalize(e, verdict, reservationError) ==
  LET m == run[e.run]
  IN
  /\ e.phase = "solving" /\ OwnsExecution(e) /\ ClaimCurrent(e)
  /\ reservationError => SolvedStatus(m, e.viaLease, verdict) # "Queued"
  /\ run' = [run EXCEPT ![e.run] = Finalized(m, e, verdict, reservationError)]
  /\ executions' = executions \ {e}
  /\ UNCHANGED leases

\* The finalization is refused (ExecutionOwnershipLost, LeaseExpired,
\* ExecutionClaimExpired) and the result thrown away.
RefuseFinalization(e) ==
  /\ e.phase = "solving" /\ ~(OwnsExecution(e) /\ ClaimCurrent(e))
  /\ executions' = executions \ {e}
  /\ UNCHANGED <<run, leases>>

\* The finalization update raises and is rolled back.  A direct execution is
\* compensated by a second update; a worker's is left to its lease.
FailFinalization(e) ==
  /\ e.phase = "solving" /\ OwnsExecution(e) /\ ClaimCurrent(e)
  /\ executions' = (executions \ {e}) \cup
       IF e.viaLease THEN {} ELSE {[e EXCEPT !.phase = "compensating"]}
  /\ UNCHANGED <<run, leases>>

\* Deviation of Compensated: the status is forgotten.
CompensatedStillRunning(m) == [m EXCEPT !.exec = NoToken, !.execLeft = 0]

Compensated(m) ==
  [m EXCEPT !.status = "Failed", !.exec = NoToken, !.execLeft = 0]

\* persist_direct_finalization_error: ownership is checked again, the expiry
\* is not.  An execution that lost its run meanwhile changes nothing, nor does
\* one whose second update fails as well.
Compensate(e) ==
  /\ e.phase = "compensating"
  /\ \/ OwnsExecution(e) /\ run' = [run EXCEPT ![e.run] = Compensated(run[e.run])]
     \/ UNCHANGED run
  /\ executions' = executions \ {e}
  /\ UNCHANGED leases

-----------------------------------------------------------------------------
(* The environment.                                                        *)

\* The server process dies: its threads are gone, the database remains.
ServerRestart ==
  /\ executions # {}
  /\ executions' = {}
  /\ leases' = {c \in leases : ~c.interactive}
  /\ UNCHANGED run

Elapse(n) == IF n > 0 THEN n - 1 ELSE 0

Aged(m) ==
  [m EXCEPT !.waitLeft = Elapse(@), !.leaseLeft = Elapse(@), !.execLeft = Elapse(@)]

\* A second of the server's clock.
Tick ==
  /\ run' = [r \in Run |-> Aged(run[r])]
  /\ UNCHANGED <<executions, leases>>

Next ==
  \/ \E r \in Run : Create(r) \/ Enqueue(r) \/ Cancel(r) \/ Recover(r)
  \/ \E a \in Actor : ClaimNext(a)
  \/ \E a \in Actor, r \in Run : ProcessQueued(a, r) \/ ExecuteDirect(a, r)
  \/ \E c \in leases : RenewLease(c) \/ ExecuteWithLease(c) \/ ForgetLease(c)
  \/ \E e \in executions, v \in Verdict, err \in BOOLEAN : Finalize(e, v, err)
  \/ \E e \in executions :
       RefuseFinalization(e) \/ FailFinalization(e) \/ Compensate(e)
  \/ ServerRestart
  \/ Tick

Spec == Init /\ [][Next]_vars

\* Per run: the solver has a time limit, so an execute request ends; the client
\* lets its lease go (planning_worker.run_once).  Time passes, and some worker
\* polls the queue (run_forever).
EndExecution(r) ==
  \E e \in executions :
    /\ e.run = r
    /\ \/ RefuseFinalization(e) \/ Compensate(e)
       \/ \E v \in Verdict, err \in BOOLEAN : Finalize(e, v, err)

ReleaseLease(r) == \E c \in leases : c.run = r /\ ForgetLease(c)

Fairness ==
  /\ \A r \in Run : WF_vars(EndExecution(r)) /\ WF_vars(ReleaseLease(r))
  /\ WF_vars(Tick)
  /\ WF_vars(\E a \in Actor : ClaimNext(a))

FairSpec == Spec /\ Fairness

-----------------------------------------------------------------------------
(* What the queue promises.                                                *)

\* Every field of every record has its type.
TypeOK ==
  /\ run \in [Run -> RunRecord]
  /\ executions \subseteq Execution
  /\ leases \subseteq Lease

\* An execution claim exists only on a running run (a token left on a queued
\* run would make every later execute answer ExecutionAlreadyClaimed), and a
\* running run always has a worker's lease or an execution claim, so there is
\* an expiry after which claim-next can take it: no run is stranded in Running.
NeverStranded ==
  \A r \in Run :
    /\ run[r].exec # NoToken => run[r].status = "Running"
    /\ run[r].status = "Running" => run[r].worker # Nobody \/ run[r].exec # NoToken

\* The two expiry tests agree: claim-next may take a run from the request that
\* owns its execution exactly when that request's finalization is refused.
\* They read different fields (the queue only LeaseExpiresAt of a worker's run,
\* the finalization both expiries), kept equal by execute and renew-lease.
ReclaimableIffRefused ==
  \A e \in executions :
    OwnsExecution(e) => (LeaseExpired(run[e.run]) <=> ~ClaimCurrent(e))

\* A result is only ever written by the latest execution claim of its run, and
\* by each claim once: the solver of an earlier claim, whatever it was doing
\* while its lease expired, changes nothing.
LatestClaimFinalizes ==
  [][\A r \in Run :
       run'[r].finalized # run[r].finalized =>
         run'[r].finalized = run[r].version /\ run[r].finalized < run[r].version]_vars

\* While an execution is current nobody else touches its run: worker, lease
\* and execution token change only in the step that writes its result.
CurrentOwnerUndisturbed ==
  [][\A e \in executions :
       OwnsExecution(e) /\ ClaimCurrent(e) =>
         \/ run'[e.run].finalized = e.version
         \/ /\ run'[e.run].status = "Running"
            /\ run'[e.run].exec = e.token
            /\ run'[e.run].worker = run[e.run].worker
            /\ run'[e.run].lease = run[e.run].lease
         \/ e.phase = "compensating"]_vars

\* The numbered, exclusive executions that ExclusiveExecution specifies, seen
\* in the run records: a run is executing while it carries an execution token.
Phase(m) ==
  CASE m.exec # NoToken -> "executing"
    [] m.exec = NoToken /\ m.status \in {"Failed", "DeadLetter"} -> "failed"
    [] m.exec = NoToken /\ m.status \in {"Completed", "Cancelled"} -> "final"
    [] OTHER -> "waiting"

Exclusive == INSTANCE ExclusiveExecution WITH
  phase <- [r \in Run |-> Phase(run[r])],
  epoch <- [r \in Run |-> run[r].version],
  result <- [r \in Run |-> run[r].finalized]

\* Whatever crashes, expiries and late answers do, the executions of a run are
\* one at a time, each writes at most one result, and Completed is for ever.
ImplementsExclusiveExecution == Exclusive!Spec

Lifecycle == INSTANCE RunLifecycle WITH status <- [r \in Run |-> run[r].status]

\* Runs change their status only as RunLifecycle says, which is all that
\* PlanningReservations assumes of them.
ImplementsRunLifecycle == Lifecycle!Spec

\* A lease whose holder has gone is not held for ever: the run is finished or
\* claimed again under another lease.
AbandonedLeaseEnds ==
  \A r \in Run, t \in Token :
    run[r].status = "Running" /\ run[r].lease = t
      ~> run[r].status # "Running" \/ run[r].lease # t

\* The same of a direct execution, which has no lease.
AbandonedExecutionEnds ==
  \A r \in Run, t \in Token : run[r].exec = t ~> run[r].exec # t
=============================================================================
