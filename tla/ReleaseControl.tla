--------------------------- MODULE ReleaseControl ---------------------------
(***************************************************************************)
(* From a schedule to the floor: requests to plan anew (replanning.py), the *)
(* candidates for release (release_candidates.py), decision packages,       *)
(* release authorizations, the dispatch queue, and the events by which the  *)
(* floor answers.                                                          *)
(*                                                                         *)
(* An order is authorized along one of two paths: from a completed Planning *)
(* Run, under the release-management gate, or from a completed replan       *)
(* request, with or without a decision package.  Both write one list.       *)
(*                                                                         *)
(* A schedule gives an order its release, start and end; one operation per  *)
(* order and one resource.  The Planning Runs here are completed and do not *)
(* change.  A write request runs under state_admission, and a failed one     *)
(* leaves the memory as it found it: each action is one request.            *)
(***************************************************************************)
EXTENDS ShopFloor

CONSTANTS
  Order,
  Run,            \* completed Planning Runs of the one problem
  RunSchedule,    \* their schedules
  Schedule,       \* what the solver may answer a replan with
  Item,
  Required,       \* of each item, the quantity an order needs
  State,          \* contents of operational states: stock and WIP
  FirstState,     \* the one all runs were planned with
  Policy,         \* release policies
  RunPolicy,      \* the one frozen with each run, or Nothing
  MaxAge,         \* OperationalStateMaxAgeMinutes
  FreezeWindow,
  JumpThreshold,  \* DISPATCH_REPLAN_THRESHOLD
  Later           \* which orders come later by due date and name

ASSUME ReleaseAssumption ==
  /\ MaxAge \in Nat \ {0} /\ FreezeWindow \in Nat
  /\ FirstState \in State /\ Nothing \notin Policy /\ Nothing \notin Schedule
  /\ \A plan \in Schedule \cup {RunSchedule[run] : run \in Run} : \A o \in DOMAIN plan :
       plan[o] \in [release : Int, start : Int, end : Int]

VARIABLES
  requests,        \* replan_requests: the status by identity
  schedules,       \* replan_schedule_snapshots, by identity
  snapshots,       \* operational_state_snapshots, in the order of their creation
  packages,        \* release_decision_packages
  authorizations,  \* release_authorizations
  locks,           \* the lock commands among audit_events
  issued           \* dispatch packages sent to the MES, by their digest

releaseVars == <<events, requests, schedules, snapshots, packages, authorizations, locks, issued>>

ReleaseInit ==
  /\ requests = <<>> /\ schedules = <<>>
  /\ snapshots = <<[at |-> 0, state |-> FirstState]>>
  /\ packages = {} /\ authorizations = {}
  /\ locks = <<>> /\ issued = <<>> /\ events = <<>>

-----------------------------------------------------------------------------
(* Release candidates.                                                     *)

\* What keeps an item below its red zone; an inbound in time is waited for.
Risk(state, o, i, start, policy) ==
  LET stock == state.stock[i]
      lookahead == IF policy = Nothing THEN 0 ELSE policy.lookahead
      left == stock.onHand - stock.allocated - Required[o][i]
      covered == stock.inboundAt # Nothing /\ left + stock.inbound >= stock.red
  IN  CASE left >= stock.red \/ Required[o][i] = 0 -> "None"
        [] left < stock.red /\ Required[o][i] # 0 /\ ~covered -> "Short"
        [] left < stock.red /\ Required[o][i] # 0 /\ covered
             /\ stock.inboundAt > start + lookahead -> "InboundLate"
        [] OTHER -> IF stock.inboundAt > start THEN "None" ELSE "InboundPending"

MaterialStatus(state, o, start, policy) ==
  LET risks == {Risk(state, o, i, start, policy) : i \in Item} \ {"None"}
  IN  CASE risks = {} -> "Clear"
        [] risks = {"InboundPending"} -> "PendingInbound"
        [] OTHER -> "Blocked"

\* Every candidate is compared with the same count, none counts another one.
WipBlocked(state, policy) ==
  \E scope \in state.wip :
    \/ scope.current + scope.increment > scope.max
    \/ /\ policy # Nothing /\ policy.maxWip # Nothing
       /\ scope.current + scope.increment > policy.maxWip

RecommendedAction(plan, o, state, at, policy) ==
  LET material == MaterialStatus(state, o, plan[o].start, policy)
  IN  CASE material = "Blocked" -> "ExpediteMaterial"
        [] material = "PendingInbound" -> "WaitForInbound"
        [] material = "Clear" /\ WipBlocked(state, policy) -> "HoldForWip"
        [] material = "Clear" /\ ~WipBlocked(state, policy) /\ at < plan[o].release
             -> "HoldUntilRope"
        [] OTHER -> "ReadyForRelease"

Candidates(plan, state, at, policy) ==
  [o \in DOMAIN plan |->
     [plan |-> plan[o], action |-> RecommendedAction(plan, o, state, at, policy)]]

Fresh(capturedAt, at) == capturedAt <= at /\ at - capturedAt <= MaxAge

\* _operational_state_snapshot_for_release_evaluation: the requested one, else
\* the latest taken by then, else the one the run was planned with.
SnapshotOf(at, useLatest, requested) ==
  LET taken == {n \in DOMAIN snapshots : snapshots[n].at <= at}
      latest == {n \in taken : \A m \in taken : snapshots[m].at <= snapshots[n].at}
  IN  CASE requested # Nothing -> requested
        [] requested = Nothing /\ useLatest /\ taken # {}
             -> CHOOSE n \in latest : \A m \in latest : n <= m
        [] OTHER -> 1

-----------------------------------------------------------------------------
(* Requests to plan anew.                                                  *)

Identity(o, planned, reason, source, reference) ==
  [order |-> o, planned |-> planned, reason |-> reason, source |-> source,
   reference |-> reference]

\* A known identity keeps its request, whatever became of it.
Enqueue(ids) ==
  requests' = [i \in DOMAIN requests \cup ids |->
                 IF i \in DOMAIN requests THEN requests[i] ELSE "PendingReview"]

\* POST /planner/workbench/release; the caller counts the blocked attempts.
AskForRelease(o, suggested, at, risk, blocked, lastReplan) ==
  LET allowed == at >= suggested /\ ~risk
      reason == ReplanReason(suggested, at, allowed,
                             IF allowed THEN 0 ELSE blocked + 1, lastReplan)
  IN  /\ reason # Nothing
      /\ Enqueue({Identity(o, suggested, reason, "ReleaseStability", Nothing)})
      /\ UNCHANGED <<events, schedules, snapshots, packages, authorizations, locks, issued>>

\* POST .../execution-replan-requests of a package.
AskAfterVariance(package, lastReplan) ==
  LET basis(a) == Basis(events, a)
      reason(a) == IF basis(a) = Nothing THEN Nothing
                   ELSE ReplanReason(basis(a)[1], basis(a)[2], TRUE, 0, lastReplan)
      late == {a \in authorizations : a.package = package /\ reason(a) # Nothing}
  IN  /\ package \in packages /\ late # {}
      /\ Enqueue({Identity(a.order, basis(a)[1], reason(a), "ExecutionVariance", package) :
                    a \in late})
      /\ UNCHANGED <<events, schedules, snapshots, packages, authorizations, locks, issued>>

Decide(r, status) ==
  /\ requests[r] = "PendingReview"
  /\ requests' = [requests EXCEPT ![r] = status]
  /\ UNCHANGED <<events, schedules, snapshots, packages, authorizations, locks, issued>>

\* Lock commands sorted by the time they carry.
LockedOrders(s, run) ==
  LET about(o) == {n \in DOMAIN s : s[n].run = run /\ o \in s[n].orders}
  IN  {o \in Order : about(o) # {} /\ s[Latest(s, about(o))].locked}

\* Locked orders of the source run, and those that start inside the window.
FixedOrders(source, from) ==
  {o \in DOMAIN RunSchedule[source] :
     \/ o \in LockedOrders(locks, source)
     \/ FreezeWindow > 0 /\ RunSchedule[source][o].start <= from + FreezeWindow}

\* Deviation of MayExecute: a settled request is planned again.
MayExecuteSettled(r) == requests[r] \in {"Approved", "Completed", "Failed"}

MayExecute(r) == requests[r] = "Approved"

\* Deviation of AfterFailure: the memory is not restored.
AfterFailureKept(before, during) == during

\* What a refused or failed request leaves in memory.
AfterFailure(before, during) == before

\* The request is Running in memory when an unknown objective strategy or the
\* solver ends it with an error.
ExecuteInVain(r) ==
  /\ MayExecute(r)
  /\ requests' = AfterFailure(requests, [requests EXCEPT ![r] = "Running"])
  /\ UNCHANGED <<events, schedules, snapshots, packages, authorizations, locks, issued>>

\* The source run is named by the message or is the latest completed one.  The
\* answer of the solver is a schedule that keeps what is fixed, or none.
Execute(r, source, from, answer) ==
  /\ MayExecute(r)
  /\ answer # Nothing =>
       \A o \in FixedOrders(source, from) \cap DOMAIN answer :
         answer[o].start = RunSchedule[source][o].start
  /\ requests' = [requests EXCEPT ![r] = IF answer = Nothing THEN "Failed" ELSE "Completed"]
  /\ schedules' = [i \in IF answer = Nothing THEN DOMAIN schedules \ {r}
                         ELSE DOMAIN schedules \cup {r} |->
                     IF i = r THEN answer ELSE schedules[i]]
  /\ UNCHANGED <<events, snapshots, packages, authorizations, locks, issued>>

\* Lock and unlock commands for orders of a run; only an audit event is written.
Command(run, orders, locked, at) ==
  /\ orders \subseteq DOMAIN RunSchedule[run]
  /\ locks' = Append(locks, [run |-> run, orders |-> orders, locked |-> locked, at |-> at])
  /\ UNCHANGED <<events, requests, schedules, snapshots, packages, authorizations, issued>>

-----------------------------------------------------------------------------
(* Operational states.                                                     *)

Capture(at, state) ==
  /\ snapshots' = Append(snapshots, [at |-> at, state |-> state])
  /\ UNCHANGED <<events, requests, schedules, packages, authorizations, locks, issued>>

\* The mock refresh copies a snapshot and gives it the time of the evaluation.
MockRefresh(at, requested) ==
  Capture(at, snapshots[SnapshotOf(at, TRUE, requested)].state)

-----------------------------------------------------------------------------
(* Decision packages and authorizations.                                   *)

IsPlanned(r) == r \in DOMAIN requests /\ requests[r] = "Completed" /\ r \in DOMAIN schedules

\* A package is named by its contents: the same contents are the same package.
Package(r, n, at) ==
  [request |-> r, snapshot |-> n, at |-> at,
   candidates |-> Candidates(schedules[r], snapshots[n].state, at, Nothing)]

BuildPackage(r, n, at) ==
  /\ IsPlanned(r)
  /\ packages' = packages \cup {Package(r, n, at)}
  /\ UNCHANGED <<events, requests, schedules, snapshots, authorizations, locks, issued>>

\* No run has the identity of a request: what a release follows from is one or
\* the other.
FromRun(run) == <<"PlanningRun", run>>
FromRequest(r) == <<"ReplanRequest", r>>

Authorization(from, o, at, planned, n, package, policy) ==
  [from |-> from, order |-> o, at |-> at, release |-> planned.release,
   start |-> planned.start, end |-> planned.end, snapshot |-> n, package |-> package,
   policy |-> policy]

SameEvent(a, b) == a.from = b.from /\ a.order = b.order /\ a.at = b.at

\* The first evidence of a release event stays; other evidence is a conflict.
Authorize(a) ==
  /\ ~\E b \in authorizations : SameEvent(a, b)
  /\ authorizations' = authorizations \cup {a}
  /\ UNCHANGED <<events, requests, schedules, snapshots, packages, locks, issued>>

\* With a package: its frozen candidates, which were found without a policy.
AuthorizePackage(r, package, o, at, policy) ==
  /\ IsPlanned(r) /\ package \in packages /\ package.request = r
  /\ Fresh(snapshots[package.snapshot].at, at)
  /\ o \in DOMAIN package.candidates
  /\ package.candidates[o].action = "ReadyForRelease"
  /\ Authorize(Authorization(FromRequest(r), o, at, package.candidates[o].plan,
                             package.snapshot, package, policy))

\* Without: a snapshot, fresh when the candidates are evaluated, or the state
\* that the message brings.
AuthorizeRequest(r, o, at, evaluatedAt, n, policy) ==
  /\ IsPlanned(r) /\ o \in DOMAIN schedules[r]
  /\ \E state \in IF n = Nothing THEN State ELSE {snapshots[n].state} :
       RecommendedAction(schedules[r], o, state, evaluatedAt, policy) = "ReadyForRelease"
  /\ n # Nothing => Fresh(snapshots[n].at, evaluatedAt)
  /\ Authorize(Authorization(FromRequest(r), o, at, schedules[r][o], n, Nothing, policy))

\* The gate of release management: one candidate row, at the time of the release.
ForRun(run, o) == {a \in authorizations : a.from = FromRun(run) /\ a.order = o}

MayRelease(run, o, at, n) ==
  /\ Fresh(snapshots[n].at, at)
  /\ RecommendedAction(RunSchedule[run], o, snapshots[n].state, at, RunPolicy[run])
       = "ReadyForRelease"

\* Deviation of CanAuthorize: an order that is authorized already is no obstacle.
CanAuthorizeAgain(run, o, at, n) == MayRelease(run, o, at, n)

CanAuthorize(run, o, at, n) == MayRelease(run, o, at, n) /\ ForRun(run, o) = {}

AuthorizeRun(run, o, at, useLatest, requested) ==
  LET n == SnapshotOf(at, useLatest, requested)
  IN  /\ o \in DOMAIN RunSchedule[run] /\ CanAuthorize(run, o, at, n)
      /\ authorizations' = authorizations \cup
           {Authorization(FromRun(run), o, at, RunSchedule[run][o], n, Nothing, RunPolicy[run])}
      /\ UNCHANGED <<events, requests, schedules, snapshots, packages, locks, issued>>

-----------------------------------------------------------------------------
(* The dispatch queue of a run.                                            *)

\* Penetration of the buffer in hundredths, for the default ratios of a policy.
Elapsed(plan, at) == IF plan.start <= plan.release THEN 0 ELSE (at - plan.release) * 100
Span(plan) == IF plan.start <= plan.release THEN 1 ELSE plan.start - plan.release

ZoneRank(plan, at) ==
  CASE Elapsed(plan, at) > 100 * Span(plan) -> 0
    [] Elapsed(plan, at) <= 100 * Span(plan) /\ Elapsed(plan, at) >= 67 * Span(plan) -> 1
    [] Elapsed(plan, at) < 67 * Span(plan) /\ Elapsed(plan, at) >= 33 * Span(plan) -> 2
    [] OTHER -> 3

Penetration(plan, at) ==
  IF ZoneRank(plan, at) = 3 /\ Elapsed(plan, at) < 0 THEN 0 ELSE Elapsed(plan, at)

\* Released, still admitted by the gate, and known to the floor.
Dispatchable(run, at, n) ==
  {o \in DOMAIN RunSchedule[run] :
     /\ ~IsFinished(events, o) /\ ForRun(run, o) # {}
     /\ MayRelease(run, o, at, n) /\ FloorIsReady(events, o)}

DispatchedBefore(run, at, o, p) ==
  LET a == RunSchedule[run][o]
      b == RunSchedule[run][p]
      deep == Penetration(a, at) * Span(b)
      deeper == Penetration(b, at) * Span(a)
  IN  \/ ZoneRank(a, at) < ZoneRank(b, at)
      \/ ZoneRank(a, at) = ZoneRank(b, at) /\ deep > deeper
      \/ /\ ZoneRank(a, at) = ZoneRank(b, at) /\ deep = deeper
         /\ a.start < b.start \/ (a.start = b.start /\ p \in Later[o])

PlannedBefore(run, o, p) ==
  LET a == RunSchedule[run][o].start
      b == RunSchedule[run][p].start
  IN  a < b \/ (a = b /\ p \in Later[o])

\* An order dispatched ahead of its place in the plan jumps the queue.
Conflict(run, at, queue, o) ==
  LET open == {p \in DOMAIN RunSchedule[run] : ~IsFinished(events, p)}
      place == Cardinality({p \in queue : DispatchedBefore(run, at, p, o)})
      planned == Cardinality({p \in open : PlannedBefore(run, p, o)})
  IN  CASE place >= planned -> "FollowPlan"
        [] place < planned /\ Cardinality(QueueJumps(events)) > JumpThreshold -> "NeedsReplan"
        [] OTHER -> "SuggestQueueJump"

\* The digest names the run, the time and the snapshot, and not the queue: what
\* is sent again under a known digest is a duplicate to the integration inbox.
Digest(run, at, n) == [run |-> run, at |-> at, snapshot |-> n]

Queue(run, at, n) ==
  [o \in Dispatchable(run, at, n) |-> Conflict(run, at, Dispatchable(run, at, n), o)]

Issue(run, at, useLatest, requested) ==
  LET n == SnapshotOf(at, useLatest, requested)
      digest == Digest(run, at, n)
  IN  /\ digest \notin DOMAIN issued
      /\ issued' = [d \in DOMAIN issued \cup {digest} |->
                      IF d = digest THEN Queue(run, at, n) ELSE issued[d]]
      /\ UNCHANGED <<events, requests, schedules, snapshots, packages, authorizations, locks>>

-----------------------------------------------------------------------------
(* Events of the floor.                                                    *)

CONSTANT Notice   \* what an event may say: type, target, code, located and jump

FloorMessage(notice, o, a, at) ==
  [type |-> notice.type, order |-> o, auth |-> a, at |-> at, target |-> notice.target,
   code |-> notice.code, located |-> notice.located, jump |-> notice.jump, review |-> FALSE]

\* POST /shop-floor/execution/event: an authorization it names must be of the order.
ReportEvent(e) ==
  /\ e.auth # Nothing => e.auth \in authorizations /\ e.auth.order = e.order
  /\ Record(e)
  /\ UNCHANGED <<requests, schedules, snapshots, packages, authorizations, locks, issued>>

\* A transaction on the buffer board, for an order on it; late it needs a reason.
BufferTransaction(run, o, type, at, code) ==
  \E a \in ForRun(run, o) :
    /\ IsActive(events, a)
    /\ BufferZone(a.release, a.start, at) = "Late" => code # Nothing
    /\ Record(FloorMessage([type |-> type, target |-> a.start, code |-> code,
                            located |-> FALSE, jump |-> FALSE], o, a, at))
    /\ UNCHANGED <<requests, schedules, snapshots, packages, authorizations, locks, issued>>

-----------------------------------------------------------------------------
(* Bounds, and the next-state relation.                                    *)

CONSTANTS MaxRequests, MaxSnapshots, MaxPackages, MaxAuthorizations, MaxLocks, MaxIssued,
          MaxEvents

WithinBounds ==
  /\ Cardinality(DOMAIN requests) <= MaxRequests /\ Len(snapshots) <= MaxSnapshots
  /\ Cardinality(packages) <= MaxPackages
  /\ Cardinality(authorizations) <= MaxAuthorizations
  /\ Len(locks) <= MaxLocks /\ Cardinality(DOMAIN issued) <= MaxIssued
  /\ Len(events) <= MaxEvents

Optional(S) == S \cup {Nothing}

Replanning ==
  \/ \E o \in Order, suggested, at \in Instants, risk \in BOOLEAN, blocked \in 0..BlockedThreshold,
        last \in Optional(Instants) : AskForRelease(o, suggested, at, risk, blocked, last)
  \/ \E p \in packages, last \in Optional(Instants) : AskAfterVariance(p, last)
  \/ \E r \in DOMAIN requests :
       \/ \E status \in {"Approved", "Rejected"} : Decide(r, status)
       \/ ExecuteInVain(r)
       \/ \E source \in Run, from \in Instants, answer \in Optional(Schedule) :
            Execute(r, source, from, answer)
       \/ \E n \in DOMAIN snapshots, at \in Instants : BuildPackage(r, n, at)
       \/ \E o \in Order, at \in Instants, policy \in Optional(Policy) :
            \/ \E p \in packages : AuthorizePackage(r, p, o, at, policy)
            \/ \E evaluatedAt \in Instants, n \in Optional(DOMAIN snapshots) :
                 AuthorizeRequest(r, o, at, evaluatedAt, n, policy)

Floor ==
  \/ \E at \in Instants, state \in State : Capture(at, state)
  \/ \E at \in Instants, requested \in Optional(DOMAIN snapshots) : MockRefresh(at, requested)
  \/ \E run \in Run, at \in Instants :
       \/ \E orders \in SUBSET Order \ {{}}, locked \in BOOLEAN : Command(run, orders, locked, at)
       \/ \E useLatest \in BOOLEAN, requested \in Optional(DOMAIN snapshots) :
            \/ Issue(run, at, useLatest, requested)
            \/ \E o \in Order : AuthorizeRun(run, o, at, useLatest, requested)
       \/ \E o \in Order, type \in {"ArrivedBuffer", "StartedOperation"}, code \in {Nothing, Known} :
            BufferTransaction(run, o, type, at, code)
  \/ \E notice \in Notice, o \in Order, a \in Optional(authorizations), at \in Instants :
       ReportEvent(FloorMessage(notice, o, a, at))

\* Candidates, workbenches, packages, stability reports and alerts are read.
Read == UNCHANGED releaseVars

ReleaseNext == (Replanning \/ Floor \/ Read) /\ WithinBounds'

ReleaseSpec == ReleaseInit /\ [][ReleaseNext]_releaseVars

-----------------------------------------------------------------------------
(* What release control promises.                                          *)

\* No request is left Running when its execution has ended in an error, and the
\* schedules kept are exactly those of the completed requests.
RequestsSettled ==
  /\ \A r \in DOMAIN requests :
       requests[r] \in {"PendingReview", "Approved", "Rejected", "Completed", "Failed"}
  /\ DOMAIN schedules = {r \in DOMAIN requests : requests[r] = "Completed"}

\* A package and an authorization go on speaking of the schedule they were
\* decided on: it is still that of the completed request, with the same times, and
\* an authorization by a package is for the request and the snapshot of the package.
AuthorizedAsDecided ==
  /\ \A p \in packages : IsPlanned(p.request) /\
       \A o \in DOMAIN p.candidates :
         o \in DOMAIN schedules[p.request] /\ p.candidates[o].plan = schedules[p.request][o]
  /\ \A a \in authorizations :
       \/ \E run \in Run : a.from = FromRun(run)
       \/ \E r \in DOMAIN schedules :
            /\ a.from = FromRequest(r)
            /\ IsPlanned(r) /\ a.order \in DOMAIN schedules[r]
            /\ schedules[r][a.order] = [release |-> a.release, start |-> a.start, end |-> a.end]
            /\ a.package # Nothing =>
                 /\ a.package \in packages
                 /\ a.package.request = r /\ a.package.snapshot = a.snapshot

\* A run releases an order once, not before its rope, and on a snapshot taken
\* before and not too old; and what was sent to the MES had been released.
ReleasedOnceInTime ==
  /\ \A run \in Run, o \in Order : Cardinality(ForRun(run, o)) <= 1
  /\ \A a \in authorizations, run \in Run : a.from = FromRun(run) =>
       /\ a.at >= a.release
       /\ snapshots[a.snapshot].at <= a.at /\ a.at <= snapshots[a.snapshot].at + MaxAge
  /\ \A d \in DOMAIN issued : \A o \in DOMAIN issued[d] : ForRun(d.run, o) # {}

\* Events and lock commands with different times tell the same story in whatever
\* order they arrive.
ArrivalOrderIrrelevant ==
  LET reordered(s) == {[i \in DOMAIN s |-> s[f[i]]] : f \in Bijection(DOMAIN s, DOMAIN s)}
      distinct(s) == \A i, j \in DOMAIN s : s[i].at = s[j].at => i = j
  IN  /\ distinct(events) => \A s \in reordered(events) :
           Report(s, authorizations, Order) = Report(events, authorizations, Order)
      /\ distinct(locks) => \A s \in reordered(locks) : \A run \in Run :
           LockedOrders(s, run) = LockedOrders(locks, run)
=============================================================================
