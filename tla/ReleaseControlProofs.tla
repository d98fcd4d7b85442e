------------------------ MODULE ReleaseControlProofs ------------------------
(* Theorems about ReleaseControl for every value of its constants.          *)
EXTENDS ReleaseControl, FiniteSetTheorems, SequenceTheorems, WellFoundedInduction, TLAPS

-----------------------------------------------------------------------------
(* The inductive invariant.                                                 *)

Settled == {"PendingReview", "Approved", "Rejected", "Completed", "Failed"}

\* The two maps move together: what is kept is the schedule of a completed request.
RequestsInv ==
  /\ requests \in [DOMAIN requests -> Settled]
  /\ schedules \in [DOMAIN schedules -> Schedule]
  /\ DOMAIN schedules = {r \in DOMAIN requests : requests[r] = "Completed"}

SnapshotsInv ==
  /\ snapshots \in Seq([at : Nat, state : State])
  /\ snapshots # <<>>

\* An authorization of a run names a snapshot there is, so that snapshots taken
\* later do not change what it was decided on.
TimelyInv ==
  \A a \in authorizations, run \in Run : a.from = FromRun(run) =>
    /\ a.release \in Int /\ a.at \in Nat /\ a.at >= a.release
    /\ a.snapshot \in DOMAIN snapshots /\ Fresh(snapshots[a.snapshot].at, a.at)

OnceInv ==
  \A a, b \in authorizations, run \in Run :
    a.from = FromRun(run) /\ b.from = FromRun(run) /\ a.order = b.order => a = b

IssuedInv ==
  \A d \in DOMAIN issued : \A o \in DOMAIN issued[d] : ForRun(d.run, o) # {}

IInv ==
  /\ RequestsInv /\ SnapshotsInv
  /\ AuthorizedAsDecided
  /\ TimelyInv /\ OnceInv /\ IssuedInv

-----------------------------------------------------------------------------
(* Facts about the operators.                                               *)

LEMMA LeastNat ==
  ASSUME NEW S \in SUBSET Nat, S # {}
  PROVE  \E n \in S : \A m \in S : n <= m
  <1> DEFINE less == {p \in Nat \X Nat : p[1] < p[2]}
  <1>1. IsWellFoundedOn(less, Nat)
    BY NatLessThanWellFounded, Zenon DEF OpToRel
  <1>2. \E n \in S : \A m \in S : <<m, n>> \notin less
    BY <1>1, WFMin, Zenon
  <1>3. \A m, n \in Nat : <<m, n>> \notin less => n <= m
    OBVIOUS
  <1> QED  BY <1>2, <1>3

LEMMA FromApart ==
  /\ \A run, r : FromRun(run) # FromRequest(r)
  /\ \A r, s : FromRequest(r) = FromRequest(s) => r = s
  /\ \A r, s : FromRun(r) = FromRun(s) => r = s
  BY DEF FromRun, FromRequest

\* A release gate that says ready has looked at the rope.
LEMMA ReadyAfterRope ==
  ASSUME NEW plan, NEW o, NEW state, NEW at \in Int, NEW policy,
         plan[o].release \in Int,
         RecommendedAction(plan, o, state, at, policy) = "ReadyForRelease"
  PROVE  at >= plan[o].release
  <1> DEFINE material == MaterialStatus(state, o, plan[o].start, policy)
  <1>1. material \in {"Clear", "PendingInbound", "Blocked"}
    BY DEF MaterialStatus
  <1>2. SUFFICES ASSUME at < plan[o].release PROVE FALSE
    OBVIOUS
  <1>3. CASE material = "Clear"
    BY <1>2, <1>3 DEF RecommendedAction
  <1>4. CASE material = "PendingInbound"
    BY <1>4 DEF RecommendedAction
  <1>5. CASE material = "Blocked"
    BY <1>5 DEF RecommendedAction
  <1> QED  BY <1>1, <1>3, <1>4, <1>5

LEMMA SnapshotType ==
  ASSUME SnapshotsInv
  PROVE  /\ DOMAIN snapshots = 1 .. Len(snapshots) /\ 1 \in DOMAIN snapshots
         /\ \A n \in DOMAIN snapshots : snapshots[n].at \in Nat /\ snapshots[n].state \in State
  <1>1. Len(snapshots) \in Nat /\ DOMAIN snapshots = 1 .. Len(snapshots) /\ Len(snapshots) # 0
    BY DEF SnapshotsInv
  <1>2. \A n \in 1 .. Len(snapshots) : snapshots[n] \in [at : Nat, state : State]
    BY ElementOfSeq, Zenon DEF SnapshotsInv
  <1> QED  BY <1>1, <1>2

LEMMA SnapshotExists ==
  ASSUME SnapshotsInv, NEW at \in Nat, NEW useLatest,
         NEW requested \in Optional(DOMAIN snapshots)
  PROVE  SnapshotOf(at, useLatest, requested) \in DOMAIN snapshots
  <1> DEFINE taken == {n \in DOMAIN snapshots : snapshots[n].at <= at}
             latest == {n \in taken : \A m \in taken : snapshots[m].at <= snapshots[n].at}
             age == [n \in taken |-> at - snapshots[n].at]
             ages == {age[n] : n \in taken}
  <1>1. DOMAIN snapshots \subseteq Nat /\ 1 \in DOMAIN snapshots
    BY SnapshotType
  <1>2. \A n \in taken : snapshots[n].at \in Nat /\ age[n] \in Nat
    <2>1. \A n \in DOMAIN snapshots : snapshots[n].at \in Nat
      BY SnapshotType
    <2>2. \A n \in taken : age[n] = at - snapshots[n].at
      OBVIOUS
    <2> QED  BY <2>1, <2>2
  <1>3. ASSUME taken # {}
        PROVE  \E n \in latest : \A m \in latest : n <= m
    <2>1. ages \in SUBSET Nat /\ ages # {}
      BY <1>2, <1>3
    <2>2. PICK least \in ages : \A other \in ages : least <= other
      BY <2>1, LeastNat, Zenon
    <2>3. PICK n \in taken : \A m \in taken : age[n] <= age[m]
      BY <2>2
    <2>4. \A m \in taken : snapshots[m].at <= snapshots[n].at
      <3> SUFFICES ASSUME NEW m \in taken PROVE snapshots[m].at <= snapshots[n].at
        OBVIOUS
      <3>1. age[n] = at - snapshots[n].at /\ age[m] = at - snapshots[m].at /\ age[n] <= age[m]
        BY <2>3
      <3> QED  BY <3>1, <1>2
    <2>5. latest \in SUBSET Nat /\ latest # {}
      BY <1>1, <2>3, <2>4
    <2> QED  BY <2>5, LeastNat, Zenon
  <1>4. CASE requested # Nothing
    BY <1>4 DEF SnapshotOf, Optional
  <1>5. CASE requested = Nothing /\ useLatest /\ taken # {}
    <2>1. SnapshotOf(at, useLatest, requested) = CHOOSE n \in latest : \A m \in latest : n <= m
      BY <1>5, Zenon DEF SnapshotOf
    <2> QED  BY <1>3, <1>5, <2>1
  <1>6. CASE requested = Nothing /\ ~(useLatest /\ taken # {})
    <2>1. SnapshotOf(at, useLatest, requested) = 1
      BY <1>6, Zenon DEF SnapshotOf
    <2> QED  BY <1>1, <2>1
  <1> QED  BY <1>4, <1>5, <1>6

-----------------------------------------------------------------------------
(* What each kind of step does to the invariant.                            *)

LEMMA Initially == ReleaseInit => IInv
  <1> SUFFICES ASSUME ReleaseInit PROVE IInv
    OBVIOUS
  <1> USE DEF ReleaseInit
  <1>1. RequestsInv
    BY DEF RequestsInv
  <1>2. SnapshotsInv
    BY ReleaseAssumption DEF SnapshotsInv
  <1>3. AuthorizedAsDecided /\ TimelyInv /\ OnceInv /\ IssuedInv
    BY DEF AuthorizedAsDecided, TimelyInv, OnceInv, IssuedInv
  <1> QED  BY <1>1, <1>2, <1>3 DEF IInv

\* A step that leaves the planned requests and their schedules alone.
LEMMA RequestStep ==
  ASSUME IInv, RequestsInv',
         \A r : IsPlanned(r) => IsPlanned(r)' /\ schedules'[r] = schedules[r],
         UNCHANGED <<snapshots, packages, authorizations, issued>>
  PROVE  IInv'
  <1>1. AuthorizedAsDecided'
    <2>1. AuthorizedAsDecided
      BY DEF IInv
    <2>2. \A r \in DOMAIN schedules : IsPlanned(r) => r \in DOMAIN schedules'
      BY DEF IsPlanned
    <2>3. \A p \in packages : IsPlanned(p.request)' /\
            \A o \in DOMAIN p.candidates :
              o \in DOMAIN schedules'[p.request] /\ p.candidates[o].plan = schedules'[p.request][o]
      BY <2>1 DEF AuthorizedAsDecided
    <2> QED  BY <2>1, <2>2, <2>3 DEF AuthorizedAsDecided
  <1>2. SnapshotsInv' /\ TimelyInv' /\ OnceInv' /\ IssuedInv'
    BY DEF IInv, SnapshotsInv, TimelyInv, OnceInv, IssuedInv, ForRun
  <1> QED  BY <1>1, <1>2 DEF IInv

LEMMA EnqueueStep ==
  ASSUME IInv, NEW ids, Enqueue(ids),
         UNCHANGED <<schedules, snapshots, packages, authorizations, issued>>
  PROVE  IInv'
  <1>1. RequestsInv
    BY DEF IInv
  <1>2. /\ DOMAIN requests' = DOMAIN requests \cup ids
        /\ \A i \in DOMAIN requests : requests'[i] = requests[i]
        /\ \A i \in ids \ DOMAIN requests : requests'[i] = "PendingReview"
    BY DEF Enqueue
  <1>3. RequestsInv'
    <2>1. requests' \in [DOMAIN requests' -> Settled]
      BY <1>1, <1>2 DEF Enqueue, RequestsInv, Settled
    <2>2. DOMAIN schedules' = {r \in DOMAIN requests' : requests'[r] = "Completed"}
      BY <1>1, <1>2 DEF RequestsInv
    <2> QED  BY <1>1, <2>1, <2>2 DEF RequestsInv
  <1>4. \A r : IsPlanned(r) => IsPlanned(r)' /\ schedules'[r] = schedules[r]
    BY <1>2 DEF IsPlanned
  <1> QED  BY <1>3, <1>4, RequestStep

LEMMA DecideStep ==
  ASSUME IInv, NEW r \in DOMAIN requests, NEW status \in {"Approved", "Rejected"},
         Decide(r, status)
  PROVE  IInv'
  <1>1. RequestsInv
    BY DEF IInv
  <1>2. requests' = [requests EXCEPT ![r] = status] /\ requests[r] = "PendingReview"
    BY DEF Decide
  <1>3. RequestsInv'
    BY <1>1, <1>2 DEF Decide, RequestsInv, Settled
  <1>4. \A q : IsPlanned(q) => IsPlanned(q)' /\ schedules'[q] = schedules[q]
    BY <1>1, <1>2 DEF Decide, IsPlanned, RequestsInv
  <1> QED  BY <1>3, <1>4, RequestStep DEF Decide

LEMMA ExecuteStep ==
  ASSUME IInv, NEW r \in DOMAIN requests, NEW source, NEW from,
         NEW answer \in Optional(Schedule), Execute(r, source, from, answer)
  PROVE  IInv'
  <1>1. RequestsInv
    BY DEF IInv
  <1>2. requests[r] = "Approved" /\ r \notin DOMAIN schedules
    BY <1>1 DEF Execute, MayExecute, RequestsInv
  <1>3. /\ DOMAIN requests' = DOMAIN requests
        /\ requests'[r] = IF answer = Nothing THEN "Failed" ELSE "Completed"
        /\ \A q \in DOMAIN requests : q # r => requests'[q] = requests[q]
    BY <1>1 DEF Execute, RequestsInv
  <1>4. /\ DOMAIN schedules' = IF answer = Nothing THEN DOMAIN schedules
                               ELSE DOMAIN schedules \cup {r}
        /\ \A q \in DOMAIN schedules : schedules'[q] = schedules[q]
        /\ r \in DOMAIN schedules' => schedules'[r] = answer
    BY <1>2 DEF Execute
  <1>5. RequestsInv'
    <2>1. requests' \in [DOMAIN requests' -> Settled]
      BY <1>1, <1>3 DEF Execute, RequestsInv, Settled
    <2>2. \A q \in DOMAIN schedules' : schedules'[q] \in Schedule
      BY <1>1, <1>4 DEF RequestsInv, Optional
    <2>3. schedules' \in [DOMAIN schedules' -> Schedule]
      BY <2>2 DEF Execute
    <2>4. DOMAIN schedules' = {q \in DOMAIN requests' : requests'[q] = "Completed"}
      BY <1>1, <1>2, <1>3, <1>4 DEF RequestsInv
    <2> QED  BY <2>1, <2>3, <2>4 DEF RequestsInv
  <1>6. \A q : IsPlanned(q) => IsPlanned(q)' /\ schedules'[q] = schedules[q]
    BY <1>2, <1>3, <1>4 DEF IsPlanned
  <1> QED  BY <1>5, <1>6, RequestStep DEF Execute

\* A snapshot is added behind those that authorizations name.
LEMMA CaptureStep ==
  ASSUME IInv, NEW at \in Instants, NEW state \in State, Capture(at, state)
  PROVE  IInv'
  <1>1. SnapshotsInv
    BY DEF IInv
  <1>2. snapshots' = Append(snapshots, [at |-> at, state |-> state])
    BY DEF Capture
  <1>3. SnapshotsInv'
    <2>1. [at |-> at, state |-> state] \in [at : Nat, state : State]
      BY StabilityPolicyAssumption
    <2> QED  BY <1>1, <1>2, <2>1, AppendProperties DEF SnapshotsInv
  <1>4. \A n \in DOMAIN snapshots : n \in DOMAIN snapshots' /\ snapshots'[n] = snapshots[n]
    BY <1>1, <1>2, AppendProperties DEF SnapshotsInv
  <1>5. TimelyInv'
    BY <1>4 DEF IInv, TimelyInv, Capture
  <1>6. RequestsInv' /\ AuthorizedAsDecided'
    BY DEF IInv, RequestsInv, AuthorizedAsDecided, IsPlanned, Capture
  <1>7. OnceInv' /\ IssuedInv'
    BY DEF IInv, OnceInv, IssuedInv, ForRun, Capture
  <1> QED  BY <1>3, <1>5, <1>6, <1>7 DEF IInv

LEMMA RefreshStep ==
  ASSUME IInv, NEW at \in Instants, NEW requested \in Optional(DOMAIN snapshots),
         MockRefresh(at, requested)
  PROVE  IInv'
  <1>1. SnapshotsInv /\ at \in Nat
    BY StabilityPolicyAssumption DEF IInv
  <1>2. SnapshotOf(at, TRUE, requested) \in DOMAIN snapshots
    BY <1>1, SnapshotExists
  <1>3. snapshots[SnapshotOf(at, TRUE, requested)].state \in State
    BY <1>1, <1>2, SnapshotType
  <1> QED  BY <1>3, CaptureStep DEF MockRefresh

LEMMA BuildPackageStep ==
  ASSUME IInv, NEW r \in DOMAIN requests, NEW n, NEW at, BuildPackage(r, n, at)
  PROVE  IInv'
  <1> DEFINE package == Package(r, n, at)
  <1>1. AuthorizedAsDecided'
    <2>1. AuthorizedAsDecided /\ IsPlanned(r) /\ packages' = packages \cup {package}
      BY DEF IInv, BuildPackage
    <2>2. /\ package.request = r
          /\ DOMAIN package.candidates = DOMAIN schedules[r]
          /\ \A o \in DOMAIN package.candidates : package.candidates[o].plan = schedules[r][o]
      BY DEF Package, Candidates
    <2> QED  BY <2>1, <2>2 DEF AuthorizedAsDecided, BuildPackage, IsPlanned
  <1>2. RequestsInv' /\ SnapshotsInv'
    BY DEF IInv, RequestsInv, SnapshotsInv, BuildPackage
  <1>3. TimelyInv' /\ OnceInv' /\ IssuedInv'
    BY DEF IInv, TimelyInv, OnceInv, IssuedInv, ForRun, BuildPackage
  <1> QED  BY <1>1, <1>2, <1>3 DEF IInv

\* One more authorization, decided on the schedule of a request ...
LEMMA RequestReleaseStep ==
  ASSUME IInv, NEW r, NEW a, authorizations' = authorizations \cup {a},
         UNCHANGED <<requests, schedules, snapshots, packages, issued>>,
         a.from = FromRequest(r), IsPlanned(r), a.order \in DOMAIN schedules[r],
         schedules[r][a.order] = [release |-> a.release, start |-> a.start, end |-> a.end],
         a.package # Nothing => /\ a.package \in packages
                                /\ a.package.request = r /\ a.package.snapshot = a.snapshot
  PROVE  IInv'
  <1>1. AuthorizedAsDecided'
    BY DEF IInv, AuthorizedAsDecided, IsPlanned
  <1>2. RequestsInv' /\ SnapshotsInv'
    BY DEF IInv, RequestsInv, SnapshotsInv
  <1>3. \A run \in Run : a.from # FromRun(run)
    BY FromApart
  <1>4. TimelyInv' /\ OnceInv'
    BY <1>3 DEF IInv, TimelyInv, OnceInv
  <1>5. IssuedInv'
    BY DEF IInv, IssuedInv, ForRun
  <1> QED  BY <1>1, <1>2, <1>4, <1>5 DEF IInv

\* ... and one from a run, which had none for the order.
LEMMA RunReleaseStep ==
  ASSUME IInv, NEW run \in Run, NEW a, authorizations' = authorizations \cup {a},
         UNCHANGED <<requests, schedules, snapshots, packages, issued>>,
         a.from = FromRun(run), ForRun(run, a.order) = {},
         a.release \in Int, a.at \in Nat, a.at >= a.release,
         a.snapshot \in DOMAIN snapshots, Fresh(snapshots[a.snapshot].at, a.at)
  PROVE  IInv'
  <1>1. AuthorizedAsDecided'
    BY DEF IInv, AuthorizedAsDecided, IsPlanned
  <1>2. RequestsInv' /\ SnapshotsInv'
    BY DEF IInv, RequestsInv, SnapshotsInv
  <1>3. TimelyInv'
    BY DEF IInv, TimelyInv
  <1>4. OnceInv'
    <2>1. \A b \in authorizations, other \in Run :
            b.from = FromRun(other) /\ a.from = FromRun(other) => b.order # a.order
      BY FromApart DEF ForRun
    <2> QED  BY <2>1 DEF IInv, OnceInv
  <1>5. IssuedInv'
    BY DEF IInv, IssuedInv, ForRun
  <1> QED  BY <1>1, <1>2, <1>3, <1>4, <1>5 DEF IInv

LEMMA IssueStep ==
  ASSUME IInv, NEW run \in Run, NEW at, NEW useLatest, NEW requested,
         Issue(run, at, useLatest, requested)
  PROVE  IInv'
  <1> DEFINE n == SnapshotOf(at, useLatest, requested)
             digest == Digest(run, at, n)
  <1>1. IssuedInv'
    <2>1. /\ DOMAIN issued' = DOMAIN issued \cup {digest}
          /\ issued'[digest] = Queue(run, at, n)
          /\ \A d \in DOMAIN issued : issued'[d] = issued[d]
      BY DEF Issue
    <2>2. \A o \in DOMAIN Queue(run, at, n) : ForRun(run, o) # {}
      BY DEF Queue, Dispatchable
    <2>3. digest.run = run
      BY DEF Digest
    <2> QED  BY <2>1, <2>2, <2>3 DEF IInv, IssuedInv, ForRun, Issue
  <1>2. RequestsInv' /\ SnapshotsInv' /\ AuthorizedAsDecided'
    BY DEF IInv, RequestsInv, SnapshotsInv, AuthorizedAsDecided, IsPlanned, Issue
  <1>3. TimelyInv' /\ OnceInv'
    BY DEF IInv, TimelyInv, OnceInv, Issue
  <1> QED  BY <1>1, <1>2, <1>3 DEF IInv

LEMMA OtherStep ==
  ASSUME IInv, UNCHANGED <<requests, schedules, snapshots, packages, authorizations, issued>>
  PROVE  IInv'
  <1>1. RequestsInv' /\ \A r : IsPlanned(r) => IsPlanned(r)' /\ schedules'[r] = schedules[r]
    BY DEF IInv, RequestsInv, IsPlanned
  <1> QED  BY <1>1, RequestStep

-----------------------------------------------------------------------------
(* The authorizations of the two paths.                                     *)

LEMMA PlanTimes ==
  /\ \A plan \in Schedule : \A o \in DOMAIN plan :
       plan[o] = [release |-> plan[o].release, start |-> plan[o].start, end |-> plan[o].end]
  /\ \A run \in Run : \A o \in DOMAIN RunSchedule[run] : RunSchedule[run][o].release \in Int
  BY ReleaseAssumption

LEMMA AuthorizePackageStep ==
  ASSUME IInv, NEW r \in DOMAIN requests, NEW p \in packages, NEW o, NEW at, NEW policy,
         AuthorizePackage(r, p, o, at, policy)
  PROVE  IInv'
  <1> DEFINE a == Authorization(FromRequest(r), o, at, p.candidates[o].plan,
                                p.snapshot, p, policy)
  <1>1. /\ IsPlanned(r) /\ p.request = r /\ o \in DOMAIN p.candidates
        /\ authorizations' = authorizations \cup {a}
        /\ UNCHANGED <<requests, schedules, snapshots, packages, issued>>
    BY DEF AuthorizePackage, Authorize
  <1>2. o \in DOMAIN schedules[r] /\ p.candidates[o].plan = schedules[r][o]
    BY <1>1 DEF IInv, AuthorizedAsDecided
  <1>3. schedules[r] \in Schedule
    BY <1>1 DEF IInv, RequestsInv, IsPlanned
  <1>4. /\ a.from = FromRequest(r) /\ a.order = o
        /\ a.package = p /\ a.snapshot = p.snapshot
        /\ a.release = schedules[r][o].release /\ a.start = schedules[r][o].start
        /\ a.end = schedules[r][o].end
    BY <1>2 DEF Authorization
  <1>5. schedules[r][a.order] = [release |-> a.release, start |-> a.start, end |-> a.end]
    BY <1>2, <1>3, <1>4, PlanTimes
  <1> HIDE DEF a
  <1> QED  BY <1>1, <1>2, <1>4, <1>5, RequestReleaseStep

LEMMA AuthorizeRequestStep ==
  ASSUME IInv, NEW r \in DOMAIN requests, NEW o, NEW at, NEW evaluatedAt, NEW n, NEW policy,
         AuthorizeRequest(r, o, at, evaluatedAt, n, policy)
  PROVE  IInv'
  <1> DEFINE a == Authorization(FromRequest(r), o, at, schedules[r][o], n, Nothing, policy)
  <1>1. /\ IsPlanned(r) /\ o \in DOMAIN schedules[r]
        /\ authorizations' = authorizations \cup {a}
        /\ UNCHANGED <<requests, schedules, snapshots, packages, issued>>
    BY DEF AuthorizeRequest, Authorize
  <1>2. schedules[r] \in Schedule
    BY <1>1 DEF IInv, RequestsInv, IsPlanned
  <1>3. /\ a.from = FromRequest(r) /\ a.order = o /\ a.package = Nothing
        /\ a.release = schedules[r][o].release /\ a.start = schedules[r][o].start
        /\ a.end = schedules[r][o].end
    BY DEF Authorization
  <1>4. schedules[r][a.order] = [release |-> a.release, start |-> a.start, end |-> a.end]
    BY <1>1, <1>2, <1>3, PlanTimes
  <1> HIDE DEF a
  <1> QED  BY <1>1, <1>3, <1>4, RequestReleaseStep

LEMMA AuthorizeRunStep ==
  ASSUME IInv, NEW run \in Run, NEW o, NEW at \in Instants, NEW useLatest,
         NEW requested \in Optional(DOMAIN snapshots),
         AuthorizeRun(run, o, at, useLatest, requested)
  PROVE  IInv'
  <1> DEFINE n == SnapshotOf(at, useLatest, requested)
             a == Authorization(FromRun(run), o, at, RunSchedule[run][o], n, Nothing,
                                RunPolicy[run])
  <1>1. SnapshotsInv /\ at \in Nat
    BY StabilityPolicyAssumption DEF IInv
  <1>2. n \in DOMAIN snapshots
    BY <1>1, SnapshotExists
  <1> HIDE DEF n
  <1>3. /\ o \in DOMAIN RunSchedule[run] /\ ForRun(run, o) = {}
        /\ Fresh(snapshots[n].at, at)
        /\ RecommendedAction(RunSchedule[run], o, snapshots[n].state, at, RunPolicy[run])
             = "ReadyForRelease"
        /\ authorizations' = authorizations \cup {a}
        /\ UNCHANGED <<requests, schedules, snapshots, packages, issued>>
    BY DEF AuthorizeRun, CanAuthorize, MayRelease, n
  <1>4. RunSchedule[run][o].release \in Int
    BY <1>3, PlanTimes
  <1>5. at >= RunSchedule[run][o].release
    BY <1>1, <1>3, <1>4, ReadyAfterRope
  <1>6. /\ a.from = FromRun(run) /\ a.order = o /\ a.at = at /\ a.snapshot = n
        /\ a.release = RunSchedule[run][o].release
    BY DEF Authorization
  <1> HIDE DEF a
  <1> QED  BY <1>1, <1>2, <1>3, <1>4, <1>5, <1>6, RunReleaseStep

-----------------------------------------------------------------------------
(* The invariant is inductive.                                              *)

LEMMA ReplanningStep == IInv /\ Replanning => IInv'
  <1> SUFFICES ASSUME IInv, Replanning PROVE IInv'
    OBVIOUS
  <1>1. CASE \E o \in Order, suggested, at \in Instants, risk \in BOOLEAN,
               blocked \in 0..BlockedThreshold, last \in Optional(Instants) :
               AskForRelease(o, suggested, at, risk, blocked, last)
    BY <1>1, EnqueueStep DEF AskForRelease
  <1>2. CASE \E p \in packages, last \in Optional(Instants) : AskAfterVariance(p, last)
    BY <1>2, EnqueueStep DEF AskAfterVariance
  <1>3. CASE \E r \in DOMAIN requests, status \in {"Approved", "Rejected"} : Decide(r, status)
    BY <1>3, DecideStep
  <1>4. CASE \E r \in DOMAIN requests : ExecuteInVain(r)
    BY <1>4, OtherStep DEF ExecuteInVain, AfterFailure
  <1>5. CASE \E r \in DOMAIN requests, source \in Run, from \in Instants,
               answer \in Optional(Schedule) : Execute(r, source, from, answer)
    BY <1>5, ExecuteStep
  <1>6. CASE \E r \in DOMAIN requests, n \in DOMAIN snapshots, at \in Instants :
               BuildPackage(r, n, at)
    BY <1>6, BuildPackageStep
  <1>7. CASE \E r \in DOMAIN requests, o \in Order, at \in Instants,
               policy \in Optional(Policy), p \in packages : AuthorizePackage(r, p, o, at, policy)
    BY <1>7, AuthorizePackageStep
  <1>8. CASE \E r \in DOMAIN requests, o \in Order, at \in Instants,
               policy \in Optional(Policy), evaluatedAt \in Instants,
               n \in Optional(DOMAIN snapshots) :
               AuthorizeRequest(r, o, at, evaluatedAt, n, policy)
    BY <1>8, AuthorizeRequestStep
  <1> QED  BY <1>1, <1>2, <1>3, <1>4, <1>5, <1>6, <1>7, <1>8, Zenon DEF Replanning

LEMMA FloorStep == IInv /\ Floor => IInv'
  <1> SUFFICES ASSUME IInv, Floor PROVE IInv'
    OBVIOUS
  <1>1. CASE \E at \in Instants, state \in State : Capture(at, state)
    BY <1>1, CaptureStep
  <1>2. CASE \E at \in Instants, requested \in Optional(DOMAIN snapshots) :
               MockRefresh(at, requested)
    BY <1>2, RefreshStep
  <1>3. CASE \E run \in Run, at \in Instants, orders \in SUBSET Order \ {{}},
               locked \in BOOLEAN : Command(run, orders, locked, at)
    BY <1>3, OtherStep DEF Command
  <1>4. CASE \E run \in Run, at \in Instants, useLatest \in BOOLEAN,
               requested \in Optional(DOMAIN snapshots) : Issue(run, at, useLatest, requested)
    BY <1>4, IssueStep
  <1>5. CASE \E run \in Run, at \in Instants, useLatest \in BOOLEAN,
               requested \in Optional(DOMAIN snapshots), o \in Order :
               AuthorizeRun(run, o, at, useLatest, requested)
    BY <1>5, AuthorizeRunStep
  <1>6. CASE \E run \in Run, at \in Instants, o \in Order,
               type \in {"ArrivedBuffer", "StartedOperation"}, code \in {Nothing, Known} :
               BufferTransaction(run, o, type, at, code)
    BY <1>6, OtherStep DEF BufferTransaction
  <1>7. CASE \E notice \in Notice, o \in Order, a \in Optional(authorizations),
               at \in Instants : ReportEvent(FloorMessage(notice, o, a, at))
    BY <1>7, OtherStep DEF ReportEvent
  <1> QED  BY <1>1, <1>2, <1>3, <1>4, <1>5, <1>6, <1>7, Zenon DEF Floor

LEMMA Inductive == IInv /\ [ReleaseNext]_releaseVars => IInv'
  <1> SUFFICES ASSUME IInv, [ReleaseNext]_releaseVars PROVE IInv'
    OBVIOUS
  <1>1. CASE Replanning
    BY <1>1, ReplanningStep
  <1>2. CASE Floor
    BY <1>2, FloorStep
  <1>3. CASE Read \/ UNCHANGED releaseVars
    BY <1>3, OtherStep DEF Read, releaseVars
  <1> QED  BY <1>1, <1>2, <1>3 DEF ReleaseNext

-----------------------------------------------------------------------------
(* The theorems.                                                            *)

\* The strengthened invariant holds of every run of the system: of any number
\* of orders, runs, requests, packages and authorizations.
THEOREM InvariantHolds == ReleaseSpec => []IInv
  <1>1. ReleaseInit => IInv
    BY Initially
  <1>2. IInv /\ [ReleaseNext]_releaseVars => IInv'
    BY Inductive
  <1> QED  BY <1>1, <1>2, PTL DEF ReleaseSpec

\* A failed execution leaves no request Running, and a schedule is kept exactly
\* for the completed ones.
THEOREM RequestsAreSettled == ReleaseSpec => []RequestsSettled
  <1>1. IInv => RequestsSettled
    BY DEF IInv, RequestsInv, RequestsSettled, Settled
  <1> QED  BY <1>1, InvariantHolds, PTL

\* What a package or an authorization says of an order is what the schedule of
\* its request says, then and ever after.
THEOREM DecisionsStand == ReleaseSpec => []AuthorizedAsDecided
  <1>1. IInv => AuthorizedAsDecided
    BY DEF IInv
  <1> QED  BY <1>1, InvariantHolds, PTL

\* A run releases an order once, after its rope, on a snapshot that is neither
\* older than allowed nor of a later time; only what was released is dispatched.
THEOREM ReleasesAreOnceInTime == ReleaseSpec => []ReleasedOnceInTime
  <1>1. ASSUME IInv PROVE ReleasedOnceInTime
    <2>1. \A run \in Run, o \in Order : Cardinality(ForRun(run, o)) <= 1
      <3> SUFFICES ASSUME NEW run \in Run, NEW o \in Order
                   PROVE  Cardinality(ForRun(run, o)) <= 1
        OBVIOUS
      <3>1. \A a, b \in ForRun(run, o) : a = b
        BY <1>1, Zenon DEF IInv, OnceInv, ForRun
      <3>2. CASE ForRun(run, o) = {}
        BY <3>2, FS_EmptySet
      <3>3. CASE ForRun(run, o) # {}
        <4>1. PICK a : ForRun(run, o) = {a}
          BY <3>1, <3>3
        <4>2. Cardinality(ForRun(run, o)) = 1
          BY <4>1, FS_Singleton, Zenon
        <4> QED  BY <4>2
      <3> QED  BY <3>2, <3>3
    <2>2. \A a \in authorizations, run \in Run : a.from = FromRun(run) =>
            /\ a.at >= a.release
            /\ snapshots[a.snapshot].at <= a.at /\ a.at <= snapshots[a.snapshot].at + MaxAge
      <3> SUFFICES ASSUME NEW a \in authorizations, NEW run \in Run, a.from = FromRun(run)
                   PROVE  /\ a.at >= a.release
                          /\ snapshots[a.snapshot].at <= a.at
                          /\ a.at <= snapshots[a.snapshot].at + MaxAge
        OBVIOUS
      <3>1. /\ a.at \in Nat /\ a.at >= a.release
            /\ a.snapshot \in DOMAIN snapshots /\ Fresh(snapshots[a.snapshot].at, a.at)
        BY <1>1 DEF IInv, TimelyInv
      <3>2. snapshots[a.snapshot].at \in Nat
        BY <1>1, <3>1, SnapshotType DEF IInv
      <3> QED  BY <3>1, <3>2, ReleaseAssumption DEF Fresh
    <2>3. IssuedInv
      BY <1>1 DEF IInv
    <2> QED  BY <2>1, <2>2, <2>3, Zenon DEF ReleasedOnceInTime, IssuedInv
  <1> QED  BY <1>1, InvariantHolds, PTL

-----------------------------------------------------------------------------
(* The order of arrival.                                                    *)

\* Of finitely many, one is the highest.
LEMMA Highest ==
  ASSUME NEW I, IsFiniteSet(I), I # {}, NEW m \in [I -> Int]
  PROVE  \E i \in I : \A j \in I : m[j] <= m[i]
  <1> DEFINE Above(i) == {j \in I : m[j] > m[i]}
             all == {Above(i) : i \in I}
             less == StrictSubsetOrdering(I)
  <1>1. IsWellFoundedOn(less, SUBSET I)
    BY FS_FiniteSubsetsOfFinite, FS_StrictSubsetOrderingWellFounded
  <1>2. all \subseteq SUBSET I /\ all # {}
    <2>1. PICK i \in I : TRUE
      OBVIOUS
    <2>2. Above(i) \in all
      BY <2>1
    <2>3. all \subseteq SUBSET I
      OBVIOUS
    <2> QED  BY <2>2, <2>3
  <1>3. PICK T \in all : \A U \in all : <<U, T>> \notin less
    <2> HIDE DEF all, less
    <2> QED  BY <1>1, <1>2, WFMin
  <1>4. PICK i \in I : T = Above(i)
    OBVIOUS
  <1>5. ASSUME NEW j \in I, m[j] > m[i] PROVE FALSE
    <2>1. Above(j) \subseteq Above(i) /\ j \in Above(i) /\ j \notin Above(j)
      BY <1>5
    <2>2. <<Above(j), Above(i)>> \in less
      BY <1>2, <2>1 DEF StrictSubsetOrdering
    <2> QED  BY <1>3, <1>4, <2>2
  <1> QED  BY <1>5

\* The same rows in another order, and the places of some of them in it.
Timed(s) ==
  /\ \E n \in Nat : DOMAIN s = 1 .. n
  /\ \A i \in DOMAIN s : s[i].at \in Int

Shuffled(s, f, t) ==
  /\ Timed(s) /\ \A i, j \in DOMAIN s : s[i].at = s[j].at => i = j
  /\ f \in Bijection(DOMAIN s, DOMAIN s)
  /\ t = [i \in DOMAIN s |-> s[f[i]]]

From(f, s, I) == {i \in DOMAIN s : f[i] \in I}

LEMMA ShuffledRows ==
  ASSUME NEW s, NEW f, NEW t, Shuffled(s, f, t)
  PROVE  /\ DOMAIN t = DOMAIN s
         /\ \A i \in DOMAIN s : f[i] \in DOMAIN s /\ t[i] = s[f[i]]
         /\ \A j \in DOMAIN s : \E i \in DOMAIN s : f[i] = j
         /\ \A i, j \in DOMAIN s : f[i] = f[j] => i = j
  <1>1. f \in [DOMAIN s -> DOMAIN s] /\ t = [i \in DOMAIN s |-> s[f[i]]]
    BY DEF Shuffled, Bijection, Injection
  <1>2. \A j \in DOMAIN s : \E i \in DOMAIN s : f[i] = j
    BY DEF Shuffled, Bijection, Surjection
  <1>3. \A i, j \in DOMAIN s : f[i] = f[j] => i = j
    BY <1>1 DEF Shuffled, Bijection, Injection, IsInjective
  <1> QED  BY <1>1, <1>2, <1>3

\* With different times the time alone decides.
LEMMA TimeDecides ==
  ASSUME NEW s, NEW f, NEW t, Shuffled(s, f, t), NEW i \in DOMAIN s, NEW j \in DOMAIN s
  PROVE  /\ i # j => (Precedes(s, i, j) <=> s[i].at < s[j].at)
         /\ ~Precedes(s, i, i)
         /\ Precedes(t, i, j) <=> Precedes(s, f[i], f[j])
  <1>1. \A k, l \in DOMAIN s : s[k].at = s[l].at => k = l
    BY DEF Shuffled
  <1>2. \A k \in DOMAIN s : k \in Int /\ s[k].at \in Int
    BY DEF Shuffled, Timed
  <1>3. \A k, l \in DOMAIN s : Precedes(s, k, l) <=> k # l /\ s[k].at < s[l].at
    BY <1>1, <1>2 DEF Precedes
  <1>4. Precedes(t, i, j) <=> i # j /\ s[f[i]].at < s[f[j]].at
    <2>1. /\ f[i] \in DOMAIN s /\ f[j] \in DOMAIN s /\ t[i] = s[f[i]] /\ t[j] = s[f[j]]
          /\ f[i] = f[j] => i = j
      BY ShuffledRows
    <2> QED  BY <1>1, <1>2, <2>1 DEF Precedes
  <1>5. f[i] \in DOMAIN s /\ f[j] \in DOMAIN s /\ (f[i] = f[j] <=> i = j)
    <2>1. f[i] \in DOMAIN s /\ f[j] \in DOMAIN s
      BY ShuffledRows
    <2>2. f[i] = f[j] => i = j
      BY ShuffledRows
    <2> QED  BY <2>1, <2>2
  <1> QED  BY <1>2, <1>3, <1>4, <1>5

\* One row is the earliest of some, one the latest.
LEMMA EndsExist ==
  ASSUME NEW s, NEW f, NEW t, Shuffled(s, f, t), NEW I \in SUBSET DOMAIN s, I # {}
  PROVE  /\ \E i \in I : \A j \in I \ {i} : Precedes(s, i, j)
         /\ \E i \in I : \A j \in I \ {i} : Precedes(s, j, i)
  <1>1. IsFiniteSet(I) /\ \A k \in I : s[k].at \in Int
    <2>1. PICK n \in Nat : DOMAIN s = 1 .. n
      BY DEF Shuffled, Timed
    <2>2. IsFiniteSet(DOMAIN s)
      BY <2>1, FS_Interval
    <2>3. IsFiniteSet(I)
      BY <2>2, FS_Subset
    <2>4. \A k \in I : s[k].at \in Int
      BY DEF Shuffled, Timed
    <2> QED  BY <2>3, <2>4
  <1>2. \A k, l \in I : s[k].at = s[l].at => k = l
    BY DEF Shuffled
  <1> DEFINE up == [k \in I |-> s[k].at]
             down == [k \in I |-> -s[k].at]
  <1>3. up \in [I -> Int] /\ down \in [I -> Int]
    BY <1>1
  <1>4. PICK i \in I : \A j \in I : up[j] <= up[i]
    <2> HIDE DEF up
    <2> QED  BY <1>1, <1>3, Highest
  <1>5. PICK l \in I : \A j \in I : down[j] <= down[l]
    <2> HIDE DEF down
    <2> QED  BY <1>1, <1>3, Highest
  <1>6. \A j \in I \ {i} : s[j].at < s[i].at
    BY <1>1, <1>2, <1>4
  <1>7. \A j \in I \ {l} : s[l].at < s[j].at
    BY <1>1, <1>2, <1>5
  <1>8. \A j \in I \ {i} : Precedes(s, j, i)
    BY <1>6, TimeDecides
  <1>9. \A j \in I \ {l} : Precedes(s, l, j)
    BY <1>7, TimeDecides
  <1> QED  BY <1>8, <1>9

\* The earliest and the latest row are found whatever the order.
LEMMA EndsFound ==
  ASSUME NEW s, NEW f, NEW t, Shuffled(s, f, t), NEW I \in SUBSET DOMAIN s, I # {}
  PROVE  /\ From(f, s, I) # {}
         /\ t[Earliest(t, From(f, s, I))] = s[Earliest(s, I)]
         /\ t[Latest(t, From(f, s, I))] = s[Latest(s, I)]
  <1> DEFINE J == From(f, s, I)
  <1>1. /\ \A i \in J : i \in DOMAIN s /\ f[i] \in I /\ t[i] = s[f[i]]
        /\ \A j \in I : \E i \in J : f[i] = j
        /\ \A i, j \in J : f[i] = f[j] => i = j
    <2>1. \A i \in J : i \in DOMAIN s /\ f[i] \in I /\ t[i] = s[f[i]]
      BY ShuffledRows DEF From
    <2>2. ASSUME NEW j \in I PROVE \E i \in J : f[i] = j
      <3>1. PICK i \in DOMAIN s : f[i] = j
        BY ShuffledRows
      <3> QED  BY <3>1 DEF From
    <2>3. ASSUME NEW i \in J, NEW j \in J, f[i] = f[j] PROVE i = j
      BY <2>1, <2>3, ShuffledRows
    <2> QED  BY <2>1, <2>2, <2>3
  <1>2. \A i, j \in J : Precedes(t, i, j) <=> Precedes(s, f[i], f[j])
    BY <1>1, TimeDecides
  <1>3. \A i, j \in I : ~(i # j /\ Precedes(s, i, j) /\ Precedes(s, j, i))
    <2>1. \A k \in I : s[k].at \in Int
      BY DEF Shuffled, Timed
    <2> QED  BY <2>1, TimeDecides
  <1>4. PICK e \in I : e = Earliest(s, I) /\ \A j \in I \ {e} : Precedes(s, e, j)
    BY EndsExist DEF Earliest
  <1>5. PICK l \in I : l = Latest(s, I) /\ \A j \in I \ {l} : Precedes(s, j, l)
    BY EndsExist DEF Latest
  <1>6. PICK e1 \in J : f[e1] = e
    BY <1>1
  <1>7. PICK l1 \in J : f[l1] = l
    BY <1>1
  <1> HIDE DEF J
  <1>8. Earliest(t, J) = e1
    <2>1. \A j \in J \ {e1} : Precedes(t, e1, j)
      BY <1>1, <1>2, <1>4, <1>6
    <2>2. PICK x \in J : x = Earliest(t, J) /\ \A j \in J \ {x} : Precedes(t, x, j)
      BY <2>1 DEF Earliest
    <2>3. x # e1 => Precedes(t, x, e1) /\ Precedes(t, e1, x)
      BY <2>1, <2>2
    <2> QED  BY <1>1, <1>2, <1>3, <2>2, <2>3
  <1>9. Latest(t, J) = l1
    <2>1. \A j \in J \ {l1} : Precedes(t, j, l1)
      BY <1>1, <1>2, <1>5, <1>7
    <2>2. PICK x \in J : x = Latest(t, J) /\ \A j \in J \ {x} : Precedes(t, j, x)
      BY <2>1 DEF Latest
    <2>3. x # l1 => Precedes(t, x, l1) /\ Precedes(t, l1, x)
      BY <2>1, <2>2
    <2> QED  BY <1>1, <1>2, <1>3, <2>2, <2>3
  <1> QED  BY <1>1, <1>4, <1>5, <1>6, <1>7, <1>8, <1>9 DEF J

\* What is chosen by what a row says is chosen in either order.
LEMMA PlacesMove ==
  ASSUME NEW s, NEW f, NEW t, Shuffled(s, f, t)
  PROVE  /\ \A a : LinkedTo(t, a) = From(f, s, LinkedTo(s, a))
         /\ \A a : OnBoard(t, a) = From(f, s, OnBoard(s, a))
         /\ \A o : OfOrder(t, o) = From(f, s, OfOrder(s, o))
         /\ \A I, types : OfType(t, From(f, s, I), types) = From(f, s, OfType(s, I, types))
  <1>1. DOMAIN t = DOMAIN s /\ \A i \in DOMAIN s : f[i] \in DOMAIN s /\ t[i] = s[f[i]]
    BY ShuffledRows
  <1>2. \A a : LinkedTo(t, a) = From(f, s, LinkedTo(s, a))
    BY <1>1 DEF LinkedTo, From
  <1>3. \A a : OnBoard(t, a) = From(f, s, OnBoard(s, a))
    BY <1>1 DEF OnBoard, From
  <1>4. \A o : OfOrder(t, o) = From(f, s, OfOrder(s, o))
    BY <1>1 DEF OfOrder, From
  <1>5. \A I, types : OfType(t, From(f, s, I), types) = From(f, s, OfType(s, I, types))
    BY <1>1 DEF OfType, From
  <1> QED  BY <1>2, <1>3, <1>4, <1>5

LEMMA NoneMove ==
  ASSUME NEW s, NEW f, NEW t, Shuffled(s, f, t), NEW I \in SUBSET DOMAIN s
  PROVE  From(f, s, I) = {} <=> I = {}
  <1>1. \A j \in I : \E i \in DOMAIN s : f[i] = j
    BY ShuffledRows
  <1> QED  BY <1>1 DEF From

LEMMA StatusStands ==
  ASSUME NEW s, NEW f, NEW t, Shuffled(s, f, t), NEW a
  PROVE  /\ ExecutionStatus(t, a) = ExecutionStatus(s, a)
         /\ RequiresReview(t, a) <=> RequiresReview(s, a)
         /\ IsActive(t, a) <=> IsActive(s, a)
         /\ Stage(t, a) = Stage(s, a)
  <1>1. LinkedTo(s, a) \in SUBSET DOMAIN s /\ OnBoard(s, a) \in SUBSET DOMAIN s
    BY DEF LinkedTo, OnBoard
  <1>2. LinkedTo(t, a) = From(f, s, LinkedTo(s, a)) /\ OnBoard(t, a) = From(f, s, OnBoard(s, a))
    BY PlacesMove
  <1>3. ExecutionStatus(t, a) = ExecutionStatus(s, a)
    <2>1. CASE LinkedTo(s, a) = {}
      <3>1. LinkedTo(t, a) = {}
        BY <1>1, <1>2, <2>1, NoneMove
      <3> QED  BY <2>1, <3>1 DEF ExecutionStatus
    <2>2. CASE LinkedTo(s, a) # {}
      <3>1. LinkedTo(t, a) # {} /\ t[Latest(t, LinkedTo(t, a))] = s[Latest(s, LinkedTo(s, a))]
        BY <1>1, <1>2, <2>2, EndsFound
      <3> QED  BY <2>2, <3>1 DEF ExecutionStatus
    <2> QED  BY <2>1, <2>2
  <1>4. RequiresReview(t, a) <=> RequiresReview(s, a)
    <2>1. \A i \in LinkedTo(t, a) : f[i] \in LinkedTo(s, a) /\ t[i] = s[f[i]]
      BY <1>2, ShuffledRows DEF From
    <2>2. \A j \in LinkedTo(s, a) : \E i \in LinkedTo(t, a) : f[i] = j
      BY <1>1, <1>2, ShuffledRows DEF From
    <2> QED  BY <2>1, <2>2 DEF RequiresReview
  <1>5. IsActive(t, a) <=> IsActive(s, a)
    <2>1. CASE OnBoard(s, a) = {}
      <3>1. OnBoard(t, a) = {}
        BY <1>1, <1>2, <2>1, NoneMove
      <3> QED  BY <2>1, <3>1 DEF IsActive
    <2>2. CASE OnBoard(s, a) # {}
      <3>1. OnBoard(t, a) # {} /\ t[Latest(t, OnBoard(t, a))] = s[Latest(s, OnBoard(s, a))]
        BY <1>1, <1>2, <2>2, EndsFound
      <3> QED  BY <2>2, <3>1 DEF IsActive
    <2> QED  BY <2>1, <2>2
  <1>6. Stage(t, a) = Stage(s, a)
    <2> DEFINE received == {"ArrivedBuffer", "StartedOperation"}
    <2>1. OfType(t, OnBoard(t, a), received) = From(f, s, OfType(s, OnBoard(s, a), received))
      BY <1>2, PlacesMove
    <2>2. OfType(s, OnBoard(s, a), received) \in SUBSET DOMAIN s
      BY <1>1 DEF OfType
    <2>3. OfType(t, OnBoard(t, a), received) = {} <=> OfType(s, OnBoard(s, a), received) = {}
      BY <2>1, <2>2, NoneMove
    <2> QED  BY <2>3 DEF Stage
  <1> QED  BY <1>3, <1>4, <1>5, <1>6

LEMMA TimesStand ==
  ASSUME NEW s, NEW f, NEW t, Shuffled(s, f, t), NEW a
  PROVE  ActualStart(t, a) = ActualStart(s, a) /\ ActualCompletion(t, a) = ActualCompletion(s, a)
  <1>1. ASSUME NEW types
        PROVE  /\ OfType(t, LinkedTo(t, a), types) = {} <=> OfType(s, LinkedTo(s, a), types) = {}
               /\ OfType(s, LinkedTo(s, a), types) # {} =>
                    /\ t[Earliest(t, OfType(t, LinkedTo(t, a), types))]
                         = s[Earliest(s, OfType(s, LinkedTo(s, a), types))]
                    /\ t[Latest(t, OfType(t, LinkedTo(t, a), types))]
                         = s[Latest(s, OfType(s, LinkedTo(s, a), types))]
    <2>1. OfType(t, LinkedTo(t, a), types) = From(f, s, OfType(s, LinkedTo(s, a), types))
      BY PlacesMove
    <2>2. OfType(s, LinkedTo(s, a), types) \in SUBSET DOMAIN s
      BY DEF OfType, LinkedTo
    <2> QED  BY <2>1, <2>2, NoneMove, EndsFound
  <1>2. ActualStart(t, a) = ActualStart(s, a)
    <2> DEFINE before == OfType(s, LinkedTo(s, a), {"StartedOperation"})
               after == OfType(t, LinkedTo(t, a), {"StartedOperation"})
    <2>1. (after = {} <=> before = {}) /\ (before # {} => t[Earliest(t, after)] = s[Earliest(s, before)])
      BY <1>1
    <2>2. /\ ActualStart(s, a) = IF before = {} THEN Nothing ELSE s[Earliest(s, before)].at
          /\ ActualStart(t, a) = IF after = {} THEN Nothing ELSE t[Earliest(t, after)].at
      BY DEF ActualStart
    <2> HIDE DEF before, after
    <2> QED  BY <2>1, <2>2
  <1>3. ActualCompletion(t, a) = ActualCompletion(s, a)
    <2> DEFINE shipped(u) == OfType(u, LinkedTo(u, a), {"Shipped"})
               completed(u) == OfType(u, LinkedTo(u, a), {"CompletedOperation"})
    <2>1. /\ shipped(t) = {} <=> shipped(s) = {}
          /\ shipped(s) # {} => t[Earliest(t, shipped(t))] = s[Earliest(s, shipped(s))]
      BY <1>1
    <2>2. /\ completed(t) = {} <=> completed(s) = {}
          /\ completed(s) # {} => t[Latest(t, completed(t))] = s[Latest(s, completed(s))]
      BY <1>1
    <2>3. \A u : ActualCompletion(u, a) =
            CASE shipped(u) # {} -> u[Earliest(u, shipped(u))].at
              [] shipped(u) = {} /\ completed(u) # {} -> u[Latest(u, completed(u))].at
              [] OTHER -> Nothing
      BY DEF ActualCompletion
    <2> HIDE DEF shipped, completed
    <2>4. CASE shipped(s) # {}
      BY <2>1, <2>3, <2>4
    <2>5. CASE shipped(s) = {} /\ completed(s) # {}
      BY <2>1, <2>2, <2>3, <2>5
    <2>6. CASE shipped(s) = {} /\ completed(s) = {}
      BY <2>1, <2>2, <2>3, <2>6
    <2> QED  BY <2>4, <2>5, <2>6
  <1> QED  BY <1>2, <1>3

\* What is read of one authorization.
LEMMA AuthorizationStands ==
  ASSUME NEW s, NEW f, NEW t, Shuffled(s, f, t), NEW a
  PROVE  /\ Variance(t, a) = Variance(s, a)
         /\ VarianceAction(t, a) = VarianceAction(s, a)
         /\ \A now : Alert(t, a, now) = Alert(s, a, now)
  <1>1. ActualStart(t, a) = ActualStart(s, a) /\ ActualCompletion(t, a) = ActualCompletion(s, a)
    BY TimesStand
  <1>2. Variance(t, a) = Variance(s, a)
    BY <1>1 DEF Variance
  <1>3. Basis(t, a) = Basis(s, a)
    BY <1>1 DEF Basis
  <1>4. VarianceAction(t, a) = VarianceAction(s, a)
    BY <1>3 DEF VarianceAction
  <1>5. ASSUME NEW now PROVE Alert(t, a, now) = Alert(s, a, now)
    <2>1. ExecutionStatus(t, a) = ExecutionStatus(s, a) /\ (RequiresReview(t, a) <=> RequiresReview(s, a))
      BY StatusStands
    <2>2. CASE RequiresReview(s, a)
      BY <2>1, <2>2 DEF Alert
    <2>3. CASE ~RequiresReview(s, a)
      BY <2>1, <2>3 DEF Alert
    <2> QED  BY <2>2, <2>3
  <1> QED  BY <1>2, <1>4, <1>5

LEMMA AllStand ==
  ASSUME NEW s, NEW f, NEW t, Shuffled(s, f, t), NEW A
  PROVE  OverallStatus(t, A) = OverallStatus(s, A) /\ VarianceStatus(t, A) = VarianceStatus(s, A)
  <1>1. {ExecutionStatus(t, a) : a \in A} = {ExecutionStatus(s, a) : a \in A}
    BY StatusStands
  <1>2. (\E a \in A : RequiresReview(t, a)) <=> (\E a \in A : RequiresReview(s, a))
    BY StatusStands
  <1>3. {Range(Variance(t, a)) : a \in A} = {Range(Variance(s, a)) : a \in A}
    BY AuthorizationStands
  <1>4. OverallStatus(t, A) = OverallStatus(s, A)
    <2> DEFINE Overall(statuses, review) ==
          CASE A = {} -> "NotAuthorized"
            [] review -> "ReviewRequired"
            [] statuses = {"Shipped"} -> "Shipped"
            [] statuses \subseteq {"Completed", "Shipped"} -> "Completed"
            [] statuses = {"Authorized"} -> "Authorized"
            [] statuses \cap {"ArrivedBuffer", "InProcess", "InExecution"} # {} -> "InProcess"
            [] OTHER -> "InExecution"
    <2>1. \A u : OverallStatus(u, A) =
            Overall({ExecutionStatus(u, a) : a \in A}, \E a \in A : RequiresReview(u, a))
      BY DEF OverallStatus
    <2>2. PICK review \in BOOLEAN : review <=> \E a \in A : RequiresReview(s, a)
      OBVIOUS
    <2>3. CASE review
      <3>1. (\E a \in A : RequiresReview(s, a)) = TRUE /\ (\E a \in A : RequiresReview(t, a)) = TRUE
        BY <1>2, <2>2, <2>3
      <3> HIDE DEF Overall
      <3> QED  BY <1>1, <2>1, <3>1
    <2>4. CASE ~review
      <3>1. (\E a \in A : RequiresReview(s, a)) = FALSE /\ (\E a \in A : RequiresReview(t, a)) = FALSE
        BY <1>2, <2>2, <2>4
      <3> HIDE DEF Overall
      <3> QED  BY <1>1, <2>1, <3>1
    <2> QED  BY <2>3, <2>4
  <1>5. VarianceStatus(t, A) = VarianceStatus(s, A)
    BY <1>3 DEF VarianceStatus
  <1> QED  BY <1>4, <1>5

\* Two rows follow each other in both orders or in neither.
LEMMA LoopsStand ==
  ASSUME NEW s, NEW f, NEW t, Shuffled(s, f, t), NEW o
  PROVE  ReworkLoops(t, o) = ReworkLoops(s, o)
  <1> DEFINE I == OfOrder(s, o)
             J == OfOrder(t, o)
             Loop(u, K, i, j) == /\ Follows(u, K, i, j)
                                 /\ {u[i].type, u[j].type} \subseteq DOMAIN Rank
                                 /\ Rank[u[j].type] <= Rank[u[i].type]
             Shown(u, i, j) == <<u[i].type, u[j].type, u[j].at - u[i].at>>
  <1>1. /\ \A i \in J : i \in DOMAIN s /\ f[i] \in I /\ t[i] = s[f[i]]
        /\ \A j \in I : \E i \in J : f[i] = j
    <2>1. J = From(f, s, I) /\ I \subseteq DOMAIN s
      <3>1. J = From(f, s, I)
        BY PlacesMove
      <3>2. I \subseteq DOMAIN s
        BY DEF OfOrder
      <3> QED  BY <3>1, <3>2
    <2>2. \A i \in J : i \in DOMAIN s /\ f[i] \in I /\ t[i] = s[f[i]]
      BY <2>1, ShuffledRows DEF From
    <2>3. ASSUME NEW j \in I PROVE \E i \in J : f[i] = j
      <3>1. PICK i \in DOMAIN s : f[i] = j
        BY <2>1, ShuffledRows
      <3> QED  BY <2>1, <3>1 DEF From
    <2> QED  BY <2>2, <2>3
  <1>2. \A i, j \in J : Precedes(t, i, j) <=> Precedes(s, f[i], f[j])
    BY <1>1, TimeDecides
  <1>3. \A u, x : x \in ReworkLoops(u, o) <=>
          \E i, j \in OfOrder(u, o) : Loop(u, OfOrder(u, o), i, j) /\ x = Shown(u, i, j)
    <2> SUFFICES ASSUME NEW u, NEW x
                 PROVE  x \in ReworkLoops(u, o) <=>
                          \E i, j \in OfOrder(u, o) : Loop(u, OfOrder(u, o), i, j) /\ x = Shown(u, i, j)
      OBVIOUS
    <2> DEFINE K == OfOrder(u, o)
               loops == {q \in K \X K : Loop(u, K, q[1], q[2])}
    <2>1. ReworkLoops(u, o) = {Shown(u, p[1], p[2]) : p \in loops}
      BY DEF ReworkLoops
    <2> HIDE DEF K, Loop, Shown
    <2>2. ASSUME x \in ReworkLoops(u, o)
          PROVE  \E i, j \in K : Loop(u, K, i, j) /\ x = Shown(u, i, j)
      <3>1. PICK p \in loops : x = Shown(u, p[1], p[2])
        BY <2>1, <2>2
      <3> QED  BY <3>1
    <2>3. ASSUME NEW i \in K, NEW j \in K, Loop(u, K, i, j), x = Shown(u, i, j)
          PROVE  x \in ReworkLoops(u, o)
      <3>1. <<i, j>> \in loops /\ <<i, j>>[1] = i /\ <<i, j>>[2] = j
        BY <2>3
      <3> QED  BY <2>1, <2>3, <3>1
    <2> QED  BY <2>2, <2>3 DEF K
  <1> HIDE DEF I, J
  <1>4. \A i, j \in J : Follows(t, J, i, j) <=> Follows(s, I, f[i], f[j])
    <2>1. ASSUME NEW i \in J, NEW j \in J
          PROVE  (\E k \in J : Precedes(t, i, k) /\ Precedes(t, k, j))
                   <=> (\E k \in I : Precedes(s, f[i], k) /\ Precedes(s, k, f[j]))
      BY <1>1, <1>2
    <2> QED  BY <1>2, <2>1 DEF Follows
  <1>5. \A i, j \in J : /\ Loop(t, J, i, j) <=> Loop(s, I, f[i], f[j])
                        /\ Shown(t, i, j) = Shown(s, f[i], f[j])
    BY <1>1, <1>4
  <1> HIDE DEF Loop, Shown
  <1>6. \A x : (\E i, j \in J : Loop(t, J, i, j) /\ x = Shown(t, i, j))
                 <=> (\E i, j \in I : Loop(s, I, i, j) /\ x = Shown(s, i, j))
    <2>1. ASSUME NEW x, NEW i \in J, NEW j \in J, Loop(t, J, i, j), x = Shown(t, i, j)
          PROVE  \E k, l \in I : Loop(s, I, k, l) /\ x = Shown(s, k, l)
      <3>1. f[i] \in I /\ f[j] \in I
        BY <1>1
      <3>2. Loop(s, I, f[i], f[j]) /\ x = Shown(s, f[i], f[j])
        BY <1>5, <2>1
      <3> QED  BY <3>1, <3>2
    <2>2. ASSUME NEW x, NEW k \in I, NEW l \in I, Loop(s, I, k, l), x = Shown(s, k, l)
          PROVE  \E i, j \in J : Loop(t, J, i, j) /\ x = Shown(t, i, j)
      <3>1. PICK i \in J : f[i] = k
        BY <1>1
      <3>2. PICK j \in J : f[j] = l
        BY <1>1
      <3>3. Loop(t, J, i, j) /\ x = Shown(t, i, j)
        BY <1>5, <2>2, <3>1, <3>2
      <3> QED  BY <3>3
    <2> QED  BY <2>1, <2>2
  <1>7. \A x : x \in ReworkLoops(t, o) <=> x \in ReworkLoops(s, o)
    BY <1>3, <1>6 DEF I, J
  <1> QED  BY <1>3, <1>7 DEF ReworkLoops

\* The last event of an order is the one with the greatest time.
LEMMA FloorIsLatest ==
  ASSUME NEW s, NEW f, NEW t, Shuffled(s, f, t), NEW o
  PROVE  FloorEvent(t, o) = FloorEvent(s, o)
  <1> DEFINE I == OfOrder(s, o)
             J == OfOrder(t, o)
             Last(u, K) == {i \in K : \A j \in K : u[j].at <= u[i].at}
  <1>1. J = From(f, s, I) /\ I \in SUBSET DOMAIN s
    <2>1. J = From(f, s, I)
      BY PlacesMove
    <2>2. I \in SUBSET DOMAIN s
      BY DEF OfOrder
    <2> QED  BY <2>1, <2>2
  <1>2. \A u : FloorEvent(u, o) =
          IF OfOrder(u, o) = {} THEN Nothing
          ELSE u[CHOOSE i \in Last(u, OfOrder(u, o)) :
                   \A j \in Last(u, OfOrder(u, o)) : i <= j].type
    BY DEF FloorEvent
  <1> HIDE DEF I, J
  <1>3. CASE I = {}
    BY <1>1, <1>2, <1>3, NoneMove DEF I, J
  <1>4. CASE I # {}
    <2>1. /\ \A i \in J : i \in DOMAIN s /\ f[i] \in I /\ t[i] = s[f[i]]
          /\ \A j \in I : \E i \in J : f[i] = j
          /\ \A i, j \in J : f[i] = f[j] => i = j
      <3>1. \A i \in J : i \in DOMAIN s /\ f[i] \in I /\ t[i] = s[f[i]]
        BY <1>1, ShuffledRows DEF From
      <3>2. ASSUME NEW j \in I PROVE \E i \in J : f[i] = j
        <4>1. PICK i \in DOMAIN s : f[i] = j
          BY <1>1, ShuffledRows
        <4> QED  BY <1>1, <4>1 DEF From
      <3>3. ASSUME NEW i \in J, NEW j \in J, f[i] = f[j] PROVE i = j
        BY <3>1, <3>3, ShuffledRows
      <3> QED  BY <3>1, <3>2, <3>3
    <2>2. \A k \in I : k \in Int /\ s[k].at \in Int
      BY <1>1 DEF Shuffled, Timed
    <2>3. \A k, l \in I : s[k].at = s[l].at => k = l
      BY <1>1 DEF Shuffled
    <2>4. PICK l \in I : \A j \in I \ {l} : Precedes(s, j, l)
      BY <1>1, <1>4, EndsExist
    <2>5. \A j \in I : s[j].at <= s[l].at
      BY <1>1, <2>2, <2>4, TimeDecides
    <2>6. Last(s, I) = {l}
      BY <2>2, <2>3, <2>5
    <2>7. PICK m \in J : f[m] = l
      BY <2>1
    <2>8. Last(t, J) = {m}
      <3>1. \A j \in J : t[j].at <= t[m].at
        BY <2>1, <2>5, <2>7
      <3>2. \A i \in J : (\A j \in J : t[j].at <= t[i].at) => i = m
        BY <2>1, <2>2, <2>3, <2>5, <2>7
      <3> QED  BY <3>1, <3>2
    <2>9. l \in Int /\ m \in Int
      BY <1>1, <2>1, <2>2 DEF Shuffled, Timed
    <2> HIDE DEF Last
    <2>10. (CHOOSE i \in Last(s, I) : \A j \in Last(s, I) : i <= j) = l
      BY <2>6, <2>9
    <2>11. (CHOOSE i \in Last(t, J) : \A j \in Last(t, J) : i <= j) = m
      BY <2>8, <2>9
    <2>12. FloorEvent(s, o) = s[l].type
      BY <1>2, <1>4, <2>10 DEF I
    <2>13. FloorEvent(t, o) = t[m].type
      BY <1>2, <2>7, <2>11 DEF J
    <2> QED  BY <2>1, <2>7, <2>12, <2>13
  <1> QED  BY <1>3, <1>4

\* Jumps of the queue are counted, and lateness is measured, in any order.
LEMMA JumpsStand ==
  ASSUME NEW s, NEW f, NEW t, Shuffled(s, f, t)
  PROVE  Cardinality(QueueJumps(t)) = Cardinality(QueueJumps(s))
  <1> DEFINE I == {i \in DOMAIN s : s[i].located}
             J == {i \in DOMAIN t : t[i].located}
             Ended(u, K, i) == \E j \in K : /\ Precedes(u, i, j) /\ ~u[j].jump
                                            /\ u[j].type \in {"StartedOperation", "CompletedOperation"}
  <1>1. /\ \A i \in J : i \in DOMAIN s /\ f[i] \in I /\ t[i] = s[f[i]]
        /\ \A j \in I : \E i \in J : f[i] = j
    <2>1. DOMAIN t = DOMAIN s /\ \A i \in DOMAIN s : f[i] \in DOMAIN s /\ t[i] = s[f[i]]
      BY ShuffledRows
    <2>2. \A i \in J : i \in DOMAIN s /\ f[i] \in I /\ t[i] = s[f[i]]
      BY <2>1
    <2>3. ASSUME NEW j \in I PROVE \E i \in J : f[i] = j
      <3>1. PICK i \in DOMAIN s : f[i] = j
        BY ShuffledRows
      <3> QED  BY <2>1, <3>1
    <2> QED  BY <2>2, <2>3
  <1>2. /\ QueueJumps(s) = {i \in I : s[i].jump /\ ~Ended(s, I, i)}
        /\ QueueJumps(t) = {i \in J : t[i].jump /\ ~Ended(t, J, i)}
    BY DEF QueueJumps
  <1>3. I \subseteq DOMAIN s
    OBVIOUS
  <1> HIDE DEF I, J
  <1>4. \A i \in J : Ended(t, J, i) <=> Ended(s, I, f[i])
    <2>1. \A i, j \in J : Precedes(t, i, j) <=> Precedes(s, f[i], f[j])
      BY <1>1, TimeDecides
    <2> QED  BY <1>1, <2>1
  <1> HIDE DEF Ended
  <1> DEFINE S == QueueJumps(s)
             T == QueueJumps(t)
             g == [i \in T |-> f[i]]
  <1>5. \A i \in J : i \in T <=> f[i] \in S
    BY <1>1, <1>2, <1>4
  <1>6. T \subseteq J /\ S \subseteq I
    BY <1>2
  <1>7. \A j \in S : \E i \in T : f[i] = j
    BY <1>1, <1>5, <1>6
  <1>8. \A i, j \in T : f[i] = f[j] => i = j
    BY <1>1, <1>6, ShuffledRows
  <1> HIDE DEF S, T
  <1>9. g \in [T -> S]
    BY <1>5, <1>6
  <1>10. g \in Bijection(T, S)
    <2>1. g \in Injection(T, S)
      BY <1>8, <1>9 DEF Injection, IsInjective
    <2>2. g \in Surjection(T, S)
      BY <1>7, <1>9 DEF Surjection
    <2> QED  BY <2>1, <2>2 DEF Bijection
  <1>11. IsFiniteSet(T)
    <2>1. IsFiniteSet(DOMAIN s)
      BY FS_Interval DEF Shuffled, Timed
    <2>2. T \subseteq DOMAIN s
      BY <1>1, <1>6
    <2> QED  BY <2>1, <2>2, FS_Subset
  <1>12. ExistsBijection(T, S)
    BY <1>10 DEF ExistsBijection
  <1> QED  BY <1>11, <1>12, FS_Bijection DEF S, T

LEMMA LateArrivalsStand ==
  ASSUME NEW s, NEW f, NEW t, Shuffled(s, f, t)
  PROVE  LateArrivals(t) = LateArrivals(s)
  <1>1. DOMAIN t = DOMAIN s /\ \A i \in DOMAIN s : f[i] \in DOMAIN s /\ t[i] = s[f[i]]
    BY ShuffledRows
  <1>2. \A j \in DOMAIN s : \E i \in DOMAIN s : f[i] = j
    BY ShuffledRows
  <1>3. \A u, x : x \in LateArrivals(u) <=>
          \E i \in DOMAIN u : /\ IsLateArrival(u[i].type, u[i].at, u[i].target)
                              /\ x = u[i].at - u[i].target
    BY DEF LateArrivals
  <1>4. \A x : x \in LateArrivals(t) <=> x \in LateArrivals(s)
    BY <1>1, <1>2, <1>3
  <1> QED  BY <1>4 DEF LateArrivals

LEMMA ReportStands ==
  ASSUME NEW s, NEW f, NEW t, Shuffled(s, f, t), NEW A, NEW O
  PROVE  Report(t, A, O) = Report(s, A, O)
  <1> DEFINE Row(u, a) == <<ExecutionStatus(u, a), Variance(u, a), VarianceAction(u, a),
                            IsActive(u, a), Stage(u, a), {<<now, Alert(u, a, now)>> : now \in Instants}>>
             Line(u, o) == <<ReworkLoops(u, o), FloorEvent(u, o)>>
  <1>1. ASSUME NEW a PROVE Row(t, a) = Row(s, a)
    <2>1. {<<now, Alert(t, a, now)>> : now \in Instants} = {<<now, Alert(s, a, now)>> : now \in Instants}
      BY AuthorizationStands
    <2>2. IsActive(t, a) = IsActive(s, a)
      BY StatusStands DEF IsActive
    <2> QED  BY <2>1, <2>2, StatusStands, AuthorizationStands
  <1>2. ASSUME NEW o PROVE Line(t, o) = Line(s, o)
    BY LoopsStand, FloorIsLatest
  <1>3. \A u : Report(u, A, O) =
          <<[a \in A |-> Row(u, a)], OverallStatus(u, A), VarianceStatus(u, A),
            [o \in O |-> Line(u, o)], Cardinality(QueueJumps(u)), LateArrivals(u)>>
    BY DEF Report
  <1> HIDE DEF Row, Line
  <1>4. [a \in A |-> Row(t, a)] = [a \in A |-> Row(s, a)]
    BY <1>1
  <1>5. [o \in O |-> Line(t, o)] = [o \in O |-> Line(s, o)]
    BY <1>2
  <1> QED  BY <1>3, <1>4, <1>5, AllStand, JumpsStand, LateArrivalsStand

\* Which orders are locked does not depend on the order of the commands.
LEMMA LocksStand ==
  ASSUME NEW s, NEW f, NEW t, Shuffled(s, f, t), NEW run
  PROVE  LockedOrders(t, run) = LockedOrders(s, run)
  <1> DEFINE About(u, o) == {n \in DOMAIN u : u[n].run = run /\ o \in u[n].orders}
  <1>1. \A u : LockedOrders(u, run) =
          {o \in Order : About(u, o) # {} /\ u[Latest(u, About(u, o))].locked}
    BY DEF LockedOrders
  <1>2. ASSUME NEW o
        PROVE  (About(t, o) # {} /\ t[Latest(t, About(t, o))].locked)
                 <=> (About(s, o) # {} /\ s[Latest(s, About(s, o))].locked)
    <2>1. About(t, o) = From(f, s, About(s, o))
      BY ShuffledRows DEF From
    <2>2. About(s, o) \in SUBSET DOMAIN s
      OBVIOUS
    <2> HIDE DEF About
    <2>3. CASE About(s, o) = {}
      BY <2>1, <2>2, <2>3, NoneMove
    <2>4. CASE About(s, o) # {}
      BY <2>1, <2>2, <2>4, EndsFound
    <2> QED  BY <2>3, <2>4
  <1> HIDE DEF About
  <1> QED  BY <1>1, <1>2


\* Events and commands are rows that carry times.
TimedRows(s) ==
  \E n \in Nat : /\ DOMAIN s = 1 .. n /\ s = [i \in 1 .. n |-> s[i]]
                 /\ \A i \in 1 .. n : s[i].at \in Int

TimedInv == TimedRows(events) /\ TimedRows(locks)

LEMMA AppendTimed ==
  ASSUME NEW s, TimedRows(s), NEW e, e.at \in Int
  PROVE  TimedRows(Append(s, e))
  <1>1. PICK n \in Nat : /\ DOMAIN s = 1 .. n /\ s = [i \in 1 .. n |-> s[i]]
                         /\ \A i \in 1 .. n : s[i].at \in Int
    BY DEF TimedRows
  <1> DEFINE all == {s[i] : i \in 1 .. n} \cup {e}
             longer == Append(s, e)
  <1>2. s \in Seq(all) /\ Len(s) = n
    BY <1>1, SeqDef
  <1>3. e \in all
    OBVIOUS
  <1> HIDE DEF all
  <1>4. longer \in Seq(all) /\ Len(longer) = n + 1
    BY <1>2, <1>3, AppendProperties
  <1>6. longer[n + 1] = e /\ \A i \in 1 .. n : longer[i] = s[i]
    BY <1>2, <1>3, AppendProperties
  <1> HIDE DEF longer
  <1>5. DOMAIN longer = 1 .. (n + 1) /\ longer = [i \in 1 .. (n + 1) |-> longer[i]]
    BY <1>4
  <1>7. \A i \in 1 .. (n + 1) : longer[i].at \in Int
    <2>1. \A i \in 1 .. (n + 1) : i \in 1 .. n \/ i = n + 1
      OBVIOUS
    <2> QED  BY <1>1, <1>6, <2>1
  <1>8. n + 1 \in Nat
    OBVIOUS
  <1>9. TimedRows(longer)
    BY <1>5, <1>7, <1>8 DEF TimedRows
  <1> QED  BY <1>9 DEF longer

LEMMA TimedInitially == ReleaseInit => TimedInv
  <1> SUFFICES ASSUME ReleaseInit PROVE TimedInv
    OBVIOUS
  <1>1. DOMAIN <<>> = 1 .. 0 /\ <<>> = [i \in 1 .. 0 |-> <<>>[i]]
    OBVIOUS
  <1>2. TimedRows(<<>>)
    BY <1>1 DEF TimedRows
  <1> QED  BY <1>2 DEF ReleaseInit, TimedInv

\* An event is recorded with the time of its message.
LEMMA RecordTimed ==
  ASSUME TimedInv, NEW notice, NEW o, NEW a, NEW at \in Instants,
         Record(FloorMessage(notice, o, a, at)), UNCHANGED locks
  PROVE  TimedInv'
  <1>1. PICK message : message = FloorMessage(notice, o, a, at)
    OBVIOUS
  <1> DEFINE row == [message EXCEPT !.review = IsLateArrival(message.type, message.at, message.target)]
  <1>2. row.at = at
    BY <1>1 DEF FloorMessage
  <1>3. events' = Append(events, row)
    BY <1>1 DEF Record
  <1>4. at \in Int
    BY StabilityPolicyAssumption
  <1> HIDE DEF row
  <1>5. TimedRows(events')
    BY <1>2, <1>3, <1>4, AppendTimed DEF TimedInv
  <1> QED  BY <1>5 DEF TimedInv

LEMMA CommandTimed ==
  ASSUME TimedInv, NEW run, NEW orders, NEW locked, NEW at \in Instants,
         Command(run, orders, locked, at)
  PROVE  TimedInv'
  <1> DEFINE row == [run |-> run, orders |-> orders, locked |-> locked, at |-> at]
  <1>1. row.at \in Int
    BY StabilityPolicyAssumption
  <1>2. locks' = Append(locks, row) /\ events' = events
    BY DEF Command
  <1> HIDE DEF row
  <1>3. TimedRows(locks')
    BY <1>1, <1>2, AppendTimed DEF TimedInv
  <1> QED  BY <1>2, <1>3 DEF TimedInv

LEMMA TimedStep == TimedInv /\ [ReleaseNext]_releaseVars => TimedInv'
  <1> SUFFICES ASSUME TimedInv, [ReleaseNext]_releaseVars PROVE TimedInv'
    OBVIOUS
  <1>1. ASSUME UNCHANGED <<events, locks>> PROVE TimedInv'
    BY <1>1 DEF TimedInv
  <1>2. CASE Replanning
    <2>1. ASSUME NEW o, NEW suggested, NEW at, NEW risk, NEW blocked, NEW last,
                 AskForRelease(o, suggested, at, risk, blocked, last)
          PROVE  UNCHANGED <<events, locks>>
      BY <2>1 DEF AskForRelease
    <2>2. ASSUME NEW p, NEW last, AskAfterVariance(p, last) PROVE UNCHANGED <<events, locks>>
      BY <2>2 DEF AskAfterVariance
    <2>3. ASSUME NEW r PROVE
            /\ \A status : Decide(r, status) => UNCHANGED <<events, locks>>
            /\ ExecuteInVain(r) => UNCHANGED <<events, locks>>
            /\ \A source, from, answer : Execute(r, source, from, answer) => UNCHANGED <<events, locks>>
            /\ \A n, at : BuildPackage(r, n, at) => UNCHANGED <<events, locks>>
      BY DEF Decide, ExecuteInVain, Execute, BuildPackage
    <2>4. ASSUME NEW a, Authorize(a) PROVE UNCHANGED <<events, locks>>
      BY <2>4 DEF Authorize
    <2>5. ASSUME NEW r, NEW p, NEW o, NEW at, NEW policy, AuthorizePackage(r, p, o, at, policy)
          PROVE  UNCHANGED <<events, locks>>
      BY <2>4, <2>5, Zenon DEF AuthorizePackage
    <2>6. ASSUME NEW r, NEW o, NEW at, NEW evaluatedAt, NEW n, NEW policy,
                 AuthorizeRequest(r, o, at, evaluatedAt, n, policy)
          PROVE  UNCHANGED <<events, locks>>
      BY <2>4, <2>6, Zenon DEF AuthorizeRequest
    <2>7. UNCHANGED <<events, locks>>
      BY <1>2, <2>1, <2>2, <2>3, <2>5, <2>6, Zenon DEF Replanning
    <2> QED  BY <1>1, <2>7
  <1>3. CASE Floor
    <2>1. ASSUME NEW at \in Instants, NEW state \in State, Capture(at, state) PROVE TimedInv'
      BY <1>1, <2>1 DEF Capture
    <2>2. ASSUME NEW at \in Instants, NEW requested \in Optional(DOMAIN snapshots),
                 MockRefresh(at, requested)
          PROVE  TimedInv'
      BY <1>1, <2>2 DEF MockRefresh, Capture
    <2>3. ASSUME NEW run \in Run, NEW at \in Instants, NEW orders \in SUBSET Order \ {{}},
                 NEW locked \in BOOLEAN, Command(run, orders, locked, at)
          PROVE  TimedInv'
      BY <2>3, CommandTimed
    <2>4. ASSUME NEW run \in Run, NEW at \in Instants, NEW useLatest \in BOOLEAN,
                 NEW requested \in Optional(DOMAIN snapshots), Issue(run, at, useLatest, requested)
          PROVE  TimedInv'
      BY <1>1, <2>4 DEF Issue
    <2>5. ASSUME NEW run \in Run, NEW at \in Instants, NEW useLatest \in BOOLEAN,
                 NEW requested \in Optional(DOMAIN snapshots), NEW o \in Order,
                 AuthorizeRun(run, o, at, useLatest, requested)
          PROVE  TimedInv'
      BY <1>1, <2>5 DEF AuthorizeRun
    <2>6. ASSUME NEW run \in Run, NEW at \in Instants, NEW o \in Order, NEW type, NEW code,
                 BufferTransaction(run, o, type, at, code)
          PROVE  TimedInv'
      <3>1. PICK a \in ForRun(run, o) :
              /\ Record(FloorMessage([type |-> type, target |-> a.start, code |-> code,
                                      located |-> FALSE, jump |-> FALSE], o, a, at))
              /\ UNCHANGED locks
        BY <2>6, Zenon DEF BufferTransaction
      <3> QED  BY <3>1, RecordTimed
    <2>7. ASSUME NEW notice \in Notice, NEW o \in Order, NEW a \in Optional(authorizations),
                 NEW at \in Instants, ReportEvent(FloorMessage(notice, o, a, at))
          PROVE  TimedInv'
      <3>1. Record(FloorMessage(notice, o, a, at)) /\ UNCHANGED locks
        BY <2>7 DEF ReportEvent
      <3> QED  BY <3>1, RecordTimed
    <2> QED  BY <1>3, <2>1, <2>2, <2>3, <2>4, <2>5, <2>6, <2>7, Zenon DEF Floor
  <1>4. CASE UNCHANGED releaseVars
    BY <1>1, <1>4 DEF releaseVars
  <1> QED  BY <1>2, <1>3, <1>4 DEF ReleaseNext, Read

\* Rows with different times may have arrived in any order.
LEMMA TimedArrival ==
  ASSUME NEW s, TimedRows(s), \A i, j \in DOMAIN s : s[i].at = s[j].at => i = j,
         NEW f \in Bijection(DOMAIN s, DOMAIN s), NEW t, t = [i \in DOMAIN s |-> s[f[i]]]
  PROVE  Shuffled(s, f, t)
  BY DEF TimedRows, Timed, Shuffled

\* Events of the floor and lock commands that carry different times give the
\* same statuses, variances, alerts, rework loops, dispatch conditions and locked
\* orders in whatever order they arrived: any number of them, in any order.
THEOREM ArrivalDoesNotMatter == ReleaseSpec => []ArrivalOrderIrrelevant
  <1>1. ReleaseInit => TimedInv
    BY TimedInitially
  <1>2. TimedInv /\ [ReleaseNext]_releaseVars => TimedInv'
    BY TimedStep
  <1>3. ASSUME TimedInv PROVE ArrivalOrderIrrelevant
    <2>1. ASSUME \A i, j \in DOMAIN events : events[i].at = events[j].at => i = j,
                 NEW f \in Bijection(DOMAIN events, DOMAIN events)
          PROVE  Report([i \in DOMAIN events |-> events[f[i]]], authorizations, Order)
                   = Report(events, authorizations, Order)
      <3>1. PICK t : t = [i \in DOMAIN events |-> events[f[i]]]
        OBVIOUS
      <3>2. Shuffled(events, f, t)
        BY <1>3, <2>1, <3>1, TimedArrival DEF TimedInv
      <3> QED  BY <3>1, <3>2, ReportStands
    <2>2. ASSUME \A i, j \in DOMAIN locks : locks[i].at = locks[j].at => i = j,
                 NEW f \in Bijection(DOMAIN locks, DOMAIN locks), NEW run \in Run
          PROVE  LockedOrders([i \in DOMAIN locks |-> locks[f[i]]], run) = LockedOrders(locks, run)
      <3>1. PICK t : t = [i \in DOMAIN locks |-> locks[f[i]]]
        OBVIOUS
      <3>2. Shuffled(locks, f, t)
        BY <1>3, <2>2, <3>1, TimedArrival DEF TimedInv
      <3> QED  BY <3>1, <3>2, LocksStand
    <2> DEFINE reordered(s) == {[i \in DOMAIN s |-> s[f[i]]] : f \in Bijection(DOMAIN s, DOMAIN s)}
               distinct(s) == \A i, j \in DOMAIN s : s[i].at = s[j].at => i = j
    <2>3. ASSUME distinct(events), NEW s \in reordered(events)
          PROVE  Report(s, authorizations, Order) = Report(events, authorizations, Order)
      <3>1. PICK f \in Bijection(DOMAIN events, DOMAIN events) : s = [i \in DOMAIN events |-> events[f[i]]]
        BY <2>3
      <3> QED  BY <2>1, <2>3, <3>1
    <2>4. ASSUME distinct(locks), NEW s \in reordered(locks), NEW run \in Run
          PROVE  LockedOrders(s, run) = LockedOrders(locks, run)
      <3>1. PICK f \in Bijection(DOMAIN locks, DOMAIN locks) : s = [i \in DOMAIN locks |-> locks[f[i]]]
        BY <2>4
      <3> QED  BY <2>2, <2>4, <3>1
    <2>5. ArrivalOrderIrrelevant =
            (/\ distinct(events) => \A s \in reordered(events) :
                  Report(s, authorizations, Order) = Report(events, authorizations, Order)
             /\ distinct(locks) => \A s \in reordered(locks) : \A run \in Run :
                  LockedOrders(s, run) = LockedOrders(locks, run))
      BY Zenon DEF ArrivalOrderIrrelevant
    <2> HIDE DEF reordered, distinct
    <2> QED  BY <2>3, <2>4, <2>5, Zenon
  <1> QED  BY <1>1, <1>2, <1>3, PTL DEF ReleaseSpec
=============================================================================
