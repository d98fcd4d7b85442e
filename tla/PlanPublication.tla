-------------------------- MODULE PlanPublication ---------------------------
(* The publication of completed plans (plan_publication.py and its handlers  *)
(* in api.py), on the runs of PlanningInputs: Draft, Reviewed, Approved,      *)
(* Published, and then revoked or superseded by another run's plan for the    *)
(* same problem.                                                             *)
EXTENDS PlanningInputs

CONSTANTS
  Role,           \* of the actors; Nothing where no roles are required
  Horizon         \* the minutes the properties compare

\* Those of the overrides are among them.
ASSUME HorizonAssumption ==
  Horizon \subseteq Int /\ \A o \in Override : o.start .. (o.end - 1) \subseteq Horizon

\* The windows a planner was shown at the moment a run was created.  The
\* system keeps no such record: it is here for the properties.
VARIABLE shown

planVars == <<inputVars, shown>>

PublicationState(run) ==
  IF run.publication # Nothing THEN run.publication
  ELSE IF run.status = "Completed" /\ run.plan # Nothing THEN "Draft" ELSE "Unavailable"

Fingerprint(run) == run.plan

Transition(action) ==
  CASE action = "Review" -> <<"Draft", "Reviewed">>
    [] action = "Approve" -> <<"Reviewed", "Approved">>
    [] action = "Publish" -> <<"Approved", "Published">>
    [] action = "Revoke" -> <<"Published", "PublicationRevoked">>

Permitted(action, role) == action \in {"Publish", "Revoke"} => role \in {Nothing, "Admin"}

MayMove(n, action, role) ==
  /\ n \in DOMAIN runs
  /\ Permitted(action, role)
  /\ PublicationState(runs[n]) = Transition(action)[1]

\* Review, approval and revocation touch the run alone.
Move(n, action, role) ==
  /\ action # "Publish"
  /\ MayMove(n, action, role)
  /\ runs' = [runs EXCEPT ![n].publication = Transition(action)[2]]
  /\ UNCHANGED <<calendars, assignments, overrides, versions, strategies, policies, shown>>

Package(run) == [fingerprint |-> Fingerprint(run), version |-> run.version]

SupersededAnyProblem(n) ==
  {m \in DOMAIN runs \ {n} : /\ runs[m].problem # runs[n].problem
                             /\ PublicationState(runs[m]) = "Published"}

\* The published plans of the problem, which give way.
Superseded(n) ==
  {m \in DOMAIN runs \ {n} : /\ runs[m].problem = runs[n].problem
                             /\ PublicationState(runs[m]) = "Published"}

\* The first run found that now says it is superseded by this one.
Supersedes(n) ==
  LET earlier == Superseded(n) \cup
                 {m \in DOMAIN runs \ {n} : /\ runs[m].problem = runs[n].problem
                                            /\ runs[m].supersededBy = n}
  IN IF earlier = {} THEN Nothing ELSE CHOOSE m \in earlier : TRUE

Publish(n, role) ==
  /\ MayMove(n, "Publish", role)
  /\ runs' = [m \in DOMAIN runs |->
       CASE m = n -> [runs[m] EXCEPT !.publication = "Published", !.package = Package(runs[n]),
                                     !.supersedes = Supersedes(n)]
         [] m \in Superseded(n) ->
              [runs[m] EXCEPT !.publication = "Superseded", !.supersededBy = n]
         [] OTHER -> runs[m]]
  /\ UNCHANGED <<calendars, assignments, overrides, versions, strategies, policies, shown>>

-----------------------------------------------------------------------------
PlansInit == InputsInit /\ shown = <<>>

Configure ==
  /\ \/ \E c \in BaseCalendar : CreateCalendar(c)
     \/ \E a \in Assignment : CreateAssignment(a)
     \/ \E o \in Override : CreateOverride(o)
     \/ \E s \in Strategy : CreateStrategy(s)
     \/ \E p \in Policy : CreatePolicy(p)
     \/ \E v \in Version : CreateVersion(v)
     \/ \E id \in Ids(Version) :
          PublishVersion(id) \/ RollbackVersion(id) \/ RetireVersion(id)
  /\ UNCHANGED shown

\* The planner asks for a run having looked at the preview of its version.
AskForRun(q) ==
  /\ CreateRun(q)
  /\ shown' = Put(shown, q.id, Preview(versions[q.version]))

Solve(n, result, retried) == ExecuteRun(n, result, retried) /\ UNCHANGED shown

PlansNext ==
  \/ Configure
  \/ \E q \in RunRequest : AskForRun(q)
  \/ \E n \in DOMAIN runs, result \in {"Feasible", "Infeasible", "Error"}, retried \in BOOLEAN :
       Solve(n, result, retried)
  \/ \E n \in DOMAIN runs, role \in Role, action \in {"Review", "Approve", "Revoke"} :
       Move(n, action, role)
  \/ \E n \in DOMAIN runs, role \in Role : Publish(n, role)
  \/ UNCHANGED planVars     \* a preview, a list or a refused request

PlansSpec == PlansInit /\ [][PlansNext]_planVars

-----------------------------------------------------------------------------
(* The rules in force, read minute by minute: the order the documentation    *)
(* gives them is maintenance, holiday, temporary shift, overtime, base shift. *)

Governing(r) ==
  LET named == {c \in Active(calendars) : \E a \in Active(ToSet(assignments)) :
                  a.resource = r.id /\ a.calendar = c.id}
  IN IF named = {} THEN r.calendar ELSE WorkCalendar(CHOOSE c \in named : TRUE)

Concerns(o, r) ==
  /\ o.status = "Active"
  /\ IF o.resource # Nothing THEN o.resource = r.id
     ELSE Governing(r) # Nothing /\ Governing(r).id = o.calendar

Closed(r, t) ==
  /\ Governing(r) # Nothing
  /\ \/ \E w \in Governing(r).maintenance : Within(t, w)
     \/ \E o \in overrides : Concerns(o, r) /\ o.type = "ExclusionOrMaintenance" /\ Within(t, o)
     \/ DateOf(t) \in Governing(r).holidays

OnShift(r, t) ==
  /\ DateOf(t) \in DOMAIN r.capacity
  /\ Governing(r) # Nothing =>
       /\ Weekday(DateOf(t)) \in Governing(r).weekdays
       /\ \E shift \in Governing(r).shifts : Within(t % Day, shift)

ExtraRules(r) == {o \in overrides : Concerns(o, r) /\ o.type # "ExclusionOrMaintenance"}

Opened(buckets, o) == {b \in buckets : b.of = <<"extra", o.id>>}

FollowsPriority(r, buckets) ==
  /\ \A t \in Horizon :
       (\E b \in buckets : Within(t, b) /\ \A o \in ExtraRules(r) : b \notin Opened(buckets, o))
         <=> OnShift(r, t) /\ ~Closed(r, t)
  /\ \A o \in ExtraRules(r) :
       /\ \A b \in Opened(buckets, o) : \A t \in Horizon :
            Within(t, b) => Within(t, o) /\ ~Closed(r, t)
       /\ MapThenSumSet(LAMBDA b : b.minutes, Opened(buckets, o))
            = Min({Budget(o), Cardinality({t \in Horizon : Within(t, o) /\ ~Closed(r, t)})})

\* The capacity windows of every resource with a name of its own are those the
\* documented priority of the rules gives: base shifts less maintenance and days
\* off; and each extra window, of its own minutes or fewer, wherever no stronger
\* rule closes it, but never more than its budget.  (The interval arithmetic of
\* scheduling_solver.py, on calendars assigned and overridden in turn.)
WindowsFollowPriority ==
  \A v \in DOMAIN versions : \A r \in versions[v].resources :
    (\A x \in versions[v].resources : x.id = r.id => x = r) =>
      FollowsPriority(r, Preview(versions[v])[r.id])

\* A run is planned on the windows its planner was shown when it was created,
\* whatever was assigned, retired, overridden or published since; and what the
\* pages say of a rule is so: a calendar named for a resource is the one it
\* works by (when it is an active one), and an assignment called eligible, or
\* an override of one resource, is applied by a run made now, and no other is.
Statuses ==
  DOMAIN versions # {} =>
    LET now == AppliedRules([version |-> Latest, frozen |-> FrozenInputs])
        Was(part) == AppliedIn(part)
    IN /\ \A r \in versions[Latest].resources :
            NamedCalendar(r) \in Ids(Active(calendars)) =>
              Governing(r) # Nothing /\ Governing(r).id = NamedCalendar(r)
       /\ \A a \in ToSet(assignments) :
            AssignmentStatus(a) = "Eligible" <=> a.id \in now.assignments \ Was("assignments")
       /\ \A c \in calendars :
            c.id \in now.calendars \ Was("calendars") => CalendarStatus(c) = "Eligible"
       /\ \A o \in overrides :
            o.resource # Nothing /\ o.type # "ExclusionOrMaintenance" =>
              (OverrideStatus(o) = "Eligible" <=> o.id \in now.overrides \ Was("overrides"))

PlannedAsShown ==
  /\ \A n \in DOMAIN runs : runs[n].plan # Nothing => runs[n].plan = shown[n]
  /\ Statuses

\* At most one of a kind is in force, however often they were replaced, brought
\* back or revoked: an assignment of a resource, a strategy, a policy, a
\* version of the master data, and a plan of a problem; and a plan that gave
\* way and the plan that took its place name each other.
OneInForce ==
  /\ \A i, j \in DOMAIN assignments :
       /\ assignments[i].status = "Active" /\ assignments[j].status = "Active"
       /\ assignments[i].resource = assignments[j].resource
       => i = j
  /\ \A table \in {strategies, policies} :
       Cardinality({i \in DOMAIN table : table[i].status = "Active"}) <= 1
  /\ Cardinality({v \in DOMAIN versions : versions[v].publication = "Published"}) <= 1
  /\ \A n, m \in DOMAIN runs :
       /\ n # m /\ runs[n].problem = runs[m].problem =>
            ~(runs[n].publication = "Published" /\ runs[m].publication = "Published")
       /\ runs[n].supersededBy = m <=> runs[m].supersedes = n
  /\ \A n \in DOMAIN runs :
       /\ runs[n].publication = "Superseded" <=> runs[n].supersededBy # Nothing
       /\ runs[n].package # Nothing => runs[n].package.fingerprint = Fingerprint(runs[n])
=============================================================================
