--------------------------- MODULE PlanningInputs ---------------------------
(* What a Planning Run is planned from: master-data versions, calendars,     *)
(* their assignment to resources, temporary overrides, scheduling strategies *)
(* and release policies, each with its own rule of which one is in force, the *)
(* preview of the capacity they give, and the run that freezes them when it   *)
(* is created and is scheduled on the frozen copies (api.py).                 *)
EXTENDS CapacityCalendar, Functions

CONSTANTS
  BaseCalendar, Assignment, Override, Version, Strategy, Policy, RunRequest,
                  \* what clients may send
  BuiltIn         \* the strategies every installation has

ASSUME InputsAssumption ==
  /\ Nothing \notin {q.id : q \in RunRequest}
  /\ Nothing \notin {"Draft", "Reviewed", "Approved", "Published", "PublicationRevoked",
                     "Superseded", "Unavailable"}
  /\ \A rule \in Assignment : {"id", "status", "resource", "calendar"} \subseteq DOMAIN rule
  /\ \A rule \in Strategy \cup Policy : "status" \in DOMAIN rule
  /\ \A c \in BaseCalendar : Nothing \notin {c.id, WorkCalendar(c)} /\ Clocked(c)
  /\ \A o \in Override : {o.start, o.end, o.delta} \subseteq Int
  /\ \A v \in Version :
       /\ v.captured \in Int
       /\ \A r \in v.resources :
            /\ {"id", "calendar", "capacity", "extra"} \subseteq DOMAIN r
            /\ r.calendar # Nothing =>
                 {"id", "weekdays", "shifts", "maintenance", "holidays"} \subseteq DOMAIN r.calendar
            /\ Measured(r) /\ r.extra = {}
  /\ \A closed \in SUBSET {[start |-> o.start, end |-> o.end] : o \in Override} :
       /\ \A c \in BaseCalendar : [WorkCalendar(c) EXCEPT !.maintenance = @ \cup closed] # Nothing
       /\ \A v \in Version : \A r \in v.resources :
            r.calendar # Nothing => [r.calendar EXCEPT !.maintenance = @ \cup closed] # Nothing

VARIABLES
  calendars,      \* the base calendars created, never changed again
  assignments,    \* of calendars to resources, in the order they were made
  overrides,      \* the temporary ones created, never changed again
  versions,       \* master-data versions by id
  strategies,     \* scheduling strategies by id
  policies,       \* release policies by id
  runs            \* Planning Runs by id

inputVars == <<calendars, assignments, overrides, versions, strategies, policies, runs>>

Ids(records) == {r.id : r \in records}
Put(table, id, record) ==
  [i \in DOMAIN table \cup {id} |-> IF i = id THEN record ELSE table[i]]

InputsInit ==
  /\ calendars = {} /\ assignments = <<>> /\ overrides = {}
  /\ versions = <<>> /\ strategies = <<>> /\ policies = <<>> /\ runs = <<>>

(***************************************************************************)
(* Calendars.                                                                *)
(***************************************************************************)

\* A shift ends on the day it starts: an End at or before its Start is refused.
WellFormed(calendar) ==
  \A w \in calendar.shifts \cup calendar.maintenance : w.start < w.end

CreateCalendar(c) ==
  /\ c.id \notin Ids(calendars)
  /\ WellFormed(c)
  /\ calendars' = calendars \cup {c}
  /\ UNCHANGED <<assignments, overrides, versions, strategies, policies, runs>>

\* An active assignment retires the active ones of its resource.
RetireOthers(made, resource) ==
  [i \in DOMAIN made |->
     IF made[i].resource = resource /\ made[i].status = "Active"
     THEN [made[i] EXCEPT !.status = "Retired"] ELSE made[i]]

CreateAssignment(a) ==
  /\ \A i \in DOMAIN assignments : assignments[i].id # a.id
  /\ a.calendar \in Ids(calendars)
  /\ assignments' =
       Append(IF a.status = "Active" THEN RetireOthers(assignments, a.resource) ELSE assignments, a)
  /\ UNCHANGED <<calendars, overrides, versions, strategies, policies, runs>>

\* Nothing is asked of the overrides there already are.
CreateOverride(o) ==
  /\ o.id \notin Ids(overrides)
  /\ o.start < o.end
  /\ overrides' = overrides \cup {o}
  /\ UNCHANGED <<calendars, assignments, versions, strategies, policies, runs>>

(***************************************************************************)
(* Strategies and policies: the newest active one retires the others.        *)
(***************************************************************************)

RetireTable(table) ==
  [i \in DOMAIN table |->
     IF table[i].status = "Active" THEN [table[i] EXCEPT !.status = "Retired"] ELSE table[i]]

Created(table, record) ==
  Put(IF record.status = "Active" THEN RetireTable(table) ELSE table, record.id, record)

CreateStrategy(s) ==
  /\ s.id \notin DOMAIN strategies
  /\ strategies' = Created(strategies, s)
  /\ UNCHANGED <<calendars, assignments, overrides, versions, policies, runs>>

CreatePolicy(p) ==
  /\ p.id \notin DOMAIN policies
  /\ policies' = Created(policies, p)
  /\ UNCHANGED <<calendars, assignments, overrides, versions, strategies, runs>>

(***************************************************************************)
(* Master data.                                                              *)
(***************************************************************************)

\* Whether a version is valid is decided once, when it is created.
CreateVersion(v) ==
  /\ v.id \notin DOMAIN versions
  /\ versions' = Put(versions, v.id,
       [id |-> v.id, captured |-> v.captured, valid |-> v.valid, resources |-> v.resources,
        publication |-> "Draft"])
  /\ UNCHANGED <<calendars, assignments, overrides, strategies, policies, runs>>

\* The other published version becomes inactive.
InForce(id) ==
  [v \in DOMAIN versions |->
     [versions[v] EXCEPT !.publication =
        IF v = id THEN "Published" ELSE IF @ = "Published" THEN "Inactive" ELSE @]]

PublishVersion(id) ==
  /\ id \in DOMAIN versions
  /\ versions[id].valid
  /\ versions' = InForce(id)
  /\ UNCHANGED <<calendars, assignments, overrides, strategies, policies, runs>>

\* Going back to a version asks neither that it is valid nor that it ever was
\* published.
RollbackVersion(id) ==
  /\ id \in DOMAIN versions
  /\ versions' = InForce(id)
  /\ UNCHANGED <<calendars, assignments, overrides, strategies, policies, runs>>

RetireVersion(id) ==
  /\ id \in DOMAIN versions
  /\ versions' = [versions EXCEPT ![id].publication = "Retired"]
  /\ UNCHANGED <<calendars, assignments, overrides, strategies, policies, runs>>

(***************************************************************************)
(* Previews and statuses shown.                                              *)
(***************************************************************************)

\* The one captured last, published or not.
Latest == CHOOSE v \in DOMAIN versions : \A w \in DOMAIN versions :
            versions[w].captured <= versions[v].captured

ResourcesOf(version) == version.resources

Windows(resources, cals, made, over) ==
  [r \in Ids(resources) |->
     CapacityBuckets(Prepared(CHOOSE x \in resources : x.id = r, cals, made, over))]

\* The preview applies every rule there is, those not active included: leaving
\* them out is left to the functions that apply them.
Preview(version) == Windows(ResourcesOf(version), calendars, assignments, overrides)

\* The calendar the preview names: that of the first active assignment.
NamedCalendar(resource) ==
  LET made == {i \in DOMAIN assignments :
                 assignments[i].status = "Active" /\ assignments[i].resource = resource.id}
      final == Prepared(resource, calendars, assignments, overrides)
  IN IF made # {} THEN assignments[Min(made)].calendar
     ELSE IF final.calendar = Nothing THEN Nothing ELSE final.calendar.id

AppliedIn(part) == UNION {runs[n].applied[part] : n \in DOMAIN runs}

AssignmentStatus(a) ==
  CASE a.id \in AppliedIn("assignments") -> "AppliedInRun"
    [] OTHER ->
         IF /\ a.status = "Active" /\ DOMAIN versions # {}
            /\ a.resource \in Ids(versions[Latest].resources)
            /\ a.calendar \in Ids(Active(calendars))
         THEN "Eligible" ELSE "NotApplied"

CalendarStatus(c) ==
  CASE c.id \in AppliedIn("calendars") -> "AppliedInRun"
    [] c.id \notin AppliedIn("calendars") /\ c.status # "Active" -> "NotApplied"
    [] OTHER ->
         IF \E i \in DOMAIN assignments :
              assignments[i].status = "Active" /\ assignments[i].calendar = c.id
         THEN "Eligible" ELSE "NotAssigned"

\* Matched against the calendars of the master data, not the assigned ones.
OverrideStatus(o) ==
  CASE o.id \in AppliedIn("overrides") -> "AppliedInRun"
    [] OTHER ->
         IF /\ o.status = "Active" /\ DOMAIN versions # {}
            /\ \E r \in versions[Latest].resources : Matches(o, r)
         THEN "Eligible" ELSE "NotApplied"

(***************************************************************************)
(* Planning Runs.                                                            *)
(***************************************************************************)

\* A strategy or policy may be used whatever its status.
SnapshotOfStrategy(id) ==
  IF id \in BuiltIn THEN [id |-> id, status |-> "Active"] ELSE strategies[id]

\* The assignments frozen stay in the order they were made, at the places they had.
FrozenInputs ==
  [calendars |-> Active(calendars),
   assignments |-> RestrictValues(assignments, LAMBDA a : a.status = "Active"),
   overrides |-> Active(overrides)]

NoneApplied == [assignments |-> {}, calendars |-> {}, overrides |-> {}]

CreateRun(q) ==
  /\ q.id \notin DOMAIN runs
  /\ q.version \in DOMAIN versions /\ versions[q.version].valid
  /\ q.source # Nothing => q.source \in DOMAIN runs /\ runs[q.source].status = "Completed"
  /\ q.strategy \in BuiltIn \cup DOMAIN strategies
  /\ q.policy # Nothing => q.policy \in DOMAIN policies
  /\ runs' = Put(runs, q.id,
       [problem |-> q.problem, version |-> q.version, source |-> q.source,
        strategy |-> SnapshotOfStrategy(q.strategy),
        policy |-> IF q.policy = Nothing THEN Nothing ELSE policies[q.policy],
        frozen |-> FrozenInputs, status |-> "Pending", plan |-> Nothing,
        applied |-> NoneApplied, publication |-> Nothing, package |-> Nothing,
        supersedes |-> Nothing, supersededBy |-> Nothing])
  /\ UNCHANGED <<calendars, assignments, overrides, versions, strategies, policies>>

PlanLive(run) ==
  Windows(ResourcesOf(versions[run.version]), calendars, assignments, overrides)

\* The windows a run is scheduled on.
Plan(run) ==
  Windows(ResourcesOf(versions[run.version]),
          run.frozen.calendars, run.frozen.assignments, run.frozen.overrides)

\* The rules that had an effect on some resource of the version.
AppliedRules(run) ==
  LET resources == ResourcesOf(versions[run.version])
      made == UNION {{run.frozen.assignments[i] :
                        i \in Applicable(r, run.frozen.calendars, run.frozen.assignments)} :
                       r \in resources}
      IsApplied(o) == \E r \in resources :
        LET assigned == Assigned(r, run.frozen.calendars, run.frozen.assignments)
        IN Matches(o, assigned) /\ (o.type = "ExclusionOrMaintenance" => assigned.calendar # Nothing)
  IN [assignments |-> Ids(made), calendars |-> {a.calendar : a \in made},
      overrides |-> Ids({o \in run.frozen.overrides : IsApplied(o)})]

\* The solver finds a plan, finds none on those windows, or breaks down.  A
\* worker with attempts left puts the run back; its last plan stays with it.
ExecuteRun(n, result, retried) ==
  LET run == runs[n]
  IN /\ n \in DOMAIN runs
     /\ run.status = "Pending"
     /\ retried => result # "Feasible"
     /\ runs' = [runs EXCEPT ![n] =
          [run EXCEPT !.status = CASE result = "Feasible" -> "Completed"
                                   [] result # "Feasible" /\ retried -> "Pending"
                                   [] OTHER -> "Failed",
                      !.plan = IF result = "Error" THEN Nothing ELSE Plan(run),
                      !.applied = IF result = "Error" THEN run.applied ELSE AppliedRules(run),
                      !.publication = IF result = "Feasible" THEN "Draft" ELSE run.publication]]
     /\ UNCHANGED <<calendars, assignments, overrides, versions, strategies, policies>>
=============================================================================
