------------------------- MODULE MCPlanPublication --------------------------
(* Two resources, one with a calendar of its own, over two days of four       *)
(* minutes.  A behaviour explores one part of the system: the rules, a run    *)
(* while they change, the publication of three plans, versions, strategies    *)
(* and policies, or the schedules of a small shop and its replans.           *)
EXTENDS PlanPublication, FiniteScheduler, TLC

CONSTANTS early, late, draft, own, m1, m2, v1, v2

Calendar(id, status, weekdays, shifts, maintenance, holidays) ==
  [id |-> id, status |-> status, weekdays |-> weekdays, shifts |-> shifts,
   maintenance |-> maintenance, holidays |-> holidays]
Span(start, end) == [start |-> start, end |-> end]
Shift(name, start, end) == [name |-> name, start |-> start, end |-> end]

Morning == Shift("morning", 0, 2)
Evening == Shift("evening", 2, 4)

Early == Calendar(early, "Active", {0, 1}, {Morning, Evening}, {Span(1, 2)}, {})
Late == Calendar(late, "Active", {0}, {Evening, Shift("middle", 1, 4)}, {Span(2, 3), Span(3, 6)}, {1})
Unready == Calendar(draft, "Draft", {0, 1}, {Morning}, {}, {})
Overnight == Calendar(own, "Active", {0, 1}, {Shift("night", 3, 1)}, {}, {})
BaseCalendars == {Early, Late, Unready, Overnight}

Assign(id, resource, calendar, status) ==
  [id |-> id, resource |-> resource, calendar |-> calendar, status |-> status]
Assignments == {
  Assign("a1", m1, early, "Active"), Assign("a2", m1, late, "Active"),
  Assign("a3", m1, draft, "Active"), Assign("a4", m2, late, "Active"),
  Assign("a5", m2, early, "Draft"), Assign("a6", "elsewhere", early, "Active")}

Over(id, type, resource, calendar, start, end, delta, status) ==
  [id |-> id, type |-> type, resource |-> resource, calendar |-> calendar, start |-> start,
   end |-> end, delta |-> delta, status |-> status]
Overrides == {
  Over("stop", "ExclusionOrMaintenance", m1, Nothing, 2, 5, 0, "Active"),
  Over("check", "ExclusionOrMaintenance", Nothing, early, 0, 1, 0, "Active"),
  Over("extra", "Overtime", Nothing, late, 1, 8, 2, "Active"),
  Over("swap", "TemporaryShiftOverride", m2, Nothing, 2, 6, 0, "Active"),
  Over("idea", "Overtime", m1, Nothing, 0, 8, 0, "Draft")}

Own == WorkCalendar(Calendar(own, "Active", {1}, {Morning}, {}, {}))
Resource(id, calendar) ==
  [id |-> id, calendar |-> calendar, capacity |-> [d \in {0, 1} |-> 3], extra |-> {}]
MasterData(id, captured, valid, resources) ==
  [id |-> id, captured |-> captured, valid |-> valid, resources |-> resources]
First == MasterData(v1, 1, TRUE, {Resource(m1, Own), Resource(m2, Nothing)})
Versions == {First, MasterData(v2, 2, FALSE, {Resource(m1, Nothing)})}

Named(id, status) == [id |-> id, status |-> status]
Strategies == {Named("s1", "Active"), Named("s2", "Active"), Named("s3", "Draft")}
Policies == {Named("p1", "Active"), Named("p2", "Active")}

Ask(id, problem, from, strategy, policy) ==
  [id |-> id, problem |-> problem, version |-> v1, source |-> from, strategy |-> strategy,
   policy |-> policy]
RunRequests == {
  Ask(1, "p", Nothing, "balanced", Nothing), Ask(2, "p", 1, "balanced", Nothing),
  Ask(3, "p", Nothing, "balanced", Nothing), Ask(4, "q", Nothing, "s1", "p1")}

Minutes == 0 .. 7

-----------------------------------------------------------------------------
Machine(id, calendar, capacity, constraint, units, efficiency) ==
  [id |-> id, calendar |-> calendar, capacity |-> capacity, extra |-> {},
   constraint |-> constraint, units |-> units, efficiency |-> efficiency]
Shifts == Calendar("c", "Active", {0, 1}, {Shift("day", 1, 4)}, {Span(5, 6)}, {})
Always == [d \in {} |-> 0]
Drum == Machine("drum", WorkCalendar(Shifts), [d \in {0, 1} |-> 0], TRUE, 1, 100)
Free == Machine("drum", Nothing, Always, TRUE, 1, 100)
Twin == Machine("twin", Nothing, [d \in {0} |-> 3], TRUE, 2, 50)
Bench == Machine("bench", Nothing, Always, FALSE, 1, 100)

Timed(id, sequence, resource, alternates, earliest, latest) ==
  [id |-> id, sequence |-> sequence, resource |-> resource, alternates |-> alternates,
   minutes |-> 1, family |-> Nothing, earliest |-> earliest, latest |-> latest]
Plain(id, sequence, resource, alternates) ==
  Timed(id, sequence, resource, alternates, Nothing, Nothing)
Routed(product, operations) ==
  [product |-> product, primary |-> TRUE, operations |-> operations]
Order(id, product, parts, due) ==
  [id |-> id, product |-> product, parts |-> parts, due |-> due]

Flow == "flow_first"
Problem(start, resources, routings, orders, setups, limited) ==
  [start |-> start, buffer |-> 0, resources |-> resources, routings |-> routings,
   orders |-> orders, setups |-> setups, strategy |-> Flow, limited |-> limited]

Shop == {Drum, Twin, Bench}
Chain == Routed("x", {Plain("cut", 1, "drum", {}), Plain("pack", 2, "bench", {})})
Single == Routed("y", {Plain("cut", 1, "drum", {"twin"})})
NoSetups == [s \in {} |-> 0]

Twice ==
  Problem(0, {Free}, {Routed("y", {Plain("cut", 1, "drum", {}), Plain("cut", 2, "drum", {})})},
          {Order("b", "y", 2, 6)}, NoSetups, FALSE)

Requests == {
  Twice,
  Problem(1, Shop, {Chain, Single}, {Order("a", "x", 2, 10), Order("b", "y", 2, 6)},
          <<"drum", "y", "x">> :> 1, FALSE),
  Problem(3, Shop, {Single}, {Order("b", "y", 2, 6), Order("c", "y", 2, 8)}, NoSetups, FALSE),
  [Problem(0, Shop, {Single}, {Order("b", "y", 5, 6), Order("c", "y", 2, 6)}, NoSetups, FALSE)
     EXCEPT !.buffer = 2],
  Problem(1, {Free, Bench}, {Routed("y", {Plain("cut", 1, "bench", {"drum"})})},
          {Order("b", "y", 2, 6), Order("c", "y", 4, 8)}, <<"drum", "y", "y">> :> 1, TRUE),
  Problem(1, {Free}, {Routed("y", {Timed("cut", 1, "drum", {}, 2, 4)})},
          {Order("b", "y", 2, 6), Order("c", "y", 2, 6)}, NoSetups, FALSE),
  Problem(1, {Free}, {Routed("y", {Timed("cut", 1, "drum", {}, 10, 16)})},
          {Order("b", "y", 2, 6), Order("c", "y", 2, 6)}, NoSetups, FALSE),
  Problem(0, {Drum, Bench}, {Chain}, {Order("a", "x", 4, 8)}, NoSetups, FALSE),
  Problem(1, {Bench}, {Single}, {Order("b", "y", 2, 6)}, NoSetups, FALSE)}

VARIABLE world

Start ==
  /\ ScheduleInit
  /\ \/ PlansInit /\ world \in {"choices", "schedules"}
     \/ /\ world \in {"rules", "run", "plans"}
        /\ versions = v1 :> (First @@ [publication |-> "Draft"])
        /\ calendars = IF world = "rules" THEN {} ELSE {Early, Late}
        /\ assignments = <<>> /\ overrides = {} /\ shown = <<>>
        /\ strategies = <<>> /\ policies = <<>> /\ runs = <<>>

Unpublished == \A n \in DOMAIN runs : PublicationState(runs[n]) \in {"Unavailable", "Draft"}

Explored ==
  CASE world = "rules" ->
         /\ DOMAIN runs = {} /\ strategies = <<>> /\ policies = <<>> /\ DOMAIN versions = {v1}
         /\ versions[v1].publication = "Draft" /\ Len(assignments) <= 2
    [] world = "run" ->
         /\ DOMAIN runs \subseteq {1} /\ Unpublished
         /\ calendars = {Early, Late} /\ strategies = <<>> /\ policies = <<>>
         /\ DOMAIN versions = {v1} /\ versions[v1].publication = "Draft"
         /\ \A i \in DOMAIN assignments : assignments[i].id \in {"a1", "a2", "a4"}
         /\ \A o \in overrides : o.id \in {"stop", "extra"}
    [] world = "plans" ->
         /\ assignments = <<>> /\ overrides = {} /\ calendars = {Early, Late}
         /\ DOMAIN versions = {v1} /\ versions[v1].publication = "Draft"
         /\ DOMAIN policies \subseteq {"p1"} /\ DOMAIN strategies \subseteq {"s1"}
         /\ (policies = <<>> => strategies = <<>>)
         /\ \A n \in DOMAIN runs : runs[n].status = "Failed" => n = 1
    [] world = "choices" ->
         /\ calendars = {} /\ assignments = <<>> /\ overrides = {}
         /\ DOMAIN runs \subseteq {4} /\ Unpublished

StepOfPlans ==
  world # "schedules" /\ PlansNext /\ UNCHANGED <<scheduleVars, world>> /\ Explored'
\* The answer does not depend on the answer before it, and a replan leaves its
\* source alone: what follows is explored after executions, once for each source,
\* and a search with a limit is asked for only at first.
StepOfSchedules ==
  /\ world = "schedules" /\ UNCHANGED <<planVars, world>>
  /\ IF result.rows = source /\ asked \notin {q \in Request : q.limited}
     THEN ScheduleNext /\ (asked'.limited => source = {})
     ELSE ExecuteSchedule(Twice)

Exploration ==
  Start /\ [][StepOfPlans \/ StepOfSchedules]_<<planVars, scheduleVars, world>>
=============================================================================
