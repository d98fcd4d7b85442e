-------------------------- MODULE FiniteScheduler ---------------------------
(* The finite scheduler: from resources, routings and orders to a constraint *)
(* problem, from the problem to the answers CP-SAT can give, and the replan   *)
(* that keeps part of an earlier plan (scheduling_solver.py, cp_sat_solver.py, *)
(* planner_view.py and the parts of api.py that call them).                   *)
(* Dates are ticks, Minute of them in a minute; the solver and the calendars  *)
(* count whole minutes.  Plans of one problem are modelled.                   *)
EXTENDS CapacityCalendar

CONSTANTS
  Minute,         \* ticks in a minute
  Share,          \* parts of a unit, in which the quantities of orders are counted
  Request,        \* what planners ask for
  FreezeWindow    \* minutes for which a replan may keep the plan

\* Requests are finite, and what they count and measure are whole numbers.
ASSUME SchedulerAssumption ==
  /\ Minute \in Nat \ {0} /\ Share \in Nat \ {0} /\ FreezeWindow \subseteq Nat
  /\ Nothing \notin Int
  /\ \A q \in Request :
       /\ {q.start, q.buffer} \subseteq Int /\ \A s \in DOMAIN q.setups : q.setups[s] \in Int
       /\ IsFiniteSet(q.resources)
       /\ \A r \in q.resources :
            /\ Measured(r) /\ r.units \in Int /\ r.efficiency \in Nat \ {0}
            /\ IsFiniteSet(DOMAIN r.capacity) /\ IsFiniteSet(r.extra)
            /\ r.calendar # Nothing => IsFiniteSet(r.calendar.shifts)
       /\ \A g \in q.routings :
            /\ IsFiniteSet(g.operations)
            /\ \A o \in g.operations :
                 /\ o.minutes \in Int /\ {o.earliest, o.latest} \subseteq Int \cup {Nothing}
                 /\ IsFiniteSet(o.alternates)
       /\ IsFiniteSet(q.orders) /\ \A x \in q.orders : {x.parts, x.due} \subseteq Int

VARIABLES
  asked,          \* the request answered last
  kept,           \* operations whose place was given in it
  result,         \* the answer: a status and the rows of the schedule
  source          \* the rows of the last completed run

scheduleVars == <<asked, kept, result, source>>

(***************************************************************************)
(* The problem: what planners ask for, in the minutes of the solver.         *)
(***************************************************************************)

ValidRequest(q) ==
  /\ \E r \in q.resources : r.constraint
  /\ \A r, s \in q.resources : r.id = s.id => r = s
  /\ \A r \in q.resources : \A d \in DOMAIN r.capacity : r.capacity[d] >= 0
  /\ \A r \in q.resources : r.calendar # Nothing =>
       \A w \in r.calendar.shifts \cup r.calendar.maintenance : w.start < w.end
  /\ \A g \in q.routings :
       /\ Cardinality({h \in q.routings : h.product = g.product /\ h.primary}) = 1
       /\ \A o, n \in g.operations : o.sequence = n.sequence => o = n
       /\ \A o \in g.operations :
            /\ o.minutes > 0 /\ o.sequence > 0
            /\ {o.resource} \cup o.alternates \subseteq {r.id : r \in q.resources}
  /\ \A x, y \in q.orders : x.id = y.id => x = y
  /\ \A x \in q.orders : x.parts > 0 /\ \E g \in q.routings : g.product = x.product

\* Minutes from the start of the plan to a date, cut toward zero.
Offset(q, date) ==
  IF date >= q.start THEN (date - q.start) \div Minute ELSE -((q.start - date) \div Minute)

OffsetOrNothing(q, date) == IF date = Nothing THEN Nothing ELSE Offset(q, date)

Route(q, order) == CHOOSE g \in q.routings : g.product = order.product /\ g.primary
ResourceOf(q, id) == CHOOSE r \in q.resources : r.id = id

\* The minutes of the whole order, a fraction of a minute dropped.
WorkMinutes(o, order) == (o.minutes * order.parts) \div Share

\* Never less than a minute, whatever the efficiency.
Effective(minutes, efficiency) == Max({1, (minutes * 100 + efficiency - 1) \div efficiency})

OperationsOf(q, x) ==
  {[name |-> <<x.id, o.id>>, order |-> x.id, sequence |-> o.sequence, resource |-> o.resource,
    takes |-> [id \in {o.resource} \cup o.alternates |->
                 Effective(WorkMinutes(o, x), ResourceOf(q, id).efficiency)],
    family |-> IF o.family = Nothing THEN x.product ELSE o.family,
    earliest |-> OffsetOrNothing(q, o.earliest), latest |-> OffsetOrNothing(q, o.latest),
    early |-> o.earliest # Nothing /\ o.earliest < q.start,
    closed |-> o.earliest # Nothing /\ o.latest # Nothing /\ o.earliest >= o.latest] :
   o \in Route(q, x).operations}

\* The windows of a resource, in the minutes of the solver: one for each bucket.
WindowsOf(q, r) ==
  {[of |-> b, start |-> Offset(q, b.start * Minute), end |-> Offset(q, b.end * Minute),
    minutes |-> b.minutes] : b \in CapacityBuckets(r)}

\* The buffer protects the date an order is due.
Build(q) ==
  [start |-> q.start, setups |-> q.setups, strategy |-> q.strategy, limited |-> q.limited,
   operations |-> UNION {OperationsOf(q, x) : x \in q.orders},
   due |-> [id \in {x.id : x \in q.orders} |->
              Offset(q, (CHOOSE x \in q.orders : x.id = id).due - q.buffer * Minute)],
   constraints |-> {r.id : r \in {r \in q.resources : r.constraint}},
   units |-> [id \in {r.id : r \in q.resources} |-> ResourceOf(q, id).units],
   windows |-> [id \in {r.id : r \in q.resources} |-> WindowsOf(q, ResourceOf(q, id))]]

Built == [q \in {q \in Request : ValidRequest(q)} |-> Build(q)]

Precedes(a, b) == a.order = b.order /\ a.sequence < b.sequence

Setup(p, id, a, b) ==
  IF <<id, a.family, b.family>> \in DOMAIN p.setups THEN p.setups[<<id, a.family, b.family>>] ELSE 0

Work(p) == MapThenSumSet(LAMBDA o : Max(Range(o.takes)), p.operations)

\* Deviation of Ahead: the calendars are not looked at.
AheadOfWork(p, given) ==
  Max({2 * Work(p), 1} \cup {d + Work(p) : d \in Range(p.due)})

\* The minutes the solver looks ahead.
Ahead(p, given) ==
  LET busy == Work(p) + MapThenSumSet(LAMBDA s : p.setups[s], DOMAIN p.setups)
      closings == UNION {{w.end : w \in p.windows[id]} : id \in DOMAIN p.windows}
      ends == {Offset(p, x[1].start) + x[2].takes[x[1].resource] :
                 x \in {x \in given \X p.operations : x[1].operation = x[2].name}}
      latest == {o.latest : o \in p.operations} \ {Nothing}
  IN Max({2 * busy, 1} \cup {d + busy : d \in Range(p.due) \cup closings \cup ends}
           \cup {d + Work(p) : d \in latest})

\* Inputs the solver refuses before it looks for a schedule.
Refused(p, given) ==
  \/ \E a, b \in p.operations : a # b /\ a.name = b.name
  \/ \E s \in DOMAIN p.setups : s[1] \in DOMAIN p.units /\ p.units[s[1]] > 1
  \/ \E o \in p.operations : o.early \/ o.closed
  \/ \E k \in given :
       \/ k.start < p.start
       \/ ~\E o \in p.operations : o.name = k.operation /\ k.resource \in DOMAIN o.takes

(***************************************************************************)
(* Schedules.  An operation is placed on a resource from one minute to       *)
(* another.                                                                  *)
(***************************************************************************)

\* A window that may hold an operation; one with fewer minutes than it never does.
Fits(window, place) ==
  /\ window.end > 0 /\ window.minutes >= Length(place)
  /\ window.start <= place.start /\ place.end <= window.end

\* A constraint without a window is not limited in time.
Places(p, given, o) ==
  LET last == Ahead(p, given)
  IN {x \in UNION {{[resource |-> id, start |-> s, end |-> s + o.takes[id]] : s \in 0 .. last} :
                     id \in DOMAIN o.takes} :
        /\ x.end <= last
        /\ o.earliest # Nothing => o.earliest <= x.start
        /\ o.latest # Nothing => x.end <= o.latest
        /\ \A k \in given : k.operation = o.name =>
             x.resource = k.resource /\ x.start = Offset(p, k.start)
        /\ x.resource \in p.constraints /\ p.windows[x.resource] # {} =>
             \E w \in p.windows[x.resource] : Fits(w, x)}

On(schedule, id) == {o \in DOMAIN schedule : schedule[o].resource = id}

\* Deviation of Shared: only operations meant for the resource in the first place count.
SharedByMain(p, schedule, id) ==
  \A o \in On(schedule, id) :
    Cardinality({n \in On(schedule, id) :
                   n.resource = id /\ Within(schedule[o].start, schedule[n])}) <= p.units[id]

\* Never more operations at a time than the resource has units.
Shared(p, schedule, id) ==
  \A o \in On(schedule, id) :
    Cardinality({n \in On(schedule, id) : Within(schedule[o].start, schedule[n])}) <= p.units[id]

\* Between every two operations of a single unit, not only between neighbours.
ChangedOver(p, schedule, id) ==
  p.units[id] = 1 =>
    \A o, n \in On(schedule, id) :
      schedule[o].start < schedule[n].start =>
        schedule[o].end + Setup(p, id, o, n) <= schedule[n].start

\* The minutes that operations take up.
TimeOf(schedule, operations) == MapThenSumSet(LAMBDA o : Length(schedule[o]), operations)

\* Every operation spends its minutes in one window.
Spent(p, schedule, id) ==
  p.windows[id] # {} =>
    \E choice \in [On(schedule, id) -> p.windows[id]] :
      /\ \A o \in On(schedule, id) : Fits(choice[o], schedule[o])
      /\ \A w \in p.windows[id] :
           TimeOf(schedule, {o \in On(schedule, id) : choice[o] = w}) <= w.minutes

Completion(schedule, order) ==
  Max({schedule[o].end : o \in {o \in DOMAIN schedule : o.order = order}})

\* An order without operations is not looked at.
Served(p) == {x \in DOMAIN p.due : \E o \in p.operations : o.order = x}

\* The lateness of an order is looked for within the horizon too.
Schedules(p, given) ==
  LET places == [o \in p.operations |-> Places(p, given, o)]
      last == Ahead(p, given)
  IN {s \in [p.operations -> UNION Range(places)] :
        /\ \A o \in p.operations : s[o] \in places[o]
        /\ \A a, b \in p.operations : Precedes(a, b) => s[a].end <= s[b].start
        /\ \A id \in p.constraints : Shared(p, s, id) /\ ChangedOver(p, s, id) /\ Spent(p, s, id)
        /\ \A x \in Served(p) : Completion(s, x) - p.due[x] <= last}

\* Weights are counted in thousandths.  A strategy of the planners has its own; a
\* built-in one raises some of the usual ones.
Weigh(lateness, span, alternates) ==
  [lateness |-> lateness, span |-> span, alternates |-> alternates]

WeightsOf(strategy) ==
  CASE strategy = "v1_delivery_flow_bottleneck" -> Weigh(8000, 1000, 500)
    [] strategy = "delivery_first" -> Weigh(5000, 1, 10)
    [] strategy = "flow_first" -> Weigh(1000, 1000, 10)
    [] strategy = "bottleneck_protect" -> Weigh(2000, 1, 1000)
    [] strategy = "balanced" -> Weigh(1000, 1, 10)
    [] OTHER -> strategy

Cost(p, schedule) ==
  LET weights == WeightsOf(p.strategy)
  IN weights.lateness
         * MapThenSumSet(LAMBDA x : Max({0, Completion(schedule, x) - p.due[x]}), Served(p))
       + weights.span * Max({0} \cup {schedule[o].end : o \in DOMAIN schedule})
       + weights.alternates
           * Cardinality({o \in DOMAIN schedule : schedule[o].resource # o.resource})

Rows(p, schedule) ==
  {[operation |-> o.name, order |-> o.order, resource |-> schedule[o].resource,
    start |-> p.start + Minute * schedule[o].start,
    end |-> p.start + Minute * schedule[o].end] : o \in DOMAIN schedule}

Without(status) == [status |-> status, rows |-> {}]
Solved(status, p, schedules) == {[status |-> status, rows |-> Rows(p, s)] : s \in schedules}

\* A solver that is not installed or breaks down, a search cut short by its limit, or
\* a schedule: without a limit one of least cost.
Answers(p, given) ==
  LET all == Schedules(p, given)
      least == Min({Cost(p, s) : s \in all})
      best == {s \in all : Cost(p, s) = least}
  IN {Without("Unavailable"), Without("Error")} \cup
     (IF Refused(p, given) THEN {}
      ELSE (IF all = {} THEN {Without("Infeasible")} ELSE Solved("Optimal", p, best))
           \cup (IF p.limited THEN {Without("TimeLimit")} \cup Solved("Feasible", p, all) ELSE {}))

(***************************************************************************)
(* Runs and replans.                                                         *)
(***************************************************************************)

ScheduleInit ==
  asked = Nothing /\ kept = {} /\ result = Without("None") /\ source = {}

\* A run that finds a schedule is the source of later replans.
ExecuteSchedule(q) ==
  /\ q \in DOMAIN Built
  /\ asked' = q /\ kept' = {}
  /\ result' \in Answers(Built[q], {})
  /\ source' = IF result'.rows = {} THEN source ELSE result'.rows

\* What a replan keeps: all of the locked orders, and what starts before the
\* window closes, whether it has begun or not.
KeptOf(rows, from, window, lockedOrders) ==
  {[operation |-> row.operation, resource |-> row.resource, start |-> row.start] :
     row \in {row \in rows :
                \/ row.order \in lockedOrders
                \/ window > 0 /\ row.start <= from + window * Minute}}

ReplanSchedule(q, window, lockedOrders) ==
  /\ q \in DOMAIN Built
  /\ asked' = q
  /\ kept' = KeptOf(source, q.start, window, lockedOrders)
  /\ result' \in Answers(Built[q], kept')
  /\ UNCHANGED source

ScheduleNext ==
  \E q \in Request :
    \/ ExecuteSchedule(q)
    \/ \E window \in FreezeWindow, lockedOrders \in SUBSET {row.order : row \in source} :
         ReplanSchedule(q, window, lockedOrders)

ScheduleSpec == ScheduleInit /\ [][ScheduleNext]_scheduleVars

-----------------------------------------------------------------------------
(* What a schedule is for: a plan that can be carried out.                   *)

OrderOf(q, row) == CHOOSE x \in q.orders : x.id = row.order
RoutedOf(q, row) == CHOOSE o \in Route(q, OrderOf(q, row)).operations : o.id = row.operation[2]

\* Every operation has one place, and the time it needs there, its
\* predecessors are done, and it keeps to its own dates.
DoneInTurn(q, rows, early) ==
  /\ \A x \in q.orders : \A o \in Route(q, x).operations :
       Cardinality({row \in rows : row.operation = <<x.id, o.id>>}) = 1
  /\ \A row \in rows :
       LET o == RoutedOf(q, row) IN
       /\ row.resource \in {o.resource} \cup o.alternates
       /\ q.start <= row.start
       /\ Length(row) * ResourceOf(q, row.resource).efficiency
            >= WorkMinutes(o, OrderOf(q, row)) * 100 * Minute
       /\ o.earliest # Nothing => o.earliest < row.start + early
       /\ o.latest # Nothing => row.end <= o.latest
       /\ \A n \in rows :
            n.order = row.order /\ RoutedOf(q, n).sequence < o.sequence => n.end <= row.start

\* What was to be kept is where it was.
LeftInPlace(given, rows, early) ==
  \A k \in given : \E row \in rows :
    /\ row.operation = k.operation /\ row.resource = k.resource
    /\ row.start <= k.start /\ k.start < row.start + early

FamilyOf(q, row) ==
  LET o == RoutedOf(q, row)
  IN IF o.family = Nothing THEN OrderOf(q, row).product ELSE o.family

Changeover(q, a, b) ==
  LET key == <<a.resource, FamilyOf(q, a), FamilyOf(q, b)>>
  IN IF key \in DOMAIN q.setups THEN q.setups[key] * Minute ELSE 0

\* Every row works in a window, and a window for no longer than its minutes.
Rostered(buckets, here, choice, early) ==
  /\ \A row \in here : /\ choice[row].start * Minute < row.start + early
                       /\ row.end <= choice[row].end * Minute
  /\ \A b \in buckets :
       MapThenSumSet(Length, {row \in here : choice[row] = b}) <= b.minutes * Minute

\* A constraint does no more at a time than it has units for, is set up between
\* one operation and the next, and works in its windows.
WithinCapacity(q, r, here, early) ==
  /\ \A row \in here : Cardinality({n \in here : Within(row.start, n)}) <= r.units
  /\ r.units = 1 => \A row \in here :
       LET after == {n \in here : n.start > row.start}
       IN \A n \in after : (\A m \in after : n.start <= m.start) =>
            row.end + Changeover(q, row, n) <= n.start
  /\ CapacityBuckets(r) # {} => \E choice \in [here -> CapacityBuckets(r)] :
       Rostered(CapacityBuckets(r), here, choice, early)

\* The shop can work by these rows, if it may begin an operation less than
\* early ticks before its time.
Executable(q, given, rows, early) ==
  /\ DoneInTurn(q, rows, early)
  /\ LeftInPlace(given, rows, early)
  /\ \A r \in {r \in q.resources : r.constraint} :
       WithinCapacity(q, r, {row \in rows : row.resource = r.id}, early)

\* A schedule that is answered can be carried out, and what a replan froze stays
\* where it was, but for the fraction of a minute by which dates are cut.
ScheduleIsExecutable ==
  result.rows # {} => Executable(asked, kept, result.rows, Minute)

\* Orders that are not overdue, no changeovers, and no operation that has to
\* wait for a date without one by which it is to end: beyond them the horizon
\* may be too short.
Ordinary(p) ==
  /\ \A x \in DOMAIN p.due : p.due[x] >= 0
  /\ DOMAIN p.setups = {}
  /\ \A o \in p.operations : o.earliest # Nothing => o.latest # Nothing

\* Infeasible is said of an ordinary problem only if no schedule could be
\* carried out, within the horizon of the solver or long after it.
InfeasibleIsTrue ==
  result.status = "Infeasible" /\ Ordinary(Built[asked]) =>
    LET p == Built[asked]
        places == [o \in p.operations |->
          UNION {{[resource |-> id, start |-> s, end |-> s + o.takes[id]] :
                    s \in 0 .. 2 * Ahead(p, kept)} : id \in DOMAIN o.takes}]
    IN \A s \in [p.operations -> UNION Range(places)] :
         (\A o \in p.operations : s[o] \in places[o]) =>
           ~Executable(asked, kept, Rows(p, s), 1)

\* A replan that can keep what is locked or frozen does: the operations are still
\* there, for the resources they had, so it is not refused for their sake
\* (docs/backend-specification.md:925, of replanning from a minute of its own).
FrozenIsKept ==
  asked # Nothing =>
    LET p == Built[asked] IN
    /\ ~Refused(p, {})
    /\ \A k \in kept : \E o \in p.operations : o.name = k.operation /\ k.resource \in DOMAIN o.takes
    => ~Refused(p, kept)
=============================================================================
