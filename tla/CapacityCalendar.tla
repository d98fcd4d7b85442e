-------------------------- MODULE CapacityCalendar --------------------------
(* From the working calendar of a resource to the windows the scheduler may  *)
(* fill: base calendars and overrides applied to a resource, and the capacity *)
(* buckets of the result (base_calendar.py, calendar_overrides.py and the     *)
(* calendar part of scheduling_solver.py).                                    *)
(* Time is counted in minutes from the first midnight, in the one time zone   *)
(* of the plan; a day has Day of them and a week Week days.                   *)
EXTENDS Integers, FiniteSetsExt, SequencesExt

CONSTANTS Day, Week, Nothing

ASSUME CalendarAssumption == Day \in Nat \ {0} /\ Week \in Nat \ {0}

DateOf(minute) == minute \div Day
Weekday(date) == date % Week

Length(window) == window.end - window.start
Within(minute, window) == window.start <= minute /\ minute < window.end

(***************************************************************************)
(* Rules.  A resource carries the calendar of its master data, or none, and *)
(* the minutes of capacity of some dates.                                    *)
(***************************************************************************)

\* Dates, minutes and instants are whole numbers, maintenance is a list, and the
\* times of a shift are times of a day.
Clocked(calendar) ==
  /\ IsFiniteSet(calendar.maintenance)
  /\ \A w \in calendar.shifts \cup calendar.maintenance : {w.start, w.end} \subseteq Int
  /\ \A shift \in calendar.shifts : 0 <= shift.start /\ shift.end <= Day

Measured(resource) ==
  /\ \A d \in DOMAIN resource.capacity : {d, resource.capacity[d]} \subseteq Int
  /\ \A w \in resource.extra : {w.start, w.end, w.minutes} \subseteq Int
  /\ resource.calendar # Nothing => Clocked(resource.calendar)

Active(rules) == {rule \in rules : rule.status = "Active"}

WorkCalendar(payload) ==
  [id |-> payload.id, weekdays |-> payload.weekdays, shifts |-> payload.shifts,
   maintenance |-> payload.maintenance, holidays |-> payload.holidays]

\* Assignments are kept in the order they were made, and the last one counts.
\* One that names no active calendar is passed over.
Applicable(resource, calendars, assignments) ==
  {i \in DOMAIN assignments :
     /\ assignments[i].status = "Active" /\ assignments[i].resource = resource.id
     /\ \E c \in Active(calendars) : c.id = assignments[i].calendar}

Assigned(resource, calendars, assignments) ==
  LET applicable == Applicable(resource, calendars, assignments)
  IN IF applicable = {} THEN resource
     ELSE [resource EXCEPT !.calendar = WorkCalendar(
             CHOOSE c \in Active(calendars) : c.id = assignments[Max(applicable)].calendar)]

\* An override names a resource, or else the calendar of the resources it is for.
Matches(override, resource) ==
  IF override.resource # Nothing THEN override.resource = resource.id
  ELSE resource.calendar # Nothing /\ resource.calendar.id = override.calendar

Budget(override) ==
  IF override.delta > 0 THEN override.delta ELSE Length(override)

ExtraWindow(override) ==
  [of |-> override.id, start |-> override.start, end |-> override.end, minutes |-> Budget(override)]

\* A maintenance override of a resource without a calendar has no effect.
Overridden(resource, overrides) ==
  LET matched == {o \in Active(overrides) : Matches(o, resource)}
      exclusions == {o \in matched : o.type = "ExclusionOrMaintenance"}
      closed == {[start |-> o.start, end |-> o.end] : o \in exclusions}
      extended == [resource EXCEPT !.extra = @ \cup {ExtraWindow(o) : o \in matched \ exclusions}]
  IN IF resource.calendar = Nothing THEN extended
     ELSE [extended EXCEPT !.calendar.maintenance = @ \cup closed]

\* Overrides are matched after the calendars have been assigned.
Prepared(resource, calendars, assignments, overrides) ==
  Overridden(Assigned(resource, calendars, assignments), overrides)

(***************************************************************************)
(* Buckets.  Each is marked with what opened it, for the properties.         *)
(***************************************************************************)

Piece(start, end) == IF start < end THEN {[start |-> start, end |-> end]} ELSE {}

\* What one maintenance window leaves of a segment.
PiecesHeadOnly(segment, window) ==
  LET from == Max({segment.start, window.start})
      to == Min({segment.end, window.end})
  IN IF from >= to THEN {segment} ELSE Piece(segment.start, from)

Pieces(segment, window) ==
  LET from == Max({segment.start, window.start})
      to == Min({segment.end, window.end})
  IN IF from >= to THEN {segment}
     ELSE Piece(segment.start, from) \cup Piece(to, segment.end)

SubtractMaintenance(segment, windows) ==
  FoldSet(LAMBDA w, segments : UNION {Pieces(s, w) : s \in segments}, {segment}, windows)

Bucket(of, segment, minutes) ==
  [of |-> of, start |-> segment.start, end |-> segment.end, minutes |-> minutes]

WorkingDates(resource) ==
  {d \in DOMAIN resource.capacity :
     d \notin resource.calendar.holidays /\ Weekday(d) \in resource.calendar.weekdays}

ShiftBuckets(resource) ==
  UNION {LET window == [start |-> d * Day + shift.start, end |-> d * Day + shift.end]
         IN {Bucket(<<"shift", shift.name>>, s, Length(s)) :
               s \in {p \in SubtractMaintenance(window, resource.calendar.maintenance) :
                        Length(p) > 0}} :
         d \in WorkingDates(resource), shift \in resource.calendar.shifts}

\* An extra window is cut at every midnight, and days off drop out.
DayParts(window) ==
  {[start |-> Max({window.start, d * Day}), end |-> Min({window.end, (d + 1) * Day})] :
     d \in DateOf(window.start) .. DateOf(window.end - 1)}

Segments(resource, window) ==
  IF resource.calendar = Nothing
  THEN {[start |-> window.start, end |-> window.end]}
  ELSE UNION {SubtractMaintenance(part, resource.calendar.maintenance) :
                part \in {p \in DayParts(window) :
                            DateOf(p.start) \notin resource.calendar.holidays}}

\* The minutes of a window are spent on its segments, the earliest first.
Granted(window, segments, segment) ==
  Min({Length(segment),
       window.minutes - MapThenSumSet(Length, {s \in segments : s.end <= segment.start})})

ExtraBuckets(resource) ==
  UNION {LET segments == Segments(resource, window)
         IN {Bucket(<<"extra", window.of>>, s, Granted(window, segments, s)) :
               s \in {p \in segments : Granted(window, segments, p) > 0}} :
         window \in {w \in resource.extra : w.minutes > 0 /\ w.start < w.end}}

\* Without a calendar each date with capacity is one window, of the whole day.
CapacityBuckets(resource) ==
  ExtraBuckets(resource) \cup
  (IF resource.calendar # Nothing THEN ShiftBuckets(resource)
   ELSE {Bucket(<<"day", d>>, [start |-> d * Day, end |-> (d + 1) * Day], resource.capacity[d]) :
           d \in DOMAIN resource.capacity})
=============================================================================
