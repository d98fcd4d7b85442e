----------------------------- MODULE ShopFloor -----------------------------
(***************************************************************************)
(* Execution events (sdbr/shop_floor_execution.py) and what is read from    *)
(* them: the execution status, the variance against the schedule, alerts,   *)
(* the buffer board (buffer_execution_view.py) and the state of the floor    *)
(* that dispatching looks at (dispatch_priority.py).                        *)
(*                                                                         *)
(* Events are appended as they arrive and never looked at again, changed or *)
(* recognized as repeated; every reader sorts them by EventAt.  Minutes are *)
(* natural numbers.  An authorization is a record with at least the fields  *)
(* order, release, start, end and at; it stands for its own identifier.     *)
(***************************************************************************)
EXTENDS Integers, Sequences, FiniteSets, Functions

CONSTANTS
  Nothing,          \* an absent optional field
  Instants,         \* the times messages may carry
  Tolerance,        \* ReleaseStabilityPolicy
  ReplanThreshold,
  BlockedThreshold,
  ReplanCooldown

ASSUME StabilityPolicyAssumption ==
  /\ Instants \subseteq Nat
  /\ Tolerance \in Nat /\ ReplanThreshold \in Nat /\ ReplanCooldown \in Nat
  /\ ReplanThreshold >= Tolerance /\ BlockedThreshold \in Nat \ {0}

VARIABLE events   \* execution_events, in the order of arrival

-----------------------------------------------------------------------------
(* Recording an event.                                                     *)

Rank == [ArrivedBuffer |-> 10, StartedOperation |-> 20,
         CompletedOperation |-> 30, Shipped |-> 40]

\* The exception codes of a message: none, one of the four known, any other.
Known == "known"
Unknown == "unknown"

IsLateArrival(type, at, target) == type = "ArrivedBuffer" /\ at > target

Acceptable(type, at, target, code) ==
  /\ code # Unknown
  /\ IsLateArrival(type, at, target) => code = Known

\* An event names an order, perhaps an authorization, its resource (there is
\* one), and whether the dispatched order jumped the queue.
Record(e) ==
  /\ Acceptable(e.type, e.at, e.target, e.code)
  /\ events' = Append(events, [e EXCEPT !.review = IsLateArrival(e.type, e.at, e.target)])

-----------------------------------------------------------------------------
(* Events in the order of their time; of equal ones the earlier arrived     *)
(* comes first, as Python's sort is stable.                                 *)

\* Deviation of Precedes: the events are taken as they arrived.
PrecedesByArrival(s, i, j) == i < j

Precedes(s, i, j) == s[i].at < s[j].at \/ (s[i].at = s[j].at /\ i < j)

Earliest(s, I) == CHOOSE i \in I : \A j \in I \ {i} : Precedes(s, i, j)
Latest(s, I) == CHOOSE i \in I : \A j \in I \ {i} : Precedes(s, j, i)

Follows(s, I, i, j) == Precedes(s, i, j) /\ ~\E k \in I : Precedes(s, i, k) /\ Precedes(s, k, j)

OfType(s, I, types) == {i \in I : s[i].type \in types}

-----------------------------------------------------------------------------
(* The status and the variance of an authorization.                        *)

LinkedTo(s, a) == {i \in DOMAIN s : s[i].auth = a}

StatusAfter(type) ==
  CASE type = "ArrivedBuffer" -> "ArrivedBuffer"
    [] type = "StartedOperation" -> "InProcess"
    [] type = "CompletedOperation" -> "Completed"
    [] type = "Shipped" -> "Shipped"
    [] OTHER -> "InExecution"

ExecutionStatus(s, a) ==
  LET I == LinkedTo(s, a)
  IN  IF I = {} THEN "Authorized" ELSE StatusAfter(s[Latest(s, I)].type)

RequiresReview(s, a) == \E i \in LinkedTo(s, a) : s[i].review

OverallStatus(s, A) ==
  LET statuses == {ExecutionStatus(s, a) : a \in A}
  IN  CASE A = {} -> "NotAuthorized"
        [] \E a \in A : RequiresReview(s, a) -> "ReviewRequired"
        [] statuses = {"Shipped"} -> "Shipped"
        [] statuses \subseteq {"Completed", "Shipped"} -> "Completed"
        [] statuses = {"Authorized"} -> "Authorized"
        [] statuses \cap {"ArrivedBuffer", "InProcess", "InExecution"} # {} -> "InProcess"
        [] OTHER -> "InExecution"

\* The first start; the first shipment or else the last completion.
ActualStart(s, a) ==
  LET I == OfType(s, LinkedTo(s, a), {"StartedOperation"})
  IN  IF I = {} THEN Nothing ELSE s[Earliest(s, I)].at

ActualCompletion(s, a) ==
  LET shipped == OfType(s, LinkedTo(s, a), {"Shipped"})
      completed == OfType(s, LinkedTo(s, a), {"CompletedOperation"})
  IN  CASE shipped # {} -> s[Earliest(s, shipped)].at
        [] shipped = {} /\ completed # {} -> s[Latest(s, completed)].at
        [] OTHER -> Nothing

Timing(planned, actual) ==
  CASE actual = Nothing -> "Pending" [] actual # Nothing /\ actual < planned -> "Early"
    [] actual # Nothing /\ actual > planned -> "Late" [] OTHER -> "OnTime"

Variance(s, a) ==
  [start |-> Timing(a.start, ActualStart(s, a)),
   completion |-> Timing(a.end, ActualCompletion(s, a))]

VarianceStatus(s, A) ==
  LET timings == UNION {Range(Variance(s, a)) : a \in A}
  IN  CASE "Late" \in timings -> "Late"
        [] "Late" \notin timings /\ "Pending" \in timings -> "Pending"
        [] OTHER -> "OnTime"

-----------------------------------------------------------------------------
(* evaluate_release_stability.                                             *)

Deviation(planned, at) == IF at < planned THEN planned - at ELSE at - planned

\* Nothing, or the reason why the order must be planned anew.
ReplanReason(planned, at, gateAllowed, blocked, lastReplan) ==
  LET far == Deviation(planned, at) >= ReplanThreshold
      stuck == ~gateAllowed /\ blocked >= BlockedThreshold
      cooling == lastReplan # Nothing /\ at - lastReplan < ReplanCooldown
  IN  CASE (far \/ stuck) /\ ~cooling /\ far -> "DeviationAtReplanThreshold"
        [] (far \/ stuck) /\ ~cooling /\ ~far -> "ConsecutiveGateBlocks"
        [] OTHER -> Nothing

StabilityAction(planned, at, gateAllowed, blocked, lastReplan) ==
  LET far == Deviation(planned, at) >= ReplanThreshold
      stuck == ~gateAllowed /\ blocked >= BlockedThreshold
  IN  CASE ReplanReason(planned, at, gateAllowed, blocked, lastReplan) # Nothing -> "Replan"
        [] far \/ stuck \/ Deviation(planned, at) > Tolerance -> "Review"
        [] OTHER -> "Monitor"

\* The plan and the fact that build_execution_variance_stability compares.
Basis(s, a) ==
  CASE ActualCompletion(s, a) # Nothing -> <<a.end, ActualCompletion(s, a)>>
    [] ActualCompletion(s, a) = Nothing /\ ActualStart(s, a) # Nothing
         -> <<a.start, ActualStart(s, a)>>
    [] OTHER -> Nothing

VarianceAction(s, a) ==
  IF Basis(s, a) = Nothing THEN "Monitor"
  ELSE StabilityAction(Basis(s, a)[1], Basis(s, a)[2], TRUE, 0, Nothing)

Alert(s, a, now) ==
  LET status == ExecutionStatus(s, a)
  IN  CASE RequiresReview(s, a) -> "ExceptionReview"
        [] ~RequiresReview(s, a) /\ now > a.start /\ status = "Authorized" -> "StartMissed"
        [] ~RequiresReview(s, a) /\ now > a.end /\ status \in {"ArrivedBuffer", "InProcess"}
             -> "CompletionMissed"
        [] OTHER -> Nothing

-----------------------------------------------------------------------------
(* The flow of an order, and the buffer board.                             *)

OfOrder(s, o) == {i \in DOMAIN s : s[i].order = o}

\* Two events in a row of which the second does not come later in the process.
ReworkLoops(s, o) ==
  LET I == OfOrder(s, o)
  IN  {<<s[p[1]].type, s[p[2]].type, s[p[2]].at - s[p[1]].at>> :
         p \in {q \in I \X I : /\ Follows(s, I, q[1], q[2])
                               /\ {s[q[1]].type, s[q[2]].type} \subseteq DOMAIN Rank
                               /\ Rank[s[q[2]].type] <= Rank[s[q[1]].type]}}

LateArrivals(s) ==
  {s[i].at - s[i].target : i \in {j \in DOMAIN s : IsLateArrival(s[j].type, s[j].at, s[j].target)}}

\* buffer_zone: thirds of the way from the suggested release to the start.
BufferZone(release, start, at) ==
  LET elapsed == (at - release) * 100
      span == start - release
  IN  CASE span <= 0 /\ at <= start -> "Red"
        [] span > 0 /\ elapsed < 0 -> "Early"
        [] span > 0 /\ elapsed >= 0 /\ elapsed <= 33 * span -> "Green"
        [] span > 0 /\ elapsed > 33 * span /\ elapsed <= 66 * span -> "Yellow"
        [] span > 0 /\ elapsed > 66 * span /\ elapsed <= 100 * span -> "Red"
        [] OTHER -> "Late"

OnBoard(s, a) ==
  {i \in DOMAIN s : s[i].auth = a \/ (s[i].auth = Nothing /\ s[i].order = a.order)}

IsActive(s, a) ==
  LET I == OnBoard(s, a)
  IN  I # {} => s[Latest(s, I)].type \notin {"CompletedOperation", "Shipped"}

Stage(s, a) ==
  IF OfType(s, OnBoard(s, a), {"ArrivedBuffer", "StartedOperation"}) # {}
  THEN "Received" ELSE "YetToBeReceived"

-----------------------------------------------------------------------------
(* What dispatching sees of the single operation of an order.              *)

IsFinished(s, o) == OfType(s, OfOrder(s, o), {"CompletedOperation", "Shipped"}) # {}

\* _shop_floor_status takes the maximum, of equal ones the first.
FloorEvent(s, o) ==
  LET I == OfOrder(s, o)
      latest == {i \in I : \A j \in I : s[j].at <= s[i].at}
  IN  IF I = {} THEN Nothing
      ELSE s[CHOOSE i \in latest : \A j \in latest : i <= j].type

FloorIsReady(s, o) ==
  FloorEvent(s, o) \in {"ArrivedBuffer", "DispatchAccepted", "StartedOperation"}

\* Queue jumps at the resource since an operation there that was not one.
QueueJumps(s) ==
  LET I == {i \in DOMAIN s : s[i].located}
  IN  {i \in I :
         /\ s[i].jump
         /\ ~\E j \in I : /\ Precedes(s, i, j) /\ ~s[j].jump
                          /\ s[j].type \in {"StartedOperation", "CompletedOperation"}}

-----------------------------------------------------------------------------
(* What the order of arrival must not change.                              *)

Report(s, A, O) ==
  <<[a \in A |-> <<ExecutionStatus(s, a), Variance(s, a), VarianceAction(s, a),
                   IsActive(s, a), Stage(s, a), {<<now, Alert(s, a, now)>> : now \in Instants}>>],
    OverallStatus(s, A), VarianceStatus(s, A),
    [o \in O |-> <<ReworkLoops(s, o), FloorEvent(s, o)>>],
    Cardinality(QueueJumps(s)), LateArrivals(s)>>
=============================================================================
