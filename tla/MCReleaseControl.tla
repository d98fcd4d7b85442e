-------------------------- MODULE MCReleaseControl --------------------------
(* Two orders and one Planning Run; replanning may change the times of an   *)
(* order or leave it out.                                                   *)
EXTENDS ReleaseControl, TLC

CONSTANTS o1, o2, r

Times(release, start, end) == [release |-> release, start |-> start, end |-> end]

Runs == [n \in {r} |-> (o1 :> Times(0, 1, 2)) @@ (o2 :> Times(1, 2, 3))]
Answers == {o1 :> Times(0, 1, 2), (o1 :> Times(1, 2, 3)) @@ (o2 :> Times(1, 1, 2))}

Needs == [o \in {o1, o2} |-> [i \in {"part"} |-> IF o = o2 THEN 1 ELSE 0]]

Stock(onHand, inboundAt) ==
  [i \in {"part"} |-> [onHand |-> onHand, allocated |-> 0, red |-> 1, inbound |-> 1,
                       inboundAt |-> inboundAt]]
Wip(current) == {[current |-> current, increment |-> 1, max |-> 1]}

Calm == [stock |-> Stock(2, Nothing), wip |-> Wip(0)]
Short == [stock |-> Stock(1, 2), wip |-> Wip(0)]
Full == [stock |-> Stock(2, Nothing), wip |-> Wip(1)]

Policies == {[lookahead |-> 1, maxWip |-> 1]}
FrozenPolicies == [n \in {r} |-> [lookahead |-> 1, maxWip |-> 1]]
LaterOrders == [o \in {o1, o2} |-> IF o = o1 THEN {o2} ELSE {}]
States == {Calm, Short, Full}

Notify(type, target, code, jump) ==
  [type |-> type, target |-> target, code |-> code, located |-> TRUE, jump |-> jump]

Notices ==
  {Notify(type, 1, Nothing, FALSE) :
     type \in {"ArrivedBuffer", "StartedOperation", "CompletedOperation", "Shipped",
               "DispatchAccepted", "DispatchRejected"}}
    \cup {Notify("StartedOperation", 1, Nothing, TRUE), Notify("ArrivedBuffer", 1, Known, FALSE),
          Notify("CompletedOperation", 0, Unknown, FALSE)}

\* One part of the system at a time, chosen at the start: planning anew and
\* releasing from it; the answers of the floor that lead to planning anew; the
\* release and dispatch of a run; the events of an authorized order; and locks.
VARIABLE world

Released(o) == Authorization(FromRun(r), o, 0, RunSchedule[r][o], 1, Nothing, RunPolicy[r])

Start ==
  \/ ReleaseInit /\ world = "replan"
  \/ ReleaseInit /\ world = "variance"
  \/ ReleaseInit /\ world = "release"
  \/ ReleaseInit /\ world = "locks"
  \/ /\ world = "events" /\ authorizations = {Released(o1)}
     /\ requests = <<>> /\ schedules = <<>>
     /\ snapshots = <<[at |-> 0, state |-> FirstState]>>
     /\ packages = {} /\ locks = <<>> /\ issued = <<>> /\ events = <<>>

Asked == DOMAIN requests

Explored ==
  CASE world = "replan" ->
         /\ events = <<>> /\ locks = <<>> /\ issued = <<>> /\ Len(snapshots) = 1
         /\ \A q \in Asked : q.planned = 0 /\ q.order = o1
         /\ \A c \in authorizations : c.from # FromRun(r) /\ (c.policy = Nothing \/ c.package = Nothing)
         /\ Cardinality(authorizations) <= 1 \/ Cardinality(Asked) = 1
    [] world = "variance" ->
         /\ locks = <<>> /\ issued = <<>> /\ Len(snapshots) = 1 /\ Len(events) <= 1
         /\ \A q \in Asked : \/ q.source = "ExecutionVariance"
                            \/ /\ q.planned = 0 /\ q.order = o1
                               /\ q.reason # "ConsecutiveGateBlocks"
         /\ Cardinality(authorizations) <= 1
         /\ \A c \in authorizations : c.from # FromRun(r) /\ c.package # Nothing /\ c.policy = Nothing
         /\ \A n \in DOMAIN events :
              /\ events[n].auth # Nothing /\ ~events[n].jump
              /\ events[n].type \in {"StartedOperation", "CompletedOperation"}
    [] world = "release" ->
         /\ Asked = {} /\ locks = <<>> /\ Len(events) <= 1
         /\ \A n \in DOMAIN events :
              events[n].order = o2 /\ events[n].at = 1 /\ events[n].type # "ArrivedBuffer"
    [] world = "events" ->
         /\ Asked = {} /\ locks = <<>> /\ issued = <<>> /\ Len(snapshots) = 1
         /\ authorizations = {Released(o1)}
         /\ \A n \in DOMAIN events :
              events[n].order = o1 /\ (events[n].code = Known <=> events[n].review)
    [] world = "locks" ->
         Asked = {} /\ issued = <<>> /\ Len(snapshots) = 1 /\ authorizations = {} /\ events = <<>>

Step == ReleaseNext /\ UNCHANGED world /\ Explored'

Exploration == Start /\ [][Step]_<<releaseVars, world>>
=============================================================================
