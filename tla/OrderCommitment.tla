-------------------------- MODULE OrderCommitment --------------------------
(***************************************************************************)
(* The commitment of make-to-order customer orders:                        *)
(* sdbr/order_commitment_evaluation.py, the window choice of               *)
(* sdbr/ccr_shadow_scheduler.py and the order-commitment handlers of       *)
(* sdbr/api.py.  A message about an order is evaluated against a completed *)
(* plan, the reservations of the constraint's capacity windows and the     *)
(* material of an operational snapshot.  A planner may have it evaluated   *)
(* again, reject it, or accept it, which confirms a reservation batch, but *)
(* only if an evaluation made at that moment would find the same facts.    *)
(*                                                                         *)
(* BatchLifecycle gives what becomes of a batch afterwards; an acceptance  *)
(* queues the run that does it, see PlanningReservations.  An order needs  *)
(* one unit of one window and one unit of one material.  Windows follow    *)
(* one another, window w ending at the instant w + 1, and an order is due  *)
(* at the end of a window.  Requests are served one at a time.             *)
(***************************************************************************)
EXTENDS Integers, Sequences, FiniteSets, FiniteSetsExt

CONSTANTS
  Order,          \* logical orders
  Content,        \* what messages about orders may say
  DecisionID,     \* also the identity of the batch an acceptance confirms
  Plan,           \* runs that can serve as baseline
  Baseline,       \* those that are completed and approved to begin with
  Scheduled,      \* load of the orders in a plan's own master data, per window
  Window,         \* capacity windows, numbered from 1
  Capacity,       \* of each window
  Supply,         \* of the material, in every snapshot
  None,           \* no decision
  MaxEvaluations, MaxSnapshots, MaxNow, MaxVersion   \* bounds

ASSUME CommitmentAssumption ==
  /\ Content \subseteq [order : Order, version : Nat, received : Nat, due : Window, plan : Plan]
  /\ Baseline \subseteq Plan /\ Scheduled \in [Plan -> [Window -> Nat]]
  /\ Window \subseteq Nat \ {0} /\ IsFiniteSet(Window)
  /\ Capacity \in Nat /\ Supply \in Nat /\ None \notin DecisionID
  /\ {MaxEvaluations, MaxSnapshots, MaxNow, MaxVersion} \subseteq Nat

VARIABLES
  evaluations,    \* in the order they were made
  batch,          \* of each decision
  publication,    \* of each plan
  contains,       \* the batches each completed plan has scheduled
  captured,       \* snapshots are numbered in the order they were captured
  expired,        \* the first so many are more than 60 minutes old
  now

vars == <<evaluations, batch, publication, contains, captured, expired, now>>

Batches == INSTANCE BatchLifecycle WITH Batch <- DecisionID

Init ==
  /\ evaluations = <<>>
  /\ Batches!Init
  /\ publication = [p \in Plan |-> IF p \in Baseline THEN "Approved" ELSE "Unavailable"]
  /\ contains = [p \in Plan |-> {}]
  /\ captured = 0 /\ expired = 0 /\ now = 0

Made == DOMAIN evaluations
OfOrder(o) == {i \in Made : evaluations[i].content.order = o}
Accepted == {i \in Made : evaluations[i].status = "Accepted"}

-----------------------------------------------------------------------------
(* An evaluation: what it finds, and the ledger rows and snapshot it is    *)
(* based on.                                                               *)

AcceptanceOf(d) == CHOOSE i \in Accepted : evaluations[i].decision = d
Confirmed == {d \in DecisionID : batch[d] # Batches!Absent}
WindowOf(d) == evaluations[AcceptanceOf(d)].facts.window

\* PENDING_CAPACITY_RESERVATION_STATUSES
Reserved(w) == {d \in Confirmed : Batches!Pending(d) /\ WindowOf(d) = w}

\* ACTIVE_PLANNING_STATUSES: an allocation is there to stay.
Allocated == {d \in Confirmed : evaluations[AcceptanceOf(d)].facts.material = "Feasible"}

\* _build_window_states: the bars of the baseline and the reservations.
Load(p, w) ==
  Scheduled[p][w] + Cardinality({d \in contains[p] : WindowOf(d) = w})
    + Cardinality(Reserved(w))

Fits(p, w) == Load(p, w) + 1 <= Capacity

\* Windows that are not over, and those among them that end in time.
Ahead == {w \in Window : now <= w}
InTime(c) == {w \in Ahead : w <= c.due}

\* evaluate_ccr_shadow_schedule: the last window in time with room, else the
\* first window with room; and every window that was considered.
CapacityFacts(c) ==
  LET onTime == {w \in InTime(c) : Fits(c.plan, w)}
      later == {w \in Ahead : Fits(c.plan, w)}
  IN  CASE onTime # {} ->
             [capacity |-> "OnTime", window |-> Max(onTime), considered |-> InTime(c)]
        [] onTime = {} /\ later # {} ->
             [capacity |-> "LaterSafeDate", window |-> Min(later), considered |-> Ahead]
        [] OTHER ->
             [capacity |-> "NotAssessable", window |-> 0, considered |-> Ahead]

\* select_order_commitment_operational_snapshot: 0 asks for the latest one, and
\* is also the answer when there is none.
Selected(chosen) == IF chosen = 0 THEN captured ELSE chosen

\* evaluate_mto_material_availability
MaterialStatus(checked, s) ==
  CASE ~checked -> "SkippedPendingConfirmation"
    [] checked /\ s <= expired -> "EvidenceInsufficient"
    [] checked /\ s > expired /\ Cardinality(Allocated) + 1 <= Supply -> "Feasible"
    [] OTHER -> "Shortage"

Rows(ds) == {[id |-> d, record |-> batch[d]] : d \in ds}

\* DecisionStalenessBasis and DecisionFacts: snapshot and material only count
\* when they were checked.
Facts(c, checked, s) ==
  LET found == CapacityFacts(c)
  IN  [capacity |-> found.capacity, window |-> found.window, considered |-> found.considered,
       reservations |-> Rows(UNION {Reserved(w) : w \in found.considered}),
       material |-> MaterialStatus(checked, s),
       snapshot |-> IF checked THEN s ELSE 0,
       allocations |-> IF checked THEN Rows(Allocated) ELSE {}]

\* create_order_commitment_evaluation
Evaluation(c, checked, chosen) ==
  [content |-> c, checked |-> checked, chosen |-> chosen, seen |-> Selected(chosen),
   facts |-> Facts(c, checked, Selected(chosen)), status |-> "Awaiting", decision |-> None]

\* The baseline must be a plan one may rely on.
Usable(p) == publication[p] = "Approved"

-----------------------------------------------------------------------------
(* Messages about orders, and evaluations.                                 *)

\* OrderKey and OrderVersionRank
SameKey(c, d) == c.order = d.order /\ c.version = d.version
Before(c, d) ==
  \/ c.received < d.received
  \/ c.received = d.received /\ c.version < d.version

\* Deviation of Superseding: every evaluation of the order, decided or not.
SupersedingAll(e) ==
  [i \in Made |->
    IF i \in OfOrder(e.content.order)
    THEN [evaluations[i] EXCEPT !.status = "Superseded"] ELSE evaluations[i]]

\* Deviation of Superseding: nothing.
SupersedingNone(e) == evaluations

\* supersede_open_order_commitment_evaluations
Superseding(e) ==
  [i \in Made |->
    IF i \in OfOrder(e.content.order) /\ evaluations[i].status = "Awaiting"
    THEN [evaluations[i] EXCEPT !.status = "Superseded"] ELSE evaluations[i]]

Add(e) ==
  /\ Len(evaluations) < MaxEvaluations
  /\ Usable(e.content.plan)
  /\ evaluations' = Append(Superseding(e), e)
  /\ UNCHANGED <<batch, publication, contains, captured, expired, now>>

\* Deviations of New: an accepted order takes changes; versions in any order.
NewAlsoAccepted(c) ==
  \A i \in OfOrder(c.order) :
    LET known == evaluations[i].content
    IN  ~SameKey(known, c) /\ ~Before(c, known)
NewInAnyOrder(c) ==
  \A i \in OfOrder(c.order) :
    ~SameKey(evaluations[i].content, c) /\ evaluations[i].status # "Accepted"

\* exact_order_commitment_intake_replay: a message that was evaluated before, or
\* is refused, changes nothing.
New(c) ==
  \A i \in OfOrder(c.order) :
    LET known == evaluations[i].content
    IN  /\ ~SameKey(known, c) /\ ~Before(c, known)
        /\ evaluations[i].status # "Accepted"

\* POST order-commitments/intake
Intake(c, chosen) ==
  /\ New(c)
  /\ chosen \in 0..captured
  /\ Add(Evaluation(c, TRUE, chosen))

\* POST order-commitments/{evaluation_id}/reevaluate
Reevaluate(i, p, checked, chosen) ==
  /\ evaluations[i].status = "Awaiting"
  /\ chosen \in 0..captured
  /\ Add(Evaluation([evaluations[i].content EXCEPT !.plan = p], checked, chosen))

-----------------------------------------------------------------------------
(* Decisions: POST order-commitments/{evaluation_id}/decision.             *)

\* Deviation of Current: only the baseline and the snapshot are looked at again.
CurrentSnapshot(e) == Usable(e.content.plan) /\ Selected(e.chosen) = e.seen /\ now < e.facts.window

\* Deviation of Current: material that is allocated in the meantime is not seen.
CurrentCapacity(e) ==
  LET f == Facts(e.content, e.checked, Selected(e.chosen))
  IN  /\ Usable(e.content.plan) /\ now < e.facts.window
      /\ f.window = e.facts.window /\ f.reservations = e.facts.reservations

\* An evaluation made now would find the same.  The facts of a window that has
\* begun carry the instant of the evaluation (UsableWindowStartAt), which is past.
Current(e) ==
  /\ Usable(e.content.plan)
  /\ Facts(e.content, e.checked, Selected(e.chosen)) = e.facts
  /\ now < e.facts.window

\* AllowedActions; a run cannot be queued without a snapshot.
Acceptable(e) ==
  /\ e.facts.capacity \in {"OnTime", "LaterSafeDate"}
  /\ e.facts.material \in {"Feasible", "SkippedPendingConfirmation"}
  /\ e.seen # 0

\* accepted_order_commitment_record, rejected_order_commitment_record
Decide(i, s, d) ==
  evaluations' = [evaluations EXCEPT ![i].status = s, ![i].decision = d]

\* Deviation of Confirm: a DecisionID that was processed before is taken for a
\* replay without a look at its content.
ConfirmOrReplay(d) == IF d \in Confirmed THEN UNCHANGED batch ELSE Batches!Confirm(d)

\* apply_reservation_write_set
Confirm(d) == Batches!Confirm(d)

Accept(i, d) ==
  /\ evaluations[i].status = "Awaiting"
  /\ Current(evaluations[i]) /\ Acceptable(evaluations[i])
  \* assert_no_active_predecessor, _assert_one_batch_per_demand
  /\ Accepted \cap OfOrder(evaluations[i].content.order) = {}
  /\ Confirm(d)
  /\ Decide(i, "Accepted", d)
  /\ UNCHANGED <<publication, contains, captured, expired, now>>

Reject(i, d) ==
  /\ evaluations[i].status = "Awaiting"
  /\ Decide(i, "Rejected", d)
  /\ UNCHANGED <<batch, publication, contains, captured, expired, now>>

-----------------------------------------------------------------------------
(* Meanwhile.                                                              *)

\* A run that selected the batches fails.
Hold(bs) ==
  /\ bs # {} /\ \A d \in bs : batch[d].version < MaxVersion
  /\ Batches!Move(bs, "Held")
  /\ UNCHANGED <<evaluations, publication, contains, captured, expired, now>>

\* A run that selected the batches completes: every batch is scheduled in its
\* window (ScheduledOccupancyEvidenceError otherwise), beside those scheduled
\* before whose orders have reached the run's master data.
Complete(bs, p) ==
  /\ bs # {} /\ publication[p] = "Unavailable"
  /\ Batches!Move(bs, "Converted")
  /\ publication' = [publication EXCEPT ![p] = "Draft"]
  /\ \E before \in SUBSET {d \in DecisionID : batch[d].status = "Converted"} :
       contains' = [contains EXCEPT ![p] = bs \cup before]
  /\ UNCHANGED <<evaluations, captured, expired, now>>

\* A plan is reviewed and approved; publishing it changes nothing here.
Approve(p) ==
  /\ publication[p] = "Draft"
  /\ publication' = [publication EXCEPT ![p] = "Approved"]
  /\ UNCHANGED <<evaluations, batch, contains, captured, expired, now>>

\* A published plan is revoked, or superseded by another of the same problem.
Retire(p) ==
  /\ publication[p] = "Approved"
  /\ publication' = [publication EXCEPT ![p] = "Retired"]
  /\ UNCHANGED <<evaluations, batch, contains, captured, expired, now>>

Capture ==
  /\ captured < MaxSnapshots
  /\ captured' = captured + 1
  /\ UNCHANGED <<evaluations, batch, publication, contains, expired, now>>

Expire ==
  /\ expired < captured
  /\ expired' = expired + 1
  /\ UNCHANGED <<evaluations, batch, publication, contains, captured, now>>

Tick ==
  /\ now < MaxNow
  /\ now' = now + 1
  /\ UNCHANGED <<evaluations, batch, publication, contains, captured, expired>>

Next ==
  \/ \E c \in Content, chosen \in 0..MaxSnapshots : Intake(c, chosen)
  \/ \E i \in Made, p \in Plan, checked \in BOOLEAN, chosen \in 0..MaxSnapshots :
       Reevaluate(i, p, checked, chosen)
  \/ \E i \in Made, d \in DecisionID : Accept(i, d) \/ Reject(i, d)
  \/ \E bs \in SUBSET DecisionID : Hold(bs) \/ \E p \in Plan : Complete(bs, p)
  \/ \E p \in Plan : Approve(p) \/ Retire(p)
  \/ Capture \/ Expire \/ Tick

Spec == Init /\ [][Next]_vars

-----------------------------------------------------------------------------
(* What the commitment of orders promises.                                 *)

\* Of the evaluations of an order one at most can be decided, the last; and none
\* once a version of the order has been accepted.
OneDecidable ==
  \A i, j \in Made :
    /\ evaluations[i].status = "Awaiting" /\ i # j
    /\ evaluations[i].content.order = evaluations[j].content.order
    => j < i /\ evaluations[j].status \in {"Superseded", "Rejected"}

\* Versions of an order are evaluated in the order of their rank, however their
\* messages arrive, so that an accepted order was accepted in its latest version.
VersionsAdvance ==
  \A i, j \in Made :
    i < j /\ evaluations[i].content.order = evaluations[j].content.order
      => ~Before(evaluations[j].content, evaluations[i].content)

\* Every batch was confirmed for one order: no DecisionID serves two acceptances.
OneOrderPerBatch ==
  \A i, j \in Accepted :
    /\ evaluations[i].decision \in Confirmed
    /\ evaluations[i].decision = evaluations[j].decision => i = j

\* What a decision is about is never in doubt: which evaluation can be decided,
\* that it is of the latest version, and which order a batch was confirmed for.
DecisionsUnambiguous == OneDecidable /\ VersionsAdvance /\ OneOrderPerBatch

\* What was decided or superseded is never touched again.
DecisionsAreFinal ==
  [][\A i \in Made : evaluations[i].status # "Awaiting" => evaluations'[i] = evaluations[i]]_vars

\* Acceptances never allocate more than the material there is, one snapshot or
\* another.
AllocatedWithinSupply == Cardinality(Allocated) <= Supply

\* At the moment of an acceptance its window still lies ahead, and the snapshot
\* whose material it relies on is not too old and, unless it was chosen, the
\* latest there is: neither may have lapsed since the evaluation.
AcceptedOnValidEvidence ==
  [][\A i \in Accepted' \ Accepted :
       LET e == evaluations[i]
       IN  /\ now < e.facts.window
           /\ e.checked => expired < e.seen /\ (e.chosen = 0 => e.seen = captured)]_vars

\* Every order is promised at most once, in a window that has room for it beside
\* everything promised there and not yet scheduled.
PromiseOf(o) == {i \in Accepted : evaluations[i].content.order = o}
Promises == INSTANCE OrderPromises WITH
  window <- [o \in Order |->
    IF PromiseOf(o) = {} THEN 0
    ELSE evaluations[CHOOSE i \in PromiseOf(o) : TRUE].facts.window],
  waiting <- {o \in Order :
    \E i \in PromiseOf(o) : Batches!Pending(evaluations[i].decision)}

ImplementsPromises == Promises!Spec

\* The load of an accepted order is counted, by its reservation or by the plan
\* that schedules it, so that no window is promised beyond its capacity.
LoadIsCounted ==
  \A w \in Window :
    Cardinality({i \in Accepted : evaluations[i].facts.window = w}) <= Capacity
=============================================================================
