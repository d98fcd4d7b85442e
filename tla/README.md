# SDBR: models, model checks and proofs

SDBR is a planning workbench for drum-buffer-rope production: a FastAPI
application (`src/sdbr/api.py`) that keeps all of its state in one store, runs
planning jobs through a constraint solver, and records what its planners
decide about orders, releases and replenishment. The arithmetic of planning is
ordinary and well tested. What tests hardly reach is what happens *between*
requests: a solver that works for minutes while its lease runs out, two API
processes over one SQLite file, a planner who recovers a run while other runs
hold the same reservations, a frozen run that is executed after the rules it
was planned from were replaced, a message of another system that comes again
with other content. That is what these modules model.

Contents: [inventory](#1-inventory-of-the-system),
[modules](#2-modules-and-the-code-they-model),
[runs](#3-what-the-runs-check), [fairness](#4-fairness),
[proofs](#5-what-is-proved), [findings](#6-findings),
[limits](#7-what-is-not-modelled), [plan](#8-plan).

## 1. Inventory of the system

For every part: its state, its operations, whom it interacts with, what is
hard, and what makes it correct. `PROJECT.json` has the same list with the
source files and what is modelled so far.

### State store (`state_store.py`, `persist_successful_writes` in `api.py`)

- State: some forty dictionaries and lists in memory, one JSON document each in
  a SQLite file with a `state_revision`, and a `.bak` copy of that file.
- Operations: an ordinary write request takes the state lock, compares
  `If-Match`, snapshots the memory, lets the handler change it, then `save`s or
  restores the snapshot; `execute`, `process-queued` and `renew-lease` use
  `atomic_update`, which reloads, changes and writes inside one `BEGIN
  IMMEDIATE` transaction. Each commit is followed by a backup. Start-up restores
  the backup if the file cannot be read, and fails if there is no backup yet.
- Interaction: every handler reads and writes the memory directly; several
  processes may share the file.
- Hard: stale memories, half-done handlers, crashes between commit and backup,
  damage while another process keeps running.
- Correct when: writes take effect one after the other and each on top of all
  earlier ones, reads show committed states, acknowledged writes are not lost.

### Planning Run lifecycle (`api.py` 5097-6637, 11490-11788)

- State: one record per run with its status, lease (`WorkerID`,
  `LeaseTokenHash`, `LeaseExpiresAt`), execution claim (`ExecutionTokenHash`,
  `ExecutionClaimExpiresAt`, `ExecutionVersion`), attempts and
  `NextAttemptAt`.
- Operations: create, enqueue, cancel, claim-next, process-queued,
  renew-lease, execute (claim, solve, finalize, compensate), recover.
- Interaction: workers and planners compete for runs; finalization also moves
  the run's reservations, in the same store update.
- Hard: the solver runs without any lock; expiry, renewal, takeover and late
  answers interleave freely, and the server or the worker may be gone.
- Correct when: executions of a run exclude each other, only the latest writes
  a result, and nothing leaves a run `Running` for ever.

### Planning worker (`planning_worker.py`)

- State: where the process is in its loop, the lease it holds, its heartbeat
  thread, the stop event.
- Operations: claim, start the heartbeat, execute, stop the thread, poll again;
  signals set the stop event.
- Interaction: the queue, over HTTP: each request may be refused, time out or
  lose its answer.
- Hard: the heartbeat dies with its first failed renewal and nobody notices; any
  answer of 409 raises through `run_forever` and ends the process.
- Correct when: a living heartbeat keeps the claim, a worker never has two
  solvers at work, it stops when told, and what it held is given up when it ends.

### Reservations (`planning_reservations.py`, `planning_run_reservation_bridge.py`)

- State: batches, each with capacity reservations and material allocations
  that carry `Status`, `RecordVersion`, `PlanningRunID`, `LastTransitionAt` and
  `EventType`; the graph of such records frozen in each run.
- Operations: a planner's acceptance of an order confirms a batch and queues a
  run that froze it; creating a run freezes existing batches; finalizing a run
  compares what it froze with the live records and converts or holds them.
- Hard: runs share batches, fail and are recovered any number of times, and the
  compare-and-set must accept a run's own earlier moves and nobody else's.
- Correct when: a batch is scheduled once, moves as a whole, has one holder, and
  that holder can always go on.

### Order commitments (`order_commitment_evaluation.py`, `planning_commitments.py`)

State: evaluations of customer orders, demand commitments by version, events
and idempotency keys. Operations: intake, re-evaluation, decision (accept,
accept at another date, reject), replay of each. Hard: an evaluation is stale
when somebody else's acceptance takes the capacity it counted on; a decision
sent twice must be recognised, also half-way through. Correct when: an order
version is decided once, on current evidence, and at most one version of a
demand is active.

### Planning inputs (`base_calendar.py`, `calendar_overrides.py`, `calendar_preview.py`, master data, strategies, release policies)

- State: calendars, their assignments to resources, temporary overrides,
  master-data versions, scheduling strategies, release policies; the copies of
  all of them frozen in each run.
- Operations: create, activate (which retires the previous one), publish, roll
  back, retire; the preview of the capacity they give.
- Hard: interval arithmetic over shifts, maintenance, holidays, overtime and
  budgets of minutes; a run is scheduled long after the rules were replaced.
- Correct when: the windows follow the documented priority of the rules, a run is
  planned on what its planner saw, and at most one of a kind is in force.

### Plan publication (`plan_publication.py`)

State: the publication of each completed run's plan. Operations: review,
approve, publish (which supersedes), revoke. Correct when: at most one plan of a
problem is published, and a plan and the one that took its place name each other.

### Finite scheduler (`scheduling_solver.py`, `cp_sat_solver.py`)

Builds a constraint problem from resources, routings and orders, hands it to
CP-SAT, and reads the answer; a replan fixes part of an earlier plan. Hard: dates
cut to minutes, a horizon that is a sum of guesses, constraints stated per
window and per pair. Correct when: what it answers can be carried out on the
floor, and it says Infeasible only if nothing could be.

### Release, replanning, shop floor (`release_*.py`, `replanning.py`, `shop_floor_execution.py`, `dispatch_priority.py`)

- State: replan requests and their schedules, operational snapshots, decision
  packages, authorizations, lock commands, execution events, issued dispatch
  packages.
- Operations: request and decide a replan, execute it, decide a package,
  authorize an order from a run or from a replan, record events, dispatch.
- Hard: two paths write one list of authorizations; packages cite schedules and
  snapshots of earlier; events arrive twice and out of order.
- Correct when: an order of a run is released once, in time and on a fresh
  snapshot; what was decided goes on speaking of what it was decided on; the
  story the events tell does not depend on the order of their arrival.

### DDMRP replenishment (`ddmrp_replenishment.py`, `ddmrp_replenishment_view.py`)

An append-only ledger of evaluations, recommendation versions, chains and events,
and the result of each request. Both the workbench view and the repetition of a
request validate it and answer 409 if anything disagrees. Correct when: no
sequence of evaluations makes it unreadable, repeated requests are always
answered, and what was known is evaluated once.

### Integration: DDSOP exchange, evidence, integration messages

- `ddsop_contracts.py`, `ddsop_delivery.py`, `ddsop_runtime_planning_input.py`:
  configurations and packages are received, frozen into runs, and feedback about
  the runs is posted to the DDAE system, which may or may not answer.
- `supplier_identity_source_contracts.py`,
  `production_inventory_quality_contracts.py`,
  `execution_object_evidence_contracts.py`: inboxes of evidence whose messages
  refer to one another.
- `integration_contracts.py`: an inbox with dead letters and marks for replay.
- Hard: repetition, other content under the same key, references that arrive
  after what refers to them, requests or answers lost, a ledger lost in a crash.
- Correct when: a key gets one verdict, accepted evidence rests on accepted
  evidence, feedback is counted once and the ledger of deliveries tells the truth.

### Other algorithms

`ccr_shadow_scheduler.py` (its choice of a window is in `OrderCommitment`),
`light_mrp.py`, `ddom_metrics.py`, `sdbr_market_control.py`: functions of their
arguments, without memory.

### The rest

Views, importers, document contracts, demonstration data, Simio file exchange and
the browser client keep no state that another actor can disturb.

## 2. Modules and the code they model

| Module | Role |
| --- | --- |
| `StateStore` | processes, memories, the file and its backup |
| `AtomicStore` | what `StateStore` implements: one write after the other |
| `PlanningRunQueue` | runs, leases, execution claims, clock, crashes |
| `ExclusiveExecution` | what `PlanningRunQueue` implements: numbered exclusive executions |
| `RunLifecycle` | the status changes of a run; implemented by `PlanningRunQueue`, used by `PlanningReservations` |
| `PlanningReservations` | batches, frozen graphs and the outcomes of finalization |
| `BatchLifecycle` | what `PlanningReservations` shows of a batch to those who read only its status; used by `OrderCommitment` |
| `OrderCommitment` | evaluations of customer orders and the decisions on them, against plans, reservations, snapshots and time |
| `OrderPromises` | what `OrderCommitment` implements: each order promised once, in a window with room |
| `PlanningWorker` | worker processes with their heartbeat threads, over `PlanningRunQueue` |
| `CapacityCalendar` | pure: calendars, overrides and the capacity windows they give |
| `PlanningInputs` | calendars, versions, strategies and policies, and runs that freeze them |
| `PlanPublication` | the publication of plans, on the runs of `PlanningInputs` |
| `FiniteScheduler` | the problem, the answers CP-SAT may give, runs and replans |
| `ShopFloor` | execution events and everything read from them |
| `ReleaseControl` | replanning, decision packages, authorization and dispatch, on `ShopFloor` |
| `ReplenishmentLedger` | the DDMRP ledger, its replay and its validation |
| `DdsopExchange` | configurations, packages, frozen runs and feedback |
| `EvidenceInbox` | the three inboxes of external evidence |
| `IntegrationInbox` | integration messages and dispatch packages issued |
| `Contracts` | the four ledgers above side by side, and what holds of them together |
| `MC*` | the instances TLC explores; constants are in the `.cfg` files |
| `*Proofs` | theorems about the module they extend |

The layers rest on each other. `StateStore` shows that any number of processes
implement `AtomicStore`; therefore each action of `PlanningRunQueue` and
`PlanningReservations` may be one atomic step on one shared state.
`PlanningRunQueue` shows that all its machinery only changes statuses as
`RunLifecycle` allows; therefore `PlanningReservations` takes `RunLifecycle`
for the whole life of a run. `PlanningReservations` in turn shows a batch as
`BatchLifecycle` describes it, and `OrderCommitment` takes that for what becomes
of the batches its acceptances confirm. `PlanningWorker` extends
`PlanningRunQueue` and reuses its actions, so a worker's requests meet every
other actor of the queue. `PlanPublication` extends `PlanningInputs`, which takes
its windows from `CapacityCalendar`, as `FiniteScheduler` does; `ReleaseControl`
extends `ShopFloor`. The ledgers of external contracts share the process and its
lock but no state; `Contracts` puts them side by side.

### StateStore

`memory[s]` is what process `s` holds, `db` and `bak` what the two files hold,
`request[s]` the write that `s` has in its hands between two steps. The
*contents* of a state are the set of updates applied to it: that is all that
lost updates, dirty reads and rollbacks need. `Handle`, `Save`, `SaveConflict`
and `Undo` are the branches of the middleware, `AtomicUpdate` and
`AtomicUpdateRefused` those of `atomic_update`, and `Backup` is
`_committed_outcome`. A handler and its save are separate steps, since another
process can commit in between; within a process the state lock makes requests
one at a time, which is the guard `Idle`. `Crash`, `Damage` and `Start` are the
environment and `__init__`. Until the first commit has been copied `bak` is
`NoBackup`: `__init__` initialises the database only, and on a damaged file
without a `.bak` it raises, so `Start` is disabled there.

### PlanningRunQueue

`run` is `planning_runs`, `executions` the `execute` requests whose solver is
working in some server thread, `leases` the tokens in somebody's hands. An
operator named for a past participle (`Claimed`, `Renewed`, `Recovered`,
`Finalized`...) is the record an operation leaves; the action of the same verb
has its guard. `Finalize`, `RefuseFinalization`, `FailFinalization` and
`Compensate` are the ends of an execution.

- Instants are kept as the time left until they pass. The code only compares
  them with the server's clock, and treats an absent instant as passed.
- Tokens are elements of `Token` that nobody else holds: 24 random bytes and
  their SHA-256 hash never collide.
- `queuedAt` is the rank of the client's `EnqueuedAt` in the text order that
  `min` uses; `MaxClientSkew` is how far ahead of the server's clock a client may
  put it, which delays the run, as in the code.
- Ghosts: `finalized` is `CompletedExecutionVersion`; nothing else is added.

### PlanningReservations

`frozen[r]` maps the batches a run selected to the records it copied, and
`ledger[b]` has the live ones. `Unmoved` is the compare-and-set on one record,
`Matches` on the whole graph, `StatusAfter` and `Traced` are the three loops of
`transition_planning_reservations_for_run`. A finalization is split by its
outcome: completed, completed without evidence of a reserved capacity line
(failed, and the graph moved as a failure), failed or dead-lettered, drifted.
The batch record itself is the part `"batch"`.

### OrderCommitment

`evaluations` is `order_commitment_evaluations` in the order they were made;
an evaluation keeps the message it is about, whether and with which snapshot
material was checked, its `facts`, and the decision. `facts` is what the code
compares when a decision arrives (`DecisionStalenessBasis` and
`DecisionFacts`): the window found and those considered, the ledger rows of
reservations in them, the material verdict, the snapshot and the allocations.
`Current` evaluates them again, as the decision handler does. `batch` is the
ledger as `BatchLifecycle` shows it; the window and the order of a batch are
those of the accepted evaluation with its DecisionID, as in the code, where the
DecisionID is the ConfirmationID. `contains[p]` is the part of plan `p`'s
schedule that comes from batches, and `Scheduled[p]` the rest of it.

- An order needs one unit of one constraint window and one unit of one material.
  Windows are numbered by the instant at which they end; the second half of a
  window that has begun is not told apart from the first. The facts of such a
  window carry the evaluation's own instant, so the code accepts nothing in it.
- Snapshots are numbered as captured and age in that order. Snapshots with a
  capture time in the future, and older ones that arrive late, are left out.
- Review and approval are one step, `Approved` stands for `Published` too, since
  both serve as baselines, and `Retired` for revoked and superseded.
- The identity of an evaluation contains the instant it was made
  (`CapacityAssessmentCutoffAt`), so two evaluations are never the same one.
- A decision that is repeated on a decided evaluation is answered and changes
  nothing; it is not an action. Acknowledgement of risks is a field of the
  request that only refuses.

### PlanningWorker

`proc[w].phase` is the place in `run_forever` and `run_once`, `beats` the
heartbeat threads, which end when stopped, with their process, or on a failure of
their own. `Claim` and
`ClaimAnswerLost` are one request with and without its answer; `SendExecute`,
`AnswerExecute` and `Raise` split the execute request at the moments at which
the server, the network or a timeout may intervene; `LeaveLoop` is the loop's
test of the stop event; `Kill` is the end of the process without any
`finally`. A renewal comes when its wait is over, or up to `MaxLateness` seconds
after: `PlanningRunWorkerConfig` demands that the heartbeat is shorter than the
lease, and how late a thread may run is the assumption under which that helps.

### CapacityCalendar, PlanningInputs, PlanPublication

A minute is a number, a day has `Day` of them and a week `Week` days. A window
is cut out of shifts, maintenance, days off and overrides by the same operations
on segments as in `scheduling_solver.py`; the property compares the result with
the documented priority of the rules, read minute by minute. Runs hold copies
(`frozen`) of what was in force when they were created, and `Solve` plans on the
copies. Assignments are a function from the places of a list, and a copy of the
active ones keeps their places, since the order decides where two apply. The plan of a run is
represented by the windows it was planned on. The only ghost is `shown`, the preview at the moment a run was created.

### FiniteScheduler

`Build` turns a request of resources, routings and orders into the problem of
`build_scheduling_problem`, with dates in minutes (`Offset`). `Schedules` are the
assignments that satisfy every constraint handed to CP-SAT, and `Answers` are
what the engine can then return: a schedule of least cost, any schedule or none
if the search has a limit, `Infeasible` if there is none, an error. CP-SAT itself
is trusted to be a solver. `Executable` does not look at the constraints: it says
what it takes to work by a plan, in ticks, of which `Minute` make a minute.

### ShopFloor, ReleaseControl

`events` is the list as it arrives; `Status`, variance, alerts, stability, buffer
board and dispatch are read from it as the code reads it, each with its own
sorting. An authorization carries whence it comes, a run or a replan request,
and the times of the schedule it was decided on. An order has one operation and
one resource. Completed runs do not change, and no run has the identity of a
request.

### ReplenishmentLedger

`Staged` is what an evaluation writes, `Stored` what the ledger holds, and both go
through the same validations as in the code, which are the guard `Recordable`:
what is there is validated before an evaluation is written, and what it is about
to leave after. Statuses are folded from events.
An item is short or it is not; the buffer equations are that one fact.

### DdsopExchange, EvidenceInbox, IntegrationInbox

A content stands for its fingerprint. `delivering` is the delivery in progress:
both messages are built before the first is posted, the posts are separate
steps, and the ledger is written at the end or, if the server dies, never.
`counted` is what DDAE has processed, by its own key. In `EvidenceInbox` a
message is judged by the errors in the order of the code, since the first decides
between a rejection and a dead letter; field checks are one flag of a message.
The contracts differ in what may stand in for a reference, and the checks keep
the differences. A stock message that corrects or replaces must name a package
that is known; an execution message that corrects may name a package, which is
looked up, or an event, which is not (`StockSupersessionErrors`,
`ExecutionSupersessionErrors`). Material rests on a known stock package or a known
authority, and whichever of the two is named must be known. A completion
(`completed`) needs a start known before, a late capture with its reconciliation
or, for an operation but not for a work order, a start stated in the same message.
What is started, and which packages, movements and events exist, the caller
tells; the model takes them from what was accepted.

## 3. What the runs check

| Run | Instance | States | Shows |
| --- | --- | --- | --- |
| `queue` | 1 run, 2 actors, 3 tokens, leases and claims of 2 s, 2 executions, 2 attempts | 90,000 | the safety of the queue, and that nothing is held for ever |
| `store_shared` | 2 processes, 3 updates, readable file, 1 failing backup | 800 | the safety of the store |
| `store_alone` | 1 process, 3 updates, 2 damages, 1 failing backup | 540 | what damage cannot lose |
| `store_restored` | 2 processes, 4 updates, 1 damage | violated | the first finding of section 6 |
| `reservations` | 3 runs, 2 batches of a capacity and a material line, 2 versions beyond the first | 6,100 | the safety of reservations |
| `commitment` | 2 orders, 4 messages, 2 decisions, 2 plans, 2 windows of capacity 1, 1 unit of material, 3 evaluations; two worlds: plans and reservations with 1 snapshot, or 2 snapshots and 1 instant | 915,000 | promises against plans, reservations, snapshots and time |
| `commitment_load` | as the first world, 2 units of material, 2 evaluations | violated | the second finding of section 6 |
| `worker` | 1 worker, 1 planner, 1 run, 3 tokens, lease of 3 s, heartbeat of 1 s, 1 s late, 2 executions | 119,000 | the worker over the queue |
| `contracts` | 3 configuration messages of 4, 1 package, 1 run, 2 deliveries; 4 evidence messages of 12; 3 requests on 2 items; 5 integration messages and 2 packages | 927,000 | the ledgers of external contracts |
| `release` | 2 orders, 1 run, 2 answers of the solver, 2 requests, 2 snapshots, 2 authorizations, 2 events or 3 lock commands | 23,000 | from a schedule to the floor |
| `inputs` | 2 resources, 2 days of 4 minutes, 4 calendars, 6 assignments, 5 overrides, 4 runs; 9 problems of up to 3 operations, with replans | 15,000 | rules, frozen runs, publication, schedules |
| `replan_begun` | as the schedules of `inputs` | violated | the third finding of section 6 |

Properties, with the question each answers:

- `NeverStranded`: can a run be `Running` with nothing that ever expires, or
  carry an execution token that blocks every later execution?
- `ReclaimableIffRefused`: `claim-next` looks at one set of fields, the
  finalization at another. Do they always agree on whose run it is?
- `CurrentOwnerUndisturbed`, `ImplementsExclusiveExecution`: can a late answer, a renewal, a takeover or a
  recovery reach a run that somebody else executes?
- `AbandonedLeaseEnds`, `AbandonedExecutionEnds`: is what a crashed worker or
  server held ever freed? The second is the direct execution, which has no lease.
- `ReadsAreCommitted`, `AcknowledgedIsStored`, `IfMatchHonoured`,
  `ImplementsAtomicStore`: do several processes behave as one?
- `AcknowledgedSurvivesDamage`: does the order of commit, backup and answer
  protect an acknowledged write? It does for one process. With two it does not:
  one that kept an older memory while the other restored the file may back the
  restored file up, so the run has one process.
- `OneHolder`: can two runs schedule the same batch, or move it
  in turns?
- `PartsAgree`: do batch, capacity and material records ever disagree?
- `HeldIsRecoverable`: can a failed run end up holding batches that it will be
  refused to finish?
- `ImplementsBatches`: what does a reader of nothing but status and version see?
- `DecisionsUnambiguous`, `DecisionsAreFinal`: can a message that comes late,
  twice or with other content, or an evaluation made in the meantime, leave two
  evaluations of an order open, accept an outdated version, or undo a decision?
  Can a DecisionID that is used again make two orders share one reservation?
- `ImplementsPromises`, `AllocatedWithinSupply`, `AcceptedOnValidEvidence`: a
  decision is taken on facts found earlier. Is what the code compares enough to
  notice that capacity, material, a snapshot or the window is gone by then?
- `ClaimsKept`: does a living heartbeat keep both the lease and the execution
  claim, and can a worker whose request timed out have a second solver started
  beside the first?
- `StopHonoured`, `EndedWorkersLetGo`: does a signal end a worker wherever it
  is, and is what an ended worker held given up for good?
- `VerdictsStand`: is a message that is repeated, mended or late ever given
  another verdict than the first of its key, in any inbox?
- `FrozenConfiguration`: the register entry of a configuration is overwritten by
  what is accepted next. Is what a run froze still something SDBR accepted under
  that name, complete when the run was created with it?
- `FeedbackIsTrue`: requests, answers and the ledger itself may be lost. Is a run
  counted once, about what it froze, and is what the ledger says so?
- `RestsOnAccepted`: can evidence be accepted that replaces, reverses, consumes or
  completes what was not accepted before it, where the contract allows nothing in
  its place (an authority, a reconciled late capture, an operation's own start)?
- `LedgerStaysValid`, `AuthorityUsedOnce`: can a sequence of evaluations make the
  workbench, a repeated request or the next evaluation answer 409 for ever, or
  advance a recommendation without a new fact?
- `RequestsSettled`, `AuthorizedAsDecided`, `ReleasedOnceInTime`: does a failure in
  the middle leave a request Running; do packages and authorizations go on
  speaking of the schedule they were decided on; is an order of a run released
  twice, early, or on an old snapshot?
- `ArrivalOrderIrrelevant`: do status, variance, alerts and locks depend
  on the order in which events arrived? (Only ties of EventAt may differ:
  the property compares arrivals of events at different instants.)
- `WindowsFollowPriority`: does the interval arithmetic lose or open a minute
  against the documented priority?
- `PlannedAsShown`: is a run ever planned on windows its planner did not see, and
  do the pages tell the truth about which rules apply?
- `OneInForce`: are two of a kind ever in force, and do superseded and
  superseding plans name each other?
- `ScheduleIsExecutable`, `InfeasibleIsTrue`: can the floor work by what the
  solver answers, also when part of an earlier plan was kept, and is a problem
  called infeasible that is not?

Bounds, and why they are enough. A run's record depends on other runs only
through which one `claim-next` picks, so one run shows every interleaving of
its own actors, and the theorems cover any number of runs; the order of the queue
only decides who waits. Two actors give an owner and a usurper; two
executions give one that is superseded and one that supersedes it, and three
tokens let a third claim find both on the way. Liveness is checked, so the run
declares no symmetry; a new token is the least that nobody has, which loses
nothing, since tokens are only compared for equality, lease tokens and execution
tokens each among themselves. Two seconds distinguish a fresh, a
half-spent and an expired lease. `AttemptCap` lies above every `MaxAttempts` and
saturates, `MaxExecutions` and `MaxVersion` stop growth. Two processes and
three updates give a stale memory, a commit it misses, and one more; with damage, a
fourth gives the backup that is one commit behind. Three runs
and two batches give overlapping selections in both directions, and three
versions let a run fail, be recovered and fail or finish again.
Two orders and two decisions compete for a window of one unit; one of the
orders has a second version with a later due window and a second content of the
first version; three evaluations are two that compete and one that replaces or
follows one of them. The plans and the passing of time are examined in two
worlds of one run, since a plan only changes what load an evaluation finds and
time only what it may rely on; a batch is held once before it is scheduled in the
first and not at all in the second.

A lease of three seconds with a heartbeat of one, a second late, is the tightest
that `WorkerAssumption` allows, and two executions are one that a worker lost
sight of and one after it; liveness is checked, so the run declares no symmetry.

`MCContracts`, `MCReleaseControl` and `MCPlanPublication` explore *worlds*: parts
of one system that do not act on each other within the bounds, chosen at the
start by a variable (`filled`, `world`), so that their states add up and do not
multiply. Each world is bounded by a condition named `Explored`. The messages of
`contracts` are chosen so that each check can fail alone: a key used for a draft
and then for an approved content, a conflicting message between an original and
its repetition, a completion before its start, a reversal before its movement,
two senders with one number. Four messages of evidence are a receipt, a start, the
completion that consumes the one and ends the other, and what replaces that. In `release` the solver may move an order or leave
it out, stock may be short or arrive late, and WIP may be full; `JumpThreshold`
is 0 and the zone ratios are the defaults of 33 and 67, so that one event is
enough to jump the queue. In `inputs` two days of four minutes hold shifts
and closures that touch, overlap, straddle midnight or are cut at either end, and eight minutes
are all there are, so the comparison minute by minute is complete. In its
schedules a minute has two ticks and a unit two shares, so that a plan may
begin between minutes and work may have a fraction; three operations make a
route, a shared resource with an alternate, and a replan that keeps one; a
limited search is asked for only at first, and after a replan nothing but the
refused problem is executed, since an answer does not depend on the answer before.

`reservations`, `commitment` and `commitment_load` turn the deadlock check off: runs that
are all completed or cancelled, or orders that are all decided with no snapshot,
plan or instant left within the bounds, are real ends. So do `store_alone` and
`store_restored`: when the file is damaged before the first backup, no process
that is down can start. The other runs keep it on.

Every property comes with a deviation of the code that breaks it, an operator
before the one it deviates from (`LeaseExpiredWithoutLease`, `SaveUnchecked`,
`UnmovedForAnyRun`...): the runs find each of them.

## 4. Fairness

`queue` and `worker` assume some.

In `queue`:

- `Tick`: time passes.
- `EndExecution` per run: an execute request ends, because the solver has a time
  limit (`TimeLimitSeconds`, 1 to 3600).
- `ReleaseLease` per run: `run_once` sets `heartbeat_stop` in a `finally`, so a
  worker does not renew a lease without end.
- `ClaimNext`: some worker polls. This is an assumption about the deployment, not
  a promise of the code: `run_forever` ends with the first request that answers
  409, so a supervisor must start workers again. Nothing else reclaims an
  expired run (`process-queued` takes queued runs only).

There is no fairness on `Finalize` as such, on the server staying up, or on a
particular worker.

In `worker` (`WorkerFairness`): time passes; a thread whose wait is over renews or
fails at last; an execute request ends, for the same reason as above; and a
process goes on with its loop. Here nothing obliges anybody to claim, so what an
ended worker held is only shown to be free to be claimed, which is all that the
code promises.

## 5. What is proved

TLAPS checks the following for every value of the constants, under the
assumptions named in the modules (`QueueAssumption`, `StoreAssumption`,
`ReservationAssumption`, `CommitmentAssumption`, `ReleaseAssumption`,
`InputsAssumption`, `HorizonAssumption`, `ExchangeAssumption`, `EvidenceAssumption`,
`ReplenishmentAssumption`, `WorkerAssumption`, `CalendarAssumption`,
`SchedulerAssumption`), which TLC evaluates in the runs of these modules.

**PlanningRunQueueProofs**: `TypeCorrect`, `NoRunStranded`,
`ExpiryTestsAgree`, `OnlyLatestClaimFinalizes`, `OwnerUndisturbed`,
`ImplementsExclusive`, `FollowsLifecycle`. `NeverStranded` is nearly inductive;
the others are not, because they speak of executions whose run has moved on.
The invariant (`RecordInv`) adds, per run, that no worker is named before the
run was queued, that the two expiries of an execution under a lease are equal,
and that `finalized` is never beyond `version`, and below it while an
execution token is there; across executions, that no two of them have the same
token (`OneTokenEach`). So an execution that owns its run is the only one that
does, and its result is the latest and the first of its version.

**StateStoreProofs**: `TypeCorrect`, `OnlyCommittedIsRead`, `AcknowledgedKept`,
`IfMatchIsHonoured`, `ImplementsStore`. `ServerInv` says what a memory is made
of: a committed state, plus the update in hand while a request is served.
`FilesInv` says that, while the file was never damaged, the file is the latest
of the committed states and no two committed states have the same revision;
hence equal revisions mean equal states and the comparison in `save` is
enough. `ImplementsStore` is therefore stated for `MaxDamage = 0`: with damage it
is false, which is the first finding. `OnlyCommittedIsRead` holds with damage too.
`AcknowledgedSurvives` is about one process and any number of damages: then memory,
between requests, is the file, and the backup always lies between what was
acknowledged before its last failure and the file (`AloneInv`), so that what
comes back from the backup has all of it.

**PlanningReservationsProofs**: `TypeCorrect`, `EachBatchConvertedOnce`,
`BatchesMoveWhole`, `HeldBatchesRecoverable`, `OnlyOneHolder`,
`BatchesKeepToTheirLife`. The invariant
says that what a run froze is always the batch as it was confirmed, and that
every batch is in one of three conditions: as confirmed, held by one failed or
recovered run together with the whole of that run's selection, or converted
by one completed run. Every action either leaves a batch alone or takes it from
one of these conditions to another, which is also why `BatchLifecycle` is implemented:
the batches of a run that moves them are all pending, and move together.

**OrderCommitmentProofs**: `NoDoubtWhatIsDecided`, `MaterialSuffices`,
`DecidedStaysDecided`, `EvidenceIsValid`, `PromisesAreKept`. The invariant `IInv`
ties every confirmed batch to exactly one acceptance (`LinkInv`): an evaluation
that is accepted names a batch no other evaluation names, so the window and the
order of a batch are functions of the batch. Beside it stand what each
evaluation looks like (`ListInv`, `StateInv`), that at most one of an order can
be decided (`DecidableInv`), and `AllocatedWithinSupply`, which is inductive with
them: an acceptance compares its facts with those found now (`FoundNow`), and
these count every allocation in the ledger. For the refinement of
`OrderPromises` the room in a window has to be counted: orders that wait for a
window are mapped one to one to reservations in it, so there are no more of
them than the facts of the acceptance counted.

**ReleaseControlProofs**: `RequestsAreSettled`, `DecisionsStand`,
`ReleasesAreOnceInTime`. Five parts, one per table: requests and schedules
agree (`RequestsInv`), snapshots are in the order of their times
(`SnapshotsInv`), packages and authorizations speak of a completed request
and its schedule, which nothing replaces (`TimelyInv`), the two checks of the
run path exclude a second authorization (`OnceInv`), and what was issued had
been authorized (`IssuedInv`). `ArrivalDoesNotMatter` compares lists that are
permutations of each other (`Shuffled`): a permutation carries the places of the
rows that are asked for to places of the same rows, and where all times differ the
code's choice of an earliest or latest row is decided by the time alone, whatever
it does about ties. Every figure of the report is a function of such choices and of
sets of rows. All it needs of the states is that times are integers (`TimedInv`).

**PlanPublicationProofs**: `OneOfAKind`, `RunsArePlannedAsShown`, `WindowsAreByPriority`. For the first, one part per table of which one row may be
in force, each inductive by itself; for plans, `RunInv` says that superseded and
superseding runs name each other and that a plan which is out never returns. For the
second, `ShownInv` says of every run that the plan it would get now, from its copies,
is the preview of the moment it was created. That rests on the data having
unique names (`RulesInv`, `DataInv`) and on lemmas about the operators: leaving
out the rules that are not active before applying them changes no window, the
calendar a resource works by is the same one in the list and in the copy, and the
latest version that a run names exists (a finite non-empty set of integers has a
greatest, by induction over finite sets).

For the third, the windows of a resource are computed step by step and each step is
shown to be what the rules say of a minute. The calendar that an assignment puts on
a resource is the one that governs it (`GoverningIs`); exclusions become its maintenance
and the other overrides its extra windows (`PreparedIs`, `ClosedIs`); what is left of a
segment after maintenance are disjoint segments that hold the other minutes and
no more (`MaintenanceTaken`), of a shift (`CutIs`, `BaseWindows`) as of the parts of an
extra window on each of its dates (`DayPartIs`, `SegmentsAre`). The minutes in disjoint
segments are as many as their lengths add up to (`MinutesCounted`), and what is
granted to them in the order of time adds up to the budget or to all the minutes there are,
whichever is less (`GrantsAddUp`), so an override opens what the property says
(`OpenedAsGranted`). Of the states it needs, beside `PlansInv` and `ShownInv`, that an
override ends after it starts (`OverridesInv`); of the constants, that times are
integers and those of a shift are times of a day, and that `Horizon` has every minute
of every override. Resources are found by name, so a resource whose name another one
of its version has is not spoken of.

About the scheduler: `AnswersCanBeCarriedOut`, `InfeasibleOnlyIfThereIsNone`. `AnswersInv` says that the rows
answered last are those of one of the schedules CP-SAT may choose for what was
asked. The rest is arithmetic. An order and an operation are found again under
the names of their row (`NamesIdentify`). A date cut to the minute is less than a
minute away from the date, a duration rounded up to minutes is enough at the
efficiency of the resource. A window of the solver stands for a bucket of the
calendar, and buckets are of whole minutes and none of them negative
(`BucketsCounted`), because what maintenance leaves of a segment are disjoint
segments within it (`MaintenanceTaken`). The minutes that rows spend in a bucket
are those their operations spend in its window: a sum over a finite set does not
depend on the order in which it is taken, nor on whether operations or their rows are
counted (`TotalIsSum`, `TotalMoves`). `SchedulerAssumption` says what the dataclasses
do: requests are finite and measured in whole numbers.

`InfeasibleOnlyIfThereIsNone` is the converse: a plan that can be carried out to the
minute gives a schedule that the solver may choose, so Infeasible is said only when
there is no such plan. A plan keeps every constraint of the solver (`DatesKept`,
`KeptKept`, `TurnKept`, `SharedKept`, `ChangeoverKept`, `RosterKept`): these read the
lemmas above in the other direction, which is exact because the plan is held to the
minute (`DateReached`). What may be wrong with it is that it ends beyond the horizon. The
horizon is the greatest of numbers that bound everything with a date, a kept place
or a window, plus the time all of the work takes on its slowest resources
(`AheadIs`). So an operation that ends after the horizon less that time has no
latest date, was not kept and is on no constraint with windows (`LateIsFree`); since
the problem is `Ordinary` it has no earliest date either. All such operations are put one
after another, in the order in which they began, into the time left for the work
(`PackingExists`, by induction over finite sets), which disturbs neither those
that stay nor the turn of an order nor the units of a resource (`DrawnTogether` and the
lemmas about what is `Drawn`). That the horizon adds the work to the greatest window,
date and place, and not only to the dates orders are due, is what the proof rests on
and the mutant of the property takes away. `AnswersInv` says for this that the rows of
the source and the places kept are finitely many and dated.

**ContractsProofs**, about the exchange: `FrozenConfigurationHolds`,
`FeedbackIsTrueHolds`, `KeysAreAnsweredAlike`. `FrozenInv`
says that whatever the register, the packages and the runs hold under a name was
accepted under it, and that what the register calls usable is complete; the
inbound list only grows and references are never deleted, so that stays true.
`ReportsInv` says of every message, waiting or counted, that its key is its type
and run and that it describes what the run froze; of every record, in the ledger
or still to be written, that DDAE has what it says was delivered; and that of
all records of a key, across both, one at most says Accepted. The last is why a
delivery that dies before its ledger is written does no harm. A key's answer is
that of its first message, and the first place of a key in a list that only
grows does not move.

About the inboxes: `MessagesRecordedOnce`, `EvidenceJudgedOnce`, `EvidenceRests`.
An evidence message is accepted only when its list of errors is empty, that is when each
check passed. A check that passed found the message referred to among those
accepted earlier in the list, where it stays, or found what the contract takes
instead: a known authority, which is never forgotten, or what the message itself
says of a late capture or of its start. Nothing is said of the event a
correction names, because no check looks it up.

About the replenishment ledger: `AuthorityUsedOnceHolds`, `LedgerStaysValidHolds`.
`LedgerInv` adds to the validations of the workbench what they leave unsaid and
all of them rest on (`Tended`): the ledger is finite, every event is about a
recorded chain or recommendation, and an event that supersedes names the next
version. So a new version finds its predecessor Blocked, a recommendation that
was superseded has no later event, and what one evaluation adds carries an EvaluationID no
earlier row has; hence every stored result still describes exactly its own rows, and the
validations after the next evaluation succeed whenever those before it do.
`VerdictsStandHolds` and `LedgerStaysValidHolds` are about `Contracts`: a step of
one ledger leaves the variables of the others alone.

**PlanningWorkerProofs**: `ClaimsAreKept`, `WorkersUseTheQueue`. The invariant `WInv`
stands on that of the queue. Of a thread (`BeatInv`) it says that its lease has
at least `LeaseSeconds - HeartbeatSeconds + left` seconds (`Covered`): a claim and a
renewal establish that with equality, a second takes one from both sides, and
the queue never gives a lease back that it took, so it holds whatever the status
of the run. Since a renewal is at most `MaxLateness` late, the bound is positive
by `WorkerAssumption`, and the expiry of the execution follows that of the lease by
`RecordInv`. Of a process (`ProcessInv`) it says that a worker which may claim, or has
its answer, has no solver, which is why one that cannot know must not claim again.
`WorkersUseTheQueue` makes every theorem about the queue one about the workers' queue.

Only model-checked: liveness (`AbandonedLeaseEnds`, `AbandonedExecutionEnds`,
`StopHonoured`, `EndedWorkersLetGo`), which is beyond the prover, as are the
counterexamples of section 6. Every other property of a passing run is proved.
Induction over finite sets, where a proof needs it, is stated for sets of sets
(`SubsetInduction`, `FiniteInduction`) and rests on the well-foundedness of the
numbers, since the library's theorems about predicates cannot be instantiated here.

## 6. Findings

**Revisions are used again.** `docs/backend-readiness-2026-06-19.md` says that cross-instance conflicts are
detected and answered with 409. `store_restored` shows a conflict that is
not. Two processes share a file. The first commits revision 1 and copies it to
the backup, then commits revision 2 and dies before it has copied that. The
second starts, loads revision 2 and begins a write. The file is damaged, the
first process starts again, restores the backup, which is at revision 1, and
commits another write, which becomes revision 2 again. The second process now
saves: the revisions are equal, no conflict is raised, and its state replaces the
commit of the first. Revision numbers identify states only as long as nobody goes
back to an old one. (Without the first backup there is no such story: a damaged
file without a `.bak` cannot be started from.)

**Load that nobody counts.** The design of the shared reservations says that
after a successful run a load is contributed by the scheduled operations alone,
instead of by its reservation. An evaluation counts the operations of the
approved or published plan that the message about the order names as its
baseline. `commitment_load` shows an order accepted and scheduled by the run its
acceptance queued; its reservation no longer counts. A second order is then
evaluated against the baseline of the first, which is still approved, finds the
window empty and is accepted into it. Publishing the new plan does not retire
the old one, because supersession goes by ProblemID and the runs that
acceptances queue have ProblemIDs of their own.

**A replan refuses what it is to keep.** `docs/backend-specification.md` says that
a replan fixes the operations of the previous plan up to the end of the freeze
window and keeps the arrangement of locked orders. `replan_begun` replans from a
minute at which the first operation of the previous plan has already begun. That
operation, locked or before the end of the window, is handed to the solver with
its start, and the validation refuses the whole problem, because the start lies
before that of the plan (`FIXED_START_BEFORE_SCHEDULE_START`). The test of the
freeze window replans from the very minute at which the first plan began. Once
production runs, any freeze window and any lock on a begun order has this effect.

### Observations

What modelling showed beyond the properties, each as the code has it and contradicted by
no document:

- Integration inbox: a mended message under the key of a refused one is
  reported a duplicate of it and stays a dead letter, and a request for replay
  marks the first message of that number, whoever sent it.
- Execution evidence: a correction that names an event only is accepted whether or
  not that event exists; `reversal_target_event_ids` has no counterpart for it.
- Release: an authorization from a replan request may come before the rope or be
  repeated, and an order can be authorized along both paths. The WIP gate compares
  each candidate with the same count. Of events at one instant, dispatch takes
  the first and the status the last. An approved replan request is found again by its
  identity whatever became of it.
- Planning inputs: an active assignment of a calendar that is not active retires
  the working one, and the preview names a calendar the resource does not work by.
  A run may use a draft or retired strategy or policy. Rollback publishes
  versions that are invalid. A failed run's rules are shown as applied in it.
- Scheduler: one order overdue by more than the horizon makes every schedule
  infeasible. The horizon does not count how long an operation waits for its
  earliest start, and counts each changeover once. A constraint without any
  window is unlimited in time. Minutes cut toward zero may put an operation up to a
  minute before its window. Two operations of one name pass the validation of the
  master data, and the solver answers with an error. The freeze window stored with
  a run is not applied when it is executed.

## 7. What is not modelled

- The search of CP-SAT, which is outside the repository: its answers are the
  schedules that satisfy the constraints. Outside `FiniteScheduler` and
  `ReleaseControl` no property depends on the plan a solver finds.
- `BaselineFiniteScheduler`, which only the stateless calculation uses.
- Light MRP, market and flow control, what-if calculations, DDOM metrics: functions
  of one request or of a finished plan; each requirement is compared with the
  whole stock and nothing is allocated or remembered, so that there is no
  behaviour to explore.
- Routes of several operations in the CCR shadow scheduler, and partial loads
  of a window: the promises do not depend on which window is found.
- Views, importers, demonstration data, Simio file exchange and the browser client.
- Runs of the paused solver backend, graphs of the older format and material
  taken over by an external authority: every handler refuses the first two, and
  nothing in the source writes the third.
- Authorization (but for the roles of publication), payload validation, audit
  events and wording of answers.
- The callers that build the resolvers of the evidence inboxes: they are not in
  the repository, and are modelled by what the inboxes ask of them.
- Two processes running the backup at the same time: SQLite's backup takes a
  consistent snapshot under its own locks, and is one step here.
- Everything `PROJECT.json` lists as `not_modelled`, with its reason.

## 8. Plan

What could follow, most consequential first.

1. *Composition of release with publication*: `ReleaseControl` takes completed
   runs as constants; with the runs of `PlanPublication` it could ask what
   becomes of authorizations when their plan is superseded.
2. *Routes* of several operations in `OrderCommitment`, with the search of
   `ccr_shadow_scheduler.py` as a recursive function compared with a definition
   that only says what a feasible allocation is.
3. *Several time zones* in `CapacityCalendar`, where a day may have 23 or 25
   hours.
