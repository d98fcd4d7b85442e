---------------------------- MODULE DdsopExchange ----------------------------
(***************************************************************************)
(* The exchange with the DDAE system (sdbr/ddsop_contracts.py,             *)
(* ddsop_delivery.py, ddsop_runtime_planning_input.py and their handlers   *)
(* in api.py).                                                             *)
(*                                                                         *)
(* DDAE sends operating model configurations and runtime packages; its     *)
(* messages may arrive late, again and in any order.  A planning run       *)
(* freezes the configuration of the moment.  Feedback about a run is       *)
(* posted to DDAE inside one request, two messages one after the other;    *)
(* either may be lost on its way there or its answer on the way back, and  *)
(* the server may die before the ledger of deliveries is stored.           *)
(*                                                                         *)
(* A fingerprint is a collision-free function of the content, so a content *)
(* stands for its fingerprint.  The version number and the effective dates *)
(* of a configuration are compared with nothing and are left out.          *)
(***************************************************************************)
EXTENDS Naturals, Sequences, FiniteSetsExt

CONSTANTS
  Message,        \* the configuration messages DDAE ever sends
  Package,        \* the runtime packages DDAE ever sends
  Master,         \* a function: what each valid master-data version contains
  Reference,      \* policies, strategies and calendars of SDBR
  Run,
  NoConfig,       \* a run created without a configuration
  MaxInbound,     \* bound: configuration messages received
  MaxPosts        \* bound: delivery requests

ASSUME ExchangeAssumption == MaxInbound \in Nat /\ MaxPosts \in Nat

VARIABLES
  known,          \* references created in SDBR so far
  inbound,        \* ddsop_config_inbound_messages
  configurations, \* operating_model_configurations
  packages,       \* ddsop_runtime_planning_input_packages, by package ID
  packageKeys,    \* idempotency keys of the package messages received
  runs,           \* planning_runs
  delivering,     \* the delivery request in progress
  posts,          \* how many were begun
  ledger,         \* ddsop_feedback_outbound_messages
  counted         \* external: the feedback DDAE has processed

exchange == <<known, inbound, configurations, packages, packageKeys, runs>>
delivery == <<delivering, posts, ledger, counted>>
exchangeVars == <<exchange, delivery>>

NoDelivery == [run |-> NoConfig, queue |-> <<>>, records |-> <<>>]
NoRecord == [config |-> NoConfig]

ExchangeInit ==
  /\ known = {}
  /\ inbound = <<>>
  /\ configurations = [c \in {} |-> NoRecord]
  /\ packages = [p \in {} |-> NoRecord]
  /\ packageKeys = {}
  /\ runs = [r \in {} |-> NoRecord]
  /\ delivering = NoDelivery /\ posts = 0
  /\ ledger = <<>> /\ counted = <<>>

\* The state lock: a write waits for the one in progress.
Idle == delivering = NoDelivery

-----------------------------------------------------------------------------
(* Receiving a configuration.                                               *)

\* What a content says must hold together: every buffer profile it assigns is
\* one it defines.  Ratios, zone orders and dates are of the same kind.
Consistent(content) == content.assigned \subseteq content.profiles

Acceptable(m) ==
  /\ m.wellFormed
  /\ m.seal = m.content
  /\ m.content.approved
  /\ Consistent(m.content)

Pending(content) == content.local \ known

Answer(key, status, usable, config, content) ==
  [key |-> key, status |-> status, usable |-> usable, config |-> config, content |-> content]

\* Deviation: a key whose message was rejected may be used again.
PreviousAccepted(key) ==
  {i \in DOMAIN inbound : inbound[i].key = key /\ inbound[i].status # "Rejected"}

\* The answers given to this key before; the first is the one that is repeated.
Previous(key) == {i \in DOMAIN inbound : inbound[i].key = key}

AnswerTo(m) ==
  IF Previous(m.key) # {}
  THEN LET first == inbound[Min(Previous(m.key))]
       IN  Answer(m.key, "Duplicate", first.usable, first.config, first.content)
  ELSE IF ~Acceptable(m)
  THEN Answer(m.key, "Rejected", FALSE, NoConfig, NoConfig)
  ELSE IF Pending(m.content) # {}
  THEN Answer(m.key, "AcceptedPendingReferences", FALSE, m.config, m.content)
  ELSE Answer(m.key, "Accepted", TRUE, m.config, m.content)

Accepting == {"Accepted", "AcceptedPendingReferences"}

\* POST ddsop/config-inbound
ReceiveConfiguration(m) ==
  /\ Idle
  /\ Len(inbound) < MaxInbound
  /\ LET a == AnswerTo(m) IN
     /\ inbound' = Append(inbound, a)
     /\ configurations' =
          IF a.status \in Accepting
          THEN [c \in DOMAIN configurations \cup {m.config} |->
                  IF c = m.config THEN [content |-> m.content, usable |-> a.usable]
                  ELSE configurations[c]]
          ELSE configurations
  /\ UNCHANGED <<known, packages, packageKeys, runs, delivery>>

\* A policy, strategy or calendar is created; none is ever deleted.
CreateReference(ref) ==
  /\ Idle
  /\ known' = known \cup {ref}
  /\ UNCHANGED <<inbound, configurations, packages, packageKeys, runs, delivery>>

-----------------------------------------------------------------------------
(* Runtime packages.                                                        *)

\* Deviation: the package need only name a configuration SDBR has.
NamesConfiguration(p) == p.config \in DOMAIN configurations

\* The package was made for the configuration SDBR holds now.
MatchesConfiguration(p) ==
  /\ p.config \in DOMAIN configurations
  /\ configurations[p.config].content = p.content

ReceivePackage(p) ==
  /\ Idle
  /\ p.key \notin packageKeys
  /\ packageKeys' = packageKeys \cup {p.key}
  /\ packages' =
       IF MatchesConfiguration(p)
       THEN [i \in DOMAIN packages \cup {p.id} |-> IF i = p.id THEN p ELSE packages[i]]
       ELSE packages
  /\ UNCHANGED <<known, inbound, configurations, runs, delivery>>

-----------------------------------------------------------------------------
(* Planning runs.                                                           *)

FrozenRun(c, content, master, path) ==
  [config |-> c, content |-> content, master |-> master, path |-> path, status |-> "Queued"]

WithRun(r, record) ==
  [x \in DOMAIN runs \cup {r} |-> IF x = r THEN record ELSE runs[x]]

Resolved(content, master) == content.master \subseteq Master[master]

\* Deviation: whatever the register holds may be frozen.
UsableAnyway(c) == c \in DOMAIN configurations

Usable(c) == c \in DOMAIN configurations /\ configurations[c].usable

\* POST planning-runs, with a configuration
CreateRun(r, c, master) ==
  /\ Idle
  /\ r \notin DOMAIN runs
  /\ Usable(c)
  /\ Resolved(configurations[c].content, master)
  /\ runs' = WithRun(r, FrozenRun(c, configurations[c].content, master, "Config"))
  /\ UNCHANGED <<known, inbound, configurations, packages, packageKeys, delivery>>

\* POST planning-runs, without one
CreateLegacyRun(r, master) ==
  /\ Idle
  /\ r \notin DOMAIN runs
  /\ runs' = WithRun(r, FrozenRun(NoConfig, NoConfig, master, "Legacy"))
  /\ UNCHANGED <<known, inbound, configurations, packages, packageKeys, delivery>>

\* A caller of the library freezes a package into the run.
FreezePackage(r, i) ==
  /\ Idle
  /\ i \in DOMAIN packages
  /\ packages[i].bounded
  /\ r \in DOMAIN runs
  /\ runs[r].path # "Package"
  /\ runs' = [runs EXCEPT ![r].config = packages[i].config,
                          ![r].content = packages[i].content,
                          ![r].path = "Package"]
  /\ UNCHANGED <<known, inbound, configurations, packages, packageKeys, delivery>>

FinishRun(r) ==
  /\ Idle
  /\ r \in DOMAIN runs
  /\ runs[r].status = "Queued"
  /\ runs' = [runs EXCEPT ![r].status = "Completed"]
  /\ UNCHANGED <<known, inbound, configurations, packages, packageKeys, delivery>>

-----------------------------------------------------------------------------
(* Feedback.                                                                *)

\* Deviation: what happened meanwhile is reported under another key.
StatusKey(type, r) == <<type, r, runs[r].status>>

FeedbackKey(type, r) == <<type, r>>

\* Deviation: the report describes the configuration in the register.
RegisterContent(r) ==
  IF runs[r].config \in DOMAIN configurations
  THEN configurations[runs[r].config].content ELSE runs[r].content

ReportedContent(r) == runs[r].content

Feedback(type, r) ==
  [key |-> FeedbackKey(type, r), type |-> type, run |-> r, status |-> runs[r].status,
   config |-> runs[r].config, content |-> ReportedContent(r)]

\* POST ddsop/feedback/runs/{run_id}/deliver: both messages are built first.
BeginDelivery(r) ==
  /\ Idle
  /\ posts < MaxPosts
  /\ r \in DOMAIN runs
  /\ runs[r].config # NoConfig
  /\ posts' = posts + 1
  /\ delivering' = [run |-> r,
                    queue |-> <<Feedback("PlanningRun", r), Feedback("Variance", r)>>,
                    records |-> <<>>]
  /\ UNCHANGED <<exchange, ledger, counted>>

\* External: DDAE processes a key once and answers Duplicate from then on.
Counts(m) == \A i \in DOMAIN counted : counted[i].key # m.key
DdaeAnswer(m) == IF Counts(m) THEN "Accepted" ELSE "Duplicate"

\* Deviation: no answer is taken for a good one.
RecordOfAny(m, outcome) ==
  [key |-> m.key, status |-> IF outcome = "answered" THEN DdaeAnswer(m) ELSE "Accepted"]

RecordOf(m, outcome) ==
  [key |-> m.key, status |-> IF outcome = "answered" THEN DdaeAnswer(m) ELSE "Failed"]

\* One post.  Without an answer, DDAE may have processed the message or not.
Post(outcome) ==
  /\ delivering.queue # <<>>
  /\ LET m == Head(delivering.queue) IN
     /\ counted' = IF outcome # "request lost" /\ Counts(m) THEN Append(counted, m) ELSE counted
     /\ delivering' = [delivering EXCEPT !.queue = Tail(@),
                                         !.records = Append(@, RecordOf(m, outcome))]
  /\ UNCHANGED <<exchange, posts, ledger>>

Outcome == {"answered", "request lost", "answer lost"}

EndDelivery ==
  /\ delivering.queue = <<>> /\ ~Idle
  /\ ledger' = ledger \o delivering.records
  /\ delivering' = NoDelivery
  /\ UNCHANGED <<exchange, posts, counted>>

\* The server dies, or the store refuses the write: nothing is in the ledger.
LoseDelivery ==
  /\ ~Idle
  /\ delivering' = NoDelivery
  /\ UNCHANGED <<exchange, posts, ledger, counted>>

ExchangeNext ==
  \/ \E m \in Message : ReceiveConfiguration(m)
  \/ \E ref \in Reference : CreateReference(ref)
  \/ \E p \in Package : ReceivePackage(p)
  \/ \E r \in Run, m \in DOMAIN Master :
       \/ \E c \in DOMAIN configurations : CreateRun(r, c, m)
       \/ CreateLegacyRun(r, m)
  \/ \E r \in Run, i \in DOMAIN packages : FreezePackage(r, i)
  \/ \E r \in Run : FinishRun(r) \/ BeginDelivery(r)
  \/ \E o \in Outcome : Post(o)
  \/ EndDelivery
  \/ LoseDelivery

ExchangeSpec == ExchangeInit /\ [][ExchangeNext]_exchangeVars

-----------------------------------------------------------------------------
(* Correctness.                                                             *)

\* However often and whenever a configuration message is delivered, also with
\* other content under the same key, DDAE gets the same verdict: the first
\* answer decides, and the register follows it (duplicate_record).
KeyAnsweredAlike ==
  \A i, j \in DOMAIN inbound :
    i < j /\ inbound[i].key = inbound[j].key =>
      /\ inbound[j].status = "Duplicate"
      /\ inbound[j].usable = inbound[i].usable
      /\ inbound[j].config = inbound[i].config
      /\ inbound[j].content = inbound[i].content

\* What a run created with a configuration froze is approved, consistent and
\* wholly resolved, in SDBR and in its master data, whatever has replaced the
\* configuration since (the checks of planner_workbench_planning_run_create).
FrozenIsResolved ==
  \A r \in DOMAIN runs :
    runs[r].path = "Config" =>
      /\ runs[r].content.approved /\ Consistent(runs[r].content)
      /\ runs[r].content.local \subseteq known
      /\ Resolved(runs[r].content, runs[r].master)

\* The configuration a run names, frozen directly or through a package, is one
\* that DDAE was told SDBR accepted under that name.
FrozenWasAccepted ==
  \A r \in DOMAIN runs :
    runs[r].config # NoConfig =>
      \E i \in DOMAIN inbound :
        /\ inbound[i].status \in Accepting
        /\ inbound[i].config = runs[r].config /\ inbound[i].content = runs[r].content

\* What DDAE has processed about a run describes the configuration the run
\* froze, not the one that replaced it in the register (unless a package was
\* frozen into the run since).
FeedbackNamesFrozen ==
  \A i \in DOMAIN counted :
    LET m == counted[i] IN
    runs[m.run].path # "Package" => m.config = runs[m.run].config /\ m.content = runs[m.run].content

\* A run is counted once in each kind of feedback, over lost requests, lost
\* answers, lost ledgers and repeated deliveries (the idempotency keys).
CountedOnce ==
  \A i, j \in DOMAIN counted :
    counted[i].type = counted[j].type /\ counted[i].run = counted[j].run => i = j

\* The ledger is believed: what it calls delivered, DDAE has; and of all its
\* records of a message at most one says that this attempt was the one.
LedgerIsTrue ==
  /\ \A i \in DOMAIN ledger :
       ledger[i].status \in {"Accepted", "Duplicate"} =>
         \E j \in DOMAIN counted : counted[j].key = ledger[i].key
  /\ \A i, j \in DOMAIN ledger :
       ledger[i].key = ledger[j].key /\ ledger[i].status = "Accepted" /\ ledger[j].status = "Accepted"
         => i = j

\* A run keeps a configuration that was accepted under its name and, if it was
\* created with it, was complete at that moment.
FrozenConfiguration == FrozenIsResolved /\ FrozenWasAccepted

\* What DDAE learns of a run is about the configuration the run froze, is
\* counted once, and is what the ledger of deliveries says.
FeedbackIsTrue == FeedbackNamesFrozen /\ CountedOnce /\ LedgerIsTrue
=============================================================================
