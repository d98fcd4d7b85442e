------------------------- MODULE ReplenishmentLedger -------------------------
(***************************************************************************)
(* The DDMRP replenishment ledger (sdbr/ddmrp_replenishment.py) and the    *)
(* handler that writes it, POST /planner/workbench/ddmrp/evaluations.      *)
(*                                                                         *)
(* An evaluation reads an accepted runtime package, the operating model    *)
(* the package was made for and the planning reservations of its items,    *)
(* and records a run, a row per item, and for every item that is Red or     *)
(* Yellow a new version of a recommendation on the item's replenishment    *)
(* chain, which supersedes the version before.  Statuses are not stored:   *)
(* they are folded from events.  The result of each request is stored with  *)
(* the identities of all it wrote, and a repeated request is answered from  *)
(* it, if what it names is still exactly what the ledger holds.            *)
(*                                                                         *)
(* Fingerprints and canonical identifiers are collision-free functions of   *)
(* what they are made of, so a record stands for its own identifier.  No    *)
(* code makes a recommendation actionable or ends a chain, so the active    *)
(* graphs are empty and only three types of events occur.                  *)
(***************************************************************************)
EXTENDS Naturals, FiniteSets

CONSTANTS
  Item,             \* item/location pairs with a stock buffer
  RuntimePackage,   \* identifiers of runtime planning input packages
  Configuration,    \* fingerprints of operating models
  Request,          \* EvaluationRequestIDs
  MaxSnapshot,      \* bound: instants of the runtime snapshots, 1..MaxSnapshot
  MaxReservationChanges  \* bound: changes of the planning reservations

\* There are finitely many items, and an item is not what identifies a chain.
ASSUME ReplenishmentAssumption ==
  /\ MaxSnapshot \in Nat \ {0} /\ MaxReservationChanges \in Nat
  /\ IsFiniteSet(Item) /\ \A i \in Item : i \notin Item \X (Nat \ {0})

VARIABLES
  configuration,  \* the operating model all packages name
  runtimePackages,  \* the accepted runtime packages
  reservations,   \* RecordVersions of the reservations for these items
  evaluationRuns, \* evaluation runs, by EvaluationID
  rows,           \* evaluation rows
  chains,         \* replenishment chains
  recs,           \* recommendation versions
  events,         \* the event ledger
  results         \* request results, by EvaluationRequestID

written == <<evaluationRuns, rows, chains, recs, events, results>>
ledgerVars == <<configuration, runtimePackages, reservations, written>>

\* What a package says: when its snapshot was taken, for which model, and
\* which items it shows Red or Yellow with a quantity to order.
Content == [at: 1..MaxSnapshot, config: Configuration, short: SUBSET Item]

\* The authority signature with the snapshot time is the EvaluationID.
Evaluation == [package: RuntimePackage, content: Content, ledger: 0..MaxReservationChanges]

Chain == [item: Item, cycle: Nat \ {0}, openedBy: Evaluation]
ChainID(c) == <<c.item, c.cycle>>
Recommendation == [chain: Item \X (Nat \ {0}), version: Nat \ {0},
                   evaluation: Evaluation, predecessor: Nat]
RecommendationID(r) == <<r.chain, r.version>>

NoStatus == "None"
Superseding == "RecommendationSuperseded"

\* Events of chains have no recommendation; of is the aggregate.
Event == [type: {"ReplenishmentChainOpened", "RecommendationVersionCreated", Superseding},
          of: (Item \X (Nat \ {0})) \cup ((Item \X (Nat \ {0})) \X (Nat \ {0})),
          version: Nat \ {0}, evaluation: Evaluation, request: Request,
          related: Nat,             \* version of the related recommendation
          before: {NoStatus, "Blocked"}, after: {"Open", "Blocked", "Superseded"}]

LedgerInit ==
  /\ configuration \in Configuration
  /\ runtimePackages = [p \in {} |-> {}]
  /\ reservations = 0
  /\ evaluationRuns = {} /\ rows = {} /\ chains = {} /\ recs = {} /\ events = {}
  /\ results = [q \in {} |-> {}]

-----------------------------------------------------------------------------
(* Folding and validating a ledger.  The validators take the ledger they    *)
(* look at as an argument L: a record of the written variables.            *)

Stored == [runs |-> evaluationRuns, rows |-> rows, chains |-> chains, recs |-> recs, events |-> events]

EventsOf(L, id) == {e \in L.events : e.of = id}

\* _fold_status accepts the aggregate's events.
Folds(L, id, creation, initial) ==
  LET es == EventsOf(L, id)
  IN  /\ es # {}
      /\ {e.version : e \in es} = 1..Cardinality(es)
      /\ \A e \in es :
           IF e.version = 1
           THEN e.type = creation /\ e.before = NoStatus /\ e.after = initial
           ELSE /\ e.type = Superseding /\ e.before = "Blocked"
                /\ \E p \in es : p.version = e.version - 1 /\ p.after = e.before

Status(L, id) ==
  LET es == EventsOf(L, id)
  IN  (CHOOSE e \in es : \A o \in es : o.version <= e.version).after

\* Every validator first looks at the contract of each record.
ChainsValid(L) ==
  /\ L.chains \subseteq Chain
  /\ \A c \in L.chains : Folds(L, ChainID(c), "ReplenishmentChainOpened", "Open")
  /\ \A c, d \in L.chains : c.item = d.item => c = d     \* no chain ends

OnChain(L, id) == {r \in L.recs : r.chain = id}

RecommendationsValid(L) ==
  /\ L.recs \subseteq Recommendation
  /\ \A r \in L.recs :
       /\ \E c \in L.chains : ChainID(c) = r.chain
       /\ Folds(L, RecommendationID(r), "RecommendationVersionCreated", "Blocked")
  /\ \A c \in L.chains :
       LET on == OnChain(L, ChainID(c))
       IN  /\ {r.version : r \in on} = 1..Cardinality(on)
           /\ \A r \in on :
                /\ r.predecessor = r.version - 1
                /\ r.version > 1 =>
                     Cardinality({e \in L.events :
                       /\ e.type = Superseding /\ e.of = <<r.chain, r.predecessor>>
                       /\ e.related = r.version}) = 1

EventReferencesValid(L) ==
  /\ L.events \subseteq Event
  /\ \A e \in L.events :
       /\ e.type = "RecommendationVersionCreated" =>
            \E r \in L.recs : RecommendationID(r) = e.of /\ e.related = r.predecessor
       /\ e.type = Superseding =>
            \E r \in L.recs :
              /\ RecommendationID(r) = <<e.of[1], e.related>>
              /\ e.evaluation = r.evaluation

\* _validate_persisted_evaluation_result_graph: what the result names is what
\* the ledger has of that evaluation, no more and no less.
ResultValid(L, q, r) ==
  /\ \E x \in L.runs : x.evaluation = r.evaluation /\ x.request = q
  /\ ChainsValid(L) /\ RecommendationsValid(L) /\ EventReferencesValid(L)
  /\ r.rows = {row \in L.rows : row.evaluation = r.evaluation}
  /\ r.created = {ChainID(c) : c \in {c \in L.chains : c.openedBy = r.evaluation}}
  /\ r.recs = {RecommendationID(x) : x \in {x \in L.recs : x.evaluation = r.evaluation}}
  /\ r.events = {e \in L.events : e.evaluation = r.evaluation}
  /\ r.created \cap r.reused = {}
  /\ {id[1] : id \in r.recs} = r.created \cup r.reused
  /\ r.recs = {row.rec : row \in r.rows} \ {<<>>}
  /\ \A e \in r.events :
       /\ e.request = q
       /\ e.type = Superseding => <<e.of[1], e.related>> \in r.recs

\* The further validators of the workbench view.
WorkbenchValid(L) ==
  /\ ChainsValid(L) /\ RecommendationsValid(L) /\ EventReferencesValid(L)
  /\ \A row \in L.rows : \E x \in L.runs : x.evaluation = row.evaluation
  /\ \A c \in L.chains :
       \E r \in OnChain(L, ChainID(c)) : r.version = 1 /\ r.evaluation = c.openedBy
  /\ \A r \in L.recs :
       [evaluation |-> r.evaluation, item |-> r.chain[1], rec |-> RecommendationID(r)] \in L.rows
  /\ \A e \in L.events :
       \E x \in L.runs : x.evaluation = e.evaluation /\ x.request = e.request
  /\ \A c \in L.chains :
       Cardinality({r \in OnChain(L, ChainID(c)) :
                      Status(L, RecommendationID(r)) # "Superseded"}) <= 1

-----------------------------------------------------------------------------
(* prepare_ddmrp_evaluation                                                *)

\* _select_or_create_chain for the items that need one.
OpenChain(i) == {c \in chains : c.item = i}
NewChain(i, ev) == [item |-> i, cycle |-> 1, openedBy |-> ev]
ChainFor(i, ev) ==
  IF OpenChain(i) = {} THEN NewChain(i, ev) ELSE CHOOSE c \in OpenChain(i) : TRUE

\* The highest version on a chain, 0 if there is none.
LastVersion(id) == Cardinality(OnChain(Stored, id))

NewRecommendation(i, ev) ==
  LET id == ChainID(ChainFor(i, ev))
  IN  [chain |-> id, version |-> LastVersion(id) + 1, evaluation |-> ev,
       predecessor |-> LastVersion(id)]

ChainEvent(i, ev, q) ==
  [type |-> "ReplenishmentChainOpened", of |-> ChainID(NewChain(i, ev)), version |-> 1,
   evaluation |-> ev, request |-> q, related |-> 0, before |-> NoStatus, after |-> "Open"]

CreationEvent(r, q) ==
  [type |-> "RecommendationVersionCreated", of |-> RecommendationID(r), version |-> 1,
   evaluation |-> r.evaluation, request |-> q, related |-> r.predecessor,
   before |-> NoStatus, after |-> "Blocked"]

\* The predecessor's next event, made by the evaluation that supersedes it.
SupersessionEvent(r, q) ==
  IF r.predecessor = 0 THEN {} ELSE
  LET old == <<r.chain, r.predecessor>>
  IN  {[type |-> Superseding, of |-> old,
        version |-> Cardinality(EventsOf(Stored, old)) + 1,
        evaluation |-> r.evaluation, request |-> q, related |-> r.version,
        before |-> Status(Stored, old), after |-> "Superseded"]}

NewRow(i, ev) ==
  [evaluation |-> ev, item |-> i,
   rec |-> IF i \in ev.content.short THEN RecommendationID(NewRecommendation(i, ev)) ELSE <<>>]

\* Deviations of RowsWith: the rows that asked for nothing, or those whose
\* recommendation is superseded, are pruned by the next evaluation.
RowsWithPruned(ev) == {row \in rows : row.rec # <<>>} \cup {NewRow(i, ev) : i \in Item}
RowsWithCurrent(ev) ==
  {row \in rows : row.item \notin ev.content.short \/ row.rec = <<>>}
    \cup {NewRow(i, ev) : i \in Item}

\* Rows are stored by evaluation and item.
RowsWith(ev) == rows \cup {NewRow(i, ev) : i \in Item}

\* The write set, merged into the ledger as stage_ddmrp_evaluation does.
Staged(ev, q) ==
  LET short == ev.content.short
      new == {NewRecommendation(i, ev) : i \in short}
  IN  [runs |-> evaluationRuns \cup {[evaluation |-> ev, request |-> q]},
       rows |-> RowsWith(ev),
       chains |-> chains \cup {NewChain(i, ev) : i \in {i \in short : OpenChain(i) = {}}},
       recs |-> recs \cup new,
       events |-> events
         \cup {ChainEvent(i, ev, q) : i \in {i \in short : OpenChain(i) = {}}}
         \cup {CreationEvent(r, q) : r \in new}
         \cup UNION {SupersessionEvent(r, q) : r \in new}]

Result(L, ev) ==
  LET mine == {r \in L.recs : r.evaluation = ev}
      made == {ChainID(c) : c \in {c \in L.chains : c.openedBy = ev}}
  IN  [evaluation |-> ev,
       rows |-> {row \in L.rows : row.evaluation = ev},
       created |-> made, reused |-> {r.chain : r \in mine} \ made,
       recs |-> {RecommendationID(r) : r \in mine},
       events |-> L.events \ events]

\* Deviation of NotRecorded: the collision is not looked for.
NeverRecorded(ev) == TRUE

\* Nothing of the write set is in the ledger under another request
\* (ORPHAN_DDMRP_EVALUATION_CHILD).
NotRecorded(ev) == \A x \in evaluationRuns : x.evaluation # ev

-----------------------------------------------------------------------------
(* The handler.  A request that was recorded is answered from its result    *)
(* and a refused one changes nothing, so neither is a step.                *)

\* The code validates what it has before it writes and what it is about to have.
Recordable(ev, q) ==
  /\ ChainsValid(Stored) /\ RecommendationsValid(Stored) /\ EventReferencesValid(Stored)
  /\ ResultValid(Staged(ev, q), q, Result(Staged(ev, q), ev))

EvaluationOf(p) == [package |-> p, content |-> runtimePackages[p], ledger |-> reservations]

Evaluate(q, p) ==
  /\ q \notin DOMAIN results
  /\ p \in DOMAIN runtimePackages
  /\ runtimePackages[p].config = configuration        \* build_read_only_authority_signature
  /\ NotRecorded(EvaluationOf(p))
  /\ Recordable(EvaluationOf(p), q)
  /\ LET ev == EvaluationOf(p)
         L == Staged(ev, q)
     IN  /\ evaluationRuns' = L.runs /\ rows' = L.rows /\ chains' = L.chains
         /\ recs' = L.recs /\ events' = L.events
         /\ results' = [r \in DOMAIN results \cup {q} |->
                          IF r = q THEN Result(L, ev) ELSE results[r]]
  /\ UNCHANGED <<configuration, runtimePackages, reservations>>

\* An accepted package message; a package that is sent again under its
\* identifier replaces what was stored.
ReceiveRuntimePackage(p, content) ==
  /\ content.config = configuration
  /\ runtimePackages' = [x \in DOMAIN runtimePackages \cup {p} |-> IF x = p THEN content ELSE runtimePackages[x]]
  /\ UNCHANGED <<configuration, reservations, written>>

\* An operating model arrives under the identifier the packages name.
ReplaceConfiguration(f) ==
  /\ f # configuration
  /\ configuration' = f
  /\ UNCHANGED <<runtimePackages, reservations, written>>

\* Reservations come, go and move; their versions never return.
ReservationsChange ==
  /\ reservations < MaxReservationChanges
  /\ reservations' = reservations + 1
  /\ UNCHANGED <<configuration, runtimePackages, written>>

LedgerNext ==
  \/ \E q \in Request, p \in RuntimePackage : Evaluate(q, p)
  \/ \E p \in RuntimePackage, content \in Content : ReceiveRuntimePackage(p, content)
  \/ \E f \in Configuration : ReplaceConfiguration(f)
  \/ ReservationsChange

LedgerSpec == LedgerInit /\ [][LedgerNext]_ledgerVars

-----------------------------------------------------------------------------

\* A request that was recorded can be repeated for ever: whatever later
\* evaluations supersede, open or reuse, the validation of its stored result
\* still finds exactly what it wrote.
RepeatedRequestsAnswered ==
  \A q \in DOMAIN results : ResultValid(Stored, q, results[q])

\* The workbench can always be read: no sequence of evaluations, in whatever
\* order packages, models and reservations changed between them, leaves a
\* ledger that the view refuses with 409.
WorkbenchReadable == WorkbenchValid(Stored)

\* An evaluation that is due is never refused for the state of the ledger: the
\* validations before and after it accept whatever evaluations left behind.
EvaluationsAccepted ==
  \A q \in Request \ DOMAIN results, p \in DOMAIN runtimePackages :
    runtimePackages[p].config = configuration /\ NotRecorded(EvaluationOf(p)) =>
      Recordable(EvaluationOf(p), q)

\* What the system knew is evaluated once: two requests never record the same
\* authority, and so never advance a recommendation without a new fact.
AuthorityUsedOnce ==
  \A x, y \in evaluationRuns : x.evaluation = y.evaluation => x = y
=============================================================================
