----------------------------- MODULE MCContracts -----------------------------
(* Instances of Contracts.  The ledgers share no state, so a behaviour of     *)
(* the instance fills one of them; which one is chosen at the start.          *)
EXTENDS Contracts, TLC

-----------------------------------------------------------------------------
(* The exchange.                                                             *)

\* Two contents of one configuration.  The second needs a policy and a resource.
Plain == [approved |-> TRUE, profiles |-> {"A"}, assigned |-> {"A"}, local |-> {}, master |-> {}]
Demanding == [Plain EXCEPT !.local = {"policy"}, !.master = {"drum"}]
Draft == [Plain EXCEPT !.approved = FALSE]
Broken == [Plain EXCEPT !.assigned = {"B"}]

Sent(key, content, seal, wellFormed) ==
  [key |-> key, config |-> "model", content |-> content, seal |-> seal, wellFormed |-> wellFormed]

\* A key used for a draft and then for an approved content; a key used for a
\* content that is broken, sealed with another fingerprint or malformed.
Messages == {
  Sent("k1", Plain, Plain, TRUE), Sent("k2", Demanding, Demanding, TRUE),
  Sent("k2", Draft, Draft, TRUE), Sent("k1", Broken, Broken, TRUE)}

Packages == {
  [id |-> "p", key |-> "q1", config |-> "model", content |-> Plain, bounded |-> TRUE]}

MasterVersions == [full |-> {"drum"}, empty |-> {}]

-----------------------------------------------------------------------------
(* The evidence.                                                             *)

Supplier(key) ==
  [contract |-> "Supplier", key |-> key, package |-> "sup", scope |-> TRUE, name |-> "item"]

Stock(key, package, movement, reverses, supersedes) ==
  [contract |-> "Stock", key |-> key, package |-> package, name |-> "item",
   scope |-> package # "unnamed", authority |-> package # "unnamed", movement |-> movement,
   reversal |-> reverses # NoEvidence, reverses |-> reverses,
   corrects |-> supersedes # NoEvidence, supersedes |-> supersedes]

\* What a message says of its work order and one operation.
Work(key, package, started, completed, materials) ==
  [contract |-> "Execution", key |-> key, package |-> package, event |-> package, scope |-> TRUE,
   run |-> "run", config |-> "frozen", order |-> "wo", operations |-> {"op"},
   started |-> started, completed |-> completed, materials |-> materials,
   corrects |-> FALSE, correctsEvent |-> NoEvidence, supersedes |-> NoEvidence,
   reversal |-> FALSE, reverses |-> NoEvidence]

Completion(object, stated, reconciled) ==
  [object |-> object, stated |-> stated, reconciled |-> reconciled]

Material(stock, authority) == [stock |-> stock, authority |-> authority]

Report == Work("w3", "report", {}, {}, {})

\* A receipt, its reversal, and a movement without authority and scope.  A start;
\* a completion that consumes what was received; completions that state their own
\* start, of an operation on an authority alone and of a work order; a late one;
\* a correction of an event nobody sent that reverses the start; a correction of
\* a package and a replacement for another configuration.  The name of an item
\* stands for the authority to consume it, too.
EvidenceMessages == {
  Supplier("s"),
  Stock("k1", "receipt", "m1", NoEvidence, NoEvidence), Stock("k2", "reversal", "m2", "m1", "receipt"),
  Stock("k1", "unnamed", "m1", NoEvidence, NoEvidence),
  Work("w1", "start", {"op", "wo"}, {}, {}),
  Work("w2", "done", {},
       {Completion("op", FALSE, FALSE), Completion("wo", FALSE, FALSE)}, {Material("receipt", NoEvidence)}),
  Work("w2", "stated", {}, {Completion("op", TRUE, FALSE)}, {Material(NoEvidence, "item")}),
  Work("w1", "ordered", {}, {Completion("wo", TRUE, FALSE)}, {}),
  Work("w2", "late", {}, {Completion("wo", FALSE, TRUE)}, {}),
  [Report EXCEPT !.corrects = TRUE, !.correctsEvent = "nothing", !.reversal = TRUE, !.reverses = "start"],
  [Report EXCEPT !.corrects = TRUE, !.supersedes = "done"],
  [Report EXCEPT !.supersedes = "stated", !.config = "newer"]}

FrozenConfigs == [r \in {"run"} |-> "frozen"]

-----------------------------------------------------------------------------
(* Integration messages.  Two systems number theirs alike, one sends a refused *)
(* message mended, and one uses the name and the number of a package of ours. *)

Integrated(contract, sender, id, complete) ==
  [contract |-> contract, sender |-> sender, id |-> id, complete |-> complete]

Integrations == {
  Integrated("ERP-INBOUND-V1", "erp", "n", FALSE), Integrated("ERP-INBOUND-V1", "erp", "n", TRUE),
  Integrated("ERP-INBOUND-V1", "portal", "n", TRUE), Integrated("MES-INBOUND-V1", "erp", "n", FALSE),
  Integrated("MES-OUTBOUND-V1", "SDBR", "d1", FALSE)}

-----------------------------------------------------------------------------
(* All of them.  The names in the replenishment ledger are only compared for  *)
(* equality.                                                                 *)

Symmetry ==
  Permutations(Item) \cup Permutations(RuntimePackage) \cup Permutations(Request)
    \cup Permutations(Configuration)

VARIABLE filled

Init == ContractsInit /\ filled \in {"exchange", "evidence", "ledger", "integrations"}

Next ==
  /\ UNCHANGED filled
  /\ \/ filled = "exchange" /\ ExchangeStep
     \/ filled = "evidence" /\ EvidenceStep
     \/ filled = "ledger" /\ LedgerStep
     \/ filled = "integrations" /\ IntegrationStep

Spec == Init /\ [][Next]_<<contractsVars, filled>>
=============================================================================
