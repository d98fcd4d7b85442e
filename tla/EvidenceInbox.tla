---------------------------- MODULE EvidenceInbox ----------------------------
(***************************************************************************)
(* The three inboxes of external evidence: suppliers and sources           *)
(* (sdbr/supplier_identity_source_contracts.py), inventory and quality     *)
(* (production_inventory_quality_contracts.py), and execution objects      *)
(* (execution_object_evidence_contracts.py).  Each takes a message with    *)
(* the ledger of its inbox and the references known so far, and returns     *)
(* the record to append to that ledger.                                    *)
(*                                                                         *)
(* The messages come from other systems, in any order and more than once;  *)
(* a message may speak of another that has not arrived.  The caller keeps   *)
(* the ledgers and resolves references: names from the master data known    *)
(* so far, packages, movements and starts from what was accepted.          *)
(*                                                                         *)
(* Schema, time stamps, quantities, governance flags and non-claims are    *)
(* one property of a message, "scope": they depend on nothing else.         *)
(***************************************************************************)
EXTENDS Naturals, Sequences, FiniteSetsExt

CONSTANTS
  EvidenceMessage,     \* the messages that are ever sent, each of one contract
  Name,        \* suppliers, items, work orders, operations, planning runs
  Frozen,      \* a function: the configuration each planning run froze
  NoEvidence,
  MaxEvidence  \* bound: messages received

Contract == {"Supplier", "Stock", "Execution"}

ASSUME EvidenceAssumption ==
  MaxEvidence \in Nat /\ \A m \in EvidenceMessage : m.contract \in Contract

VARIABLES
  names,       \* the names that can be resolved
  evidence       \* the three inbound ledgers, in the order of receipt

evidenceVars == <<names, evidence>>

EvidenceInit == names = {} /\ evidence = <<>>

-----------------------------------------------------------------------------
(* What a message can be resolved against.                                  *)

AcceptedEvidence == {evidence[i].message : i \in {j \in DOMAIN evidence : evidence[j].status = "Accepted"}}

\* Deviation: whatever was received counts, refused or not.
ReceivedOf(contract) ==
  {m \in {evidence[i].message : i \in DOMAIN evidence} : m.contract = contract}

AcceptedBy(contract) == {m \in AcceptedEvidence : m.contract = contract}

KnownPackages(contract) == {m.package : m \in AcceptedBy(contract)}
KnownMovements == {m.movement : m \in AcceptedBy("Stock")} \ {NoEvidence}
KnownEvents == {m.event : m \in AcceptedBy("Execution")}
Started == UNION {m.started : m \in AcceptedBy("Execution")}

-----------------------------------------------------------------------------
(* The checks of the three contracts, in the order of the code.             *)

Error(condition, code) == IF condition THEN <<code>> ELSE <<>>

SupplierErrors(m) ==
  Error(~m.scope, "CONTRACT_SCOPE_VIOLATION")
  \o Error(m.name \notin names, "UNKNOWN_SUPPLIER")

\* A reversal names the movement it reverses.
ReversalErrors(m) ==
  Error(m.reversal /\ m.reverses \notin KnownMovements, "MOVEMENT_REVERSAL_TARGET_NOT_FOUND")

\* A correction and the replacement of a snapshot name the package they replace.
StockSupersessionErrors(m) ==
  Error(m.corrects /\ m.supersedes \notin KnownPackages("Stock"), "SUPERSESSION_TARGET_NOT_FOUND")

AuthorityErrors(m) ==
  Error(m.movement # NoEvidence /\ ~m.authority, "MISSING_INVENTORY_AUTHORITY")

StockErrors(m) ==
  AuthorityErrors(m)
  \o ReversalErrors(m)
  \o StockSupersessionErrors(m)
  \o Error(~m.scope, "CONTRACT_SCOPE_VIOLATION")
  \o Error(m.name \notin names, "UNKNOWN_ITEM")

ReferenceErrors(m) ==
  Error(m.run \notin names, "MISSING_PLANNING_RUN")
  \o Error(m.order \notin names, "UNKNOWN_WORK_ORDER")
  \o Error(~(m.operations \subseteq names), "UNKNOWN_OPERATION")

FrozenConfigErrors(m) ==
  IF m.run \notin names THEN <<"MISSING_FROZEN_CONFIG">>
  ELSE Error(m.config # Frozen[m.run], "FROZEN_CONFIG_MISMATCH")

\* A work order completed without a start known before is late, and says so. An
\* operation may also state its own start.
LateCaptureErrors(m) ==
  Error(\E c \in m.completed :
          c.object \notin Started /\ ~(c.stated /\ c.object # m.order) /\ ~c.reconciled,
        "EVENT_ORDER_INVALID")

\* Material issued or consumed rests on a package of stock evidence or on an
\* authority; what is named must be known.
MaterialBoundaryErrors(m) ==
  Error(\E u \in m.materials :
          \/ u.stock = NoEvidence /\ u.authority = NoEvidence
          \/ u.stock # NoEvidence /\ u.stock \notin KnownPackages("Stock")
          \/ u.authority # NoEvidence /\ u.authority \notin names,
        "MISSING_INVENTORY_QUALITY_EVIDENCE")

\* A correction names an event, which nobody looks up, or a package, which is
\* looked up even without a correction; a reversal names an event that is.
ExecutionSupersessionErrors(m) ==
  Error(\/ m.corrects /\ m.correctsEvent = NoEvidence /\ m.supersedes = NoEvidence
        \/ m.supersedes # NoEvidence /\ m.supersedes \notin KnownPackages("Execution"),
        "SUPERSESSION_TARGET_NOT_FOUND")
  \o Error(\/ m.reversal /\ m.reverses = NoEvidence
           \/ m.reverses # NoEvidence /\ m.reverses \notin KnownEvents,
           "REVERSAL_TARGET_NOT_FOUND")

ExecutionErrors(m) ==
  Error(~m.scope, "CONTRACT_SCOPE_VIOLATION")
  \o ReferenceErrors(m)
  \o FrozenConfigErrors(m)
  \o LateCaptureErrors(m)
  \o MaterialBoundaryErrors(m)
  \o ExecutionSupersessionErrors(m)

ErrorsOf(m) ==
  CASE m.contract = "Supplier" -> SupplierErrors(m)
    [] m.contract = "Stock" -> StockErrors(m)
    [] m.contract = "Execution" -> ExecutionErrors(m)

DeadLetterCodes == {
  "UNKNOWN_SUPPLIER", "UNKNOWN_ITEM", "UNKNOWN_WORK_ORDER", "UNKNOWN_OPERATION",
  "MISSING_PLANNING_RUN", "MISSING_FROZEN_CONFIG", "FROZEN_CONFIG_MISMATCH",
  "MOVEMENT_REVERSAL_TARGET_NOT_FOUND", "REVERSAL_TARGET_NOT_FOUND",
  "SUPERSESSION_TARGET_NOT_FOUND", "IDEMPOTENCY_CONFLICT"}

\* The first error decides for execution objects, any error for the others.
StatusForErrors(m, errors) ==
  IF \E i \in DOMAIN errors :
       errors[i] \in DeadLetterCodes /\ (m.contract = "Execution" => i = 1)
  THEN "DeadLettered" ELSE "Rejected"

-----------------------------------------------------------------------------
(* Receiving.                                                               *)

WithKey(m) ==
  {i \in DOMAIN evidence : evidence[i].message.contract = m.contract /\ evidence[i].message.key = m.key}

\* Deviation: the latest record of a key is compared, not the first.
LatestWithKey(m) == evidence[Max(WithKey(m))].message

FirstWithKey(m) == evidence[Min(WithKey(m))].message

StatusOf(m) ==
  IF WithKey(m) # {}
  THEN IF FirstWithKey(m) = m THEN "Duplicate" ELSE "DeadLettered"
  ELSE IF ErrorsOf(m) # <<>> THEN StatusForErrors(m, ErrorsOf(m))
  ELSE "Accepted"

ReceiveEvidence(m) ==
  /\ Len(evidence) < MaxEvidence
  /\ evidence' = Append(evidence, [message |-> m, status |-> StatusOf(m)])
  /\ UNCHANGED names

\* External: master data or a planning run becomes known.
Learn(n) ==
  /\ names' = names \cup {n}
  /\ UNCHANGED evidence

EvidenceNext ==
  \/ \E m \in EvidenceMessage : ReceiveEvidence(m)
  \/ \E n \in Name : Learn(n)

EvidenceSpec == EvidenceInit /\ [][EvidenceNext]_evidenceVars

-----------------------------------------------------------------------------
(* Correctness.                                                             *)

SameKey(i, j) ==
  /\ evidence[i].message.contract = evidence[j].message.contract
  /\ evidence[i].message.key = evidence[j].message.key

First(i) == \A j \in 1..(i - 1) : ~SameKey(i, j)

\* A key gets one verdict. Later messages under it are never accepted; the
\* original is recognised as a duplicate however many conflicting messages
\* used its key in between, and a conflicting one is never called a duplicate
\* (test_identical_replay_is_duplicate_safe, test_idempotency_conflict_is_dead_lettered).
OneVerdictPerKey ==
  \A i, j \in DOMAIN evidence :
    i < j /\ First(i) /\ SameKey(i, j) =>
      evidence[j].status = IF evidence[j].message = evidence[i].message THEN "Duplicate" ELSE "DeadLettered"

AcceptedBefore(i, contract) ==
  {evidence[j].message : j \in
     {k \in 1..(i - 1) : evidence[k].status = "Accepted" /\ evidence[k].message.contract = contract}}

\* What a message refers to, where it must or does, is among the given evidence.
\* A work order is not started by a start that its own completion states.
Rests(m, stock, execution) ==
  /\ m.contract = "Stock" =>
       /\ m.corrects => \E x \in stock : x.package = m.supersedes
       /\ m.reversal => \E x \in stock : x.movement = m.reverses
  /\ m.contract = "Execution" =>
       /\ m.supersedes # NoEvidence => \E x \in execution : x.package = m.supersedes
       /\ m.reverses # NoEvidence => \E x \in execution : x.event = m.reverses
       /\ \A u \in m.materials :
            \/ \E x \in stock : x.package = u.stock
            \/ u.stock = NoEvidence /\ u.authority \in names
       /\ \A c \in m.completed :
            \/ \E x \in execution : c.object \in x.started
            \/ c.reconciled
            \/ c.stated /\ c.object # m.order

\* Accepted evidence rests on evidence accepted before it: the package it
\* replaces, the movement or event it reverses, the stock its material comes from
\* (unless that rests on an authority alone), and the start of what it says is
\* completed (unless that was captured late and reconciled, or is an operation
\* that states its own start).  The event that a correction of an execution names
\* is not among them: the code never looks it up.
RestsOnAccepted ==
  \A i \in DOMAIN evidence :
    evidence[i].status = "Accepted" =>
      Rests(evidence[i].message, AcceptedBefore(i, "Stock"), AcceptedBefore(i, "Execution"))
=============================================================================
