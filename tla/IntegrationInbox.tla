-------------------------- MODULE IntegrationInbox --------------------------
(* The inbox of integration messages (sdbr/integration_contracts.py and its   *)
(* endpoints in sdbr/api.py): messages of other systems, received under a     *)
(* contract, and the dispatch suggestions this system issues, which are put   *)
(* in the same list.  Other systems send a message again when its answer was  *)
(* lost, mend one that was refused, and number their messages independently.  *)
EXTENDS Naturals, Sequences

CONSTANTS
  Integration,      \* the messages that are ever sent
  DispatchPackage,  \* the identities of packages of dispatch suggestions
  OutboundContract  \* the contract of such packages

VARIABLES
  integrations,     \* integration_messages, in the order of receipt
  acknowledged      \* the acknowledgements given to the senders

integrationVars == <<integrations, acknowledged>>

IntegrationInit == integrations = <<>> /\ acknowledged = {}

\* Sender and number, not the contract, make the key; the contract is compared too.
IdempotencyKey(m) == <<m.sender, m.id>>

SameMessage(m, record) == record.contract = m.contract /\ record.key = IdempotencyKey(m)

\* A message is compared with what was refused as well as with what was accepted.
IntegrationStatus(m) ==
  IF \E i \in DOMAIN integrations : SameMessage(m, integrations[i]) THEN "Duplicate"
  ELSE IF m.complete THEN "Accepted"
  ELSE "Rejected"

IntegrationRecord(m) ==
  [contract |-> m.contract, key |-> IdempotencyKey(m), id |-> m.id,
   status |-> IntegrationStatus(m), replay |-> "None"]

\* A duplicate is acknowledged and not recorded.
TakeIn(m) ==
  /\ integrations' = IF IntegrationStatus(m) = "Duplicate" THEN integrations
                     ELSE Append(integrations, IntegrationRecord(m))
  /\ acknowledged' = acknowledged \cup
       {[contract |-> m.contract, key |-> IdempotencyKey(m), status |-> IntegrationStatus(m)]}

ReceiveIntegration(m) == TakeIn(m)

\* The package is issued whatever the list says of its message.
IssueDispatch(package) ==
  TakeIn([contract |-> OutboundContract, sender |-> "SDBR", id |-> package, complete |-> TRUE])

DeadLetters == {i \in DOMAIN integrations : integrations[i].status = "Rejected"}

\* The first message of that number is marked, whoever sent it.
RequestReplay(id) ==
  LET same == {i \in DOMAIN integrations : integrations[i].id = id}
      first == CHOOSE i \in same : \A j \in same : i <= j
  IN /\ same # {}
     /\ integrations' = [integrations EXCEPT ![first].replay =
          IF first \in DeadLetters THEN "ReadyForReplay" ELSE "ReplayNotRequired"]
     /\ UNCHANGED acknowledged

IntegrationNext ==
  \/ \E m \in Integration : ReceiveIntegration(m)
  \/ \E package \in DispatchPackage : IssueDispatch(package)
  \/ \E id \in {m.id : m \in Integration} : RequestReplay(id)

IntegrationSpec == IntegrationInit /\ [][IntegrationNext]_integrationVars

-----------------------------------------------------------------------------

SameKeyed(a, b) == a.contract = b.contract /\ a.key = b.key

\* A message is recorded once, and all its acknowledgements after the first say
\* so: the senders of one contract never hear both that it was accepted and that
\* it was refused, even when it was mended or marked for a replay in between.
RecordedOnce ==
  /\ \A i, j \in DOMAIN integrations :
       SameKeyed(integrations[i], integrations[j]) => i = j
  /\ \A a \in acknowledged : a.status # "Duplicate" =>
       \E i \in DOMAIN integrations : SameKeyed(integrations[i], a) /\ integrations[i].status = a.status
=============================================================================
