------------------------------ MODULE Contracts ------------------------------
(* The ledgers of external contracts side by side, as one server keeps them: *)
(* the exchange with DDAE, the inboxes of external evidence, the             *)
(* replenishment ledger and the inbox of integration messages.               *)
(* They share the process and the lock around each write, but no state.      *)
EXTENDS DdsopExchange, EvidenceInbox, ReplenishmentLedger, IntegrationInbox

ContractsInit == ExchangeInit /\ EvidenceInit /\ LedgerInit /\ IntegrationInit

ExchangeStep == ExchangeNext /\ UNCHANGED <<evidenceVars, ledgerVars, integrationVars>>
EvidenceStep == EvidenceNext /\ UNCHANGED <<exchangeVars, ledgerVars, integrationVars>>
LedgerStep == LedgerNext /\ UNCHANGED <<exchangeVars, evidenceVars, integrationVars>>
IntegrationStep == IntegrationNext /\ UNCHANGED <<exchangeVars, evidenceVars, ledgerVars>>

ContractsNext == ExchangeStep \/ EvidenceStep \/ LedgerStep \/ IntegrationStep

contractsVars == <<exchangeVars, evidenceVars, ledgerVars, integrationVars>>

ContractsSpec == ContractsInit /\ [][ContractsNext]_contractsVars

-----------------------------------------------------------------------------

\* A key gets one verdict in every inbox: configuration messages, evidence and
\* integration messages that are repeated, mended or come late find the first
\* answer standing.
VerdictsStand == KeyAnsweredAlike /\ OneVerdictPerKey /\ RecordedOnce

\* The replenishment ledger stays valid for all that validate it: the workbench
\* view, which looks at all of it, the repetition of a request, which looks for
\* what the request wrote, and the next evaluation, before and after it writes.
LedgerStaysValid == WorkbenchReadable /\ RepeatedRequestsAnswered /\ EvaluationsAccepted
=============================================================================
