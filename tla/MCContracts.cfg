SPECIFICATION Spec
CONSTANTS
  Message <- Messages
  Package <- Packages
  Master <- MasterVersions
  Reference = {"policy"}
  Run = {"r1"}
  NoConfig = "none"
  MaxInbound = 3
  MaxPosts = 2
  EvidenceMessage <- EvidenceMessages
  Name = {"item", "op", "wo", "run"}
  Frozen <- FrozenConfigs
  NoEvidence = "none"
  MaxEvidence = 4
  Item = {i1, i2}
  RuntimePackage = {p1}
  Configuration = {c1, c2}
  Request = {q1, q2, q3}
  MaxSnapshot = 1
  MaxReservationChanges = 1
  Integration <- Integrations
  DispatchPackage = {"d1", "d2"}
  OutboundContract = "MES-OUTBOUND-V1"
SYMMETRY Symmetry
INVARIANTS
  VerdictsStand
  FrozenConfiguration
  FeedbackIsTrue
  RestsOnAccepted
  LedgerStaysValid
  AuthorityUsedOnce
