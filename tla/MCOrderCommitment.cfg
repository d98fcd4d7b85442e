SPECIFICATION Exploration
CONSTANTS
  o1 = o1
  o2 = o2
  p0 = p0
  p1 = p1
  Order = {o1, o2}
  Content <- Messages
  DecisionID = {d1, d2}
  Plan = {p0, p1}
  Baseline = {p0}
  Scheduled <- EmptyPlans
  Window <- Windows
  Capacity = 1
  Supply = 1
  None = None
  MaxEvaluations = 3
  MaxSnapshots = 2
  MaxNow = 1
  MaxVersion = 2
SYMMETRY Symmetry
INVARIANTS
  DecisionsUnambiguous
  AllocatedWithinSupply
PROPERTIES
  DecisionsAreFinal
  AcceptedOnValidEvidence
  ImplementsPromises
CHECK_DEADLOCK FALSE
