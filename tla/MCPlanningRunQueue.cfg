SPECIFICATION Exploration
CONSTANTS
  Run = {r1}
  Actor = {a1, a2}
  Token = {1, 2, 3}
  Nobody = Nobody
  NoToken = NoToken
  Instant = {0}
  LeaseSeconds = 2
  DirectClaimSeconds = 2
  RetryDelaySeconds = 1
  MaxClientSkew = 1
  AttemptLimit = {2}
  AttemptCap = 3
  MaxExecutions = 2
INVARIANTS
  TypeOK
  NeverStranded
  ReclaimableIffRefused
PROPERTIES
  ImplementsExclusiveExecution
  ImplementsRunLifecycle
  CurrentOwnerUndisturbed
  AbandonedLeaseEnds
  AbandonedExecutionEnds
