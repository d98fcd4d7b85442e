SPECIFICATION FairWorkerSpec
CONSTANTS
  Run = {r1}
  Actor = {w1, p1}
  Worker = {w1}
  Token = {t1, t2, t3}
  Nobody = Nobody
  NoToken = NoToken
  Instant = {0}
  LeaseSeconds = 3
  HeartbeatSeconds = 1
  MaxLateness = 1
  DirectClaimSeconds = 1
  RetryDelaySeconds = 0
  MaxClientSkew = 0
  AttemptLimit = {2}
  AttemptCap = 3
  MaxExecutions = 2
INVARIANT
  ClaimsKept
PROPERTIES
  StopHonoured
  EndedWorkersLetGo
