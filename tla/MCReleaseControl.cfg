SPECIFICATION Exploration
CONSTANTS
  o1 = o1
  o2 = o2
  r = r
  Nothing = Nothing
  Instants = {0, 1, 2}
  Tolerance = 0
  ReplanThreshold = 1
  BlockedThreshold = 1
  ReplanCooldown = 1
  Order = {o1, o2}
  Run = {r}
  RunSchedule <- Runs
  Schedule <- Answers
  Item = {"part"}
  Required <- Needs
  State <- States
  FirstState <- Calm
  Policy <- Policies
  RunPolicy <- FrozenPolicies
  MaxAge = 1
  FreezeWindow = 0
  JumpThreshold = 0
  Later <- LaterOrders
  Notice <- Notices
  MaxRequests = 2
  MaxSnapshots = 2
  MaxPackages = 1
  MaxAuthorizations = 2
  MaxLocks = 3
  MaxIssued = 1
  MaxEvents = 2
INVARIANTS
  RequestsSettled
  AuthorizedAsDecided
  ReleasedOnceInTime
  ArrivalOrderIrrelevant
