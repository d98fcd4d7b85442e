SPECIFICATION Exploration
CONSTANTS
  early = early
  late = late
  draft = draft
  own = own
  m1 = m1
  m2 = m2
  v1 = v1
  v2 = v2
  Nothing = Nothing
  Day = 4
  Week = 2
  BaseCalendar <- BaseCalendars
  Assignment <- Assignments
  Override <- Overrides
  Version <- Versions
  Strategy <- Strategies
  Policy <- Policies
  RunRequest <- RunRequests
  BuiltIn = {"balanced"}
  Role = {"Admin", "Planner"}
  Horizon <- Minutes
  Minute = 2
  Share = 2
  Request <- Requests
  FreezeWindow = {0, 1, 2}
INVARIANT
  FrozenIsKept
