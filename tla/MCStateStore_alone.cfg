SPECIFICATION Spec
CONSTANTS
  Server = {s1}
  Update = {u1, u2, u3}
  AnyRevision = AnyRevision
  NoRequest = NoRequest
  NoBackup = NoBackup
  MaxDamage = 2
  MaxBackupFailures = 1
SYMMETRY Symmetry
INVARIANTS
  AcknowledgedSurvivesDamage
CHECK_DEADLOCK FALSE
