SPECIFICATION Spec
CONSTANTS
  Server = {s1, s2}
  Update = {u1, u2, u3, u4}
  AnyRevision = AnyRevision
  NoRequest = NoRequest
  NoBackup = NoBackup
  MaxDamage = 1
  MaxBackupFailures = 0
SYMMETRY Symmetry
PROPERTIES
  CommitsExtend
CHECK_DEADLOCK FALSE
