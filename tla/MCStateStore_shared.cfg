SPECIFICATION Spec
CONSTANTS
  Server = {s1, s2}
  Update = {u1, u2, u3}
  AnyRevision = AnyRevision
  NoRequest = NoRequest
  NoBackup = NoBackup
  MaxDamage = 0
  MaxBackupFailures = 1
SYMMETRY Symmetry
INVARIANTS
  ReadsAreCommitted
  AcknowledgedIsStored
PROPERTIES
  IfMatchHonoured
  ImplementsAtomicStore
