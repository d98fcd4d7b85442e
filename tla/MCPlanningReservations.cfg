SPECIFICATION Spec
CONSTANTS
  Run = {r1, r2, r3}
  Batch = {b1, b2}
  Capacity = {c1}
  Material = {m1}
  NoRun = NoRun
  MaxVersion = 3
SYMMETRY Symmetry
INVARIANTS
  PartsAgree
  HeldIsRecoverable
PROPERTIES
  OneHolder
  ImplementsBatches
CHECK_DEADLOCK FALSE
