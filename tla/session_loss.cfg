SPECIFICATION Spec
CONSTANTS
  Jobs = {j1, j2}
  Nil = Nil
  MaxGen = 2
  MaxId = 2
  PipeCap = 1
  WriteCap = 1
  MaxInflight = 0
  Events = {"drop", "cancel"}
SYMMETRY JobSymmetry
INVARIANTS
  TypeOK
  NoLostWakeup
  HaltsOwnTask
  SpecificError
PROPERTY KeepsPromise
