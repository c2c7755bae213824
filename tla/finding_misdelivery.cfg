SPECIFICATION Spec
CONSTANTS
  Jobs = {j1, j2}
  Nil = Nil
  MaxGen = 1
  MaxId = 2
  PipeCap = 2
  WriteCap = 2
  MaxInflight = 0
  Events = {"close"}
INVARIANT NeverMisdelivered
