SPECIFICATION ServedSpec
CONSTANTS
  Jobs = {j1, j2}
  Nil = Nil
  MaxGen = 1
  MaxId = 2
  PipeCap = 1
  WriteCap = 1
  MaxInflight = 0
  Events = {"cancel"}
PROPERTY EveryCallReturns
