SPECIFICATION FairSpec
CONSTANTS
  Jobs = {j1}
  Nil = Nil
  MaxGen = 2
  MaxId = 1
  PipeCap = 1
  WriteCap = 1
  MaxInflight = 1
  Events = {"close", "drop"}
INVARIANTS
  ReplyAlignment
  SpecificError
PROPERTIES
  CloseStopsEverything
  LossReleasesCallers
  KeepsPromise
