SPECIFICATION Spec
CONSTANTS
  Jobs = {j1, j2}
  Nil = Nil
  MaxGen = 1
  MaxId = 2
  PipeCap = 2
  WriteCap = 1
  MaxInflight = 0
  Events = {"reject", "haltdata", "inprogress", "garbage", "noise", "bad", "cancel"}
SYMMETRY JobSymmetry
INVARIANTS
  ReplyAlignment
  ExactDelivery
  CancelNotForgotten
  IdTable
PROPERTY KeepsPromise
