SPECIFICATION WaitsSpec
CONSTANTS
  MinBackoff = 3
  MaxBackoff = 60
  MulNum = 5
  MulDen = 2
  Jitter = TRUE
  DefaultMin = 1
  DefaultMax = 30
  DurMax = 100
  Base = 200
  Cap = 5000
  Width = 24
  MaxAttempt = 26
INVARIANTS
  TypeOK
  BackoffKeepsItsFloor
  DelayInBounds
PROPERTIES
  FailuresNeverHurry
  DelayGrows
