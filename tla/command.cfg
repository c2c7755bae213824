SPECIFICATION AttemptSpec
SYMMETRY ConfigSymmetry
CONSTANTS
  Configs = {c1, c2}
  NoConfig = NoConfig
  Setters <- MCSetters
  OptionArgs = {"ptr"}
  ExtraArgs <- MCExtraArgs
  Spare = {2}
  MaxCalls = 3
  Targets = {"192.0.2.1", "a b"}
  MaxTries = 2
INVARIANTS
  AskedIsSent
  RefusedForCause
  ModesAgree
  UserIdComesBack
PROPERTY ClonesAreIndependent
CHECK_DEADLOCK FALSE
