SPECIFICATION Spec
CONSTANTS
  Targets = {1, 2, 3}
  Retries = {1, 2}
  IntMax = 2
  Timed = TRUE
  OnceErrors = {"command", "unavailable"}
  Concurrency = 0
  DefaultConcurrency = 2
  QueueSize = 0
  StopOnError = TRUE
  DropOnBackpressure = TRUE
  UserCancels = TRUE
INVARIANTS
  TypeOK
  EveryTargetAccounted
  StoppedForAReason
  CancelHasCause
  GivesUpOnlyWhenItMust
PROPERTY ImplementsPool
