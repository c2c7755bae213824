SPECIFICATION Spec
CONSTANTS
  Targets = {1, 2}
  Retries = {0}
  IntMax = 2
  Timed = FALSE
  OnceErrors = {"command"}
  Concurrency = 2
  DefaultConcurrency = 2
  QueueSize = 0
  StopOnError = TRUE
  DropOnBackpressure = FALSE
  UserCancels = FALSE
INVARIANT StoppedTargetsSaySo
