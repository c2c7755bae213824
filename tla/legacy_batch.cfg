SPECIFICATION LegacyFairSpec
CONSTANTS
  Targets = {1, 2, 3}
  Retries = {1}
  IntMax = 2
  Timed = TRUE
  OnceErrors = {"invalid", "command", "parse", "failed"}
  Concurrency = 1
  DefaultConcurrency = 8
  QueueSize = 0
  StopOnError = TRUE
  DropOnBackpressure = FALSE
  UserCancels = TRUE
  BadTargets = {3}
INVARIANTS
  EveryTargetAccounted
  StoppedForAReason
  KilledIsNotRejected
  ProcessPool
PROPERTIES
  ImplementsBatch
  HungScamperIsSurvived
