SPECIFICATION ServerSpec
CONSTANTS
  Servers = {"s1"}
  Cycles = {"a", "b"}
  MaxRuns = 2
  MaxConcurrent = 2
  MaxFinished = 1
  Durable = TRUE
  DbErrors = FALSE
  Crashes = TRUE
  Peek = FALSE
INVARIANTS TypesOK OneRunPerCycle RegistrySound LockSafe RunnerSafe
PROPERTIES CancelledNeverStarts HistorySafe Progress
CHECK_DEADLOCK FALSE
