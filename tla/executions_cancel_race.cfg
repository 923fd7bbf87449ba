SPECIFICATION Spec
CONSTANTS
  Servers = {"s1"}
  Cycles = {"a"}
  MaxRuns = 2
  MaxConcurrent = 1
  MaxFinished = 1
  Durable = TRUE
  DbErrors = FALSE
  Crashes = TRUE
  Peek = TRUE
PROPERTY CancelledNeverStarts
