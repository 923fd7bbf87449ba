SPECIFICATION FairSpec
CONSTANTS
  MaxRuns = 3
  Outside = {3}
  Long = {1, 2}
  Viewers = {"v"}
  MaxEvents = 1
  Secrets <- FirstSecret
  MaskSize = 1
  Evicts = TRUE
INVARIANTS TypeOK InOrder OthersOnlyAfter
PROPERTIES FeedsTheRun StreamEnds
CHECK_DEADLOCK FALSE
