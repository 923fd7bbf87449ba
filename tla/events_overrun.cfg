SPECIFICATION Spec
CONSTANTS
  MaxRuns = 2
  Outside = {}
  Long = {1, 2}
  Viewers = {"v"}
  MaxEvents = 1
  Secrets <- FirstSecret
  MaskSize = 1
  Evicts = FALSE
INVARIANTS NoOtherExecution
CHECK_DEADLOCK FALSE
