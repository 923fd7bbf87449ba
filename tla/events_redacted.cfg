SPECIFICATION Spec
CONSTANTS
  MaxRuns = 3
  Outside = {1}
  Long = {1, 2, 3}
  Viewers = {"v"}
  MaxEvents = 2
  Secrets <- FirstSecret
  MaskSize = 0
  Evicts = FALSE
INVARIANTS LastEventSent
CHECK_DEADLOCK FALSE
