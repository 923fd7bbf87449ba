SPECIFICATION FairSpec
CONSTANTS
  StageCount = 3
  MaxParallel = 2
  MaxStops = 2
  Timed = {1}
  Stubborn = {}
INVARIANTS TypeOK NoneEscapes AtMostMaxParallel NothingLeftBehind RecordFits
PROPERTIES FailFastStops StopEnds
CHECK_DEADLOCK FALSE
