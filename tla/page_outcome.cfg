SPECIFICATION PartsSpec
CONSTANTS
  s1 = s1
  s2 = s2
  Nil = Nil
  Servers = {s1, s2}
  Changeable = {1, 2, 3}
  Globbed = {1, 2}
  Matched = {1, 3}
  CycleRuns = {1, 2}
  MaxEdits = 2
  BackedUp = {1, 2}
  WereThere = {1}
  TargetRuns = {9}
  MaxBackups = 1
  MaxWatched = 3
  Upgraders = {1, 2}
  Revisions <- ThreeRevisions
  EarlyReturns = {3}
  StartsAt = {0, 1, 2}
  MaxUpgradeCrashes = 1
  MaxSignals = 2
  PoolKeys = {1, 2, 3}
  OwnPrefix = {1, 2}
  MaxPool = 2
  MaxPlanned = 2
  AskedKeys = {{1, 2}, {2}, {3}}
  HeldFirst = {2}
  PoolFirst = {1}
  People = {1, 2}
  MaxPoolChanges = 1
  Parts = {"page"}
INVARIANT RealOutcome
CHECK_DEADLOCK FALSE
