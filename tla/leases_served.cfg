SPECIFICATION FairSpec
CONSTANTS
  c1 = c1
  c2 = c2
  c3 = c3
  Clients = {c1, c2}
  Keys = {1}
  Wants <- MCWants
  User <- MCUser
  MaxPerUser = 0
  TTL = 2
  ReuseDelay = 0
  WaiterTTL = 1
  Interval = 1
  PrepareTicks = 1
  ResetTicks = 1
  Blips = 0
  HasRelease = TRUE
  Prompt = TRUE
  Admin = TRUE
PROPERTY EveryRequestEnds
