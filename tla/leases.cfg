SPECIFICATION Spec
CONSTANTS
  c1 = c1
  c2 = c2
  c3 = c3
  Clients = {c1, c2, c3}
  Keys = {1, 2}
  Wants <- MCWants
  User <- MCUser
  MaxPerUser = 1
  TTL = 2
  ReuseDelay = 1
  WaiterTTL = 1
  Interval = 1
  PrepareTicks = 0
  ResetTicks = 3
  Blips = 1
  HasRelease = TRUE
  Prompt = TRUE
  Admin = FALSE
INVARIANTS TypeOK OneUserPerKey CleanMeansReset AliveKeepsKey
PROPERTIES OldestFirst OwnRowOnly PoolSpec
SYMMETRY Twins
