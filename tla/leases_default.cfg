SPECIFICATION Spec
CONSTANTS
  c1 = c1
  c2 = c2
  c3 = c3
  Clients = {c1, c2}
  Keys = {1}
  Wants <- MCWants
  User <- MCUser
  MaxPerUser = 0
  TTL = 3
  ReuseDelay = 1
  WaiterTTL = 1
  Interval = 1
  PrepareTicks = 15
  ResetTicks = 7
  Blips = 0
  HasRelease = TRUE
  Prompt = TRUE
  Admin = FALSE
INVARIANT OneUserPerKey
