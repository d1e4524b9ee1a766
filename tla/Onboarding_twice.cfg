CONSTANTS
  c1 = c1
  c2 = c2
  u1 = u1
  u2 = u2
  Call <- OneCall
  User <- OneUser
  Answer <- MCAnswer
  NumRetries = 1
  MaxRetries = 1
  LastStep = 2
  PackCap = 2
  MaxCalls = 2
  Faults <- Timeouts
SPECIFICATION Spec
INVARIANT OnePackPerUser
