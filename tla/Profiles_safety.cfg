CONSTANTS
  r1 = r1
  r2 = r2
  u1 = u1
  u2 = u2
  Request <- MCRequest
  Clients <- MCClients
  User <- MCUser
  LastStep = 2
  PackCap = 1
  Faults <- MostFaults
SPECIFICATION BlameSpec
INVARIANT TypeOK
INVARIANT StaleHasCause
PROPERTY ImplementsStore
