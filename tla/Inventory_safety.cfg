CONSTANTS
  r1 = r1
  r2 = r2
  r3 = r3
  r4 = r4
  u1 = u1
  u2 = u2
  a1 = a1
  a2 = a2
  Request <- TwoRequests
  Workload <- TwoWorkload
  User <- TwoUsers
  Asset <- OneAsset
  PackSize = 2
  Faults <- AnyFault
  MaxFailures = 2
  Timeout = 0
  FailureCap = 2
SPECIFICATION BlameSpec
SYMMETRY TwoSymmetry
INVARIANT TypeOK
INVARIANT NoPhantoms
INVARIANT StaleHasCause
PROPERTY ImplementsStore
