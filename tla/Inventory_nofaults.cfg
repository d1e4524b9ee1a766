CONSTANTS
  r1 = r1
  r2 = r2
  r3 = r3
  r4 = r4
  u1 = u1
  u2 = u2
  a1 = a1
  a2 = a2
  Request <- FourRequests
  Workload <- FourWorkload
  User <- OneUser
  Asset <- TwoAssets
  PackSize = 2
  Faults = {}
  MaxFailures = 5
  Timeout = 0
  FailureCap = 5
SPECIFICATION BlameSpec
SYMMETRY FourSymmetry
INVARIANT FailuresAreMisses
INVARIANT OnlyOvertaken
