CONSTANTS
  r1 = r1
  r2 = r2
  r3 = r3
  r4 = r4
  r5 = r5
  u1 = u1
  a1 = a1
  Request <- FiveRequests
  Workload <- FiveWorkload
  User <- MCUser
  Asset <- MCAsset
  PackSize = 1
  Faults = {}
  MaxFailures = 5
  Timeout = 1
  FailureCap = 5
SPECIFICATION Spec
SYMMETRY FiveSymmetry
INVARIANT TripsOnlyOnOutage
