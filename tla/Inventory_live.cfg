CONSTANTS
  r1 = r1
  r2 = r2
  r3 = r3
  r4 = r4
  r5 = r5
  u1 = u1
  a1 = a1
  Request <- MCRequest
  Workload <- MCWorkload
  User <- MCUser
  Asset <- MCAsset
  PackSize = 1
  Faults <- OutageFaults
  MaxFailures = 2
  Timeout = 0
  FailureCap = 2
SPECIFICATION FairSpec
PROPERTY AnswerComesNearer
PROPERTY EveryRequestIsAnswered
PROPERTY EventuallyFresh
PROPERTY QuietRecovery
