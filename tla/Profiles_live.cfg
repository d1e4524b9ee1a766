CONSTANTS
  r1 = r1
  r2 = r2
  u1 = u1
  Request <- MCRequest
  Clients <- MCClients
  User <- MCUser
  LastStep = 3
  PackCap = 1
  Faults <- AnyFault
SPECIFICATION FairRewardSpec
INVARIANT PackIsComing
PROPERTY EventuallyFresh CompletionIsRewarded
