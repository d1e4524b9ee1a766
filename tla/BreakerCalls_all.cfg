CONSTANTS
  c1 = c1
  c2 = c2
  c3 = c3
  Caller <- MCCaller
  MaxFailures = 2
  Timeout = 2
  FailureCap = 4
SPECIFICATION FairSpec
INVARIANT TypeOK
INVARIANT StateMatchesCounters
PROPERTY BackendRests
PROPERTY ImplementsPolicy
PROPERTY LateFailuresRunOut
PROPERTY OpenIsTemporary
PROPERTY Recovers
