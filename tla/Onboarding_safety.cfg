CONSTANTS
  c1 = c1
  c2 = c2
  u1 = u1
  u2 = u2
  Call <- MCCall
  User <- MCUser
  Answer <- MCAnswer
  NumRetries = 1
  MaxRetries = 1
  LastStep = 3
  PackCap = 1
  MaxCalls = 4
  Faults <- AnyFault
SPECIFICATION Spec
INVARIANT TypeOK PageWasTrue SkipHasCause SecondPackHasCause
PROPERTY BackHasCause ImplementsStore
SYMMETRY Symmetry
