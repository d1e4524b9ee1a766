CONSTANTS
  c1 = c1
  c2 = c2
  e1 = e1
  e2 = e2
  p1 = p1
  p2 = p2
  i1 = i1
  i2 = i2
  NoRequest = NoRequest
  Call <- MCCall
  Email <- MCEmail
  Password <- MCPassword
  Id <- MCId
  Answer <- MCAnswer
  NumRetries = 1
  MaxRetries = 1
  Faults <- AnyFault
SPECIFICATION Spec
INVARIANT TypeOK TokenMatchesPassword OneWelcome LoginStaysGood OwnAccountOpens OwnRefusalIsRetry
SYMMETRY Symmetry
