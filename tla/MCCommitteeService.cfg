SPECIFICATION ServiceSpec
CONSTANTS
  MaxVersion = 1
  Size <- MCSize
  Threshold <- MCThreshold
  Lag = 1
  NoCredentials <- MCNoCredentials
  KeyId = {k1}
  Answer <- MCAnswer
  Request = {r1}
  None = None
  a = a
  b = b
  c = c
  d = d
  Member = {a, b, c, d}
  Seat <- MCSeat
  Reliable = {a, b, d}
INVARIANTS AggregateRecovers FailureIsReal NeverWaitsInVain
PROPERTY ServiceRecovers
