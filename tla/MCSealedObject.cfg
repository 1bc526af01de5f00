SPECIFICATION Spec
CONSTANTS
  s1 = s1
  s2 = s2
  s3 = s3
  Server = {s1, s2, s3}
  KeyServers <- MCKeyServers
  KeyByte <- MCKeyByte
  Indices <- MCIndices
  Noise = 77
  Reader = {r1, r2}
SYMMETRY MCSymmetry
INVARIANTS
  SealedReadable
  OnChainReadsAgree
  OneInterpolation
  FieldTables
CHECK_DEADLOCK FALSE
