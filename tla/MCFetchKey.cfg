SPECIFICATION FairSpec
CONSTANTS
  app = app
  app2 = app2
  other = other
  closed = closed
  ghost = ghost
  name1 = name1
  None = None
  Package = {app, app2, other, closed, ghost}
  First <- MCFirst
  Supported = {app, other}
  Name = {name1, badname}
  MaxTime = 3
  Minute = 1
  Word = 4
  session_key_ttl_max = 2
  allowed_staleness = 1
  CacheTtl = 1
  Lag = 1
  Setting <- MCSetting
  ValidName = {name1}
  PackageInfo = {i1, i2}
  package_address <- MCPackageAddress
  max_retries = 2
  i1 = i1
  i2 = i2
  badname = badname
  Payload <- MCPayload
  Request = {r1}
INVARIANTS VerdictFresh SessionBounded NameWasBound
PROPERTY Answered
