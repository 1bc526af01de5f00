SPECIFICATION Spec
CONSTANTS
  app = app
  app2 = app2
  other = other
  closed = closed
  ghost = ghost
  name1 = name1
  None = None
  Package = {app, app2, other, closed, ghost}
  First <- MCFirst
  Supported = {app, other}
  Name = {name1}
  MaxTime = 1
  Minute = 60
  Word = 65536
  session_key_ttl_max = 1800
  allowed_staleness = 120
  CacheTtl = 3600
  Lag = 1
  Setting <- TtlSetting
  ValidName = {name1}
  PackageInfo = {i1, i2}
  package_address <- MCPackageAddress
  max_retries = 1
  i1 = i1
  i2 = i2
  badname = badname
  Payload <- TtlPayloads
  Request = {r1}
INVARIANT TtlWithinMax
