SPECIFICATION FairSpec
CONSTANTS
  n1 = n1
  n2 = n2
  n3 = n3
  None = None
  Node = {n1, n2, n3}
  Token <- MCToken
  BearerTokens <- MCBearerTokens
  Interval <- MCInterval
  ConfigLabels <- MCConfigLabels
  ServerLabels <- MCServerLabels
  Hostname <- MCHostname
  Peer <- MCPeer
  AddLabels <- MCAddLabels
  RemoveLabels <- MCRemoveLabels
  Families <- MCFamilies
  MaxSampleSize = 2
  MaxQueueTime = 1
  MaxTime = 1
  MaxOpen = 2
  MaxWire = 2
INVARIANT CreatedIsStored
PROPERTIES HistogramsOnce PushesRecover
CHECK_DEADLOCK FALSE
