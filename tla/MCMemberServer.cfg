SPECIFICATION FairSpec
CONSTANTS
  MaxVersion = 2
  Seat <- MCSeat
  Size <- MCSize
  Rpc <- MCRpc
  Request = {r1, r2}
  None = None
INVARIANTS CheckedAlready ValidatedShareOnChain
PROPERTIES ServesAsPromised Switchover
