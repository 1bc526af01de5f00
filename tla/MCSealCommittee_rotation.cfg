CONSTANTS
  a1 = a1
  a2 = a2
  a3 = a3
  p1 = p1
  p2 = p2
  p3 = p3
  n1 = n1
  n2 = n2
  n3 = n3
  c1 = c1
  c2 = c2
  c3 = c3
  k1 = k1
  k2 = k2
  d1 = d1
  d2 = d2
  Address = {a1, a2, a3}
  CommitteeId = {c1, c2, c3}
  Name = {n1, n2, n3}
  NamesOf <- MCNamesOf
  Url = {u1}
  PartialPk = {p1, p2, p3}
  Pk = {k1, k2}
  MessagesHash = {h1}
  PartialPks <- MCPartialPks
  Digest = {}
  Cap = {cap1, cap2}
  PackageCap = cap1
  Roster <- MCRoster
  Threshold = {1, 2, 3}
  MaxU16 = 4
  MaxU32 = 2
  MaxU64 = 2
  None = None
SPECIFICATION Spec
SYMMETRY Symm
INVARIANTS SingleCustodian KeyMaterialEndorsed
PROPERTIES ProposalIsFinal OrphansFrozen CustodySpec
CHECK_DEADLOCK FALSE
