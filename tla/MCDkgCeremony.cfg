SPECIFICATION FairSpec
CONSTANTS
  m1 = m1
  m2 = m2
  m3 = m3
  None = None
  Member = {m1, m2, m3}
  CommitteeId = {c1, c2}
  Plan <- MCPlan
INVARIANTS ApprovedShareOnDisk ProposalFromOwnMessages OutputsOfOneRun
PROPERTY Finalizes
CHECK_DEADLOCK FALSE
