SPECIFICATION Spec
CONSTANTS
  v1 = v1
  v2 = v2
  s1 = s1
  s2 = s2
  s3 = s3
  Voter = {v1, v2}
  VoteVoters <- MCVoteVoters
  KeyServers <- MCKeyServers
  Options = 2
  Noise = 77
INVARIANTS
  TallyOfIntents
  ReleasedKeysFinalize
PROPERTIES
  BallotsFixedBeforeKeys
CHECK_DEADLOCK FALSE
