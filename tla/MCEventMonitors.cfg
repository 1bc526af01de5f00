SPECIFICATION FairSpec
CONSTANTS
  MaxEvents = 2
  MaxProposals = 2
INVARIANT AlertsInOrder
PROPERTY EveryRotationTold
