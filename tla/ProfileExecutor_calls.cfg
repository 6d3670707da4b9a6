CONSTANTS
  NodeCount = 2
  Addresses <- MCAddresses
  Operations <- MCOperations
  MaxOperations = 2
  PollStep = 2
SPECIFICATION FairSpec
PROPERTIES CallReturnsInTime
INVARIANTS AccessReachesTarget ResultIsTrue
