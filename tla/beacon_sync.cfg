CONSTANTS
  n1 = n1
  n2 = n2
  n3 = n3
  Nodes <- MCNodes
  Workers = {1, 2}
  Threshold = 1
  Word = 8
  MaxHeight = 3
  MaxRounds = 1
SPECIFICATION FairSpec
INVARIANTS TypeOK ClosedAfterLastReply BeaconAlertIsRight SomebodyCanGoOn
PROPERTIES LaggardIsReported CollectingIsBounded HeadersAreCollected
CHECK_DEADLOCK FALSE
