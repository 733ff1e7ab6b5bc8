CONSTANTS
  n1 = n1
  n2 = n2
  r1 = r1
  r2 = r2
  Nodes = {n1, n2}
  Shards = {0}
  ShardOf <- MCShardOf
  Requests = {r1, r2}
  ShortSigs = FALSE
  MaxRound <- MCRounds
  MaxRequests = 2
SPECIFICATION FairSpec
PROPERTY LockIsReleased
CHECK_DEADLOCK FALSE
