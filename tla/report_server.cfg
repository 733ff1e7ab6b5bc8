CONSTANTS
  n1 = n1
  n2 = n2
  r1 = r1
  r2 = r2
  Nodes = {n1, n2}
  Shards = {0}
  ShardOf <- MCShardOf
  Requests = {r1, r2}
  ShortSigs = TRUE
  MaxRound <- MCRounds
  MaxRequests = 2
SPECIFICATION FairSpec
INVARIANTS TypeOK TornOnlyByNewerRound ReadingsAreOrdered
PROPERTIES FrozenByPanic EverybodyFinishes
CHECK_DEADLOCK FALSE
