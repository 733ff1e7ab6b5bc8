CONSTANTS
  Shards = {1, 2}
  Interval = 1
  Warning = 2
  MaxTime = 4
  MaxLink = 2
  Peers = {p1, p2, p3}
  Chains = {0, 1}
  Limit = 1
  Sizes = {0, 1, 2}
  Tolerances = {1, 33, 34, 50}
  Links <- MCLinks
  Replies = 4
  MaxEpoch = 2
  Fields = {"num-workers"}
  Files <- MCFiles
  MaxFiles = 2
  Capacity = 2
  MaxConns = 3
  addr1 = addr1
  addr2 = addr2
SPECIFICATION MCSpec
INVARIANT TrailingNumberIsShard
CHECK_DEADLOCK FALSE
