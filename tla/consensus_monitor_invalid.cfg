CONSTANTS
  n1 = n1
  n2 = n2
  Nodes <- MCNodes
  Shards = {0, 1}
  ShardOf <- MCTwoShards
  Interval = 1
  Warning = 1
  Tolerance = 0
  Modulus = 64
  MaxTime = 3
  MaxHeight = 2
SPECIFICATION Spec
INVARIANT InvalidReplyIsNoOp
CHECK_DEADLOCK FALSE
