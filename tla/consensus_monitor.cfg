CONSTANTS
  n1 = n1
  n2 = n2
  Nodes <- MCNodes
  Shards = {0}
  ShardOf <- MCOneShard
  Interval = 1
  Warning = 1
  Tolerance = 0
  Modulus = 64
  MaxTime = 4
  MaxHeight = 2
SPECIFICATION Spec
INVARIANTS TypeOK OutOfSyncIsBehind
PROPERTIES NoFalseAlarm StuckIsReported AlarmEndsWithProgress
CHECK_DEADLOCK FALSE
