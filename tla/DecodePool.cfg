SPECIFICATION FairSpec
CONSTANTS
  Jobs = {"w2", "f15", "f30"}
  Workers = {"x", "y", "z"}
  Period <- MCPeriod
  MaxLong = 1
INVARIANTS
  TypeOK
  LongShare
  NoWakeupLost
  ExitDrained
PROPERTIES
  JobsSettle
CHECK_DEADLOCK FALSE
