SPECIFICATION FairSpec
CONSTANTS
  Rxs = {"A", "B"}
  Bands = {1}
  Periods = {"W2"}
  Threads = {"t1", "t2"}
  DtCycles = 2
  Strikes = 2
  RestartAfter = 2
  Faults = {"small", "ahead"}
  MaxEvents = 1
  None = None
INVARIANTS
  NoFalseAlarm
PROPERTIES
  RunawayReplaced
CHECK_DEADLOCK FALSE
