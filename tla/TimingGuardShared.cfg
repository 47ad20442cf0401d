SPECIFICATION FairSpec
CONSTANTS
  Rxs = {"A"}
  Bands = {1, 2}
  Periods = {"W2"}
  Threads = {"t1", "t2"}
  DtCycles = 2
  Strikes = 2
  RestartAfter = 2
  Faults = {"small", "ahead"}
  MaxEvents = 2
  None = None
PROPERTIES
  DtFaultReplaced
CHECK_DEADLOCK FALSE
