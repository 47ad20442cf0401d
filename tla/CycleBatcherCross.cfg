SPECIFICATION StartedSpec
CONSTANTS
  Cycles = {"0000"}
  Rxs = {"A", "B"}
  Bands = {"80"}
  HighBands = {}
  Jobs <- PairJobs
  Epoch <- MCEpoch
  BandPeriods <- W2Only
  ExpectedRx = {"A", "B"}
  FtSettle = TRUE
  SinkFaults = {"insert"}
  IdleCeiling = 1
  JoinTimeout = 1
  DeadlineSec = 1
  BackstopSec = 1
INVARIANTS
  TypeOK
  NoSpotTwice
  WakeOncePerCycle
PROPERTIES
  WakeAfterDurable
  CommitWakes
  SpotsSettle
CHECK_DEADLOCK FALSE
