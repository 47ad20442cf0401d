SPECIFICATION Spec
CONSTANTS
  Cycles = {"0000"}
  Rxs = {"A"}
  Bands = {"20", "80"}
  HighBands = {"80"}
  Jobs <- DoubledJobs
  Epoch <- MCEpoch
  BandPeriods <- F5F15
  ExpectedRx = {}
  FtSettle = FALSE
  SinkFaults = {"insert"}
  IdleCeiling = 1
  JoinTimeout = 1
  DeadlineSec = 1
  BackstopSec = 1
INVARIANTS
  FlushOncePerCycle
  NoSpotLost
  StopDrains
