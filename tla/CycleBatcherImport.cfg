SPECIFICATION FairSpec
CONSTANTS
  Cycles = {"0000"}
  Rxs = {"A"}
  Bands = {"80"}
  HighBands = {}
  Jobs <- SingleJobs
  Epoch <- MCEpoch
  BandPeriods <- W2Only
  ExpectedRx = {}
  FtSettle = FALSE
  SinkFaults = {"import"}
  IdleCeiling = 1
  JoinTimeout = 1
  DeadlineSec = 1
  BackstopSec = 1
PROPERTIES
  SpotsSettle
CHECK_DEADLOCK FALSE
