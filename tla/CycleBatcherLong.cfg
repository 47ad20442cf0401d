SPECIFICATION StartedSpec
CONSTANTS
  Cycles = {"0000"}
  Rxs = {"A"}
  Bands = {"20", "80"}
  HighBands = {}
  Jobs <- LongJobs
  Epoch <- MCEpoch
  BandPeriods <- W2F5
  ExpectedRx = {}
  FtSettle = FALSE
  SinkFaults = {}
  IdleCeiling = 1
  JoinTimeout = 1
  DeadlineSec = 1
  BackstopSec = 1
INVARIANTS
  EveryDecodeReported
CHECK_DEADLOCK FALSE
