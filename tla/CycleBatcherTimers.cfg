SPECIFICATION Spec
CONSTANTS
  Cycles = {"0000"}
  Rxs = {"A"}
  Bands = {"80"}
  HighBands = {}
  Jobs <- SingleF5Jobs
  Epoch <- MCEpoch
  BandPeriods <- F5Only
  ExpectedRx = {}
  FtSettle = TRUE
  SinkFaults = {}
  IdleCeiling = 1
  JoinTimeout = 1
  DeadlineSec = 1
  BackstopSec = 1
INVARIANTS
  NoTimerAfterStop
CHECK_DEADLOCK FALSE
