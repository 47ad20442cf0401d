SPECIFICATION ProcessFairSpec
CONSTANTS
  WatchdogSec = 6
  TimeoutStart = 6
  TimeoutStop = 3
  ExtendBy = 4
  FeedEvery = 2
  PetEvery = 3
  StallSec = 3
  GraceSec = 6
  RetryDelays <- RetryDelaysDef
  SettleTimeout = 2
  SettleReadings = 2
  MaxStart = 2
  MaxDrain = 7
  MaxJolts = 1
  Off = Off
INVARIANTS
  KilledForCause
  StopHeard
PROPERTIES
  StallRestarts
