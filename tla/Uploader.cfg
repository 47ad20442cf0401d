SPECIFICATION FairSpec
CONSTANTS
  Receivers = {A, B}
  Home = A
  Calls = {c, d}
  Threshold = 2
  Span = 1
  MaxCycles <- HomeCommitsOn
  MaxFaults = 1
  Off = Off
INVARIANTS
  NoWakeLost
  StopNotSlept
  WholeBatchRemembered
PROPERTIES
  CyclesShip
