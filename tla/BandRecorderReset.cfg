SPECIFICATION Spec
CONSTANTS
  SamplesPerMinute = 3
  Periods = {6, 9}
  LongPeriod = 9
  Headroom = 6
  HarvestEvery = 2
  Modulus = 24
  DivThreshold = 1
  DivAfter = 2
  BatchSizes = {1, 4}
  InitRtp = 20
  InitUtc = 8
  Slides <- MCSlides
  Offsets = {0, 2}
  RestartRtp = 22
  MaxSamples = 16
  MaxEvents = 2
  None = None
PROPERTIES
  SlotsExactAlways
CHECK_DEADLOCK FALSE
