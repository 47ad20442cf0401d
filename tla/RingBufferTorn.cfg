SPECIFICATION Spec
CONSTANTS
  CapacityMinutes = 2
  SamplesPerMinute = 2
  MaxBatch = 3
  Window = 3
  Slack = 1
  MaxSamples = 8
INVARIANTS
  DeferredExactOrNothing
CHECK_DEADLOCK FALSE
