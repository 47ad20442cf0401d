SPECIFICATION SlotFairSpec
CONSTANTS
  Procs = {p1, p2}
  LongThreads = {t1, t2}
  NSlots = 2
  MaxPolls = 2
  Nobody = Nobody
INVARIANTS
  SlotTypeOK
  SlotSharedForCause
  LockTableAgrees
PROPERTIES
  NobodyWaitsForever
