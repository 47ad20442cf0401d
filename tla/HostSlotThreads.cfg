SPECIFICATION SlotSpec
CONSTANTS
  Procs = {p1, p2}
  LongThreads = {t1, t2}
  NSlots = 2
  MaxPolls = 1
  Nobody = Nobody
SYMMETRY Symmetry
INVARIANTS
  OneProcessPerSlot
