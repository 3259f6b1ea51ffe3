SPECIFICATION Spec
CONSTANTS
  N = 2
  Bufs = {b1, b2}
  MaxBufs = 2
  RefillAt = 1
  PollBudget = 1
  Budget = 1
  Dirs = {"tx", "rx"}
  BusyWaits = {FALSE, TRUE}
  BadBufs = FALSE
  IfFails = {"again"}
  RefillFails = {"dma"}
  AllocFails = TRUE
  MayReopen = FALSE
INVARIANTS RingConsistent NoLostKick NoLostInterrupt
PROPERTIES ImplementsQueue
CHECK_DEADLOCK FALSE
SYMMETRY Symmetry
