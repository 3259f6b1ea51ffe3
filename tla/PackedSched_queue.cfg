SPECIFICATION SchedSpec
CONSTANTS
  N = 2
  Bufs = {b1, b2}
  MaxBufs = 2
  RefillAt = 1
  PollBudget = 1
  Budget = 2
  Dirs = {"tx"}
  BusyWaits = {TRUE}
  BadBufs = TRUE
  IfFails = {}
  RefillFails = {}
  AllocFails = FALSE
  MayReopen = FALSE
  Drops = {"mark"}
  MaxPending = 3
INVARIANTS MapFindsDescriptor SwapAssertion MbufsSuffice NoReleaseUnnoticed
PROPERTIES SchedImplementsQueue
CHECK_DEADLOCK FALSE
SYMMETRY Symmetry
