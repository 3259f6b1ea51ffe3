SPECIFICATION Spec
CONSTANTS
  N = 2
  W = 4
  MaxBufs = 2
  RefillAt = 1
  PollBudget = 1
  Budget = 1
  Inbox = 1
  BusyWaits = {FALSE}
  TxTraffic = FALSE
  RefillFails = {}
  AllocFails = FALSE
  RecvFails = FALSE
  BadBufs = FALSE
  MayClose = TRUE
  MayReopen = TRUE
  Overlap = FALSE
INVARIANT CompletedWereUsed
CHECK_DEADLOCK FALSE
