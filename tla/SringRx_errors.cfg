SPECIFICATION Spec
CONSTANTS
  N = 2
  W = 4
  MaxBufs = 2
  RefillAt = 1
  PollBudget = 1
  Budget = 1
  Inbox = 1
  BusyWaits = {FALSE, TRUE}
  TxTraffic = TRUE
  RefillFails = {"oom", "dma"}
  AllocFails = TRUE
  RecvFails = TRUE
  BadBufs = TRUE
  MayClose = FALSE
  MayReopen = FALSE
  Overlap = TRUE
INVARIANTS CompletedWereUsed NoLostKick NoLostPacket IdleIsArmed
CHECK_DEADLOCK FALSE
