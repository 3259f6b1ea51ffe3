SPECIFICATION FairSpec
CONSTANTS
  N = 2
  W = 4
  MaxBufs = 1
  RefillAt = 2
  PollBudget = 2
  Budget = 2
  Inbox = 1
  BusyWaits = {FALSE}
  TxTraffic = FALSE
  RefillFails = {}
  AllocFails = FALSE
  RecvFails = TRUE
  BadBufs = FALSE
  MayClose = TRUE
  MayReopen = FALSE
  Overlap = FALSE
INVARIANTS RingOrder AllReclaimed
PROPERTIES PacketsDelivered ReceiveGoesOn
CHECK_DEADLOCK FALSE
