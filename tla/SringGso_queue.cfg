SPECIFICATION Spec
CONSTANTS
  N = 4
  W = 8
  MaxBufs = 4
  MaxFrags = 1
  RefillAt = 3
  Need = 2
  PollBudget = 1
  Budget = 1
  Dirs = {"tx", "rx"}
  BusyWaits = {FALSE, TRUE}
  BadBufs = {"tx"}
  MapFails = TRUE
  SendFails = {"again"}
  RefillFails = {"oom"}
  AllocFails = TRUE
  MayReopen = FALSE
INVARIANTS WholePackets NoStarvation NoLostPacket NoStall
CHECK_DEADLOCK FALSE
