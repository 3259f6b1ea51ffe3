SPECIFICATION FairSpec
CONSTANTS
  Threshold = 2
  Queues = {"RX0", "TX0"}
  CreateFails = FALSE
  Remaps = FALSE
  Signals = TRUE
  Leftover = TRUE
INVARIANTS WorkerServesReady CountsAgree
PROPERTY StopReturns
CHECK_DEADLOCK FALSE
