SPECIFICATION FairSpec
CONSTANTS
  N = 2
  W = 4
  Thresh = 2
  Budget = 1
  TxNapis = {FALSE, TRUE}
  BusyWaits = {FALSE, TRUE}
  XmitMore = FALSE
  Drops = TRUE
  MayClose = FALSE
  RxTraffic = TRUE
  BadBufs = TRUE
  SendFails = {"again"}
PROPERTIES PacketsLeave PromisedRestart QueueRestarts
CHECK_DEADLOCK FALSE
