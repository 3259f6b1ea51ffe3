SPECIFICATION Spec
CONSTANTS
  N = 2
  W = 4
  Thresh = 1
  Budget = 1
  TxNapis = {FALSE, TRUE}
  BusyWaits = {FALSE}
  XmitMore = TRUE
  Drops = TRUE
  MayClose = TRUE
  RxTraffic = TRUE
  BadBufs = FALSE
  SendFails = {"again"}
INVARIANTS TypeOK RingOrder NoLostKick AllReclaimed
