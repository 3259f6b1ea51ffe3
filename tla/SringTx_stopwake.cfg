SPECIFICATION Spec
CONSTANTS
  N = 2
  W = 4
  Thresh = 1
  Budget = 2
  TxNapis = {FALSE}
  BusyWaits = {FALSE}
  XmitMore = FALSE
  Drops = FALSE
  MayClose = FALSE
  RxTraffic = FALSE
  BadBufs = FALSE
  SendFails = {}
INVARIANT NoStall
