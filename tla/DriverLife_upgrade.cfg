SPECIFICATION FairSpec
CONSTANTS
  NProgs = 3
  Optional = {2}
  Queues = {rx, tx}
  HvFeatures = {{"SG", "CSUM", "TSO", "LRO"}, {"SG", "TSO"}}
  csum = TRUE
  gso = TRUE
  SetupFails = {"kmalloc", "first", "fixup"}
  UserToggles = {"TSO"}
  OpenFailsIn = {"up"}
  UpgradeWhen = {"bound"}
  LateWake = FALSE
  TxNapis = {TRUE, FALSE}
  LateIntr = FALSE
  MaxVersion = 2
INVARIANTS ProgramsWhole LayoutAgrees NapiBalanced NothingLeft
PROPERTIES UpgradeServed
CHECK_DEADLOCK FALSE
