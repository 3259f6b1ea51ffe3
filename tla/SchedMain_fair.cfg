SPECIFICATION Spec
CONSTANTS
  FsConfig <- MCFsConfig
  QueueMax = 2
  FRAC_BITS = 2
  TsBits = 5
  min_q = 1
  max_q = 2
  q_bytes = 2
  QFQ_MAX_SLOTS = 3
  QFQ_MAX_INDEX = 2
  QFQ_MTU_SHIFT = 1
  QFQ_MAX_WEIGHT = 2
  QFQ_MAX_LEN = 2
  Algs = {"default", "fifo", "rr", "wf2qp", "qfq"}
  Lens = {1, 2}
  MaxPending = 3
  MaxEnqueue <- MCMaxEnqueue
INVARIANTS WorkConserving Wf2qEligibility QfqGroups Fair
CHECK_DEADLOCK FALSE
