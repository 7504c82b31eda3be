SPECIFICATION Spec
CONSTANTS
  N = 2
  TxBufs = 1
  MaxFaults = 0
  SlowPolls = TRUE
  MaxTransactions <- FirstTalks
  MaxInbox = 1
  Leavers = {}
PROPERTY QueuedMovesToPending
CHECK_DEADLOCK FALSE
