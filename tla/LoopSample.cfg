SPECIFICATION Spec
CONSTANTS
  N = 2
  TxBufs = 1
  MaxFaults = 1
  SlowPolls = TRUE
  MaxTransactions <- BothTalk
  MaxInbox = 1
  Leavers = {1}
INVARIANTS ResponsesMatch InitializedIsKnown
PROPERTIES JoinsEventually ShutdownCompletes LineComesFree
CHECK_DEADLOCK FALSE
