CONSTANTS
  MaxFrames = 2
  MaxOps = 2
  Ops = {"timeout", "abort", "flush", "params", "txenable", "stop", "cts"}
  AutoRts = TRUE
  NoEcho = TRUE
SPECIFICATION Spec
INVARIANTS ActiveHasTimer SentOnce Accounting
PROPERTIES RtsDropped DrainEnds AllAccepted
CHECK_DEADLOCK FALSE
