SPECIFICATION Spec
CONSTANTS
  Size = 6
  Wakeup = 5
  Fifo = 2
  MaxChars = 6
  MaxOps = 2
  Ops = {"stop", "cts", "flush", "params", "txenable", "xchar"}
INVARIANTS
  NotStranded
PROPERTIES
  ImplementsQueue
  AllSent
CHECK_DEADLOCK FALSE
