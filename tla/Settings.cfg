SPECIFICATION Spec
CONSTANTS
  Xtal = 20000000
  PreSL1660 = FALSE
  Params <- ParamSet
  Termios <- TermiosSet
  Idles = {"flags", "ones"}
  NetLines <- LineSet
  NetCodings <- CodingSet
  MaxCalls = 5
INVARIANTS ClocksAsAsked SignalsShown LoopbackIsolated
PROPERTIES NoResidue
CHECK_DEADLOCK FALSE
