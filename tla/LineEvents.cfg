CONSTANTS
  Procs = {p1, p2}
  Signals = {"dcd"}
  Masks <- MCMasks
  Limit = 1
  MaxWaits = 3
  MaxClears = 1
  MaxChanges = 2
SPECIFICATION Spec
INVARIANTS NoLostWakeup TrueReturns EventArmed
PROPERTIES LevelReported
CHECK_DEADLOCK FALSE
