SPECIFICATION Spec
CONSTANTS
  Procs = {p1, p2, p3}
  Pci = TRUE
  Clocal = FALSE
  MaxOpens = 3
  MaxFaults = 1
  MaxHangups = 1
  MaxDcd = 2
INVARIANTS
  CountExact
  PortStaysUp
  ResourcesMatch
PROPERTIES
  NoLostCarrier
CHECK_DEADLOCK FALSE
