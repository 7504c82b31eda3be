SPECIFICATION Spec
CONSTANTS
  NumTxDmaBuffers = 2
  BuffersPerFrame = 2
  H = 2
  Size <- Blocks
  MaxOps = 1
  Ops = {"timeout", "flush", "stop", "txenable"}
INVARIANTS UsedCoversBuffers StreamInOrder
PROPERTIES HoldingDrains WriterServed
CHECK_DEADLOCK FALSE
