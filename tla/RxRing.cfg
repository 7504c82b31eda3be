CONSTANTS
  rx_buffer_count = 3
  max_frame_size = 2
  CrcReturnEx = FALSE
  MaxFrames = 2
  MaxRestarts = 1
  MaxOverruns = 1
  MaxUnderruns = 1
SPECIFICATION Spec
INVARIANTS InStep Ordered
PROPERTIES OverflowRecovers UnderrunRecovers FramesLeaveRing
