CONSTANTS
  rx_buffer_count = 3
  max_frame_size = 2
  CrcReturnEx = FALSE
  MaxFrames = 3
  MaxRestarts = 0
  MaxOverruns = 0
  MaxUnderruns = 0
SPECIFICATION Spec
PROPERTY OverflowRestartWhenEmpty
