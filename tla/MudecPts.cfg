SPECIFICATION Spec
CONSTANTS
  sds = 2
  hds = 1
  MAX_MSGS = 8
  FifoFrames = 1
  FileFrames = 1
  mdec_loop = TRUE
  first_show_hd_stream = FALSE
  test_feed_background = FALSE
  Commands = {"cs"}
  MaxCmds = 1
  Signals = FALSE
  IoctlsMayFail = FALSE
PROPERTIES
  AdjustmentKept
CHECK_DEADLOCK FALSE
