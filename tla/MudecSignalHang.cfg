SPECIFICATION FairSpec
CONSTANTS
  sds = 1
  hds = 1
  MAX_MSGS = 8
  FifoFrames = 1
  FileFrames = 1
  mdec_loop = TRUE
  first_show_hd_stream = FALSE
  test_feed_background = FALSE
  Commands = {" "}
  MaxCmds = 1
  Signals = TRUE
  IoctlsMayFail = FALSE
PROPERTIES
  QuitCompletes
CHECK_DEADLOCK FALSE
