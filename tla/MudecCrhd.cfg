SPECIFICATION Spec
CONSTANTS
  sds = 1
  hds = 1
  MAX_MSGS = 8
  FifoFrames = 1
  FileFrames = 1
  mdec_loop = TRUE
  first_show_hd_stream = FALSE
  test_feed_background = FALSE
  Commands = {" ", "crhd"}
  MaxCmds = 3
  Signals = FALSE
  IoctlsMayFail = FALSE
INVARIANTS
  CrhdResumesWhatItShows
CHECK_DEADLOCK FALSE
