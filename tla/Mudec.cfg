SPECIFICATION FairSpec
CONSTANTS
  sds = 1
  hds = 1
  MAX_MSGS = 1
  FifoFrames = 1
  FileFrames = 1
  mdec_loop = FALSE
  first_show_hd_stream = FALSE
  test_feed_background = FALSE
  Commands = {"q", " ", "s", "z", "csa", "cw", "crsd", "crhd", "cr"}
  MaxCmds = 2
  Signals = TRUE
  IoctlsMayFail = TRUE
INVARIANTS
  TypeOK
  LastCommandObeyed
  ShownAreFed
PROPERTIES
  BlockedOnlyByStuckThread
  QuitUnlessStuck
CHECK_DEADLOCK FALSE
