SPECIFICATION RecorderSpec
CONSTANTS
  RecordStreams = {1, 2}
  FileSize = 1
  MaxSessions = 2
  MaxOutput = 3
  MaxFailures = 0
INVARIANT NoFileLeftOpen
CHECK_DEADLOCK FALSE
