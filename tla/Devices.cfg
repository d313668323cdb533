SPECIFICATION DevicesSpec
CONSTANTS
  Processes = {p1, p2, p3, p4, p5}
  EncodeStreams = {"A", "B"}
  Options <- MCOptions
  ConnectTries = 2
  MaxLosses = 2
  MaxCommands = 1
  RecordStreams = {1, 2}
  FileSize = 1
  MaxSessions = 2
  MaxOutput = 4
  MaxFailures = 1
INVARIANTS
  DevicesTypeOK
  MutualExclusion
  NeverWedged
  ManualModeKept
  RecoveryRestores
  FilesSound
PROPERTIES
  LossesAnswered
  CommandResult
  OutputRead
CHECK_DEADLOCK FALSE
