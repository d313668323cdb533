SPECIFICATION EncoderSpec
CONSTANTS
  EncodeStreams = {"A", "B"}
  Options <- MCOptions
  ConnectTries = 2
  MaxLosses = 2
  MaxCommands = 1
INVARIANT NothingToRecover
CHECK_DEADLOCK FALSE
