SPECIFICATION FairSpec
CONSTANTS
  Dirs = {d1, d2}
  DefaultDir = d1
  NoDir = NoDir
  NoFile = NoFile
  mtime <- MCTimes
  Room = 1
  MaxFiles = 1
  MaxEdits = 1
PROPERTIES
  ConfigFollowed
CHECK_DEADLOCK FALSE
