SPECIFICATION FairSpec
CONSTANTS
  Dirs = {d1, d2}
  DefaultDir = d1
  NoDir = NoDir
  NoFile = NoFile
  mtime <- MCTimes
  Room = 1
  MaxFiles = 3
  MaxEdits = 2
INVARIANTS
  TypeOK
  ListOfScannedDir
PROPERTIES
  OldestFirst
  SpaceRestored
CHECK_DEADLOCK FALSE
