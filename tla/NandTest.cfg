SPECIFICATION FairSpec
CONSTANTS
  NumFiles = 3
INVARIANTS
  TypeOK
  NobodyMeetsAWrite
  ResultClosedLast
PROPERTIES
  ImplementsLifecycle
  AbortCompletes
CHECK_DEADLOCK FALSE
