SPECIFICATION FairSpec
CONSTANTS
  Threads = {t1, t2, t3}
  Msg = {m1, m2}
  MAX_MSGS = 2
  MaxCount = 5
  MaxEcho = 1
INVARIANTS
  TypeOK
  NoWakeupLost
PROPERTIES
  ImplementsFifo
  SleepersServed
CHECK_DEADLOCK FALSE
