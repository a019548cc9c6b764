SPECIFICATION FairSpec
CONSTANTS
  t1 = t1
  t2 = t2
  custom = custom
  Threads = {t1, t2}
  Main = t1
  Custom = {custom}
  GLOG_FATAL = 3
  kLogBufSize = 6
  TooLong = 3
  kStackDepth = 3
  kCopyBlockSize = 2
  MaxFrame = 50
  WordSize = 8
  kStackLength = 9
  Garbage = 99
  Setups <- AllSetups
INVARIANTS
  TypeOK
  RawLineWhole
  CallersShown
  LostOnlyLate
PROPERTIES
  CrashReasonFinal
  FailureEnds
CHECK_DEADLOCK FALSE
