SPECIFICATION FairSpec
CONSTANTS
  t1 = t1
  t2 = t2
  t3 = t3
  SIGSEGV = SIGSEGV
  SIGABRT = SIGABRT
  SIGTERM = SIGTERM
  Threads = {t1, t2}
  NoThread = NoThread
  kFailureSignals <- ThreeSignals
  NoSignal = NoSignal
  Faults = {SIGSEGV}
  MaxSignals = 4
INVARIANTS
  OneDump
  DumpedBeforeKilled
  StuckOnlyByReentry
PROPERTY CrashTerminates
CHECK_DEADLOCK FALSE
