SPECIFICATION FairSpec
CONSTANTS
  t1 = t1
  t2 = t2
  t3 = t3
  Threads = {t1, t2, t3}
  Sites <- AllMacros
  Modulus = 8
  Period = 2
  StartTime = 3
  MaxTime = 6
  NoTime = NoTime
INVARIANT FirstNLogsN
PROPERTIES
  TimedApart
  KeepsLogging
