SPECIFICATION Spec
CONSTANTS
  t1 = t1
  t2 = t2
  t3 = t3
  Threads = {t1, t2}
  Sites <- EveryThree
  Modulus = 64
  Period = 2
  StartTime = 3
  MaxTime = 8
  NoTime = NoTime
INVARIANT EveryNInterval
