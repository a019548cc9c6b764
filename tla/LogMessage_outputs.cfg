SPECIFICATION Spec
CONSTANTS
  t1 = t1
  t2 = t2
  helper = helper
  s1 = s1
  s2 = s2
  NoThread = NoThread
  Wedged = Wedged
  Exclusive = Exclusive
  Shared = Shared
  NoSink = NoSink
  Threads = {t1, t2}
  Sinks = {s1, s2}
  NUM_SEVERITIES = 3
  Statements <- OutputStatements
  HelperStatement <- LogInfo
  Clients <- NoClients
  Helper <- NoHelper
  RWLock = TRUE
  DoubleUnlock = {"ignored", "released", "wedged", "fails"}
  SinksThrow = TRUE
  FailureThrows = TRUE
  ExitValues = {FALSE}
  minloglevel = 0
  logtostderr = FALSE
  MaxMessages = 2
  Registered <- OtherSink
  DynamicSinks = {s1}
  MaxSinks = 2
INVARIANTS
  SinkIndexInBounds
  SendsAwaited
  LoggedOnce
PROPERTIES
  OutputsAgree
  CrashReasonKept
SYMMETRY ThreadSymmetry
CHECK_DEADLOCK FALSE
