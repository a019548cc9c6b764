SPECIFICATION FairSpec
CONSTANTS
  t1 = t1
  t2 = t2
  helper = helper
  s1 = s1
  s2 = s2
  NoThread = NoThread
  Wedged = Wedged
  Exclusive = Exclusive
  Shared = Shared
  NoSink = NoSink
  Threads = {t1, t2, helper}
  Sinks = {s1}
  NUM_SEVERITIES = 2
  Statements <- InfoFatalStatements
  HelperStatement <- LogInfo
  Clients <- WaitingClients
  Helper <- WaitingHelper
  RWLock = TRUE
  DoubleUnlock = {"ignored", "released", "wedged", "fails"}
  SinksThrow = FALSE
  FailureThrows = FALSE
  ExitValues = {}
  minloglevel = 0
  logtostderr = TRUE
  MaxMessages = 2
  Registered <- OneSink
  DynamicSinks = {}
  MaxSinks = 1
PROPERTIES
  LogReturns
  FatalTerminates
CHECK_DEADLOCK FALSE
