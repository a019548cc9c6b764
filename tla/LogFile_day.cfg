SPECIFICATION FairSpec
CONSTANTS
  info = info
  error = error
  app = app
  other = other
  NoFile = NoFile
  NoBase = NoBase
  NoExtension = NoExtension
  Objects = {info, error}
  DefaultBases <- OneDirectory
  BaseNames = {app}
  Extensions = {NoExtension}
  History <- AppHistory
  log_rolling_policy = "day"
  PeriodLength = 1
  UtcOffset = 0
  log_utc_time = FALSE
  MB = 2
  MaxLogSize = 1
  HeaderLength = 0
  Lengths = {1}
  FlushBytes = 2
  kRolloverAttemptFrequency = 3
  logbufsecs = 1
  logcleansecs = 1
  INT_MAX = 20
  stop_logging_if_full_disk = TRUE
  DiskMayFill = TRUE
  StartTime = 1
  Setups <- DaySetups
INVARIANT LostOnlyInTrouble
PROPERTY WritingResumes
CHECK_DEADLOCK FALSE
