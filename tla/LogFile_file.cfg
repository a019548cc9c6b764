SPECIFICATION Spec
CONSTANTS
  info = info
  error = error
  app = app
  other = other
  NoFile = NoFile
  NoBase = NoBase
  NoExtension = NoExtension
  Objects = {info}
  DefaultBases <- TwoDirectories
  BaseNames = {app, NoBase}
  Extensions = {NoExtension, other}
  History <- AppHistory
  log_rolling_policy = "size"
  PeriodLength = 100
  UtcOffset = 0
  log_utc_time = FALSE
  MB = 3
  MaxLogSize = 1
  HeaderLength = 1
  Lengths = {1}
  FlushBytes = 3
  kRolloverAttemptFrequency = 3
  logbufsecs = 1
  logcleansecs = 1
  INT_MAX = 20
  stop_logging_if_full_disk = FALSE
  DiskMayFill = FALSE
  StartTime = 1
  Setups <- SizeSetups
INVARIANTS
  TypeOK
  RetriedInTime
  FilesKept
  FileSizeBounded
  OpenFilesLinked
  UnflushedBounded
CHECK_DEADLOCK FALSE
