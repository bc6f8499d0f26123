SPECIFICATION FairSpec
CONSTANTS
  Parts = {"bridge", "histories", "load", "temperature", "filesystems"}
  Requests = {q1, q2}
  NoRequest = none
  one = p1
  Paths = {p1, p2}
  NaN = NaN
  Values = {0, 1, 2}
  Lengths = {2, 3}
  AskedLengths = {1, 2, 3}
  Default = 3
  Reports <- SmallReports
  MaxChanges = 2
  GoneTogether <- Resets
  TemperatureSources <- PackageAndCores
  Readings <- SmallReadings
  SourceOrder <- CoresFirst
  FilesystemSources <- TwoGroups
  Sensor <- SmallSensors
  Amounts <- SmallAmounts
  Filesystems <- SmallFilesystems
  NoMount = "no mount"
  IgnoredMount = "ignored"
  MountOrder <- RootFirst
  GroupOrder <- ByName
  RowLimits = {1, 2}
INVARIANTS
  PartTypeOK
  AnswerIsForPending
  AbsentSeriesIsEmpty
  NewestSampleIsShown
  LoadIsOfPreferredSource
  BestReadingIsShown
  FilesystemRowsAreCurrent
PROPERTIES
  ServesOneAtATime
  SampledOnceAtMost
  LossIsResolved
CHECK_DEADLOCK FALSE
