SPECIFICATION FairSpec
CONSTANTS
  Parts = {"server", "crowd", "sampler", "service", "installer", "release"}
  Servers = {service, developer}
  Service = service
  service = service
  developer = developer
  Conns = {c1, c2, c3}
  Probe = Probe
  NoConn = NoConn
  NoFile = NoFile
  Foreign = Foreign
  Backlog = 0
  MaxStarts = 2
  Pids = {1, 2}
  Sizes = {1}
  Limits = {1}
  SampleLimit = 1
  MaxTracked = 2
  MaxTime = 1
  MaxRequestBytes = 4
  DefaultLimit = 1
  MaxLimit = 2
  Chunk = 2
  ClientLines <- SomeLines
  Libraries <- TwoLibraries
  DeviceCounts = {0, 2}
  Readings <- TwoDevices
  Versions = {"1.0.0", "1.1.0"}
  Releases = {"1.0.0", "1.1.0"}
  MaxDamage = 1
  one = "1.0.0"
  MaxTroubles = 2
INVARIANTS
  PartTypeOK
  CleanExitLeavesNoFile
  RatesSpanOneProcess
  BaselineIsLastScan
  AnswerIsTop
  AnswerIsOfTheLine
  NvmlCallsAreCovered
  EntriesAreOfTheirDevice
  AcceptedIsAsBuilt
PROPERTIES
  ForeignFileIsKept
  StopIsObeyed ServingIsReachable ConnectionsSettle ServiceComesBack
  ClientIsLetGo
  RollbackRestores RerunCompletes
CHECK_DEADLOCK FALSE
