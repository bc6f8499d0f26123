SPECIFICATION FairSpec
CONSTANTS
  NoSize = "none"
  Catalog <- SmallCatalog
  NetworkSources <- OfNetwork
  DiskSources <- OfDisk
  Refresh = 1
  SettleAge = 2
  MinElapsed <- Shortest
  MaxElapsed <- Longest
  MaxChanges = 1
INVARIANTS
  TypeOK
  NeverCountedTwice
  ShownMatchesState
PROPERTIES
  SteadyCounterIsNotSettled
  LossIsResolved
