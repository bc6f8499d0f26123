SPECIFICATION Spec
CONSTANTS
  NoSize = "none"
  Catalog <- SmallCatalog
  NetworkSources <- OfNetwork
  DiskSources <- OfDisk
  Refresh = 3
  SettleAge = 2
  MinElapsed <- Shortest
  MaxElapsed <- Longest
  MaxChanges = 1
PROPERTY SteadyCounterIsNotSettled
