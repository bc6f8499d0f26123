SPECIFICATION FairSpec
CONSTANTS
  w1 = w1
  w2 = w2
  Widgets <- OneWidget
  Limits <- SmallLimits
  MaxReply = 3
  Settings <- SettingNames
INVARIANTS
  TypeOK
  HiddenSectionsStayEmpty
  ShownDataIsBounded
PROPERTIES
  FallbackIsSticky
  OneRequestAtATime
  QueuedRequestsMove
  SortModeTakesEffect
