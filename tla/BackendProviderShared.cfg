SPECIFICATION Spec
CONSTANTS
  w1 = w1
  w2 = w2
  Widgets <- TwoWidgets
  Limits <- OneLimit
  MaxReply = 0
  Settings <- EnabledOnly
INVARIANT InFlightMatchesBridge
SYMMETRY WidgetSymmetry
