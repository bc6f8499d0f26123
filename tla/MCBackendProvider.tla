------------------------- MODULE MCBackendProvider -------------------------
(* Instances of BackendProvider.tla for TLC.                               *)
EXTENDS BackendProvider, TLC

CONSTANTS w1, w2

\* One widget: every setting changes, a limit below and one above the answer.
OneWidget == {w1}
TwoWidgets == {w1, w2}
WidgetSymmetry == Permutations(TwoWidgets)
SmallLimits == {1, 2}
OneLimit == {1}
NoSettings == {}
EnabledOnly == {"enabled"}
SortSettings == {"sort"}
============================================================================
