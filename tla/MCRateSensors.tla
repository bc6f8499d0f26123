--------------------------- MODULE MCRateSensors ---------------------------
(* Instances of RateSensors.tla for TLC.                                   *)
EXTENDS RateSensors, TLC

Source(device, class, direction, mode, priority) ==
  [device |-> device, class |-> class, ignored |-> FALSE, direction |-> direction,
   mode |-> mode, family |-> mode, unitKind |-> IF mode = "counter" THEN "" ELSE "sector",
   priority |-> priority]

\* A network interface with byte counters, a disk with sector counters, and
\* the aggregate with rates.
SmallCatalog ==
  "eth/rx" :> Source("eth", "whole-device", "in", "counter", 30) @@
  "eth/tx" :> Source("eth", "whole-device", "out", "counter", 30) @@
  "sda/read" :> Source("sda", "whole-device", "in", "unitCounter", 50) @@
  "sda/write" :> Source("sda", "whole-device", "out", "unitCounter", 50) @@
  "sda/size" :> Source("sda", "whole-device", "size", "metadata", 0) @@
  "all/in" :> Source("all", "aggregate", "in", "rate", 10) @@
  "all/out" :> Source("all", "aggregate", "out", "rate", 10)

OfNetwork == {"eth/rx", "eth/tx", "all/in", "all/out"}
OfDisk == {"sda/read", "sda/write", "sda/size"}
Shortest == [g \in Groups |-> 1]
Longest == [g \in Groups |-> 2]
============================================================================
