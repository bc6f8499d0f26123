---------------------------- MODULE SourcePairs ----------------------------
(***************************************************************************)
(* Which sensor pairs MetricsProvider.qml adds up: chooseNetworkPairs and  *)
(* chooseDiskIoPairs.  A source is known by its descriptor; the parsing of *)
(* its name into one (networkDescriptor, diskIoDescriptor) is data.        *)
(*                                                                         *)
(* The code goes through the sources in the order the sensor tree names    *)
(* them, which this module leaves open: an operator below is the set of    *)
(* choices some order leads to.  Open is also the alphabetical order by    *)
(* which the disk code breaks a tie between devices of one priority.       *)
(***************************************************************************)
EXTENDS Integers

\* deviceClass; the network code has only the first two.
Classes == {"aggregate", "whole-device", "partition", "logical-device"}
Modes == {"rate", "counter", "unitCounter"}
Directions == {"in", "out", "size"}

Descriptors == [device : STRING, class : Classes, ignored : BOOLEAN, direction : Directions,
                mode : Modes \cup {"metadata"}, family : STRING, unitKind : STRING, priority : Nat]

CONSTANTS
  Catalog,   \* the descriptor of every source there may be
  NoSize     \* no size source

ASSUME CatalogAssumption ==
  /\ \A s \in DOMAIN Catalog : Catalog[s] \in Descriptors
  /\ NoSize \notin DOMAIN Catalog

\* A complete pair: rx and tx, or read and write; unit counters need a size.
Pairs == [in : DOMAIN Catalog, out : DOMAIN Catalog, size : DOMAIN Catalog \cup {NoSize}]
SourcesOf(p) == {p.in, p.out, p.size} \ {NoSize}
Device(p) == Catalog[p.in].device
Class(p) == Catalog[p.in].class
Family(p) == Catalog[p.in].family
Mode(p) == Catalog[p.in].mode
Priority(p) == Catalog[p.in].priority

SizeFits(p) ==
  IF Mode(p) # "unitCounter" THEN p.size = NoSize
  ELSE /\ p.size # NoSize
       /\ Catalog[p.size].direction = "size"
       /\ Catalog[p.size].device = Device(p)
       /\ Catalog[p.size].unitKind = Catalog[p.in].unitKind

CompletePairs(sources) ==
  {p \in [in : sources, out : sources, size : sources \cup {NoSize}] :
     /\ Catalog[p.in].direction = "in" /\ Catalog[p.out].direction = "out"
     /\ Catalog[p.out].device = Device(p) /\ Catalog[p.out].family = Family(p)
     /\ Class(p) = "aggregate" \/ ~Catalog[p.in].ignored
     /\ SizeFits(p)}

OfClass(pairs, class) == {p \in pairs : Class(p) = class}

\* The first after sorting by priority.
Best(pairs) == {p \in pairs : \A q \in pairs : Priority(p) <= Priority(q)}

\* One pair of least priority for every device.
BestByDevice(pairs) ==
  {chosen \in SUBSET pairs :
     /\ \A p \in chosen : p \in Best({q \in pairs : Device(q) = Device(p)})
     /\ \A p, q \in chosen : Device(p) = Device(q) => p = q
     /\ \A p \in pairs : \E q \in chosen : Device(q) = Device(p)}

\* [pairs[0]]
OnlyBest(pairs) == {{p} : p \in Best(pairs)}

\* Mutant: the aggregate is one more interface.
NetworkChoicesMixed(sources) == BestByDevice(CompletePairs(sources))

\* chooseNetworkPairs
NetworkChoices(sources) ==
  LET complete == CompletePairs(sources)
      aggregates == OfClass(complete, "aggregate")
  IN  IF complete # aggregates THEN BestByDevice(complete \ aggregates)
      ELSE IF aggregates # {} THEN OnlyBest(aggregates)
      ELSE {{}}

\* chooseDiskIoPairs
DiskChoices(sources) ==
  LET complete == CompletePairs(sources)
      whole == OfClass(complete, "whole-device")
      aggregates == OfClass(complete, "aggregate")
      partitions == OfClass(complete, "partition")
      logical == OfClass(complete, "logical-device")
  IN  IF whole # {} THEN BestByDevice(whole)
      ELSE IF aggregates # {} THEN OnlyBest(aggregates)
      ELSE IF partitions # {} THEN BestByDevice(partitions)
      ELSE IF logical # {} THEN OnlyBest(logical)
      ELSE {{}}

----------------------------------------------------------------------------
\* Two pairs measure some of the same bytes: they are of one device; one is
\* an aggregate; one is a mapper or RAID alias; or one is a partition and the
\* other a whole device, which may be its parent.
Overlap(p, q) ==
  \/ Device(p) = Device(q)
  \/ "aggregate" \in {Class(p), Class(q)}
  \/ "logical-device" \in {Class(p), Class(q)}
  \/ Class(p) # Class(q)

Disjoint(pairs) == \A p, q \in pairs : p # q => ~Overlap(p, q)
============================================================================
