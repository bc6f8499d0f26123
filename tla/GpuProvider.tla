----------------------------- MODULE GpuProvider -----------------------------
(***************************************************************************)
(* The GPU provider of the backend (gpu/nvidia.py, gpu/base.py): how it    *)
(* takes and gives back NVML, and how it makes the device list of the      *)
(* command gpu, each call of which may fail on its own.                    *)
(*                                                                         *)
(* A reading is the set of what a call brought: one value, or none if it   *)
(* failed.  What the integers of C cannot hold is no reading.              *)
(***************************************************************************)
EXTENDS Integers, FiniteSets

CONSTANTS
  Libraries,     \* which of the optional functions a library may have
  DeviceCounts,  \* what the driver may tell as the number of devices
  Readings       \* what each device may tell, by metric, valid or not

Metrics == {"name", "load", "memory", "heat"}
Device == UNION {0 .. n - 1 : n \in DeviceCounts}

ASSUME CountsAssumption == DeviceCounts \subseteq Nat
ASSUME LibrariesAssumption == Libraries \subseteq SUBSET Metrics
ASSUME ReadingsAssumption ==
  \A d \in Device :
    /\ Readings[d].load \subseteq Nat /\ Readings[d].heat \subseteq Nat
    /\ Readings[d].memory \subseteq [used : Nat, total : Nat]

VARIABLES
  provider,   \* failure_reason, or "ready", or "shut" after shutdown()
  bound,      \* the optional functions that the library has
  held,       \* NVML's own count of initialisations without a shutdown
  listing        \* the loop of snapshot(): its range, next index and devices

gpuVars == <<provider, bound, held, listing>>

Names == {"NVIDIA GPU"} \cup UNION {Readings[d].name : d \in Device}
GpuEntries ==
  [index : Nat, name : SUBSET Names, load : SUBSET Nat,
   memory : SUBSET [used : Nat, total : Nat, percent : Nat], heat : SUBSET Nat]

Failures == {"library_unavailable", "required_symbol_unavailable", "initialization_failed"}
NoListing == [count |-> 0, next |-> 0, devices |-> {}]

GpuInit ==
  /\ provider = "library_unavailable"
  /\ bound = {} /\ held = 0 /\ listing = NoListing

----------------------------------------------------------------------------
(* Start and end.                                                          *)

\* CDLL fails, a required symbol is missing, or nvmlInit fails or raises.
Unavailable(reason) ==
  /\ reason \in Failures
  /\ provider' = reason
  /\ bound' \in IF reason = "initialization_failed" THEN Libraries ELSE {{}}
  /\ UNCHANGED <<held, listing>>

\* An older library may lack any of the optional functions.
Initialize ==
  /\ provider' = "ready"
  /\ bound' \in Libraries
  /\ held' = held + 1
  /\ UNCHANGED listing

\* Mutant: the flag alone is reset.
ShutdownForgets ==
  /\ provider' = IF provider = "ready" THEN "shut" ELSE provider
  /\ UNCHANGED <<bound, held, listing>>

\* shutdown(), for which an exception of nvmlShutdown counts as done.
Shutdown ==
  /\ provider' = IF provider = "ready" THEN "shut" ELSE provider
  /\ held' = IF provider = "ready" THEN held - 1 ELSE held
  /\ UNCHANGED <<bound, listing>>

----------------------------------------------------------------------------
(* The values of base.py: what is out of range counts as a failed call.    *)

Percentage(reading) == reading \cap 0 .. 100
TemperatureCelsius(reading) == reading \cap -20 .. 150

\* Mutant: any total will do.
MemoryValuesUnchecked(reading) ==
  {[used |-> r.used, total |-> r.total,
    percent |-> IF r.total > 0 THEN (r.used * 100) \div r.total ELSE 0] : r \in reading}

MemoryValues(reading) ==
  {[used |-> r.used, total |-> r.total, percent |-> (r.used * 100) \div r.total] :
     r \in {m \in reading : m.total > 0 /\ m.used \in 0 .. m.total}}

\* _device_name: a name that is missing, or blank, is replaced.
DeviceName(reading) == IF reading \subseteq {""} THEN {"NVIDIA GPU"} ELSE reading

----------------------------------------------------------------------------
(* snapshot().                                                             *)

\* A function that is missing, or that fails, brings nothing.
Call(metric, d) ==
  IF metric \in bound THEN {{}} \cup {{r} : r \in Readings[d][metric]} ELSE {{}}

\* _device_count fails, or tells how many.
CountDevices ==
  /\ \/ listing' = NoListing
     \/ /\ provider = "ready"
        /\ \E n \in DeviceCounts : listing' = [NoListing EXCEPT !.count = n]
  /\ UNCHANGED <<provider, bound, held>>

\* Mutant: the position in the list, which skipped devices shift.
PositionOf(d) == Cardinality(listing.devices)

IndexOf(d) == d

MoreDevices == listing.next < listing.count

\* The calls for one device, and its entry.
ReadDevice ==
  /\ MoreDevices
  /\ LET d == listing.next IN
     \E name \in Call("name", d), load \in Call("load", d),
        memory \in Call("memory", d), heat \in Call("heat", d) :
       listing' = [listing EXCEPT !.next = d + 1, !.devices = @ \cup
         {[index |-> IndexOf(d), name |-> DeviceName(name), load |-> Percentage(load),
           memory |-> MemoryValues(memory), heat |-> TemperatureCelsius(heat)]}]
  /\ UNCHANGED <<provider, bound, held>>

\* No handle: the device is skipped.
SkipDevice ==
  /\ MoreDevices
  /\ listing' = [listing EXCEPT !.next = @ + 1]
  /\ UNCHANGED <<provider, bound, held>>

\* What handleGpuResponse of BackendProvider.qml selects of a device list:
\* the only entry, or else the one with index 0.
Selected(devices) ==
  IF Cardinality(devices) = 1 THEN devices ELSE {e \in devices : e.index = 0}

----------------------------------------------------------------------------
(* Properties.                                                             *)

\* An entry tells of the device that the driver has under its index, whatever
\* devices were skipped before it, and no index is listed twice; a value the
\* widget would take for a percentage or a size is one.
EntriesAreOfTheirDevice ==
  \A e \in listing.devices :
    /\ e.index < listing.count
    /\ e.load \subseteq Readings[e.index].load \cap 0 .. 100
    /\ e.heat \subseteq Readings[e.index].heat
    /\ \A m \in e.memory :
         /\ \E r \in Readings[e.index].memory : m.used = r.used /\ m.total = r.total
         /\ m.percent \in 0 .. 100
    /\ \A f \in listing.devices : f.index = e.index => f = e
============================================================================
