------------------------- MODULE TemperatureSensors -------------------------
(***************************************************************************)
(* The CPU temperature of MetricsProvider.qml: one package-level sensor,   *)
(* or the average of the cores, chosen among the sensors that were read.   *)
(* A reading is reduced to what its metadata say of the sensor, a priority *)
(* and a core; the degrees are those of the selected readings.  Readings   *)
(* the code rejects (no CPU, not between -20 and 150 degrees, a zero       *)
(* placeholder) change nothing and are left out, and so are names that no  *)
(* discovery accepts.                                                      *)
(***************************************************************************)
EXTENDS SensorTree

CONSTANTS
  TemperatureSources,
  Readings,     \* by source: the readings, with priority and core, it may give
  SourceOrder   \* by source: its place among the names

CorePriority == 50   \* a core; below it a sensor of the whole package
NoReading == [priority |-> 999, core |-> ""]
AllReadings == UNION {Readings[s] : s \in TemperatureSources}

ASSUME TemperatureAssumption ==
  /\ \A s \in TemperatureSources : \A r \in Readings[s] :
       r.priority \in 1 .. CorePriority
  /\ SourceOrder \in [TemperatureSources -> Nat]
  /\ \A s, t \in TemperatureSources : SourceOrder[s] = SourceOrder[t] => s = t

VARIABLES
  temperatures,  \* temperatureSamples
  chosen         \* selectedTemperatureSources

temperatureVars == <<treeVars, temperatures, chosen>>

TemperatureTypeOK ==
  /\ TreeTypeOK(TemperatureSources)
  /\ temperatures \in [TemperatureSources -> AllReadings \cup {NoReading}]
  /\ chosen \subseteq TemperatureSources

NoTemperatures ==
  /\ temperatures = [s \in TemperatureSources |-> NoReading]
  /\ chosen = {}

TemperatureInit == TreeInit(TemperatureSources) /\ NoTemperatures

----------------------------------------------------------------------------
(* selectTemperatureSources, on the samples and candidates of the moment.  *)

Valid(samples, sources) ==
  {s \in TemperatureSources : samples[s] # NoReading /\ s \in sources}

\* The order of validSamples: by priority, then by name.
Before(samples, s, t) ==
  \/ samples[s].priority < samples[t].priority
  \/ samples[s].priority = samples[t].priority /\ SourceOrder[s] < SourceOrder[t]

\* The first package-level sensor, or else the first sensor of every core.
Selection(samples, sources) ==
  LET valid == Valid(samples, sources)
      Packages == {s \in valid : samples[s].priority < CorePriority}
      Rivals(s) == IF Packages # {} THEN valid
                   ELSE {t \in valid : samples[t].core = samples[s].core}
  IN  {s \in valid : \A t \in Rivals(s) : t = s \/ Before(samples, s, t)}

\* Without a valid sample everything stays; before is the state without one.
Select(samples, sources, before, kept) ==
  LET selection == Selection(samples, sources)
  IN  IF selection = {} THEN chosen' = kept /\ state' = before
      ELSE chosen' = selection /\ state' = "available"

----------------------------------------------------------------------------
\* rememberTemperatureSample
ReadTemperature(s, reading) ==
  /\ Answers(s)
  /\ temperatures' = [temperatures EXCEPT ![s] = reading]
  /\ Select(temperatures', candidates, state, chosen)
  /\ lost' = (lost /\ state' = "loading")
  /\ UNCHANGED <<plasma, candidates, armed>>

\* handleTemperatureSourceLoss: nothing happens unless s is selected.
LoseTemperature(s, removed) ==
  /\ armed' = ArmedAfterLoss(s \in chosen, removed)
  /\ IF s \notin chosen THEN UNCHANGED <<temperatures, chosen, state, lost>>
     ELSE /\ temperatures' = [temperatures EXCEPT ![s] = NoReading]
          /\ Select(temperatures', candidates, "loading", {})
          /\ lost' = (state' = "loading")

\* Mutant: the candidates change and the selection does not.
DiscoverUnselected ==
  /\ Rediscovered
  /\ UNCHANGED <<temperatures, chosen, state, lost>>

\* discoverTemperatureSources
DiscoverTemperatures ==
  /\ Rediscovered
  /\ Select(temperatures, candidates', state, chosen)
  /\ lost' = (lost /\ state' = "loading")
  /\ UNCHANGED temperatures

TemperatureDiscovery == DiscoveryDue /\ DiscoverTemperatures
TemperatureRetry == RetryDue /\ DiscoverTemperatures
TemperatureDeadline ==
  /\ DeadlineDue
  /\ chosen' = IF state = "available" THEN chosen ELSE {}
  /\ UNCHANGED temperatures

TemperaturePlasma ==
  \/ \E s \in TemperatureSources :
       \/ (SourceAdded(s) \/ SensorRecovers(s)) /\ UNCHANGED <<temperatures, chosen>>
       \/ SourceRemoved(s) /\ \E row \in BOOLEAN : LoseTemperature(s, row)
       \/ SensorFails(s) /\ LoseTemperature(s, FALSE)
  \/ \E gone \in GoneTogether : ModelReset(gone) /\ UNCHANGED <<temperatures, chosen>>

TemperatureNext ==
  \/ TemperaturePlasma
  \/ \E s \in TemperatureSources : \E reading \in Readings[s] : ReadTemperature(s, reading)
  \/ TemperatureDiscovery \/ TemperatureRetry \/ TemperatureDeadline

TemperatureSpec == TemperatureInit /\ [][TemperatureNext]_temperatureVars

----------------------------------------------------------------------------
\* A valid reading is shown at once, and what is shown is always the best
\* there is: one sensor of the package, or one for each core, never both
\* kinds together (README.md:298), through readings that change a sensor's
\* kind, losses and discoveries in any order.
BestReadingIsShown ==
  LET valid == Valid(temperatures, candidates)
      Best(s) == \A t \in valid : ~Before(temperatures, t, s)
      Package(s) == temperatures[s].priority < CorePriority
  IN  valid # {} =>
        /\ state = "available"
        /\ chosen # {} /\ chosen \subseteq valid
        /\ \A s \in chosen : Package(s) => chosen = {s} /\ Best(s)
        /\ \/ \E s \in chosen : Package(s)
           \/ /\ \A s \in valid : ~Package(s)
              /\ \A s \in valid : \E t \in chosen : temperatures[t].core = temperatures[s].core
              /\ \A s, t \in chosen : temperatures[s].core = temperatures[t].core => s = t
=============================================================================
