------------------------- MODULE WidgetParts_proofs -------------------------
(***************************************************************************)
(* Proofs about the metrics that read Plasma's sensors one by one, for any *)
(* sensors, any values they may give and any number of changes:            *)
(* TemperatureSensors.tla and FilesystemSensors.tla; and, at the end, about*)
(* the five parts of the widget side by side (MCWidgetParts.tla).          *)
(*                                                                         *)
(* What is shown is the best there is because every step that changes the  *)
(* samples or the candidates selects again.  For temperatures the heart is *)
(* that a selection of valid samples is never empty and is of one kind     *)
(* (SelectionIsBest); for filesystems that the mounts which have fewer     *)
(* than the limit before them are the first of all, and as many as may be  *)
(* (FirstMounts), and that the order of the groups has a winner            *)
(* (WinnerIsBest).                                                         *)
(***************************************************************************)
EXTENDS MCWidgetParts, LocalSocketClient_proofs, MetricHistory_proofs,
        FiniteSetTheorems, WellFoundedInduction, TLAPS

----------------------------------------------------------------------------
(* TemperatureSensors.tla.                                                 *)

\* A loss that is not resolved yet: the deadline that resolves it runs.
LossIsTimed == lost => state = "loading" /\ "deadline" \in armed

TemperatureInv == TemperatureTypeOK /\ BestReadingIsShown /\ LossIsTimed

Samples == [TemperatureSources -> AllReadings \cup {NoReading}]

\* What BestReadingIsShown says of a selection.
IsBest(samples, valid, selection) ==
  LET Best(s) == \A t \in valid : ~Before(samples, t, s)
      Package(s) == samples[s].priority < CorePriority
  IN  /\ selection # {} /\ selection \subseteq valid
      /\ \A s \in selection : Package(s) => selection = {s} /\ Best(s)
      /\ \/ \E s \in selection : Package(s)
         \/ /\ \A s \in valid : ~Package(s)
            /\ \A s \in valid : \E t \in selection : samples[t].core = samples[s].core
            /\ \A s, t \in selection : samples[s].core = samples[t].core => s = t

----------------------------------------------------------------------------
\* A set of numbers that is not empty has a smallest one: the intervals that
\* end in its members are finite sets, and one of them contains no other.
LEMMA SmallestOf ==
  ASSUME NEW T, T \subseteq Nat, T # {}
  PROVE  \E x \in T : \A y \in T : x <= y
<1> DEFINE Upto == {0 .. n : n \in T}
           R == StrictSubsetOrdering(Nat)
<1>1. Upto \subseteq FiniteSubsetsOf(Nat) /\ Upto # {}
  <2>1. \A n \in T : IsFiniteSet(0 .. n) /\ 0 .. n \subseteq Nat
    BY FS_Interval
  <2>2. QED
    BY <2>1 DEF FiniteSubsetsOf
<1>2. IsWellFoundedOn(R, FiniteSubsetsOf(Nat))
  BY FS_StrictSubsetOrderingWellFounded
<1>3. \E X \in Upto : \A Y \in Upto : <<Y, X>> \notin R
  <2> HIDE DEF Upto, R
  <2> QED
    BY <1>1, <1>2, WFMin
<1>4. PICK n \in T : \A m \in T : <<0 .. m, 0 .. n>> \notin R
  BY <1>3
<1>5. ASSUME NEW m \in T, m < n PROVE FALSE
  <2>1. 0 .. m \subseteq 0 .. n /\ n \in 0 .. n /\ n \notin 0 .. m
    BY <1>5
  <2>2. <<0 .. m, 0 .. n>> \in R
    BY <2>1 DEF StrictSubsetOrdering
  <2>3. QED
    BY <2>2, <1>4
<1>6. QED
  BY <1>5

\* A reading of the samples has a priority up to that of a core.
LEMMA ValidReadings ==
  ASSUME NEW samples \in Samples, NEW sources, NEW s \in Valid(samples, sources)
  PROVE  samples[s].priority \in 1 .. CorePriority /\ s \in TemperatureSources
BY TemperatureAssumption DEF Samples, Valid, AllReadings

\* Of some valid samples one comes before all others.
LEMMA FirstOf ==
  ASSUME NEW samples \in Samples, NEW sources,
         NEW T, T \subseteq Valid(samples, sources), T # {}
  PROVE  \E s \in T : \A t \in T : t = s \/ Before(samples, s, t)
<1> DEFINE Priorities == {samples[s].priority : s \in T}
<1>1. \A s \in T : samples[s].priority \in Nat /\ SourceOrder[s] \in Nat
  BY ValidReadings, TemperatureAssumption DEF CorePriority
<1>2. Priorities \subseteq Nat /\ Priorities # {}
  BY <1>1
<1>3. PICK p \in Priorities : \A q \in Priorities : p <= q
  BY <1>2, SmallestOf
<1> DEFINE Firsts == {s \in T : samples[s].priority = p}
           Places == {SourceOrder[s] : s \in Firsts}
<1>4. Places \subseteq Nat /\ Places # {}
  BY <1>1, <1>3
<1>5. PICK n \in Places : \A k \in Places : n <= k
  BY <1>4, SmallestOf
<1>6. PICK s \in Firsts : SourceOrder[s] = n
  BY <1>5
<1>7. ASSUME NEW t \in T, t # s PROVE Before(samples, s, t)
  <2>1. p <= samples[t].priority /\ samples[s].priority = p /\ p \in Nat
    BY <1>3, <1>2
  <2>2. CASE t \in Firsts
    <3>1. n <= SourceOrder[t] /\ SourceOrder[t] # SourceOrder[s]
      BY <2>2, <1>5, <1>6, <1>7, ValidReadings, TemperatureAssumption
    <3>2. QED
      BY <3>1, <2>2, <1>1, <1>4, <1>6 DEF Before
  <2>3. CASE t \notin Firsts
    BY <2>1, <2>3, <1>1 DEF Before
  <2>4. QED
    BY <2>2, <2>3
<1>8. QED
  BY <1>7

\* A selection among valid samples is the best there is.
LEMMA SelectionIsBest ==
  ASSUME NEW samples \in Samples, NEW sources
  PROVE  LET valid == Valid(samples, sources)
             selection == Selection(samples, sources)
         IN  /\ valid = {} <=> selection = {}
             /\ valid # {} => IsBest(samples, valid, selection)
<1> DEFINE valid == Valid(samples, sources)
           selection == Selection(samples, sources)
           Package(s) == samples[s].priority < CorePriority
           Packages == {s \in valid : Package(s)}
           SameCore(s) == {t \in valid : samples[t].core = samples[s].core}
<1>1. selection \subseteq valid
  BY DEF Selection
<1>2. \A s \in valid : samples[s].priority \in 1 .. CorePriority /\ SourceOrder[s] \in Nat
  BY ValidReadings, TemperatureAssumption
<1>3. \A s, t \in valid : Before(samples, s, t) => ~Before(samples, t, s)
  BY <1>2 DEF Before, CorePriority
<1>4. CASE Packages # {}
  <2>1. PICK s \in valid : \A t \in valid : t = s \/ Before(samples, s, t)
    BY <1>4, FirstOf
  <2>2. Package(s)
    BY <1>4, <1>2, <2>1 DEF Before, CorePriority
  <2>3. selection = {s}
    <3>1. selection = {t \in valid : \A u \in valid : u = t \/ Before(samples, t, u)}
      BY <1>4 DEF Selection
    <3>2. QED
      BY <3>1, <2>1, <1>3
  <2>4. \A t \in valid : ~Before(samples, t, s)
    BY <2>1, <1>2, <1>3 DEF Before, CorePriority
  <2>5. QED
    BY <2>2, <2>3, <2>4 DEF IsBest
<1>5. CASE Packages = {} /\ valid # {}
  <2>1. selection = {s \in valid : \A t \in SameCore(s) : t = s \/ Before(samples, s, t)}
    BY <1>5 DEF Selection
  <2>2. ASSUME NEW s \in valid PROVE \E t \in selection : samples[t].core = samples[s].core
    <3>1. s \in SameCore(s) /\ SameCore(s) \subseteq valid
      OBVIOUS
    <3>2. PICK t \in SameCore(s) : \A u \in SameCore(s) : u = t \/ Before(samples, t, u)
      BY <3>1, FirstOf
    <3>3. SameCore(t) = SameCore(s)
      BY <3>2
    <3>4. QED
      BY <3>2, <3>3, <2>1
  <2>3. \A s, t \in selection : samples[s].core = samples[t].core => s = t
    BY <2>1, <1>3
  <2>4. QED
    BY <1>1, <1>5, <2>2, <2>3 DEF IsBest
<1>6. CASE valid = {}
  BY <1>1, <1>6
<1>7. QED
  BY <1>4, <1>5, <1>6 DEF IsBest

----------------------------------------------------------------------------
\* No sensor was read at first.
LEMMA TemperatureStarts == TemperatureInit => TemperatureInv
<1> SUFFICES ASSUME TemperatureInit PROVE TemperatureInv
  OBVIOUS
<1>1. TemperatureTypeOK
  BY TreeAssumption DEF TemperatureInit, TreeInit, NoTemperatures, TemperatureTypeOK, TreeTypeOK, Timers
<1>2. BestReadingIsShown
  BY DEF TemperatureInit, NoTemperatures, BestReadingIsShown, Valid
<1>3. LossIsTimed
  BY DEF TemperatureInit, TreeInit, LossIsTimed
<1>4. QED
  BY <1>1, <1>2, <1>3 DEF TemperatureInv

\* Every step keeps the types of the temperature metric.
LEMMA TemperatureTypeStep ==
  TemperatureTypeOK /\ [TemperatureNext]_temperatureVars => TemperatureTypeOK'
<1> SUFFICES ASSUME TemperatureTypeOK, [TemperatureNext]_temperatureVars
             PROVE  TemperatureTypeOK'
  OBVIOUS
<1> USE DEF TemperatureTypeOK, TreeTypeOK, Timers
<1>1. ASSUME NEW samples, NEW sources PROVE Selection(samples, sources) \subseteq TemperatureSources
  BY DEF Selection, Valid
<1>2. CASE UNCHANGED temperatureVars
  BY <1>2 DEF temperatureVars, treeVars, plasma
<1>3. CASE TemperaturePlasma
  <2>1. ASSUME NEW s \in TemperatureSources, SourceAdded(s) \/ SensorRecovers(s),
               UNCHANGED <<temperatures, chosen>>
        PROVE  TemperatureTypeOK'
    <3>1. changes' \in 0 .. MaxChanges
      BY <2>1, TreeAssumption DEF SourceAdded, SensorRecovers, Change
    <3>2. live' \subseteq tree' /\ tree' \subseteq TemperatureSources /\ armed' \subseteq Timers
      BY <2>1 DEF SourceAdded, SensorRecovers
    <3>3. UNCHANGED <<candidates, state, lost, temperatures, chosen>>
      BY <2>1 DEF SourceAdded, SensorRecovers
    <3>4. QED
      BY <3>1, <3>2, <3>3
  <2>2. ASSUME NEW s \in TemperatureSources, NEW row \in BOOLEAN,
               SourceRemoved(s) \/ SensorFails(s), LoseTemperature(s, row)
        PROVE  TemperatureTypeOK'
    <3>1. live' \subseteq tree' /\ tree' \subseteq TemperatureSources
            /\ changes' \in 0 .. MaxChanges /\ candidates' = candidates
      BY <2>2, TreeAssumption DEF SourceRemoved, SensorFails, Change
    <3>2. armed' \subseteq Timers /\ lost' \in BOOLEAN
      BY <2>2 DEF LoseTemperature, ArmedAfterLoss
    <3>3. temperatures' \in [TemperatureSources -> AllReadings \cup {NoReading}]
      BY <2>2 DEF LoseTemperature
    <3>4. chosen' \subseteq TemperatureSources /\ state' \in {"loading", "available", "unavailable"}
      BY <2>2, <1>1 DEF LoseTemperature, Select
    <3>5. QED
      BY <3>1, <3>2, <3>3, <3>4
  <2>3. ASSUME NEW gone, ModelReset(gone), UNCHANGED <<temperatures, chosen>>
        PROVE  TemperatureTypeOK'
    BY <2>3, TreeAssumption DEF ModelReset, Change
  <2>4. QED
    BY <1>3, <2>1, <2>2, <2>3 DEF TemperaturePlasma
<1>4. ASSUME NEW s \in TemperatureSources, NEW reading \in Readings[s], ReadTemperature(s, reading)
      PROVE  TemperatureTypeOK'
  <2>1. reading \in AllReadings
    BY DEF AllReadings
  <2>2. QED
    BY <1>4, <1>1, <2>1 DEF ReadTemperature, Select, plasma
<1>5. CASE TemperatureDiscovery \/ TemperatureRetry
  <2>1. candidates' \subseteq TemperatureSources /\ UNCHANGED plasma /\ armed' \subseteq armed
    BY <1>5 DEF TemperatureDiscovery, TemperatureRetry, DiscoverTemperatures, Rediscovered,
       DiscoveryDue, RetryDue
  <2>2. chosen' \subseteq TemperatureSources /\ state' \in {"loading", "available", "unavailable"}
    BY <1>5, <1>1 DEF TemperatureDiscovery, TemperatureRetry, DiscoverTemperatures, Select
  <2>3. lost' \in BOOLEAN /\ temperatures' = temperatures
    BY <1>5 DEF TemperatureDiscovery, TemperatureRetry, DiscoverTemperatures
  <2>4. QED
    BY <2>1, <2>2, <2>3 DEF plasma
<1>6. CASE TemperatureDeadline
  BY <1>6 DEF TemperatureDeadline, DeadlineDue, plasma
<1>7. QED
  BY <1>2, <1>3, <1>4, <1>5, <1>6 DEF TemperatureNext

\* A step that selects shows the best reading.
LEMMA SelectShowsBest ==
  ASSUME temperatures' \in Samples, NEW before, NEW kept,
         Select(temperatures', candidates', before, kept)
  PROVE  BestReadingIsShown'
<1> DEFINE valid == Valid(temperatures', candidates')
<1>1. /\ valid = {} <=> Selection(temperatures', candidates') = {}
      /\ valid # {} => IsBest(temperatures', valid, Selection(temperatures', candidates'))
  BY SelectionIsBest
<1>2. valid # {} => state' = "available" /\ IsBest(temperatures', valid, chosen')
  BY <1>1 DEF Select
<1>3. QED
  BY <1>2 DEF IsBest, BestReadingIsShown

\* A step that changes neither samples nor candidates nor what is shown.
LEMMA KeptShowsBest ==
  ASSUME BestReadingIsShown, UNCHANGED <<temperatures, candidates, chosen, state>>
  PROVE  BestReadingIsShown'
BY DEF BestReadingIsShown, Valid, Before

\* Every step shows the best reading of the samples that it leaves.
LEMMA BestReadingStep ==
  TemperatureTypeOK' /\ BestReadingIsShown /\ [TemperatureNext]_temperatureVars
    => BestReadingIsShown'
<1> SUFFICES ASSUME TemperatureTypeOK', BestReadingIsShown, [TemperatureNext]_temperatureVars
             PROVE  BestReadingIsShown'
  OBVIOUS
<1>0. temperatures' \in Samples
  BY DEF TemperatureTypeOK, Samples
<1>1. CASE UNCHANGED temperatureVars
  BY <1>1, KeptShowsBest DEF temperatureVars, treeVars
<1>2. CASE TemperaturePlasma
  <2>1. ASSUME NEW s \in TemperatureSources, NEW row \in BOOLEAN,
               LoseTemperature(s, row), UNCHANGED candidates
        PROVE  BestReadingIsShown'
    <3>1. CASE s \in chosen
      <4>1. Select(temperatures', candidates', "loading", {})
        BY <2>1, <3>1 DEF LoseTemperature, Select
      <4>2. QED
        BY <4>1, <1>0, SelectShowsBest
    <3>2. CASE s \notin chosen
      BY <2>1, <3>2, KeptShowsBest DEF LoseTemperature
    <3>3. QED
      BY <3>1, <3>2
  <2>2. QED
    BY <1>2, <2>1, KeptShowsBest DEF TemperaturePlasma, SourceAdded, SensorRecovers,
       SourceRemoved, SensorFails, ModelReset
<1>3. ASSUME NEW s \in TemperatureSources, NEW reading \in Readings[s], ReadTemperature(s, reading)
      PROVE  BestReadingIsShown'
  <2>1. Select(temperatures', candidates', state, chosen)
    BY <1>3 DEF ReadTemperature, Select
  <2>2. QED
    BY <2>1, <1>0, SelectShowsBest
<1>4. CASE TemperatureDiscovery \/ TemperatureRetry
  <2>1. Select(temperatures', candidates', state, chosen)
    BY <1>4 DEF TemperatureDiscovery, TemperatureRetry, DiscoverTemperatures, Select
  <2>2. QED
    BY <2>1, <1>0, SelectShowsBest
<1>5. CASE TemperatureDeadline
  <2>1. CASE state = "available"
    BY <1>5, <2>1, KeptShowsBest DEF TemperatureDeadline, DeadlineDue
  <2>2. CASE state # "available"
    BY <1>5, <2>2 DEF TemperatureDeadline, DeadlineDue, BestReadingIsShown, Valid
  <2>3. QED
    BY <2>1, <2>2
<1>6. QED
  BY <1>1, <1>2, <1>3, <1>4, <1>5 DEF TemperatureNext

\* A loss starts the deadline, and only what resolves the loss ends it.
LEMMA TemperatureLossStep == LossIsTimed /\ [TemperatureNext]_temperatureVars => LossIsTimed'
<1> SUFFICES ASSUME LossIsTimed, [TemperatureNext]_temperatureVars PROVE LossIsTimed'
  OBVIOUS
<1>1. CASE UNCHANGED temperatureVars
  BY <1>1 DEF temperatureVars, treeVars, LossIsTimed
<1>2. CASE TemperaturePlasma
  <2>1. ASSUME NEW s, NEW row, LoseTemperature(s, row) PROVE LossIsTimed'
    BY <2>1 DEF LoseTemperature, ArmedAfterLoss, Timers, LossIsTimed
  <2>2. QED
    BY <1>2, <2>1 DEF TemperaturePlasma, SourceAdded, SensorRecovers, SensorFails, ModelReset, LossIsTimed
<1>3. ASSUME NEW s, NEW reading, ReadTemperature(s, reading)
      PROVE  LossIsTimed'
  BY <1>3 DEF ReadTemperature, LossIsTimed
<1>4. CASE TemperatureDiscovery \/ TemperatureRetry
  BY <1>4 DEF TemperatureDiscovery, TemperatureRetry, DiscoverTemperatures, DiscoveryDue, RetryDue, LossIsTimed
<1>5. CASE TemperatureDeadline
  BY <1>5 DEF TemperatureDeadline, DeadlineDue, LossIsTimed
<1>6. QED
  BY <1>1, <1>2, <1>3, <1>4, <1>5 DEF TemperatureNext

\* All of it.
LEMMA TemperatureStep == TemperatureInv /\ [TemperatureNext]_temperatureVars => TemperatureInv'
BY TemperatureTypeStep, BestReadingStep, TemperatureLossStep DEF TemperatureInv

\* The invariant, for any sensors and readings.
THEOREM TemperatureInvariant == TemperatureSpec => []TemperatureInv
BY TemperatureStarts, TemperatureStep, PTL DEF TemperatureSpec

\* Type correctness of the temperature metric.
THEOREM TemperatureTypeCorrect == TemperatureSpec => []TemperatureTypeOK
<1>1. TemperatureInv => TemperatureTypeOK
  BY DEF TemperatureInv
<1>2. QED
  BY <1>1, TemperatureInvariant, PTL

\* Whatever is read, lost, found or reset, and in whatever order, the shown
\* temperature is the best reading there is: one package sensor, or one
\* sensor of each core.
THEOREM BestReadingIsAlwaysShown == TemperatureSpec => []BestReadingIsShown
<1>1. TemperatureInv => BestReadingIsShown
  BY DEF TemperatureInv
<1>2. QED
  BY <1>1, TemperatureInvariant, PTL

----------------------------------------------------------------------------
(* FilesystemSensors.tla.                                                  *)

SampledAmounts == [FilesystemSources -> Nat \cup {NoAmount}]

\* What a group told are numbers that were read.
LEMMA ToldIsNumbers ==
  ASSUME NEW samples \in SampledAmounts, NEW sources \in SUBSET FilesystemSources,
         NEW g \in FsGroups, NEW role \in DOMAIN Told(samples, sources)[g]
  PROVE  Told(samples, sources)[g][role] \in Nat
<1> DEFINE Known == {s \in sources : Sensor[s].group = g /\ samples[s] # NoAmount}
           known == CHOOSE s \in Known : Sensor[s].role = role
<1>1. Told(samples, sources)[g] = [r \in {Sensor[s].role : s \in Known} |->
                                     samples[CHOOSE s \in Known : Sensor[s].role = r]]
  BY DEF Told
<1>2. role \in {Sensor[s].role : s \in Known}
  BY <1>1
<1>3. known \in Known
  BY <1>2
<1>4. Told(samples, sources)[g][role] = samples[known]
  BY <1>1, <1>2
<1> HIDE DEF known
<1>5. QED
  BY <1>3, <1>4 DEF SampledAmounts

\* The entry of a group that is complete is a row.
LEMMA CompleteIsARow ==
  ASSUME NEW samples \in SampledAmounts, NEW sources \in SUBSET FilesystemSources,
         NEW g \in FsGroups, Complete(Told(samples, sources)[g])
  PROVE  LET told == Told(samples, sources)[g]
         IN  UsedBytes(told) \in Nat /\ told["total"] \in Nat
<1>1. Told(samples, sources)[g]["total"] \in Nat
  BY ToldIsNumbers DEF Complete, Knows
<1> HIDE DEF Told
<1>2. QED
  BY <1>1 DEF Complete

\* The completeness of a group is a number of points.
LEMMA ScoreIsBounded ==
  ASSUME NEW told
  PROVE  Score(told) \in 0 .. 14
<1> DEFINE Points(role, n) == IF Knows(told, {role}) THEN n ELSE 0
<1>1. /\ Points("used", 4) \in {0, 4} /\ Points("total", 4) \in {0, 4}
      /\ Points("available", 3) \in {0, 3} /\ Points("percent", 2) \in {0, 2}
      /\ Points("type", 1) \in {0, 1}
  OBVIOUS
<1>2. Score(told) = Points("used", 4) + Points("total", 4) + Points("available", 3)
                      + Points("percent", 2) + Points("type", 1)
  BY DEF Score
<1> HIDE DEF Points
<1>3. QED
  BY <1>1, <1>2

\* Of the groups that describe a mount one wins, and none is more complete.
LEMMA WinnerIsBest ==
  ASSUME NEW all, NEW m, Describing(all, m) # {}
  PROVE  /\ Winner(all, m) \in Describing(all, m)
         /\ \A h \in Describing(all, m) : Score(all[h]) <= Score(all[Winner(all, m)])
<1> DEFINE groups == Describing(all, m)
           Missing == {14 - Score(all[g]) : g \in groups}
<1>1. \A g \in groups : Score(all[g]) \in 0 .. 14 /\ GroupOrder[g] \in Nat
  BY ScoreIsBounded, FilesystemAssumption DEF Describing
<1>2. Missing \subseteq Nat /\ Missing # {}
  BY <1>1
<1>3. PICK least \in Missing : \A n \in Missing : least <= n
  BY <1>2, SmallestOf
<1>4. PICK best \in groups : least = 14 - Score(all[best])
  BY <1>3
<1>5. ASSUME NEW h \in groups
      PROVE  Score(all[h]) <= Score(all[best])
  <2>1. least <= 14 - Score(all[h])
    BY <1>3
  <2>2. Score(all[h]) \in 0 .. 14 /\ Score(all[best]) \in 0 .. 14
    BY <1>1
  <2>3. QED
    BY <1>4, <2>1, <2>2
<1> DEFINE Firsts == {g \in groups : Score(all[g]) = Score(all[best])}
           Places == {GroupOrder[g] : g \in Firsts}
<1>6. Places \subseteq Nat /\ Places # {}
  BY <1>1, <1>4
<1>7. PICK place \in Places : \A n \in Places : place <= n
  BY <1>6, SmallestOf
<1>8. PICK first \in Firsts : GroupOrder[first] = place
  BY <1>7
<1>9. \A h \in groups \ {first} : Better(all, first, h)
  <2> SUFFICES ASSUME NEW h \in groups, h # first PROVE Better(all, first, h)
    OBVIOUS
  <2>1. CASE h \in Firsts
    <3>1. GroupOrder[h] # GroupOrder[first]
      BY FilesystemAssumption DEF Describing
    <3>2. place <= GroupOrder[h] /\ GroupOrder[h] \in Nat /\ place \in Nat
      BY <1>1, <1>6, <1>7, <2>1
    <3>3. QED
      BY <1>8, <2>1, <3>1, <3>2 DEF Better
  <2>2. CASE h \notin Firsts
    BY <1>1, <1>5, <1>8, <2>2 DEF Better
  <2>3. QED
    BY <2>1, <2>2
<1>10. /\ Winner(all, m) \in groups
       /\ \A h \in groups \ {Winner(all, m)} : Better(all, Winner(all, m), h)
  <2>1. Winner(all, m) = CHOOSE g \in groups : \A h \in groups \ {g} : Better(all, g, h)
    BY DEF Winner
  <2> HIDE DEF groups
  <2>2. QED
    BY <1>8, <1>9, <2>1
<1>11. QED
  BY <1>1, <1>10 DEF Better

\* The mounts of D before m, and how many they are.
Under(D, m) == {n \in D : MountOrder[n] < MountOrder[m]}
Place(D, m) == Cardinality(Under(D, m))

\* Mounts are finitely many, and no two have the same order; one that comes
\* before another has fewer mounts before it.
LEMMA PlacesOfMounts ==
  ASSUME NEW D \in SUBSET MountPaths
  PROVE  /\ \A S \in SUBSET D : IsFiniteSet(S) /\ Cardinality(S) \in Nat
         /\ \A m \in D : MountOrder[m] \in Nat /\ Place(D, m) \in Nat
         /\ \A m, n \in D : MountOrder[m] = MountOrder[n] => m = n
         /\ \A m, n \in D : MountOrder[n] < MountOrder[m] => Place(D, n) < Place(D, m)
<1>1. \A S \in SUBSET D : IsFiniteSet(S) /\ Cardinality(S) \in Nat
  BY FilesystemAssumption, FS_Subset, FS_CardinalityType
<1>2. \A m \in D : MountOrder[m] \in Nat
  BY FilesystemAssumption
<1>3. \A m \in D : Under(D, m) \in SUBSET D
  BY DEF Under
<1>4. \A m \in D : Place(D, m) \in Nat
  BY <1>1, <1>3 DEF Place
<1>5. ASSUME NEW m \in D, NEW n \in D, MountOrder[n] < MountOrder[m]
      PROVE  Place(D, n) < Place(D, m)
  <2>1. n \notin Under(D, n) /\ Under(D, n) \cup {n} \subseteq Under(D, m)
    BY <1>2, <1>5 DEF Under
  <2>2. Cardinality(Under(D, n) \cup {n}) = Cardinality(Under(D, n)) + 1
    BY <1>1, <1>3, <2>1, FS_AddElement
  <2>3. Cardinality(Under(D, n) \cup {n}) <= Cardinality(Under(D, m))
    BY <1>1, <1>3, <2>1, FS_Subset
  <2>4. Cardinality(Under(D, n)) \in Nat /\ Cardinality(Under(D, m)) \in Nat
    BY <1>1, <1>3
  <2>5. QED
    BY <2>2, <2>3, <2>4 DEF Place
<1>6. QED
  BY <1>1, <1>2, <1>4, <1>5, FilesystemAssumption

\* The mounts with fewer than limit before them are the first ones of all, and
\* limit of them unless these are all.
LEMMA FirstMounts ==
  ASSUME NEW D \in SUBSET MountPaths, NEW limit \in Nat,
         NEW L, L = {m \in D : Place(D, m) < limit}
  PROVE  /\ Cardinality(L) <= limit
         /\ L # D => Cardinality(L) = limit
         /\ \A m \in L, n \in D \ L : MountOrder[m] < MountOrder[n]
<1>1. L \in SUBSET D /\ IsFiniteSet(L) /\ Cardinality(L) \in Nat
  BY PlacesOfMounts
<1>2. \A m \in D : MountOrder[m] \in Nat /\ Place(D, m) \in Nat
  BY PlacesOfMounts
<1>3. \A m, n \in D : MountOrder[m] = MountOrder[n] => m = n
  BY PlacesOfMounts
<1>4. \A m, n \in D : MountOrder[n] < MountOrder[m] => Place(D, n) < Place(D, m)
  BY PlacesOfMounts
<1>5. ASSUME NEW m \in L, NEW n \in D \ L
      PROVE  MountOrder[m] < MountOrder[n]
  <2>1. Place(D, m) < limit /\ ~(Place(D, n) < limit) /\ m \in D /\ n \in D
    OBVIOUS
  <2>2. ~(MountOrder[n] < MountOrder[m])
    BY <1>2, <1>4, <2>1
  <2>3. MountOrder[n] # MountOrder[m]
    BY <1>3, <2>1
  <2>4. QED
    BY <1>2, <2>1, <2>2, <2>3
<1>6. Cardinality(L) <= limit
  <2>1. CASE L = {}
    <3>1. Cardinality(L) = 0
      BY <2>1, FS_EmptySet
    <3>2. QED
      BY <3>1
  <2>2. CASE L # {}
    <3> DEFINE Room == {limit - Place(D, m) : m \in L}
    <3>1. \A m \in L : m \in D /\ Place(D, m) \in Nat /\ Place(D, m) < limit
      BY <1>2
    <3>2. Room \subseteq Nat /\ Room # {}
      BY <2>2, <3>1
    <3>3. PICK least \in Room : \A n \in Room : least <= n
      BY <3>2, SmallestOf
    <3>4. PICK m \in L : least = limit - Place(D, m)
      BY <3>3
    <3>5. ASSUME NEW n \in L
          PROVE  Place(D, n) <= Place(D, m)
      <4>1. least <= limit - Place(D, n)
        BY <3>3
      <4>2. Place(D, n) \in Nat /\ Place(D, m) \in Nat
        BY <3>1
      <4>3. QED
        BY <3>4, <4>1, <4>2
    <3>6. \A n \in L : n = m \/ MountOrder[n] < MountOrder[m]
      <4> SUFFICES ASSUME NEW n \in L, n # m PROVE MountOrder[n] < MountOrder[m]
        OBVIOUS
      <4>1. ~(MountOrder[m] < MountOrder[n])
        BY <1>2, <1>4, <3>1, <3>5
      <4>2. MountOrder[n] # MountOrder[m]
        BY <1>3, <3>1
      <4>3. QED
        BY <1>2, <3>1, <4>1, <4>2
    <3>7. L \in SUBSET (Under(D, m) \cup {m}) /\ m \notin Under(D, m) /\ Under(D, m) \in SUBSET D
      BY <1>2, <3>1, <3>6 DEF Under
    <3>8. /\ IsFiniteSet(Under(D, m) \cup {m})
          /\ Cardinality(Under(D, m) \cup {m}) = Place(D, m) + 1
      BY <3>7, PlacesOfMounts, FS_AddElement DEF Place
    <3>9. Cardinality(L) <= Cardinality(Under(D, m) \cup {m})
      BY <3>7, <3>8, FS_Subset
    <3>10. QED
      BY <1>1, <3>1, <3>8, <3>9
  <2>3. QED
    BY <2>1, <2>2
<1>7. ASSUME L # D
      PROVE  limit <= Cardinality(L)
  <2> DEFINE Orders == {MountOrder[n] : n \in D \ L}
  <2>1. Orders \subseteq Nat /\ Orders # {}
    BY <1>1, <1>2, <1>7
  <2>2. PICK order \in Orders : \A n \in Orders : order <= n
    BY <2>1, SmallestOf
  <2>3. PICK n \in D \ L : MountOrder[n] = order
    BY <2>2
  <2>4. Under(D, n) \in SUBSET L
    <3> SUFFICES ASSUME NEW k \in D, MountOrder[k] < MountOrder[n], k \notin L PROVE FALSE
      BY DEF Under
    <3>1. order <= MountOrder[k]
      BY <2>2
    <3>2. QED
      BY <1>2, <2>3, <3>1
  <2>5. Place(D, n) <= Cardinality(L)
    BY <1>1, <2>4, FS_Subset DEF Place
  <2>6. limit <= Place(D, n)
    BY <1>2, <2>3
  <2>7. QED
    BY <1>1, <1>2, <2>3, <2>5, <2>6
<1>8. QED
  BY <1>1, <1>5, <1>6, <1>7

\* What RowsAreCurrent says of rows r, of what was told and of a limit.
AreCurrent(r, all, limit) ==
  /\ DOMAIN r \subseteq Described(all)
  /\ Cardinality(DOMAIN r) <= limit
  /\ DOMAIN r # Described(all) => Cardinality(DOMAIN r) = limit
  /\ \A m \in DOMAIN r, n \in Described(all) \ DOMAIN r : MountOrder[m] < MountOrder[n]
  /\ \A m \in DOMAIN r : \E g \in Describing(all, m) :
       /\ r[m] = [used |-> UsedBytes(all[g]), total |-> all[g]["total"]]
       /\ \A h \in Describing(all, m) : Score(all[h]) <= Score(all[g])

\* It does, of the next state too.
LEMMA CurrentIs ==
  /\ RowsAreCurrent <=> /\ AreCurrent(rows, Told(amounts, candidates), rowLimit)
                        /\ state = "available" <=> DOMAIN rows # {}
  /\ RowsAreCurrent' <=> /\ AreCurrent(rows', Told(amounts', candidates'), rowLimit')
                         /\ state' = "available" <=> DOMAIN rows' # {}
<1>1. RowsAreCurrent <=> /\ AreCurrent(rows, Told(amounts, candidates), rowLimit)
                         /\ state = "available" <=> DOMAIN rows # {}
  BY DEF RowsAreCurrent, AreCurrent
<1>2. RowsAreCurrent' <=> /\ AreCurrent(rows', Told(amounts', candidates'), rowLimit')
                          /\ state' = "available" <=> DOMAIN rows' # {}
  <2>1. Told(amounts, candidates)' = Told(amounts', candidates')
    BY DEF Told
  <2>2. QED
    BY <2>1 DEF RowsAreCurrent, AreCurrent, Described, Describing, Complete, UsedBytes, UsedIsDirect,
      Score, Knows, Ignored, MountOf
<1>3. QED
  BY <1>1, <1>2

\* A step that updates the rows makes them those of the samples at hand.
LEMMA UpdatedRowsAreCurrent ==
  ASSUME rowLimit' \in Nat, UpdateEntries(amounts', candidates', rowLimit')
  PROVE  RowsAreCurrent'
<1> DEFINE all == Told(amounts', candidates')
           D == Described(all)
           L == Listed(all, rowLimit')
<1>1. rows' = [m \in L |-> Entry(all, m)] /\ DOMAIN rows' = L
  BY DEF UpdateEntries, Synced, Entries
<1>2. state' = "available" <=> L # {}
  BY <1>1 DEF UpdateEntries
<1>3. D \in SUBSET MountPaths /\ L = {m \in D : Place(D, m) < rowLimit'}
  BY DEF Described, Listed, Place, Under
<1>4. /\ Cardinality(L) <= rowLimit'
      /\ L # D => Cardinality(L) = rowLimit'
      /\ \A m \in L, n \in D \ L : MountOrder[m] < MountOrder[n]
  <2> HIDE DEF D, L
  <2>1. QED
    BY <1>3, FirstMounts
<1>5. ASSUME NEW m \in L
      PROVE  \E g \in Describing(all, m) :
               /\ rows'[m] = [used |-> UsedBytes(all[g]), total |-> all[g]["total"]]
               /\ \A h \in Describing(all, m) : Score(all[h]) <= Score(all[g])
  <2>1. Describing(all, m) # {}
    BY <1>3 DEF Described
  <2>2. rows'[m] = Entry(all, m)
    BY <1>1
  <2> HIDE DEF all
  <2>3. /\ Winner(all, m) \in Describing(all, m)
        /\ \A h \in Describing(all, m) : Score(all[h]) <= Score(all[Winner(all, m)])
    BY <2>1, WinnerIsBest
  <2>4. QED
    BY <2>2, <2>3 DEF Entry
<1>6. AreCurrent(rows', all, rowLimit')
  <2>1. L \subseteq D
    BY <1>3
  <2> HIDE DEF L, all
  <2>2. QED
    BY <1>1, <1>4, <1>5, <2>1 DEF AreCurrent
<1>7. QED
  BY <1>1, <1>2, <1>6, CurrentIs

\* A step that leaves the samples, the candidates and the rows alone.
LEMMA KeptRowsAreCurrent ==
  ASSUME RowsAreCurrent, UNCHANGED <<amounts, candidates, rows, rowLimit>>,
         state' = "available" <=> state = "available"
  PROVE  RowsAreCurrent'
BY CurrentIs

FilesystemInv == FilesystemTypeOK /\ RowsAreCurrent /\ LossIsTimed

\* What the sensors' events do with the tree is typed.
LEMMA TreeStep ==
  ASSUME NEW sources, TreeTypeOK(sources),
         \/ \E s \in sources : SourceAdded(s) \/ SensorRecovers(s) \/ SourceRemoved(s) \/ SensorFails(s)
         \/ \E gone \in GoneTogether : ModelReset(gone)
  PROVE  /\ live' \subseteq tree' /\ tree' \subseteq sources /\ changes' \in 0 .. MaxChanges
         /\ candidates' = candidates
<1>1. changes' \in 0 .. MaxChanges
  BY TreeAssumption DEF TreeTypeOK, SourceAdded, SensorRecovers, SourceRemoved, SensorFails, ModelReset, Change
<1>2. QED
  BY <1>1 DEF TreeTypeOK, SourceAdded, SensorRecovers, SourceRemoved, SensorFails, ModelReset

\* Of updated rows: every one has its bytes, and the state tells of them.
LEMMA UpdatedRowsAreTyped ==
  ASSUME amounts' \in SampledAmounts, candidates' \in SUBSET FilesystemSources,
         state \in {"loading", "available", "unavailable"},
         UpdateEntries(amounts', candidates', rowLimit')
  PROVE  /\ \E shown \in SUBSET MountPaths : rows' \in [shown -> [used : Nat, total : Nat]]
         /\ state' \in {"loading", "available", "unavailable"}
<1> DEFINE all == Told(amounts', candidates')
           L == Listed(all, rowLimit')
<1>1. rows' = [m \in L |-> Entry(all, m)]
  BY DEF UpdateEntries, Synced, Entries
<1>2. L \in SUBSET Described(all) /\ Described(all) \in SUBSET MountPaths
  BY DEF Listed, Described
<1>3. ASSUME NEW m \in L
      PROVE  Entry(all, m) \in [used : Nat, total : Nat]
  <2>1. Describing(all, m) # {}
    BY <1>2 DEF Described
  <2>2. Winner(all, m) \in Describing(all, m)
    BY <2>1, WinnerIsBest
  <2>3. Winner(all, m) \in FsGroups /\ Complete(all[Winner(all, m)])
    BY <2>2 DEF Describing
  <2>4. UsedBytes(all[Winner(all, m)]) \in Nat /\ all[Winner(all, m)]["total"] \in Nat
    BY <2>3, CompleteIsARow
  <2> HIDE DEF all
  <2>5. QED
    BY <2>4 DEF Entry
<1>4. state' \in {"loading", "available", "unavailable"}
  BY DEF UpdateEntries
<1> HIDE DEF L
<1>5. L \in SUBSET MountPaths
  BY <1>2
<1>6. rows' \in [L -> [used : Nat, total : Nat]]
  BY <1>1, <1>3
<1>7. QED
  BY <1>4, <1>5, <1>6

\* A step that updates the rows of typed samples, for a loss or without one,
\* keeps the invariant.
LEMMA UpdateKeeps ==
  ASSUME FilesystemInv, UpdateEntries(amounts', candidates', rowLimit'),
         amounts' \in SampledAmounts, candidates' \in SUBSET FilesystemSources,
         rowLimit' \in RowLimits, recent' \subseteq FilesystemSources,
         live' \subseteq tree', tree' \subseteq FilesystemSources, changes' \in 0 .. MaxChanges,
         armed' \subseteq Timers, "deadline" \in armed => "deadline" \in armed',
         \/ lost' = (lost /\ state' = "loading")
         \/ lost' = (state' = "loading") /\ "deadline" \in armed'
  PROVE  FilesystemInv'
<1>1. rowLimit' \in Nat
  BY FilesystemAssumption
<1>2. RowsAreCurrent'
  BY <1>1, UpdatedRowsAreCurrent
<1>3. /\ \E shown \in SUBSET MountPaths : rows' \in [shown -> [used : Nat, total : Nat]]
      /\ state' \in {"loading", "available", "unavailable"}
  BY UpdatedRowsAreTyped DEF FilesystemInv, FilesystemTypeOK, TreeTypeOK
<1>4. lost' \in BOOLEAN
  OBVIOUS
<1>5. LossIsTimed'
  BY DEF FilesystemInv, LossIsTimed
<1>6. TreeTypeOK(FilesystemSources)'
  BY <1>3, <1>4 DEF TreeTypeOK
<1>7. QED
  BY <1>2, <1>3, <1>5, <1>6 DEF FilesystemInv, FilesystemTypeOK, SampledAmounts

\* A step that leaves samples, candidates, rows and state alone keeps it, too.
LEMMA KeptKeeps ==
  ASSUME FilesystemInv, UNCHANGED <<amounts, candidates, rows, rowLimit, state, lost>>,
         recent' \subseteq FilesystemSources,
         live' \subseteq tree', tree' \subseteq FilesystemSources, changes' \in 0 .. MaxChanges,
         armed' \subseteq Timers, "deadline" \in armed => "deadline" \in armed'
  PROVE  FilesystemInv'
<1>1. RowsAreCurrent'
  BY KeptRowsAreCurrent DEF FilesystemInv
<1>2. LossIsTimed'
  BY DEF FilesystemInv, LossIsTimed
<1>3. FilesystemTypeOK'
  BY DEF FilesystemInv, FilesystemTypeOK, TreeTypeOK
<1>4. QED
  BY <1>1, <1>2, <1>3 DEF FilesystemInv

\* There are no rows, samples and candidates at first.
LEMMA FilesystemStarts == FilesystemInit => FilesystemInv
<1> SUFFICES ASSUME FilesystemInit PROVE FilesystemInv
  OBVIOUS
<1>1. /\ amounts = [s \in FilesystemSources |-> NoAmount] /\ candidates = {} /\ rows = NoRows
      /\ state = "loading" /\ rowLimit \in RowLimits
  BY DEF FilesystemInit, TreeInit, NoFilesystems
<1>2. TreeTypeOK(FilesystemSources)
  <2>1. lost \in BOOLEAN
    BY DEF FilesystemInit, TreeInit
  <2>2. QED
    BY <2>1 DEF FilesystemInit, TreeInit, TreeTypeOK
<1>3. DOMAIN rows = {} /\ rows \in [{} -> [used : Nat, total : Nat]]
  BY <1>1 DEF NoRows
<1>4. FilesystemTypeOK
  BY <1>1, <1>2, <1>3 DEF FilesystemTypeOK, FilesystemInit, NoFilesystems
<1>5. Described(Told(amounts, candidates)) = {}
  <2> DEFINE all == Told(amounts, candidates)
  <2>1. \A g \in FsGroups : DOMAIN all[g] = {}
    BY <1>1 DEF Told
  <2> HIDE DEF all
  <2>2. \A g \in FsGroups : ~Complete(all[g])
    BY <2>1 DEF Complete, Knows
  <2>3. \A m : Describing(all, m) = {}
    BY <2>2 DEF Describing
  <2>4. QED
    BY <2>3 DEF Described, all
<1>6. RowsAreCurrent
  <2>1. Cardinality({}) = 0 /\ rowLimit \in Nat
    BY <1>1, FS_EmptySet, FilesystemAssumption
  <2>2. AreCurrent(rows, Told(amounts, candidates), rowLimit)
    BY <1>3, <1>5, <2>1 DEF AreCurrent
  <2>3. QED
    BY <1>1, <1>3, <2>2, CurrentIs
<1>7. LossIsTimed
  BY DEF LossIsTimed, FilesystemInit, TreeInit
<1>8. QED
  BY <1>4, <1>6, <1>7 DEF FilesystemInv

\* Every step of the filesystems keeps the invariant: it updates the rows, or
\* changes nothing that they depend on.
LEMMA FilesystemStep == FilesystemInv /\ [FilesystemNext]_filesystemVars => FilesystemInv'
<1> SUFFICES ASSUME FilesystemInv, [FilesystemNext]_filesystemVars PROVE FilesystemInv'
  OBVIOUS
<1>1. /\ live \subseteq tree /\ tree \subseteq FilesystemSources /\ changes \in 0 .. MaxChanges
      /\ armed \subseteq Timers /\ recent \subseteq FilesystemSources /\ candidates \subseteq FilesystemSources
      /\ amounts \in SampledAmounts /\ rowLimit \in RowLimits /\ TreeTypeOK(FilesystemSources)
  BY DEF FilesystemInv, FilesystemTypeOK, TreeTypeOK, SampledAmounts
<1>2. CASE UNCHANGED filesystemVars
  BY <1>1, <1>2, KeptKeeps DEF filesystemVars, treeVars, plasma
<1>3. ASSUME NEW s \in FilesystemSources, SourceAdded(s) \/ SensorRecovers(s),
             UNCHANGED <<amounts, recent, rows, rowLimit>>
      PROVE  FilesystemInv'
  <2>1. live' \subseteq tree' /\ tree' \subseteq FilesystemSources /\ changes' \in 0 .. MaxChanges
    BY <1>1, <1>3, TreeStep
  <2>2. UNCHANGED <<candidates, state, lost>> /\ armed' \subseteq Timers /\ armed \subseteq armed'
    BY <1>1, <1>3 DEF SourceAdded, SensorRecovers, Timers
  <2>3. QED
    BY <1>1, <1>3, <2>1, <2>2, KeptKeeps
<1>4. ASSUME NEW gone \in GoneTogether, ModelReset(gone), UNCHANGED <<amounts, recent, rows, rowLimit>>
      PROVE  FilesystemInv'
  <2>1. live' \subseteq tree' /\ tree' \subseteq FilesystemSources /\ changes' \in 0 .. MaxChanges
    BY <1>1, <1>4, TreeStep
  <2>2. UNCHANGED <<candidates, state, lost>> /\ armed' \subseteq Timers /\ armed \subseteq armed'
    BY <1>1, <1>4 DEF ModelReset, Timers
  <2>3. QED
    BY <1>1, <1>4, <2>1, <2>2, KeptKeeps
<1>5. ASSUME NEW s \in FilesystemSources, NEW row \in BOOLEAN,
             SourceRemoved(s) \/ SensorFails(s), LoseFilesystem(s, row)
      PROVE  FilesystemInv'
  <2>1. /\ live' \subseteq tree' /\ tree' \subseteq FilesystemSources /\ changes' \in 0 .. MaxChanges
        /\ candidates' = candidates
    BY <1>1, <1>5, TreeStep
  <2>2. /\ armed' = ArmedAfterLoss(amounts[s] # NoAmount, row)
        /\ UNCHANGED <<recent, rowLimit>>
    BY <1>5 DEF LoseFilesystem
  <2>3. armed' \subseteq Timers /\ armed \subseteq armed'
    BY <1>1, <2>2 DEF ArmedAfterLoss, Timers
  <2>4. CASE amounts[s] = NoAmount
    <3>1. UNCHANGED <<amounts, rows, state, lost>>
      BY <1>5, <2>4 DEF LoseFilesystem
    <3>2. QED
      BY <1>1, <2>1, <2>2, <2>3, <3>1, KeptKeeps
  <2>5. CASE amounts[s] # NoAmount
    <3>1. /\ amounts' = [amounts EXCEPT ![s] = NoAmount]
          /\ UpdateEntries(amounts', candidates, rowLimit) /\ lost' = (state' = "loading")
      BY <1>5, <2>5 DEF LoseFilesystem
    <3>2. amounts' \in SampledAmounts
      BY <1>1, <3>1 DEF SampledAmounts
    <3>3. UpdateEntries(amounts', candidates', rowLimit')
      BY <2>1, <2>2, <3>1
    <3>4. "deadline" \in armed'
      BY <2>2, <2>5 DEF ArmedAfterLoss, Timers
    <3>5. QED
      BY <1>1, <2>1, <2>2, <2>3, <3>1, <3>2, <3>3, <3>4, UpdateKeeps
  <2>6. QED
    BY <2>4, <2>5
<1>6. CASE FilesystemPlasma
  BY <1>3, <1>4, <1>5, <1>6 DEF FilesystemPlasma
<1>7. ASSUME NEW s \in FilesystemSources, IntervalEnds(s)
      PROVE  FilesystemInv'
  BY <1>1, <1>7, KeptKeeps DEF IntervalEnds, treeVars, plasma
<1>8. ASSUME NEW s \in FilesystemSources, NEW n \in Amounts[s], ReadAmount(s, n)
      PROVE  FilesystemInv'
  <2>1. n \in Nat
    BY FilesystemAssumption
  <2>2. /\ amounts' = [amounts EXCEPT ![s] = n] /\ recent' \subseteq recent \cup {s}
        /\ UpdateEntries(amounts', candidates, rowLimit) /\ lost' = (lost /\ state' = "loading")
        /\ UNCHANGED <<tree, live, changes, candidates, armed, rowLimit>>
    BY <1>8 DEF ReadAmount, plasma
  <2>3. amounts' \in SampledAmounts /\ recent' \subseteq FilesystemSources
    BY <1>1, <2>1, <2>2 DEF SampledAmounts
  <2>4. UpdateEntries(amounts', candidates', rowLimit')
    BY <2>2
  <2>5. QED
    BY <1>1, <2>2, <2>3, <2>4, UpdateKeeps
<1>9. CASE FilesystemDiscovery \/ FilesystemRetry
  <2>1. /\ candidates' = tree /\ UNCHANGED <<tree, live, changes, amounts, recent, rowLimit>>
        /\ UpdateEntries(amounts, candidates', rowLimit) /\ lost' = (lost /\ state' = "loading")
        /\ armed' \subseteq armed /\ ("deadline" \in armed => "deadline" \in armed')
    BY <1>9 DEF FilesystemDiscovery, FilesystemRetry, DiscoverFilesystems, Rediscovered, DiscoveryDue,
      RetryDue, plasma
  <2>2. UpdateEntries(amounts', candidates', rowLimit')
    BY <2>1
  <2>3. QED
    BY <1>1, <2>1, <2>2, UpdateKeeps
<1>10. CASE FilesystemDeadline
  <2>1. /\ UNCHANGED <<tree, live, changes, candidates, amounts, recent, rows, rowLimit>>
        /\ armed' = armed \ {"deadline"}
        /\ state = "available" => UNCHANGED <<state, lost>>
        /\ state # "available" => state' = "unavailable"
        /\ state # "available" => lost' = FALSE
    BY <1>10 DEF FilesystemDeadline, DeadlineDue, plasma
  <2>2. RowsAreCurrent'
    BY <2>1, KeptRowsAreCurrent DEF FilesystemInv
  <2>3. lost' \in BOOLEAN /\ LossIsTimed'
    <3>1. CASE state = "available"
      BY <2>1, <3>1 DEF FilesystemInv, FilesystemTypeOK, TreeTypeOK, LossIsTimed
    <3>2. CASE state # "available"
      BY <2>1, <3>2 DEF LossIsTimed
    <3>3. QED
      BY <3>1, <3>2
  <2>4. state' \in {"loading", "available", "unavailable"}
    BY <2>1 DEF FilesystemInv, FilesystemTypeOK, TreeTypeOK
  <2>5. TreeTypeOK(FilesystemSources)'
    BY <1>1, <2>1, <2>3, <2>4 DEF TreeTypeOK
  <2>6. FilesystemTypeOK'
    BY <2>1, <2>5 DEF FilesystemInv, FilesystemTypeOK
  <2>7. QED
    BY <2>2, <2>3, <2>6 DEF FilesystemInv
<1>11. ASSUME NEW n \in RowLimits, SetRowLimit(n)
       PROVE  FilesystemInv'
  <2>1. /\ rowLimit' = n /\ UpdateEntries(amounts, candidates, n) /\ lost' = (lost /\ state' = "loading")
        /\ UNCHANGED <<tree, live, changes, candidates, armed, amounts, recent>>
    BY <1>11 DEF SetRowLimit, plasma
  <2>2. UpdateEntries(amounts', candidates', rowLimit')
    BY <2>1
  <2>3. QED
    BY <1>1, <2>1, <2>2, UpdateKeeps
<1>12. QED
  BY <1>2, <1>6, <1>7, <1>8, <1>9, <1>10, <1>11 DEF FilesystemNext

\* The invariant, for any sensors, amounts and limits.
THEOREM FilesystemInvariant == FilesystemSpec => []FilesystemInv
<1>1. QED
  BY FilesystemStarts, FilesystemStep, PTL DEF FilesystemSpec

\* The rows are always those of the samples at hand: the first mounts up to the
\* limit, each with the bytes of its most complete group.
THEOREM RowsAreAlwaysCurrent == FilesystemSpec => []RowsAreCurrent
<1>1. FilesystemInv => RowsAreCurrent
  BY DEF FilesystemInv
<1>2. QED
  BY <1>1, FilesystemInvariant, PTL

----------------------------------------------------------------------------
(* The widget's process: a behaviour of MCWidgetParts.tla follows one part  *)
(* and leaves the others alone; which one is open.                         *)

PartsSpec == Init /\ [][Next]_partVars

PartsInv ==
  /\ ClientInv /\ HistoryInv /\ LoadInv
  /\ part = "temperature" => TemperatureInv
  /\ part = "filesystems" => FilesystemInv

\* A step of one part is a step of it or a stutter of every part whose sensors
\* the tree has.
LEMMA StepOfParts ==
  ASSUME [Next]_partVars
  PROVE  /\ UNCHANGED part
         /\ [ClientNext]_clientVars /\ [HistoryNext]_historyVars /\ [LoadNext]_loadVars
         /\ part = "temperature" => [TemperatureNext]_temperatureVars
         /\ part = "filesystems" => [FilesystemNext]_filesystemVars
<1> USE DEF At, BridgeIdle, HistoryIdle, LoadIdle, SensorsIdle, TreeIdle, TemperatureIdle, FilesystemIdle,
            temperatureVars, filesystemVars
<1>1. CASE AtBridge /\ ClientNext
  BY <1>1 DEF AtBridge
<1>2. CASE AtHistories /\ HistoryNext
  BY <1>2 DEF AtHistories
<1>3. CASE AtLoad /\ LoadNext
  BY <1>3 DEF AtLoad
<1>4. CASE AtTemperature /\ TemperatureNext
  BY <1>4 DEF AtTemperature
<1>5. CASE AtFilesystems /\ FilesystemNext
  BY <1>5 DEF AtFilesystems
<1>6. CASE UNCHANGED partVars
  BY <1>6 DEF partVars
<1>7. QED
  BY <1>1, <1>2, <1>3, <1>4, <1>5, <1>6 DEF Next

\* Every part keeps its invariant.
LEMMA PartsKeep == PartsSpec => []PartsInv
<1>1. Init => PartsInv
  <2> SUFFICES ASSUME Init PROVE PartsInv
    OBVIOUS
  <2>1. part = "temperature" => TemperatureInit
    BY DEF Init, OwnSensors, TemperatureInit
  <2>2. part = "filesystems" => FilesystemInit
    BY DEF Init, OwnSensors, FilesystemInit
  <2>3. ClientInit /\ HistoryInit /\ LoadInit
    BY DEF Init
  <2>4. QED
    BY <2>1, <2>2, <2>3, ClientStarts, HistoryStarts, LoadInitial, TemperatureStarts, FilesystemStarts
    DEF PartsInv
<1>2. PartsInv /\ [Next]_partVars => PartsInv'
  <2> SUFFICES ASSUME PartsInv, [Next]_partVars PROVE PartsInv'
    OBVIOUS
  <2>1. /\ UNCHANGED part
        /\ [ClientNext]_clientVars /\ [HistoryNext]_historyVars /\ [LoadNext]_loadVars
        /\ part = "temperature" => [TemperatureNext]_temperatureVars
        /\ part = "filesystems" => [FilesystemNext]_filesystemVars
    BY StepOfParts
  <2>2. ClientInv' /\ HistoryInv' /\ LoadInv'
    BY <2>1, ClientStep, HistoryStep, LoadStep DEF PartsInv
  <2>3. part = "temperature" => TemperatureInv'
    BY <2>1, TemperatureStep DEF PartsInv
  <2>4. part = "filesystems" => FilesystemInv'
    BY <2>1, FilesystemStep DEF PartsInv
  <2>5. QED
    BY <2>1, <2>2, <2>3, <2>4 DEF PartsInv
<1>3. QED
  BY <1>1, <1>2, PTL DEF PartsSpec

\* Type correctness of every part of the widget's process.
THEOREM PartTypeCorrect == PartsSpec => []PartTypeOK
<1>1. PartsInv => PartTypeOK
  BY DEF PartsInv, PartTypeOK, ClientInv, HistoryInv, LoadInv, TemperatureInv, FilesystemInv
<1>2. QED
  BY <1>1, PartsKeep, PTL

\* RowsAreAlwaysCurrent, of the part that has the filesystems' sensors.
THEOREM FilesystemRowsAreAlwaysCurrent == PartsSpec => []FilesystemRowsAreCurrent
<1>1. PartsInv => FilesystemRowsAreCurrent
  BY DEF PartsInv, FilesystemInv, FilesystemRowsAreCurrent
<1>2. QED
  BY <1>1, PartsKeep, PTL

\* While the loss of a sensor in use is not resolved the deadline runs, which
\* ends it (handleTemperatureSourceLoss, handleFilesystemSourceLoss): what
\* LossIsResolved adds is only that a timer that runs fires.
THEOREM LossIsAlwaysTimed ==
  PartsSpec => [](part \in {"temperature", "filesystems"} /\ lost =>
                    state = "loading" /\ "deadline" \in armed)
<1>1. PartsInv => (part \in {"temperature", "filesystems"} /\ lost =>
                     state = "loading" /\ "deadline" \in armed)
  BY DEF PartsInv, TemperatureInv, FilesystemInv, LossIsTimed
<1>2. QED
  BY <1>1, PartsKeep, PTL
=============================================================================
