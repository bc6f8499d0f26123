---------------------------- MODULE LoadMetrics ----------------------------
(***************************************************************************)
(* CPU and memory of MetricsProvider.qml: what was received last from each *)
(* source is kept, the first candidate with a valid number wins, and of    *)
(* the memory a percentage counts only after two seconds, and only if no   *)
(* pair of used and total bytes was ever complete.  A payload is reduced   *)
(* to the percentage or the bytes the code makes of it, or to NoNumber.    *)
(* Both engines, DataSource and Sensor, report through handleData.         *)
(***************************************************************************)
EXTENDS Integers, Sequences

CONSTANT Reports   \* by source: the numbers it may report

NoNumber == -1     \* NaN: nothing received, nothing that is a number

CpuCandidates ==
  <<"cpu/system/TotalLoad", "cpu/all/usage", "cpu/total/usage", "cpu/TotalLoad">>
MemoryByteCandidates ==
  <<[used |-> "mem/physical/used", total |-> "mem/physical/total"],
    [used |-> "memory/physical/used", total |-> "memory/physical/total"]>>
MemoryPercentCandidates ==
  <<[name |-> "mem/physical/usedPercent", total |-> "mem/physical/total"],
    [name |-> "memory/physical/usedPercent", total |-> "memory/physical/total"],
    [name |-> "memory/physical/usage", total |-> "memory/physical/total"]>>

LoadSources ==
  {CpuCandidates[i] : i \in DOMAIN CpuCandidates}
    \cup {MemoryByteCandidates[i].used : i \in DOMAIN MemoryByteCandidates}
    \cup {MemoryByteCandidates[i].total : i \in DOMAIN MemoryByteCandidates}
    \cup {MemoryPercentCandidates[i].name : i \in DOMAIN MemoryPercentCandidates}

\* What normalizePercentage and bytesFromPayload return: a percentage is
\* clamped, bytes are not negative.
Percents == 0 .. 100 \cup {NoNumber}
Bytes == Nat \cup {NoNumber}

ASSUME ReportsAssumption ==
  /\ Reports \in [LoadSources -> SUBSET Bytes]
  /\ \A i \in DOMAIN CpuCandidates :
       Reports[CpuCandidates[i]] \subseteq Percents
  /\ \A i \in DOMAIN MemoryPercentCandidates :
       Reports[MemoryPercentCandidates[i].name] \subseteq Percents

VARIABLES
  received,     \* receivedData
  cpu,          \* cpuState, cpuPercent
  memory,       \* memoryState, memoryPercent, memoryUsedBytes, memoryTotalBytes
  inBytes,      \* selectedMemoryUsedSource is set
  elapsed       \* which of the two single-shot timers have fired

loadVars == <<received, cpu, memory, inBytes, elapsed>>

States == {"loading", "available", "unavailable"}

LoadTypeOK ==
  /\ received \in [LoadSources -> Nat \cup {NoNumber}]
  /\ cpu \in [state : States, percent : 0 .. 100]
  /\ memory \in [state : States, percent : 0 .. 100, used : Nat, total : Nat]
  /\ inBytes \in BOOLEAN
  /\ elapsed \subseteq {"fallback", "deadline"}

LoadInit ==
  /\ received = [s \in LoadSources |-> NoNumber]
  /\ cpu = [state |-> "loading", percent |-> 0]
  /\ memory = [state |-> "loading", percent |-> 0, used |-> 0, total |-> 0]
  /\ inBytes = FALSE
  /\ elapsed = {}

----------------------------------------------------------------------------
\* The candidates, by place, that have what they need in data.
CpuHits(data) == {i \in DOMAIN CpuCandidates : data[CpuCandidates[i]] # NoNumber}
ByteHits(data) ==
  {i \in DOMAIN MemoryByteCandidates :
     data[MemoryByteCandidates[i].used] # NoNumber /\ data[MemoryByteCandidates[i].total] > 0}
PercentHits(data) ==
  {i \in DOMAIN MemoryPercentCandidates : data[MemoryPercentCandidates[i].name] # NoNumber}

First(hits) == CHOOSE i \in hits : \A j \in hits : i <= j

CpuOf(data) ==
  [state |-> "available", percent |-> data[CpuCandidates[First(CpuHits(data))]]]

\* What is used is at most the total.
BytesOf(data) ==
  LET pair == MemoryByteCandidates[First(ByteHits(data))]
      total == data[pair.total]
      used == IF data[pair.used] <= total THEN data[pair.used] ELSE total
  IN  [state |-> "available", percent |-> (100 * used) \div total,
       used |-> used, total |-> total]

\* Without a total there are no bytes.
PercentOf(data) ==
  LET candidate == MemoryPercentCandidates[First(PercentHits(data))]
      percent == data[candidate.name]
      total == IF data[candidate.total] > 0 THEN data[candidate.total] ELSE 0
  IN  [state |-> "available", percent |-> percent,
       used |-> (total * percent) \div 100, total |-> total]

\* tryCpuSources
TryCpu(data) == cpu' = IF CpuHits(data) = {} THEN cpu ELSE CpuOf(data)

\* tryMemoryPercentSources
TryPercent(data) ==
  /\ memory' = IF inBytes \/ PercentHits(data) = {} THEN memory ELSE PercentOf(data)
  /\ UNCHANGED inBytes

\* handleData, of a source of these metrics: tryMemoryByteSources, and after
\* the fallback tryMemoryPercentSources.
HandleLoad(s, x) ==
  /\ received' = [received EXCEPT ![s] = x]
  /\ TryCpu(received')
  /\ IF ByteHits(received') # {}
     THEN memory' = BytesOf(received') /\ inBytes' = TRUE
     ELSE IF "fallback" \in elapsed THEN TryPercent(received')
     ELSE UNCHANGED <<memory, inBytes>>
  /\ UNCHANGED elapsed

\* Mutant: the timer leaves it to the next payload.
FallbackWaits ==
  /\ "fallback" \notin elapsed
  /\ elapsed' = elapsed \cup {"fallback"}
  /\ UNCHANGED <<received, cpu, memory, inBytes>>

\* fallbackTimer, after two seconds.
FallbackTimer ==
  /\ "fallback" \notin elapsed
  /\ elapsed' = elapsed \cup {"fallback"}
  /\ TryPercent(received)
  /\ UNCHANGED <<received, cpu>>

\* discoveryTimer, after six.
Unless(metric) == IF metric.state = "available" THEN metric
                  ELSE [metric EXCEPT !.state = "unavailable"]
LoadDeadline ==
  /\ "deadline" \notin elapsed /\ "fallback" \in elapsed
  /\ elapsed' = elapsed \cup {"deadline"}
  /\ cpu' = Unless(cpu) /\ memory' = Unless(memory)
  /\ UNCHANGED <<received, inBytes>>

LoadNext ==
  \/ \E s \in LoadSources : \E x \in Reports[s] : HandleLoad(s, x)
  \/ FallbackTimer
  \/ LoadDeadline

LoadSpec == LoadInit /\ [][LoadNext]_loadVars

----------------------------------------------------------------------------
\* The percentage that is shown, with the bytes of its own total or none.
IsPercentOf(m, data) ==
  LET shown == MemoryPercentCandidates[First(PercentHits(data))]
  IN  /\ m.state = "available" /\ m.percent = data[shown.name]
      /\ m.total = IF data[shown.total] > 0 THEN data[shown.total] ELSE 0
      /\ m.used = (m.total * m.percent) \div 100

\* What is shown is what the preferred source reported last, whatever came
\* before, in whatever order, and whichever timer fired in between: the first
\* CPU candidate with a number; the first complete pair of bytes ("DataSource
\* candidates remain preferred", MetricsProvider.qml:2467); or, if there never
\* was one and the two seconds are over, the first percentage.
LoadIsOfPreferredSource ==
  /\ CpuHits(received) # {} => cpu = CpuOf(received)
  /\ ByteHits(received) # {} => memory = BytesOf(received)
  /\ ~inBytes /\ "fallback" \in elapsed /\ PercentHits(received) # {} =>
       IsPercentOf(memory, received)
  /\ memory.used <= memory.total
============================================================================
