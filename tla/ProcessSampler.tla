--------------------------- MODULE ProcessSampler ---------------------------
(***************************************************************************)
(* The process list of the backend: ProcessSampler (processes.py) and the  *)
(* two commands of MetricsCollector (metrics.py) that use it.  CPU usage   *)
(* is the difference of two scans, so a scan leaves a baseline, the one of *)
(* all clients, for the next; between the reads of a scan, and between     *)
(* scans, processes run, end and begin, and pids are used again.           *)
(*                                                                         *)
(* A rate is kept as CPU time and elapsed time.  A missing value is -1, as *)
(* entry.get(metric, -1) has it.  Of the public fields of an entry only    *)
(* pid, cpuPercent and memoryBytes are kept; born is the process it was    *)
(* read from.  The name, which breaks ties before the pid, is left out.    *)
(***************************************************************************)
EXTENDS Integers, FiniteSets

CONSTANTS
  Pids,         \* process ids
  Sizes,        \* resident memory a process may have
  Limits,       \* limits a request may name: 1 .. 20
  SampleLimit,  \* DEFAULT_PROCESS_LIMIT, 512
  MaxTracked,   \* MAX_TRACKED_PROCESSES, 4096
  MaxTime       \* bound: the clock

ASSUME SamplerAssumption ==
  /\ Pids \subseteq Nat \ {0} /\ IsFiniteSet(Pids)
  /\ Sizes \subseteq Nat
  /\ SampleLimit \in Nat /\ Limits \subseteq 1 .. SampleLimit
  /\ MaxTracked \in Nat /\ MaxTime \in Nat

VARIABLES
  now,          \* the monotonic clock
  os,           \* the processes of the system, by pid
  previous,     \* _previous: the baseline, by pid
  scan,         \* the snapshot() that runs, or Idle
  last          \* when the last finished scan began and finished

samplerVars == <<now, os, previous, scan, last>>

Missing == -1
NoSample == [born |-> Missing, at |-> Missing, cpu |-> Missing]
Sorts == {"none", "cpu", "memory"}

Processes == [alive : BOOLEAN, born : Int, cpu : Int, mem : Sizes \cup {Missing}]
Samples == [born : Int, at : Int, cpu : Int]
Entries == [pid : Pids, born : Int, cpu : Int, over : Int, mem : Sizes \cup {Missing}]
Scans == [at : Int, sort : Sorts, limit : Nat, todo : SUBSET Pids, count : Nat,
          next : [Pids -> Samples], entries : SUBSET Entries]
Idle == [at |-> Missing, sort |-> "none", limit |-> 0, todo |-> {}, count |-> 0,
         next |-> [p \in Pids |-> NoSample], entries |-> {}]

SamplerTypeOK ==
  /\ now \in Int
  /\ os \in [Pids -> Processes]
  /\ previous \in [Pids -> Samples]
  /\ scan \in Scans
  /\ last \in [began : Int, finished : Int]

SamplerInit ==
  /\ now = 0
  /\ os = [p \in Pids |-> [alive |-> FALSE, born |-> Missing, cpu |-> 0, mem |-> Missing]]
  /\ previous = [p \in Pids |-> NoSample]
  /\ scan = Idle
  /\ last = [began |-> Missing, finished |-> Missing]

Running == scan.at # Missing

----------------------------------------------------------------------------
(* The system.                                                             *)

\* Time passes; some processes use it.
Tick ==
  /\ now < MaxTime
  /\ now' = now + 1
  /\ \E busy \in SUBSET {p \in Pids : os[p].alive} :
       os' = [p \in Pids |-> IF p \in busy THEN [os[p] EXCEPT !.cpu = @ + 1] ELSE os[p]]
  /\ UNCHANGED <<previous, scan, last>>

\* A pid comes back with a later creation time.
Begin(p, size) ==
  /\ ~os[p].alive /\ os[p].born < now
  /\ os' = [os EXCEPT ![p] = [alive |-> TRUE, born |-> now, cpu |-> 0, mem |-> size]]
  /\ UNCHANGED <<now, previous, scan, last>>

End(p) ==
  /\ os[p].alive
  /\ os' = [os EXCEPT ![p].alive = FALSE]
  /\ UNCHANGED <<now, previous, scan, last>>

----------------------------------------------------------------------------
(* Order and cut.                                                          *)

\* The rate of a is higher; a missing one counts as -1.
Faster(a, b) ==
  \/ a.cpu # Missing /\ b.cpu = Missing
  \/ a.cpu # Missing /\ b.cpu # Missing /\ a.cpu * b.over > b.cpu * a.over

\* a comes before b in the order of a command.
Precedes(a, b, sort) ==
  CASE sort = "cpu" ->
         Faster(a, b) \/ (~Faster(b, a) /\ a.pid < b.pid)
    [] sort = "memory" ->
         a.mem > b.mem \/ (a.mem = b.mem /\ a.pid < b.pid)
    [] sort = "none" ->
         \/ Faster(a, b)
         \/ ~Faster(b, a)
            /\ (a.mem > b.mem \/ (a.mem = b.mem /\ a.pid < b.pid))

\* sorted(entries)[:n]
First(entries, n, sort) ==
  {e \in entries : Cardinality({d \in entries : Precedes(d, e, sort)}) < n}

----------------------------------------------------------------------------
(* snapshot().                                                             *)

\* The clock is read, then the pids are listed.
BeginScan(sort, limit) ==
  /\ ~Running
  /\ scan' = [Idle EXCEPT !.at = now, !.sort = sort, !.limit = limit,
                          !.todo = {p \in Pids : os[p].alive}]
  /\ UNCHANGED <<now, os, previous, last>>

\* Mutant: the creation time is not compared.
CpuSinceAnyone(p) ==
  IF previous[p] # NoSample /\ scan.at > previous[p].at /\ os[p].cpu >= previous[p].cpu
    THEN os[p].cpu - previous[p].cpu ELSE Missing

\* CPU time since the baseline, if it is of the same process.
CpuSince(p) ==
  IF /\ previous[p] # NoSample /\ previous[p].born = os[p].born
     /\ scan.at > previous[p].at /\ os[p].cpu >= previous[p].cpu
    THEN os[p].cpu - previous[p].cpu
    ELSE Missing

Elapsed(p) == IF CpuSince(p) # Missing THEN scan.at - previous[p].at ELSE 1

IsNext(p) == p \in scan.todo /\ \A q \in scan.todo : p <= q

\* The next process is read; its CPU times or its memory may be denied.
ReadProcess(p, cpuReadable, memReadable) ==
  /\ Running /\ IsNext(p) /\ scan.count < MaxTracked
  /\ os[p].alive
  /\ LET cpu == IF cpuReadable THEN CpuSince(p) ELSE Missing
         sample == IF cpuReadable
                     THEN [born |-> os[p].born, at |-> scan.at, cpu |-> os[p].cpu]
                     ELSE NoSample
         entry == [pid |-> p, born |-> os[p].born, cpu |-> cpu,
                   over |-> IF cpuReadable THEN Elapsed(p) ELSE 1,
                   mem |-> IF memReadable THEN os[p].mem ELSE Missing]
     IN scan' = [scan EXCEPT !.todo = @ \ {p}, !.count = @ + 1,
                             !.next[p] = sample, !.entries = @ \cup {entry}]
  /\ UNCHANGED <<now, os, previous, last>>

\* A process that ended since the pids were listed is skipped.
SkipProcess(p) ==
  /\ Running /\ IsNext(p) /\ scan.count < MaxTracked
  /\ ~os[p].alive
  /\ scan' = [scan EXCEPT !.todo = @ \ {p}]
  /\ UNCHANGED <<now, os, previous, last>>

\* Mutant: a process without a new sample keeps its older one.
BaselineKeepsGone == [p \in Pids |-> IF scan.next[p] = NoSample THEN previous[p] ELSE scan.next[p]]

Baseline == scan.next

\* Mutant: the sampler always cuts in the order of the snapshot command.
SampledInOneOrder(entries, sort) == First(entries, SampleLimit, "none")

\* What snapshot() returns.
Sampled(entries, sort) == First(entries, SampleLimit, sort)

\* What processes() answers: the entries cut once more, to the limit asked for.
Answer == First(Sampled(scan.entries, scan.sort), scan.limit, scan.sort)

FinishScan ==
  /\ Running
  /\ scan.todo = {} \/ scan.count = MaxTracked
  /\ previous' = Baseline
  /\ last' = [began |-> scan.at, finished |-> now]
  /\ scan' = Idle
  /\ UNCHANGED <<now, os>>

\* psutil raises: the command is answered with internal_error.
FailScan ==
  /\ Running
  /\ scan' = Idle
  /\ UNCHANGED <<now, os, previous, last>>

Requests == {<<"none", SampleLimit>>} \cup {<<s, n>> : s \in {"cpu", "memory"}, n \in Limits}

SamplerNext ==
  \/ Tick
  \/ \E p \in Pids : End(p) \/ \E size \in Sizes : Begin(p, size)
  \/ \E r \in Requests : BeginScan(r[1], r[2])
  \/ \E p \in Pids : SkipProcess(p) \/ \E c, m \in BOOLEAN : ReadProcess(p, c, m)
  \/ FinishScan
  \/ FailScan

SamplerSpec == SamplerInit /\ [][SamplerNext]_samplerVars

----------------------------------------------------------------------------
(* Properties.                                                             *)

\* A rate spans the life of one process: the process was there when the
\* baseline was taken, whoever has had its pid since.
RatesSpanOneProcess ==
  \A e \in scan.entries : e.cpu # Missing => e.born <= last.finished

\* The baseline is the last finished scan and nothing older, so that all rates
\* of an answer are over the same time and can be compared.
BaselineIsLastScan ==
  \A p \in Pids : previous[p] # NoSample => previous[p].at = last.began

\* The answer holds the first of all processes that were read, in the order
\* that was asked for, although it is cut twice.
AnswerIsTop == Answer = First(scan.entries, scan.limit, scan.sort)
============================================================================
