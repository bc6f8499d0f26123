------------------------ MODULE ProcessSampler_proofs ------------------------
(***************************************************************************)
(* Proofs about ProcessSampler.tla, for every set of pids, every size,     *)
(* limit and length of time.                                               *)
(*                                                                         *)
(* SamplerInv says of every sample when it was taken: those of the         *)
(* baseline at the clock reading of the last finished scan and of a        *)
(* process born before that scan finished, those of the running scan at    *)
(* its own clock reading and of a process born by now.  Of the entries it   *)
(* says that they are finitely many, that time has passed over each rate   *)
(* and that no more are asked for than are sampled: the order of entries   *)
(* is then transitive, and a cut that is cut again to fewer is the same as *)
(* the shorter cut alone.                                                  *)
(***************************************************************************)
EXTENDS ProcessSampler, FiniteSetTheorems, TLAPS

SamplerTypes ==
  /\ now \in Nat
  /\ os \in [Pids -> Processes]
  /\ previous \in [Pids -> Samples]
  /\ scan \in Scans
  /\ last \in [began : Int, finished : Int]

SamplerInv ==
  /\ SamplerTypes
  /\ last.finished <= now
  /\ \A p \in Pids : os[p].born <= now
  /\ \A p \in Pids : previous[p] # NoSample =>
       previous[p].at = last.began /\ previous[p].born <= last.finished
  /\ \A p \in Pids : scan.next[p] # NoSample =>
       scan.next[p].at = scan.at /\ scan.next[p].born <= now
  /\ \A e \in scan.entries : e.cpu # Missing => e.born <= last.finished
  /\ scan.limit <= SampleLimit
  /\ IsFiniteSet(scan.entries)
  /\ \A e \in scan.entries : e.over >= 1 /\ e.cpu >= Missing

\* Nothing has been sampled at first.
LEMMA SamplerStart == SamplerInit => SamplerInv
<1> SUFFICES ASSUME SamplerInit PROVE SamplerInv
  OBVIOUS
<1>1. NoSample \in Samples
  BY DEF NoSample, Samples, Missing
<1>2. Idle \in Scans
  BY <1>1 DEF Idle, Scans, Missing, Sorts, Samples
<1>3. SamplerTypes
  BY <1>1, <1>2, SamplerAssumption DEF SamplerInit, SamplerTypes, Processes, Missing
<1>4. QED
  BY <1>3, FS_EmptySet, SamplerAssumption DEF SamplerInit, SamplerInv, Missing, Idle, NoSample

\* What a scan reads of a process.
LEMMA ReadTypes ==
  ASSUME SamplerTypes, NEW p \in Pids, NEW c \in BOOLEAN, NEW m \in BOOLEAN,
         ReadProcess(p, c, m)
  PROVE  /\ scan' \in Scans
         /\ \A q \in Pids : q # p => scan'.next[q] = scan.next[q]
         /\ scan'.next[p] = IF c THEN [born |-> os[p].born, at |-> scan.at, cpu |-> os[p].cpu]
                                 ELSE NoSample
         /\ \A e \in scan'.entries : e \in scan.entries \/
              /\ e.born = os[p].born /\ (e.cpu # Missing => CpuSince(p) # Missing)
              /\ e.over >= 1 /\ e.cpu >= Missing
         /\ IsFiniteSet(scan.entries) => IsFiniteSet(scan'.entries)
         /\ scan'.at = scan.at /\ scan'.limit = scan.limit
<1> DEFINE sample == IF c THEN [born |-> os[p].born, at |-> scan.at, cpu |-> os[p].cpu]
                          ELSE NoSample
           entry == [pid |-> p, born |-> os[p].born,
                     cpu |-> IF c THEN CpuSince(p) ELSE Missing,
                     over |-> IF c THEN Elapsed(p) ELSE 1,
                     mem |-> IF m THEN os[p].mem ELSE Missing]
<1>1. os[p] \in Processes /\ previous[p] \in Samples /\ scan.at \in Int
  BY DEF SamplerTypes, Scans
<1>2. sample \in Samples
  BY <1>1 DEF Samples, Processes, NoSample, Missing
<1>3. CpuSince(p) \in Int /\ Elapsed(p) \in Int /\ CpuSince(p) >= Missing /\ Elapsed(p) >= 1
  BY <1>1 DEF CpuSince, Elapsed, Samples, Processes, Missing
<1>4. entry \in Entries
  BY <1>1, <1>3 DEF Entries, Processes, Missing
<1> DEFINE samples == [scan.next EXCEPT ![p] = sample]
           entries == scan.entries \cup {entry}
           others == scan.todo \ {p}
           counted == scan.count + 1
<1>5. scan' = [scan EXCEPT !.todo = others, !.count = counted,
                           !.next = samples, !.entries = entries]
  BY DEF ReadProcess, SamplerTypes, Scans
<1> HIDE DEF sample, entry
<1>6. /\ samples \in [Pids -> Samples] /\ entries \in SUBSET Entries
      /\ others \in SUBSET Pids /\ counted \in Nat
  BY <1>2, <1>4 DEF SamplerTypes, Scans
<1> HIDE DEF samples, entries, others, counted
<1>7. /\ scan' \in Scans /\ scan'.next = samples /\ scan'.entries = entries
      /\ scan'.at = scan.at /\ scan'.limit = scan.limit
  BY <1>5, <1>6 DEF SamplerTypes, Scans
<1>8. /\ scan' \in Scans /\ scan'.next = [scan.next EXCEPT ![p] = sample]
      /\ scan'.entries = scan.entries \cup {entry}
      /\ scan'.at = scan.at /\ scan'.limit = scan.limit
  BY <1>7 DEF samples, entries
<1>9. /\ entry.born = os[p].born /\ (entry.cpu # Missing => CpuSince(p) # Missing)
      /\ entry.over >= 1 /\ entry.cpu >= Missing
  BY <1>3 DEF entry, Missing
<1>10. scan.next \in [Pids -> Samples]
  BY DEF SamplerTypes, Scans
<1>11. IsFiniteSet(scan.entries) => IsFiniteSet(scan'.entries)
  BY <1>8, FS_AddElement
<1>12. QED
  BY <1>8, <1>9, <1>10, <1>11 DEF sample

\* Every step keeps the times of all samples in order.
LEMMA SamplerStep == SamplerInv /\ [SamplerNext]_samplerVars => SamplerInv'
<1> SUFFICES ASSUME SamplerInv, [SamplerNext]_samplerVars PROVE SamplerInv'
  OBVIOUS
<1> USE SamplerAssumption
<1>1. CASE Tick
  <2>1. PICK busy \in SUBSET {p \in Pids : os[p].alive} :
          os' = [p \in Pids |-> IF p \in busy THEN [os[p] EXCEPT !.cpu = @ + 1] ELSE os[p]]
    BY <1>1 DEF Tick
  <2>2. \A p \in Pids : os'[p] \in Processes /\ os'[p].born = os[p].born
    BY <2>1 DEF SamplerInv, SamplerTypes, Processes
  <2>3. os' \in [Pids -> Processes]
    BY <2>1, <2>2
  <2>4. QED
    BY <1>1, <2>2, <2>3 DEF Tick, SamplerInv, SamplerTypes, Processes, Scans, Samples
<1>2. ASSUME NEW p \in Pids, NEW size \in Sizes, Begin(p, size) PROVE SamplerInv'
  <2>1. os' \in [Pids -> Processes] /\ \A q \in Pids : os'[q].born <= now
    BY <1>2 DEF Begin, SamplerInv, SamplerTypes, Processes
  <2>2. QED
    BY <1>2, <2>1 DEF Begin, SamplerInv, SamplerTypes
<1>3. ASSUME NEW p \in Pids, End(p) PROVE SamplerInv'
  BY <1>3 DEF End, SamplerInv, SamplerTypes, Processes
<1>4. ASSUME NEW r \in Requests, BeginScan(r[1], r[2]) PROVE SamplerInv'
  <2>1. r[1] \in Sorts /\ r[2] \in Nat
    BY DEF Requests, Sorts
  <2>2. NoSample \in Samples
    BY DEF NoSample, Samples, Missing
  <2>3. scan' = [at |-> now, sort |-> r[1], limit |-> r[2], todo |-> {p \in Pids : os[p].alive},
                 count |-> 0, next |-> [p \in Pids |-> NoSample], entries |-> {}]
    BY <1>4 DEF BeginScan, Idle
  <2>4. scan' \in Scans
    BY <2>1, <2>2, <2>3 DEF SamplerInv, SamplerTypes, Scans
  <2>5. /\ \A p \in Pids : scan'.next[p] = NoSample
        /\ scan'.entries = {} /\ scan'.limit = r[2] /\ r[2] <= SampleLimit
    BY <2>3 DEF Requests
  <2>6. UNCHANGED <<now, os, previous, last>>
    BY <1>4 DEF BeginScan
  <2>7. QED
    BY <2>4, <2>5, <2>6, FS_EmptySet DEF SamplerInv, SamplerTypes
<1>5. ASSUME NEW p \in Pids, NEW c \in BOOLEAN, NEW m \in BOOLEAN, ReadProcess(p, c, m)
      PROVE SamplerInv'
  <2>1. SamplerTypes
    BY DEF SamplerInv
  <2>2. scan' \in Scans
    BY <1>5, <2>1, ReadTypes
  <2>3. SamplerTypes'
    BY <1>5, <2>1, <2>2 DEF SamplerTypes, ReadProcess
  <2>4. \A q \in Pids : scan'.next[q] # NoSample =>
          scan'.next[q].at = scan'.at /\ scan'.next[q].born <= now
    <3>1. /\ \A q \in Pids : q # p => scan'.next[q] = scan.next[q]
          /\ scan'.next[p] = IF c THEN [born |-> os[p].born, at |-> scan.at, cpu |-> os[p].cpu]
                                  ELSE NoSample
          /\ scan'.at = scan.at
      BY <1>5, <2>1, ReadTypes
    <3>2. QED
      BY <3>1 DEF SamplerInv
  <2>5. CpuSince(p) # Missing => os[p].born <= last.finished
    BY DEF CpuSince, SamplerInv
  <2>6. \A e \in scan'.entries : e.cpu # Missing => e.born <= last.finished
    <3>1. \A e \in scan'.entries : e \in scan.entries \/
            (e.born = os[p].born /\ (e.cpu # Missing => CpuSince(p) # Missing))
      BY <1>5, <2>1, ReadTypes
    <3>2. QED
      BY <2>5, <3>1 DEF SamplerInv
  <2>7. \A e \in scan'.entries : e.over >= 1 /\ e.cpu >= Missing
    <3>1. \A e \in scan'.entries : e \in scan.entries \/ (e.over >= 1 /\ e.cpu >= Missing)
      BY <1>5, <2>1, ReadTypes
    <3>2. QED
      BY <3>1 DEF SamplerInv
  <2>8. scan'.limit <= SampleLimit /\ IsFiniteSet(scan'.entries)
    BY <1>5, <2>1, ReadTypes DEF SamplerInv
  <2>9. QED
    BY <1>5, <2>3, <2>4, <2>6, <2>7, <2>8 DEF SamplerInv, ReadProcess
<1>6. ASSUME NEW p \in Pids, SkipProcess(p) PROVE SamplerInv'
  BY <1>6 DEF SkipProcess, SamplerInv, SamplerTypes, Scans
<1>7. CASE FinishScan
  <2>1. Idle \in Scans
    BY DEF Idle, Scans, Missing, Sorts, Samples, NoSample
  <2>2. /\ previous' = scan.next /\ last' = [began |-> scan.at, finished |-> now]
        /\ scan' = Idle /\ UNCHANGED <<now, os>>
    BY <1>7 DEF FinishScan, Baseline
  <2>3. SamplerTypes'
    BY <2>1, <2>2 DEF SamplerInv, SamplerTypes, Scans
  <2>4. QED
    BY <2>2, <2>3, FS_EmptySet DEF SamplerInv, SamplerTypes, Idle
<1>8. CASE FailScan
  <2>1. Idle \in Scans
    BY DEF Idle, Scans, Missing, Sorts, Samples, NoSample
  <2>2. QED
    BY <1>8, <2>1, FS_EmptySet DEF FailScan, SamplerInv, SamplerTypes, Idle
<1>9. CASE UNCHANGED samplerVars
  BY <1>9 DEF samplerVars, SamplerInv, SamplerTypes
<1>10. QED
  BY <1>1, <1>2, <1>3, <1>4, <1>5, <1>6, <1>7, <1>8, <1>9 DEF SamplerNext

\* A rate always spans the life of one process, however pids are reused
\* between and during scans.
THEOREM RatesAlwaysSpanOneProcess == SamplerSpec => []RatesSpanOneProcess
<1>1. SamplerInv => RatesSpanOneProcess
  BY DEF SamplerInv, RatesSpanOneProcess
<1>2. QED
  BY <1>1, SamplerStart, SamplerStep, PTL DEF SamplerSpec

\* The baseline is always that of the last finished scan, so that the rates of
\* an answer are over the same time.
THEOREM BaselineIsAlwaysLastScan == SamplerSpec => []BaselineIsLastScan
<1>1. SamplerInv => BaselineIsLastScan
  BY DEF SamplerInv, BaselineIsLastScan
<1>2. QED
  BY <1>1, SamplerStart, SamplerStep, PTL DEF SamplerSpec

----------------------------------------------------------------------------
(* Order and cut.                                                          *)

\* What the order is about: a rate that may be missing, over some time.
RanksBefore ==
  {e \in [pid : Pids, born : Int, cpu : Int, over : Int, mem : Int] :
     e.over >= 1 /\ e.cpu >= Missing}

\* a is at least as fast as b.
AsFast(a, b) ==
  \/ b.cpu = Missing
  \/ a.cpu # Missing /\ a.cpu * b.over >= b.cpu * a.over

\* Ratios are compared across: a/x >= b/y and b/y >= c/z give a/z >= c/x, and
\* strictly if one of the two is strict.
LEMMA CrossTransitive ==
  ASSUME NEW a \in Nat, NEW b \in Nat, NEW c \in Nat,
         NEW x \in Nat \ {0}, NEW y \in Nat \ {0}, NEW z \in Nat \ {0},
         a * y >= b * x, b * z >= c * y
  PROVE  /\ a * z >= c * x
         /\ (a * y > b * x \/ b * z > c * y) => a * z > c * x
<1>1. (a * y) * z >= (b * x) * z /\ (a * y > b * x => (a * y) * z > (b * x) * z)
  BY Z3
<1>2. (b * z) * x >= (c * y) * x /\ (b * z > c * y => (b * z) * x > (c * y) * x)
  BY Z3
<1>3. /\ (a * y) * z = (a * z) * y /\ (b * x) * z = (b * z) * x
      /\ (c * y) * x = (c * x) * y
  BY Z3
<1>4. /\ (a * z) * y >= (c * x) * y
      /\ (a * y > b * x \/ b * z > c * y) => (a * z) * y > (c * x) * y
  BY <1>1, <1>2, <1>3, Z3
<1>5. QED
  BY <1>4, Z3

\* Of two ranked entries either is as fast as the other unless that is faster.
LEMMA NotFaster ==
  ASSUME NEW a \in RanksBefore, NEW b \in RanksBefore
  PROVE  /\ ~Faster(b, a) <=> AsFast(a, b)
         /\ Faster(a, b) => AsFast(a, b)
<1>1. a.cpu * b.over \in Int /\ b.cpu * a.over \in Int
  BY Z3 DEF RanksBefore
<1>2. QED
  BY <1>1 DEF Faster, AsFast, RanksBefore, Missing

\* To be as fast is transitive, and so is to be faster.
LEMMA FastTransitive ==
  ASSUME NEW a \in RanksBefore, NEW b \in RanksBefore, NEW c \in RanksBefore, AsFast(a, b), AsFast(b, c)
  PROVE  /\ AsFast(a, c)
         /\ (Faster(a, b) \/ Faster(b, c)) => Faster(a, c)
<1>1. CASE c.cpu = Missing
  BY <1>1 DEF AsFast, Faster
<1>2. CASE c.cpu # Missing
  <2>1. /\ a.cpu # Missing /\ b.cpu # Missing
        /\ a.cpu * b.over >= b.cpu * a.over /\ b.cpu * c.over >= c.cpu * b.over
    BY <1>2 DEF AsFast
  <2>2. /\ a.cpu \in Nat /\ b.cpu \in Nat /\ c.cpu \in Nat
        /\ a.over \in Nat \ {0} /\ b.over \in Nat \ {0} /\ c.over \in Nat \ {0}
    BY <1>2, <2>1 DEF RanksBefore, Missing
  <2>3. /\ a.cpu * c.over >= c.cpu * a.over
        /\ (a.cpu * b.over > b.cpu * a.over \/ b.cpu * c.over > c.cpu * b.over) =>
             a.cpu * c.over > c.cpu * a.over
    BY <2>1, <2>2, CrossTransitive
  <2>4. QED
    BY <1>2, <2>1, <2>3 DEF AsFast, Faster
<1>3. QED
  BY <1>1, <1>2

\* The order of every command is transitive.
LEMMA PrecedesTransitive ==
  ASSUME NEW sort \in Sorts, NEW a \in RanksBefore, NEW b \in RanksBefore, NEW c \in RanksBefore,
         Precedes(a, b, sort), Precedes(b, c, sort)
  PROVE  Precedes(a, c, sort)
<1>1. /\ a.pid \in Nat /\ b.pid \in Nat /\ c.pid \in Nat
      /\ a.mem \in Int /\ b.mem \in Int /\ c.mem \in Int
  BY SamplerAssumption DEF RanksBefore
<1> DEFINE Fast == AsFast(a, b) /\ AsFast(b, c)
<1>2. Fast => /\ ~Faster(c, a)
              /\ (Faster(a, b) \/ Faster(b, c)) => Faster(a, c)
  BY FastTransitive, NotFaster
<1>3. (~Faster(b, a) <=> AsFast(a, b)) /\ (Faster(a, b) => AsFast(a, b))
  BY NotFaster
<1>4. (~Faster(c, b) <=> AsFast(b, c)) /\ (Faster(b, c) => AsFast(b, c))
  BY NotFaster
<1>5. CASE sort = "cpu"
  BY <1>1, <1>2, <1>3, <1>4, <1>5 DEF Precedes
<1>6. CASE sort = "memory"
  BY <1>1, <1>6 DEF Precedes
<1>7. CASE sort = "none"
  BY <1>1, <1>2, <1>3, <1>4, <1>7 DEF Precedes
<1>8. QED
  BY <1>5, <1>6, <1>7 DEF Sorts

\* To cut the entries to n and then to k is to cut them to k.
LEMMA CutTwice ==
  ASSUME NEW sort \in Sorts, NEW S \in SUBSET RanksBefore, IsFiniteSet(S),
         NEW n \in Nat, NEW k \in Nat, k <= n
  PROVE  First(First(S, n, sort), k, sort) = First(S, k, sort)
<1> DEFINE T == First(S, n, sort)
           Before(e) == {d \in S : Precedes(d, e, sort)}
           Kept(e) == {d \in T : Precedes(d, e, sort)}
<1>1. T \in SUBSET S /\ \A e \in S : e \in T <=> Cardinality(Before(e)) < n
  BY DEF First
<1>2. \A e \in S : IsFiniteSet(Before(e)) /\ Cardinality(Before(e)) \in Nat
  BY FS_Subset, FS_CardinalityType
<1>3. /\ \A d, e : d \in Before(e) <=> d \in S /\ Precedes(d, e, sort)
      /\ \A d, e : d \in Kept(e) <=> d \in T /\ Precedes(d, e, sort)
  OBVIOUS
<1> HIDE DEF T, Before, Kept
<1>4. ASSUME NEW e \in T PROVE Kept(e) = Before(e)
  <2>1. SUFFICES ASSUME NEW d \in Before(e) PROVE d \in T
    BY <1>1, <1>3
  <2>2. d \in S /\ e \in S /\ Precedes(d, e, sort)
    BY <1>1, <1>3, <1>4
  <2>3. Before(d) \in SUBSET Before(e)
    BY <1>3, <2>2, PrecedesTransitive
  <2>4. Cardinality(Before(d)) <= Cardinality(Before(e))
    BY <1>2, <2>2, <2>3, FS_Subset
  <2>5. QED
    BY <1>1, <1>2, <1>4, <2>2, <2>4
<1>5. First(T, k, sort) = {e \in T : Cardinality(Kept(e)) < k}
  BY DEF First, Kept
<1>6. First(S, k, sort) = {e \in S : Cardinality(Before(e)) < k}
  BY DEF First, Before
<1>7. \A e \in S : Cardinality(Before(e)) < k => e \in T
  BY <1>1, <1>2
<1>8. First(T, k, sort) = First(S, k, sort)
  BY <1>1, <1>4, <1>5, <1>6, <1>7
<1>9. QED
  BY <1>8 DEF T

\* An answer always holds the first of all processes read in the order that was
\* asked for, however many there are: the cut to the sample limit, made before
\* the cut to the limit of the request, loses none of them.
THEOREM AnswerIsAlwaysTop == SamplerSpec => []AnswerIsTop
<1>1. ASSUME SamplerInv PROVE AnswerIsTop
  <2>1. scan.sort \in Sorts /\ scan.limit \in Nat /\ scan.entries \in SUBSET Entries
    BY <1>1 DEF SamplerInv, SamplerTypes, Scans
  <2>2. scan.entries \in SUBSET RanksBefore
    <3>1. SUFFICES ASSUME NEW e \in scan.entries PROVE e \in RanksBefore
      OBVIOUS
    <3>2. e \in Entries /\ e.over >= 1 /\ e.cpu >= Missing
      BY <1>1, <2>1 DEF SamplerInv
    <3>3. Sizes \cup {Missing} \subseteq Int
      BY SamplerAssumption DEF Missing
    <3>4. QED
      BY <3>2, <3>3 DEF Entries, RanksBefore
  <2>3. /\ IsFiniteSet(scan.entries) /\ SampleLimit \in Nat
        /\ scan.limit <= SampleLimit
    BY <1>1, SamplerAssumption DEF SamplerInv
  <2>4. QED
    BY <2>1, <2>2, <2>3, CutTwice DEF AnswerIsTop, Answer, Sampled
<1>2. QED
  BY <1>1, SamplerStart, SamplerStep, PTL DEF SamplerSpec
=============================================================================
