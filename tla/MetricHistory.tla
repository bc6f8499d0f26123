--------------------------- MODULE MetricHistory ---------------------------
(***************************************************************************)
(* The sparkline histories: MetricHistory.qml and its HistoryBuffers.  A   *)
(* buffer hears when a property of a provider changes, so what it keeps    *)
(* depends on the order in which the provider assigns values and state.    *)
(* One refresh of a provider is one action, its assignments in the order   *)
(* of the code.                                                            *)
(*                                                                         *)
(* The groups have no state in common: a behaviour follows one of them,    *)
(* cpu (memory is like it), network (rx and tx) or gpu.  The state         *)
(* "loading" stands for the GPU's "detecting" and "error" as well.         *)
(***************************************************************************)
EXTENDS Integers, Sequences

CONSTANTS
  Values,        \* finite values of a metric, 0 among them
  NaN,           \* not a number: what a GPU does not report
  Lengths,       \* history lengths that may be set: 30, 60, 120
  AskedLengths,  \* settings of the length, valid or not
  Default        \* the length for an invalid setting: 60

ASSUME HistoryAssumption ==
  /\ 0 \in Values /\ NaN \notin Values
  /\ Lengths \subseteq Nat \ {0} /\ Default \in Lengths

VARIABLES
  group,    \* the group followed
  metric,   \* state and values of the provider's group, and the buffers they feed
  on,       \* the switches that are on
  length    \* effectiveMaximumSamples

historyVars == <<group, metric, on, length>>

Groups == {"cpu", "network", "gpu"}
Series(g) == IF g = "network" THEN {"rx", "tx"} ELSE {g}
Own == Series(group)

\* cpuEnabled; networkEnabled, networkRxEnabled, networkTxEnabled; gpuEnabled.
Switches(s) == {s} \cup {g \in Groups : s \in Series(g)}
Enabled(s) == Switches(s) \subseteq on

Metrics(g) ==
  [state : {"loading", "available", "unavailable"},
   value : [Series(g) -> Values \cup {NaN}],
   buffer : [Series(g) -> Seq(Values)]]

HistoryTypeOK ==
  /\ group \in Groups
  /\ metric \in Metrics(group)
  /\ \A s \in Own : Len(metric.buffer[s]) <= length
  /\ on \subseteq UNION {Switches(s) : s \in Own}
  /\ length \in Lengths

\* All series are on.  The provider knows nothing yet, or has had first values,
\* which Component.onCompleted appends.
HistoryInit ==
  /\ group \in Groups
  /\ \E value \in [Own -> Values \cup {NaN}] :
       \/ /\ \A s \in Own : value[s] = IF group = "gpu" THEN NaN ELSE 0
          /\ metric = [state |-> "loading", value |-> value, buffer |-> [s \in Own |-> <<>>]]
       \/ /\ group # "gpu" => \A s \in Own : value[s] # NaN
          /\ metric = [state |-> "available", value |-> value,
                       buffer |-> [s \in Own |-> IF value[s] = NaN THEN <<>> ELSE <<value[s]>>]]
  /\ on = UNION {Switches(s) : s \in Own}
  /\ length = Default

----------------------------------------------------------------------------
(* The buffer, and the handlers of the change signals.  They work on a     *)
(* metric m, as the assignments of a refresh follow one another.           *)

LastOf(seq, n) == IF Len(seq) <= n THEN seq ELSE SubSeq(seq, Len(seq) - n + 1, Len(seq))

\* HistoryBuffer.append
Appended(buffer, x) == IF x = NaN THEN buffer ELSE LastOf(Append(buffer, x), length)

\* appendCpu and its like.
Heard(m, s) ==
  IF Enabled(s) /\ m.state = "available"
  THEN [m EXCEPT !.buffer[s] = Appended(@, m.value[s])]
  ELSE m

\* An assignment to a value: NaN differs from itself.
SetValue(m, s, x) ==
  IF x = m.value[s] /\ x # NaN THEN m ELSE Heard([m EXCEPT !.value[s] = x], s)

\* Mutant: an assignment to the state takes a sample.
SetStateSamples(m, to) ==
  [m EXCEPT !.state = to,
            !.buffer = [s \in Own |-> IF to # "available" THEN <<>>
                                      ELSE IF Enabled(s) THEN Appended(@[s], m.value[s])
                                      ELSE @[s]]]

\* An assignment to the state: leaving "available" clears.
SetState(m, to) ==
  [state |-> to, value |-> m.value,
   buffer |-> IF to # m.state /\ to # "available" THEN [s \in Own |-> <<>>] ELSE m.buffer]

----------------------------------------------------------------------------
(* The providers.                                                          *)

Becomes(m) == metric' = m /\ UNCHANGED <<group, on, length>>

\* tryCpuSources
CpuRefresh(x) ==
  /\ group = "cpu"
  /\ Becomes(SetState(SetValue(metric, "cpu", x), "available"))

\* The discovery timer, which runs once.
CpuUnavailable ==
  /\ group = "cpu" /\ metric.state = "loading"
  /\ Becomes(SetState(metric, "unavailable"))

\* updateNetworkAggregate
NetworkRefresh(rx, tx) ==
  /\ group = "network"
  /\ Becomes(SetState(SetValue(SetValue(metric, "rx", rx), "tx", tx), "available"))

\* handleNetworkSourceLoss, discoverNetworkSources without a pair, the deadline.
NetworkGone(to) ==
  /\ group = "network"
  /\ to = "unavailable" => metric.state # "available"
  /\ Becomes(SetValue(SetValue(SetState(metric, to), "rx", 0), "tx", 0))

\* handleGpuResponse: the values are cleared, then set, then the state.
GpuRefresh(x) ==
  /\ group = "gpu"
  /\ Becomes(SetState(SetValue(SetValue(metric, "gpu", NaN), "gpu", x), "available"))

\* An answer without a GPU, and a backend that is gone.
GpuGone(to) ==
  /\ group = "gpu"
  /\ Becomes(SetState(SetValue(metric, "gpu", NaN), to))

----------------------------------------------------------------------------
(* The settings.                                                           *)

\* Mutant: a hidden series keeps its samples.
CleaningNone(s, switch) == FALSE

\* Turning the switch off clears s.
Cleaning(s, switch) == switch \in on /\ switch \in Switches(s)

Toggle(switch) ==
  /\ on' = IF switch \in on THEN on \ {switch} ELSE on \cup {switch}
  /\ metric' = [metric EXCEPT !.buffer =
                  [s \in Own |-> IF Cleaning(s, switch) THEN <<>> ELSE @[s]]]
  /\ UNCHANGED <<group, length>>

\* Mutant: the oldest samples are kept.
ShortenedAtEnd(buffer, n) == IF Len(buffer) <= n THEN buffer ELSE SubSeq(buffer, 1, n)

\* onEffectiveMaximumSamplesChanged
Shortened(buffer, n) == LastOf(buffer, n)

Effective(request) == IF request \in Lengths THEN request ELSE Default

SetMaximum(request) ==
  /\ length' = Effective(request)
  /\ metric' = [metric EXCEPT !.buffer = [s \in Own |-> Shortened(@[s], length')]]
  /\ UNCHANGED <<group, on>>

----------------------------------------------------------------------------
HistoryNext ==
  \/ \E x \in Values : CpuRefresh(x)
  \/ CpuUnavailable
  \/ \E rx, tx \in Values : NetworkRefresh(rx, tx)
  \/ \E to \in {"loading", "unavailable"} : NetworkGone(to)
  \/ \E x \in Values \cup {NaN} : GpuRefresh(x)
  \/ \E to \in {"loading", "unavailable"} : GpuGone(to)
  \/ \E s \in Own : \E switch \in Switches(s) : Toggle(switch)
  \/ \E request \in AskedLengths : SetMaximum(request)

HistorySpec == HistoryInit /\ [][HistoryNext]_historyVars

----------------------------------------------------------------------------
\* A hidden series has no samples, and neither has one whose metric is not
\* available: nothing collected before comes back when it is again.
AbsentSeriesIsEmpty ==
  \A s \in Own : ~Enabled(s) \/ metric.state # "available" => metric.buffer[s] = <<>>

\* The newest point of a sparkline is the value its label shows.
NewestSampleIsShown ==
  \A s \in Own : metric.buffer[s] # <<>> /\ metric.value[s] # NaN =>
    metric.buffer[s][Len(metric.buffer[s])] = metric.value[s]

\* An update of a metric takes one sample at most ("metric property updates
\* did not append exactly once", tests/MetricHistoryProbe.qml:56), though a
\* refresh assigns a value twice and several properties.
SampledOnceAtMost ==
  [][\A s \in Own :
       LET was == metric.buffer[s]  is == metric'.buffer[s]
       IN  \/ is = <<>> \/ is = LastOf(was, length')
           \/ is = LastOf(Append(was, metric'.value[s]), length')]_historyVars
============================================================================
