------------------------ MODULE MetricHistory_proofs ------------------------
(***************************************************************************)
(* Proofs about MetricHistory.tla, for any values and lengths, and about   *)
(* LoadMetrics.tla, for any numbers that the sources report.  A refresh of *)
(* a history is a sequence of assignments, each of which keeps the same    *)
(* invariant of a metric; the two lemmas about SetValue and SetState say   *)
(* so, and every action of a provider follows from them.                   *)
(***************************************************************************)
EXTENDS MetricHistory, LoadMetrics, TLAPS

\* The invariant of a metric: its type and length, an absent series is empty,
\* and the newest sample is the value.
Typed(m) ==
  /\ m \in Metrics(group)
  /\ \A s \in Own : Len(m.buffer[s]) <= length
Absent(m) ==
  \A s \in Own : ~Enabled(s) \/ m.state # "available" => m.buffer[s] = <<>>
Newest(m) ==
  \A s \in Own : m.buffer[s] # <<>> /\ m.value[s] # NaN =>
    m.buffer[s][Len(m.buffer[s])] = m.value[s]
Consistent(m) == Typed(m) /\ Absent(m) /\ Newest(m)

HistoryInv ==
  /\ HistoryTypeOK
  /\ Consistent(metric)

----------------------------------------------------------------------------
\* The last n of a sequence: at most n, and the newest among them.
LEMMA LastOfKeepsNewest ==
  ASSUME NEW S, NEW seq \in Seq(S), NEW n \in Nat \ {0}
  PROVE  /\ LastOf(seq, n) \in Seq(S)
         /\ Len(LastOf(seq, n)) <= n
         /\ LastOf(seq, n) = <<>> <=> seq = <<>>
         /\ seq # <<>> => LastOf(seq, n)[Len(LastOf(seq, n))] = seq[Len(seq)]
<1>1. CASE Len(seq) <= n
  BY <1>1 DEF LastOf
<1>2. CASE Len(seq) > n
  <2> DEFINE from == Len(seq) - n + 1
             last == SubSeq(seq, from, Len(seq))
  <2>1. from \in 1 .. Len(seq) /\ Len(seq) \in Nat
    BY <1>2
  <2>2. last \in Seq(S) /\ Len(last) = n /\ last[n] = seq[Len(seq)]
    BY <2>1
  <2>3. LastOf(seq, n) = last
    BY <1>2 DEF LastOf
  <2>4. seq # <<>> /\ last # <<>>
    <3>1. Len(seq) # 0 /\ Len(last) # 0
      BY <1>2, <2>2
    <3> HIDE DEF last
    <3>2. QED
      BY <3>1
  <2> HIDE DEF last
  <2>5. QED
    BY <2>2, <2>3, <2>4
<1>3. QED
  BY <1>1, <1>2

\* An appended sample is the newest; what is not a number changes nothing.
LEMMA AppendedIsNewest ==
  ASSUME NEW buffer \in Seq(Values), Len(buffer) <= length, length \in Nat \ {0},
         NEW x \in Values \cup {NaN}
  PROVE  /\ Appended(buffer, x) \in Seq(Values)
         /\ Len(Appended(buffer, x)) <= length
         /\ x # NaN => /\ Appended(buffer, x) # <<>>
                       /\ Appended(buffer, x)[Len(Appended(buffer, x))] = x
<1>1. CASE x = NaN
  BY <1>1 DEF Appended
<1>2. CASE x # NaN
  <2> DEFINE longer == Append(buffer, x)
  <2>1. longer \in Seq(Values) /\ longer # <<>> /\ longer[Len(longer)] = x
    BY <1>2
  <2>2. Appended(buffer, x) = LastOf(longer, length)
    BY <1>2 DEF Appended
  <2> HIDE DEF longer
  <2>3. QED
    BY <2>1, <2>2, LastOfKeepsNewest
<1>3. QED
  BY <1>1, <1>2

\* A record of a metric is its three fields.
LEMMA MetricFields ==
  ASSUME NEW m \in Metrics(group)
  PROVE  /\ m.state \in {"loading", "available", "unavailable"}
         /\ m.value \in [Own -> Values \cup {NaN}]
         /\ m.buffer \in [Own -> Seq(Values)]
         /\ m = [state |-> m.state, value |-> m.value, buffer |-> m.buffer]
BY DEF Metrics, Own

\* EXCEPT on the fields of a metric.
LEMMA ExceptValue ==
  ASSUME NEW st, NEW val, NEW buf, NEW s, NEW x
  PROVE  [[state |-> st, value |-> val, buffer |-> buf] EXCEPT !.value[s] = x] =
         [state |-> st, value |-> [val EXCEPT ![s] = x], buffer |-> buf]
OBVIOUS
\* An appended sample changes the buffer of its series only.
LEMMA ExceptBuffer ==
  ASSUME NEW st, NEW val, NEW buf, NEW s, NEW x
  PROVE  [[state |-> st, value |-> val, buffer |-> buf] EXCEPT !.buffer[s] = Appended(@, x)] =
         [state |-> st, value |-> val, buffer |-> [buf EXCEPT ![s] = Appended(buf[s], x)]]
OBVIOUS

\* An assignment to a value keeps the invariant of the metric.
LEMMA SetValueKeeps ==
  ASSUME length \in Nat \ {0}, NEW m, Consistent(m), NEW s \in Own,
         NEW x \in Values \cup {NaN}
  PROVE  Consistent(SetValue(m, s, x))
<1> DEFINE value == [m.value EXCEPT ![s] = x]
           buffer == [m.buffer EXCEPT ![s] = Appended(m.buffer[s], x)]
           set == [state |-> m.state, value |-> value, buffer |-> m.buffer]
           heard == [state |-> m.state, value |-> value, buffer |-> buffer]
<1>1. /\ m \in Metrics(group) /\ m.state \in {"loading", "available", "unavailable"}
      /\ m.value \in [Own -> Values \cup {NaN}] /\ m.buffer \in [Own -> Seq(Values)]
      /\ m = [state |-> m.state, value |-> m.value, buffer |-> m.buffer]
  BY MetricFields DEF Consistent, Typed
<1>2. /\ Appended(m.buffer[s], x) \in Seq(Values) /\ Len(Appended(m.buffer[s], x)) <= length
      /\ x # NaN => /\ Appended(m.buffer[s], x) # <<>>
                    /\ Appended(m.buffer[s], x)[Len(Appended(m.buffer[s], x))] = x
  BY <1>1, AppendedIsNewest DEF Consistent, Typed
<1>3. value \in [Own -> Values \cup {NaN}] /\ buffer \in [Own -> Seq(Values)]
  BY <1>1, <1>2
<1>4. [m EXCEPT !.value[s] = x] = set /\ [set EXCEPT !.buffer[s] = Appended(@, set.value[s])] = heard
  <2>1. [m EXCEPT !.value[s] = x] = set
    <3> DEFINE r == [state |-> m.state, value |-> m.value, buffer |-> m.buffer]
    <3>1. [r EXCEPT !.value[s] = x] = set
      BY ExceptValue
    <3>2. m = r
      BY <1>1
    <3> HIDE DEF r, set
    <3>3. QED
      BY <3>1, <3>2
  <2>2. [set EXCEPT !.buffer[s] = Appended(@, x)] = heard
    BY ExceptBuffer
  <2>3. set.value[s] = x
    BY <1>1
  <2>4. QED
    BY <2>1, <2>2, <2>3
<1>5. CASE SetValue(m, s, x) = m
  BY <1>5
<1>6. CASE SetValue(m, s, x) = set /\ ~(Enabled(s) /\ m.state = "available")
  <2>1. m.buffer[s] = <<>>
    BY <1>6 DEF Consistent, Absent
  <2>2. set.state = m.state /\ set.value = value /\ set.buffer = m.buffer
    OBVIOUS
  <2>3. Typed(set)
    BY <1>1, <1>3 DEF Consistent, Typed, Metrics, Own
  <2>4. Absent(set)
    BY <2>2 DEF Consistent, Absent
  <2>5. Newest(set)
    BY <2>1, <2>2, <1>1 DEF Consistent, Newest
  <2>6. QED
    BY <1>6, <2>3, <2>4, <2>5 DEF Consistent
<1>7. CASE SetValue(m, s, x) = heard /\ Enabled(s) /\ m.state = "available"
  <2>1. heard.state = m.state /\ heard.value = value /\ heard.buffer = buffer
    OBVIOUS
  <2>2. \A t \in Own \ {s} : value[t] = m.value[t] /\ buffer[t] = m.buffer[t]
    BY <1>1
  <2>3. value[s] = x /\ buffer[s] = Appended(m.buffer[s], x)
    BY <1>1
  <2> HIDE DEF value, buffer
  <2>4. Typed(heard)
    <3>1. heard \in Metrics(group)
      BY <1>1, <1>3 DEF Metrics, Own
    <3>2. \A t \in Own : Len(heard.buffer[t]) <= length
      BY <1>2, <2>1, <2>2, <2>3 DEF Consistent, Typed
    <3>3. QED
      BY <3>1, <3>2 DEF Typed
  <2>5. Absent(heard)
    BY <1>7, <2>1, <2>2 DEF Consistent, Absent
  <2>6. Newest(heard)
    BY <1>2, <2>1, <2>2, <2>3 DEF Consistent, Newest
  <2>7. QED
    BY <1>7, <2>4, <2>5, <2>6 DEF Consistent
<1>8. \/ SetValue(m, s, x) = m
      \/ SetValue(m, s, x) = set /\ ~(Enabled(s) /\ m.state = "available")
      \/ SetValue(m, s, x) = heard /\ Enabled(s) /\ m.state = "available"
  <2>1. set.state = m.state
    OBVIOUS
  <2> HIDE DEF set, heard
  <2>2. QED
    BY <1>4, <2>1 DEF SetValue, Heard
<1>9. QED
  BY <1>5, <1>6, <1>7, <1>8

\* The metric r is m with x assigned to the value of s: no other value or buffer
\* is changed, and its own buffer has taken one sample of x or none.
Assigned(r, m, s, x) ==
  /\ Consistent(r) /\ r \in Metrics(group) /\ r.state = m.state
  /\ r.value[s] = x
  /\ r.buffer[s] = m.buffer[s] \/ r.buffer[s] = Appended(m.buffer[s], x)
  /\ \A t \in Own \ {s} : r.value[t] = m.value[t] /\ r.buffer[t] = m.buffer[t]

\* That is what SetValue does.
LEMMA SetValueSamples ==
  ASSUME length \in Nat \ {0}, NEW m, Consistent(m), NEW s \in Own,
         NEW x \in Values \cup {NaN}, NEW r, r = SetValue(m, s, x)
  PROVE  Assigned(r, m, s, x)
<1> DEFINE value == [m.value EXCEPT ![s] = x]
           buffer == [m.buffer EXCEPT ![s] = Appended(m.buffer[s], x)]
           set == [state |-> m.state, value |-> value, buffer |-> m.buffer]
           heard == [state |-> m.state, value |-> value, buffer |-> buffer]
<1>1. /\ m \in Metrics(group) /\ m.value \in [Own -> Values \cup {NaN}]
      /\ m.buffer \in [Own -> Seq(Values)]
      /\ m = [state |-> m.state, value |-> m.value, buffer |-> m.buffer]
  BY MetricFields DEF Consistent, Typed
<1>2. Consistent(r) /\ r \in Metrics(group)
  BY SetValueKeeps DEF Consistent, Typed
<1>3. [m EXCEPT !.value[s] = x] = set
  <2> DEFINE q == [state |-> m.state, value |-> m.value, buffer |-> m.buffer]
  <2>1. [q EXCEPT !.value[s] = x] = set
    BY ExceptValue
  <2>2. m = q
    BY <1>1
  <2> HIDE DEF q, set
  <2>3. QED
    BY <2>1, <2>2
<1>4. /\ value[s] = x /\ \A t \in Own \ {s} : value[t] = m.value[t]
      /\ buffer[s] = Appended(m.buffer[s], x)
      /\ \A t \in Own \ {s} : buffer[t] = m.buffer[t]
  BY <1>1
<1> HIDE DEF value, buffer
<1>5. [set EXCEPT !.buffer[s] = Appended(@, set.value[s])] = heard
  <2>1. [set EXCEPT !.buffer[s] = Appended(@, x)] = heard
    BY ExceptBuffer DEF buffer
  <2>2. set.value[s] = x
    BY <1>4
  <2>3. QED
    BY <2>1, <2>2
<1>6. /\ set.state = m.state /\ set.value = value /\ set.buffer = m.buffer
      /\ heard.state = m.state /\ heard.value = value /\ heard.buffer = buffer
  OBVIOUS
<1> HIDE DEF set, heard
<1>7. (r = m /\ x = m.value[s]) \/ r = set \/ r = heard
  BY <1>3, <1>5, <1>6 DEF SetValue, Heard
<1>8. QED
  BY <1>2, <1>4, <1>6, <1>7 DEF Assigned

\* So does an assignment to the state.
LEMMA SetStateKeeps ==
  ASSUME length \in Nat \ {0}, NEW m, Consistent(m),
         NEW to \in {"loading", "available", "unavailable"}
  PROVE  Consistent(SetState(m, to))
<1> DEFINE none == [s \in Own |-> <<>>]
           cleared == to # m.state /\ to # "available"
           buffer == IF cleared THEN none ELSE m.buffer
           set == [state |-> to, value |-> m.value, buffer |-> buffer]
<1>1. /\ m.value \in [Own -> Values \cup {NaN}] /\ m.buffer \in [Own -> Seq(Values)]
      /\ m = [state |-> m.state, value |-> m.value, buffer |-> m.buffer]
  BY MetricFields DEF Consistent, Typed
<1>2. SetState(m, to) = set
  BY <1>1 DEF SetState
<1>3. none \in [Own -> Seq(Values)] /\ \A s \in Own : none[s] = <<>> /\ Len(none[s]) = 0
  OBVIOUS
<1>4. set.state = to /\ set.value = m.value /\ set.buffer = buffer
  OBVIOUS
<1> HIDE DEF none
<1>5. Typed(set)
  <2>1. set \in Metrics(group)
    BY <1>1, <1>3 DEF Metrics, Own
  <2>2. \A s \in Own : Len(buffer[s]) <= length
    BY <1>3 DEF Consistent, Typed
  <2>3. QED
    BY <2>1, <2>2, <1>4 DEF Typed
<1>6. Absent(set)
  BY <1>3, <1>4 DEF Consistent, Absent
<1>7. Newest(set)
  BY <1>3, <1>4 DEF Consistent, Newest
<1>8. QED
  BY <1>2, <1>5, <1>6, <1>7 DEF Consistent

----------------------------------------------------------------------------
\* The parts of the invariant that belong to the metric and to the settings.
LEMMA InvParts ==
  HistoryInv <=> /\ Consistent(metric) /\ group \in Groups /\ length \in Lengths
                 /\ on \subseteq UNION {Switches(s) : s \in Own}
BY DEF HistoryInv, HistoryTypeOK, Consistent, Typed

\* At first a buffer is empty, or has the one sample of an available metric.
LEMMA HistoryStarts == HistoryInit => HistoryInv
<1> SUFFICES ASSUME HistoryInit PROVE HistoryInv
  OBVIOUS
<1>1. /\ group \in Groups /\ length \in Lengths /\ length \in Nat \ {0}
      /\ on = UNION {Switches(s) : s \in Own}
  BY HistoryAssumption DEF HistoryInit
<1>2. PICK value \in [Own -> Values \cup {NaN}] :
        \/ metric = [state |-> "loading", value |-> value, buffer |-> [s \in Own |-> <<>>]]
        \/ metric = [state |-> "available", value |-> value,
                     buffer |-> [s \in Own |-> IF value[s] = NaN THEN <<>> ELSE <<value[s]>>]]
  BY DEF HistoryInit
<1>3. CASE metric = [state |-> "loading", value |-> value, buffer |-> [s \in Own |-> <<>>]]
  <2> DEFINE none == [s \in Own |-> <<>>]
  <2>1. none \in [Own -> Seq(Values)] /\ \A s \in Own : none[s] = <<>> /\ Len(none[s]) = 0
    OBVIOUS
  <2> HIDE DEF none
  <2>2. metric = [state |-> "loading", value |-> value, buffer |-> none]
    BY <1>3 DEF none
  <2>3. Typed(metric)
    <3>1. metric \in Metrics(group)
      BY <1>2, <2>1, <2>2 DEF Metrics, Own
    <3>2. metric.buffer = none
      BY <2>2
    <3> QED
      BY <1>1, <2>1, <3>1, <3>2 DEF Typed
  <2>4. Absent(metric) /\ Newest(metric)
    BY <2>1, <2>2 DEF Absent, Newest
  <2> QED
    BY <1>1, <2>3, <2>4, InvParts DEF Consistent
<1>4. CASE metric = [state |-> "available", value |-> value,
                     buffer |-> [s \in Own |-> IF value[s] = NaN THEN <<>> ELSE <<value[s]>>]]
  <2> DEFINE first == [s \in Own |-> IF value[s] = NaN THEN <<>> ELSE <<value[s]>>]
  <2>1. ASSUME NEW s \in Own
        PROVE  /\ first[s] \in Seq(Values) /\ Len(first[s]) <= 1
               /\ first[s] # <<>> => first[s][Len(first[s])] = value[s]
    <3>1. CASE value[s] = NaN
      BY <3>1
    <3>2. CASE value[s] # NaN
      <4>1. value[s] \in Values
        BY <1>2, <3>2
      <4> QED
        BY <3>2, <4>1
    <3> QED
      BY <3>1, <3>2
  <2>2. first \in [Own -> Seq(Values)]
    BY <2>1
  <2> HIDE DEF first
  <2>3. metric = [state |-> "available", value |-> value, buffer |-> first]
    BY <1>4 DEF first
  <2>4. Typed(metric)
    <3>1. metric \in Metrics(group)
      BY <1>2, <2>2, <2>3 DEF Metrics, Own
    <3>2. \A s \in Own : Len(first[s]) \in Nat /\ Len(first[s]) <= length
      BY <1>1, <2>1, <2>2
    <3> QED
      BY <2>3, <3>1, <3>2 DEF Typed
  <2>5. Absent(metric)
    <3>1. \A s \in Own : Switches(s) \subseteq UNION {Switches(t) : t \in Own}
      OBVIOUS
    <3>2. \A s \in Own : Enabled(s)
      BY <1>1, <3>1 DEF Enabled
    <3>3. metric.state = "available"
      BY <2>3
    <3> QED
      BY <3>2, <3>3 DEF Absent
  <2>6. Newest(metric)
    <3>1. metric.value = value /\ metric.buffer = first
      BY <2>3
    <3> QED
      BY <2>1, <3>1 DEF Newest
  <2> QED
    BY <1>1, <2>4, <2>5, <2>6, InvParts DEF Consistent
<1> QED
  BY <1>2, <1>3, <1>4

\* A refresh that leaves a consistent metric keeps the invariant.
LEMMA BecomesKeeps ==
  ASSUME HistoryInv, NEW m, Consistent(m), Becomes(m)
  PROVE  HistoryInv'
<1>1. metric' = m /\ UNCHANGED <<group, on, length>>
  BY DEF Becomes
<1>2. Own' = Own /\ \A s : Switches(s)' = Switches(s) /\ Enabled(s)' = Enabled(s)
  BY <1>1 DEF Own, Enabled, Switches
<1>3. Consistent(metric)'
  <2>1. Typed(metric)'
    BY <1>1, <1>2 DEF Consistent, Typed
  <2>2. Absent(metric)'
    BY <1>1, <1>2 DEF Consistent, Absent
  <2>3. Newest(metric)'
    BY <1>1, <1>2 DEF Consistent, Newest
  <2>4. QED
    BY <2>1, <2>2, <2>3 DEF Consistent
<1>4. (group \in Groups /\ length \in Lengths /\ on \subseteq UNION {Switches(s) : s \in Own})'
  BY <1>1, <1>2, InvParts
<1>5. QED
  BY <1>3, <1>4 DEF HistoryInv, HistoryTypeOK, Consistent, Typed

\* New buffers that are empty or keep the newest sample of the old ones.
LEMMA BuffersKeep ==
  ASSUME HistoryInv, NEW buffer \in [Own -> Seq(Values)],
         metric' = [metric EXCEPT !.buffer = buffer], group' = group, length' \in Lengths,
         \A s \in Own : Len(buffer[s]) <= length',
         \A s \in Own : \/ buffer[s] = <<>>
                        \/ /\ Enabled(s)' /\ metric.buffer[s] # <<>>
                           /\ buffer[s][Len(buffer[s])] = metric.buffer[s][Len(metric.buffer[s])],
         on' \subseteq UNION {Switches(s) : s \in Own}
  PROVE  HistoryInv'
<1>1. /\ metric \in Metrics(group)
      /\ metric.state \in {"loading", "available", "unavailable"}
      /\ metric.value \in [Own -> Values \cup {NaN}]
  BY InvParts, MetricFields DEF Consistent, Typed
<1>2. /\ metric'.state = metric.state /\ metric'.value = metric.value
      /\ metric'.buffer = buffer /\ metric' \in Metrics(group)
  BY <1>1 DEF Metrics, Own
<1>3. Own' = Own /\ \A s : Switches(s)' = Switches(s)
  BY DEF Own, Switches
<1>4. Typed(metric)'
  BY <1>2, <1>3 DEF Typed
<1>5. Absent(metric)'
  BY <1>2, <1>3, InvParts DEF Consistent, Absent
<1>6. Newest(metric)'
  BY <1>2, <1>3, InvParts DEF Consistent, Newest
<1>7. QED
  BY <1>3, <1>4, <1>5, <1>6, InvParts DEF HistoryInv, HistoryTypeOK, Consistent, Typed

\* Every step keeps the invariant: refreshes by their assignments, settings by
\* the buffers that they leave.
LEMMA HistoryStep == HistoryInv /\ [HistoryNext]_historyVars => HistoryInv'
<1> SUFFICES ASSUME HistoryInv, [HistoryNext]_historyVars PROVE HistoryInv'
  OBVIOUS
<1>0. /\ length \in Nat \ {0} /\ Consistent(metric) /\ length \in Lengths
      /\ metric.buffer \in [Own -> Seq(Values)]
      /\ 0 \in Values /\ \A s \in Own : Len(metric.buffer[s]) <= length
  BY InvParts, MetricFields, HistoryAssumption DEF Consistent, Typed
<1>1. CASE UNCHANGED historyVars
  BY <1>1, <1>0, BecomesKeeps DEF historyVars, Becomes
<1>2. ASSUME NEW x \in Values, CpuRefresh(x) PROVE HistoryInv'
  <2>1. "cpu" \in Own
    BY <1>2 DEF CpuRefresh, Own, Series
  <2>2. Consistent(SetState(SetValue(metric, "cpu", x), "available"))
    BY <2>1, <1>0, SetValueKeeps, SetStateKeeps
  <2>3. QED
    BY <1>2, <2>2, BecomesKeeps DEF CpuRefresh
<1>3. CASE CpuUnavailable
  <2>1. Consistent(SetState(metric, "unavailable"))
    BY <1>0, SetStateKeeps
  <2>2. QED
    BY <1>3, <2>1, BecomesKeeps DEF CpuUnavailable
<1>4. ASSUME NEW rx \in Values, NEW tx \in Values, NetworkRefresh(rx, tx) PROVE HistoryInv'
  <2>1. "rx" \in Own /\ "tx" \in Own
    BY <1>4 DEF NetworkRefresh, Own, Series
  <2>2. Consistent(SetValue(SetValue(metric, "rx", rx), "tx", tx))
    BY <2>1, <1>0, SetValueKeeps
  <2>3. Consistent(SetState(SetValue(SetValue(metric, "rx", rx), "tx", tx), "available"))
    BY <2>2, <1>0, SetStateKeeps
  <2>4. QED
    BY <1>4, <2>3, BecomesKeeps DEF NetworkRefresh
<1>5. ASSUME NEW to \in {"loading", "unavailable"}, NetworkGone(to) PROVE HistoryInv'
  <2>1. "rx" \in Own /\ "tx" \in Own
    BY <1>5 DEF NetworkGone, Own, Series
  <2>2. Consistent(SetState(metric, to))
    BY <1>0, SetStateKeeps
  <2>3. Consistent(SetValue(SetState(metric, to), "rx", 0))
    BY <2>1, <2>2, <1>0, SetValueKeeps
  <2>4. Consistent(SetValue(SetValue(SetState(metric, to), "rx", 0), "tx", 0))
    BY <2>1, <2>3, <1>0, SetValueKeeps
  <2>5. QED
    BY <1>5, <2>4, BecomesKeeps DEF NetworkGone
<1>6. ASSUME NEW x \in Values \cup {NaN}, GpuRefresh(x) PROVE HistoryInv'
  <2>1. "gpu" \in Own
    BY <1>6 DEF GpuRefresh, Own, Series
  <2>2. Consistent(SetValue(metric, "gpu", NaN))
    BY <2>1, <1>0, SetValueKeeps
  <2>3. Consistent(SetValue(SetValue(metric, "gpu", NaN), "gpu", x))
    BY <2>1, <2>2, <1>0, SetValueKeeps
  <2>4. Consistent(SetState(SetValue(SetValue(metric, "gpu", NaN), "gpu", x), "available"))
    BY <2>3, <1>0, SetStateKeeps
  <2>5. QED
    BY <1>6, <2>4, BecomesKeeps DEF GpuRefresh
<1>7. ASSUME NEW to \in {"loading", "unavailable"}, GpuGone(to) PROVE HistoryInv'
  <2>1. "gpu" \in Own
    BY <1>7 DEF GpuGone, Own, Series
  <2>2. Consistent(SetValue(metric, "gpu", NaN))
    BY <2>1, <1>0, SetValueKeeps
  <2>3. Consistent(SetState(SetValue(metric, "gpu", NaN), to))
    BY <2>2, <1>0, SetStateKeeps
  <2>4. QED
    BY <1>7, <2>3, BecomesKeeps DEF GpuGone
<1>8. ASSUME NEW t \in Own, NEW switch \in Switches(t), Toggle(switch) PROVE HistoryInv'
  <2> DEFINE buffer == [s \in Own |-> IF Cleaning(s, switch) THEN <<>> ELSE metric.buffer[s]]
  <2>1. buffer \in [Own -> Seq(Values)] /\ metric' = [metric EXCEPT !.buffer = buffer]
    BY <1>8, <1>0 DEF Toggle
  <2>2. \A s \in Own : buffer[s] = IF Cleaning(s, switch) THEN <<>> ELSE metric.buffer[s]
    OBVIOUS
  <2>3. on' \subseteq UNION {Switches(s) : s \in Own} /\ length' = length /\ group' = group
    BY <1>8, InvParts DEF Toggle
  <2>4. ASSUME NEW s \in Own, metric.buffer[s] # <<>>, ~Cleaning(s, switch)
        PROVE  Enabled(s)'
    <3>1. Switches(s) \subseteq on /\ switch \notin on \cap Switches(s)
      BY <2>4, <1>0 DEF Consistent, Absent, Enabled, Cleaning
    <3>2. Switches(s) \subseteq on'
      BY <3>1, <1>8 DEF Toggle
    <3>3. QED
      BY <3>2 DEF Enabled, Switches
  <2> HIDE DEF buffer
  <2>5. \A s \in Own : Len(buffer[s]) <= length'
    BY <1>0, <2>2, <2>3
  <2>6. \A s \in Own : \/ buffer[s] = <<>>
                       \/ /\ Enabled(s)' /\ metric.buffer[s] # <<>>
                          /\ buffer[s][Len(buffer[s])] = metric.buffer[s][Len(metric.buffer[s])]
    BY <2>2, <2>4
  <2>7. QED
    BY <1>0, <2>1, <2>3, <2>5, <2>6, BuffersKeep
<1>9. ASSUME NEW request \in AskedLengths, SetMaximum(request) PROVE HistoryInv'
  <2> DEFINE buffer == [s \in Own |-> Shortened(metric.buffer[s], length')]
  <2>1. length' \in Lengths /\ length' \in Nat \ {0} /\ UNCHANGED <<group, on>>
    BY <1>9, HistoryAssumption DEF SetMaximum, Effective
  <2>2. metric' = [metric EXCEPT !.buffer = buffer]
    BY <1>9 DEF SetMaximum
  <2>3. ASSUME NEW s \in Own
        PROVE  /\ buffer[s] \in Seq(Values) /\ Len(buffer[s]) <= length'
               /\ \/ buffer[s] = <<>>
                  \/ /\ Enabled(s)' /\ metric.buffer[s] # <<>>
                     /\ buffer[s][Len(buffer[s])] = metric.buffer[s][Len(metric.buffer[s])]
    <3>1. metric.buffer[s] \in Seq(Values) /\ buffer[s] = LastOf(metric.buffer[s], length')
      BY <1>0 DEF Shortened
    <3>2. metric.buffer[s] # <<>> => Enabled(s)'
      BY <1>0, <2>1 DEF Consistent, Absent, Enabled, Switches
    <3> HIDE DEF buffer
    <3>3. QED
      BY <3>1, <3>2, <2>1, LastOfKeepsNewest
  <2>4. buffer \in [Own -> Seq(Values)]
    BY <2>3
  <2> HIDE DEF buffer
  <2>5. QED
    BY <2>1, <2>2, <2>3, <2>4, InvParts, BuffersKeep
<1>10. QED
  BY <1>1, <1>2, <1>3, <1>4, <1>5, <1>6, <1>7, <1>8, <1>9 DEF HistoryNext

\* The buffer of s in m has taken at most one sample of its value more than was.
OnceAtMost(was, m, s) ==
  \/ m.buffer[s] = <<>>
  \/ m.buffer[s] = LastOf(was, length)
  \/ m.buffer[s] = LastOf(Append(was, m.value[s]), length)

\* What a refresh assigns: the values it is given, one after the other, and the
\* state "available", which takes no sample.
LEMMA RefreshSamples ==
  ASSUME HistoryInv, NEW m \in Metrics(group), NEW s \in Own,
         \/ m.buffer[s] = metric.buffer[s]
         \/ m.buffer[s] = Appended(metric.buffer[s], m.value[s])
  PROVE  OnceAtMost(metric.buffer[s], SetState(m, "available"), s)
<1>1. /\ SetState(m, "available").buffer = m.buffer
      /\ SetState(m, "available").value = m.value
  BY DEF SetState
<1>2. LastOf(metric.buffer[s], length) = metric.buffer[s]
  BY InvParts DEF Consistent, Typed, LastOf
<1>3. QED
  BY <1>1, <1>2 DEF OnceAtMost, Appended

\* A group that goes away leaves every buffer empty.
LEMMA GoneIsEmpty ==
  ASSUME NEW m, Consistent(m), m.state # "available", Becomes(m)
  PROVE  \A s \in Own : metric'.buffer[s] = <<>>
BY DEF Becomes, Consistent, Absent

\* Every step takes one sample at most.
LEMMA StepSamplesOnce ==
  HistoryInv /\ [HistoryNext]_historyVars =>
    \A s \in Own :
      LET was == metric.buffer[s]  is == metric'.buffer[s]
      IN  \/ is = <<>> \/ is = LastOf(was, length')
          \/ is = LastOf(Append(was, metric'.value[s]), length')
<1> SUFFICES ASSUME HistoryInv, [HistoryNext]_historyVars, NEW s \in Own
             PROVE  \/ metric'.buffer[s] = <<>>
                    \/ metric'.buffer[s] = LastOf(metric.buffer[s], length')
                    \/ metric'.buffer[s] = LastOf(Append(metric.buffer[s], metric'.value[s]), length')
  OBVIOUS
<1> DEFINE Goal == \/ metric'.buffer[s] = <<>>
                   \/ metric'.buffer[s] = LastOf(metric.buffer[s], length')
                   \/ metric'.buffer[s] = LastOf(Append(metric.buffer[s], metric'.value[s]), length')
<1>0. /\ metric \in Metrics(group) /\ metric.buffer \in [Own -> Seq(Values)]
      /\ metric.value \in [Own -> Values \cup {NaN}]
      /\ LastOf(metric.buffer[s], length) = metric.buffer[s]
  BY InvParts, MetricFields, HistoryAssumption DEF Consistent, Typed, LastOf
<1>a. /\ Consistent(metric) /\ length \in Nat \ {0}
      /\ 0 \in Values \cup {NaN} /\ NaN \in Values \cup {NaN}
  BY InvParts, HistoryAssumption
<1>1. ASSUME NEW m, Becomes(m), OnceAtMost(metric.buffer[s], m, s) PROVE Goal
  BY <1>1 DEF Becomes, OnceAtMost
<1>2. ASSUME NEW m, Becomes(m), Consistent(m), m.state # "available" PROVE Goal
  BY <1>2, GoneIsEmpty
<1>3. ASSUME NEW x \in Values, CpuRefresh(x) PROVE Goal
  <2> DEFINE m == SetValue(metric, "cpu", x)
  <2>1. Own = {"cpu"} /\ "cpu" \in Own /\ x \in Values \cup {NaN}
    BY <1>3 DEF CpuRefresh, Own, Series
  <2>2. m = SetValue(metric, "cpu", x)
    OBVIOUS
  <2> HIDE DEF m
  <2>3. Assigned(m, metric, "cpu", x)
    BY <1>a, <2>1, <2>2, SetValueSamples
  <2>4. OnceAtMost(metric.buffer[s], SetState(m, "available"), s)
    BY <2>1, <2>3, RefreshSamples DEF Assigned
  <2>5. QED
    BY <1>1, <1>3, <2>4 DEF CpuRefresh, m
<1>4. CASE CpuUnavailable
  <2>1. Consistent(SetState(metric, "unavailable")) /\ SetState(metric, "unavailable").state = "unavailable"
    BY <1>a, SetStateKeeps DEF SetState
  <2>2. QED
    BY <1>2, <1>4, <2>1 DEF CpuUnavailable
<1>5. ASSUME NEW rx \in Values, NEW tx \in Values, NetworkRefresh(rx, tx) PROVE Goal
  <2> DEFINE one == SetValue(metric, "rx", rx)
             both == SetValue(one, "tx", tx)
  <2>0. Own = {"rx", "tx"}
    BY <1>5 DEF NetworkRefresh, Own, Series
  <2>1. /\ "rx" \in Own /\ "tx" \in Own
        /\ rx \in Values \cup {NaN} /\ tx \in Values \cup {NaN}
    BY <2>0
  <2>2. one = SetValue(metric, "rx", rx)
    OBVIOUS
  <2>3. both = SetValue(one, "tx", tx)
    OBVIOUS
  <2> HIDE DEF one, both
  <2>4. Assigned(one, metric, "rx", rx)
    BY <1>a, <2>1, <2>2, SetValueSamples
  <2>5. Assigned(both, one, "tx", tx)
    <3>1. Consistent(one)
      BY <2>4 DEF Assigned
    <3>2. QED
      BY <1>a, <2>1, <2>3, <3>1, SetValueSamples
  <2>6. \/ both.buffer[s] = metric.buffer[s]
        \/ both.buffer[s] = Appended(metric.buffer[s], both.value[s])
    BY <2>0, <2>4, <2>5 DEF Assigned
  <2>7. OnceAtMost(metric.buffer[s], SetState(both, "available"), s)
    BY <2>5, <2>6, RefreshSamples DEF Assigned
  <2>8. QED
    BY <1>1, <1>5, <2>7 DEF NetworkRefresh, one, both
<1>6. ASSUME NEW to \in {"loading", "unavailable"}, NetworkGone(to) PROVE Goal
  <2> DEFINE gone == SetState(metric, to)
             one == SetValue(gone, "rx", 0)
             both == SetValue(one, "tx", 0)
  <2>1. "rx" \in Own /\ "tx" \in Own
    BY <1>6 DEF NetworkGone, Own, Series
  <2>2. Consistent(gone) /\ gone.state = to
    BY <1>a, SetStateKeeps DEF SetState
  <2>3. one = SetValue(gone, "rx", 0) /\ both = SetValue(one, "tx", 0)
    OBVIOUS
  <2>4. Becomes(both)
    BY <1>6 DEF NetworkGone
  <2> HIDE DEF gone, one, both
  <2>5. Consistent(one) /\ one.state = to
    BY <1>a, <2>1, <2>2, <2>3, SetValueSamples DEF Assigned
  <2>6. Consistent(both) /\ both.state = to
    BY <1>a, <2>1, <2>3, <2>5, SetValueSamples DEF Assigned
  <2>7. QED
    BY <1>2, <2>4, <2>6
<1>7. ASSUME NEW x \in Values \cup {NaN}, GpuRefresh(x) PROVE Goal
  <2> DEFINE cleared == SetValue(metric, "gpu", NaN)
             set == SetValue(cleared, "gpu", x)
  <2>1. Own = {"gpu"} /\ "gpu" \in Own
    BY <1>7 DEF GpuRefresh, Own, Series
  <2>2. cleared = SetValue(metric, "gpu", NaN) /\ set = SetValue(cleared, "gpu", x)
    OBVIOUS
  <2> HIDE DEF cleared, set
  <2>3. Assigned(cleared, metric, "gpu", NaN)
    BY <1>a, <2>1, <2>2, SetValueSamples
  <2>4. cleared.buffer["gpu"] = metric.buffer["gpu"]
    BY <2>3 DEF Assigned, Appended
  <2>5. Assigned(set, cleared, "gpu", x)
    BY <1>a, <2>1, <2>2, <2>3, SetValueSamples DEF Assigned
  <2>6. OnceAtMost(metric.buffer[s], SetState(set, "available"), s)
    BY <2>1, <2>4, <2>5, RefreshSamples DEF Assigned
  <2>7. QED
    BY <1>1, <1>7, <2>6 DEF GpuRefresh, set, cleared
<1>8. ASSUME NEW to \in {"loading", "unavailable"}, GpuGone(to) PROVE Goal
  <2>1. "gpu" \in Own
    BY <1>8 DEF GpuGone, Own, Series
  <2>2. Consistent(SetValue(metric, "gpu", NaN))
    BY <2>1, <1>a, SetValueKeeps
  <2>3. /\ Consistent(SetState(SetValue(metric, "gpu", NaN), to))
        /\ SetState(SetValue(metric, "gpu", NaN), to).state = to
    BY <2>2, <1>a, SetStateKeeps DEF SetState
  <2>4. QED
    BY <1>2, <1>8, <2>3 DEF GpuGone
<1>9. ASSUME NEW t \in Own, NEW switch \in Switches(t), Toggle(switch) PROVE Goal
  <2>1. length' = length /\ (metric'.buffer[s] = <<>> \/ metric'.buffer[s] = metric.buffer[s])
    BY <1>9, <1>0 DEF Toggle, Metrics
  <2>2. QED
    BY <1>0, <2>1
<1>10. ASSUME NEW request \in AskedLengths, SetMaximum(request) PROVE Goal
  <2>1. metric'.buffer[s] = LastOf(metric.buffer[s], length')
    BY <1>10, <1>0 DEF SetMaximum, Shortened, Metrics
  <2>2. QED
    BY <2>1
<1>11. CASE UNCHANGED historyVars
  BY <1>11, <1>0 DEF historyVars
<1>12. QED
  BY <1>3, <1>4, <1>5, <1>6, <1>7, <1>8, <1>9, <1>10, <1>11 DEF HistoryNext

\* The invariant of the histories, for any values and lengths.
THEOREM HistoryInvariant == HistorySpec => []HistoryInv
BY HistoryStarts, HistoryStep, PTL DEF HistorySpec

\* An update of a metric takes one sample of each series at most, whatever the
\* provider assigns and in whatever order, and no other step takes any.
THEOREM AlwaysSampledOnceAtMost == HistorySpec => SampledOnceAtMost
BY HistoryInvariant, StepSamplesOnce, PTL DEF SampledOnceAtMost, HistorySpec

\* Type correctness, which bounds every buffer by the length of the moment.
THEOREM HistoryTypeCorrect == HistorySpec => []HistoryTypeOK
<1>1. HistoryInv => HistoryTypeOK
  BY DEF HistoryInv
<1>2. QED
  BY <1>1, HistoryInvariant, PTL

\* A hidden or lost metric has no samples, for any values and lengths.
THEOREM AbsentSeriesStayEmpty == HistorySpec => []AbsentSeriesIsEmpty
<1>1. HistoryInv => AbsentSeriesIsEmpty
  BY DEF HistoryInv, Consistent, Absent, AbsentSeriesIsEmpty
<1>2. QED
  BY <1>1, HistoryInvariant, PTL

\* The newest point drawn is the value shown, for any values and lengths.
THEOREM NewestSampleIsAlwaysShown == HistorySpec => []NewestSampleIsShown
<1>1. HistoryInv => NewestSampleIsShown
  BY DEF HistoryInv, Consistent, Newest, NewestSampleIsShown
<1>2. QED
  BY <1>1, HistoryInvariant, PTL
----------------------------------------------------------------------------
(* CPU and memory.                                                         *)

\* What was received of a source is one of the numbers it may report, and
\* once there is a complete pair of bytes, percentages are not looked at.
LoadInv ==
  /\ LoadTypeOK
  /\ \A s \in LoadSources : received[s] \in Reports[s] \cup {NoNumber}
  /\ ByteHits(received) # {} => inBytes
  /\ LoadIsOfPreferredSource

\* The candidates' places, and that their names are sources.
LEMMA Candidates ==
  /\ DOMAIN CpuCandidates = 1 .. 4
  /\ DOMAIN MemoryByteCandidates = 1 .. 2
  /\ DOMAIN MemoryPercentCandidates = 1 .. 3
  /\ \A i \in DOMAIN CpuCandidates : CpuCandidates[i] \in LoadSources
  /\ \A i \in DOMAIN MemoryByteCandidates :
       MemoryByteCandidates[i].used \in LoadSources /\ MemoryByteCandidates[i].total \in LoadSources
  /\ \A i \in DOMAIN MemoryPercentCandidates :
       MemoryPercentCandidates[i].name \in LoadSources /\ MemoryPercentCandidates[i].total \in LoadSources
<1>1. DOMAIN CpuCandidates = 1 .. 4
  BY DEF CpuCandidates
<1>2. DOMAIN MemoryByteCandidates = 1 .. 2
  BY DEF MemoryByteCandidates
<1>3. DOMAIN MemoryPercentCandidates = 1 .. 3
  BY DEF MemoryPercentCandidates
<1>4. /\ \A i \in DOMAIN CpuCandidates : CpuCandidates[i] \in LoadSources
      /\ \A i \in DOMAIN MemoryByteCandidates :
           MemoryByteCandidates[i].used \in LoadSources /\ MemoryByteCandidates[i].total \in LoadSources
      /\ \A i \in DOMAIN MemoryPercentCandidates : MemoryPercentCandidates[i].name \in LoadSources
  BY DEF LoadSources
<1>5. \A i \in DOMAIN MemoryPercentCandidates : MemoryPercentCandidates[i].total \in LoadSources
  <2>1. \A i \in 1 .. 3 : \E j \in 1 .. 2 :
          MemoryPercentCandidates[i].total = MemoryByteCandidates[j].total
    BY DEF MemoryPercentCandidates, MemoryByteCandidates
  <2>2. QED
    BY <1>2, <1>3, <1>4, <2>1
<1>6. QED
  BY <1>1, <1>2, <1>3, <1>4, <1>5

\* Of the places that have a number, there is a first one.
LEMMA FirstIsHit ==
  ASSUME NEW hits \in SUBSET (1 .. 4), hits # {}
  PROVE  First(hits) \in hits
<1>1. \E i \in hits : \A j \in hits : i <= j
  <2>1. CASE 1 \in hits
    BY <2>1
  <2>2. CASE 1 \notin hits /\ 2 \in hits
    BY <2>2
  <2>3. CASE 1 \notin hits /\ 2 \notin hits /\ 3 \in hits
    BY <2>3
  <2>4. CASE 1 \notin hits /\ 2 \notin hits /\ 3 \notin hits /\ 4 \in hits
    BY <2>4
  <2>5. \E i \in hits : i \in {1, 2, 3, 4}
    <3>1. PICK i \in hits : TRUE
      OBVIOUS
    <3>2. i \in 1 .. 4
      OBVIOUS
    <3>3. QED
      BY <3>2
  <2>6. QED
    BY <2>1, <2>2, <2>3, <2>4, <2>5
<1>2. QED
  BY <1>1 DEF First

\* A part of a number, in percent, is at most the number.
LEMMA PartOfTotal ==
  ASSUME NEW total \in Nat, NEW percent \in 0 .. 100
  PROVE  /\ (total * percent) \div 100 \in Nat
         /\ (total * percent) \div 100 <= total
<1>1. total * percent \in Nat /\ total * percent <= total * 100
  BY Z3
<1>2. QED
  BY <1>1, Z3

\* Used bytes are a percentage of the total.
LEMMA PercentOfBytes ==
  ASSUME NEW total \in Nat \ {0}, NEW used \in 0 .. total
  PROVE  (100 * used) \div total \in 0 .. 100
  BY Z3

\* What the candidates give is well typed.
LEMMA Refreshed ==
  ASSUME NEW data \in [LoadSources -> Nat \cup {NoNumber}],
         \A s \in LoadSources : data[s] \in Reports[s] \cup {NoNumber}
  PROVE  /\ CpuHits(data) # {} => CpuOf(data) \in [state : States, percent : 0 .. 100]
         /\ ByteHits(data) # {} =>
              /\ BytesOf(data) \in [state : States, percent : 0 .. 100, used : Nat, total : Nat]
              /\ BytesOf(data).used <= BytesOf(data).total
         /\ PercentHits(data) # {} =>
              /\ PercentOf(data) \in [state : States, percent : 0 .. 100, used : Nat, total : Nat]
              /\ PercentOf(data).used <= PercentOf(data).total
<1> USE Candidates
<1>1. ASSUME CpuHits(data) # {}
      PROVE  CpuOf(data) \in [state : States, percent : 0 .. 100]
  <2> DEFINE i == First(CpuHits(data))
  <2>1. i \in CpuHits(data)
    BY <1>1, FirstIsHit DEF CpuHits
  <2>2. data[CpuCandidates[i]] \in 0 .. 100
    BY <2>1, ReportsAssumption DEF CpuHits, Percents
  <2> HIDE DEF i
  <2>3. QED
    BY <2>2 DEF CpuOf, States, i
<1>2. ASSUME ByteHits(data) # {}
      PROVE  /\ BytesOf(data) \in [state : States, percent : 0 .. 100, used : Nat, total : Nat]
             /\ BytesOf(data).used <= BytesOf(data).total
  <2> DEFINE pair == MemoryByteCandidates[First(ByteHits(data))]
             total == data[pair.total]
             used == IF data[pair.used] <= total THEN data[pair.used] ELSE total
  <2>1. First(ByteHits(data)) \in ByteHits(data)
    BY <1>2, FirstIsHit DEF ByteHits
  <2>2. total \in Nat \ {0} /\ data[pair.used] \in Nat
    <3>1. pair.total \in LoadSources /\ pair.used \in LoadSources
      BY <2>1 DEF ByteHits
    <3>2. data[pair.used] # NoNumber /\ total > 0
      BY <2>1 DEF ByteHits
    <3> HIDE DEF pair
    <3>3. QED
      BY <3>1, <3>2 DEF NoNumber
  <2>3. used \in 0 .. total
    BY <2>2
  <2>4. (100 * used) \div total \in 0 .. 100
    BY <2>2, <2>3, PercentOfBytes
  <2>5. BytesOf(data) = [state |-> "available", percent |-> (100 * used) \div total,
                         used |-> used, total |-> total]
    BY DEF BytesOf
  <2> HIDE DEF used, total, pair
  <2>6. QED
    BY <2>2, <2>3, <2>4, <2>5 DEF States
<1>3. ASSUME PercentHits(data) # {}
      PROVE  /\ PercentOf(data) \in [state : States, percent : 0 .. 100, used : Nat, total : Nat]
             /\ PercentOf(data).used <= PercentOf(data).total
  <2> DEFINE candidate == MemoryPercentCandidates[First(PercentHits(data))]
             percent == data[candidate.name]
             total == IF data[candidate.total] > 0 THEN data[candidate.total] ELSE 0
  <2>1. First(PercentHits(data)) \in PercentHits(data)
    BY <1>3, FirstIsHit DEF PercentHits
  <2>2. percent \in 0 .. 100
    BY <2>1, ReportsAssumption DEF PercentHits, Percents
  <2>3. total \in Nat
    <3>1. data[candidate.total] \in Nat \cup {NoNumber}
      BY <2>1 DEF PercentHits
    <3>2. QED
      BY <3>1 DEF NoNumber
  <2>4. PercentOf(data) = [state |-> "available", percent |-> percent,
                           used |-> (total * percent) \div 100, total |-> total]
    BY DEF PercentOf
  <2> HIDE DEF candidate, percent, total
  <2>5. QED
    BY <2>2, <2>3, <2>4, PartOfTotal DEF States
<1>4. QED
  BY <1>1, <1>2, <1>3

\* What was received stays one of the numbers a source may report.
LEMMA ReceivedType ==
  ASSUME LoadInv, NEW s \in LoadSources, NEW x \in Reports[s],
         received' = [received EXCEPT ![s] = x]
  PROVE  /\ received' \in [LoadSources -> Nat \cup {NoNumber}]
         /\ \A t \in LoadSources : received'[t] \in Reports[t] \cup {NoNumber}
<1>1. x \in Nat \cup {NoNumber}
  BY ReportsAssumption DEF Bytes
<1>2. QED
  BY <1>1 DEF LoadInv, LoadTypeOK

\* A metric that the deadline finds keeps everything but its state.
LEMMA DeadlineKeeps ==
  ASSUME LoadInv
  PROVE  /\ Unless(cpu) \in [state : States, percent : 0 .. 100]
         /\ Unless(memory) \in [state : States, percent : 0 .. 100, used : Nat, total : Nat]
         /\ Unless(memory).used <= Unless(memory).total
         /\ cpu.state = "available" => Unless(cpu) = cpu
         /\ memory.state = "available" => Unless(memory) = memory
<1>1. "unavailable" \in States
  BY DEF States
<1>2. /\ cpu \in [state : States, percent : 0 .. 100]
      /\ memory \in [state : States, percent : 0 .. 100, used : Nat, total : Nat]
      /\ memory.used <= memory.total
  BY DEF LoadInv, LoadTypeOK, LoadIsOfPreferredSource
<1>3. QED
  BY <1>1, <1>2 DEF Unless

\* The percentage that the code takes is the one to be shown.
LEMMA PercentIsShown ==
  ASSUME NEW m, NEW data, m = PercentOf(data)
  PROVE  IsPercentOf(m, data)
  BY DEF PercentOf, IsPercentOf

\* What the candidates give in the next state is what they give for what was
\* received then.
LEMMA Later ==
  /\ CpuHits(received)' = CpuHits(received')
  /\ ByteHits(received)' = ByteHits(received')
  /\ PercentHits(received)' = PercentHits(received')
  /\ CpuOf(received)' = CpuOf(received')
  /\ BytesOf(received)' = BytesOf(received')
  /\ IsPercentOf(memory, received)' = IsPercentOf(memory', received')
  BY DEF CpuHits, ByteHits, PercentHits, CpuOf, BytesOf, IsPercentOf

\* The invariant holds at first.
LEMMA LoadInitial == LoadInit => LoadInv
<1> SUFFICES ASSUME LoadInit PROVE LoadInv
  OBVIOUS
<1>1. LoadTypeOK
  <2>1. received \in [LoadSources -> Nat \cup {NoNumber}]
    BY DEF LoadInit
  <2>2. "loading" \in States
    BY DEF States
  <2>3. 0 \in 0 .. 100
    OBVIOUS
  <2>4. cpu \in [state : States, percent : 0 .. 100]
    BY <2>2, <2>3 DEF LoadInit
  <2>5. memory \in [state : States, percent : 0 .. 100, used : Nat, total : Nat]
    BY <2>2, <2>3 DEF LoadInit
  <2>6. inBytes \in BOOLEAN /\ elapsed \subseteq {"fallback", "deadline"}
    BY DEF LoadInit
  <2>7. QED
    BY <2>1, <2>4, <2>5, <2>6 DEF LoadTypeOK
<1>2. \A s \in LoadSources : received[s] = NoNumber
  BY DEF LoadInit
<1>3. CpuHits(received) = {} /\ ByteHits(received) = {} /\ PercentHits(received) = {}
  BY <1>2, Candidates DEF CpuHits, ByteHits, PercentHits, NoNumber
<1>4. memory.used <= memory.total
  BY DEF LoadInit
<1>5. QED
  BY <1>1, <1>2, <1>3, <1>4 DEF LoadInv, LoadIsOfPreferredSource

\* Every step keeps it.
LEMMA LoadStep == LoadInv /\ [LoadNext]_loadVars => LoadInv'
<1> SUFFICES ASSUME LoadInv, [LoadNext]_loadVars PROVE LoadInv'
  OBVIOUS
<1> USE DEF LoadInv
<1>1. ASSUME NEW s \in LoadSources, NEW x \in Reports[s], HandleLoad(s, x)
      PROVE  LoadInv'
  <2>1. /\ received' \in [LoadSources -> Nat \cup {NoNumber}]
        /\ \A t \in LoadSources : received'[t] \in Reports[t] \cup {NoNumber}
    BY <1>1, ReceivedType DEF HandleLoad
  <2>2. LoadTypeOK' /\ memory'.used <= memory'.total
    <3>1. cpu' \in [state : States, percent : 0 .. 100]
      BY <1>1, <2>1, Refreshed DEF LoadTypeOK, HandleLoad, TryCpu
    <3>2. /\ memory' \in [state : States, percent : 0 .. 100, used : Nat, total : Nat]
          /\ memory'.used <= memory'.total
      <4>1. CASE memory' = memory
        BY <4>1 DEF LoadTypeOK, LoadIsOfPreferredSource
      <4>2. CASE ByteHits(received') # {} /\ memory' = BytesOf(received')
        BY <2>1, <4>2, Refreshed
      <4>3. CASE PercentHits(received') # {} /\ memory' = PercentOf(received')
        BY <2>1, <4>3, Refreshed
      <4>4. QED
        BY <1>1, <4>1, <4>2, <4>3 DEF HandleLoad, TryPercent
    <3>3. inBytes' \in BOOLEAN /\ elapsed' = elapsed
      BY <1>1 DEF HandleLoad, TryPercent, LoadTypeOK
    <3>4. QED
      BY <2>1, <3>1, <3>2, <3>3 DEF LoadTypeOK
  <2>3. ByteHits(received') # {} => inBytes' /\ memory' = BytesOf(received')
    BY <1>1 DEF HandleLoad
  <2>4. CpuHits(received') # {} => cpu' = CpuOf(received')
    BY <1>1 DEF HandleLoad, TryCpu
  <2>5. ~inBytes' /\ "fallback" \in elapsed' /\ PercentHits(received') # {} =>
          memory' = PercentOf(received')
    BY <1>1 DEF HandleLoad, TryPercent
  <2>6. LoadIsOfPreferredSource'
    BY <2>2, <2>3, <2>4, <2>5, PercentIsShown, Later DEF LoadIsOfPreferredSource
  <2>7. QED
    BY <2>1, <2>2, <2>3, <2>6, Later
<1>2. CASE FallbackTimer
  <2>1. LoadTypeOK' /\ memory'.used <= memory'.total
    <3>1. CASE memory' = memory
      BY <1>2, <3>1 DEF LoadTypeOK, LoadIsOfPreferredSource, FallbackTimer, TryPercent
    <3>2. CASE PercentHits(received) # {} /\ memory' = PercentOf(received)
      <4>1. received \in [LoadSources -> Nat \cup {NoNumber}]
        BY DEF LoadTypeOK
      <4>2. /\ memory' \in [state : States, percent : 0 .. 100, used : Nat, total : Nat]
            /\ memory'.used <= memory'.total
        BY <3>2, <4>1, Refreshed
      <4>3. QED
        BY <1>2, <4>2 DEF LoadTypeOK, FallbackTimer, TryPercent
    <3>3. QED
      BY <1>2, <3>1, <3>2 DEF FallbackTimer, TryPercent
  <2>2. UNCHANGED <<received, cpu, inBytes>>
    BY <1>2 DEF FallbackTimer, TryPercent
  <2>3. ByteHits(received) # {} => memory' = memory
    BY <1>2 DEF FallbackTimer, TryPercent
  <2>4. ~inBytes /\ PercentHits(received) # {} => memory' = PercentOf(received)
    BY <1>2 DEF FallbackTimer, TryPercent
  <2>5. LoadIsOfPreferredSource'
    BY <2>1, <2>2, <2>3, <2>4, PercentIsShown, Later DEF LoadIsOfPreferredSource
  <2>6. QED
    BY <2>1, <2>2, <2>5, Later
<1>3. CASE LoadDeadline
  <2>1. /\ cpu' = Unless(cpu) /\ memory' = Unless(memory)
        /\ UNCHANGED <<received, inBytes>>
        /\ elapsed' = elapsed \cup {"deadline"}
    BY <1>3 DEF LoadDeadline
  <2>2. LoadTypeOK' /\ memory'.used <= memory'.total
    BY <2>1, DeadlineKeeps DEF LoadTypeOK
  <2>3. CpuHits(received) # {} => cpu' = cpu
    BY <2>1, DeadlineKeeps DEF LoadIsOfPreferredSource, CpuOf
  <2>4. ByteHits(received) # {} => memory' = memory
    BY <2>1, DeadlineKeeps DEF LoadIsOfPreferredSource, BytesOf
  <2>5. ~inBytes /\ "fallback" \in elapsed' /\ PercentHits(received) # {} =>
          "fallback" \in elapsed /\ memory' = memory
    BY <2>1, DeadlineKeeps DEF LoadIsOfPreferredSource, IsPercentOf
  <2>6. LoadIsOfPreferredSource'
    BY <2>1, <2>2, <2>3, <2>4, <2>5, Later DEF LoadIsOfPreferredSource
  <2>7. QED
    BY <2>1, <2>2, <2>6, Later
<1>4. CASE UNCHANGED loadVars
  BY <1>4, Later DEF loadVars, LoadTypeOK, LoadIsOfPreferredSource
<1>5. QED
  BY <1>1, <1>2, <1>3, <1>4 DEF LoadNext

\* The types of the CPU and memory metrics hold, whatever numbers are
\* reported: percentages are of 0 to 100, and bytes are not negative.
THEOREM LoadTypeCorrect == LoadSpec => []LoadTypeOK
<1>1. LoadInv => LoadTypeOK
  BY DEF LoadInv
<1>2. QED
  BY <1>1, LoadInitial, LoadStep, PTL DEF LoadSpec

\* Whatever is reported, in whatever order, and whenever the timers fire, CPU
\* and memory show what the preferred source reported last.
THEOREM LoadIsAlwaysOfPreferredSource == LoadSpec => []LoadIsOfPreferredSource
<1>1. LoadInv => LoadIsOfPreferredSource
  BY DEF LoadInv
<1>2. QED
  BY <1>1, LoadInitial, LoadStep, PTL DEF LoadSpec
=============================================================================
