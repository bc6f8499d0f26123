------------------------- MODULE RateSensors_proofs -------------------------
(* What RateSensors.tla promises for every catalog of sources.             *)
EXTENDS RateSensors, TLAPS

\* Pairs of different devices and of one class, neither an aggregate nor an
\* alias, measure no byte twice.
LEMMA BestOfClassIsDisjoint ==
  ASSUME NEW pairs, NEW class \in {"whole-device", "partition"},
         NEW chosen \in BestByDevice(pairs), \A p \in pairs : Class(p) = class
  PROVE  Disjoint(chosen)
<1>1. chosen \subseteq pairs /\ \A p, q \in chosen : Device(p) = Device(q) => p = q
  BY DEF BestByDevice
<1>2. \A p \in chosen : Class(p) = class
  BY <1>1
<1> QED BY <1>1, <1>2 DEF Disjoint, Overlap

\* A single pair overlaps no other.
LEMMA OnlyBestIsDisjoint ==
  ASSUME NEW pairs, NEW chosen \in OnlyBest(pairs)
  PROVE  Disjoint(chosen)
BY DEF OnlyBest, Disjoint

\* chooseDiskIoPairs never picks two pairs that measure the same bytes,
\* whatever the sensor tree lists.
THEOREM DiskChoiceCountsOnce ==
  ASSUME NEW sources, NEW chosen \in DiskChoices(sources)
  PROVE  Disjoint(chosen)
<1> DEFINE Of1(class) == OfClass(CompletePairs(sources), class)
<1>1. \A class : \A p \in Of1(class) : Class(p) = class
  BY DEF OfClass
<1>2. \/ chosen \in BestByDevice(Of1("whole-device"))
      \/ chosen \in BestByDevice(Of1("partition"))
      \/ chosen \in OnlyBest(Of1("aggregate"))
      \/ chosen \in OnlyBest(Of1("logical-device"))
      \/ chosen = {}
  BY DEF DiskChoices
<1> HIDE DEF Of1
<1>3. CASE chosen \in BestByDevice(Of1("whole-device"))
  BY <1>1, <1>3, BestOfClassIsDisjoint
<1>4. CASE chosen \in BestByDevice(Of1("partition"))
  BY <1>1, <1>4, BestOfClassIsDisjoint
<1>5. CASE chosen \in OnlyBest(Of1("aggregate")) \/ chosen \in OnlyBest(Of1("logical-device"))
  BY <1>5, OnlyBestIsDisjoint
<1>6. CASE chosen = {}
  BY <1>6 DEF Disjoint
<1> QED BY <1>2, <1>3, <1>4, <1>5, <1>6

\* chooseNetworkPairs never adds the aggregate to an interface, nor an
\* interface twice.
THEOREM NetworkChoiceCountsOnce ==
  ASSUME NEW sources \in SUBSET NetworkSources, NEW chosen \in NetworkChoices(sources)
  PROVE  Disjoint(chosen)
<1> DEFINE complete == CompletePairs(sources)
           aggregates == OfClass(complete, "aggregate")
           interfaces == complete \ aggregates
<1>1. \A p \in interfaces : Class(p) = "whole-device"
  <2> SUFFICES ASSUME NEW p \in interfaces PROVE Class(p) = "whole-device"
    OBVIOUS
  <2>1. p.in \in sources /\ Class(p) # "aggregate"
    BY DEF CompletePairs, OfClass
  <2> QED BY <2>1, RateAssumption DEF Class
<1>2. \/ chosen \in BestByDevice(interfaces)
      \/ chosen \in OnlyBest(aggregates)
      \/ chosen = {}
  BY DEF NetworkChoices
<1> HIDE DEF interfaces, aggregates
<1>3. CASE chosen \in BestByDevice(interfaces)
  BY <1>1, <1>3, BestOfClassIsDisjoint
<1>4. CASE chosen \in OnlyBest(aggregates)
  BY <1>4, OnlyBestIsDisjoint
<1>5. CASE chosen = {}
  BY <1>5 DEF Disjoint
<1> QED BY <1>2, <1>3, <1>4, <1>5

----------------------------------------------------------------------------
\* The selection is disjoint, so is what is left on show of an earlier one.
IInv ==
  /\ group \in Groups /\ tree \subseteq Of(group)
  /\ Disjoint(selected)
  /\ NeverCountedTwice
  /\ ShownMatchesState

\* Nothing is chosen or shown at first.
LEMMA InitIsGood == Init => IInv
BY DEF Init, IInv, NeverCountedTwice, ShownMatchesState, Disjoint, Zero

\* Adding up keeps the rates and the state together.
LEMMA AggregateKeeps ==
  ASSUME NEW pairs, NEW sampled, NEW before, NEW rates,
         Disjoint(pairs), Disjoint(rates),
         IF before = "available" THEN pairs # {} /\ rates # {} ELSE rates = Zero,
         Aggregate(pairs, sampled, before, rates)
  PROVE  Disjoint(shown') /\ (IF state' = "available" THEN pairs # {} /\ shown' # {}
                              ELSE shown' = Zero)
<1> DEFINE ready == ReadyPairs(pairs, sampled)
<1>1. ready \subseteq pairs
  BY DEF ReadyPairs
<1>2. CASE ready = {}
  <2>1. state' = before /\ shown' = rates
    BY <1>2 DEF Aggregate, Summed
  <2> QED BY <2>1
<1>3. CASE ready # {}
  <2>1. state' = "available" /\ shown' = ready
    BY <1>3 DEF Aggregate, Summed
  <2> QED BY <1>1, <1>3, <2>1 DEF Disjoint
<1> QED BY <1>2, <1>3

\* Whatever discovery chooses, for either group, counts nothing twice.
LEMMA ChoiceIsDisjoint ==
  ASSUME group \in Groups, tree \subseteq Of(group), NEW choice \in Choices(tree)
  PROVE  Disjoint(choice)
<1>1. PICK c \in Selections : c[1] = group /\ c[2] = tree /\ choice \in c[3]
  BY DEF Choices
<1>2. CASE \E listed \in SUBSET NetworkSources : c = <<"network", listed, NetworkChoices(listed)>>
  <2>1. PICK listed \in SUBSET NetworkSources : c = <<"network", listed, NetworkChoices(listed)>>
    BY <1>2
  <2>2. choice \in NetworkChoices(listed)
    BY <1>1, <2>1
  <2> QED BY <2>2, NetworkChoiceCountsOnce
<1>3. CASE \E listed \in SUBSET DiskSources : c = <<"disk", listed, DiskChoices(listed)>>
  <2>1. PICK listed \in SUBSET DiskSources : c = <<"disk", listed, DiskChoices(listed)>>
    BY <1>3
  <2>2. choice \in DiskChoices(listed)
    BY <1>1, <2>1
  <2> QED BY <2>2, DiskChoiceCountsOnce
<1> QED BY <1>1, <1>2, <1>3 DEF Selections

\* A loss shows nothing, or changes nothing of what is shown.
LEMMA LoseKeeps ==
  ASSUME IInv, NEW s, Lose(s), UNCHANGED selected
  PROVE  NeverCountedTwice' /\ ShownMatchesState'
<1>1. CASE s \notin Active
  BY <1>1 DEF Lose, IInv, NeverCountedTwice, ShownMatchesState, Disjoint
<1>2. CASE s \in Active
  BY <1>2 DEF Lose, NeverCountedTwice, ShownMatchesState, Disjoint, Zero
<1> QED BY <1>1, <1>2

\* A sample or a settled counter adds up the selection that stays.
LEMMA SumKeeps ==
  ASSUME IInv, NEW sampled, Aggregate(selected, sampled, state, shown), UNCHANGED selected
  PROVE  NeverCountedTwice' /\ ShownMatchesState'
<1>1. Disjoint(selected) /\ Disjoint(shown)
  BY DEF IInv, NeverCountedTwice
<1>2. IF state = "available" THEN selected # {} /\ shown # {} ELSE shown = Zero
  BY DEF IInv, ShownMatchesState
<1>3. Disjoint(shown') /\ (IF state' = "available" THEN selected # {} /\ shown' # {}
                           ELSE shown' = Zero)
  BY <1>1, <1>2, AggregateKeeps
<1> QED BY <1>3 DEF NeverCountedTwice, ShownMatchesState, Zero, Disjoint

\* Discovery replaces the selection as a whole, and clears the rates it leaves.
LEMMA DiscoverKeeps ==
  ASSUME IInv, Discover
  PROVE  IInv'
<1> DEFINE dry == selected' = {} /\ state = "available"
           before == IF dry THEN "loading" ELSE state
           rates == IF dry THEN Zero ELSE shown
<1>1. UNCHANGED <<group, tree>> /\ Reselect /\ Aggregate(selected', samples, before, rates)
  BY DEF Discover, Rediscover, plasma
<1>2. Disjoint(selected')
  <2>1. PICK choice \in Choices(tree) :
          selected' = IF Signature(choice) = Signature(selected) THEN selected ELSE choice
    BY <1>1 DEF Reselect
  <2>2. Disjoint(choice)
    BY ChoiceIsDisjoint DEF IInv
  <2> QED BY <2>1, <2>2 DEF IInv
<1>3. Disjoint(rates)
  BY DEF IInv, NeverCountedTwice, Zero, Disjoint
<1>4. IF before = "available" THEN selected' # {} /\ rates # {} ELSE rates = Zero
  BY DEF IInv, ShownMatchesState
<1> HIDE DEF before, rates
<1>5. Disjoint(shown') /\ (IF state' = "available" THEN selected' # {} /\ shown' # {}
                           ELSE shown' = Zero)
  BY <1>1, <1>2, <1>3, <1>4, AggregateKeeps
<1>6. NeverCountedTwice' /\ ShownMatchesState'
  BY <1>5 DEF NeverCountedTwice, ShownMatchesState, Zero, Disjoint
<1>7. Disjoint(selected)'
  BY <1>2 DEF Disjoint
<1> QED BY <1>1, <1>6, <1>7 DEF IInv, Of

\* What the other steps leave alone is enough.
LEMMA SteadyKeeps ==
  ASSUME IInv, UNCHANGED <<group, selected, state, shown>>, tree' \subseteq Of(group)
  PROVE  IInv'
BY DEF IInv, NeverCountedTwice, ShownMatchesState, Disjoint, Of, Zero

\* Every step keeps the invariant.
LEMMA StepsKeepIInv == IInv /\ [Next]_vars => IInv'
<1> SUFFICES ASSUME IInv, [Next]_vars PROVE IInv'
  OBVIOUS
<1> USE DEF plasma
<1>0. tree \subseteq Of(group)
  BY DEF IInv
<1>1. CASE Tick
  BY <1>0, <1>1, SteadyKeeps DEF Tick
<1>2. CASE DiscoveryTimer \/ RetryTimer
  BY <1>2, DiscoverKeeps DEF DiscoveryTimer, RetryTimer
<1>3. CASE DeadlineTimer
  <2>1. UNCHANGED <<group, tree, selected>>
    BY <1>3 DEF DeadlineTimer
  <2>2. CASE state = "available"
    BY <1>0, <1>3, <2>2, SteadyKeeps DEF DeadlineTimer
  <2>3. CASE state # "available"
    BY <1>3, <2>1, <2>3 DEF DeadlineTimer, IInv, NeverCountedTwice, ShownMatchesState,
       Disjoint, Of, Zero
  <2> QED BY <2>2, <2>3
<1>4. CASE Settle
  <2>1. UNCHANGED <<group, tree, selected>>
    BY <1>4 DEF Settle
  <2>2. NeverCountedTwice' /\ ShownMatchesState'
    BY <1>4, SumKeeps DEF Settle
  <2> QED BY <2>1, <2>2 DEF IInv, Disjoint, Of
<1>5. ASSUME NEW s \in Sources, Appear(s) \/ Restart(s) \/ ReadSize(s)
      PROVE  IInv'
  <2>1. CASE Appear(s)
    BY <1>0, <2>1, SteadyKeeps DEF Appear
  <2>2. CASE Restart(s)
    BY <1>0, <2>2, SteadyKeeps DEF Restart
  <2>3. CASE ReadSize(s)
    BY <1>0, <2>3, SteadyKeeps DEF ReadSize
  <2> QED BY <1>5, <2>1, <2>2, <2>3
<1>6. ASSUME NEW s \in Sources, Remove(s) \/ Fail(s)
      PROVE  IInv'
  <2>1. Lose(s) /\ UNCHANGED <<group, selected>> /\ tree' \subseteq tree
    BY <1>6 DEF Remove, Fail
  <2>2. NeverCountedTwice' /\ ShownMatchesState'
    BY <2>1, LoseKeeps
  <2> QED BY <2>1, <2>2 DEF IInv, Disjoint, Of
<1>7. ASSUME NEW s \in Sources, ReadCounter(s) \/ ReadRate(s)
      PROVE  IInv'
  <2>1. \E sample : Take(s, sample)
    BY <1>7 DEF ReadCounter, ReadRate
  <2>2. PICK sample : Take(s, sample)
    BY <2>1
  <2>3. UNCHANGED <<group, tree, selected>>
    BY <2>2 DEF Take
  <2>4. NeverCountedTwice' /\ ShownMatchesState'
    BY <2>2, SumKeeps DEF Take
  <2> QED BY <2>3, <2>4 DEF IInv, Disjoint, Of
<1>8. ASSUME NEW gone, Reset(gone)
      PROVE  IInv'
  BY <1>0, <1>8, SteadyKeeps DEF Reset
<1>9. CASE UNCHANGED vars
  BY <1>0, <1>9, SteadyKeeps DEF vars
<1> QED BY <1>1, <1>2, <1>3, <1>4, <1>5, <1>6, <1>7, <1>8, <1>9 DEF Next

\* The invariant, for any sources and any times.
LEMMA IInvHolds == Spec => []IInv
<1> QED BY InitIsGood, StepsKeepIInv, PTL DEF Spec

\* The two rates never add up the same bytes twice, for any catalog of sources
\* and any order of discovery, loss, reads and timers.
THEOREM NeverCountsTwice == Spec => []NeverCountedTwice
<1>1. IInv => NeverCountedTwice
  BY DEF IInv
<1> QED BY <1>1, IInvHolds, PTL

\* Rates are shown exactly while the state is available.
THEOREM ShownAlwaysMatchesState == Spec => []ShownMatchesState
<1>1. IInv => ShownMatchesState
  BY DEF IInv
<1> QED BY <1>1, IInvHolds, PTL

----------------------------------------------------------------------------
(* Types, and what the liveness of a loss rests on.                        *)

\* Whatever discovery chooses, for either group, is made of pairs.
LEMMA ChoiceIsOfPairs ==
  ASSUME group \in Groups, NEW choice \in Choices(tree)
  PROVE  choice \subseteq Pairs
<1>1. ASSUME NEW sources \in SUBSET DOMAIN Catalog
      PROVE  CompletePairs(sources) \subseteq Pairs
  BY DEF CompletePairs, Pairs
<1>2. ASSUME NEW pairs, NEW chosen \in BestByDevice(pairs) \cup OnlyBest(pairs)
      PROVE  chosen \subseteq pairs
  BY DEF BestByDevice, OnlyBest, Best
<1>3. ASSUME NEW sources, NEW chosen \in NetworkChoices(sources) \cup DiskChoices(sources)
      PROVE  chosen \subseteq CompletePairs(sources)
  <2> DEFINE complete == CompletePairs(sources)
  <2>1. \E pairs \in SUBSET complete : chosen \in BestByDevice(pairs) \cup OnlyBest(pairs) \cup {{}}
    <3>1. \A class : OfClass(complete, class) \in SUBSET complete
      BY DEF OfClass
    <3>2. complete \ OfClass(complete, "aggregate") \in SUBSET complete
      OBVIOUS
    <3> HIDE DEF complete
    <3>3. CASE chosen \in NetworkChoices(sources)
      BY <3>1, <3>2, <3>3 DEF NetworkChoices, complete
    <3>4. CASE chosen \in DiskChoices(sources)
      BY <3>1, <3>4 DEF DiskChoices, complete
    <3>5. QED
      BY <1>3, <3>3, <3>4
  <2>2. QED
    BY <1>2, <2>1
<1>4. PICK c \in Selections : choice \in c[3]
  BY DEF Choices
<1>5. \E sources \in SUBSET DOMAIN Catalog : choice \in NetworkChoices(sources) \cup DiskChoices(sources)
  BY <1>4, RateAssumption DEF Selections
<1>6. QED
  BY <1>1, <1>3, <1>5

Samples == [ready : BOOLEAN, moving : BOOLEAN, age : Unread .. MaxAge]

\* The ages of samples are bounded by one that is past every span.
LEMMA MaxAgeIsNat == MaxAge \in Nat /\ MaxAge > 0
BY RateAssumption DEF MaxAge, Groups

\* No sample, the sample of a read, one that is settled and one that is a tick
\* older are samples.
LEMMA SamplesAreTyped ==
  ASSUME NEW s, samples[s] \in Samples
  PROVE  /\ NoSample \in Samples
         /\ CounterSample(s) \in Samples
         /\ [ready |-> TRUE, moving |-> FALSE, age |-> 0] \in Samples
         /\ [samples[s] EXCEPT !.ready = TRUE, !.moving = FALSE] \in Samples
         /\ Aged(s) \in Samples
<1>1. 0 \in Unread .. MaxAge /\ Unread \in Unread .. MaxAge
  BY MaxAgeIsNat DEF Unread
<1>2. /\ NoSample \in Samples
      /\ [ready |-> TRUE, moving |-> FALSE, age |-> 0] \in Samples
  BY <1>1 DEF Samples, NoSample
<1>3. [samples[s] EXCEPT !.ready = TRUE, !.moving = FALSE] \in Samples
  BY DEF Samples
<1>4. Aged(s) \in Samples
  <2> DEFINE age == IF samples[s].age < MaxAge THEN samples[s].age + 1 ELSE samples[s].age
  <2>1. samples[s].age \in Unread .. MaxAge
    BY DEF Samples
  <2>2. age \in Unread .. MaxAge
    BY <2>1, MaxAgeIsNat DEF Unread
  <2>3. Aged(s) = [samples[s] EXCEPT !.age = age]
    BY DEF Aged, Samples
  <2> HIDE DEF age
  <2>4. QED
    BY <2>2, <2>3 DEF Samples
<1>5. CounterSample(s) \in Samples
  <2>1. ValidDelta(s) \in BOOLEAN /\ (ValidDelta(s) /\ Grew(s)) \in BOOLEAN
    BY DEF ValidDelta, Grew
  <2>2. QED
    BY <1>1, <2>1 DEF CounterSample, Samples
<1>6. QED
  BY <1>2, <1>3, <1>4, <1>5

\* A loss that is not resolved yet: the deadline that resolves it runs.
LossIsTimed == lost => state = "loading" /\ "deadline" \in armed

\* The part of the types that a step keeps with samples and sums.
SumTypes ==
  /\ samples \in [Sources -> Samples]
  /\ state \in {"loading", "available", "unavailable"}
  /\ shown \subseteq Pairs
  /\ lost \in BOOLEAN

\* Adding up pairs keeps the types, and a loss stays timed unless it is resolved.
LEMMA AggregateIsTyped ==
  ASSUME NEW pairs \in SUBSET Pairs, NEW sampled \in [Sources -> Samples],
         NEW before \in {"loading", "available", "unavailable"}, NEW rates \in SUBSET Pairs,
         lost \in BOOLEAN, Aggregate(pairs, sampled, before, rates),
         "deadline" \in armed => "deadline" \in armed', LossIsTimed
  PROVE  SumTypes' /\ LossIsTimed'
<1> DEFINE ready == ReadyPairs(pairs, sampled)
<1>1. ready \subseteq Pairs
  BY DEF ReadyPairs
<1>2. lost' = (lost /\ state' = "loading")
  BY DEF Aggregate
<1>3. samples' = sampled
  BY DEF Aggregate
<1>4. (state' = before /\ shown' = rates) \/ (state' = "available" /\ shown' = ready)
  BY DEF Aggregate, Summed
<1> HIDE DEF ready
<1>5. lost' \in BOOLEAN
  BY <1>2
<1>6. LossIsTimed'
  BY <1>2 DEF LossIsTimed
<1>7. QED
  BY <1>1, <1>3, <1>4, <1>5, <1>6 DEF SumTypes

\* The rest of the types.
TreeTypes ==
  /\ group \in Groups
  /\ tree \subseteq Of(group) /\ candidates \subseteq Of(group)
  /\ since \in [Sources -> Histories]
  /\ changes \in 0 .. MaxChanges
  /\ selected \subseteq Pairs
  /\ sizes \subseteq Of(group)
  /\ armed \subseteq Timers

TimedInv == TypeOK /\ LossIsTimed

\* The two parts are the types.
LEMMA PartsOfTypes == TypeOK <=> SumTypes /\ TreeTypes
BY DEF TypeOK, SumTypes, TreeTypes, Samples

\* Both timers run at first, and nothing is known.
LEMMA TimedInit == Init => TimedInv
<1> SUFFICES ASSUME Init PROVE TimedInv
  OBVIOUS
<1>1. NoSample \in Samples
  BY MaxAgeIsNat DEF NoSample, Samples, Unread
<1>2. lost \in BOOLEAN /\ ~lost
  BY DEF Init
<1>3. SumTypes
  BY <1>1, <1>2 DEF Init, SumTypes, Zero
<1>4. TreeTypes
  BY RateAssumption DEF Init, TreeTypes, Histories
<1>5. QED
  BY <1>2, <1>3, <1>4, PartsOfTypes DEF TimedInv, LossIsTimed

\* A loss clears what is known of the source, and starts both timers.
LEMMA LossIsTyped ==
  ASSUME TimedInv, NEW s \in Sources, Lose(s), ArmedByLoss(s) \subseteq armed'
  PROVE  SumTypes' /\ LossIsTimed' /\ sizes' \subseteq sizes
<1>1. SumTypes
  BY PartsOfTypes DEF TimedInv
<1>2. CASE s \notin Active
  BY <1>1, <1>2 DEF Lose, ArmedByLoss, TimedInv, SumTypes, LossIsTimed
<1>3. CASE s \in Active
  <2>1. NoSample \in Samples
    BY MaxAgeIsNat DEF NoSample, Samples, Unread
  <2>2. samples' \in [Sources -> Samples]
    BY <1>1, <1>3, <2>1 DEF Lose, SumTypes
  <2>3. state' = "loading" /\ shown' = {} /\ sizes' \subseteq sizes
    BY <1>3 DEF Lose, Zero
  <2>4. lost' \in BOOLEAN
    BY <1>3 DEF Lose
  <2>5. "deadline" \in armed'
    BY <1>3 DEF ArmedByLoss, Timers
  <2>6. QED
    BY <2>2, <2>3, <2>4, <2>5 DEF SumTypes, LossIsTimed
<1>4. QED
  BY <1>2, <1>3

\* Every step keeps the types and the deadline of a loss.
LEMMA StepsKeepTimedInv == TimedInv /\ [Next]_vars => TimedInv'
<1> SUFFICES ASSUME TimedInv, [Next]_vars PROVE TimedInv'
  OBVIOUS
<1> USE DEF plasma
<1>0. SumTypes /\ TreeTypes /\ LossIsTimed
  BY PartsOfTypes DEF TimedInv
<1>1. SUFFICES SumTypes' /\ TreeTypes' /\ LossIsTimed'
  BY PartsOfTypes DEF TimedInv, TypeOK, SumTypes, TreeTypes, Samples, Of
<1>2. ASSUME UNCHANGED <<samples, state, shown, lost>>, "deadline" \in armed => "deadline" \in armed'
      PROVE  SumTypes' /\ LossIsTimed'
  BY <1>0, <1>2 DEF SumTypes, LossIsTimed
<1>3. ASSUME DeadlineTimer
      PROVE  SumTypes' /\ TreeTypes' /\ LossIsTimed'
  <2>1. TreeTypes'
    BY <1>0, <1>3 DEF DeadlineTimer, TreeTypes, Of
  <2>2. lost' \in BOOLEAN /\ LossIsTimed'
    <3>1. CASE state = "available"
      BY <1>0, <1>3, <3>1 DEF DeadlineTimer, SumTypes, LossIsTimed
    <3>2. CASE state # "available"
      BY <1>3, <3>2 DEF DeadlineTimer, LossIsTimed
    <3>3. QED
      BY <3>1, <3>2
  <2>3. QED
    BY <1>0, <1>3, <2>1, <2>2 DEF DeadlineTimer, SumTypes, Zero
<1>4. ASSUME Tick
      PROVE  SumTypes' /\ TreeTypes' /\ LossIsTimed'
  <2>1. \A s \in Sources : Aged(s) \in Samples /\ samples[s] \in Samples
    BY <1>0, SamplesAreTyped DEF SumTypes
  <2>2. samples' \in [Sources -> Samples]
    BY <1>4, <2>1 DEF Tick
  <2>3. since' \in [Sources -> Histories]
    <3>1. PICK moving \in SUBSET (Sampled \cap tree) :
            since' = [s \in Sources |-> IF s \in Sampled THEN After(s, s \in moving) ELSE since[s]]
      BY <1>4 DEF Tick
    <3>2. \A s \in Sources : After(s, s \in moving) \in Histories
      BY DEF After, Histories
    <3>3. \A s \in Sources : since[s] \in Histories
      BY <1>0 DEF TreeTypes
    <3>4. QED
      BY <3>1, <3>2, <3>3
  <2>4. QED
    BY <1>0, <1>4, <2>2, <2>3 DEF Tick, SumTypes, TreeTypes, LossIsTimed, Of
<1>5. ASSUME DiscoveryTimer \/ RetryTimer
      PROVE  SumTypes' /\ TreeTypes' /\ LossIsTimed'
  <2> DEFINE dry == selected' = {} /\ state = "available"
             before == IF dry THEN "loading" ELSE state
             rates == IF dry THEN Zero ELSE shown
  <2>1. /\ candidates' = tree /\ Reselect /\ Aggregate(selected', samples, before, rates)
        /\ UNCHANGED <<group, tree, since, changes, sizes>>
        /\ armed' \subseteq armed /\ ("deadline" \in armed => "deadline" \in armed')
    BY <1>5 DEF DiscoveryTimer, RetryTimer, Discover, Rediscover
  <2>2. selected' \subseteq Pairs
    BY <1>0, <2>1, ChoiceIsOfPairs DEF Reselect, TreeTypes
  <2>3. before \in {"loading", "available", "unavailable"} /\ rates \in SUBSET Pairs
    BY <1>0 DEF SumTypes, Zero
  <2> HIDE DEF before, rates
  <2>4. SumTypes' /\ LossIsTimed'
    BY <1>0, <2>1, <2>2, <2>3, AggregateIsTyped DEF SumTypes
  <2>5. TreeTypes'
    BY <1>0, <2>1, <2>2 DEF TreeTypes, Of
  <2>6. QED
    BY <2>4, <2>5
<1>6. ASSUME Settle
      PROVE  SumTypes' /\ TreeTypes' /\ LossIsTimed'
  <2> DEFINE sampled == [s \in Sources |-> IF s \in Quiet
                                           THEN [samples[s] EXCEPT !.ready = TRUE, !.moving = FALSE]
                                           ELSE samples[s]]
  <2>1. Aggregate(selected, sampled, state, shown) /\ UNCHANGED <<group, plasma, candidates, selected, sizes, armed>>
    BY <1>6 DEF Settle
  <2>2. \A s \in Sources : /\ samples[s] \in Samples
                           /\ [samples[s] EXCEPT !.ready = TRUE, !.moving = FALSE] \in Samples
    BY <1>0, SamplesAreTyped DEF SumTypes
  <2>3. sampled \in [Sources -> Samples]
    BY <2>2
  <2> HIDE DEF sampled
  <2>4. SumTypes' /\ LossIsTimed'
    BY <1>0, <2>1, <2>3, AggregateIsTyped DEF SumTypes, TreeTypes
  <2>5. QED
    BY <1>0, <2>1, <2>4 DEF TreeTypes, Of
<1>7. ASSUME NEW s \in Sources, Appear(s) \/ Restart(s) \/ ReadSize(s)
      PROVE  SumTypes' /\ TreeTypes' /\ LossIsTimed'
  <2>1. SumTypes' /\ LossIsTimed'
    BY <1>2, <1>7 DEF Appear, Restart, ReadSize
  <2>2. since' \in [Sources -> Histories]
    BY <1>0, <1>7 DEF Appear, Restart, ReadSize, TreeTypes, Histories
  <2>3. changes' \in 0 .. MaxChanges
    BY <1>0, <1>7, RateAssumption DEF Appear, Restart, ReadSize, TreeTypes, Change
  <2>4. QED
    BY <1>0, <1>7, <2>1, <2>2, <2>3 DEF Appear, Restart, ReadSize, Connected, TreeTypes, Of, Timers
<1>8. ASSUME NEW s \in Sources, Remove(s) \/ Fail(s)
      PROVE  SumTypes' /\ TreeTypes' /\ LossIsTimed'
  <2>1. Lose(s) /\ ArmedByLoss(s) \subseteq armed' /\ UNCHANGED <<group, candidates, selected>>
    BY <1>8 DEF Remove, Fail
  <2>2. SumTypes' /\ LossIsTimed' /\ sizes' \subseteq sizes
    BY <2>1, LossIsTyped
  <2>3. since' \in [Sources -> Histories]
    BY <1>0, <1>8 DEF Remove, Fail, SinceLoss, TreeTypes, Histories
  <2>4. changes' \in 0 .. MaxChanges
    BY <1>0, <1>8, RateAssumption DEF Remove, Fail, TreeTypes, Change
  <2>5. armed' \subseteq Timers /\ tree' \subseteq tree
    BY <1>0, <1>8 DEF Remove, Fail, ArmedByLoss, Timers, TreeTypes
  <2>6. QED
    BY <1>0, <2>1, <2>2, <2>3, <2>4, <2>5 DEF TreeTypes, Of
<1>9. ASSUME NEW s \in Sources, ReadCounter(s) \/ ReadRate(s)
      PROVE  SumTypes' /\ TreeTypes' /\ LossIsTimed'
  <2>1. samples[s] \in Samples
    BY <1>0 DEF SumTypes
  <2>2. \E sample \in Samples : Take(s, sample)
    BY <1>9, <2>1, SamplesAreTyped DEF ReadCounter, ReadRate
  <2>3. PICK sample \in Samples : Take(s, sample)
    BY <2>2
  <2> DEFINE sampled == [samples EXCEPT ![s] = sample]
  <2>4. sampled \in [Sources -> Samples]
    BY <1>0 DEF SumTypes
  <2>5. /\ Aggregate(selected, sampled, state, shown) /\ since' = [since EXCEPT ![s] = "steady"]
        /\ UNCHANGED <<group, tree, changes, candidates, selected, sizes, armed>>
    BY <2>3 DEF Take
  <2> HIDE DEF sampled
  <2>6. SumTypes' /\ LossIsTimed'
    BY <1>0, <2>4, <2>5, AggregateIsTyped DEF SumTypes, TreeTypes
  <2>7. QED
    BY <1>0, <2>5, <2>6 DEF TreeTypes, Of, Histories
<1>10. ASSUME NEW gone, Reset(gone)
       PROVE  SumTypes' /\ TreeTypes' /\ LossIsTimed'
  <2>1. SumTypes' /\ LossIsTimed'
    BY <1>2, <1>10 DEF Reset
  <2>2. since' \in [Sources -> Histories] /\ changes' \in 0 .. MaxChanges
    BY <1>0, <1>10, RateAssumption DEF Reset, TreeTypes, Change, Histories
  <2>3. QED
    BY <1>0, <1>10, <2>1, <2>2 DEF Reset, TreeTypes, Of, Timers
<1>11. CASE UNCHANGED vars
  BY <1>0, <1>11 DEF vars, SumTypes, TreeTypes, LossIsTimed, Of
<1>12. QED
  BY <1>3, <1>4, <1>5, <1>6, <1>7, <1>8, <1>9, <1>10, <1>11 DEF Next

\* Type correctness of the rates, for any catalog and any spans.
THEOREM RateTypeCorrect == Spec => []TypeOK
<1>1. TimedInv => TypeOK
  BY DEF TimedInv
<1>2. QED
  BY <1>1, TimedInit, StepsKeepTimedInv, PTL DEF Spec

\* While a loss is not resolved the deadline runs, which ends it: what
\* LossIsResolved adds is only that a timer that runs fires.  handleNetworkSourceLoss
\* and handleDiskIoSourceLoss restart it with every loss of a source in use.
THEOREM LossIsAlwaysTimed == Spec => [](lost => state = "loading" /\ "deadline" \in armed)
<1>1. TimedInv => (lost => state = "loading" /\ "deadline" \in armed)
  BY DEF TimedInv, LossIsTimed
<1>2. QED
  BY <1>1, TimedInit, StepsKeepTimedInv, PTL DEF Spec

----------------------------------------------------------------------------
(* Settling.                                                               *)

\* A counter that moved all the time since its sample is read within Refresh.
Fresh(s) == since[s] = "steady" => samples[s].age <= Refresh \/ samples[s].age <= 1
SteadyIsFresh == \A s \in Counters : Fresh(s)

\* Nothing is known of any counter at first.
LEMMA FreshStarts == Init => SteadyIsFresh
BY DEF Init, SteadyIsFresh, Fresh, NoSample, Unread, Counters

\* A tick makes the sample of a counter older that is read in time, or ends
\* the time in which it moved always.
LEMMA TickKeepsFresh ==
  ASSUME TypeOK, SteadyIsFresh, Tick, NEW s \in Counters
  PROVE  Fresh(s)'
<1>1. s \in Sources /\ samples[s] \in Samples /\ Refresh \in Nat
  BY RateAssumption DEF Counters, TypeOK, Samples
<1>2. SUFFICES ASSUME since'[s] = "steady"
               PROVE  samples'[s].age <= Refresh \/ samples'[s].age <= 1
  BY DEF Fresh
<1>3. PICK moving \in SUBSET (Sampled \cap tree) :
        since' = [t \in Sources |-> IF t \in Sampled THEN After(t, t \in moving) ELSE since[t]]
  BY DEF Tick
<1>4. CASE s \notin Sampled
  BY <1>1, <1>3, <1>4, <1>2 DEF Tick, SteadyIsFresh, Fresh
<1>5. CASE s \in Sampled
  <2>1. After(s, s \in moving) = "steady" /\ samples'[s] = Aged(s) /\ ~Overdue(s)
    BY <1>1, <1>2, <1>3, <1>5 DEF Tick
  <2>2. since[s] = "steady" /\ Readable(s)
    BY <2>1 DEF After
  <2>3. samples[s].age < Refresh \/ samples[s].age <= 0
    BY <1>1, <2>1, <2>2 DEF Overdue, Grew, Samples, Unread
  <2>4. samples'[s].age <= samples[s].age + 1
    BY <1>1, <2>1, MaxAgeIsNat DEF Aged, Samples, Unread
  <2>5. samples[s].age \in Int /\ samples'[s].age \in Int
    <3>1. samples[s] \in Samples /\ Aged(s) \in Samples
      BY <1>1, SamplesAreTyped
    <3>2. QED
      BY <2>1, <3>1, MaxAgeIsNat DEF Samples, Unread
  <2>6. QED
    BY <1>1, <2>3, <2>4, <2>5
<1>6. QED
  BY <1>4, <1>5

\* A loss forgets the sample of a counter of which nothing is known any more.
LEMMA LossKeepsFresh ==
  ASSUME TypeOK, SteadyIsFresh, NEW l \in Sources, Lose(l),
         NEW kept, since' = SinceLoss(l, kept),
         l \in Sampled => kept \in {since[l], "none"},
         NEW s \in Counters
  PROVE  Fresh(s)'
<1>1. s \in Sources
  BY DEF Counters
<1>2. CASE l \in Active /\ s = l
  BY <1>1, <1>2, RateAssumption DEF Lose, TypeOK, Fresh, NoSample, Unread
<1>3. CASE l \in Active /\ s # l
  BY <1>1, <1>3 DEF Lose, SinceLoss, TypeOK, SteadyIsFresh, Fresh
<1>4. CASE l \notin Active /\ s # l
  BY <1>1, <1>4 DEF Lose, SinceLoss, TypeOK, SteadyIsFresh, Fresh
<1>5. CASE l \notin Active /\ s = l
  <2>1. CASE s \in Sampled
    BY <1>1, <1>5, <2>1 DEF Lose, SinceLoss, TypeOK, SteadyIsFresh, Fresh
  <2>2. CASE s \notin Sampled
    BY <1>5, <2>2 DEF Lose, Sampled, Fresh, NoSample, Unread
  <2>3. QED
    BY <2>1, <2>2
<1>6. QED
  BY <1>2, <1>3, <1>4, <1>5

\* Every step keeps a counter that always moves fresh.
LEMMA StepsKeepFresh == TypeOK /\ SteadyIsFresh /\ [Next]_vars => SteadyIsFresh'
<1> SUFFICES ASSUME TypeOK, SteadyIsFresh, [Next]_vars, NEW s \in Counters PROVE Fresh(s)'
  BY DEF SteadyIsFresh, Counters
<1> USE DEF plasma
<1>0. s \in Sources /\ Fresh(s) /\ samples \in [Sources -> Samples] /\ since \in [Sources -> Histories]
  BY DEF Counters, SteadyIsFresh, TypeOK, Samples
<1>1. CASE Tick
  BY <1>1, TickKeepsFresh
<1>2. CASE DiscoveryTimer \/ RetryTimer \/ DeadlineTimer \/ UNCHANGED vars
  <2>1. UNCHANGED <<samples, since>>
    BY <1>2 DEF DiscoveryTimer, RetryTimer, DeadlineTimer, vars, Discover, Rediscover, Aggregate
  <2>2. QED
    BY <1>0, <2>1 DEF Fresh
<1>3. CASE Settle
  <2>1. since' = since /\ samples' = [t \in Sources |-> IF t \in Quiet
                                        THEN [samples[t] EXCEPT !.ready = TRUE, !.moving = FALSE]
                                        ELSE samples[t]]
    BY <1>3 DEF Settle, Aggregate
  <2>2. samples'[s].age = samples[s].age
    BY <1>0, <2>1 DEF Samples
  <2>3. QED
    BY <1>0, <2>1, <2>2 DEF Fresh
<1>4. ASSUME NEW t \in Sources, Appear(t) PROVE Fresh(s)'
  <2>1. samples' = samples
    BY <1>4 DEF Appear
  <2>2. CASE s # t
    BY <1>0, <1>4, <2>1, <2>2 DEF Appear, Fresh
  <2>3. CASE s = t /\ s \in Sampled
    BY <1>0, <1>4, <2>3 DEF Appear, Fresh
  <2>4. CASE s \notin Sampled
    BY <2>1, <2>4 DEF Sampled, Fresh, NoSample, Unread
  <2>5. QED
    BY <2>2, <2>3, <2>4
<1>5. ASSUME NEW t \in Sources, Remove(t) PROVE Fresh(s)'
  <2>1. /\ Lose(t) /\ since' = SinceLoss(t, IF t \in Sampled THEN "none" ELSE "steady")
    BY <1>5 DEF Remove
  <2>2. QED
    BY <2>1, LossKeepsFresh
<1>6. ASSUME NEW t \in Sources, Fail(t) PROVE Fresh(s)'
  BY <1>6, LossKeepsFresh DEF Fail
<1>7. ASSUME NEW t \in Sources, Restart(t) PROVE Fresh(s)'
  BY <1>0, <1>7 DEF Restart, Fresh
<1>8. ASSUME NEW t \in Sources, ReadCounter(t) \/ ReadRate(t) PROVE Fresh(s)'
  <2>1. PICK sample : Take(t, sample) /\ sample.age = 0
    BY <1>8 DEF ReadCounter, ReadRate, CounterSample
  <2>2. samples' = [samples EXCEPT ![t] = sample] /\ since' = [since EXCEPT ![t] = "steady"]
    BY <2>1 DEF Take, Aggregate
  <2>3. QED
    BY <1>0, <2>1, <2>2 DEF Fresh
<1>9. ASSUME NEW t \in Sources, ReadSize(t) PROVE Fresh(s)'
  BY <1>0, <1>9 DEF ReadSize, Fresh
<1>10. ASSUME NEW gone, Reset(gone) PROVE Fresh(s)'
  <2>1. samples' = samples /\ (since'[s] = since[s] \/ since'[s] = "none")
    BY <1>0, <1>10 DEF Reset
  <2>2. QED
    BY <1>0, <2>1 DEF Fresh
<1>11. QED
  BY <1>1, <1>2, <1>3, <1>4, <1>5, <1>6, <1>7, <1>8, <1>9, <1>10 DEF Next

\* Only settling changes a sample without reading it or losing it.
LEMMA OnlyQuietIsSettled ==
  ASSUME TypeOK, [Next]_vars, NEW s \in Counters, Settled(s)
  PROVE  samples[s].age >= SettleAge
<1> USE DEF plasma
<1>0. s \in Sources /\ samples \in [Sources -> Samples] /\ samples[s].age > 0 /\ samples'[s] # samples[s]
      /\ samples'[s].age = samples[s].age
  BY DEF Counters, TypeOK, Samples, Settled
<1>1. CASE Tick
  <2>1. samples'[s] = Aged(s)
    BY <1>0, <1>1 DEF Tick
  <2>2. samples[s].age \in Int /\ samples[s] \in Samples
    BY <1>0, MaxAgeIsNat DEF Samples, Unread
  <2>3. samples[s].age >= MaxAge
    BY <1>0, <2>1, <2>2, MaxAgeIsNat DEF Aged, Samples
  <2>4. Aged(s) = samples[s]
    BY <2>2, <2>3, MaxAgeIsNat DEF Aged, Samples
  <2>5. QED
    BY <1>0, <2>1, <2>4
<1>2. CASE DiscoveryTimer \/ RetryTimer \/ DeadlineTimer \/ UNCHANGED vars
  BY <1>0, <1>2 DEF DiscoveryTimer, RetryTimer, DeadlineTimer, vars, Discover, Rediscover, Aggregate
<1>3. CASE Settle
  <2>1. s \in Quiet
    BY <1>0, <1>3 DEF Settle, Aggregate
  <2>2. QED
    BY <2>1 DEF Quiet
<1>4. ASSUME NEW t \in Sources, Appear(t) \/ Restart(t) \/ ReadSize(t) PROVE FALSE
  BY <1>0, <1>4 DEF Appear, Restart, ReadSize
<1>5. ASSUME NEW t \in Sources, Lose(t) PROVE FALSE
  <2>1. samples'[s] = NoSample
    BY <1>0, <1>5 DEF Lose
  <2>2. QED
    BY <1>0, <2>1 DEF NoSample, Unread
<1>6. ASSUME NEW t \in Sources, ReadCounter(t) \/ ReadRate(t) PROVE FALSE
  <2>1. PICK sample : Take(t, sample) /\ sample.age = 0
    BY <1>6 DEF ReadCounter, ReadRate, CounterSample
  <2>2. samples' = [samples EXCEPT ![t] = sample]
    BY <2>1 DEF Take, Aggregate
  <2>3. QED
    BY <1>0, <2>1, <2>2
<1>7. ASSUME NEW gone, Reset(gone) PROVE FALSE
  BY <1>0, <1>7 DEF Reset
<1>8. QED
  BY <1>1, <1>2, <1>3, <1>4, <1>5, <1>6, <1>7 DEF Next, Remove, Fail

\* settleUnchangedNetworkCounters and settleUnchangedDiskIoCounters never take a
\* counter that moves for a constant one, if a counter that moved is read
\* again before its sample is as old as they ask: at the default refresh
\* interval of 1000 ms, and with any sources, losses and restarts of counters.
THEOREM SteadyCountersAreNeverSettled ==
  ASSUME Refresh < SettleAge, 1 < SettleAge
  PROVE  Spec => SteadyCounterIsNotSettled
<1>1. TypeOK /\ SteadyIsFresh /\ [Next]_vars => [\A s \in Counters : Settled(s) => since[s] # "steady"]_vars
  <2> SUFFICES ASSUME TypeOK, SteadyIsFresh, [Next]_vars, NEW s \in Counters,
                      Settled(s), since[s] = "steady"
               PROVE  FALSE
    OBVIOUS
  <2>1. samples[s].age >= SettleAge
    BY OnlyQuietIsSettled
  <2>2. samples[s].age <= Refresh \/ samples[s].age <= 1
    BY DEF SteadyIsFresh, Fresh
  <2>3. samples[s].age \in Int
    BY MaxAgeIsNat DEF TypeOK, Counters, Unread
  <2>4. QED
    BY <2>1, <2>2, <2>3, RateAssumption
<1>2. QED
  BY <1>1, FreshStarts, StepsKeepFresh, RateTypeCorrect, PTL DEF Spec, SteadyCounterIsNotSettled
=============================================================================
