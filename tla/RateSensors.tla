---------------------------- MODULE RateSensors ----------------------------
(***************************************************************************)
(* The network and disk rates of MetricsProvider.qml: discovery of the     *)
(* sources, the samples taken from them, their sum, the settling of quiet  *)
(* counters, loss, and the timers.  The code for the two groups is the     *)
(* same but for the choice of pairs, the sizes of disk blocks and the time *)
(* two reads of a counter may span; a behaviour follows one of them.       *)
(*                                                                         *)
(* A sum is kept as the pairs in it, the rate of a counter as whether it   *)
(* is above zero; a rate a source reports itself is not kept.              *)
(* A timer that runs may fire at any moment; only the age of a sample is   *)
(* measured, in ticks.  Whatever depends on an object of Plasma is an      *)
(* action of its own: sources appear, leave, fail, move and are read.      *)
(***************************************************************************)
EXTENDS SourcePairs, FiniteSets

CONSTANTS
  NetworkSources, DiskSources,  \* the sources of each group, in Catalog
  Refresh,      \* effectiveRefreshIntervalMs: a moved counter is read by then
  SettleAge,    \* 1500 ms
  MinElapsed,   \* by group: 1 ms for the network, 250 ms for disks
  MaxElapsed,   \* by group: 30 s for the network, 10 s for disks
  MaxChanges    \* bound: sources that come, go or fail, and counters that restart

Groups == {"network", "disk"}

ASSUME RateAssumption ==
  /\ NetworkSources \subseteq DOMAIN Catalog /\ DiskSources \subseteq DOMAIN Catalog
  /\ \A s \in NetworkSources : Catalog[s].class \in {"aggregate", "whole-device"}
  /\ Refresh \in Nat /\ SettleAge \in Nat \ {0} /\ MaxChanges \in Nat
  /\ MinElapsed \in [Groups -> Nat \ {0}] /\ MaxElapsed \in [Groups -> Nat]

VARIABLES
  group,      \* the group followed
  tree,       \* the sources Plasma lists
  since,      \* by source: what its counter did since the sample
  changes,    \* how many changes the sources made
  candidates, \* networkDescriptors, diskIoDescriptors
  selected,   \* selectedNetworkPairs, selectedDiskPairs
  samples,    \* networkSamples, diskIoSamples
  sizes,      \* diskIoSizeSamples
  state,      \* networkState, diskIoState
  shown,      \* the pairs whose rates are added up in the two shown; none: zero
  armed,      \* the single-shot timers that run
  lost        \* a loss was handled and the state is loading since

plasma == <<tree, since, changes>>
vars == <<group, plasma, candidates, selected, samples, sizes, state, shown, armed, lost>>

Sources == NetworkSources \cup DiskSources
Of(g) == IF g = "network" THEN NetworkSources ELSE DiskSources
\* What a group may choose from the sources listed.
Selections ==
  {<<"network", listed, NetworkChoices(listed)>> : listed \in SUBSET NetworkSources} \cup
  {<<"disk", listed, DiskChoices(listed)>> : listed \in SUBSET DiskSources}
Choices(listed) ==
  UNION {c[3] : c \in {d \in Selections : d[1] = group /\ d[2] = listed}}

Unread == -1
MaxAge == 1 + (IF MaxElapsed["network"] > MaxElapsed["disk"]
               THEN MaxElapsed["network"] ELSE MaxElapsed["disk"])
NoSample == [ready |-> FALSE, moving |-> FALSE, age |-> Unread]
Zero == {}

\* What a counter did in the ticks since its sample: it moved, and could be read,
\* in all of them; it moved in some, in none; or it began again below the sample.
Histories == {"steady", "some", "none", "restarted"}
Timers == {"discovery", "deadline"}

TypeOK ==
  /\ group \in Groups
  /\ tree \subseteq Of(group) /\ candidates \subseteq Of(group)
  /\ since \in [Sources -> Histories]
  /\ changes \in 0 .. MaxChanges
  /\ selected \subseteq Pairs
  /\ samples \in [Sources -> [ready : BOOLEAN, moving : BOOLEAN, age : Unread .. MaxAge]]
  /\ sizes \subseteq Of(group)
  /\ state \in {"loading", "available", "unavailable"}
  /\ shown \subseteq Pairs
  /\ armed \subseteq Timers
  /\ lost \in BOOLEAN

Init ==
  /\ group \in Groups
  /\ tree \in SUBSET Of(group)
  /\ since = [s \in Sources |-> "steady"]
  /\ changes = 0
  /\ candidates = {} /\ selected = {}
  /\ samples = [s \in Sources |-> NoSample] /\ sizes = {}
  /\ state = "loading" /\ shown = Zero
  /\ armed = Timers
  /\ lost = FALSE

Counters == {s \in Sources : Catalog[s].mode \in {"counter", "unitCounter"}}
Grew(s) == since[s] = "some" \/ (since[s] = "steady" /\ samples[s].age > 0)
Sampled == {s \in Counters : samples[s] # NoSample}
Active == UNION {SourcesOf(p) : p \in selected}

\* A value arrives from a source that is asked for.
Connected(s) == s \in tree \cap candidates

\* The block size a unit counter needs is that of its selected pair.
SizeKnown(s) ==
  Catalog[s].mode = "unitCounter" =>
    \E p \in selected : /\ Device(p) = Catalog[s].device /\ Family(p) = Catalog[s].family
                        /\ p.size \in sizes

----------------------------------------------------------------------------
(* The sum: updateNetworkAggregate, updateDiskIoAggregate.                 *)

ReadyPairs(pairs, sampled) == {p \in pairs : sampled[p.in].ready /\ sampled[p.out].ready}

\* The state and the rates after adding up pairs; without a ready one both stay.
Summed(pairs, sampled, before, rates) ==
  LET ready == ReadyPairs(pairs, sampled)
  IN  IF ready = {} THEN [state |-> before, shown |-> rates]
      ELSE [state |-> "available", shown |-> ready]

\* The samples become sampled, and the pairs are added up.
Aggregate(pairs, sampled, before, rates) ==
  LET sum == Summed(pairs, sampled, before, rates)
  IN  /\ samples' = sampled
      /\ state' = sum.state /\ shown' = sum.shown
      /\ lost' = (lost /\ sum.state = "loading")

----------------------------------------------------------------------------
(* Plasma.                                                                 *)

Change ==
  /\ changes < MaxChanges
  /\ changes' = changes + 1

\* handleNetworkSourceLoss, handleDiskIoSourceLoss.
Lose(s) ==
  IF s \notin Active THEN UNCHANGED <<samples, sizes, state, shown, lost>>
  ELSE /\ samples' = [samples EXCEPT ![s] = NoSample]
       /\ sizes' = sizes \ {s}
       /\ state' = "loading" /\ shown' = Zero
       /\ lost' = TRUE

\* Mutant: the deadline is not restarted.
ArmedByLossOnce(s) == IF s \in Active THEN armed \cup {"discovery"} ELSE armed

\* The timers after the loss of s: discovery and deadline start again.
ArmedByLoss(s) == IF s \in Active THEN Timers ELSE armed

\* What is known of s after it: nothing, if its sample went.
SinceLoss(s, kept) == [since EXCEPT ![s] = IF s \in Active THEN "steady" ELSE kept]

\* A source is listed; what its counter did meanwhile is open.
Appear(s) ==
  /\ s \in Of(group) \ tree
  /\ Change
  /\ tree' = tree \cup {s}
  /\ \E past \in IF s \in Sampled THEN {"some", "none", "restarted"} ELSE {"steady"} :
       since' = [since EXCEPT ![s] = past]
  /\ armed' = armed \cup {"discovery"}
  /\ UNCHANGED <<group, candidates, selected, samples, sizes, state, shown, lost>>

\* A source is removed, and says so.
Remove(s) ==
  /\ s \in tree
  /\ Change
  /\ tree' = tree \ {s}
  /\ since' = SinceLoss(s, IF s \in Sampled THEN "none" ELSE "steady")
  /\ Lose(s)
  /\ armed' = ArmedByLoss(s) \cup {"discovery"}
  /\ UNCHANGED <<group, candidates, selected>>

\* A sensor is in error but still listed.
Fail(s) ==
  /\ s \in tree \cap candidates
  /\ Change
  /\ since' = SinceLoss(s, since[s])
  /\ Lose(s)
  /\ armed' = ArmedByLoss(s)
  /\ UNCHANGED <<group, tree, candidates, selected>>

\* The tree is built anew without some sources: no sensor says it is removed.
Reset(gone) ==
  /\ gone \in SUBSET tree \ {{}}
  /\ Change
  /\ tree' = tree \ gone
  /\ since' = [s \in Sources |-> IF s \in gone \cap Sampled THEN "none" ELSE since[s]]
  /\ armed' = armed \cup {"discovery"}
  /\ UNCHANGED <<group, candidates, selected, samples, sizes, state, shown, lost>>

\* A counter starts again.
Restart(s) ==
  /\ s \in tree \cap Sampled
  /\ Change
  /\ since' = [since EXCEPT ![s] = "restarted"]
  /\ UNCHANGED <<group, tree, candidates, selected, samples, sizes, state, shown, armed, lost>>

Readable(s) == Connected(s) /\ SizeKnown(s)

\* A counter that moved is read within Refresh of its last read.
Overdue(s) ==
  /\ Readable(s)
  /\ samples[s].age >= Refresh
  /\ Grew(s) \/ since[s] = "restarted"

\* The history of s after one more tick.
After(s, moves) ==
  CASE since[s] = "restarted" -> "restarted"
    [] since[s] = "steady" /\ moves /\ Readable(s) -> "steady"
    [] ~moves /\ ~Grew(s) -> "none"
    [] OTHER -> "some"

Aged(s) == [samples[s] EXCEPT !.age = IF @ < MaxAge THEN @ + 1 ELSE @]

Tick ==
  LET counted == Sampled
  IN  /\ \A s \in counted : ~Overdue(s)
      /\ samples' = [s \in Sources |-> IF s \in counted THEN Aged(s) ELSE samples[s]]
      /\ \E moving \in SUBSET (counted \cap tree) :
           since' = [s \in Sources |-> IF s \in counted THEN After(s, s \in moving)
                                       ELSE since[s]]
      /\ UNCHANGED <<group, tree, changes, candidates, selected, sizes, state, shown, armed, lost>>

----------------------------------------------------------------------------
(* Discovery.                                                              *)

Signature(pairs) == {<<p.in, p.out>> : p \in pairs}

\* The pairs stay as they are when the sources to add up do, whatever their sizes.
Reselect ==
  \E choice \in Choices(tree) :
    selected' = IF Signature(choice) = Signature(selected) THEN selected ELSE choice

\* discoverNetworkSources, discoverDiskIoSources: found has descriptors, and
\* the rates of a selection that ran out of sources go.
Rediscover(found) ==
  /\ candidates' = found
  /\ Reselect
  /\ LET dry == selected' = {} /\ state = "available"
     IN  Aggregate(selected', samples, IF dry THEN "loading" ELSE state,
                   IF dry THEN Zero ELSE shown)
  /\ UNCHANGED <<group, plasma, sizes>>

\* Mutants: sources of any name are candidates; the rates stay.
DiscoverUnfiltered == Rediscover(Sources)
DiscoverKeepsRates ==
  /\ candidates' = tree
  /\ Reselect
  /\ Aggregate(selected', samples, state, shown)
  /\ UNCHANGED <<group, plasma, sizes>>

Discover == Rediscover(tree)

DiscoveryTimer ==
  /\ "discovery" \in armed
  /\ armed' = armed \ {"discovery"}
  /\ Discover

\* The repeating timer of 2 s.
RetryTimer ==
  /\ state # "available"
  /\ Discover
  /\ UNCHANGED armed

DeadlineTimer ==
  /\ "deadline" \in armed
  /\ armed' = armed \ {"deadline"}
  /\ IF state = "available" THEN UNCHANGED <<state, shown, lost>>
     ELSE state' = "unavailable" /\ shown' = Zero /\ lost' = FALSE
  /\ UNCHANGED <<group, plasma, candidates, selected, samples, sizes>>

----------------------------------------------------------------------------
(* Samples: rememberNetworkSample, rememberDiskIoSample.                   *)

ValidDelta(s) ==
  /\ since[s] # "restarted"
  /\ samples[s].age \in MinElapsed[group] .. MaxElapsed[group]

CounterSample(s) ==
  IF samples[s] = NoSample THEN [ready |-> FALSE, moving |-> FALSE, age |-> 0]
  ELSE [ready |-> ValidDelta(s), moving |-> ValidDelta(s) /\ Grew(s), age |-> 0]

Take(s, sample) ==
  /\ Aggregate(selected, [samples EXCEPT ![s] = sample], state, shown)
  /\ since' = [since EXCEPT ![s] = "steady"]
  /\ UNCHANGED <<group, tree, changes, candidates, selected, sizes, armed>>

ReadCounter(s) ==
  /\ s \in Counters /\ Connected(s)
  /\ SizeKnown(s)
  /\ Take(s, CounterSample(s))

ReadRate(s) ==
  /\ Connected(s) /\ Catalog[s].mode = "rate"
  /\ Take(s, [ready |-> TRUE, moving |-> FALSE, age |-> 0])

\* A size within 128 bytes and 1 MiB; any other is dropped.
ReadSize(s) ==
  /\ Connected(s) /\ Catalog[s].direction = "size"
  /\ sizes' = sizes \cup {s}
  /\ UNCHANGED <<group, plasma, candidates, selected, samples, state, shown, armed, lost>>

----------------------------------------------------------------------------
(* Settling: settleUnchangedNetworkCounters, settleUnchangedDiskIoCounters.*)

\* Mutant: a counter is settled at once.
QuietAtOnce ==
  {s \in UNION {{p.in, p.out} : p \in {q \in selected : Mode(q) # "rate"}} :
     /\ samples[s] # NoSample
     /\ ~samples[s].ready \/ samples[s].moving}

Quiet ==
  {s \in UNION {{p.in, p.out} : p \in {q \in selected : Mode(q) # "rate"}} :
     /\ samples[s].age >= SettleAge
     /\ ~samples[s].ready \/ samples[s].moving}

\* Time and raw value stay those of the read.
Settle ==
  /\ Quiet # {}
  /\ Aggregate(selected,
               [s \in Sources |-> IF s \in Quiet
                                  THEN [samples[s] EXCEPT !.ready = TRUE, !.moving = FALSE]
                                  ELSE samples[s]],
               state, shown)
  /\ UNCHANGED <<group, plasma, candidates, selected, sizes, armed>>

----------------------------------------------------------------------------
Next ==
  \/ Tick
  \/ DiscoveryTimer \/ RetryTimer \/ DeadlineTimer \/ Settle
  \/ \E s \in Sources :
       \/ Appear(s) \/ Remove(s) \/ Fail(s) \/ Restart(s)
       \/ ReadCounter(s) \/ ReadRate(s) \/ ReadSize(s)
  \/ \E gone \in SUBSET tree : Reset(gone)

Spec == Init /\ [][Next]_vars

\* A timer that runs fires, being restarted MaxChanges times at most.
FairSpec == Spec /\ WF_vars(DeadlineTimer)
AllTimersSpec == FairSpec /\ WF_vars(DiscoveryTimer) /\ WF_vars(RetryTimer)

----------------------------------------------------------------------------
\* No byte is counted twice: the rates shown never add up two pairs that
\* measure the same traffic, not even while a better choice takes over.
NeverCountedTwice == Disjoint(shown)

\* Rates are shown only for a selection, and are cleared whenever the state
\* says there are none: after a loss, at the deadline, without sources.
ShownMatchesState ==
  IF state = "available" THEN selected # {} /\ shown # {} ELSE shown = Zero

\* settleUnchangedNetworkCounters takes silence for a counter that stayed
\* constant: one that moved, and could be read, all the time since it was
\* read is not settled.
Settled(s) ==
  /\ samples[s].age > 0 /\ samples'[s].age = samples[s].age
  /\ samples'[s] # samples[s]
SteadyCounterIsNotSettled ==
  [][\A s \in Counters : Settled(s) => since[s] # "steady"]_vars

\* The loss of a source ends in rates again or in Unavailable, not in loading.
LossIsResolved == lost ~> ~lost

\* A source group that stays without sources says Unavailable in the end.
NoSourcesIsUnavailable == <>[](tree = {}) => <>[](state = "unavailable")
============================================================================
