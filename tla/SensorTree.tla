----------------------------- MODULE SensorTree -----------------------------
(***************************************************************************)
(* What the temperature and the filesystem metrics of MetricsProvider.qml  *)
(* have in common: the sensors that Plasma lists, the candidates that the  *)
(* last discovery found among them, the state of the metric, and its       *)
(* timers.  A module of a metric conjoins the events of this one with what *)
(* its own handlers do.  A timer that runs may fire at any moment.         *)
(***************************************************************************)
EXTENDS Integers

CONSTANTS
  MaxChanges,   \* bound: sensors that come, go, fail or answer again
  GoneTogether  \* bound: the sets of sensors a reset of the tree may leave out

ASSUME TreeAssumption == MaxChanges \in Nat

VARIABLES
  tree,        \* the sensors that Plasma lists
  live,        \* those of them that answer
  changes,     \* how many of the MaxChanges were made, or given up from the start
  candidates,  \* temperatureCandidateSources, filesystemCandidateSources
  state,       \* temperatureState, filesystemState
  armed,       \* the single-shot timers that run
  lost         \* a loss was handled and the state is loading since

plasma == <<tree, live, changes>>
treeVars == <<plasma, candidates, state, armed, lost>>

Timers == {"discovery", "deadline"}

TreeTypeOK(sources) ==
  /\ live \subseteq tree /\ tree \subseteq sources
  /\ changes \in 0 .. MaxChanges
  /\ candidates \subseteq sources
  /\ state \in {"loading", "available", "unavailable"}
  /\ armed \subseteq Timers
  /\ lost \in BOOLEAN

TreeInit(sources) ==
  /\ tree \in SUBSET sources
  /\ live = tree
  /\ changes \in 0 .. MaxChanges
  /\ candidates = {}
  /\ state = "loading"
  /\ armed = Timers
  /\ lost = FALSE

----------------------------------------------------------------------------
(* Plasma.                                                                 *)

Change ==
  /\ changes < MaxChanges
  /\ changes' = changes + 1

\* onSourceAdded, onRowsInserted
SourceAdded(s) ==
  /\ s \notin tree
  /\ Change
  /\ tree' = tree \cup {s} /\ live' = live \cup {s}
  /\ armed' = armed \cup {"discovery"}
  /\ UNCHANGED <<candidates, state, lost>>

\* A sensor that is listed answers again.
SensorRecovers(s) ==
  /\ s \in tree \ live
  /\ Change
  /\ live' = live \cup {s}
  /\ UNCHANGED <<tree, candidates, state, armed, lost>>

\* onSourceRemoved and the status of a removed sensor: the handlers hear of it.
\* Only the sensor tree has a row that is removed with it, onRowsRemoved.
SourceRemoved(s) ==
  /\ s \in tree
  /\ Change
  /\ tree' = tree \ {s} /\ live' = live \ {s}
  /\ UNCHANGED candidates

\* onStatusChanged: a sensor that was asked for fails; the handlers hear of it.
SensorFails(s) ==
  /\ s \in candidates \cap live
  /\ Change
  /\ live' = live \ {s}
  /\ UNCHANGED <<tree, candidates>>

\* onModelReset: the tree is built anew without some sensors, which do not
\* report that they are gone.
ModelReset(gone) ==
  /\ gone \cap tree # {}
  /\ Change
  /\ tree' = tree \ gone /\ live' = live \ gone
  /\ armed' = armed \cup {"discovery"}
  /\ UNCHANGED <<candidates, state, lost>>

Answers(s) == s \in candidates \cap live

----------------------------------------------------------------------------
(* The timers.                                                             *)

\* discover() looks at the tree and may leave the state as before or better.
DiscoveryDue ==
  /\ "discovery" \in armed
  /\ armed' = armed \ {"discovery"}

\* The repeating timer: 2 s for temperatures, 3 s for filesystems.
RetryDue ==
  /\ state # "available"
  /\ UNCHANGED armed

Rediscovered ==
  /\ candidates' = tree
  /\ UNCHANGED plasma

DeadlineDue ==
  /\ "deadline" \in armed
  /\ armed' = armed \ {"deadline"}
  /\ IF state = "available" THEN UNCHANGED <<state, lost>>
     ELSE state' = "unavailable" /\ lost' = FALSE
  /\ UNCHANGED <<plasma, candidates>>

\* Mutant: a handled loss does not start the deadline again.
ArmedAfterLossOnce(handled, removed) ==
  armed \cup (IF handled \/ removed THEN {"discovery"} ELSE {})

\* The timers after a loss: a handler that acts starts both, and a removed row
\* starts discovery in any case.
ArmedAfterLoss(handled, removed) ==
  armed \cup (IF handled THEN Timers ELSE IF removed THEN {"discovery"} ELSE {})

----------------------------------------------------------------------------
\* A metric that loses a source it uses shows values again or says
\* Unavailable: it does not load for ever.
LossIsResolved == lost ~> ~lost

\* When no sensor answers any more the metric says Unavailable in the end
\* ("Each metric displays `Unavailable` when no compatible source responds",
\* README.md:267).
UnansweredIsUnavailable == <>[](live = {}) => <>[](state = "unavailable")
=============================================================================
