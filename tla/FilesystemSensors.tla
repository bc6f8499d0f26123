------------------------- MODULE FilesystemSensors -------------------------
(***************************************************************************)
(* The filesystem capacities of MetricsProvider.qml.  Sensors of one group *)
(* (a filesystem as Plasma names it) report its used, free and total bytes *)
(* or percentages, and where it is mounted; groups that are complete       *)
(* become rows, the best group for each mount, in the order of the mounts  *)
(* and up to the configured number.                                        *)
(*                                                                         *)
(* Bytes are small numbers.  The rate limit of a capacity is whether its   *)
(* last accepted value is recent.  What the code keeps for its log and in  *)
(* properties that nothing reads (root values, active sources: all of them *)
(* have samples, so that the guard of a loss is that alone) is left out.   *)
(***************************************************************************)
EXTENDS SensorTree, FiniteSets

CONSTANTS
  FilesystemSources,
  Sensor,       \* by source: its group and role
  Amounts,      \* by source: the numbers, or texts as numbers, it reports
  Filesystems,  \* by group: tail, explicit and label are the mount that its names,
                \* its mount sensor and its label tell; virtual says that its type
                \* is ignored, aggregate that it sums others up
  NoMount,      \* no mount is told
  IgnoredMount, \* /proc, /run and the like
  MountOrder,   \* by mount that may be shown: its place among the rows
  GroupOrder,   \* by group: its place among the names
  RowLimits     \* values of effectiveMaximumFilesystemEntries

MountPaths == DOMAIN MountOrder
FsGroups == DOMAIN Filesystems
Metadata == {"mount", "label", "type"}
Roles == {"used", "available", "total", "percent", "freePercent"} \cup Metadata
NoAmount == -1
NoRows == [m \in {} |-> [used |-> 0, total |-> 0]]

ASSUME FilesystemAssumption ==
  /\ \A s \in FilesystemSources :
       /\ Sensor[s].group \in FsGroups /\ Sensor[s].role \in Roles
       /\ Amounts[s] \subseteq
            IF Sensor[s].role \in {"percent", "freePercent"} THEN 0 .. 100 ELSE Nat
  /\ \A s, t \in FilesystemSources : Sensor[s] = Sensor[t] => s = t
  /\ \A g \in FsGroups :
       {Filesystems[g].tail, Filesystems[g].explicit, Filesystems[g].label}
         \subseteq MountPaths \cup {NoMount, IgnoredMount}
  /\ {NoMount, IgnoredMount} \cap MountPaths = {} /\ IsFiniteSet(MountPaths)
  /\ MountOrder \in [MountPaths -> Nat] /\ GroupOrder \in [FsGroups -> Nat]
  /\ \A m, n \in MountPaths : MountOrder[m] = MountOrder[n] => m = n
  /\ \A g, h \in FsGroups : GroupOrder[g] = GroupOrder[h] => g = h
  /\ RowLimits \subseteq Nat \ {0} /\ RowLimits # {}

VARIABLES
  amounts,   \* filesystemSamples
  recent,    \* capacities whose filesystemSampleTimes is within the interval
  rows,      \* filesystemModel: by mount, its bytes
  rowLimit   \* effectiveMaximumFilesystemEntries

filesystemVars == <<treeVars, amounts, recent, rows, rowLimit>>

FilesystemTypeOK ==
  /\ TreeTypeOK(FilesystemSources)
  /\ amounts \in [FilesystemSources -> Nat \cup {NoAmount}]
  /\ recent \subseteq FilesystemSources
  /\ \E shown \in SUBSET MountPaths : rows \in [shown -> [used : Nat, total : Nat]]
  /\ rowLimit \in RowLimits

NoFilesystems ==
  /\ amounts = [s \in FilesystemSources |-> NoAmount]
  /\ recent = {}
  /\ rows = NoRows
  /\ rowLimit \in RowLimits

FilesystemInit == TreeInit(FilesystemSources) /\ NoFilesystems

----------------------------------------------------------------------------
(* A group of samples: filesystemGroupInfo, normalizedFilesystemEntry.     *)

\* What the samples of sources tell of every group: by role, a number.
Told(samples, sources) ==
  LET Known(g) == {s \in sources : Sensor[s].group = g /\ samples[s] # NoAmount}
      NumberOf(g, role) == samples[CHOOSE s \in Known(g) : Sensor[s].role = role]
  IN  [g \in FsGroups |-> [role \in {Sensor[s].role : s \in Known(g)} |-> NumberOf(g, role)]]

\* From here to Score: what one group told.
Knows(told, roles) == roles \subseteq DOMAIN told

MountOf(told, g) ==
  CASE Knows(told, {"mount"}) /\ Filesystems[g].explicit # NoMount -> Filesystems[g].explicit
    [] Filesystems[g].tail # NoMount -> Filesystems[g].tail
    [] Knows(told, {"label"}) -> Filesystems[g].label
    [] OTHER -> NoMount

\* filesystemIgnoredReason
Ignored(told, g) ==
  \/ Filesystems[g].aggregate
  \/ Knows(told, {"type"}) /\ Filesystems[g].virtual
  \/ MountOf(told, g) \notin MountPaths

\* A used value of zero is taken for a start value when the free bytes say more.
UsedIsDirect(told) ==
  /\ Knows(told, {"used"})
  /\ ~(/\ told["used"] = 0
       /\ Knows(told, {"total", "available"}) /\ told["total"] > told["available"])

\* Used bytes: direct, or what is not free, or a share of the total.
UsedBytes(told) ==
  CASE UsedIsDirect(told) -> told["used"]
    [] Knows(told, {"total", "available"}) -> told["total"] - told["available"]
    [] Knows(told, {"total", "percent"}) -> (told["total"] * told["percent"]) \div 100
    [] Knows(told, {"total", "freePercent"}) ->
         (told["total"] * (100 - told["freePercent"])) \div 100
    [] OTHER -> NoAmount

Complete(told) ==
  /\ Knows(told, {"total"}) /\ told["total"] > 0
  /\ UsedBytes(told) \in 0 .. told["total"]

\* filesystemCompleteness
Score(told) ==
  LET Points(role, n) == IF Knows(told, {role}) THEN n ELSE 0
  IN  Points("used", 4) + Points("total", 4) + Points("available", 3)
        + Points("percent", 2) + Points("type", 1)

----------------------------------------------------------------------------
(* The rows: updateFilesystemEntries, syncFilesystemModel.                 *)

\* The groups that describe mount m completely, after what all groups told.
Describing(all, m) ==
  {g \in FsGroups : ~Ignored(all[g], g) /\ MountOf(all[g], g) = m /\ Complete(all[g])}

Better(all, g, h) ==
  \/ Score(all[g]) > Score(all[h])
  \/ Score(all[g]) = Score(all[h]) /\ GroupOrder[g] < GroupOrder[h]

\* The group with the highest score, of several the first by name.
Winner(all, m) ==
  LET groups == Describing(all, m)
  IN  CHOOSE g \in groups : \A h \in groups \ {g} : Better(all, g, h)

Entry(all, m) ==
  LET told == all[Winner(all, m)]
  IN  [used |-> UsedBytes(told), total |-> told["total"]]

Described(all) == {m \in MountPaths : Describing(all, m) # {}}

\* The first limit of the mounts that are described.
Listed(all, limit) ==
  {m \in Described(all) :
     Cardinality({n \in Described(all) : MountOrder[n] < MountOrder[m]}) < limit}

Entries(all, limit) == [m \in Listed(all, limit) |-> Entry(all, m)]

\* Mutant: rows of the same mounts keep their bytes.
SyncedByMount(entries) == IF DOMAIN entries = DOMAIN rows THEN rows ELSE entries

\* Rows of the same mounts get new bytes; others are made anew.
Synced(entries) == entries

\* Without rows an available state becomes loading; the others stay.
UpdateEntries(samples, sources, limit) ==
  /\ \E all \in {Told(samples, sources)} : rows' = Synced(Entries(all, limit))
  /\ state' = IF DOMAIN rows' # {} THEN "available"
              ELSE IF state = "available" THEN "loading" ELSE state

----------------------------------------------------------------------------
\* rememberFilesystemSample: a capacity is taken once in an interval, but for
\* one that was zero at first; metadata are taken always.
Accepts(s, n) ==
  \/ Sensor[s].role \in Metadata
  \/ s \notin recent
  \/ amounts[s] = 0 /\ n > 0

ReadAmount(s, n) ==
  /\ Answers(s)
  /\ Accepts(s, n)
  /\ amounts' = [amounts EXCEPT ![s] = n]
  /\ recent' = IF Sensor[s].role \in Metadata THEN recent ELSE recent \cup {s}
  /\ UpdateEntries(amounts', candidates, rowLimit)
  /\ lost' = (lost /\ state' = "loading")
  /\ UNCHANGED <<plasma, candidates, armed, rowLimit>>

\* The interval of a capacity is over.
IntervalEnds(s) ==
  /\ s \in recent
  /\ recent' = recent \ {s}
  /\ UNCHANGED <<treeVars, amounts, rows, rowLimit>>

\* handleFilesystemSourceLoss: the time of the last value stays.
LoseFilesystem(s, removed) ==
  LET handled == amounts[s] # NoAmount
  IN  /\ armed' = ArmedAfterLoss(handled, removed)
      /\ UNCHANGED <<recent, rowLimit>>
      /\ IF ~handled THEN UNCHANGED <<amounts, rows, state, lost>>
         ELSE /\ amounts' = [amounts EXCEPT ![s] = NoAmount]
              /\ UpdateEntries(amounts', candidates, rowLimit)
              /\ lost' = (state' = "loading")

\* discoverFilesystemSources
DiscoverFilesystems ==
  /\ Rediscovered
  /\ UpdateEntries(amounts, candidates', rowLimit)
  /\ lost' = (lost /\ state' = "loading")
  /\ UNCHANGED <<amounts, recent, rowLimit>>

FilesystemDiscovery == DiscoveryDue /\ DiscoverFilesystems
FilesystemRetry == RetryDue /\ DiscoverFilesystems
FilesystemDeadline == DeadlineDue /\ UNCHANGED <<amounts, recent, rows, rowLimit>>

\* onEffectiveMaximumFilesystemEntriesChanged
SetRowLimit(n) ==
  /\ n # rowLimit
  /\ rowLimit' = n
  /\ UpdateEntries(amounts, candidates, n)
  /\ lost' = (lost /\ state' = "loading")
  /\ UNCHANGED <<plasma, candidates, armed, amounts, recent>>

FilesystemPlasma ==
  \/ \E s \in FilesystemSources :
       \/ /\ SourceAdded(s) \/ SensorRecovers(s)
          /\ UNCHANGED <<amounts, recent, rows, rowLimit>>
       \/ SourceRemoved(s) /\ \E row \in BOOLEAN : LoseFilesystem(s, row)
       \/ SensorFails(s) /\ LoseFilesystem(s, FALSE)
  \/ \E gone \in GoneTogether :
       ModelReset(gone) /\ UNCHANGED <<amounts, recent, rows, rowLimit>>

FilesystemNext ==
  \/ FilesystemPlasma
  \/ \E s \in FilesystemSources :
       IntervalEnds(s) \/ \E n \in Amounts[s] : ReadAmount(s, n)
  \/ FilesystemDiscovery \/ FilesystemRetry \/ FilesystemDeadline
  \/ \E n \in RowLimits : SetRowLimit(n)

FilesystemSpec == FilesystemInit /\ [][FilesystemNext]_filesystemVars

----------------------------------------------------------------------------
\* The rows are those of the samples at hand, after any order of readings,
\* losses, discoveries and changes of the limit: as many mounts as fit, none
\* before a mount that comes first, each with the bytes of its most complete
\* group (README.md:317-322), and the state says whether there are any.
RowsAreCurrent ==
  \E all \in {Told(amounts, candidates)} : LET shown == DOMAIN rows IN
      /\ shown \subseteq Described(all)
      /\ Cardinality(shown) <= rowLimit
      /\ shown # Described(all) => Cardinality(shown) = rowLimit
      /\ \A m \in shown, n \in Described(all) \ shown : MountOrder[m] < MountOrder[n]
      /\ \A m \in shown : \E g \in Describing(all, m) :
           /\ rows[m] = [used |-> UsedBytes(all[g]), total |-> all[g]["total"]]
           /\ \A h \in Describing(all, m) : Score(all[h]) <= Score(all[g])
      /\ state = "available" <=> shown # {}
=============================================================================
