--------------------------- MODULE MCWidgetParts ---------------------------
(***************************************************************************)
(* Five parts of the widget's process that do not act on one another: the  *)
(* socket bridge, the histories, the load (CPU and memory), the            *)
(* temperature and the filesystems.  A behaviour follows one of them, so   *)
(* that one run of TLC checks all five.                                    *)
(***************************************************************************)
EXTENDS LocalSocketClient, MetricHistory, LoadMetrics, TemperatureSensors,
        FilesystemSensors, TLC

CONSTANTS Parts, one   \* the parts followed; a member of Paths

VARIABLE part

partVars == <<part, clientVars, historyVars, loadVars, treeVars, temperatures, chosen,
              amounts, recent, rows, rowLimit>>

\* Two CPU sources, of which the first stops to give numbers; an incomplete pair
\* of bytes and its percentage, and a complete pair.
SmallReports ==
  LET Some ==
        "cpu/system/TotalLoad" :> {10, NoNumber} @@ "cpu/all/usage" :> {70} @@
        "mem/physical/total" :> {4, NoNumber} @@ "mem/physical/usedPercent" :> {25, NoNumber} @@
        "memory/physical/used" :> {1, 3} @@ "memory/physical/total" :> {2, 0} @@
        "memory/physical/usage" :> {50}
  IN  [s \in LoadSources |-> IF s \in DOMAIN Some THEN Some[s] ELSE {}]

\* The sensors of a package, and of two cores, one of which tells its core late.
Reading(priority, core) == [priority |-> priority, core |-> core]
PackageAndCores == {"package", "core0", "core1"}
SmallReadings ==
  "package" :> {Reading(10, "package")} @@
  "core0" :> {Reading(50, "0")} @@
  "core1" :> {Reading(45, "core1"), Reading(50, "1"), Reading(50, "0")}
CoresFirst == "core0" :> 1 @@ "core1" :> 2 @@ "package" :> 3

\* Two groups: one for the root, and one that is taken for another mount until
\* its mount sensor tells that it is the root, too.
GroupAndRole(g, role) == [group |-> g, role |-> role]
TwoGroups ==
  {"sda1/used", "sda1/free", "sda1/total", "disk/usage", "disk/total", "disk/mount"}
SmallSensors ==
  "sda1/used" :> GroupAndRole("sda1", "used") @@
  "sda1/free" :> GroupAndRole("sda1", "available") @@
  "sda1/total" :> GroupAndRole("sda1", "total") @@
  "disk/usage" :> GroupAndRole("disk", "percent") @@
  "disk/total" :> GroupAndRole("disk", "total") @@
  "disk/mount" :> GroupAndRole("disk", "mount")
SmallAmounts ==
  "sda1/used" :> {0, 1} @@ "sda1/free" :> {1} @@ "sda1/total" :> {2} @@
  "disk/usage" :> {50} @@ "disk/total" :> {4} @@ "disk/mount" :> {1}
SmallFilesystems ==
  "sda1" :> [tail |-> "/", explicit |-> NoMount, label |-> NoMount,
             virtual |-> FALSE, aggregate |-> FALSE] @@
  "disk" :> [tail |-> "/data", explicit |-> "/", label |-> NoMount,
             virtual |-> FALSE, aggregate |-> FALSE]
RootFirst == "/" :> 0 @@ "/data" :> 2
ByName == "disk" :> 1 @@ "sda1" :> 2

\* A reset leaves out a group, the cores, or everything.
Resets ==
  {{"sda1/used", "sda1/free", "sda1/total"}, {"core0", "core1"},
   TwoGroups \cup PackageAndCores}

----------------------------------------------------------------------------
OwnSensors(p) == CASE p = "temperature" -> TemperatureSources
            [] p = "filesystems" -> FilesystemSources
            [] OTHER -> {}

Init ==
  /\ part \in Parts
  /\ TreeInit(OwnSensors(part))
  /\ NoTemperatures /\ NoFilesystems /\ ClientInit /\ HistoryInit /\ LoadInit
  /\ part # "histories" => group = "cpu" /\ metric.state = "loading"
  /\ part # "bridge" => path = one
  /\ part = "filesystems" => tree = FilesystemSources /\ changes = MaxChanges - 1
  /\ part \in {"bridge", "histories", "load"} => changes = MaxChanges
  /\ part = "temperature" => changes = 0
  /\ part # "filesystems" => \A n \in RowLimits : rowLimit <= n

BridgeIdle == UNCHANGED clientVars
HistoryIdle == UNCHANGED historyVars
LoadIdle == UNCHANGED loadVars
TreeIdle == UNCHANGED treeVars
TemperatureIdle == UNCHANGED <<temperatures, chosen>>
FilesystemIdle == UNCHANGED <<amounts, recent, rows, rowLimit>>

At(p) == part = p /\ UNCHANGED part
SensorsIdle == TreeIdle /\ TemperatureIdle /\ FilesystemIdle
AtBridge == At("bridge") /\ HistoryIdle /\ LoadIdle /\ SensorsIdle
AtHistories == At("histories") /\ BridgeIdle /\ LoadIdle /\ SensorsIdle
AtLoad == At("load") /\ BridgeIdle /\ HistoryIdle /\ SensorsIdle
AtTemperature == At("temperature") /\ BridgeIdle /\ HistoryIdle /\ LoadIdle /\ FilesystemIdle
AtFilesystems == At("filesystems") /\ BridgeIdle /\ HistoryIdle /\ LoadIdle /\ TemperatureIdle

Next ==
  \/ AtBridge /\ ClientNext
  \/ AtHistories /\ HistoryNext
  \/ AtLoad /\ LoadNext
  \/ AtTemperature /\ TemperatureNext
  \/ AtFilesystems /\ FilesystemNext

\* The timers are Qt's: one that runs fires, being restarted MaxChanges times
\* at most, and so does the timeout of the bridge.
Timeout == AtBridge /\ HandleTimeout
Deadline ==
  \/ AtTemperature /\ TemperatureDeadline
  \/ AtFilesystems /\ FilesystemDeadline
Discovery ==
  \/ AtTemperature /\ TemperatureDiscovery
  \/ AtFilesystems /\ FilesystemDiscovery
Retry ==
  \/ AtTemperature /\ TemperatureRetry
  \/ AtFilesystems /\ FilesystemRetry

FairSpec ==
  /\ Init /\ [][Next]_partVars
  /\ WF_partVars(Timeout) /\ WF_partVars(Deadline)

AllTimersSpec == FairSpec /\ WF_partVars(Discovery) /\ WF_partVars(Retry)

----------------------------------------------------------------------------
PartTypeOK ==
  /\ ClientTypeOK /\ HistoryTypeOK /\ LoadTypeOK
  /\ part = "temperature" => TemperatureTypeOK
  /\ part = "filesystems" => FilesystemTypeOK

\* RowsAreCurrent, of behaviours whose sensors are those of filesystems.
FilesystemRowsAreCurrent == part = "filesystems" => RowsAreCurrent
=============================================================================
