# TTop Desk in TLA+

A model of TTop Desk, the system monitor widget for KDE Plasma 5 in this
repository: one TLA+ module per component, TLC configurations that check it on
small instances, and TLAPS proofs of what matters most for every instance.
Paths below are relative to `src/`; `ui/` stands for `package/contents/ui/`.

## The system

The widget runs inside `plasmashell`. It shows CPU, memory, network, disk,
temperature and filesystem metrics that it reads from Plasma's own sensors, and
processes and GPUs that it asks of a small Python backend over a Unix socket.

| Part | Source | State it keeps | Operations | Hard because |
|---|---|---|---|---|
| Socket bridge | `native/localsocketclient.cpp` | busy, timeout, pending request, response bytes, socket, path | `request`, the socket's slots, the timeout, `setSocketPath` | a connect may fail inside the call that starts it; a timeout races an answer |
| Backend provider | `ui/BackendProvider.qml` | settings, command in flight, request queue, fallback flag, rows, GPU values, states, five timers | polls, delayed requests, answers, transport errors, changes of settings | a setting may change while a request is out; several widgets share the engine's one bridge |
| Backend server | `backend/ttop_backend/main.py` | socket file, listener, the client being served, stop flag | start, probe and removal of a stale socket, serving, stop | processes race on one path; each step may be the last before a SIGKILL |
| Process sampler, collector | `backend/ttop_backend/processes.py`, `metrics.py` | baseline of the last scan | `snapshot`, and the two commands that use it | processes end and pids are reused during and between scans; all clients share the baseline |
| Network and disk rates | `ui/MetricsProvider.qml` | candidates, selected pairs, samples, sums, states, timers | discovery, reading, settling, loss, timers | discovery, readings and timers come in any order; counters restart; the same bytes have several sensors |
| Temperature | `ui/MetricsProvider.qml` | candidates, samples, selection, state, timers | discovery, reading, selection, loss, timers | as above; a sensor's kind may become known late |
| Filesystems | `ui/MetricsProvider.qml` | candidates, samples and their times, rows, state, timers | discovery, reading, rows, loss, timers, row limit | as above; several groups of sensors describe one mount |
| CPU and memory | `ui/MetricsProvider.qml` | last payloads, values, states, whether bytes were complete, two timers | new data, fallback, deadline | sources of two engines, of which the first that works wins; a percentage races a pair of bytes |
| Histories | `ui/MetricHistory.qml`, `ui/HistoryBuffer.qml` | buffers, switches, length | property changes of the providers, switches, length | depends on the order in which a provider assigns values and state |
| GPU provider | `backend/ttop_backend/gpu/` | NVML's initialisation, the functions found | start, list devices, shutdown | each call may fail alone; a device without a handle is left out |
| Request protocol | `backend/ttop_backend/protocol.py`, `main.py` | the bytes of the line so far | read a line in chunks, validate it, answer | a client may stop anywhere; limits |
| Installers | `release/install.sh`, `release/uninstall.sh` | widget, backend, catalog, unit, enablement; what was put aside | install, roll back, verify, uninstall | failure or interruption between any two steps, then another run |
| Release build | `scripts/build-release.sh`, `release_archive.py`, `validate-release.py` | `dist/`, its checksums, the bundle | build, validate, check again | the sources change meanwhile; a build is cut short; a download is damaged |
| Views, configuration, scripts | `ui/*.qml`, `scripts/` | none, or Plasma's | bindings | – |

How they interact: the provider calls `request` of the bridge and hears its two
signals; the bridge connects to the path that a server listens on; the server
answers one client at a time and calls the collector, which calls the sampler;
the histories hear the property changes of both providers; the metrics provider
hears Plasma's sensors. QML and Qt run one handler at a time, and a signal is a
call of its handlers, so an atomic step of the widget is one event with all that
it calls. The backend's steps are system calls, because other processes can
come between two of them.

## Modules

| Module | Models | Composes |
|---|---|---|
| `RequestLine` | what the bridge, and a server's path, promise: a line that one user occupies and that is given back | – |
| `LocalSocketClient` | the bridge; an action per slot, with what Qt does inside the call | implements `RequestLine` |
| `BackendProvider` | every widget's provider on the shared bridge | `LocalSocketClient`; implements `RequestLine` |
| `BackendServer` | backend processes, the socket path, the kernel's queue, clients, systemd | implements `RequestLine` when starts and stops do not overlap |
| `ProcessSampler` | `snapshot` process by process, the baseline and the answers | – |
| `SourcePairs` | `chooseNetworkPairs`, `chooseDiskIoPairs`, as functions of the sources listed | – |
| `RateSensors` | discovery, samples, sums, settling, loss and timers of the network or the disk group | `SourcePairs` |
| `SensorTree` | what temperature and filesystems have in common: sensors, candidates, state, timers | – |
| `TemperatureSensors`, `FilesystemSensors` | the two metrics | `SensorTree` |
| `LoadMetrics` | CPU and memory: candidates, preference, fallback and deadline | – |
| `MetricHistory` | buffers and the order of the providers' assignments | – |
| `Protocol` | `parse_request` and `handle_request` as operators on what the checks look at in a line; what its beginning is worth | – |
| `GpuProvider` | NVML's start and shutdown, the device list, the values of `base.py` | – |
| `ClientService` | the life of one backend process and its clients, with the reading loop and every socket call | `Protocol`, `GpuProvider`; implements `RequestLine` |
| `Installer` | `install.sh` and `uninstall.sh` of a release bundle, a step per command that can fail alone | – |
| `Release` | the release build, its validation, a user's copy and what an installer accepts of it | – |
| `MCBackendProvider`, `MCRateSensors`, `MCWidgetParts`, `MCBackendParts` | instances for TLC | the above |
| `LocalSocketClient_proofs`, `BackendProvider_proofs`, `ProcessSampler_proofs`, `RateSensors_proofs`, `MetricHistory_proofs` | theorems and their proofs | the module they are named after; `MetricHistory_proofs` also `LoadMetrics` |
| `Delivery_proofs` | the same | `Installer`, `Release` |
| `BackendParts_proofs` | the same | `BackendServer`, `ClientService` with `Protocol` and `GpuProvider`, and the five parts of `MCBackendParts` |
| `WidgetParts_proofs` | the same | `TemperatureSensors`, `FilesystemSensors`, and the five parts of `MCWidgetParts` |

An action is named after its handler. Definitions whose comment begins with
*Mutant* are not part of the specification: each is a bug that such code could
have, and the property it is paired with in `PROJECT.json` finds it.

### What stands for what

* **Bridge.** `socket` is the state of the QLocalSocket, `wire` the request that
  the present connection carries, `response` whether a newline has arrived. A
  `request` succeeds at once, waits, or fails before it returns
  (`RequestConnects`, `RequestWaits`, `RequestFails`).
* **Provider.** `config` are the input properties, `view` what the sections
  read. Rows are a number and the ordering they were requested for; a GPU value
  is there or not, and an entry that is usable by its index and name may have none; an answer is its kind (malformed, of another version, an
  error, without its list, or with n entries). Intervals are not modelled: a
  timer that runs may tick at any moment. A failing `request` inside
  `sendNextRequest` runs every provider's handler before it returns, as in the
  code. `setSocketPath` is in the bridge's own model only, since no code sets
  the path of a running provider.
* **Server.** `path` is what the file names: nothing, a server's socket, or
  something foreign. `pc` is the next system call. A probe is a connection like
  any other. `Kill` is SIGKILL: the kernel drops the connections, the file
  stays. Other programs may put a file at the path at any moment (`PutForeign`),
  between a server's look and its unlink too; that file is then unlinked, or the
  unlink fails (a directory). What a client sends is a request or nothing here.
* **Service.** The same loop from the side of one client: `stage` is where the
  process is, `got` the bytes it has read, `ending` why it stopped reading. How
  the path is taken is one step here, since `BackendServer` has it. A line is a
  record of what the checks look at; its text ends after `core` bytes and the
  rest is white space, so that a beginning (`Pieces`) is an object only if it is
  the whole text. Silence for five seconds may come at any moment, and a client that
  has closed may be noticed by an error of `recv`, which ends its turn unanswered.
* **GPU.** A call brings one of the values that the device may tell, or nothing.
  `held` is NVML's own count of initialisations.
* **Installer.** `disk` is whose files are installed: of a version, of the
  development scripts, foreign, broken (a removal was cut short) or none. `kept`
  are the three things the script puts aside, which its EXIT trap removes
  (`Ends`); a SIGKILL leaves them under names no later run looks for, which is
  the same. The five `systemctl` calls are one step, of which any may fail.
* **Release.** The content of a file is the version it tells or what is wrong with
  it. `Edit` changes the tree at any moment, `CutShort` ends a build in any step.
  The checks of `validate-release.py` are one step of the build, since only
  `dist/` and the sources decide on them.
* **Sampler.** `scan` is the `snapshot` that runs: what is left to read, what was
  read. Between two reads processes run, end and begin, and a pid may return.
  A rate is kept as CPU time over elapsed time. The model takes `create_time`
  to be that of the process that holds the pid when it is read, as psutil says,
  and clock readings of different starts to differ. `create_time` and `cpu_times`
  (`processes.py:147-148`) are one read: a pid that changes hands just between the
  two is not in the model.
* **Rates.** A sum is kept as the set of pairs in it. `since` is what a counter
  did since it was read: moved all the time, some of it, not at all, or started
  again. Plasma is external: sources appear, leave with or without a notice
  (`Remove`, `Reset`), fail, and are read.
* **Temperature.** A reading is the priority and the core that its name and
  metadata give it; rejected readings change nothing and are left out.
* **Filesystems.** A group's texts are reduced to the mount they tell, if any; a
  group has at most one source of a role; bytes are small numbers. Root values
  and the list of active sources are left out, since nothing reads them (all
  active sources have samples). `Synced` is the list that both branches of
  `syncFilesystemModel`, in place or anew, leave behind. `recent` is the rate limit: capacities whose
  last accepted value is younger than the interval.
* **Load.** A payload is reduced to the percentage or the bytes that the code makes
  of it (units, scales and multipliers are part of the number), or to `NoNumber`.
  Percentages are whole numbers. What nothing reads but the log is left out.
* **Histories.** A refresh is one action, its assignments applied in the code's
  order through `SetValue` and `SetState`, which do what the change signals do. At
  first a provider has nothing, or first values that `onCompleted` appends.

## Runs

Every run is one question. The runs that end in a violation each check one
sentence of the documentation that the code does not keep; see *Findings*.

| Run | Checks |
|---|---|
| `BackendProvider` | one widget, all five settings changing at any time, limits below and above the length of an answer, any answer or failure. Hidden sections stay empty though answers come late (`HiddenSectionsStayEmpty`), rows stay within the limit, and GPU values are kept for an available device or behind an error only (`ShownDataIsBounded`), a backend that rejected the bounded command is not sent it again (`FallbackIsSticky`). Live: every request is given back (`OneRequestAtATime`, refinement of `RequestLine`), neither section starves (`QueuedRequestsMove`), a new sort mode wins (`SortModeTakesEffect`) |
| `BackendProviderShared` | two widgets on one bridge, both enabled and disabled at any time: scheduler and bridge agree (`InFlightMatchesBridge`), and so requests exclude one another |
| `UnaskedAnswer` | violation |
| `BackendParts` | five parts around the backend that do not act on one another, one per behaviour (`part`). Server, a systemd service and a developer's process that start, stop, fail and are killed anywhere while foreign files come to the path (`"server"`), and the service with three clients, of which each may be silent while others wait behind it (`"crowd"`): `ForeignFileIsKept`, `CleanExitLeavesNoFile`, `ServingIsReachable` as long as starts and stops do not overlap, `StopIsObeyed`, `ConnectionsSettle`, `ServiceComesBack`. Sampler, scans for several commands while pids change hands: `RatesSpanOneProcess`, `BaselineIsLastScan`, `AnswerIsTop` though an answer is cut twice. Service: `AnswerIsOfTheLine` however the line is cut or stops, `NvmlCallsAreCovered`, `EntriesAreOfTheirDevice`, `ClientIsLetGo` (refinement of `RequestLine`). Installer: `RollbackRestores`, `RerunCompletes`. Release: `AcceptedIsAsBuilt`, which ties each file to the build and the plasmoid and `VERSION` to the name; the backend it does not, see `MixedRelease` |
| `WidgetSelectsIndexZero` | violation, of the service alone |
| `ActiveSocket` | violation, without clients |
| `MixedRelease` | violation, of the release alone and without damage |
| `RateSensors` | a network interface with byte counters, a disk with sector counters and its size, the aggregate with rates; one change of Plasma: nothing is counted twice, rates are shown only for a selection, counters that move are not settled, a loss ends |
| `RateSettling`, `StuckLoading` | violations |
| `WidgetParts` | five parts that do not act on one another, one per behaviour (`part`). Bridge: `AnswerIsForPending`, `ServesOneAtATime`. Histories: `AbsentSeriesIsEmpty`, `NewestSampleIsShown`, `SampledOnceAtMost`. Load: `LoadIsOfPreferredSource`. Temperature: `BestReadingIsShown`. Filesystems: `FilesystemRowsAreCurrent`. Both metrics: `LossIsResolved` |
| `StaleTemperature` | violation |

`SteadyCounterIsNotSettled` holds in `RateSensors` and fails in `RateSettling`:
the two differ in the refresh interval, below or above the 1.5 s of settling.

### Bounds

| Bound | Why it is enough |
|---|---|
| `Widgets` 1 or 2 | two are the first number for which answers reach a stranger; the safety theorems are for any number |
| `Limits` {1, 2}, `MaxReply` 3 | an answer shorter than, equal to and longer than either limit |
| `Servers` 2, `MaxStarts` 2 | races on the path are between two processes, each of which starts again; `MaxStarts` stands for the unit's StartLimitBurst |
| `Conns` 3, `Backlog` 0 | one client is served, one waits behind it, and one finds the queue full and may come later. Clients and two servers at once are too many states: in `"server"` the only connections are probes, in `"crowd"` the service starts, fails, stops and restarts alone (`Present`). The safety theorems have any number of both |
| `Pids` 2, `MaxTime` 1, limits of 1 | two scans at different times with a pid that changes hands, and an answer that drops a process; the theorems are for any |
| `MaxRequestBytes` 4, `Chunk` 2 | lines of two bytes less than the limit to one more, in one to five chunks; `SomeLines` has a line for each check |
| `Libraries`, `TwoDevices`, `DeviceCounts` {0, 2} | a library with every optional function and an old one; readings on and beyond each edge of their ranges |
| `Versions`, `Releases` 2, `MaxTroubles` 2, `MaxDamage` 1 | an upgrade and a downgrade; a script that fails, and fails again when it is run again; one file lost or damaged, the checksums included |
| `Refresh`, `SettleAge`, `MinElapsed`, `MaxElapsed` in ticks | they keep the order of the milliseconds in the code; a sample's age stops counting past the longest |
| `MaxChanges` | 1 for rates and filesystems, 2 for temperatures (a selected and an unselected sensor must both fail). A behaviour may use fewer |
| `GoneTogether` | a reset loses a whole filesystem, all cores, or everything |
| `SmallReports` | two CPU sources, a pair of bytes that never completes and one that does and breaks, percentages of both; the theorem is for any |
| `Values` {0, 1, 2}, lengths 2 and 3 | buffers that fill, overflow and are shortened |
| filesystems | all sensors are listed at first, two groups compete for `/`, of which one is taken for `/data` until its mount sensor is read |

`CHECK_DEADLOCK FALSE` is set where the system may stop: servers that are not
started again, a clock that has reached its bound, a metric without sensors
whose timers have run.

### Fairness

Assumed is only what the program's own scheduling gives. Qt's event loop fires a
timer that runs: weak fairness of polls, timeouts, deadlines and, where a run
says so (`AllTimersSpec`), of discovery and retry. A process that can take its
next system call takes it, `accept` and `recv` have timeouts, and systemd
restarts a service that failed: weak fairness of `ServerStep` and `Restart`, and
of `ServiceStep`, whose `recv` and `sendall` time out. A script goes on to its next command
(`InstallerStep`), and after one that failed the user runs a script once more
(`Rerun`), as `install.sh:191` asks; which, and of which version, is left open.
Nothing is assumed of users, clients, Plasma's sensors or the backend: a widget's
liveness holds against a backend that never answers.

## Findings

* **`UnaskedAnswer`.** A second widget takes the answer to the first for an
  unexpected one and says *Backend unavailable*.
* **`ActiveSocket`.** Starts that overlap, or a stop that overlaps a start, can
  unlink the socket of a server that goes on serving; nobody can reach it then.
  What is unlinked is whatever the path names by then: a foreign file that came
  after the look goes the same way, which is why `ForeignFileIsKept` is about one that
  comes while no server is between its look and its unlink. With starts and stops one after the other it cannot happen
  (`ServingIsReachable`, proved).
* **`RateSettling`.** With a refresh interval above 1.5 s a counter that moves all
  the time is settled to zero between two reads.
* **`StuckLoading`.** Sources that leave with a reset of the sensor tree leave the
  metric loading; the deadline that would say *Unavailable* is not started again.
* **`StaleTemperature`.** The loss of a sensor that is not selected is ignored and
  its sample kept; when the selected one is lost too, that sample is selected and
  shown for ever, since an available metric neither retries nor has a deadline.
* **`WidgetSelectsIndexZero`.** A device for which NVML gives no handle is left
  out of the list, and the widget takes the only entry of a list whatever its
  index: with the first of two devices lost it shows the second.
* **`MixedRelease`.** The validation compares the plasmoid's version with `VERSION`,
  but not that of the backend: when the tree is edited while a release is built, a
  bundle named for one version carries the backend of another, is approved, and is
  installed.

Four more came up while modelling, of which no text says otherwise: a change of
the sort mode while a request is out drops the refresh it asks for and shows the
old rows under the new mode until the next poll (`SortModeTakesEffect`: the poll
repairs it); a failure between the removal of the old backend from its place and the check of
the service loses the old backend (`install.sh:129` to `:170`), which the next
run repairs (`RerunCompletes`); `build-release.sh:110` sorts the checksums by the
locale while `validate-release.py:176` asks for the order of code points; and
`dist/` is removed before a build, not replaced atomically as
`CONTRIBUTING.md:175` has it.

## Theorems

All proofs are checked by TLAPS to the last leaf, from the named assumptions on
the constants alone (`NamesAssumption`, `WidgetsAssumption`, …), which TLC
evaluates for every instance.

| Module | Proved for all constants | The inductive invariant |
|---|---|---|
| `LocalSocketClient_proofs` | timeout covers request; an answer is for the pending request; the bridge alone implements `RequestLine` (safety) | types, and that a connection is open only while busy and carries the pending request |
| `BackendProvider_proofs` | types; `InFlightMatchesBridge`; `QueueIsCoalesced`; the refinement of `RequestLine` (safety); hidden sections stay empty; shown data is bounded; the fallback is sticky | `LinkInv` ties each `inFlight` to the bridge's `pending`; it is needed since an answer is interpreted by `inFlight` while the line is the bridge's. `ShownInv` adds that queues hold nothing for hidden sections. `Sticky`: after the bounded command was rejected it is not what is in flight, which only a failure of the bridge, with nothing in flight then, forgets |
| `BackendParts_proofs` | *Server*: types; a foreign file is kept if it came while nobody was about to unlink; a clean exit leaves no file; serving is reachable and the path a `RequestLine`, if starts and stops do not overlap; a stop only leads on. *Service*: types; an answer is that of the line; NVML calls are covered; entries are of their device; each step of the server takes a client onward. *Parts*: each part behaves as its own specification says, and `PartTypeOK` | `Undisturbed`: the path is foreign and nobody is between its look and its unlink, which no step ends. `SerialInv`: who is past its probe is alone. `ReadInv`: by `ending`, what was returned is the line or a beginning of it, and the response is owed to that; `PieceOfLine` then decides whether a beginning may count as the line. `NvmlInv` ties `held` to `provider` by stage. `EntriesInv`: entries were read in the order of the indices |
| `ProcessSampler_proofs` | a rate spans one process; the baseline is the last scan; an answer is the top of its order though it was cut before | `SamplerInv` dates every sample by the scan that took it, and keeps the entries finite. The order of the entries compares quotients by cross-multiplication, which is transitive because time has passed over each (`CrossTransitive`); a cut of a cut is then the shorter cut (`CutTwice`) |
| `Delivery_proofs` | *Release*: types; a copy damaged once at most that is accepted is as the build left it, its plasmoid and `VERSION` of the version in its name; while the sums are whole any number of damages is found. *Installer*: types; a rollback restores; what is reported is what is there; a script goes one way | `ReleaseInv`: a whole bundle is one of the present `dist/` and label, what is approved is sound, and a copy differs from it by its damages only. `InstallerInv`: `FoundInv` says where the old backend and unit file are at each step, `PlacedInv` which of the new version is in place |
| `RateSensors_proofs` | types; whatever is listed, the choice counts no byte twice; nor do the rates shown, at any time; they match the state; a loss has its deadline armed; a counter that moves is not settled, if `Refresh < SettleAge` | `IInv`: the selection is disjoint, and what is shown is part of a disjoint selection. `TimedInv`: a loss that is not resolved leaves the metric loading with the deadline running. `SteadyIsFresh`: the sample of a counter that moved and could be read ever since is not older than `Refresh` |
| `WidgetParts_proofs` | *Temperature*: types; the best reading is shown. *Filesystems*: types; the rows are current. *Both*: a loss has its deadline armed. *Parts*: `PartTypeOK` | the properties themselves. The heart of the first is `SelectionIsBest`: a selection among valid samples is not empty and of one kind; existence of a first sample needs that the strict subsets of finite sets are well-founded. Of the second, `WinnerIsBest` (the same argument for the groups of a mount) and `FirstMounts`: the mounts that have fewer than the limit before them come first and are as many as may be shown; rows updated in place are then those built anew (`UpdatedRowsAreCurrent`, `KeptRowsAreCurrent`) |
| `MetricHistory_proofs` | histories: types (and so the bound of every buffer); absent series are empty; the newest sample is shown; an update takes one sample at most. Load: types; what is shown is of the preferred source | `Consistent`, kept by each assignment (`SetValueKeeps`, `SetStateKeeps`), from which every refresh follows. `LoadInv` adds that a complete pair of bytes has been selected, without which the fallback timer could replace it |

Two hypotheses are worth knowing. `AcceptedIsAlwaysAsBuilt` is about a copy with
one damage: with two, `SHA256SUMS` may have lost the line of the file that is
damaged, and nothing asks that each file has a line. `SteadyCountersAreNeverSettled`
assumes that a moved counter is read again before its sample has the age that
settling asks for, as it is at the default interval of 1000 ms; `RateSettling`
shows what happens otherwise.

Only model-checked: all liveness and everything under fairness, `RerunCompletes`
included. Of some of it the safe half is proved: what a `RequestLine` promises but
for its fairness (`OneRequestAtATime`, `ServesOneAtATime`), that a loss has its
deadline armed (`LossIsResolved`: what is left is that a timer that runs fires),
and that serving a client only goes onward, through stages, bytes and devices of which
there are finitely many (`ClientIsLetGo`: what is left is that the server runs), that
a server that was told to stop is at most 13 of its own steps from its end
(`StopIsObeyed`), and that a script is at most 16 commands from its own
(`RerunCompletes`: what is left is that it runs and is run again).
Of `ConnectionsSettle`, `ServiceComesBack`, `QueuedRequestsMove` and
`SortModeTakesEffect` nothing but their parts' invariants is. Proved without being a
property of a run: `TimeoutCoversRequest`, `QueueIsCoalesced`, `OneRequestOut`,
`WholeSumsFindAnyDamage`, `OutcomeIsTold` and `PartsBehave`.

## Limits

Not modelled: the unused process provider, views, configuration pages, the translation helper and the
check of its catalogs, the development installers and the native build, which
change nothing that the rest reads but the unit file (`ChangeUnit`). The
encoding of answers and the log are data. External, modelled by how the code
uses them: QLocalSocket and its timers, the kernel's socket path and queue,
systemd, psutil, NVML, kpackagetool, Plasma's sensors. A driver call that never
returns is not in the model: NVML has no timeout, and neither has the code.

Three hazards are in the model without a property: a CPU or memory number that
nothing follows stays, also in front of a later candidate; a filesystem value that is
dropped because the sensor's last value before its loss was recent; and receive
and transmit histories that do not have the same length. No text of the
repository says what should happen, and the second depends on when Plasma
repeats a value.

## Plan

The order was: scheduler and bridge, because every process and GPU value passes
them; the server, where processes race; the sampler, whose numbers depend on the
past; the metrics provider's groups, rates first, CPU and memory last; histories; then what the
server does with one client, the GPU provider, the installer and the release. Next:

1. New parts join `MCWidgetParts` or `MCBackendParts` where they do not act on
   the others, so that a run stays one question of the system.
2. Proofs: the safe half of the liveness that has none yet, as for `ClientIsLetGo`:
   that a queued request is not overtaken for ever (`QueuedRequestsMove`), that a
   connection only moves to the head of its queue (`ConnectionsSettle`), and that
   nothing keeps a killed service from starting but a foreign file
   (`ServiceComesBack`).
