--------------------------- MODULE MCBackendParts ---------------------------
(***************************************************************************)
(* Five parts around the backend that do not act on one another: processes *)
(* on one socket path, the process sampler, the service of one client      *)
(* after the other, the installer, and the release build.  A behaviour     *)
(* follows one of them, so that one run of TLC checks all five.  Of the    *)
(* processes there are two bounds: several that meet no client but each    *)
(* other's probes ("server"), and the service alone with a queue of        *)
(* clients ("crowd").                                                      *)
(***************************************************************************)
EXTENDS BackendServer, ProcessSampler, ClientService, Installer, Release, TLC

CONSTANTS Parts, one   \* the parts followed; a member of Versions and Releases

VARIABLE part

partVars == <<part, serverVars, samplerVars, serviceVars, installerVars, releaseVars>>

\* Lines around the limit of MaxRequestBytes, and one for each check.
Line(size, core, text, command, keys, sort, limit, integer) ==
  [size |-> size, core |-> core, text |-> text, command |-> command, keys |-> keys,
   sort |-> sort, limit |-> limit, limitIsInteger |-> integer]
Plain(size, command) == Line(size, 2, "object", command, {}, "cpu", 0, TRUE)
Ranked(sort, limit, integer) ==
  Line(2, 2, "object", "processes", {"sort", "limit"}, sort, limit, integer)
SomeLines ==
  {Plain(2, "ping"), Plain(3, "gpu"), Plain(4, "ping"), Plain(5, "snapshot"),
   Plain(2, "reboot"), Line(2, 2, "object", "ping", {"other"}, "cpu", 0, TRUE),
   Ranked("memory", 2, TRUE), Ranked("name", 1, TRUE),
   Ranked("cpu", 3, TRUE), Ranked("cpu", 1, FALSE),
   Line(0, 0, "blank", "ping", {}, "cpu", 0, TRUE),
   Line(3, 3, "notJson", "gpu", {}, "cpu", 0, TRUE),
   Line(2, 2, "tooDeep", "ping", {}, "cpu", 0, TRUE),
   Line(2, 1, "noCommand", "ping", {}, "cpu", 0, TRUE)}

\* One with every function, and an old one.
TwoLibraries == {Metrics, {"name", "memory"}}

\* Readings at and beyond the edges of their ranges.
Memory(used, total) == [used |-> used, total |-> total]
TwoDevices ==
  0 :> ("name" :> {""} @@ "load" :> {100} @@
        "memory" :> {Memory(0, 0)} @@ "heat" :> {150}) @@
  1 :> ("name" :> {"RTX"} @@ "load" :> {101} @@
        "memory" :> {Memory(3, 2), Memory(4, 4)} @@ "heat" :> {151})

----------------------------------------------------------------------------
\* A part that is not followed stays as it is.
Init ==
  /\ part \in Parts
  /\ ServerInit /\ SamplerInit /\ ServiceInit /\ InstallerInit /\ ReleaseInit
  /\ part \notin {"server", "crowd"} => path = NoFile
  /\ part # "service" => client.line = Plain(2, "ping")
  /\ part # "installer" => version = one
  /\ part # "release" => tree.version = one

ServerIdle == UNCHANGED serverVars
SamplerIdle == UNCHANGED samplerVars
ServiceIdle == UNCHANGED serviceVars
InstallerIdle == UNCHANGED installerVars
ReleaseIdle == UNCHANGED releaseVars

Follow(p) == part = p /\ UNCHANGED part
AtServer == (Follow("server") \/ Follow("crowd"))
            /\ SamplerIdle /\ ServiceIdle /\ InstallerIdle /\ ReleaseIdle
AtSampler == Follow("sampler") /\ ServerIdle /\ ServiceIdle /\ InstallerIdle /\ ReleaseIdle
AtService == Follow("service") /\ ServerIdle /\ SamplerIdle /\ InstallerIdle /\ ReleaseIdle
AtInstaller == Follow("installer") /\ ServerIdle /\ SamplerIdle /\ ServiceIdle /\ ReleaseIdle
AtRelease == Follow("release") /\ ServerIdle /\ SamplerIdle /\ ServiceIdle /\ InstallerIdle

\* Bound: who takes part.  Nobody is forced to: only a server's own steps, and
\* the service's restart, are fair.
Present ==
  /\ part = "server" => \A c \in Conns : conn'[c] = "unused"
  /\ part = "crowd" => \A s \in Servers \ {Service} : pc'[s] = "off"

Next ==
  \/ AtServer /\ ServerNext /\ Present
  \/ AtSampler /\ SamplerNext
  \/ AtService /\ ServiceNext
  \/ AtInstaller /\ InstallerNext
  \/ AtRelease /\ ReleaseNext

\* Of the service, the script and the user that runs it again, only one can
\* act at a time.
Progress ==
  \/ AtService /\ ServiceStep
  \/ AtInstaller /\ (InstallerStep \/ Rerun)

\* Each part with the fairness of its own specification.
FairSpec ==
  /\ Init /\ [][Next]_partVars
  /\ \A s \in Servers : WF_partVars(AtServer /\ ServerStep(s))
  /\ WF_partVars(AtServer /\ Restart)
  /\ WF_partVars(Progress)

----------------------------------------------------------------------------
PartTypeOK ==
  ServerTypeOK /\ SamplerTypeOK /\ ServiceTypeOK /\ InstallerTypeOK /\ ReleaseTypeOK
=============================================================================
