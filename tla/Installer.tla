------------------------------ MODULE Installer ------------------------------
(***************************************************************************)
(* What install.sh and uninstall.sh of the release bundle do to a user's   *)
(* files, step by step, where a step is what can fail or be interrupted on *)
(* its own.  Both scripts stop at the first command that fails (set -e);   *)
(* the EXIT trap then removes what the installer put aside.  A SIGKILL     *)
(* skips the trap, but leaves the same: the names have the script's pid,   *)
(* and no later run looks for them.                                        *)
(***************************************************************************)
EXTENDS Naturals, FiniteSets

CONSTANTS
  Versions,      \* bundles that the user may run
  MaxTroubles    \* bound: commands that fail and scripts that are cut short

ASSUME InstallerAssumption ==
  /\ {"none", "broken", "development", "foreign"} \cap Versions = {}
  /\ MaxTroubles \in Nat

VARIABLES
  disk,       \* whose widget, backend, catalog and unit file are installed
  enabled,    \* the unit is enabled
  step,       \* the next step, "idle" when no script runs
  version,    \* of the bundle that runs or ran last
  kept,       \* the script's own: NEW_BACKEND, OLD_BACKEND and OLD_UNIT
  before,     \* disk as the script found it
  outcome,    \* how the last script ended, "none" while it runs
  troubles

installerVars == <<disk, enabled, step, version, kept, before, outcome, troubles>>

Nothing == [new |-> "none", old |-> "none", unit |-> "none"]

\* One without the markers of the two installers is foreign; a backend whose
\* removal was cut short is broken.
Units == Versions \cup {"none", "development", "foreign"}
Backends == Versions \cup {"none", "broken"}
Disks == [widget : Versions \cup {"none"}, backend : Backends,
          catalog : Versions \cup {"none"}, unit : Units]

InstallerInit ==
  /\ disk = [widget |-> "none", backend |-> "none", catalog |-> "none", unit |-> "none"]
  /\ enabled = FALSE
  /\ step = "idle" /\ version \in Versions
  /\ kept = Nothing /\ before = disk /\ outcome = "none" /\ troubles = 0

At(s) == step = s
Then(s) == step' = s /\ UNCHANGED <<version, before, outcome, troubles>>

\* The script ends; its trap, if it got that far, leaves nothing of its own.
Ends(how) ==
  /\ step' = "idle" /\ outcome' = how /\ kept' = Nothing
  /\ UNCHANGED <<version, before>>

Put(part, value) == disk' = [disk EXCEPT ![part] = value]

Trouble == troubles < MaxTroubles /\ troubles' = troubles + 1

----------------------------------------------------------------------------
(* The user.                                                               *)

Run(v, first) ==
  /\ At("idle")
  /\ step' = first /\ version' = v /\ before' = disk /\ outcome' = "none"
  /\ UNCHANGED <<disk, enabled, kept, troubles>>

\* A developer, or the user, has a unit of that name of another origin; the
\* user may also take it away, and enable it or not.
ChangeUnit ==
  /\ At("idle")
  /\ \E unit \in {"none", "development", "foreign"} : Put("unit", unit)
  /\ enabled' \in BOOLEAN
  /\ UNCHANGED <<step, version, kept, before, outcome, troubles>>

----------------------------------------------------------------------------
(* install.sh.                                                             *)

\* Payload, commands, Plasma, psutil, user session and checksums.
CheckBundle ==
  /\ At("check")
  /\ Then("widget")
  /\ UNCHANGED <<disk, enabled, kept>>

InstallWidget ==
  /\ At("widget")
  /\ Put("widget", version) /\ Then("refuse")
  /\ UNCHANGED <<enabled, kept>>

RefuseUnit ==
  /\ At("refuse")
  /\ \/ disk.unit = "foreign" /\ Ends("refused") /\ UNCHANGED troubles
     \/ disk.unit # "foreign" /\ Then("save") /\ UNCHANGED kept
  /\ UNCHANGED <<disk, enabled>>

SaveUnit ==
  /\ At("save")
  /\ kept' = [kept EXCEPT !.unit = disk.unit]
  /\ Then("stage")
  /\ UNCHANGED <<disk, enabled>>

\* The archive is checked, unpacked and copied next to its destination.
StageBackend ==
  /\ At("stage")
  /\ kept' = [kept EXCEPT !.new = version]
  /\ Then("aside")
  /\ UNCHANGED <<disk, enabled>>

\* Mutant: mv without asking whether there is a backend.
MoveAsideAlways ==
  /\ At("aside") /\ disk.backend # "none"
  /\ kept' = [kept EXCEPT !.old = disk.backend]
  /\ Put("backend", "none") /\ Then("swap")
  /\ UNCHANGED enabled

MoveAside ==
  /\ At("aside")
  /\ kept' = [kept EXCEPT !.old = disk.backend]
  /\ Put("backend", "none") /\ Then("swap")
  /\ UNCHANGED enabled

SwapIn ==
  /\ At("swap")
  /\ Put("backend", kept.new)
  /\ kept' = [kept EXCEPT !.new = "none"]
  /\ Then("catalog")
  /\ UNCHANGED enabled

InstallCatalog ==
  /\ At("catalog")
  /\ Put("catalog", version) /\ Then("unit")
  /\ UNCHANGED <<enabled, kept>>

\* Made next to its destination and moved over it.
WriteUnit ==
  /\ At("unit")
  /\ Put("unit", version) /\ Then("activate")
  /\ UNCHANGED <<enabled, kept>>

\* The five systemctl commands.  The unit is of type simple: they succeed once
\* the process is forked, whatever becomes of it.
Activate ==
  /\ At("activate")
  /\ enabled' = TRUE
  /\ Then("discard")
  /\ UNCHANGED <<disk, kept>>

\* One of them fails, before or after the unit was enabled.
ActivationFails ==
  /\ At("activate") /\ Trouble
  /\ enabled' \in {enabled, TRUE}
  /\ step' = "removeNew"
  /\ UNCHANGED <<disk, version, kept, before, outcome>>

RemoveNew ==
  /\ At("removeNew")
  /\ Put("backend", "none") /\ Then("moveBack")
  /\ UNCHANGED <<enabled, kept>>

\* Mutant: the old backend was thrown away before the unit was tried.
MoveNothingBack ==
  /\ At("moveBack")
  /\ Then("removeUnit")
  /\ UNCHANGED <<disk, enabled, kept>>

MoveBack ==
  /\ At("moveBack")
  /\ Put("backend", kept.old)
  /\ kept' = [kept EXCEPT !.old = "none"]
  /\ Then("removeUnit")
  /\ UNCHANGED enabled

RemoveUnit ==
  /\ At("removeUnit")
  /\ Put("unit", "none") /\ Then("restoreUnit")
  /\ UNCHANGED <<enabled, kept>>

\* Whether the unit was enabled is not restored.
RestoreUnit ==
  /\ At("restoreUnit")
  /\ Put("unit", kept.unit)
  /\ Ends("rolledBack")
  /\ UNCHANGED <<enabled, troubles>>

DiscardOld ==
  /\ At("discard")
  /\ kept' = [kept EXCEPT !.old = "none"]
  /\ Then("verify")
  /\ UNCHANGED <<disk, enabled>>

\* The socket appears, has its mode and answers a ping.
Verify ==
  /\ At("verify")
  /\ Ends("done")
  /\ UNCHANGED <<disk, enabled, troubles>>

----------------------------------------------------------------------------
(* uninstall.sh.                                                           *)

\* Without a unit file the service is not disabled either.
DisableUnit ==
  /\ At("disable")
  /\ \/ disk.unit = "foreign" /\ Ends("refused") /\ UNCHANGED <<enabled, troubles>>
     \/ disk.unit = "none" /\ Then("dropBackend") /\ UNCHANGED <<enabled, kept>>
     \/ /\ disk.unit \notin {"foreign", "none"}
        /\ enabled' \in {FALSE, enabled}
        /\ Then("dropUnit")
        /\ UNCHANGED kept
  /\ UNCHANGED disk

DropUnit == At("dropUnit") /\ Put("unit", "none") /\ Then("dropBackend") /\ UNCHANGED <<enabled, kept>>
DropBackend == At("dropBackend") /\ Put("backend", "none") /\ Then("dropCatalog") /\ UNCHANGED <<enabled, kept>>
DropCatalog == At("dropCatalog") /\ Put("catalog", "none") /\ Then("dropWidget") /\ UNCHANGED <<enabled, kept>>
DropWidget == At("dropWidget") /\ Put("widget", "none") /\ Ends("removed") /\ UNCHANGED <<enabled, troubles>>

----------------------------------------------------------------------------
InstallStep ==
  \/ CheckBundle \/ InstallWidget \/ RefuseUnit \/ SaveUnit \/ StageBackend \/ MoveAside
  \/ SwapIn \/ InstallCatalog \/ WriteUnit \/ Activate \/ DiscardOld \/ Verify
  \/ RemoveNew \/ MoveBack \/ RemoveUnit \/ RestoreUnit

UninstallStep == DisableUnit \/ DropUnit \/ DropBackend \/ DropCatalog \/ DropWidget

\* A command fails, or the script is interrupted, in whatever step; the removal
\* of a directory may have begun.
Breaks ==
  /\ ~At("idle") /\ Trouble
  /\ Ends("failed")
  /\ \/ UNCHANGED disk
     \/ step \in {"removeNew", "dropBackend"} /\ disk.backend # "none" /\ Put("backend", "broken")
  /\ UNCHANGED enabled

InstallerStep == InstallStep \/ UninstallStep

InstallerNext ==
  \/ InstallerStep \/ ActivationFails \/ Breaks \/ ChangeUnit
  \/ \E v \in Versions, first \in {"check", "disable"} : Run(v, first)

InstallerSpec == InstallerInit /\ [][InstallerNext]_installerVars

\* The user runs a script that failed once more, as it says.
Rerun ==
  /\ outcome \in {"failed", "rolledBack"}
  /\ \E v \in Versions, first \in {"check", "disable"} : Run(v, first)

----------------------------------------------------------------------------
(* Properties.                                                             *)

InstallerTypeOK ==
  /\ disk \in Disks /\ before \in Disks
  /\ enabled \in BOOLEAN /\ version \in Versions
  /\ kept \in [new : Backends, old : Backends, unit : Units]
  /\ outcome \in {"none", "failed", "rolledBack", "done", "removed", "refused"}
  /\ troubles \in 0 .. MaxTroubles

\* An installation that the script itself undoes leaves the backend and the
\* unit file that it found, whatever earlier runs left behind.
RollbackRestores ==
  [][outcome # "rolledBack" /\ outcome' = "rolledBack" =>
       disk'.backend = before.backend /\ disk'.unit = before.unit]_installerVars

Installed ==
  /\ disk = [widget |-> version, backend |-> version, catalog |-> version, unit |-> version]
  /\ enabled

\* Whatever step a script failed or was interrupted at, running one again gets
\* to the whole of a version or to none, unless the unit is somebody else's.
RerunCompletes ==
  outcome \in {"failed", "rolledBack"} ~>
    \/ outcome = "done" /\ Installed
    \/ outcome = "removed" /\ disk.backend = "none" /\ disk.widget = "none"
    \/ outcome = "refused"
============================================================================
