--------------------------- MODULE Delivery_proofs ---------------------------
(***************************************************************************)
(* Proofs about how the program reaches a user: Release.tla, for all       *)
(* versions and any number of damages, and Installer.tla, for all versions *)
(* and any number of failures.                                             *)
(*                                                                         *)
(* A bundle that is whole is one with the dist/ and the label of the       *)
(* moment (ReleaseInv), because dist/ changes only while there is none;    *)
(* what was approved is still there because a build withdraws the approval *)
(* first.  A user's copy differs from it by lost or damaged files and lost *)
(* lines of sums only.                                                     *)
(*                                                                         *)
(* InstallerInv follows what install.sh found through the three places     *)
(* where it is during a run: on disk, among the script's own files, and on *)
(* disk again.                                                             *)
(***************************************************************************)
EXTENDS Installer, Release, TLAPS

----------------------------------------------------------------------------
(* Release.tla.                                                            *)
\* The steps of a build that replace something in dist/.
Making == Payload \cup {"bundle"}
Building == Making \cup {"sums", "validate"}

\* What is approved: a whole bundle, all clean, its plasmoid of the version of
\* its label.
Sound ==
  /\ bundle.state = "whole"
  /\ \A f \in Payload : dist[f] \in Releases
  /\ dist["plasmoid"] = label

\* A copy b of the bundle, as it may be after some damages.
CopyOf(b, damages) ==
  /\ b.label = label
  /\ \A f \in Payload : b.files[f] \in {dist[f], "none", "damaged"}
  /\ b.sums \subseteq bundle.sums
  /\ damages = 0 => b.files = dist /\ b.sums = bundle.sums
  /\ damages = 1 => b.files = dist \/ b.sums = bundle.sums

ReleaseInv ==
  /\ ReleaseTypeOK
  /\ job \in Making => bundle.state = "none"
  /\ job \in Building => ~approved
  /\ bundle.state = "whole" =>
       bundle.files = dist /\ bundle.sums = Sums(dist) /\ bundle.label = label
  /\ approved => Sound
  /\ job = "delivered" => approved /\ CopyOf(copy.bundle, copy.damages)

\* The sums of a list of files are pairs of its names and contents.
LEMMA SumsType ==
  ASSUME NEW files \in [Payload -> Contents]
  PROVE  /\ Sums(files) \subseteq Payload \X Contents
         /\ \A f \in Payload : files[f] # "none" => <<f, files[f]>> \in Sums(files)
BY DEF Sums

\* What is left of sums that are cut short are some of them.
LEMMA BeginningsAreParts ==
  ASSUME NEW sums, NEW begun \in Beginnings(sums)
  PROVE  begun \subseteq sums
BY DEF Beginnings

\* There is nothing at first.
LEMMA ReleaseStarts == ReleaseInit => ReleaseInv
<1> SUFFICES ASSUME ReleaseInit PROVE ReleaseInv
  OBVIOUS
<1>1. EmptyDist \in [Payload -> Contents]
  BY DEF EmptyDist, Contents
<1>2. tree \in Trees /\ label \in Releases
  BY DEF ReleaseInit, Trees, Faults
<1>3. NoBundle \in Bundles
  BY <1>1, <1>2 DEF NoBundle, Bundles
<1>4. /\ bundle = NoBundle /\ job = "idle" /\ approved = FALSE /\ dist = EmptyDist
      /\ manifest = {} /\ copy.bundle = NoBundle /\ copy.damages = 0
  BY DEF ReleaseInit
<1>5. ReleaseTypeOK
  <2>1. approved \in BOOLEAN /\ job \in Payload \cup {"idle", "bundle", "sums", "validate", "delivered"}
    BY <1>4
  <2>2. 0 \in 0 .. MaxDamage
    BY ReleaseAssumption
  <2>3. QED
    BY <1>1, <1>2, <1>3, <1>4, <2>1, <2>2 DEF ReleaseTypeOK
<1>6. bundle.state = "none"
  BY <1>4 DEF NoBundle
<1>7. QED
  BY <1>4, <1>5, <1>6 DEF ReleaseInv, Making, Building, Payload

\* A copy that is damaged once more is still a copy, and one whose first damage
\* this is has either its files or its sums as they were.
LEMMA DamageStep ==
  ASSUME ReleaseInv, Damage
  PROVE  ReleaseInv'
<1> DEFINE b == copy.bundle
<1>1. /\ job = "delivered" /\ copy.damages < MaxDamage /\ copy.damages \in Nat
      /\ UNCHANGED <<tree, job, label, dist, manifest, bundle, approved>>
      /\ b \in Bundles /\ CopyOf(b, copy.damages) /\ MaxDamage \in Nat
  BY ReleaseAssumption DEF Damage, ReleaseInv, ReleaseTypeOK
<1>2. SUFFICES /\ copy'.bundle \in Bundles /\ copy'.damages \in 0 .. MaxDamage
               /\ CopyOf(copy'.bundle, copy'.damages)
  BY <1>1 DEF ReleaseInv, ReleaseTypeOK, Sound, CopyOf
<1>3. ASSUME NEW f \in Payload, NEW content \in {"none", "damaged"},
             copy' = [bundle |-> [b EXCEPT !.files[f] = content], damages |-> copy.damages + 1]
      PROVE  /\ copy'.bundle \in Bundles /\ copy'.damages \in 0 .. MaxDamage
             /\ CopyOf(copy'.bundle, copy'.damages)
  <2>1. content \in Contents
    BY DEF Contents
  <2> DEFINE files == [b.files EXCEPT ![f] = content]
  <2>2. b.files \in [Payload -> Contents]
    BY <1>1 DEF Bundles
  <2>3. files \in [Payload -> Contents] /\ \A g \in Payload : files[g] \in {b.files[g], content}
    BY <2>1, <2>2
  <2>4. copy'.damages = copy.damages + 1 /\ copy'.bundle = [b EXCEPT !.files = files]
    BY <1>1, <1>3 DEF Bundles
  <2> HIDE DEF files, b
  <2>5. /\ copy'.bundle \in Bundles /\ copy'.bundle.files = files
        /\ copy'.bundle.sums = b.sums /\ copy'.bundle.label = b.label
    BY <1>1, <2>3, <2>4 DEF Bundles
  <2>6. QED
    BY <1>1, <2>3, <2>4, <2>5 DEF CopyOf
<1>4. ASSUME NEW sums \in Beginnings(b.sums),
             copy' = [bundle |-> [b EXCEPT !.sums = sums], damages |-> copy.damages + 1]
      PROVE  /\ copy'.bundle \in Bundles /\ copy'.damages \in 0 .. MaxDamage
             /\ CopyOf(copy'.bundle, copy'.damages)
  <2>1. sums \subseteq b.sums
    BY BeginningsAreParts
  <2>2. copy'.damages = copy.damages + 1 /\ copy'.bundle = [b EXCEPT !.sums = sums]
    BY <1>4
  <2> HIDE DEF b
  <2>3. /\ copy'.bundle \in Bundles /\ copy'.bundle.files = b.files
        /\ copy'.bundle.sums = sums /\ copy'.bundle.label = b.label
    BY <1>1, <2>1, <2>2 DEF Bundles
  <2>4. QED
    BY <1>1, <2>1, <2>2, <2>3 DEF CopyOf
<1>5. QED
  BY <1>3, <1>4 DEF Damage

\* A file is made, or part of one, while there is no bundle.
LEMMA MakeStep ==
  ASSUME ReleaseInv, job \in Payload, NEW content \in Contents,
         dist' = [dist EXCEPT ![job] = content], job' \in Making \cup {"idle"},
         UNCHANGED <<tree, label, manifest, bundle, approved, copy>>
  PROVE  ReleaseInv'
<1>1. dist' \in [Payload -> Contents] /\ bundle.state = "none" /\ ~approved
  BY DEF ReleaseInv, ReleaseTypeOK, Making, Building
<1>2. ReleaseTypeOK'
  BY <1>1 DEF ReleaseInv, ReleaseTypeOK, Making
<1>3. job' # "delivered"
  BY DEF Making, Payload
<1>4. QED
  BY <1>1, <1>2, <1>3 DEF ReleaseInv

\* What a file is made of is a content.
LEMMA MadeType ==
  ASSUME ReleaseInv, NEW f
  PROVE  Made(f) \in Contents
BY DEF Made, Contents, ReleaseInv, ReleaseTypeOK, Trees

\* Every step of developers, builds, checks and users keeps the invariant.
LEMMA ReleaseStep == ReleaseInv /\ [ReleaseNext]_releaseVars => ReleaseInv'
<1> SUFFICES ASSUME ReleaseInv, [ReleaseNext]_releaseVars PROVE ReleaseInv'
  OBVIOUS
<1>1. CASE Edit
  BY <1>1 DEF Edit, ReleaseInv, ReleaseTypeOK, Sound, CopyOf
<1>2. CASE StartBuild
  <2>1. EmptyDist \in [Payload -> Contents] /\ tree.version \in Releases
    BY DEF EmptyDist, Contents, ReleaseInv, ReleaseTypeOK, Trees
  <2>2. bundle' = [state |-> "none", files |-> EmptyDist, sums |-> {}, label |-> tree.version]
    BY <1>2 DEF StartBuild, NoBundle
  <2>3. bundle' \in Bundles /\ bundle'.state = "none"
    BY <2>1, <2>2 DEF Bundles
  <2>4. /\ tree' = tree /\ label' = tree.version /\ job' = "plasmoid" /\ dist' = EmptyDist
        /\ manifest' = {} /\ approved' = FALSE /\ copy' = copy
    BY <1>2 DEF StartBuild
  <2>5. ReleaseTypeOK'
    <3>1. approved' \in BOOLEAN
      BY <2>4
    <3>2. QED
      BY <2>1, <2>3, <2>4, <3>1 DEF ReleaseInv, ReleaseTypeOK, Payload
  <2>6. QED
    BY <2>3, <2>4, <2>5 DEF ReleaseInv
<1>3. CASE MakePlasmoid
  <2>1. job = "plasmoid" /\ UNCHANGED <<tree, label, manifest, bundle, approved, copy>>
    BY <1>3 DEF MakePlasmoid, MakeFile
  <2>2. \E content \in Contents : dist' = [dist EXCEPT ![job] = content]
    BY <1>3, <2>1, MadeType DEF MakePlasmoid, MakeFile, Contents
  <2>3. job' \in Making \cup {"idle"} /\ job \in Payload
    BY <1>3, <2>1 DEF MakePlasmoid, MakeFile, Making, Payload
  <2>4. QED
    BY <2>1, <2>2, <2>3, MakeStep
<1>4. CASE MakeBackend \/ CopyTexts \/ MakeCatalog
  <2>1. /\ job \in Payload /\ UNCHANGED <<tree, label, manifest, bundle, approved, copy>>
        /\ dist' = [dist EXCEPT ![job] = Made(job)] /\ job' \in Making
    BY <1>4 DEF MakeBackend, CopyTexts, MakeCatalog, MakeFile, Making, Payload
  <2>2. Made(job) \in Contents
    BY MadeType
  <2>3. QED
    BY <2>1, <2>2, MakeStep
<1>5. CASE MakeBundle
  <2>1. /\ bundle' = [state |-> "whole", files |-> dist, sums |-> Sums(dist), label |-> label]
        /\ job = "bundle" /\ job' = "sums"
        /\ UNCHANGED <<tree, label, dist, manifest, approved, copy>>
    BY <1>5 DEF MakeBundle, BundleSums
  <2>2. dist \in [Payload -> Contents] /\ label \in Releases /\ ~approved
    BY <2>1 DEF ReleaseInv, ReleaseTypeOK, Building, Making
  <2>3. bundle' \in Bundles
    BY <2>1, <2>2, SumsType DEF Bundles
  <2>4. ReleaseTypeOK'
    BY <2>1, <2>3 DEF ReleaseInv, ReleaseTypeOK
  <2>5. Sums(dist)' = Sums(dist')
    BY DEF Sums
  <2>6. job' \notin Making /\ job' # "delivered"
    BY <2>1 DEF Making, Payload
  <2>7. QED
    BY <2>1, <2>2, <2>4, <2>5, <2>6 DEF ReleaseInv
<1>6. CASE WriteSums
  <2>1. manifest' \subseteq Payload \X Contents
    BY <1>6, SumsType DEF WriteSums, ReleaseInv, ReleaseTypeOK
  <2>2. Sums(dist)' = Sums(dist')
    BY DEF Sums
  <2>3. QED
    BY <1>6, <2>1, <2>2 DEF WriteSums, ReleaseInv, ReleaseTypeOK, Sound, Building, Making, Payload
<1>7. CASE Validate \/ ReleaseCheck
  <2>1. /\ job' = "idle" /\ UNCHANGED <<tree, label, dist, manifest, bundle, copy>>
        /\ approved' = (SourceIsValid /\ DistIsValid)
    BY <1>7 DEF Validate, ReleaseCheck
  <2>2. approved' \in BOOLEAN
    BY <2>1 DEF SourceIsValid, DistIsValid
  <2>3. approved' => Sound
    BY <2>1 DEF DistIsValid, IsClean, Sound
  <2>4. /\ ReleaseTypeOK'
        /\ job' \notin Building /\ job' # "delivered"
    BY <2>1, <2>2 DEF ReleaseInv, ReleaseTypeOK, Building, Making, Payload
  <2>5. Sums(dist)' = Sums(dist')
    BY DEF Sums
  <2>6. QED
    BY <2>1, <2>3, <2>4, <2>5 DEF ReleaseInv, Sound, Building
<1>8. CASE CutShort
  <2>1. /\ job' = "idle" /\ UNCHANGED <<tree, label, approved, copy>> /\ job \in Building
    BY <1>8 DEF CutShort, ReleaseInv, ReleaseTypeOK, Building, Making
  <2>2. ~approved
    BY <2>1 DEF ReleaseInv
  <2>3. job' \notin Building /\ job' # "delivered"
    BY <2>1 DEF Building, Making, Payload
  <2>4. CASE job \in Payload /\ dist' = [dist EXCEPT ![job] = "partial"] /\ UNCHANGED <<manifest, bundle>>
    <3>1. "partial" \in Contents
      BY DEF Contents
    <3>2. QED
      BY <2>1, <2>4, <3>1, MakeStep
  <2>5. CASE bundle' = [NoBundle EXCEPT !.state = "partial"] /\ UNCHANGED <<dist, manifest>>
    <3>1. bundle' = [state |-> "partial", files |-> EmptyDist, sums |-> {}, label |-> label]
      BY <2>5 DEF NoBundle
    <3>2. EmptyDist \in [Payload -> Contents] /\ label \in Releases
      BY DEF EmptyDist, Contents, ReleaseInv, ReleaseTypeOK
    <3>3. bundle' \in Bundles /\ bundle'.state = "partial"
      BY <3>1, <3>2 DEF Bundles
    <3>4. ReleaseTypeOK'
      BY <2>1, <2>5, <3>3 DEF ReleaseInv, ReleaseTypeOK
    <3>5. QED
      BY <2>1, <2>2, <2>3, <3>3, <3>4 DEF ReleaseInv, Building
  <2>6. CASE manifest' \in Beginnings(Sums(dist)) /\ UNCHANGED <<dist, bundle>>
    <3>1. manifest' \subseteq Payload \X Contents
      BY <2>6, SumsType, BeginningsAreParts DEF ReleaseInv, ReleaseTypeOK
    <3>2. Sums(dist)' = Sums(dist')
      BY DEF Sums
    <3>3. ReleaseTypeOK'
      BY <2>1, <2>6, <3>1 DEF ReleaseInv, ReleaseTypeOK
    <3>4. QED
      BY <2>1, <2>2, <2>3, <2>6, <3>2, <3>3 DEF ReleaseInv, Building
  <2>7. CASE UNCHANGED <<dist, manifest, bundle>>
    <3>1. Sums(dist)' = Sums(dist')
      BY DEF Sums
    <3>2. ReleaseTypeOK'
      BY <2>1, <2>7 DEF ReleaseInv, ReleaseTypeOK
    <3>3. QED
      BY <2>1, <2>2, <2>3, <2>7, <3>1, <3>2 DEF ReleaseInv, Building
  <2>8. QED
    BY <1>8, <2>4, <2>5, <2>6, <2>7 DEF CutShort
<1>9. CASE Download
  <2>1. /\ approved /\ job' = "delivered" /\ copy'.bundle = bundle /\ copy'.damages = 0
        /\ UNCHANGED <<tree, label, dist, manifest, bundle, approved>>
    BY <1>9 DEF Download
  <2>2. CopyOf(bundle, 0)
    BY <2>1 DEF ReleaseInv, Sound, CopyOf
  <2>3. ReleaseTypeOK'
    BY <2>1, ReleaseAssumption DEF ReleaseInv, ReleaseTypeOK
  <2>4. Sums(dist)' = Sums(dist')
    BY DEF Sums
  <2>5. QED
    BY <2>1, <2>2, <2>3, <2>4 DEF ReleaseInv, Sound, CopyOf, Building, Making, Payload
<1>10. CASE Damage
  BY <1>10, DamageStep
<1>11. CASE UNCHANGED releaseVars
  BY <1>11 DEF releaseVars, ReleaseInv, ReleaseTypeOK, Sound, CopyOf, Sums
<1>12. QED
  BY <1>1, <1>2, <1>3, <1>4, <1>5, <1>6, <1>7, <1>8, <1>9, <1>10, <1>11 DEF ReleaseNext

\* Types of the release build.
THEOREM ReleaseTypeCorrect == ReleaseSpec => []ReleaseTypeOK
<1>1. ReleaseInv => ReleaseTypeOK
  BY DEF ReleaseInv
<1>2. QED
  BY <1>1, ReleaseStarts, ReleaseStep, PTL DEF ReleaseSpec

\* What a copy is that an installer accepts: if none of its lines of sums is
\* lost then no file is, and if no file is damaged it does not matter.
LEMMA AcceptedCopy ==
  ASSUME ReleaseInv,
         copy.bundle.files = dist \/ copy.bundle.sums = bundle.sums
  PROVE  AcceptedIsAsBuilt
<1> SUFFICES ASSUME job = "delivered", Accepts(copy.bundle)
             PROVE  /\ \A f \in Payload : copy.bundle.files[f] = dist[f] /\ dist[f] \in Releases
                    /\ \A f \in {"plasmoid", "VERSION"} : dist[f] = copy.bundle.label
  BY DEF AcceptedIsAsBuilt
<1>1. Sound /\ CopyOf(copy.bundle, copy.damages)
  BY DEF ReleaseInv
<1>2. \A f \in Payload : copy.bundle.files[f] = dist[f]
  <2>1. CASE copy.bundle.files = dist
    BY <2>1
  <2>2. CASE copy.bundle.sums = bundle.sums
    <3>1. SUFFICES ASSUME NEW f \in Payload PROVE copy.bundle.files[f] = dist[f]
      OBVIOUS
    <3>2. dist \in [Payload -> Contents] /\ dist[f] # "none" /\ bundle.sums = Sums(dist)
      BY <1>1, ReleaseAssumption DEF ReleaseInv, ReleaseTypeOK, Sound
    <3>3. <<f, dist[f]>> \in copy.bundle.sums
      BY <2>2, <3>2, SumsType
    <3>4. QED
      BY <3>3 DEF Accepts, SumsHold
  <2>3. QED
    BY <2>1, <2>2
<1>3. dist["plasmoid"] = copy.bundle.label
  BY <1>1 DEF Sound, CopyOf
<1>4. dist["VERSION"] = copy.bundle.label
  BY <1>2 DEF Accepts, Payload
<1>5. QED
  BY <1>1, <1>2, <1>3, <1>4 DEF Sound

\* What a user's installer accepts, of a copy with one damage at most, are the
\* files as the build left them, whole and clean, with the plasmoid and VERSION
\* of the version that it is named for, whatever was edited, cut short and
\* checked again before.  Nothing is said of the version of backend and catalog
\* (AcceptedIsOfOneVersion fails).  With two damages it need
\* not: SHA256SUMS may have lost the line of the file that is damaged, and
\* nothing asks that each file has a line.
THEOREM AcceptedIsAlwaysAsBuilt == ReleaseSpec => [](copy.damages <= 1 => AcceptedIsAsBuilt)
<1>1. ReleaseInv => (copy.damages <= 1 => AcceptedIsAsBuilt)
  <2> SUFFICES ASSUME ReleaseInv, copy.damages <= 1 PROVE AcceptedIsAsBuilt
    OBVIOUS
  <2>1. CASE job = "delivered"
    <3>1. copy.damages = 0 \/ copy.damages = 1
      BY DEF ReleaseInv, ReleaseTypeOK
    <3>2. copy.bundle.files = dist \/ copy.bundle.sums = bundle.sums
      BY <2>1, <3>1 DEF ReleaseInv, CopyOf
    <3>3. QED
      BY <3>2, AcceptedCopy
  <2>2. CASE job # "delivered"
    BY <2>2 DEF AcceptedIsAsBuilt
  <2>3. QED
    BY <2>1, <2>2
<1>2. QED
  BY <1>1, ReleaseStarts, ReleaseStep, PTL DEF ReleaseSpec

\* As long as SHA256SUMS arrives whole, any number of lost and damaged files is
\* found out.
THEOREM WholeSumsFindAnyDamage ==
  ReleaseSpec => [](copy.bundle.sums = bundle.sums => AcceptedIsAsBuilt)
<1>1. ReleaseInv => (copy.bundle.sums = bundle.sums => AcceptedIsAsBuilt)
  BY AcceptedCopy
<1>2. QED
  BY <1>1, ReleaseStarts, ReleaseStep, PTL DEF ReleaseSpec

----------------------------------------------------------------------------
(* Installer.tla.                                                          *)

\* The steps in which what was found is still where it was, except for the
\* widget, or is there again; aside from the unit file, which a copy is kept of.
NotBegun == {"check", "widget", "refuse", "save"}
UnitSaved == {"stage", "aside"}
MovedAside == {"swap", "catalog", "unit", "activate", "removeNew", "moveBack"}
MovedBack == {"removeUnit", "restoreUnit"}
Committed == {"discard", "verify"}
Uninstalling == {"disable", "dropUnit", "dropBackend", "dropCatalog", "dropWidget"}

\* Where the backend and the unit file are that the script found.
FoundInv ==
  /\ step \in NotBegun => disk.backend = before.backend /\ disk.unit = before.unit
  /\ step \in UnitSaved \cup MovedBack => disk.backend = before.backend /\ kept.unit = before.unit
  /\ step \in MovedAside => kept.old = before.backend /\ kept.unit = before.unit

\* What is in place of the version that the script installs, and what is gone
\* of the one that it removes.
PlacedInv ==
  /\ step \in {"refuse", "save"} \cup UnitSaved \cup {"swap", "catalog", "unit", "activate"} \cup Committed =>
       disk.widget = version
  /\ step \in {"aside", "swap"} => kept.new = version
  /\ step \in {"catalog", "unit", "activate"} \cup Committed => disk.backend = version
  /\ step \in {"unit", "activate"} \cup Committed => disk.catalog = version
  /\ step \in {"activate"} \cup Committed => disk.unit = version
  /\ step \in Committed => enabled
  /\ step \in {"dropBackend", "dropCatalog", "dropWidget"} => disk.unit = "none"
  /\ step \in {"dropCatalog", "dropWidget"} => disk.backend = "none"
  /\ step = "dropWidget" => disk.catalog = "none"

InstallerInv ==
  /\ InstallerTypeOK
  /\ step \in {"idle"} \cup NotBegun \cup UnitSaved \cup MovedAside \cup MovedBack \cup Committed \cup Uninstalling
  /\ FoundInv /\ PlacedInv

\* A machine without the program is in order.
LEMMA InstallerStarts == InstallerInit => InstallerInv
<1> SUFFICES ASSUME InstallerInit PROVE InstallerInv
  OBVIOUS
<1>1. disk \in Disks
  BY DEF InstallerInit, Disks, Backends, Units
<1>2. Nothing \in [new : Backends, old : Backends, unit : Units]
  BY DEF Nothing, Backends, Units
<1>3. enabled \in BOOLEAN
  BY DEF InstallerInit
<1>4. 0 \in 0 .. MaxTroubles
  BY InstallerAssumption
<1>5. QED
  BY <1>1, <1>2, <1>3, <1>4
  DEF InstallerInit, InstallerInv, InstallerTypeOK, FoundInv, PlacedInv, NotBegun, UnitSaved,
      MovedAside, MovedBack, Committed, Uninstalling

\* Every step of a script, of what breaks it and of the user keeps the
\* invariant.
LEMMA InstallerKeeps == InstallerInv /\ [InstallerNext]_installerVars => InstallerInv'
<1> SUFFICES ASSUME InstallerInv, [InstallerNext]_installerVars PROVE InstallerInv'
  OBVIOUS
<1> USE DEF InstallerInv, InstallerTypeOK, FoundInv, PlacedInv, NotBegun, UnitSaved, MovedAside,
            MovedBack, Committed, Uninstalling, At, Then, Put, Ends, Disks, Units, Backends
<1>1. CASE CheckBundle \/ InstallWidget \/ RefuseUnit
  BY <1>1 DEF CheckBundle, InstallWidget, RefuseUnit, Nothing
<1>2. CASE SaveUnit \/ StageBackend
  BY <1>2 DEF SaveUnit, StageBackend
<1>3. CASE MoveAside \/ SwapIn
  BY <1>3 DEF MoveAside, SwapIn
<1>4. CASE InstallCatalog \/ WriteUnit
  BY <1>4 DEF InstallCatalog, WriteUnit
<1>5. CASE Activate \/ DiscardOld \/ Verify
  <2>1. CASE Activate
    <3>1. enabled' /\ enabled' \in BOOLEAN
      BY <2>1 DEF Activate
    <3>2. QED
      BY <2>1, <3>1 DEF Activate
  <2>2. CASE DiscardOld \/ Verify
    BY <2>2 DEF DiscardOld, Verify, Nothing
  <2>3. QED
    BY <1>5, <2>1, <2>2
<1>6. CASE RemoveNew \/ MoveBack
  BY <1>6 DEF RemoveNew, MoveBack
<1>7. CASE RemoveUnit \/ RestoreUnit
  BY <1>7 DEF RemoveUnit, RestoreUnit, Nothing
<1>8. CASE DisableUnit
  <2>1. enabled' \in BOOLEAN
    BY <1>8 DEF DisableUnit
  <2>2. CASE step' = "idle"
    BY <1>8, <2>1, <2>2 DEF DisableUnit, Nothing
  <2>3. CASE disk.unit = "none" /\ step' = "dropBackend"
    <3>1. UNCHANGED <<disk, enabled, kept, version, before, outcome, troubles>>
      BY <1>8, <2>3 DEF DisableUnit
    <3>2. QED
      BY <2>1, <2>3, <3>1
  <2>4. CASE step' = "dropUnit"
    <3>1. UNCHANGED <<disk, kept, version, before, outcome, troubles>>
      BY <1>8, <2>4 DEF DisableUnit
    <3>2. QED
      BY <2>1, <2>4, <3>1
  <2>5. QED
    BY <1>8, <2>2, <2>3, <2>4 DEF DisableUnit
<1>9. CASE DropUnit \/ DropBackend \/ DropCatalog \/ DropWidget
  BY <1>9 DEF DropUnit, DropBackend, DropCatalog, DropWidget, Nothing
<1>10. CASE ActivationFails
  <2>1. enabled' \in BOOLEAN
    BY <1>10 DEF ActivationFails
  <2>2. troubles' \in 0 .. MaxTroubles
    BY <1>10, InstallerAssumption DEF ActivationFails, Trouble
  <2>3. QED
    BY <1>10, <2>1, <2>2 DEF ActivationFails
<1>11. CASE Breaks
  BY <1>11, InstallerAssumption DEF Breaks, Trouble, Nothing
<1>12. CASE ChangeUnit
  BY <1>12 DEF ChangeUnit
<1>13. CASE \E v \in Versions, first \in {"check", "disable"} : Run(v, first)
  BY <1>13 DEF Run
<1>14. CASE UNCHANGED installerVars
  BY <1>14 DEF installerVars
<1>15. QED
  BY <1>1, <1>2, <1>3, <1>4, <1>5, <1>6, <1>7, <1>8, <1>9, <1>10, <1>11, <1>12, <1>13, <1>14
  DEF InstallerNext, InstallerStep, InstallStep, UninstallStep

\* Types of the installation.
THEOREM InstallerTypeCorrect == InstallerSpec => []InstallerTypeOK
<1>1. InstallerInv => InstallerTypeOK
  BY DEF InstallerInv
<1>2. QED
  BY <1>1, InstallerStarts, InstallerKeeps, PTL DEF InstallerSpec

\* Only the last step of a rollback tells that it is one, and then everything
\* has been followed back to where the script found it.
THEOREM RollbackAlwaysRestores == InstallerSpec => RollbackRestores
<1>1. InstallerInv /\ [InstallerNext]_installerVars =>
        [outcome # "rolledBack" /\ outcome' = "rolledBack" =>
           disk'.backend = before.backend /\ disk'.unit = before.unit]_installerVars
  <2> SUFFICES ASSUME InstallerInv, InstallerNext, outcome # "rolledBack", outcome' = "rolledBack"
               PROVE  disk'.backend = before.backend /\ disk'.unit = before.unit
    BY DEF installerVars
  <2>1. RestoreUnit
    BY DEF InstallerNext, InstallerStep, InstallStep, UninstallStep, CheckBundle, InstallWidget,
      RefuseUnit, SaveUnit, StageBackend, MoveAside, SwapIn, InstallCatalog, WriteUnit, Activate,
      DiscardOld, Verify, RemoveNew, MoveBack, RemoveUnit, DisableUnit, DropUnit, DropBackend,
      DropCatalog, DropWidget, ActivationFails, Breaks, ChangeUnit, Run, Then, Ends
  <2>2. disk.backend = before.backend /\ kept.unit = before.unit
    BY <2>1 DEF RestoreUnit, At, InstallerInv, FoundInv, MovedBack
  <2>3. QED
    BY <2>1, <2>2 DEF RestoreUnit, Put, InstallerInv, InstallerTypeOK, Disks
<1>2. QED
  BY <1>1, InstallerStarts, InstallerKeeps, PTL DEF InstallerSpec, RollbackRestores

\* A script that says that it is done leaves the whole of its version, enabled;
\* one that says that it removed the program leaves nothing of it.  That a
\* script gets there when run again after any failure is RerunCompletes, which
\* needs fairness.
THEOREM OutcomeIsTold ==
  InstallerSpec =>
    [][/\ outcome # "done" /\ outcome' = "done" => Installed'
       /\ outcome # "removed" /\ outcome' = "removed" =>
            \A part \in {"widget", "backend", "catalog", "unit"} : disk'[part] = "none"]_installerVars
<1> DEFINE Told == /\ outcome # "done" /\ outcome' = "done" => Installed'
                   /\ outcome # "removed" /\ outcome' = "removed" =>
                        \A part \in {"widget", "backend", "catalog", "unit"} : disk'[part] = "none"
<1>1. InstallerInv /\ [InstallerNext]_installerVars => [Told]_installerVars
  <2> SUFFICES ASSUME InstallerInv, InstallerNext PROVE Told
    BY DEF installerVars
  <2>1. ASSUME outcome # outcome', outcome' \in {"done", "removed"}
        PROVE  Verify \/ DropWidget
    BY <2>1 DEF InstallerNext, InstallerStep, InstallStep, UninstallStep, CheckBundle, InstallWidget,
      RefuseUnit, SaveUnit, StageBackend, MoveAside, SwapIn, InstallCatalog, WriteUnit, Activate,
      DiscardOld, RemoveNew, MoveBack, RemoveUnit, RestoreUnit, DisableUnit, DropUnit, DropBackend,
      DropCatalog, ActivationFails, Breaks, ChangeUnit, Run, Then, Ends
  <2>2. CASE Verify
    <3>1. /\ disk.widget = version /\ disk.backend = version /\ disk.catalog = version
          /\ disk.unit = version /\ enabled
      BY <2>2 DEF Verify, At, InstallerInv, PlacedInv, UnitSaved, Committed
    <3>2. disk = [widget |-> version, backend |-> version, catalog |-> version, unit |-> version]
      BY <3>1 DEF InstallerInv, InstallerTypeOK, Disks
    <3>3. Installed
      BY <3>1, <3>2 DEF Installed
    <3>4. Installed'
      BY <2>2, <3>3 DEF Installed, Verify, Ends
    <3>5. QED
      BY <2>2, <3>4 DEF Verify, Ends
  <2>3. CASE DropWidget
    <3>1. disk.unit = "none" /\ disk.backend = "none" /\ disk.catalog = "none"
      BY <2>3 DEF DropWidget, At, InstallerInv, PlacedInv
    <3>2. \A part \in {"widget", "backend", "catalog", "unit"} : disk'[part] = "none"
      BY <2>3, <3>1 DEF DropWidget, Put, InstallerInv, InstallerTypeOK, Disks
    <3>3. QED
      BY <2>3, <3>2 DEF DropWidget, Ends
  <2>4. QED
    BY <2>1, <2>2, <2>3
<1>2. QED
  BY <1>1, InstallerStarts, InstallerKeeps, PTL DEF InstallerSpec

\* How many steps a script is from its end, at most.
StepsToEnd ==
  [check |-> 16, widget |-> 15, refuse |-> 14, save |-> 13, stage |-> 12, aside |-> 11, swap |-> 10,
   catalog |-> 9, unit |-> 8, activate |-> 7, removeNew |-> 6, moveBack |-> 5, removeUnit |-> 4,
   restoreUnit |-> 3, discard |-> 2, verify |-> 1,
   disable |-> 5, dropUnit |-> 4, dropBackend |-> 3, dropCatalog |-> 2, dropWidget |-> 1, idle |-> 0]

\* A script goes one way: each of its commands, whether it works or fails, takes
\* it nearer to its end, nobody else moves it, and it ends with an outcome that
\* is told.  What RerunCompletes adds is that it runs and that the user runs it
\* again.
THEOREM ScriptGoesOneWay ==
  InstallerSpec =>
    [][step # "idle" => /\ StepsToEnd[step'] < StepsToEnd[step]
                        /\ step' = "idle" => outcome' \in {"failed", "rolledBack", "done", "removed", "refused"}
                        /\ step' # "idle" => UNCHANGED <<version, before, outcome>>]_installerVars
<1>1. InstallerInv /\ [InstallerNext]_installerVars =>
        [step # "idle" => /\ StepsToEnd[step'] < StepsToEnd[step]
                          /\ step' = "idle" => outcome' \in {"failed", "rolledBack", "done", "removed", "refused"}
                          /\ step' # "idle" => UNCHANGED <<version, before, outcome>>]_installerVars
  <2> SUFFICES ASSUME InstallerInv, InstallerNext, step # "idle"
               PROVE  /\ StepsToEnd[step'] < StepsToEnd[step]
                      /\ step' = "idle" => outcome' \in {"failed", "rolledBack", "done", "removed", "refused"}
                      /\ step' # "idle" => UNCHANGED <<version, before, outcome>>
    OBVIOUS
  <2> USE DEF At, Then, Ends, StepsToEnd
  <2>1. CASE CheckBundle \/ InstallWidget \/ RefuseUnit \/ SaveUnit \/ StageBackend \/ MoveAside
    BY <2>1 DEF CheckBundle, InstallWidget, RefuseUnit, SaveUnit, StageBackend, MoveAside
  <2>2. CASE SwapIn \/ InstallCatalog \/ WriteUnit \/ Activate \/ DiscardOld \/ Verify
    BY <2>2 DEF SwapIn, InstallCatalog, WriteUnit, Activate, DiscardOld, Verify
  <2>3. CASE RemoveNew \/ MoveBack \/ RemoveUnit \/ RestoreUnit
    BY <2>3 DEF RemoveNew, MoveBack, RemoveUnit, RestoreUnit
  <2>4. CASE ActivationFails
    <3>1. step = "activate" /\ step' = "removeNew" /\ UNCHANGED <<version, before, outcome>>
      BY <2>4 DEF ActivationFails
    <3>2. QED
      BY <3>1
  <2>5. CASE DisableUnit
    <3>1. step = "disable" /\ step' \in {"idle", "dropUnit", "dropBackend"}
          /\ (step' = "idle" => outcome' = "refused") /\ (step' # "idle" => UNCHANGED <<version, before, outcome>>)
      BY <2>5 DEF DisableUnit
    <3>2. QED
      BY <3>1
  <2>6. CASE DropUnit \/ DropBackend \/ DropCatalog \/ DropWidget
    BY <2>6 DEF DropUnit, DropBackend, DropCatalog, DropWidget
  <2>7. CASE Breaks
    <3>1. step' = "idle" /\ outcome' = "failed"
      BY <2>7 DEF Breaks
    <3>2. StepsToEnd[step] > 0
      BY DEF InstallerInv, NotBegun, UnitSaved, MovedAside, MovedBack, Committed, Uninstalling
    <3>3. QED
      BY <3>1, <3>2
  <2>8. ~ChangeUnit /\ ~(\E v \in Versions, first \in {"check", "disable"} : Run(v, first))
    BY DEF ChangeUnit, Run
  <2>9. QED
    BY <2>1, <2>2, <2>3, <2>4, <2>5, <2>6, <2>7, <2>8 DEF InstallerNext, InstallerStep, InstallStep, UninstallStep
<1>2. QED
  BY <1>1, InstallerStarts, InstallerKeeps, PTL DEF InstallerSpec
=============================================================================
