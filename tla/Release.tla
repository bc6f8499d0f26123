------------------------------- MODULE Release -------------------------------
(***************************************************************************)
(* How a release comes about and reaches a user: build-release.sh with     *)
(* release_archive.py, validate-release.py, which the build runs before    *)
(* and after and release-check.sh --release at any time, and the checks    *)
(* that install.sh makes before it changes anything.  The source tree is   *)
(* edited meanwhile, a build may be cut short, and a file of a user's copy *)
(* may be damaged on its way.                                              *)
(*                                                                         *)
(* The content of a file is the version it tells, or what is wrong with    *)
(* it.  The texts of a bundle (scripts, notes, license) are with VERSION.  *)
(***************************************************************************)
EXTENDS Naturals, FiniteSets

CONSTANTS
  Releases,    \* versions that VERSION may tell
  MaxDamage    \* bound: damaged files of a user's copy

ASSUME ReleaseAssumption ==
  Releases \cap {"none", "partial", "leaky", "unlabelled", "damaged"} = {} /\ MaxDamage \in Nat

VARIABLES
  tree,       \* the source tree: VERSION and what is wrong with it
  job,        \* the next step of the build, "idle", or "delivered" to a user
  label,      \* VERSION as the build read it, which names its artifacts
  dist,       \* dist/ but for the two files below, by content
  manifest,   \* dist/SHA256SUMS: the files and contents it lists
  bundle,     \* the Linux bundle in dist/
  approved,   \* dist/ was found valid, and not replaced since
  copy        \* a user's copy of the bundle, with the number of its damages

releaseVars == <<tree, job, label, dist, manifest, bundle, approved, copy>>

Payload == {"plasmoid", "backend", "VERSION", "catalog"}
Contents == Releases \cup {"none", "partial", "leaky", "unlabelled", "damaged"}

\* Of the faults, invalid is a metadata.json of another version, or anything
\* else that validate_source asserts.
Faults == {"none", "invalid", "symlink", "leak"}
Trees == [version : Releases, fault : Faults]

EmptyDist == [f \in Payload |-> "none"]
NoBundle == [state |-> "none", files |-> EmptyDist, sums |-> {}, label |-> label]

ReleaseInit ==
  /\ tree \in [version : Releases, fault : {"none"}]
  /\ job = "idle" /\ label = tree.version
  /\ dist = EmptyDist /\ manifest = {} /\ bundle = NoBundle
  /\ approved = FALSE /\ copy = [bundle |-> NoBundle, damages |-> 0]

----------------------------------------------------------------------------
(* What is checked.                                                        *)

SourceIsValid == tree.fault # "invalid"

\* SHA256SUMS is sorted; one that is cut short ends early.
Order == <<"VERSION", "catalog", "plasmoid", "backend">>
Beginnings(sums) ==
  {{s \in sums : \E i \in 1 .. n : s[1] = Order[i]} : n \in 0 .. 3}

Sums(files) == {<<f, files[f]>> : f \in {g \in Payload : files[g] # "none"}}

\* validate_checksums: each line holds; that each file has one is not asked.
SumsHold(sums, files) == sums # {} /\ \A s \in sums : files[s[1]] = s[2]

\* What tar_entries and zip_entries read, and assert_portable_bytes accepts.
IsClean(content) == content \in Releases

\* validate_dist, for the names of the version that the tree tells now.
DistIsValid ==
  /\ label = tree.version
  /\ \A f \in Payload : dist[f] # "none" /\ IsClean(dist[f])
  /\ SumsHold(manifest, dist)
  /\ dist["plasmoid"] = tree.version
  /\ bundle.state = "whole"
  /\ \A f \in Payload : bundle.files[f] # "none" /\ IsClean(bundle.files[f])
  /\ \A s \in bundle.sums : bundle.files[s[1]] = s[2]

\* Mutant: the installer looks for its files only.
AcceptsPresent(b) ==
  b.files["VERSION"] = b.label /\ \A f \in Payload : b.files[f] # "none"

\* install.sh: the files named by VERSION are there, and every line of
\* SHA256SUMS holds.
Accepts(b) ==
  /\ b.files["VERSION"] = b.label
  /\ \A f \in Payload : b.files[f] # "none"
  /\ SumsHold(b.sums, b.files)

----------------------------------------------------------------------------
(* build-release.sh.                                                       *)

\* The developer goes on working.
Edit ==
  /\ job # "delivered"
  /\ tree' \in Trees
  /\ UNCHANGED <<job, label, dist, manifest, bundle, approved, copy>>

\* VERSION is read, and dist/ is removed if the source is valid.
StartBuild ==
  /\ job = "idle" /\ SourceIsValid
  /\ label' = tree.version
  /\ job' = "plasmoid"
  /\ dist' = EmptyDist /\ manifest' = {} /\ approved' = FALSE
  /\ bundle' = [NoBundle EXCEPT !.label = tree.version]
  /\ UNCHANGED <<tree, copy>>

\* What a file made of the tree as it is now contains.
Made(f) ==
  IF tree.fault = "leak" THEN "leaky"
  ELSE IF tree.fault = "invalid" /\ f = "plasmoid" THEN "unlabelled"
  ELSE tree.version

MakeFile(f, next) ==
  /\ job = f
  /\ dist' = [dist EXCEPT ![f] = Made(f)]
  /\ job' = next
  /\ UNCHANGED <<tree, label, manifest, bundle, approved, copy>>

\* release_archive.py refuses symbolic links, when part of its output exists.
MakePlasmoid ==
  \/ tree.fault # "symlink" /\ MakeFile("plasmoid", "backend")
  \/ /\ job = "plasmoid" /\ tree.fault = "symlink"
     /\ dist' = [dist EXCEPT !["plasmoid"] = "partial"]
     /\ job' = "idle"
     /\ UNCHANGED <<tree, label, manifest, bundle, approved, copy>>

MakeBackend == MakeFile("backend", "VERSION")
CopyTexts == MakeFile("VERSION", "catalog")
MakeCatalog == MakeFile("catalog", "bundle")

\* Mutant: find does not descend to the catalog.
SumsOfTop(files) == {s \in Sums(files) : s[1] # "catalog"}

BundleSums(files) == Sums(files)

\* dist/ is copied, its sums are written next to it, and it is packed.
MakeBundle ==
  /\ job = "bundle"
  /\ bundle' = [state |-> "whole", files |-> dist, sums |-> BundleSums(dist), label |-> label]
  /\ job' = "sums"
  /\ UNCHANGED <<tree, label, dist, manifest, approved, copy>>

WriteSums ==
  /\ job = "sums"
  /\ manifest' = Sums(dist)
  /\ job' = "validate"
  /\ UNCHANGED <<tree, label, dist, bundle, approved, copy>>

\* validate-release.py --dist, at the end of the build.
Validate ==
  /\ job = "validate"
  /\ approved' = (SourceIsValid /\ DistIsValid)
  /\ job' = "idle"
  /\ UNCHANGED <<tree, label, dist, manifest, bundle, copy>>

\* The same by release-check.sh --release, whatever there is in dist/.
ReleaseCheck ==
  /\ job = "idle"
  /\ approved' = (SourceIsValid /\ DistIsValid)
  /\ UNCHANGED <<tree, job, label, dist, manifest, bundle, copy>>

\* The build fails or is interrupted; the file that it was writing is partial.
CutShort ==
  /\ job \notin {"idle", "delivered"}
  /\ job' = "idle"
  /\ \/ job \in Payload /\ dist' = [dist EXCEPT ![job] = "partial"] /\ UNCHANGED <<manifest, bundle>>
     \/ job = "bundle" /\ bundle' = [NoBundle EXCEPT !.state = "partial"] /\ UNCHANGED <<dist, manifest>>
     \/ job = "sums" /\ manifest' \in Beginnings(Sums(dist)) /\ UNCHANGED <<dist, bundle>>
     \/ UNCHANGED <<dist, manifest, bundle>>
  /\ UNCHANGED <<tree, label, approved, copy>>

----------------------------------------------------------------------------
(* The user.                                                               *)

Download ==
  /\ job = "idle" /\ approved
  /\ copy' = [bundle |-> bundle, damages |-> 0]
  /\ job' = "delivered"   \* bound: later builds do not change the copy
  /\ UNCHANGED <<tree, label, dist, manifest, bundle, approved>>

Damage ==
  /\ job = "delivered" /\ copy.damages < MaxDamage
  /\ \/ \E f \in Payload, content \in {"none", "damaged"} :
          copy' = [bundle |-> [copy.bundle EXCEPT !.files[f] = content], damages |-> copy.damages + 1]
     \/ \E sums \in Beginnings(copy.bundle.sums) :
          copy' = [bundle |-> [copy.bundle EXCEPT !.sums = sums], damages |-> copy.damages + 1]
  /\ UNCHANGED <<tree, job, label, dist, manifest, bundle, approved>>

ReleaseNext ==
  \/ Edit \/ StartBuild \/ MakePlasmoid \/ MakeBackend \/ CopyTexts \/ MakeCatalog
  \/ MakeBundle \/ WriteSums \/ Validate \/ ReleaseCheck \/ CutShort \/ Download \/ Damage

ReleaseSpec == ReleaseInit /\ [][ReleaseNext]_releaseVars

----------------------------------------------------------------------------
(* Properties.                                                             *)

Bundles == [state : {"none", "partial", "whole"}, files : [Payload -> Contents],
            sums : SUBSET (Payload \X Contents), label : Releases]

ReleaseTypeOK ==
  /\ tree \in Trees /\ label \in Releases
  /\ job \in Payload \cup {"idle", "bundle", "sums", "validate", "delivered"}
  /\ dist \in [Payload -> Contents] /\ manifest \subseteq Payload \X Contents
  /\ bundle \in Bundles /\ approved \in BOOLEAN
  /\ copy.bundle \in Bundles /\ copy.damages \in 0 .. MaxDamage

\* What a user's installer accepts are the files as the build left them, none
\* lost, damaged, partial or with a leak, and the two by which the version is
\* told, plasmoid and VERSION, are of the version that the bundle is named for,
\* whatever was edited, cut short and checked again before it was published.
AcceptedIsAsBuilt ==
  job = "delivered" /\ Accepts(copy.bundle) =>
    /\ \A f \in Payload : copy.bundle.files[f] = dist[f] /\ dist[f] \in Releases
    /\ \A f \in {"plasmoid", "VERSION"} : dist[f] = copy.bundle.label

----------------------------------------------------------------------------
(* What the documentation says and the code does not do.                   *)

\* "This bundle installs TTop Desk @VERSION@" (release/README.md:3) and, in the
\* backend's archive, "TTop Desk backend @VERSION@" (release/backend-README.md:1),
\* with the version that the build read first: all of an accepted copy is of it.
AcceptedIsOfOneVersion ==
  job = "delivered" /\ Accepts(copy.bundle) =>
    \A f \in Payload : copy.bundle.files[f] = copy.bundle.label
=============================================================================
