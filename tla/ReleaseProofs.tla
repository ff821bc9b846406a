----------------------------- MODULE ReleaseProofs -----------------------------
(***************************************************************************)
(* What holds of Release for any runs, needs and number of builds and      *)
(* changes: a bundle whose checksums verify is of one build, and if it is  *)
(* tagged it publishes what a release may.                                 *)
(***************************************************************************)
EXTENDS Release, FiniteSetTheorems, TLAPS

-----------------------------------------------------------------------------
(* The invariant. *)

\* The BLOCKERS.md that goes with these failed gates.
Blockers(failed) == IF failed = {} THEN Absent ELSE failed

\* A manifest no gate fails.
Sound(m) ==
  /\ Ids(m) \subseteq Real
  /\ \E d \in Evaluators : Fingerprints(m) = {d}
  /\ Complete(Ids(m))
  /\ ~m.dirty

Unjudged == {"collect", "manifest", "code", "evidence", "gates"}
Judged == {"blockers", "checksums", "sums", "done"}

\* Where a build is, and what it has left on disk so far.
Progress ==
  Building =>
    /\ calm < builds
    /\ build.step # "collect" => build.manifest \in Manifests
    /\ build.step \notin {"collect", "manifest"} => disk["manifest"] \in Manifests
    /\ build.step = "gates" /\ build.failed = {} => Sound(disk["manifest"])
    /\ build.step \in Judged =>
         disk["gates"] = [build |-> builds, failed |-> build.failed, of |-> disk["manifest"]]
    /\ build.step \in {"checksums", "sums", "done"} => disk["blockers"] = Blockers(build.failed)
    /\ build.step = "sums" =>
         /\ DOMAIN build.sums = Bundle
         /\ \A f \in {"manifest", "gates", "blockers"} : build.sums[f] = disk[f]
    /\ build.step \in Unjudged /\ disk["checksums"] \notin Unfinished =>
         disk["checksums"]["gates"].build < builds

\* A whole checksums.txt lists the files of one build, and the gates it lists are no
\* other build's.
Listed ==
  disk["checksums"] \notin Unfinished =>
    LET s == disk["checksums"] IN
    /\ DOMAIN s = Bundle
    /\ s["gates"] \in Verdicts
    /\ s["gates"].build <= builds
    /\ s["manifest"] = s["gates"].of
    /\ s["blockers"] = Blockers(s["gates"].failed)
    /\ disk["gates"] = s["gates"] /\ s["gates"].failed = {} => disk["blockers"] = Absent

\* gates that none failed were judged on a sound manifest.
Passed ==
  disk["gates"] \notin Unfinished /\ disk["gates"].failed = {} => Sound(disk["gates"].of)

Inv == TypeOK /\ calm <= builds /\ Progress /\ Listed /\ Passed

-----------------------------------------------------------------------------
LEMMA FileFacts ==
  /\ Files = {"manifest", "gates", "blockers", "documents", "tables", "checksums", "board"}
  /\ Bundle = {"manifest", "gates", "blockers", "documents", "tables"}
BY DEF Files, Bundle

\* One fingerprint is some evaluator's.
LEMMA OneIsSome ==
  ASSUME NEW m \in Manifests, OneFingerprint(m)
  PROVE  \E d \in Evaluators : Fingerprints(m) = {d}
<1>1. Fingerprints(m) \subseteq Evaluators
  BY DEF Fingerprints, Manifests, Entries, Digests
<1>2. IsFiniteSet(Evaluators)
  BY ReleaseAssumption, FS_Interval DEF Evaluators
<1>3. IsFiniteSet(Fingerprints(m))
  BY <1>1, <1>2, FS_Subset
<1>4. PICK d : Fingerprints(m) = {d}
  BY <1>3, FS_Singleton DEF OneFingerprint
<1> QED BY <1>1, <1>4

\* What the gates let pass is sound.
LEMMA NoneFails ==
  ASSUME NEW m \in Manifests, \A g \in Gates : ~Fails(g, m)
  PROVE  Sound(m)
<1>1. ~m.dirty /\ Ids(m) \subseteq Real /\ Complete(Ids(m)) /\ OneFingerprint(m)
  BY DEF Fails, Gates
<1> QED BY <1>1, OneIsSome DEF Sound

LEMMA ManifestType ==
  ASSUME TypeOK, NEW ids \in SUBSET Runs, Collectable(ids), NEW e \in Evaluators
  PROVE  Manifest(ids, e) \in Manifests
<1>1. \A r \in Published(ids) : EntryOf(r) \in Entries
  <2> SUFFICES ASSUME NEW r \in Published(ids) PROVE EntryOf(r) \in Entries
    OBVIOUS
  <2>1. r \in Runs /\ runs[r] \in Directories /\ runs[r].grades # Absent
    BY DEF Published, Collectable, Readable, TypeOK, BuildType, Unfinished
  <2> QED BY <2>1 DEF EntryOf, Entries, Directories
<1>2. tree.commit \in Commits /\ tree.dirty \in BOOLEAN
  BY DEF TypeOK, BuildType
<1> QED BY <1>1, <1>2 DEF Manifest, Manifests, Dirty

LEMMA InitInv == Init => Inv
<1> SUFFICES ASSUME Init PROVE Inv
  OBVIOUS
<1>1. disk = [f \in Files |-> IF f = "documents" THEN 1 ELSE Absent] /\ build = Idle /\ other = Idle
  BY DEF Init
<1>2. runs \in [Runs -> Unfinished \cup Directories]
  <2>1. {[digest |-> d, grades |-> d] : d \in {1, NoDigest}} \subseteq Directories
    BY ReleaseAssumption DEF Directories, Digests, Evaluators
  <2> QED BY <2>1 DEF Init
<1>3. tree \in [evaluator : Evaluators, healthy : BOOLEAN, dirty : BOOLEAN,
                commit : Commits, remote : Commits \cup {NoRemote}]
  <2>1. 1 \in Evaluators /\ 0 \in Commits
    BY ReleaseAssumption DEF Evaluators, Commits
  <2> QED BY <2>1 DEF Init
<1>4. TypeOK
  BY <1>1, <1>2, <1>3, FileFacts, ReleaseAssumption DEF Init, TypeOK, BuildType, Unfinished
<1>5. Progress /\ Listed /\ Passed /\ calm <= builds
  BY <1>1, FileFacts DEF Init, Progress, Listed, Passed, Building, Unfinished
<1> QED BY <1>4, <1>5 DEF Inv

-----------------------------------------------------------------------------

(* The four files a build answers for, and the frame of the steps that leave them. *)

Four == {"manifest", "gates", "blockers", "checksums"}

\* A step that leaves the four files, and the build or ends it, keeps all but the type.
LEMMA Frame ==
  ASSUME Inv, TypeOK', calm' <= builds', builds' = builds,
         \A f \in Four : disk'[f] = disk[f],
         \/ build' = Idle
         \/ build' = build /\ (Building => calm' < builds')
  PROVE  Inv'
<1>1. Progress'
  BY DEF Inv, Progress, Building, Four, Unjudged, Judged
<1>2. Listed'
  BY DEF Inv, Listed, Four
<1>3. Passed'
  BY DEF Inv, Passed, Four
<1> QED BY <1>1, <1>2, <1>3 DEF Inv

-----------------------------------------------------------------------------
(* The steps of release-build. *)

LEMMA StartBuildInv == Inv /\ StartBuild => Inv'
<1> SUFFICES ASSUME Inv, StartBuild PROVE Inv'
  OBVIOUS
<1> USE DEF Inv, StartBuild
<1>1. tree.evaluator \in Evaluators /\ named \subseteq Runs
  BY DEF TypeOK, BuildType
<1>2. build' # Idle => /\ build'.step = "collect" /\ build'.failed = {} /\ build'.ids \subseteq Runs
                       /\ build'.manifest = Absent /\ build'.open = FALSE /\ build'.current \in Evaluators
                       /\ DOMAIN build' = {"step", "open", "current", "ids", "manifest", "failed", "sums"}
  BY <1>1
<1>3. TypeOK'
  <2>1. BuildType'
    BY <1>2 DEF BuildType, Steps, TypeOK
  <2>2. (builds \in Nat /\ changes \in Nat /\ builds + changes <= MaxEvents)'
    BY ReleaseAssumption DEF TypeOK
  <2>3. UNCHANGED <<runs, tree, named, cells, disk, other, calm>>
    BY DEF world
  <2> HIDE DEF StartBuild
  <2> QED BY <2>1, <2>2, <2>3 DEF TypeOK
<1>4. Progress'
  BY <1>2 DEF Progress, Building, Judged, Unjudged, Listed, TypeOK, BuildType, Verdicts
<1>5. Listed' /\ Passed' /\ (calm <= builds)'
  BY DEF Listed, Passed, TypeOK, BuildType, Verdicts
<1> QED BY <1>3, <1>4, <1>5

LEMMA CollectInv == Inv /\ Collect => Inv'
<1> SUFFICES ASSUME Inv, Collect PROVE Inv'
  OBVIOUS
<1> USE DEF Inv, Collect
<1>1. Manifest(build.ids, build.current) \in Manifests
  BY ManifestType DEF TypeOK, BuildType, At, Building
<1>2. TypeOK'
  BY <1>1 DEF TypeOK, BuildType, Steps, world, At, Building
<1>3. Progress'
  BY <1>1 DEF Progress, At, Building, Judged, Unjudged, TypeOK, BuildType
<1>4. Listed' /\ Passed' /\ (calm <= builds)'
  BY DEF Listed, Passed
<1> QED BY <1>2, <1>3, <1>4

LEMMA JudgeCodeInv == Inv /\ JudgeCode => Inv'
<1> SUFFICES ASSUME Inv, JudgeCode PROVE Inv'
  OBVIOUS
<1> USE DEF Inv, JudgeCode
<1>1. PICK failed \in {{}, {"code"}} :
        build' = [build EXCEPT !.step = "evidence", !.failed = failed]
  OBVIOUS
<1>4. TypeOK'
  <2>1. BuildType'
    <3>1. failed \subseteq Gates
      BY DEF Gates
    <3> QED BY <1>1, <3>1 DEF BuildType, Steps, TypeOK, At, Building
  <2> QED BY <2>1 DEF TypeOK, world
<1>2. Progress'
  BY <1>1 DEF Progress, At, Building, Judged, Unjudged, TypeOK, BuildType
<1>3. Listed' /\ Passed' /\ (calm <= builds)'
  BY DEF Listed, Passed
<1> QED BY <1>4, <1>2, <1>3

LEMMA JudgeEvidenceInv == Inv /\ JudgeEvidence => Inv'
<1> SUFFICES ASSUME Inv, JudgeEvidence PROVE Inv'
  OBVIOUS
<1> USE DEF Inv, JudgeEvidence
<1>1. TypeOK'
  BY DEF TypeOK, BuildType, Steps, world, At, Building
<1>2. disk["manifest"] \in Manifests
  BY DEF Progress, At
<1>3. build'.failed = {} => Sound(disk["manifest"])
  <2> HAVE build'.failed = {}
  <2>1. \A g \in Gates : ~Fails(g, disk["manifest"])
    BY DEF TypeOK, BuildType, At, Building
  <2> QED BY <2>1, <1>2, NoneFails
<1>4. Progress'
  BY <1>2, <1>3 DEF Progress, At, Building, Judged, Unjudged, TypeOK, BuildType
<1>5. Listed' /\ Passed' /\ (calm <= builds)'
  BY DEF Listed, Passed
<1> QED BY <1>1, <1>4, <1>5

\* The writing steps.  Each opens its file, which leaves it torn, and closes it whole.
LEMMA WriteFacts ==
  ASSUME TypeOK, Building, NEW f \in Files, NEW text, NEW next, Write(f, text, next)
  PROVE  /\ build' # Idle => /\ DOMAIN build' = DOMAIN build
                             /\ build'.open \in BOOLEAN
                             /\ \A x \in {"current", "ids", "manifest", "failed", "sums"} : build'[x] = build[x]
         /\ \/ disk' = [disk EXCEPT ![f] = Torn] /\ build'.step = build.step
            \/ disk' = [disk EXCEPT ![f] = text] /\ build'.step = next
         /\ UNCHANGED <<world, other, builds, changes, calm>>
BY DEF Write, TypeOK, BuildType, Building

LEMMA WriteManifestInv == Inv /\ WriteManifest => Inv'
<1> SUFFICES ASSUME Inv, WriteManifest PROVE Inv'
  OBVIOUS
<1> USE DEF Inv, WriteManifest
<1>1. Building /\ build.step = "manifest" /\ Write("manifest", build.manifest, "code")
  BY DEF At
<1>2. build.manifest \in Manifests
  BY <1>1 DEF Progress
<1>3. TypeOK'
  BY <1>1, <1>2, WriteFacts, FileFacts DEF TypeOK, BuildType, Steps, world, Building, Unfinished
<1>4. Progress'
  BY <1>1, <1>2, WriteFacts, FileFacts DEF Progress, Building, Judged, Unjudged, TypeOK, BuildType
<1>5. Listed' /\ Passed' /\ (calm <= builds)'
  BY <1>1, WriteFacts, FileFacts DEF Listed, Passed, TypeOK, BuildType
<1> QED BY <1>3, <1>4, <1>5

LEMMA WriteGatesInv == Inv /\ WriteGates => Inv'
<1> SUFFICES ASSUME Inv, WriteGates PROVE Inv'
  OBVIOUS
<1> USE DEF Inv, WriteGates
<1> DEFINE g == [build |-> builds, failed |-> build.failed, of |-> disk["manifest"]]
<1>1. Building /\ build.step = "gates" /\ Write("gates", g, "blockers")
  BY DEF At
<1>2. disk["manifest"] \in Manifests /\ (build.failed = {} => Sound(disk["manifest"]))
  BY <1>1 DEF Progress
<1>3. g \in Verdicts
  BY <1>1, <1>2, ReleaseAssumption DEF Verdicts, TypeOK, BuildType, Building
<1>4. TypeOK'
  BY <1>1, <1>3, WriteFacts, FileFacts DEF TypeOK, BuildType, Steps, world, Building, Unfinished
<1>5. Progress'
  BY <1>1, <1>2, WriteFacts, FileFacts DEF Progress, Building, Judged, Unjudged, TypeOK, BuildType
<1>6. Listed'
  <2>1. disk["checksums"] \notin Unfinished => disk["checksums"]["gates"].build < builds
    BY <1>1 DEF Progress, Unjudged
  <2>2. disk'["gates"] \in {Torn, g} /\ UNCHANGED builds
        /\ \A f \in {"checksums", "blockers"} : disk'[f] = disk[f]
    BY <1>1, WriteFacts, FileFacts DEF TypeOK, BuildType
  <2>3. \A v \in Verdicts : v.build < builds => v # g /\ v # Torn
    BY ReleaseAssumption DEF Verdicts, TypeOK, BuildType
  <2> QED BY <2>1, <2>2, <2>3 DEF Listed
<1>7. Passed' /\ (calm <= builds)'
  BY <1>1, <1>2, WriteFacts, FileFacts DEF Passed, TypeOK, BuildType, Unfinished
<1> QED BY <1>4, <1>5, <1>6, <1>7

LEMMA WriteBlockersInv == Inv /\ WriteBlockers => Inv'
<1> SUFFICES ASSUME Inv, WriteBlockers PROVE Inv'
  OBVIOUS
<1> USE DEF Inv, WriteBlockers
<1>1. Building /\ build.step = "blockers" /\ build.failed # {}
      /\ Write("blockers", build.failed, "checksums")
  BY DEF At
<1>2. TypeOK'
  BY <1>1, WriteFacts, FileFacts DEF TypeOK, BuildType, Steps, world, Building, Unfinished
<1>3. Progress'
  BY <1>1, WriteFacts, FileFacts DEF Progress, Building, Judged, Unjudged, TypeOK, BuildType, Blockers
<1>4. disk["gates"].failed # {}
  BY <1>1 DEF Progress, Judged
<1>5. Listed' /\ Passed' /\ (calm <= builds)'
  BY <1>1, <1>4, WriteFacts, FileFacts DEF Listed, Passed, TypeOK, BuildType
<1> QED BY <1>2, <1>3, <1>5

LEMMA UnblockInv == Inv /\ Unblock => Inv'
<1> SUFFICES ASSUME Inv, Unblock PROVE Inv'
  OBVIOUS
<1> USE DEF Inv, Unblock
<1>1. TypeOK'
  BY FileFacts DEF TypeOK, BuildType, Steps, world, At, Building, Unfinished
<1>2. Progress'
  BY FileFacts DEF Progress, At, Building, Judged, Unjudged, TypeOK, BuildType, Blockers
<1>3. Listed' /\ Passed' /\ (calm <= builds)'
  BY FileFacts DEF Listed, Passed, TypeOK, BuildType
<1> QED BY <1>1, <1>2, <1>3

LEMMA SumInv == Inv /\ Sum => Inv'
<1> SUFFICES ASSUME Inv, Sum PROVE Inv'
  OBVIOUS
<1> USE DEF Inv, Sum
<1>1. TypeOK'
  BY DEF TypeOK, BuildType, Steps, world, At, Building
<1>2. Progress'
  BY FileFacts DEF Progress, At, Building, Judged, Unjudged, TypeOK, BuildType
<1>3. Listed' /\ Passed' /\ (calm <= builds)'
  BY DEF Listed, Passed
<1> QED BY <1>1, <1>2, <1>3

LEMMA WriteSumsInv == Inv /\ WriteSums => Inv'
<1> SUFFICES ASSUME Inv, WriteSums PROVE Inv'
  OBVIOUS
<1> USE DEF Inv, WriteSums
<1>1. Building /\ build.step = "sums" /\ Write("checksums", build.sums, "done")
  BY DEF At
<1>2. TypeOK'
  BY <1>1, WriteFacts, FileFacts DEF TypeOK, BuildType, Steps, world, Building, Unfinished, Progress
<1>3. Progress'
  BY <1>1, WriteFacts, FileFacts DEF Progress, Building, Judged, Unjudged, TypeOK, BuildType
<1>4. Listed'
  <2>1. disk["gates"] = [build |-> builds, failed |-> build.failed, of |-> disk["manifest"]]
        /\ disk["manifest"] \in Manifests /\ disk["blockers"] = Blockers(build.failed)
    BY <1>1 DEF Progress, Judged
  <2>2. disk["gates"] \in Verdicts
    BY <1>1, <2>1, ReleaseAssumption DEF Verdicts, TypeOK, BuildType, Building
  <2>3. disk'["checksums"] \in {Torn, build.sums} /\ UNCHANGED builds
        /\ \A f \in {"gates", "blockers"} : disk'[f] = disk[f]
    BY <1>1, WriteFacts, FileFacts DEF TypeOK, BuildType
  <2>4. DOMAIN build.sums = Bundle /\ build.sums["manifest"] = disk["manifest"]
        /\ build.sums["gates"] = disk["gates"] /\ build.sums["blockers"] = disk["blockers"]
    BY <1>1 DEF Progress
  <2> QED BY <2>1, <2>2, <2>3, <2>4, ReleaseAssumption DEF Listed, Unfinished, Blockers, Verdicts, TypeOK, BuildType
<1>5. Passed' /\ (calm <= builds)'
  BY <1>1, WriteFacts, FileFacts DEF Passed, TypeOK, BuildType
<1> QED BY <1>2, <1>3, <1>4, <1>5

LEMMA EndInv == Inv /\ (EndBuild \/ Crash \/ KillBuild) => Inv'
<1> SUFFICES ASSUME Inv, EndBuild \/ Crash \/ KillBuild PROVE Inv'
  OBVIOUS
<1>1. Building /\ build' = Idle /\ calm' \in {0, calm + 1}
      /\ UNCHANGED <<world, disk, other, builds, changes>>
  BY DEF EndBuild, Crash, BuildFails, KillBuild, StopBuild, At
<1>2. calm' <= builds /\ calm' \in -1..MaxEvents
  <2>1. calm < builds /\ builds \in Nat /\ builds <= MaxEvents /\ calm \in -1..MaxEvents
    BY <1>1, ReleaseAssumption DEF Inv, Progress, TypeOK
  <2> QED BY <1>1, <2>1, ReleaseAssumption
<1>3. TypeOK'
  BY <1>1, <1>2 DEF Inv, TypeOK, BuildType, world
<1> QED BY <1>1, <1>2, <1>3, Frame

-----------------------------------------------------------------------------
(* The other commands and the world. *)

LEMMA DisturbFacts ==
  ASSUME Inv, Disturbs, builds' = builds
  PROVE  calm' \in -1..MaxEvents /\ calm' <= builds' /\ (Building => calm' < builds')
<1>1. builds \in Nat /\ (Building => builds > 0)
  BY DEF Inv, TypeOK, BuildType, Building
<1> QED BY <1>1, ReleaseAssumption DEF Disturbs

LEMMA ChangeFacts ==
  ASSUME Inv, Change, builds' = builds
  PROVE  (builds \in Nat /\ changes \in Nat /\ builds + changes <= MaxEvents)'
BY ReleaseAssumption DEF Inv, TypeOK, Change

LEMMA StartsInv == Inv /\ (StartReport \/ StartBoard) => Inv'
<1> SUFFICES ASSUME Inv, StartReport \/ StartBoard PROVE Inv'
  OBVIOUS
<1>1. \/ other' = [file |-> "tables", text |-> Page, open |-> FALSE]
      \/ other' = [file |-> "board", text |-> Ranked, open |-> FALSE]
  BY DEF StartReport, StartBoard, Starts
<1>2. Page \in Pages /\ Ranked \subseteq Runs
  BY ReleaseAssumption DEF Inv, TypeOK, Page, Pages, Ranked
<1>3. UNCHANGED <<world, disk, build, builds>> /\ Change
  BY DEF StartReport, StartBoard, Starts
<1>4. TypeOK'
  <2>1. calm' \in -1..MaxEvents
        /\ (builds \in Nat /\ changes \in Nat /\ builds + changes <= MaxEvents)'
    BY <1>3, DisturbFacts, ChangeFacts DEF Change
  <2>2. /\ DOMAIN other' = {"file", "text", "open"} /\ other'.open \in BOOLEAN
        /\ \/ other'.file = "tables" /\ other'.text \in Pages
           \/ other'.file = "board" /\ other'.text \subseteq Runs
    <3>1. CASE other' = [file |-> "tables", text |-> Page, open |-> FALSE]
      BY <3>1, <1>2
    <3>2. CASE other' = [file |-> "board", text |-> Ranked, open |-> FALSE]
      BY <3>2, <1>2
    <3> QED BY <1>1, <3>1, <3>2
  <2>3. UNCHANGED <<runs, tree, named, cells, disk, build, builds>>
    BY <1>3 DEF world
  <2>4. BuildType'
    BY <2>3 DEF Inv, TypeOK, BuildType
  <2> QED BY <2>1, <2>2, <2>3, <2>4 DEF Inv, TypeOK
<1> QED BY <1>3, <1>4, DisturbFacts, Frame DEF Change

LEMMA OtherInv == Inv /\ (OpenOther \/ CloseOther \/ KillOther) => Inv'
<1> SUFFICES ASSUME Inv, OpenOther \/ CloseOther \/ KillOther PROVE Inv'
  OBVIOUS
<1>1. other # Idle /\ UNCHANGED <<world, build, builds, changes>>
  BY DEF OpenOther, CloseOther, KillOther
<1>2. other.file \in {"tables", "board"}
  BY <1>1 DEF Inv, TypeOK
<1>3. \A f \in Four : disk'[f] = disk[f]
  BY <1>1, <1>2, FileFacts DEF OpenOther, CloseOther, KillOther, Four, Inv, TypeOK
<1>4. calm' \in -1..MaxEvents /\ calm' <= builds' /\ (Building => calm' < builds')
  <2>1. CASE Disturbs
    BY <1>1, <2>1, DisturbFacts
  <2>2. CASE calm' = calm
    BY <1>1, <2>2 DEF Inv, TypeOK, Progress
  <2> QED BY <2>1, <2>2 DEF OpenOther, CloseOther, KillOther
<1>5. TypeOK'
  <2>1. CASE OpenOther
    BY <2>1, <1>1, <1>2, <1>4, FileFacts DEF OpenOther, Inv, TypeOK, BuildType, world, Unfinished
  <2>2. CASE CloseOther
    BY <2>2, <1>1, <1>2, <1>4, FileFacts DEF CloseOther, Inv, TypeOK, BuildType, world, Unfinished
  <2>3. CASE KillOther
    BY <2>3, <1>1, <1>4 DEF KillOther, Inv, TypeOK, BuildType, world
  <2> QED BY <2>1, <2>2, <2>3 DEF OpenOther, CloseOther, KillOther
<1> QED BY <1>1, <1>3, <1>4, <1>5, Frame

LEMMA RunsKeepType ==
  ASSUME TypeOK, RunsChange
  PROVE  runs' \in [Runs -> Unfinished \cup Directories]
<1>1. PICK r \in Runs : RunWrites(r) \/ RunEnds(r) \/ RunLost(r)
  BY DEF RunsChange
<1>2. tree.evaluator \in Digests /\ (Readable(r) => runs[r] \in Directories)
  BY <1>1 DEF TypeOK, Digests, Readable, Unfinished
<1>3. CASE RunWrites(r)
  <2>1. [digest |-> tree.evaluator, grades |-> IF Readable(r) THEN runs[r].grades ELSE Absent] \in Directories
    BY <1>2 DEF Directories
  <2> QED BY <2>1, <1>3 DEF RunWrites, TypeOK
<1>4. CASE RunEnds(r)
  <2>1. [runs[r] EXCEPT !.grades = runs[r].digest] \in Directories
    BY <1>2, <1>4 DEF Directories, RunEnds
  <2> QED BY <2>1, <1>4 DEF RunEnds, TypeOK
<1>5. CASE RunLost(r)
  BY <1>5 DEF RunLost, TypeOK, Unfinished
<1> QED BY <1>1, <1>3, <1>4, <1>5

LEMMA TreeKeepsType ==
  ASSUME TypeOK, Change, TreeChanges
  PROVE  tree' \in [evaluator : Evaluators, healthy : BOOLEAN, dirty : BOOLEAN,
                    commit : Commits, remote : Commits \cup {NoRemote}]
<1>1. CASE Edit
  <2>1. \A e \in tree.evaluator..MaxEvaluator : e \in Evaluators
    BY ReleaseAssumption DEF TypeOK, Evaluators
  <2> QED BY <1>1, <2>1 DEF Edit, TypeOK
<1>2. CASE Push
  BY <1>2 DEF Push, TypeOK
<1>3. CASE Commit
  <2>1. tree.commit + 1 \in Commits
    BY DEF TypeOK, Commits
  <2> QED BY <1>3, <2>1 DEF Commit, TypeOK
<1> QED BY <1>1, <1>2, <1>3 DEF TreeChanges

LEMMA OutsideInv == Inv /\ Outside => Inv'
<1> SUFFICES ASSUME Inv, Outside PROVE Inv'
  OBVIOUS
<1>1. Change /\ UNCHANGED <<build, other, builds>>
  BY DEF Outside
<1>2. \A f \in Files \ {"documents"} : disk'[f] = disk[f]
  BY FileFacts DEF Outside, RunsChange, TreeChanges, Author, Name, Ablate, Inv, TypeOK
<1>3. disk'["documents"] \in 1..(MaxEvents + 2) \cup {Absent} /\ DOMAIN disk' = Files
  <2>1. changes + 2 \in 1..(MaxEvents + 2)
    BY ReleaseAssumption DEF Inv, TypeOK
  <2>2. CASE Author
    BY <2>1, <2>2 DEF Author, Inv, TypeOK
  <2>3. CASE UNCHANGED disk
    BY <2>3 DEF Inv, TypeOK
  <2> QED BY <2>2, <2>3 DEF Outside, RunsChange, TreeChanges, Name, Ablate
<1>4. /\ runs' \in [Runs -> Unfinished \cup Directories]
      /\ tree' \in [evaluator : Evaluators, healthy : BOOLEAN, dirty : BOOLEAN,
                    commit : Commits, remote : Commits \cup {NoRemote}]
      /\ named' \subseteq Runs /\ cells' \in BOOLEAN
  BY <1>1, RunsKeepType, TreeKeepsType, ReleaseAssumption
     DEF Outside, RunsChange, TreeChanges, Author, Name, Ablate, Inv, TypeOK, world
<1>5. calm' \in -1..MaxEvents /\ calm' <= builds' /\ (Building => calm' < builds')
      /\ (builds \in Nat /\ changes \in Nat /\ builds + changes <= MaxEvents)'
  BY <1>1, DisturbFacts, ChangeFacts DEF Change
<1>6. TypeOK'
  BY <1>1, <1>2, <1>3, <1>4, <1>5, FileFacts DEF Inv, TypeOK, BuildType
<1>7. \A f \in Four : disk'[f] = disk[f]
  BY <1>2, FileFacts DEF Four
<1> QED BY <1>1, <1>5, <1>6, <1>7, Frame

-----------------------------------------------------------------------------
(* The theorems. *)

LEMMA StepInv == Inv /\ [Next]_vars => Inv'
<1> SUFFICES ASSUME Inv, [Next]_vars PROVE Inv'
  OBVIOUS
<1>1. CASE UNCHANGED vars
  BY <1>1 DEF vars, world, Inv, TypeOK, BuildType, Progress, Building, Listed, Passed
<1>2. CASE Next
  BY <1>2, StartBuildInv, CollectInv, WriteManifestInv, JudgeCodeInv, JudgeEvidenceInv,
     WriteGatesInv, WriteBlockersInv, UnblockInv, SumInv, WriteSumsInv, EndInv,
     StartsInv, OtherInv, OutsideInv DEF Next
<1> QED BY <1>1, <1>2

\* The strengthened invariant: where a build is tells what the files it wrote hold.
THEOREM Invariance == Spec => []Inv
BY InitInv, StepInv, PTL DEF Spec

\* Every variable and every file keeps its type (release.py, cli.py release-build).
THEOREM TypeCorrect == Spec => []TypeOK
<1>1. Inv => TypeOK
  BY DEF Inv
<1> QED BY <1>1, Invariance, PTL

\* Checksums that verify are of one build: the gates were judged on the manifest beside
\* them, and BLOCKERS.md tells what they say, however many builds were killed there.
THEOREM OneBuild == Spec => []VerifiedBundleIsOneBuild
<1>1. Inv => VerifiedBundleIsOneBuild
  <2> SUFFICES ASSUME Inv, Verifies
               PROVE  /\ disk["manifest"] = disk["gates"].of
                      /\ disk["blockers"] = Blockers(disk["gates"].failed)
    BY DEF VerifiedBundleIsOneBuild, Blockers
  <2> DEFINE s == disk["checksums"]
  <2>1. /\ s["gates"] \in Verdicts /\ s["manifest"] = s["gates"].of
        /\ s["blockers"] = Blockers(s["gates"].failed)
        /\ disk["gates"] = s["gates"] /\ s["gates"].failed = {} => disk["blockers"] = Absent
    BY DEF Inv, Listed, Verifies, Unfinished
  <2>2. s["gates"] # Absent /\ s["manifest"] # Absent
    BY <2>1, ReleaseAssumption DEF Verdicts
  <2>3. disk["gates"] = s["gates"] /\ disk["manifest"] = s["manifest"]
    BY <2>2, FileFacts DEF Verifies
  <2>4. CASE s["gates"].failed = {}
    BY <2>1, <2>3, <2>4 DEF Blockers
  <2>5. CASE s["gates"].failed # {}
    <3>1. s["blockers"] = s["gates"].failed /\ s["gates"].failed \in SUBSET Gates
      BY <2>1, <2>5 DEF Blockers, Verdicts
    <3>2. s["blockers"] # Absent
      BY <3>1, ReleaseAssumption
    <3> QED BY <2>1, <2>3, <3>2, FileFacts DEF Verifies
  <2> QED BY <2>1, <2>3, <2>4, <2>5
<1> QED BY <1>1, Invariance, PTL

\* A tagged bundle that verifies publishes runs of real models, of one known evaluator,
\* with every needed experiment, from a clean commit, and no BLOCKERS.md.
THEOREM TaggedIsSound == Spec => []TaggedReleaseIsSound
<1>1. Inv => TaggedReleaseIsSound
  <2> SUFFICES ASSUME Inv, Verifies, disk["gates"].failed = {}
               PROVE  Sound(disk["manifest"]) /\ disk["blockers"] = Absent
    BY DEF TaggedReleaseIsSound, Sound
  <2> DEFINE s == disk["checksums"]
  <2>1. /\ s["gates"] \in Verdicts /\ s["manifest"] = s["gates"].of
        /\ disk["gates"] = s["gates"] /\ s["gates"].failed = {} => disk["blockers"] = Absent
    BY DEF Inv, Listed, Verifies, Unfinished
  <2>2. s["gates"] \notin Unfinished /\ s["manifest"] \notin Unfinished
    BY <2>1, ReleaseAssumption DEF Verdicts, Unfinished
  <2>3. disk["gates"] = s["gates"] /\ disk["manifest"] = s["manifest"]
    BY <2>2, FileFacts DEF Verifies, Unfinished
  <2> QED BY <2>1, <2>2, <2>3 DEF Inv, Passed
<1> QED BY <1>1, Invariance, PTL

-----------------------------------------------------------------------------
(* The gates can go green. *)

\* Leaderboards rank real runs only, on disk and in the hands of the command.
Boards ==
  /\ disk["board"] \notin Unfinished => disk["board"] \subseteq Real
  /\ other # Idle /\ other.file = "board" => other.text \subseteq Real

Due == Manifest(Swept, tree.evaluator)
Copy == [f \in Bundle |-> disk[f]]

\* A build that nothing has disturbed works on the world as it is; after another such
\* build it has the checksums to show, and nothing left that fails.
Undisturbed ==
  Building /\ calm >= 0 /\ Ready =>
    /\ build.ids = Swept /\ build.current = tree.evaluator
    /\ build.step # "collect" => build.manifest = Due
    /\ build.step \notin {"collect", "manifest"} => disk["manifest"] = Due
    /\ build.step = "evidence" => build.failed = {}
    /\ build.step \in Judged \cup {"gates"} /\ calm >= 1 => build.failed = {}
    /\ build.step = "sums" => build.sums = Copy
    /\ build.step = "done" => disk["checksums"] = Copy

\* What it leaves.
Left ==
  ~Building /\ calm >= 1 /\ Ready =>
    /\ disk["checksums"] = Copy
    /\ calm >= 2 => disk["gates"].failed = {}

\* Once there, checksums.txt is there.
SumsStay ==
  /\ calm >= 1 => disk["checksums"] # Absent
  /\ At("sums") => build.sums # Absent
  /\ At("done") => disk["checksums"] # Absent

GreenInv == Boards /\ Undisturbed /\ Left /\ SumsStay

LEMMA CopyIsText ==
  ASSUME TypeOK
  PROVE  Copy \notin Unfinished
<1> DEFINE texts == {Absent, Torn} \cup Manifests \cup Verdicts \cup (SUBSET Gates) \cup Nat
                    \cup Pages
<1>1. /\ Unfinished \subseteq texts /\ Manifests \subseteq texts /\ Verdicts \subseteq texts
      /\ (SUBSET Gates) \subseteq texts /\ Nat \subseteq texts /\ Pages \subseteq texts
      /\ Absent \in texts
  BY DEF Unfinished
<1>2. {Absent, Torn} \cap [Bundle -> texts] = {}
  BY ReleaseAssumption
<1> HIDE DEF texts
<1>3. 1..(MaxEvents + 2) \subseteq texts
  <2>1. 1..(MaxEvents + 2) \subseteq Nat
    BY ReleaseAssumption
  <2> QED BY <1>1, <2>1
<1>4. \A f \in Bundle : disk[f] \in texts
  BY <1>1, <1>3, FileFacts DEF TypeOK
<1>5. Copy \in [Bundle -> texts]
  BY <1>4 DEF Copy
<1> QED BY <1>2, <1>5 DEF Unfinished

\* Whether the world is ready is not for release-build to change.
LEMMA ReadyStays ==
  ASSUME UNCHANGED world, disk'["documents"] = disk["documents"], disk'["board"] = disk["board"]
  PROVE  (Ready' <=> Ready) /\ Swept' = Swept /\ Due' = Due /\ tree' = tree
<1>1. UNCHANGED <<runs, tree, named, cells>>
  BY DEF world
<1> QED BY <1>1 DEF Ready, Swept, Due, Manifest, Meant, Readable, NamedExist, Legible,
                    Collectable, Published, Complete, Dirty, EntryOf

\* In a world that is ready, a manifest of what is swept fails no gate, once there are
\* checksums.
LEMMA NothingFails ==
  ASSUME TypeOK, Boards, Ready, disk["checksums"] # Absent, NEW g \in Gates
  PROVE  ~Fails(g, Due)
<1>1. Published(Swept) = Swept
  BY DEF Published, Swept, Meant, Readable, Ready, NamedExist, TypeOK
<1>2. Due.runs = {EntryOf(r) : r \in Swept} /\ Due.dirty = tree.dirty
  <2>1. Due = [digest |-> tree.evaluator, commit |-> tree.commit, dirty |-> tree.dirty,
               runs |-> {EntryOf(r) : r \in Published(Swept)}]
    BY DEF Due, Manifest, Dirty
  <2> QED BY <1>1, <2>1
<1>3. Ids(Due) = Swept
  <2>1. \A r : EntryOf(r).run = r
    BY DEF EntryOf
  <2> QED BY <1>2, <2>1 DEF Ids
<1>4. {e.digest : e \in Due.runs} = {runs[r].digest : r \in Swept}
  <2>1. \A r : EntryOf(r).digest = runs[r].digest
    BY DEF EntryOf
  <2> QED BY <1>2, <2>1
<1>5. PICK d \in Evaluators : Fingerprints(Due) = {d}
  BY <1>4 DEF Fingerprints, Ready
<1>6. OneFingerprint(Due)
  BY <1>5, FS_Singleton DEF OneFingerprint
<1>7. disk["board"] \notin Unfinished => disk["board"] \subseteq Real
  BY DEF Boards
<1> QED BY <1>2, <1>3, <1>6, <1>7 DEF Fails, Ready, Dirty, Unfinished

LEMMA InitGreen == Init => GreenInv
BY FileFacts DEF Init, GreenInv, Boards, Undisturbed, Left, SumsStay, Building, At, Unfinished

\* Whatever disturbs starts the history of undisturbed builds anew.
LEMMA DisturbedGreen ==
  ASSUME Inv, GreenInv, Boards', Disturbs, build' = build,
         disk'["checksums"] = disk["checksums"]
  PROVE  GreenInv'
BY DEF GreenInv, Undisturbed, Left, SumsStay, Disturbs, Building, At

LEMMA OthersGreen ==
  Inv /\ GreenInv /\ (StartReport \/ StartBoard \/ OpenOther \/ CloseOther \/ Outside) => GreenInv'
<1> SUFFICES ASSUME Inv, GreenInv, StartReport \/ StartBoard \/ OpenOther \/ CloseOther \/ Outside
             PROVE  GreenInv'
  OBVIOUS
<1>1. TypeOK /\ Boards
  BY DEF Inv, GreenInv
<1>2. Ranked \subseteq Real
  BY DEF Ranked
<1>3. Disturbs /\ build' = build
  BY DEF StartReport, StartBoard, Starts, Change, OpenOther, CloseOther, Outside
<1>4. CASE StartReport \/ StartBoard
  <2>1. disk' = disk /\ (other'.file = "board" => other'.text = Ranked)
    BY <1>4 DEF StartReport, StartBoard, Starts
  <2> QED BY <1>1, <1>2, <1>3, <2>1, DisturbedGreen DEF Boards
<1>5. CASE OpenOther \/ CloseOther
  <2>1. other # Idle /\ other.file \in {"tables", "board"} /\ DOMAIN disk = Files
    BY <1>1, <1>5 DEF OpenOther, CloseOther, TypeOK
  <2>2. Boards' /\ disk'["checksums"] = disk["checksums"]
    <3>1. CASE OpenOther
      BY <1>1, <2>1, <3>1, FileFacts DEF OpenOther, Boards, Unfinished, TypeOK
    <3>2. CASE CloseOther
      BY <1>1, <2>1, <3>2, FileFacts DEF CloseOther, Boards, Unfinished
    <3> QED BY <1>5, <3>1, <3>2
  <2> QED BY <1>3, <2>2, DisturbedGreen
<1>6. CASE Outside
  <2>1. \A f \in {"board", "checksums"} : disk'[f] = disk[f]
    BY <1>1, <1>6, FileFacts DEF Outside, RunsChange, TreeChanges, Author, Name, Ablate, TypeOK
  <2>2. other' = other
    BY <1>6 DEF Outside
  <2> QED BY <1>1, <1>3, <2>1, <2>2, DisturbedGreen DEF Boards
<1> QED BY <1>4, <1>5, <1>6

LEMMA StopsGreen == Inv /\ GreenInv /\ (Crash \/ KillBuild \/ KillOther) => GreenInv'
<1> SUFFICES ASSUME Inv, GreenInv, Crash \/ KillBuild \/ KillOther PROVE GreenInv'
  OBVIOUS
<1>1. CASE Crash \/ KillBuild
  <2>1. build' = Idle /\ calm' = 0 /\ UNCHANGED <<disk, other>>
    BY <1>1 DEF Crash, KillBuild, StopBuild
  <2> QED BY <2>1 DEF GreenInv, Boards, Undisturbed, Left, SumsStay, Building, At
<1>2. CASE KillOther
  <2>1. other' = Idle /\ UNCHANGED <<world, disk, build, calm>>
    BY <1>2 DEF KillOther
  <2>2. (Ready' <=> Ready) /\ Swept' = Swept /\ Due' = Due /\ tree' = tree /\ Copy' = Copy
    BY <2>1, ReadyStays DEF Copy
  <2> QED BY <2>1, <2>2 DEF GreenInv, Boards, Undisturbed, Left, SumsStay, Building, At
<1> QED BY <1>1, <1>2

\* A step of a build that goes on, and writes none but its own files.
LEMMA BuildGreen ==
  ASSUME Inv, GreenInv, UNCHANGED <<world, other, calm>>, build' # Idle,
         \A f \in {"documents", "tables", "board"} : disk'[f] = disk[f],
         Undisturbed', SumsStay'
  PROVE  GreenInv'
BY DEF GreenInv, Boards, Left, Building

\* What a step of a build leaves as it is.
LEMMA GoesOn ==
  ASSUME TypeOK, Building, DOMAIN build' = DOMAIN build, UNCHANGED world,
         \A f \in {"documents", "tables", "board"} : disk'[f] = disk[f]
  PROVE  /\ build' # Idle
         /\ (Ready' <=> Ready) /\ Swept' = Swept /\ Due' = Due /\ tree' = tree
<1>1. "open" \in DOMAIN build'
  BY DEF TypeOK, BuildType, Building
<1>2. "open" \notin DOMAIN Idle
  BY DEF Idle
<1> QED BY <1>1, <1>2, ReadyStays

LEMMA StartBuildGreen == Inv /\ GreenInv /\ StartBuild => GreenInv'
<1> SUFFICES ASSUME Inv, GreenInv, StartBuild PROVE GreenInv'
  OBVIOUS
<1>1. /\ build' = [step |-> "collect", open |-> FALSE, current |-> tree.evaluator, ids |-> Swept,
                   manifest |-> Absent, failed |-> {}, sums |-> Absent]
      /\ UNCHANGED <<world, disk, other, calm>>
  BY DEF StartBuild, Swept
<1>2. Swept' = Swept /\ tree' = tree
  BY <1>1, ReadyStays
<1>3. build' # Idle
  BY <1>1 DEF Idle
<1>4. build'.step = "collect" /\ build'.ids = Swept /\ build'.current = tree.evaluator
  BY <1>1
<1>5. Undisturbed' /\ SumsStay'
  BY <1>1, <1>2, <1>4 DEF GreenInv, Undisturbed, SumsStay, At, Judged
<1> QED BY <1>1, <1>3, <1>5, BuildGreen

LEMMA CollectGreen == Inv /\ GreenInv /\ Collect => GreenInv'
<1> SUFFICES ASSUME Inv, GreenInv, Collect PROVE GreenInv'
  OBVIOUS
<1>1. /\ Building /\ build.step = "collect" /\ UNCHANGED <<world, disk, other, calm>>
      /\ build' = [build EXCEPT !.step = "manifest", !.manifest = Manifest(build.ids, build.current)]
  BY DEF Collect, At
<1>2. TypeOK /\ Undisturbed /\ SumsStay
  BY DEF Inv, GreenInv
<1>3. /\ build'.step = "manifest" /\ build'.manifest = Manifest(build.ids, build.current)
      /\ build'.ids = build.ids /\ build'.current = build.current /\ DOMAIN build' = DOMAIN build
  BY <1>1, <1>2 DEF TypeOK, BuildType, Building
<1>4. build' # Idle /\ (Ready' <=> Ready) /\ Swept' = Swept /\ Due' = Due /\ tree' = tree
  BY <1>1, <1>2, <1>3, GoesOn
<1>5. Undisturbed'
  BY <1>1, <1>2, <1>3, <1>4 DEF Undisturbed, Judged, Due
<1>6. SumsStay'
  BY <1>1, <1>2, <1>3 DEF SumsStay, At
<1> QED BY <1>1, <1>4, <1>5, <1>6, BuildGreen

\* A build writes one file, and is the same otherwise.
LEMMA WritesOne ==
  ASSUME TypeOK, Building, NEW f \in Four, NEW text, NEW next, Write(f, text, next)
  PROVE  /\ DOMAIN build' = DOMAIN build /\ UNCHANGED <<world, other, calm>>
         /\ \A x \in {"current", "ids", "manifest", "failed", "sums"} : build'[x] = build[x]
         /\ \A x \in Files \ {f} : disk'[x] = disk[x]
         /\ \/ disk'[f] = Torn /\ build'.step = build.step
            \/ disk'[f] = text /\ build'.step = next
<1>1. /\ DOMAIN build = {"step", "open", "current", "ids", "manifest", "failed", "sums"}
      /\ DOMAIN disk = Files /\ f \in Files
  BY FileFacts DEF TypeOK, BuildType, Building, Four
<1>2. CASE ~build.open
  <2>1. disk' = [disk EXCEPT ![f] = Torn] /\ build' = [build EXCEPT !.open = TRUE]
    BY <1>2 DEF Write
  <2> QED BY <1>1, <2>1 DEF Write
<1>3. CASE build.open
  <2>1. disk' = [disk EXCEPT ![f] = text] /\ build' = [build EXCEPT !.open = FALSE, !.step = next]
    BY <1>3 DEF Write
  <2> QED BY <1>1, <2>1 DEF Write
<1> QED BY <1>2, <1>3

LEMMA WriteManifestGreen == Inv /\ GreenInv /\ WriteManifest => GreenInv'
<1> SUFFICES ASSUME Inv, GreenInv, WriteManifest PROVE GreenInv'
  OBVIOUS
<1>1. Building /\ build.step = "manifest" /\ Write("manifest", build.manifest, "code")
  BY DEF WriteManifest, At
<1>2. TypeOK /\ Undisturbed /\ SumsStay
  BY DEF Inv, GreenInv
<1>3. /\ DOMAIN build' = DOMAIN build /\ UNCHANGED <<world, other, calm>>
      /\ \A x \in {"current", "ids", "manifest", "failed", "sums"} : build'[x] = build[x]
      /\ \A f \in {"documents", "tables", "board", "checksums"} : disk'[f] = disk[f]
      /\ \/ build'.step = "manifest"
         \/ build'.step = "code" /\ disk'["manifest"] = build.manifest
  BY <1>1, <1>2, WritesOne, FileFacts DEF Four
<1>4. build' # Idle /\ (Ready' <=> Ready) /\ Swept' = Swept /\ Due' = Due /\ tree' = tree
  BY <1>1, <1>2, <1>3, GoesOn
<1>5. Undisturbed'
  BY <1>1, <1>2, <1>3, <1>4 DEF Undisturbed, Judged
<1>6. SumsStay'
  BY <1>1, <1>2, <1>3 DEF SumsStay, At
<1> QED BY <1>3, <1>4, <1>5, <1>6, BuildGreen

LEMMA JudgeCodeGreen == Inv /\ GreenInv /\ JudgeCode => GreenInv'
<1> SUFFICES ASSUME Inv, GreenInv, JudgeCode PROVE GreenInv'
  OBVIOUS
<1>1. /\ Building /\ build.step = "code" /\ UNCHANGED <<world, disk, other, calm>>
      /\ build' = [build EXCEPT !.step = "evidence",
                                !.failed = IF tree.healthy THEN {} ELSE {"code"}]
  BY DEF JudgeCode, At
<1>2. TypeOK /\ Undisturbed /\ SumsStay
  BY DEF Inv, GreenInv
<1>3. /\ build'.step = "evidence" /\ (tree.healthy => build'.failed = {})
      /\ \A x \in {"current", "ids", "manifest", "sums"} : build'[x] = build[x]
      /\ DOMAIN build' = DOMAIN build
  BY <1>1, <1>2 DEF TypeOK, BuildType, Building
<1>4. build' # Idle /\ (Ready' <=> Ready) /\ Swept' = Swept /\ Due' = Due /\ tree' = tree
  BY <1>1, <1>2, <1>3, GoesOn
<1>5. Ready => tree.healthy
  BY DEF Ready
<1>6. Undisturbed'
  BY <1>1, <1>2, <1>3, <1>4, <1>5 DEF Undisturbed, Judged
<1>7. SumsStay'
  BY <1>1, <1>2, <1>3 DEF SumsStay, At
<1> QED BY <1>1, <1>4, <1>6, <1>7, BuildGreen

LEMMA JudgeEvidenceGreen == Inv /\ GreenInv /\ JudgeEvidence => GreenInv'
<1> SUFFICES ASSUME Inv, GreenInv, JudgeEvidence PROVE GreenInv'
  OBVIOUS
<1>1. /\ Building /\ build.step = "evidence" /\ UNCHANGED <<world, disk, other, calm>>
      /\ build' = [build EXCEPT !.step = "gates",
                     !.failed = build.failed \cup {g \in Gates : Fails(g, disk["manifest"])}]
  BY DEF JudgeEvidence, At
<1>2. TypeOK /\ Undisturbed /\ SumsStay /\ Boards
  BY DEF Inv, GreenInv
<1>3. /\ build'.step = "gates"
      /\ build'.failed = build.failed \cup {g \in Gates : Fails(g, disk["manifest"])}
      /\ \A x \in {"current", "ids", "manifest", "sums"} : build'[x] = build[x]
      /\ DOMAIN build' = DOMAIN build
  BY <1>1, <1>2 DEF TypeOK, BuildType, Building
<1>4. build' # Idle /\ (Ready' <=> Ready) /\ Swept' = Swept /\ Due' = Due /\ tree' = tree
  BY <1>1, <1>2, <1>3, GoesOn
<1>5. Ready /\ calm >= 1 => \A g \in Gates : ~Fails(g, Due)
  BY <1>2, NothingFails DEF SumsStay
<1>6. Ready /\ calm >= 1 => build'.failed = {}
  <2> HAVE Ready /\ calm >= 1
  <2>1. disk["manifest"] = Due /\ build.failed = {}
    BY <1>1, <1>2 DEF Undisturbed, TypeOK
  <2> QED BY <1>3, <1>5, <2>1
<1>7. Undisturbed'
  BY <1>1, <1>2, <1>3, <1>4, <1>6 DEF Undisturbed, Judged
<1>8. SumsStay'
  BY <1>1, <1>2, <1>3 DEF SumsStay, At
<1> QED BY <1>1, <1>4, <1>7, <1>8, BuildGreen

LEMMA WriteGatesGreen == Inv /\ GreenInv /\ WriteGates => GreenInv'
<1> SUFFICES ASSUME Inv, GreenInv, WriteGates PROVE GreenInv'
  OBVIOUS
<1>1. /\ Building /\ build.step = "gates"
      /\ Write("gates", [build |-> builds, failed |-> build.failed, of |-> disk["manifest"]],
               "blockers")
  BY DEF WriteGates, At
<1>2. TypeOK /\ Undisturbed /\ SumsStay
  BY DEF Inv, GreenInv
<1>3. /\ DOMAIN build' = DOMAIN build /\ UNCHANGED <<world, other, calm>>
      /\ \A x \in {"current", "ids", "manifest", "failed", "sums"} : build'[x] = build[x]
      /\ \A f \in {"documents", "tables", "board", "checksums", "manifest"} : disk'[f] = disk[f]
      /\ build'.step \in {"gates", "blockers"}
  BY <1>1, <1>2, WritesOne, FileFacts DEF Four
<1>4. build' # Idle /\ (Ready' <=> Ready) /\ Swept' = Swept /\ Due' = Due /\ tree' = tree
  BY <1>1, <1>2, <1>3, GoesOn
<1>5. Undisturbed'
  BY <1>1, <1>2, <1>3, <1>4 DEF Undisturbed, Judged
<1>6. SumsStay'
  BY <1>1, <1>2, <1>3 DEF SumsStay, At
<1> QED BY <1>3, <1>4, <1>5, <1>6, BuildGreen

LEMMA WriteBlockersGreen == Inv /\ GreenInv /\ WriteBlockers => GreenInv'
<1> SUFFICES ASSUME Inv, GreenInv, WriteBlockers PROVE GreenInv'
  OBVIOUS
<1>1. /\ Building /\ build.step = "blockers"
      /\ Write("blockers", build.failed, "checksums")
  BY DEF WriteBlockers, At
<1>2. TypeOK /\ Undisturbed /\ SumsStay
  BY DEF Inv, GreenInv
<1>3. /\ DOMAIN build' = DOMAIN build /\ UNCHANGED <<world, other, calm>>
      /\ \A x \in {"current", "ids", "manifest", "failed", "sums"} : build'[x] = build[x]
      /\ \A f \in {"documents", "tables", "board", "checksums", "manifest"} : disk'[f] = disk[f]
      /\ build'.step \in {"blockers", "checksums"}
  BY <1>1, <1>2, WritesOne, FileFacts DEF Four
<1>4. build' # Idle /\ (Ready' <=> Ready) /\ Swept' = Swept /\ Due' = Due /\ tree' = tree
  BY <1>1, <1>2, <1>3, GoesOn
<1>5. Undisturbed'
  BY <1>1, <1>2, <1>3, <1>4 DEF Undisturbed, Judged
<1>6. SumsStay'
  BY <1>1, <1>2, <1>3 DEF SumsStay, At
<1> QED BY <1>3, <1>4, <1>5, <1>6, BuildGreen

LEMMA UnblockGreen == Inv /\ GreenInv /\ Unblock => GreenInv'
<1> SUFFICES ASSUME Inv, GreenInv, Unblock PROVE GreenInv'
  OBVIOUS
<1>1. /\ Building /\ build.step = "blockers" /\ UNCHANGED <<world, other, calm>>
      /\ build' = [build EXCEPT !.step = "checksums"]
      /\ disk' = [disk EXCEPT !["blockers"] = Absent]
  BY DEF Unblock, At
<1>2. TypeOK /\ Undisturbed /\ SumsStay
  BY DEF Inv, GreenInv
<1>3. /\ build'.step = "checksums" /\ DOMAIN build' = DOMAIN build
      /\ \A x \in {"current", "ids", "manifest", "failed", "sums"} : build'[x] = build[x]
      /\ \A f \in {"documents", "tables", "board", "checksums", "manifest"} : disk'[f] = disk[f]
  BY <1>1, <1>2, FileFacts DEF TypeOK, BuildType, Building
<1>4. build' # Idle /\ (Ready' <=> Ready) /\ Swept' = Swept /\ Due' = Due /\ tree' = tree
  BY <1>1, <1>2, <1>3, GoesOn
<1>5. Undisturbed'
  BY <1>1, <1>2, <1>3, <1>4 DEF Undisturbed, Judged
<1>6. SumsStay'
  BY <1>1, <1>2, <1>3 DEF SumsStay, At
<1> QED BY <1>1, <1>3, <1>4, <1>5, <1>6, BuildGreen

LEMMA SumGreen == Inv /\ GreenInv /\ Sum => GreenInv'
<1> SUFFICES ASSUME Inv, GreenInv, Sum PROVE GreenInv'
  OBVIOUS
<1>1. /\ Building /\ build.step = "checksums" /\ UNCHANGED <<world, disk, other, calm>>
      /\ build' = [build EXCEPT !.step = "sums", !.sums = Copy]
  BY DEF Sum, At, Copy
<1>2. TypeOK /\ Undisturbed /\ SumsStay
  BY DEF Inv, GreenInv
<1>3. /\ build'.step = "sums" /\ build'.sums = Copy /\ DOMAIN build' = DOMAIN build
      /\ \A x \in {"current", "ids", "manifest", "failed"} : build'[x] = build[x]
  BY <1>1, <1>2 DEF TypeOK, BuildType, Building
<1>4. build' # Idle /\ (Ready' <=> Ready) /\ Swept' = Swept /\ Due' = Due /\ tree' = tree
  BY <1>1, <1>2, <1>3, GoesOn
<1>5. Copy' = Copy /\ Copy # Absent
  BY <1>1, <1>2, CopyIsText DEF Copy, Unfinished
<1>6. Undisturbed'
  BY <1>1, <1>2, <1>3, <1>4, <1>5 DEF Undisturbed, Judged
<1>7. SumsStay'
  BY <1>1, <1>2, <1>3, <1>5 DEF SumsStay, At
<1> QED BY <1>1, <1>4, <1>6, <1>7, BuildGreen

LEMMA WriteSumsGreen == Inv /\ GreenInv /\ WriteSums => GreenInv'
<1> SUFFICES ASSUME Inv, GreenInv, WriteSums PROVE GreenInv'
  OBVIOUS
<1>1. Building /\ build.step = "sums" /\ Write("checksums", build.sums, "done")
  BY DEF WriteSums, At
<1>2. TypeOK /\ Undisturbed /\ SumsStay /\ build.sums # Absent
  BY <1>1 DEF Inv, GreenInv, SumsStay, At
<1>3. /\ DOMAIN build' = DOMAIN build /\ UNCHANGED <<world, other, calm>>
      /\ \A x \in {"current", "ids", "manifest", "failed", "sums"} : build'[x] = build[x]
      /\ \A f \in Bundle \cup {"board"} : disk'[f] = disk[f]
      /\ \/ build'.step = "sums" /\ disk'["checksums"] = Torn
         \/ build'.step = "done" /\ disk'["checksums"] = build.sums
  BY <1>1, <1>2, WritesOne, FileFacts DEF Four
<1>4. Copy' = Copy /\ \A f \in {"documents", "tables", "board", "manifest"} : disk'[f] = disk[f]
  BY <1>3, FileFacts DEF Copy
<1>5. build' # Idle /\ (Ready' <=> Ready) /\ Swept' = Swept /\ Due' = Due /\ tree' = tree
  BY <1>1, <1>2, <1>3, <1>4, GoesOn
<1>6. Undisturbed'
  BY <1>1, <1>2, <1>3, <1>4, <1>5 DEF Undisturbed, Judged
<1>7. SumsStay'
  BY <1>1, <1>2, <1>3, ReleaseAssumption DEF SumsStay, At
<1> QED BY <1>3, <1>4, <1>5, <1>6, <1>7, BuildGreen

LEMMA EndBuildGreen == Inv /\ GreenInv /\ EndBuild => GreenInv'
<1> SUFFICES ASSUME Inv, GreenInv, EndBuild PROVE GreenInv'
  OBVIOUS
<1>1. /\ Building /\ build.step = "done" /\ UNCHANGED <<world, disk, other>>
      /\ build' = Idle /\ calm' = calm + 1
  BY DEF EndBuild, At
<1>2. calm \in Int /\ disk["checksums"] # Absent
  BY <1>1, ReleaseAssumption DEF Inv, TypeOK, GreenInv, SumsStay, At
<1>3. (Ready' <=> Ready) /\ Copy' = Copy
  BY <1>1, ReadyStays DEF Copy
<1>4. disk["gates"].failed = build.failed
  BY <1>1 DEF Inv, Progress, Judged
<1>5. Left'
  BY <1>1, <1>2, <1>3, <1>4 DEF GreenInv, Undisturbed, Left, Judged, Building
<1> QED BY <1>1, <1>2, <1>5 DEF GreenInv, Boards, Undisturbed, SumsStay, At, Building

LEMMA StepGreen == Inv /\ GreenInv /\ [Next]_vars => GreenInv'
<1> SUFFICES ASSUME Inv, GreenInv, [Next]_vars PROVE GreenInv'
  OBVIOUS
<1>1. CASE UNCHANGED vars
  <2>1. UNCHANGED <<world, disk, build, other, calm>>
    BY <1>1 DEF vars
  <2>2. (Ready' <=> Ready) /\ Swept' = Swept /\ Due' = Due /\ tree' = tree /\ Copy' = Copy
    BY <2>1, ReadyStays DEF Copy
  <2> QED BY <2>1, <2>2 DEF GreenInv, Boards, Undisturbed, Left, SumsStay, Building, At
<1>2. CASE Next
  BY <1>2, StartBuildGreen, CollectGreen, WriteManifestGreen, JudgeCodeGreen,
     JudgeEvidenceGreen, WriteGatesGreen, WriteBlockersGreen, UnblockGreen, SumGreen,
     WriteSumsGreen, EndBuildGreen, StopsGreen, OthersGreen DEF Next
<1> QED BY <1>1, <1>2

\* Where the world is ready and stays as it is, the second completed build tags the release
\* (cli.py release-build, release.py check_release_gates).
THEOREM GoesGreen == Spec => []GatesCanGoGreen
<1>1. TypeOK /\ GreenInv => GatesCanGoGreen
  <2> SUFFICES ASSUME TypeOK, GreenInv, build = Idle, calm >= 2, Ready
               PROVE  Verifies /\ disk["gates"].failed = {}
    BY DEF GatesCanGoGreen
  <2>1. calm >= 1
    BY ReleaseAssumption DEF TypeOK
  <2>2. disk["checksums"] = Copy /\ disk["gates"].failed = {}
    BY <2>1 DEF GreenInv, Left, Building
  <2>3. Verifies
    BY <2>2, CopyIsText DEF Verifies, Copy, Unfinished
  <2> QED BY <2>2, <2>3
<1>2. Inv => TypeOK
  BY DEF Inv
<1> QED BY <1>1, <1>2, Invariance, InitGreen, StepGreen, PTL DEF Spec
=============================================================================
