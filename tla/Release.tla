-------------------------------- MODULE Release --------------------------------
(***************************************************************************)
(* The release directory: what release-build and release-report write      *)
(* there file by file, which runs they take, the gates that decide whether *)
(* the release is tagged, and the leaderboard one gate reads.  A release   *)
(* command may be killed at any write; the runs, the source tree and the   *)
(* authored documents may change between any two of its steps.             *)
(*                                                                         *)
(* Of a run directory only what these commands tell apart is kept: the     *)
(* evaluator environment.json names and the one the other files are of.    *)
(***************************************************************************)
EXTENDS Integers, FiniteSets

CONSTANTS
  Runs,         \* run ids
  Real,         \* those whose provider was not the mock
  Smoke,        \* those of the smoke group
  Frozen,       \* those that asked a frozen sample manifest
  Nameable,     \* runs the user may give as --run-id
  Conforming,   \* those of which an entry satisfies the manifest's schema: all settings recorded
  Needs,        \* experiments a release must publish: [among: SUBSET Runs, count: Nat]
  MaxEvaluator, \* bound: versions of the evaluator
  MaxEvents,    \* bound: release-builds started, and changes made around them, in all
  Absent, Torn,
  NoDigest,     \* a run written before fingerprints were recorded
  NoRemote      \* git knows no origin/main

Evaluators == 1..MaxEvaluator
Digests == Evaluators \cup {NoDigest}
Commits == Nat

\* grades: the evaluator that wrote metrics, coverage and predictions, if they are there.
Directories == [digest : Digests, grades : Digests \cup {Absent}]

Entries == [run : Runs, digest : Digests, grades : Digests]
Manifests ==
  [digest : Evaluators, commit : Commits, dirty : BOOLEAN, runs : SUBSET Entries]

Gates ==
  {"code", "clean tree", "HEAD == origin/main", "valid manifest", "built from a clean commit",
   "checksums exist", "no mock rows", "one fingerprint", "no mock published",
   "runs complete", "documents"}

\* gate_results.json, which bears the time it was written; `of` is the manifest judged.
Verdicts == [build : 1..MaxEvents, failed : SUBSET Gates, of : Manifests]

Pages == [digest : Evaluators, runs : SUBSET Runs]

\* "documents": report.md, the reviews and guides; "tables": what release-report generates.
Bundle == {"manifest", "gates", "blockers", "documents", "tables"}
Files == Bundle \cup {"checksums", "board"}

ASSUME ReleaseAssumption ==
  /\ Real \subseteq Runs /\ Smoke \subseteq Runs /\ Frozen \subseteq Runs
  /\ Nameable \subseteq Runs /\ Conforming \subseteq Runs
  /\ IsFiniteSet(Runs)
  /\ Needs \subseteq [among : SUBSET Runs, count : Nat]
  /\ MaxEvaluator \in Nat \ {0} /\ MaxEvents \in Nat
  /\ NoDigest \notin Evaluators /\ NoRemote \notin Commits /\ Absent \notin Digests
  /\ Absent # Torn
  /\ {Absent, Torn} \cap (Manifests \cup Verdicts) = {}
  /\ \A G \in SUBSET Gates : G \notin {Absent, Torn}
  /\ {Absent, Torn} \cap
       [Bundle -> {Absent, Torn} \cup Manifests \cup Verdicts \cup (SUBSET Gates) \cup Nat \cup Pages]
     = {}

VARIABLES
  runs,    \* runs/: a directory's state, Absent without environment.json, Torn if unreadable
  tree,    \* the checkout: [evaluator, healthy, dirty, commit, remote]
  named,   \* the --run-id list of the user's next release-build
  cells,   \* reports/retrieval_ablation.json has its 18 cells
  disk,    \* the files of release/<version>/, and reports/leaderboard.json
  build,   \* the release-build under way
  other,   \* the release-report or leaderboard under way: the file and what it will hold
  builds,  \* release-builds started
  changes, \* changes made from outside
  calm     \* history: builds completed since anything but release-build acted

\* No command is under way.
Idle == [step |-> "idle"]

world == <<runs, tree, named, cells>>
vars == <<world, disk, build, other, builds, changes, calm>>

-----------------------------------------------------------------------------
(* What a release publishes. *)

Readable(r) == runs[r] \notin {Absent, Torn}

\* Every environment.json under runs/ is parsed, whoever the run belongs to.
Legible == \A r \in Runs : runs[r] # Torn

\* A run the release means to publish: real, of the current evaluator, of frozen questions.
Meant(r) ==
  /\ Readable(r)
  /\ r \in Real
  /\ runs[r].digest = tree.evaluator
  /\ r \in Frozen

\* --run-id adds to the sweep; each must exist.
NamedExist == \A r \in named : runs[r] # Absent

\* build_release skips what has no environment.json any more, and needs the rest whole.
Published(ids) == {r \in ids : runs[r] # Absent}

Collectable(ids) == \A r \in Published(ids) : Readable(r) /\ runs[r].grades # Absent

EntryOf(r) == [run |-> r, digest |-> runs[r].digest, grades |-> runs[r].grades]

\* Mutant of Dirty: what release-build itself writes counts.
DirtyAnywhere == tree.dirty \/ build # Idle

\* Uncommitted changes outside release/.
Dirty == tree.dirty

Manifest(ids, current) ==
  [digest |-> current, commit |-> tree.commit, dirty |-> Dirty,
   runs |-> {EntryOf(r) : r \in Published(ids)}]

\* What the gates read: the manifest file, never the directory of runs.
Ids(m) == {e.run : e \in m.runs}
Fingerprints(m) == {e.digest : e \in m.runs} \ {NoDigest}

\* Mutant of OneFingerprint: none is as good as one.
AtMostOne(m) == Cardinality(Fingerprints(m)) <= 1

OneFingerprint(m) == Cardinality(Fingerprints(m)) = 1
Complete(ids) == \A need \in Needs : Cardinality(ids \cap need.among) >= need.count
-----------------------------------------------------------------------------

(* The gates. *)

\* check_release_gates after the tools and tests, on the manifest it reads back.  A git
\* that knows no remote makes its gate NOT APPLICABLE, which fails nothing.
Fails(g, m) ==
  \/ g = "clean tree" /\ Dirty
  \/ g = "HEAD == origin/main" /\ tree.remote \notin {NoRemote, tree.commit}
  \/ g = "valid manifest" /\ ~(Ids(m) \subseteq Conforming)
  \/ g = "built from a clean commit" /\ m.dirty
  \/ g = "checksums exist" /\ disk["checksums"] = Absent
  \/ g = "no mock rows" /\ disk["board"] \notin {Absent, Torn} /\ ~(disk["board"] \subseteq Real)
  \/ g = "one fingerprint" /\ ~OneFingerprint(m)
  \/ g = "no mock published" /\ ~(Ids(m) \subseteq Real)
  \/ g = "runs complete" /\ ~(Complete(Ids(m)) /\ cells)
  \/ g = "documents" /\ disk["documents"] = Absent

-----------------------------------------------------------------------------
(* release-build. *)

Building == build # Idle
At(step) == Building /\ build.step = step

\* Opening a file truncates it; closing it leaves the whole text.
Write(f, text, next) ==
  /\ \/ /\ ~build.open
        /\ disk' = [disk EXCEPT ![f] = Torn]
        /\ build' = [build EXCEPT !.open = TRUE]
     \/ /\ build.open
        /\ disk' = [disk EXCEPT ![f] = text]
        /\ build' = [build EXCEPT !.open = FALSE, !.step = next]
  /\ UNCHANGED <<world, other, builds, changes, calm>>

\* The sweep.  A torn environment.json ends it, and so does a name without a run; nothing
\* is written then, and no step is taken here.
StartBuild ==
  /\ build = Idle
  /\ builds + changes < MaxEvents
  /\ Legible /\ NamedExist
  /\ build' = [step |-> "collect", open |-> FALSE, current |-> tree.evaluator,
               ids |-> {r \in Runs : Meant(r)} \cup named,
               manifest |-> Absent, failed |-> {}, sums |-> Absent]
  /\ builds' = builds + 1
  /\ UNCHANGED <<world, disk, other, changes, calm>>

\* build_release reads every run again.
Collect ==
  /\ At("collect")
  /\ Collectable(build.ids)
  /\ build' = [build EXCEPT !.step = "manifest", !.manifest = Manifest(build.ids, build.current)]
  /\ UNCHANGED <<world, disk, other, builds, changes, calm>>

\* The schema and the limitations, copied beside it and always the same, are left out.
WriteManifest == At("manifest") /\ Write("manifest", build.manifest, "code")

\* ruff, mypy, the test suites and the secret scan.
JudgeCode ==
  /\ At("code")
  /\ build' = [build EXCEPT !.step = "evidence", !.failed = IF tree.healthy THEN {} ELSE {"code"}]
  /\ UNCHANGED <<world, disk, other, builds, changes, calm>>

JudgeEvidence ==
  /\ At("evidence")
  /\ disk["board"] # Torn
  /\ build' = [build EXCEPT !.step = "gates",
                 !.failed = build.failed \cup {g \in Gates : Fails(g, disk["manifest"])}]
  /\ UNCHANGED <<world, disk, other, builds, changes, calm>>

WriteGates ==
  /\ At("gates")
  /\ Write("gates", [build |-> builds, failed |-> build.failed, of |-> disk["manifest"]],
           "blockers")

WriteBlockers ==
  At("blockers") /\ build.failed # {} /\ Write("blockers", build.failed, "checksums")

\* Mutant of Unblock: nobody takes the old BLOCKERS.md away.
LeaveBlocked ==
  /\ At("blockers")
  /\ build.failed = {}
  /\ build' = [build EXCEPT !.step = "checksums"]
  /\ UNCHANGED <<world, disk, other, builds, changes, calm>>

\* Nothing failed: an old BLOCKERS.md goes.
Unblock ==
  /\ At("blockers")
  /\ build.failed = {}
  /\ disk' = [disk EXCEPT !["blockers"] = Absent]
  /\ build' = [build EXCEPT !.step = "checksums"]
  /\ UNCHANGED <<world, other, builds, changes, calm>>

\* Every file of the directory but checksums.txt is read, and then that is written.
Sum ==
  /\ At("checksums")
  /\ build' = [build EXCEPT !.step = "sums", !.sums = [f \in Bundle |-> disk[f]]]
  /\ UNCHANGED <<world, disk, other, builds, changes, calm>>

WriteSums == At("sums") /\ Write("checksums", build.sums, "done")

EndBuild ==
  /\ At("done")
  /\ build' = Idle
  /\ calm' = calm + 1
  /\ UNCHANGED <<world, disk, other, builds, changes>>

\* A traceback: a run that cannot be collected, a leaderboard.json that cannot be read.
BuildFails ==
  \/ At("collect") /\ ~Collectable(build.ids)
  \/ At("evidence") /\ disk["board"] = Torn

StopBuild ==
  /\ build' = Idle
  /\ calm' = 0
  /\ UNCHANGED <<world, disk, other, builds, changes>>

Crash == BuildFails /\ StopBuild
KillBuild == Building /\ StopBuild

-----------------------------------------------------------------------------
(* release-report and leaderboard. *)

\* What stops the history of undisturbed builds, and the build under way from counting.
Disturbs == calm' = IF Building THEN -1 ELSE 0

Change ==
  /\ builds + changes < MaxEvents
  /\ changes' = changes + 1
  /\ Disturbs

\* The pages name one evaluator, and show only runs of it.
OnPage(r) == r \in Real /\ Readable(r) /\ runs[r].digest = tree.evaluator

Page == [digest |-> tree.evaluator, runs |-> {r \in Runs : OnPage(r)}]

\* The leaderboard ranks real runs, of any evaluator, that are no pipeline test.
Ranked == {r \in Real \ Smoke : runs[r] # Absent}

Starts(f, text) ==
  /\ other = Idle
  /\ Legible
  /\ Change
  /\ other' = [file |-> f, text |-> text, open |-> FALSE]
  /\ UNCHANGED <<world, disk, build, builds>>

StartReport == Page.runs # {} /\ Starts("tables", Page)
StartBoard == Starts("board", Ranked)

\* The files of one command are written from what it read at its start.  They are taken as
\* one: Torn stands for any mixture of old, new and half-written ones.
OpenOther ==
  /\ other # Idle /\ ~other.open
  /\ disk' = [disk EXCEPT ![other.file] = Torn]
  /\ other' = [other EXCEPT !.open = TRUE]
  /\ Disturbs
  /\ UNCHANGED <<world, build, builds, changes>>

CloseOther ==
  /\ other # Idle /\ other.open
  /\ disk' = [disk EXCEPT ![other.file] = other.text]
  /\ other' = Idle
  /\ Disturbs
  /\ UNCHANGED <<world, build, builds, changes>>

KillOther ==
  /\ other # Idle
  /\ other' = Idle
  /\ UNCHANGED <<world, disk, build, builds, changes, calm>>

-----------------------------------------------------------------------------
(* The world. *)

\* A run command writes environment.json under the evaluator of the checkout; the other
\* files of the directory are the old ones until it has ended.
RunWrites(r) ==
  runs' = [runs EXCEPT ![r] =
             [digest |-> tree.evaluator,
              grades |-> IF Readable(r) THEN runs[r].grades ELSE Absent]]

RunEnds(r) == Readable(r) /\ runs' = [runs EXCEPT ![r].grades = runs[r].digest]

RunLost(r) == \E left \in {Absent, Torn} : runs' = [runs EXCEPT ![r] = left]

RunsChange ==
  /\ \E r \in Runs : RunWrites(r) \/ RunEnds(r) \/ RunLost(r)
  /\ UNCHANGED <<tree, named, cells, disk>>

Edit ==
  \E e \in tree.evaluator..MaxEvaluator, h \in BOOLEAN :
    tree' = [tree EXCEPT !.evaluator = e, !.healthy = h, !.dirty = TRUE]

Commit == tree' = [tree EXCEPT !.commit = tree.commit + 1, !.dirty = FALSE]

Push == tree' = [tree EXCEPT !.remote = tree.commit]

TreeChanges == (Edit \/ Commit \/ Push) /\ UNCHANGED <<runs, named, cells, disk>>

Author ==
  /\ \E text \in {Absent, changes + 2} : disk' = [disk EXCEPT !["documents"] = text]
  /\ UNCHANGED world

Name == named' \in SUBSET Nameable /\ UNCHANGED <<runs, tree, cells, disk>>

Ablate == cells' = ~cells /\ UNCHANGED <<runs, tree, named, disk>>

Outside ==
  /\ Change
  /\ RunsChange \/ TreeChanges \/ Author \/ Name \/ Ablate
  /\ UNCHANGED <<build, other, builds>>

-----------------------------------------------------------------------------
Init ==
  /\ runs \in [Runs -> {[digest |-> d, grades |-> d] : d \in {1, NoDigest}}]
  /\ tree \in [evaluator : {1}, healthy : {TRUE}, dirty : {FALSE}, commit : {0},
               remote : {NoRemote}]
  /\ named = {}
  /\ cells = TRUE
  /\ disk = [f \in Files |-> IF f = "documents" THEN 1 ELSE Absent]
  /\ build = Idle /\ other = Idle
  /\ builds = 0 /\ changes = 0 /\ calm = 0

Next ==
  \/ StartBuild \/ Collect
  \/ WriteManifest
  \/ JudgeCode \/ JudgeEvidence \/ WriteGates
  \/ WriteBlockers \/ Unblock
  \/ Sum \/ WriteSums \/ EndBuild
  \/ Crash \/ KillBuild
  \/ StartReport \/ StartBoard \/ OpenOther \/ CloseOther \/ KillOther
  \/ Outside

Spec == Init /\ [][Next]_vars

-----------------------------------------------------------------------------
(* Properties. *)

Unfinished == {Absent, Torn}

Steps ==
  {"collect", "manifest", "code", "evidence", "gates", "blockers", "checksums", "sums", "done"}

BuildType ==
  build # Idle =>
    /\ DOMAIN build = {"step", "open", "current", "ids", "manifest", "failed", "sums"}
    /\ build.step \in Steps /\ build.open \in BOOLEAN
    /\ build.current \in Evaluators /\ build.ids \subseteq Runs
    /\ build.manifest \in Manifests \cup {Absent} /\ build.failed \subseteq Gates
    /\ builds > 0

\* The type invariant.
TypeOK ==
  /\ runs \in [Runs -> Unfinished \cup Directories]
  /\ tree \in [evaluator : Evaluators, healthy : BOOLEAN, dirty : BOOLEAN,
               commit : Commits, remote : Commits \cup {NoRemote}]
  /\ named \subseteq Runs
  /\ cells \in BOOLEAN
  /\ DOMAIN disk = Files
  /\ disk["manifest"] \in Unfinished \cup Manifests
  /\ disk["gates"] \in Unfinished \cup Verdicts
  /\ disk["blockers"] \in Unfinished \cup SUBSET Gates
  /\ disk["documents"] \in 1..(MaxEvents + 2) \cup {Absent}
  /\ disk["tables"] \in Unfinished \cup Pages
  /\ disk["board"] \in Unfinished \cup SUBSET Runs
  /\ disk["checksums"] \notin Unfinished => DOMAIN disk["checksums"] = Bundle
  /\ BuildType
  /\ other # Idle =>
       /\ DOMAIN other = {"file", "text", "open"}
       /\ other.open \in BOOLEAN
       /\ \/ other.file = "tables" /\ other.text \in Pages
          \/ other.file = "board" /\ other.text \subseteq Runs
  /\ builds \in Nat /\ changes \in Nat /\ builds + changes <= MaxEvents
  /\ calm \in -1..MaxEvents

\* sha256sum -c checksums.txt: every file listed there is there, as it was.
Verifies ==
  /\ disk["checksums"] \notin {Absent, Torn}
  /\ \A f \in Bundle : disk["checksums"][f] # Absent => disk[f] = disk["checksums"][f]

\* A bundle whose checksums verify is of one build, however many were killed or disturbed
\* there: its gates were judged on the manifest beside them, and BLOCKERS.md is there
\* exactly when one failed, and lists those (cli.py: checksums are written last, a stale
\* BLOCKERS.md is removed).
VerifiedBundleIsOneBuild ==
  Verifies =>
    LET g == disk["gates"] IN
    /\ disk["manifest"] = g.of
    /\ disk["blockers"] = IF g.failed = {} THEN Absent ELSE g.failed

\* A bundle that verifies and is tagged publishes runs of real models only, whose known
\* fingerprints are one, with every needed experiment among them, from a clean commit; and
\* its reader finds no BLOCKERS.md (release.py: the gates that actually matter).
TaggedReleaseIsSound ==
  Verifies /\ disk["gates"].failed = {} =>
    LET m == disk["manifest"] IN
    /\ Ids(m) \subseteq Real
    /\ \E d \in Evaluators : Fingerprints(m) = {d}
    /\ Complete(Ids(m))
    /\ ~m.dirty
    /\ disk["blockers"] = Absent

\* What a release needs of the world.
Swept == {r \in Runs : Meant(r)} \cup named

Ready ==
  /\ tree.healthy /\ ~tree.dirty /\ tree.remote \in {NoRemote, tree.commit}
  /\ NamedExist /\ Legible /\ Collectable(Swept)
  /\ Swept \subseteq Real \cap Conforming /\ Complete(Swept) /\ cells
  /\ \E d \in Evaluators : {runs[r].digest : r \in Swept} \ {NoDigest} = {d}
  /\ disk["documents"] # Absent /\ disk["board"] # Torn

\* The gates can go green: where the world is ready and stays as it is, the second build
\* to be completed tags the release, whatever earlier builds left in the directory.  The
\* first cannot: it looks for checksums.txt before it writes it (release.py:195, "a gate
\* that can never go green teaches people to ignore gates").
GatesCanGoGreen ==
  build = Idle /\ calm >= 2 /\ Ready => Verifies /\ disk["gates"].failed = {}
=============================================================================
