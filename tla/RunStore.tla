------------------------------- MODULE RunStore -------------------------------
(***************************************************************************)
(* The run directories under runs/: what eval, resume and rescore write    *)
(* there file by file, what they read back, what a killed process leaves,  *)
(* and which directories `compare` accepts.  How one run gets its answers  *)
(* is RunEngine's subject and how it is scored RunScoring's; here a run is *)
(* a list of (question, answer) rows and the grades made of them.          *)
(*                                                                         *)
(* A directory is known by its run id.  Everything outside the id that the *)
(* commands depend on may change between two commands: the evaluator (the  *)
(* code), the datasets, the manifest file and the response cache.          *)
(***************************************************************************)
EXTENDS Integers, Sequences, FiniteSets, Functions

CONSTANTS
  Runs,        \* run ids
  Processes,   \* command invocations that may be under way at once
  Questions,   \* sample ids
  Names,       \* the datasets in the order the run's group names them
  Sorted,      \* the same in alphabetical order
  HomeOf,      \* [Questions -> the dataset of the question]
  Catalogues,  \* what the datasets may hold: [dataset -> Seq(Questions)]
  Manifests,   \* what the manifest file may hold: sequences of questions
  Manifested,  \* runs that were asked with --manifest
  Tooled,      \* runs in tool_assisted mode, which bypass the cache
  Limits,      \* values of --max-samples; 0 when it is not given
  Tries,       \* how many different answers the model may give to a question
  MaxEvaluator,\* bound: versions of the evaluator
  MaxCommands, \* bound: commands started in all
  NoAnswer,    \* response is None
  Absent, Torn, Idle, Unknown

Datasets == {HomeOf[q] : q \in Questions}
Answers == [to : Questions, try : 1..Tries]
Rows == [q : Questions, a : Answers \cup {NoAnswer}]

ASSUME StoreAssumption ==
  /\ IsFiniteSet(Questions)
  /\ HomeOf \in [Questions -> STRING]
  /\ Names \in Seq(Datasets)
  /\ Sorted \in Seq(Datasets)
  /\ Catalogues \subseteq [Datasets -> Seq(Questions)]
  /\ Manifests \subseteq Seq(Questions)
  /\ Manifested \subseteq Runs
  /\ Tooled \subseteq Runs
  /\ Limits \subseteq Nat /\ 0 \in Limits
  /\ Tries \in Nat
  /\ MaxEvaluator \in Nat \ {0}
  /\ MaxCommands \in Nat
  /\ NoAnswer \notin Answers

\* What one pass of score_and_write makes; every file is written from it.
Makings ==
  [evaluator : 1..MaxEvaluator, limit : Nat, frozen : SUBSET Questions,
   rows : Seq(Rows), grades : Seq(Rows), traced : SUBSET Questions]

ASSUME MakingAssumption == {Absent, Torn, Unknown} \cap Makings = {}

Ids(rows) == {rows[k].q : k \in DOMAIN rows}

\* write_run_artifacts, in order.  "gates" stands for metrics, capabilities, gates and
\* coverage, which only the leaderboard reads; files no command reads back are left out.
FileOrder ==
  <<"run_config", "environment", "model_manifest", "predictions", "metric_details",
    "gates", "costs", "tool_traces">>
Files == Range(FileOrder)

VARIABLES
  disk,      \* [Runs -> [Files -> Makings, Absent or Torn]]
  migration, \* migration.json of each run
  cache,     \* the response cache: the answer kept for a run's request
  evaluator, \* the version of the code a process starts with
  catalogue, \* what the datasets hold
  manifest,  \* what the manifest file holds
  job,       \* the command each process is executing
  commands,  \* how many were started
  whole,     \* history: what a directory holds when a command undisturbed finished it
  prior      \* history: what that command found, if it was a resume or rescore of a whole run

outside == <<evaluator, catalogue, manifest>>
history == <<whole, prior>>
vars == <<disk, migration, cache, outside, job, commands, history>>

-----------------------------------------------------------------------------
(* Which questions a run asks. *)

Place(s, x) == CHOOSE k \in DOMAIN s : s[k] = x

\* resolve_samples: dataset after dataset, each in the order it serves its samples.
Precedes(names, x, y) ==
  \/ Place(names, HomeOf[x]) < Place(names, HomeOf[y])
  \/ HomeOf[x] = HomeOf[y] /\ Place(catalogue[HomeOf[x]], x) < Place(catalogue[HomeOf[x]], y)

\* The sequence, alone in its set, of these questions in that order.
Arranged(S, names) ==
  {s \in [1..Cardinality(S) -> S] : \A i, j \in DOMAIN s : i < j => Precedes(names, s[i], s[j])}

Served(D) == {q \in Questions : HomeOf[q] \in D /\ q \in Range(catalogue[HomeOf[q]])}

\* The engine's limit.
Limited(s, limit) == IF limit = 0 \/ limit >= Len(s) THEN s ELSE SubSeq(s, 1, limit)

\* A manifest whose ids no longer resolve is a hard error.
FromManifest == IF Range(manifest) \subseteq Served(Datasets) THEN {manifest} ELSE {}

EvalSamples(r, limit) ==
  IF r \in Manifested THEN FromManifest
  ELSE {Limited(s, limit) : s \in Arranged(Served(Range(Names)), Names)}

\* resume: the datasets the stored predictions mention, in alphabetical order.
Mentioned(r) == {HomeOf[q] : q \in Ids(disk[r]["predictions"].rows)}

Readable(r, f) == disk[r][f] \notin {Absent, Torn}

RecordedRows(r) == disk[r]["predictions"].rows

ResumeSamples(r) ==
  IF r \in Manifested THEN FromManifest
  ELSE {Limited(s, disk[r]["run_config"].limit) : s \in Arranged(Served(Mentioned(r)), Sorted)}

\* Mutant of SameManifest: it is enough that the ids resolve.
StillResolves(r) == FromManifest # {}

\* sample_manifest_id_hash: a hash of the SET of ids.
SameManifest(r) == disk[r]["run_config"].frozen = Range(manifest)

-----------------------------------------------------------------------------
(* Starting a command: its checks, and what it reads before it runs. *)

Ready(p) == job[p] = Idle /\ commands < MaxCommands

Busy(p, r) == job[p] # Idle /\ job[p].run = r

Job(op, r, samples, rows, limit, useCache) ==
  [op |-> op, run |-> r, evaluator |-> evaluator, samples |-> samples, rows |-> rows,
   limit |-> limit, useCache |-> useCache,
   frozen |-> IF r \in Manifested THEN Range(manifest) ELSE {},
   traced |-> {}, old |-> Unknown, file |-> 1, open |-> FALSE,
   found |-> whole[r], alone |-> ~\E p \in Processes : Busy(p, r)]

\* A running command has read all it will of the code, the datasets and the manifest
\* file, so whatever becomes of them until the next command starts is decided here.
Meanwhile ==
  /\ evaluator' \in evaluator..MaxEvaluator
  /\ catalogue' \in Catalogues
  /\ manifest' \in Manifests

\* Two commands may work on one directory; neither is then alone with it.
Launch(p, j) ==
  /\ job' = [o \in Processes |->
               IF o = p THEN j
               ELSE IF Busy(o, j.run) THEN [job[o] EXCEPT !.alone = FALSE] ELSE job[o]]
  /\ commands' = commands + 1
  /\ Meanwhile
  /\ UNCHANGED <<disk, migration, cache, history>>

DirectoryExists(r) == \E f \in Files : disk[r][f] # Absent

StartEval(p, r, resuming, limit, useCache) ==
  /\ Ready(p)
  /\ r \in Manifested => limit = 0
  /\ resuming \/ ~DirectoryExists(r)
  /\ \E samples \in EvalSamples(r, limit) :
       /\ samples # <<>>
       /\ Launch(p, Job("eval", r, samples, <<>>, limit, useCache))

\* The evaluator and the raw responses a directory holds, as resume and rescore read them.
Recorded(r) ==
  [evaluator |-> disk[r]["environment"].evaluator,
   hashes |-> Range(RecordedRows(r))]

ResumeChecks(r) ==
  /\ Readable(r, "environment") /\ Readable(r, "run_config") /\ Readable(r, "predictions")
  /\ r \in Manifested => SameManifest(r)

StartResume(p, r) ==
  /\ Ready(p) /\ ResumeChecks(r)
  /\ \E samples \in ResumeSamples(r) :
       /\ samples # <<>>
       /\ Launch(p, [Job("resume", r, samples, <<>>, disk[r]["run_config"].limit, TRUE)
                     EXCEPT !.old = Recorded(r)])

\* Mutant of RescoreSamples: the rows are zipped with the dataset's own order.
DatasetOrder(r) == CHOOSE s \in Arranged(Ids(RecordedRows(r)), Sorted) : TRUE

\* Score in the order the run actually ran, which is that of its predictions.
RescoreSamples(r) == [k \in DOMAIN RecordedRows(r) |-> RecordedRows(r)[k].q]

\* tool_traces.jsonl as stored: a run without traces leaves the file alone.
StoredTraces(r) == IF disk[r]["tool_traces"] = Absent THEN {} ELSE disk[r]["tool_traces"].traced

StartRescore(p, r) ==
  /\ Ready(p) /\ ResumeChecks(r)
  /\ Readable(r, "model_manifest")
  /\ disk[r]["costs"] # Torn /\ disk[r]["tool_traces"] # Torn
  /\ r \in Manifested => FromManifest # {}
  /\ Ids(RecordedRows(r)) \subseteq IF r \in Manifested THEN Range(manifest)
                                    ELSE Served(Mentioned(r))
  /\ Launch(p, [Job("rescore", r, RescoreSamples(r), RecordedRows(r),
                    disk[r]["run_config"].limit, TRUE)
                EXCEPT !.old = Recorded(r), !.traced = StoredTraces(r)])

-----------------------------------------------------------------------------
(* Running: the answers, one question after another, then the files in order. *)

Working(p) == job[p] # Idle

Answered(p) == Working(p) /\ Len(job[p].rows) = Len(job[p].samples)

Add(p, q, a) ==
  job' = [job EXCEPT ![p].rows = Append(@, [q |-> q, a |-> a]),
                     ![p].traced = IF job[p].run \in Tooled /\ a # NoAnswer
                                   THEN @ \cup {q} ELSE @]

Ask(p) ==
  /\ Working(p) /\ ~Answered(p)
  /\ LET r == job[p].run
         q == job[p].samples[Len(job[p].rows) + 1]
         caching == job[p].useCache /\ r \notin Tooled IN
     IF caching /\ cache[r][q] # NoAnswer
     THEN Add(p, q, cache[r][q]) /\ UNCHANGED cache
     ELSE \/ Add(p, q, NoAnswer) /\ UNCHANGED cache
          \/ \E n \in 1..Tries :
               /\ Add(p, q, [to |-> q, try |-> n])
               /\ cache' = IF caching THEN [cache EXCEPT ![r][q] = [to |-> q, try |-> n]]
                           ELSE cache
  /\ UNCHANGED <<disk, migration, outside, commands, history>>

\* score_and_write: samples and predictions are zipped, strictly.
Scored(j) ==
  [evaluator |-> j.evaluator, limit |-> j.limit, frozen |-> j.frozen, rows |-> j.rows,
   grades |-> [k \in DOMAIN j.rows |-> [q |-> j.samples[k], a |-> j.rows[k].a]],
   traced |-> j.traced]

\* Mutant of Skips: a rescore leaves the run's own description alone.
SkipsDescription(j) ==
  j.op = "rescore" /\ FileOrder[j.file] \in {"run_config", "environment"}

\* tool_traces.jsonl is written only when there are traces.
Skips(j) == FileOrder[j.file] = "tool_traces" /\ j.traced = {}

\* Opening a file empties it; what is on disk before it is closed may be cut anywhere,
\* and a file with a record per line reads as a shorter one when cut between two.
Cut(f, m) ==
  {Torn} \cup IF f = "predictions"
              THEN {[m EXCEPT !.rows = SubSeq(@, 1, n)] : n \in 0..(Len(m.rows) - 1)}
              ELSE IF f = "metric_details"
              THEN {[m EXCEPT !.grades = SubSeq(@, 1, n)] : n \in 0..(Len(m.grades) - 1)}
              ELSE IF f = "tool_traces" THEN {[m EXCEPT !.traced = {}]} ELSE {}

Unfinished(p) == Answered(p) /\ job[p].file <= Len(FileOrder)

Open(p) ==
  /\ Unfinished(p) /\ ~job[p].open /\ ~Skips(job[p])
  /\ \E c \in Cut(FileOrder[job[p].file], Scored(job[p])) :
       disk' = [disk EXCEPT ![job[p].run][FileOrder[job[p].file]] = c]
  /\ job' = [job EXCEPT ![p].open = TRUE]
  /\ whole' = [whole EXCEPT ![job[p].run] = Unknown]
  /\ UNCHANGED <<migration, cache, outside, commands, prior>>

Close(p) ==
  /\ Unfinished(p) /\ job[p].open
  /\ disk' = [disk EXCEPT ![job[p].run][FileOrder[job[p].file]] = Scored(job[p])]
  /\ job' = [job EXCEPT ![p].open = FALSE, ![p].file = @ + 1]
  /\ UNCHANGED <<migration, cache, outside, commands, history>>

Skip(p) ==
  /\ Unfinished(p) /\ ~job[p].open /\ Skips(job[p])
  /\ job' = [job EXCEPT ![p].file = @ + 1]
  /\ UNCHANGED <<disk, migration, cache, outside, commands, history>>

\* Mutant of OldEvaluator: the old fingerprint is read once the artifacts are new.
OldReadLate(j) == disk[j.run]["environment"].evaluator

\* Mutant of OldEvaluator: the old fingerprint is not read at all.
OldForgotten(j) == Unknown

OldEvaluator(j) == j.old.evaluator

\* migration.json.  A rescore always writes it; a resume when the evaluator changed.
Migrated(j) ==
  LET new == Recorded(j.run) IN
  IF j.op = "eval" \/ (j.op = "resume" /\ new.evaluator = OldEvaluator(j))
  THEN migration[j.run]
  ELSE [old |-> OldEvaluator(j), new |-> new.evaluator,
        preserved |-> j.old.hashes # {} /\ j.old.hashes = new.hashes]

Finish(p) ==
  LET j == job[p] IN
  /\ Answered(p) /\ j.file > Len(FileOrder)
  /\ j.op = "eval" \/ (Readable(j.run, "environment") /\ Readable(j.run, "predictions"))
  /\ migration' = [migration EXCEPT ![j.run] = Migrated(j)]
  /\ whole' = [whole EXCEPT ![j.run] = IF j.alone THEN Scored(j) ELSE Unknown]
  /\ prior' = [prior EXCEPT ![j.run] = IF j.op # "eval" /\ j.alone THEN j.found ELSE Unknown]
  /\ job' = [job EXCEPT ![p] = Idle]
  /\ UNCHANGED <<disk, cache, outside, commands>>

\* A kill, or an exception nobody catches: the files stay as they are.
Kill(p) ==
  /\ Working(p)
  /\ job' = [job EXCEPT ![p] = Idle]
  /\ UNCHANGED <<disk, migration, cache, outside, commands, history>>

NoResponses == [r \in Runs |-> [q \in Questions |-> NoAnswer]]

ClearCache ==
  /\ cache # NoResponses
  /\ cache' = NoResponses
  /\ UNCHANGED <<disk, migration, outside, job, commands, history>>

Init ==
  /\ disk = [r \in Runs |-> [f \in Files |-> Absent]]
  /\ migration = [r \in Runs |-> Absent]
  /\ cache = NoResponses
  /\ evaluator = 1
  /\ catalogue \in Catalogues
  /\ manifest \in Manifests
  /\ job = [p \in Processes |-> Idle]
  /\ commands = 0
  /\ whole = [r \in Runs |-> Unknown]
  /\ prior = [r \in Runs |-> Unknown]

Next ==
  \/ \E p \in Processes, r \in Runs :
       \/ \E resuming, useCache \in BOOLEAN, limit \in Limits :
            StartEval(p, r, resuming, limit, useCache)
       \/ StartResume(p, r)
       \/ StartRescore(p, r)
  \/ \E p \in Processes : Ask(p) \/ Open(p) \/ Close(p) \/ Skip(p) \/ Finish(p) \/ Kill(p)
  \/ ClearCache

Spec == Init /\ [][Next]_vars

-----------------------------------------------------------------------------
(* What the commands promise. *)

Jobs ==
  [op : {"eval", "resume", "rescore"}, run : Runs, evaluator : 1..MaxEvaluator,
   samples : Seq(Questions), rows : Seq(Rows), limit : Nat, useCache : BOOLEAN,
   frozen : SUBSET Questions, traced : SUBSET Questions,
   old : [evaluator : 1..MaxEvaluator, hashes : SUBSET Rows] \cup {Unknown},
   file : 1..(Len(FileOrder) + 1), open : BOOLEAN,
   found : Makings \cup {Unknown}, alone : BOOLEAN]

Records == [old : 1..MaxEvaluator, new : 1..MaxEvaluator, preserved : BOOLEAN]

\* The types of the variables.
TypeOK ==
  /\ disk \in [Runs -> [Files -> Makings \cup {Absent, Torn}]]
  /\ migration \in [Runs -> Records \cup {Absent}]
  /\ cache \in [Runs -> [Questions -> Answers \cup {NoAnswer}]]
  /\ evaluator \in 1..MaxEvaluator
  /\ catalogue \in Catalogues
  /\ manifest \in Manifests
  /\ job \in [Processes -> Jobs \cup {Idle}]
  /\ commands \in 0..MaxCommands
  /\ whole \in [Runs -> Makings \cup {Unknown}]
  /\ prior \in [Runs -> Makings \cup {Unknown}]

OwnAnswers(rows) == \A k \in DOMAIN rows : rows[k].a = NoAnswer \/ rows[k].a.to = rows[k].q

\* No file ever holds an answer, or a grade of an answer, under another question than
\* the one it was given to: not after kills, cut files, datasets that moved or were
\* reordered, or two commands at once (orchestration.py zips samples and predictions).
GradesAreOfTheirQuestion ==
  \A r \in Runs, f \in Files :
    Readable(r, f) => OwnAnswers(disk[r][f].rows) /\ OwnAnswers(disk[r][f].grades)

\* A directory that a command, alone with it, has finished is of one making in every
\* file, whatever earlier commands and kills had left there (write_run_artifacts).
WholeRunIsOneMaking ==
  \A r \in Runs : whole[r] # Unknown =>
    \A f \in Files \ IF whole[r].traced = {} THEN {"tool_traces"} ELSE {} :
      disk[r][f] = whole[r]

\* When a resume or rescore moved a whole run to another evaluator, migration.json
\* names both, and says truly whether every stored response is the one it was.
MigrationIsRecorded ==
  \A r \in Runs :
    /\ whole[r] # Unknown /\ prior[r] # Unknown
    /\ prior[r].rows # <<>> /\ prior[r].evaluator # whole[r].evaluator
    => migration[r] = [old |-> prior[r].evaluator, new |-> whole[r].evaluator,
                       preserved |-> Range(prior[r].rows) = Range(whole[r].rows)]

\* A resume or rescore of a whole manifest run leaves it with the same frozen set, and
\* with answers to that set or to the part of it that was stored, although the manifest
\* file and the datasets may have changed under it (cli.py resume, resolve_samples).
FrozenQuestionsStay ==
  \A r \in Manifested :
    whole[r] # Unknown /\ prior[r] # Unknown =>
      /\ whole[r].frozen = prior[r].frozen
      /\ Ids(whole[r].rows) \in {prior[r].frozen, Ids(prior[r].rows)}

\* _per_sample_scores: what nobody answered has no value and drops out.
PairedOn(r) ==
  LET grades == disk[r]["metric_details"].grades
  IN {grades[k].q : k \in {j \in DOMAIN grades : grades[j].a # NoAnswer}}

\* `compare a b` gets to its paired bootstrap: samples only one of them has are a note.
Comparable(a, b) ==
  /\ Readable(a, "environment") /\ Readable(b, "environment")
  /\ disk[a]["environment"].evaluator = disk[b]["environment"].evaluator
  /\ Readable(a, "metric_details") /\ Readable(b, "metric_details")
  /\ PairedOn(a) \cap PairedOn(b) # {}

\* "Two runs may only be compared if they answered the same questions with the same
\* evaluator. Both are checked, and a mismatch is an error rather than a footnote"
\* (cli.py:863-865): what compare takes on was graded by one evaluator, kills or not ...
ComparedByOneEvaluator ==
  \A a, b \in Runs : Comparable(a, b) =>
    disk[a]["metric_details"].evaluator = disk[b]["metric_details"].evaluator

\* ... and whole runs it takes on have answered the same questions.
ComparesTheSameQuestions ==
  \A a, b \in Runs :
    whole[a] # Unknown /\ whole[b] # Unknown /\ Comparable(a, b) => PairedOn(a) = PairedOn(b)

\* cli.py:698: "A resume must reconstruct the run that WAS": with the datasets where
\* they were, a resumed run has asked the questions the run had asked.
ResumeAsksTheSameQuestions ==
  \A r \in Runs :
    whole[r] # Unknown /\ prior[r] # Unknown => Ids(whole[r].rows) = Ids(prior[r].rows)
=============================================================================
