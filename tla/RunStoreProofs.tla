---------------------------- MODULE RunStoreProofs ----------------------------
(***************************************************************************)
(* What holds of RunStore for any number of runs, questions, datasets and  *)
(* commands, of processes that work at the same time, and of kills.        *)
(***************************************************************************)
EXTENDS RunStore, FiniteSetTheorems, SequenceTheorems, TLAPS

-----------------------------------------------------------------------------
(* What the operators return. *)

\* The eight files, by position and by name.
LEMMA FileNames ==
  /\ Len(FileOrder) = 8
  /\ \A k \in 1..8 : FileOrder[k] \in Files
  /\ Files = {"run_config", "environment", "model_manifest", "predictions",
              "metric_details", "gates", "costs", "tool_traces"}
BY DEF Files, FileOrder, Range

\* What a directory holds in a file that can be read.
LEMMA ReadableFile ==
  ASSUME TypeOK, NEW r \in Runs, NEW f \in Files, Readable(r, f)
  PROVE  disk[r][f] \in Makings
BY DEF TypeOK, Readable

LEMMA RecordedRowsType ==
  ASSUME TypeOK, NEW r \in Runs, Readable(r, "predictions")
  PROVE  /\ RecordedRows(r) \in Seq(Rows)
         /\ Len(RecordedRows(r)) \in Nat
         /\ DOMAIN RecordedRows(r) = 1..Len(RecordedRows(r))
         /\ \A k \in DOMAIN RecordedRows(r) : RecordedRows(r)[k] \in Rows
<1>1. disk[r]["predictions"] \in Makings
  BY FileNames, ReadableFile
<1>2. RecordedRows(r) \in Seq(Rows)
  BY <1>1 DEF RecordedRows, Makings
<1> QED BY <1>2, LenProperties, ElementOfSeq

LEMMA ArrangedType ==
  ASSUME NEW S \in SUBSET Questions, NEW names
  PROVE  Arranged(S, names) \subseteq Seq(Questions)
<1>1. Cardinality(S) \in Nat
  <2>1. IsFiniteSet(S)
    BY StoreAssumption, FS_Subset
  <2> QED BY <2>1, FS_CardinalityType
<1>2. SUFFICES ASSUME NEW s \in Arranged(S, names) PROVE s \in Seq(Questions)
  OBVIOUS
<1>3. s \in [1..Cardinality(S) -> S]
  BY DEF Arranged
<1>4. s \in [1..Cardinality(S) -> Questions]
  BY <1>3
<1> QED BY <1>1, <1>4, SeqDef

LEMMA LimitedType ==
  ASSUME NEW s \in Seq(Questions), NEW limit \in Nat
  PROVE  Limited(s, limit) \in Seq(Questions)
<1>1. CASE limit = 0 \/ limit >= Len(s)
  BY <1>1 DEF Limited
<1>2. CASE ~(limit = 0 \/ limit >= Len(s))
  <2>1. 1 \in 1..(Len(s) + 1) /\ limit \in 0..Len(s) /\ limit \in Nat
    BY <1>2, LenProperties
  <2>2. SubSeq(s, 1, limit) \in Seq(Questions)
    BY <2>1, SubSeqProperties
  <2> QED BY <1>2, <2>2 DEF Limited
<1> QED BY <1>1, <1>2

\* Every command that starts asks a list of questions.
LEMMA SamplesType ==
  ASSUME TypeOK, NEW r \in Runs
  PROVE  /\ \A limit \in Nat : EvalSamples(r, limit) \subseteq Seq(Questions)
         /\ ResumeChecks(r) => ResumeSamples(r) \subseteq Seq(Questions)
         /\ ResumeChecks(r) => RescoreSamples(r) \in Seq(Questions)
<1>1. FromManifest \subseteq Seq(Questions)
  BY StoreAssumption DEF FromManifest, TypeOK
<1>2. \A D : Served(D) \in SUBSET Questions
  BY DEF Served
<1>3. ASSUME NEW limit \in Nat, NEW D, NEW names
      PROVE  {Limited(s, limit) : s \in Arranged(Served(D), names)} \subseteq Seq(Questions)
  <2>1. Arranged(Served(D), names) \subseteq Seq(Questions)
    BY <1>2, ArrangedType
  <2> QED BY <2>1, LimitedType
<1>4. \A limit \in Nat : EvalSamples(r, limit) \subseteq Seq(Questions)
  BY <1>1, <1>3 DEF EvalSamples
<1>5. ASSUME ResumeChecks(r) PROVE ResumeSamples(r) \subseteq Seq(Questions)
  <2>1. disk[r]["run_config"] \in Makings
    BY <1>5, FileNames, ReadableFile DEF ResumeChecks
  <2>2. disk[r]["run_config"].limit \in Nat
    BY <2>1 DEF Makings
  <2> QED BY <1>1, <1>3, <2>2 DEF ResumeSamples
<1>6. ASSUME ResumeChecks(r) PROVE RescoreSamples(r) \in Seq(Questions)
  <2>3. /\ Len(RecordedRows(r)) \in Nat
        /\ DOMAIN RecordedRows(r) = 1..Len(RecordedRows(r))
        /\ \A k \in DOMAIN RecordedRows(r) : RecordedRows(r)[k] \in Rows
    BY <1>6, RecordedRowsType DEF ResumeChecks
  <2>4. \A k \in DOMAIN RecordedRows(r) : RecordedRows(r)[k].q \in Questions
    BY <2>3 DEF Rows
  <2>5. RescoreSamples(r) \in [1..Len(RecordedRows(r)) -> Questions]
    BY <2>3, <2>4 DEF RescoreSamples
  <2> QED BY <2>3, <2>5, SeqDef
<1> QED BY <1>4, <1>5, <1>6

-----------------------------------------------------------------------------
(* Type correctness. *)

\* TypeOK says nothing of how far a command has come; this does.
JobOK(j) ==
  /\ Len(j.rows) <= Len(j.samples)
  /\ \A k \in 1..Len(j.rows) : j.rows[k].q = j.samples[k]
  /\ (j.file > 1 \/ j.open) => Len(j.rows) = Len(j.samples)
  /\ j.open => j.file <= 8
  /\ j.op # "eval" => j.old \in [evaluator : 1..MaxEvaluator, hashes : SUBSET Rows]

TypeInv == TypeOK /\ \A p \in Processes : Working(p) => JobOK(job[p])

\* What a command writes is of the type of every file.
LEMMA ScoredType ==
  ASSUME NEW j \in Jobs, JobOK(j)
  PROVE  /\ Scored(j) \in Makings
         /\ Len(j.rows) \in Nat /\ DOMAIN j.rows = 1..Len(j.rows)
         /\ \A k \in 1..Len(j.rows) : j.rows[k] \in Rows /\ j.samples[k] = j.rows[k].q
<1>1. j.rows \in Seq(Rows) /\ j.samples \in Seq(Questions)
  BY DEF Jobs
<1>2. /\ Len(j.rows) \in Nat /\ DOMAIN j.rows = 1..Len(j.rows)
      /\ \A k \in 1..Len(j.rows) : j.rows[k] \in Rows
  BY <1>1, LenProperties, ElementOfSeq
<1>3. \A k \in 1..Len(j.rows) : j.samples[k] = j.rows[k].q
  BY DEF JobOK
<1>4. \A k \in 1..Len(j.rows) : [q |-> j.samples[k], a |-> j.rows[k].a] \in Rows
  BY <1>2, <1>3 DEF Rows
<1>5. [k \in DOMAIN j.rows |-> [q |-> j.samples[k], a |-> j.rows[k].a]]
        \in [1..Len(j.rows) -> Rows]
  BY <1>2, <1>4
<1>6. [k \in DOMAIN j.rows |-> [q |-> j.samples[k], a |-> j.rows[k].a]] \in Seq(Rows)
  BY <1>2, <1>5, SeqDef
<1>7. /\ j.evaluator \in 1..MaxEvaluator /\ j.limit \in Nat
      /\ j.frozen \in SUBSET Questions /\ j.traced \in SUBSET Questions
  BY DEF Jobs
<1>8. Scored(j) \in Makings
  BY <1>1, <1>6, <1>7 DEF Scored, Makings
<1> QED BY <1>2, <1>3, <1>8

\* A file that was cut holds nothing readable, or a shorter list of the same records.
LEMMA CutType ==
  ASSUME NEW m \in Makings, NEW f, NEW c \in Cut(f, m)
  PROVE  \/ c = Torn
         \/ \E n \in 0..Len(m.rows) : c = [m EXCEPT !.rows = SubSeq(@, 1, n)]
         \/ \E n \in 0..Len(m.grades) : c = [m EXCEPT !.grades = SubSeq(@, 1, n)]
         \/ c = [m EXCEPT !.traced = {}]
<1>1. m.rows \in Seq(Rows) /\ m.grades \in Seq(Rows)
  BY DEF Makings
<1>2. Len(m.rows) \in Nat /\ Len(m.grades) \in Nat
  BY <1>1, LenProperties
<1>3. \A n \in 0..(Len(m.rows) - 1) : n \in 0..Len(m.rows)
  BY <1>2
<1>4. \A n \in 0..(Len(m.grades) - 1) : n \in 0..Len(m.grades)
  BY <1>2
<1>5. CASE f = "predictions"
  BY <1>3, <1>5 DEF Cut
<1>6. CASE f = "metric_details"
  BY <1>4, <1>6 DEF Cut
<1>7. CASE f # "predictions" /\ f # "metric_details"
  BY <1>7 DEF Cut
<1> QED BY <1>5, <1>6, <1>7

\* The first n records of a list are records of the list.
LEMMA Shortened ==
  ASSUME NEW s \in Seq(Rows), NEW n \in 0..Len(s)
  PROVE  /\ SubSeq(s, 1, n) \in Seq(Rows)
         /\ \A k \in DOMAIN SubSeq(s, 1, n) : k \in DOMAIN s /\ SubSeq(s, 1, n)[k] = s[k]
<1>1. Len(s) \in Nat /\ DOMAIN s = 1..Len(s)
  BY LenProperties
<1>2. 1 \in 1..(Len(s) + 1) /\ n \in 0..Len(s) /\ n \in Nat
  BY <1>1
<1>3. /\ SubSeq(s, 1, n) \in Seq(Rows) /\ Len(SubSeq(s, 1, n)) = n
      /\ \A k \in 1..n : SubSeq(s, 1, n)[k] = s[k]
  BY <1>1, <1>2, SubSeqProperties
<1>4. DOMAIN SubSeq(s, 1, n) = 1..n
  BY <1>3, LenProperties
<1> QED BY <1>1, <1>2, <1>3, <1>4

LEMMA CutIsMaking ==
  ASSUME NEW m \in Makings, NEW f, NEW c \in Cut(f, m)
  PROVE  c \in Makings \cup {Torn}
<1>1. m.rows \in Seq(Rows) /\ m.grades \in Seq(Rows)
  BY DEF Makings
<1>2. CASE \E n \in 0..Len(m.rows) : c = [m EXCEPT !.rows = SubSeq(@, 1, n)]
  <2>1. PICK n \in 0..Len(m.rows) : c = [m EXCEPT !.rows = SubSeq(@, 1, n)]
    BY <1>2
  <2>2. SubSeq(m.rows, 1, n) \in Seq(Rows)
    BY <1>1, Shortened
  <2> QED BY <2>1, <2>2 DEF Makings
<1>3. CASE \E n \in 0..Len(m.grades) : c = [m EXCEPT !.grades = SubSeq(@, 1, n)]
  <2>1. PICK n \in 0..Len(m.grades) : c = [m EXCEPT !.grades = SubSeq(@, 1, n)]
    BY <1>3
  <2>2. SubSeq(m.grades, 1, n) \in Seq(Rows)
    BY <1>1, Shortened
  <2> QED BY <2>1, <2>2 DEF Makings
<1>4. CASE c = [m EXCEPT !.traced = {}]
  <2>1. {} \in SUBSET Questions
    OBVIOUS
  <2> QED BY <1>4, <2>1 DEF Makings
<1> QED BY <1>2, <1>3, <1>4, CutType

\* A job as its command starts, before it is told what the directory recorded.
LEMMA JobType ==
  ASSUME TypeOK, NEW op \in {"eval", "resume", "rescore"}, NEW r \in Runs,
         NEW samples \in Seq(Questions), NEW rows \in Seq(Rows), NEW limit \in Nat,
         NEW useCache \in BOOLEAN, NEW j, j = Job(op, r, samples, rows, limit, useCache)
  PROVE  j \in Jobs
<1> DEFINE frozen == IF r \in Manifested THEN Range(manifest) ELSE {}
           alone == ~\E p \in Processes : Busy(p, r)
<1>1. frozen \in SUBSET Questions
  <2>1. manifest \in Seq(Questions)
    BY StoreAssumption DEF TypeOK
  <2>2. \A k \in DOMAIN manifest : manifest[k] \in Questions
    BY <2>1, LenProperties, ElementOfSeq
  <2> QED BY <2>2 DEF Range
<1>2. 1 \in 1..(Len(FileOrder) + 1)
  BY FileNames
<1>3. evaluator \in 1..MaxEvaluator /\ whole[r] \in Makings \cup {Unknown}
  BY DEF TypeOK
<1>4. {} \in SUBSET Questions /\ alone \in BOOLEAN
  OBVIOUS
<1>5. j =
        [op |-> op, run |-> r, evaluator |-> evaluator, samples |-> samples, rows |-> rows,
         limit |-> limit, useCache |-> useCache, frozen |-> frozen, traced |-> {},
         old |-> Unknown, file |-> 1, open |-> FALSE, found |-> whole[r], alone |-> alone]
  BY DEF Job
<1> HIDE DEF frozen, alone
<1> QED BY <1>1, <1>2, <1>3, <1>4, <1>5 DEF Jobs

LEMMA RecordedType ==
  ASSUME TypeOK, NEW r \in Runs, Readable(r, "environment"), Readable(r, "predictions")
  PROVE  Recorded(r) \in [evaluator : 1..MaxEvaluator, hashes : SUBSET Rows]
<1>1. disk[r]["environment"] \in Makings
  BY FileNames, ReadableFile
<1>2. disk[r]["environment"].evaluator \in 1..MaxEvaluator
  BY <1>1 DEF Makings
<1>3. Range(RecordedRows(r)) \in SUBSET Rows
  BY RecordedRowsType DEF Range
<1> QED BY <1>2, <1>3 DEF Recorded

\* A command that starts keeps the types if its job is one.
LEMMA LaunchType ==
  ASSUME TypeInv, NEW p \in Processes, Ready(p), NEW j \in Jobs, JobOK(j), Launch(p, j)
  PROVE  TypeInv'
<1> USE DEF TypeInv, Working
<1>1. /\ job \in [Processes -> Jobs \cup {Idle}] /\ commands \in 0..MaxCommands
      /\ evaluator \in 1..MaxEvaluator
      /\ disk \in [Runs -> [Files -> Makings \cup {Absent, Torn}]]
      /\ migration \in [Runs -> Records \cup {Absent}]
      /\ cache \in [Runs -> [Questions -> Answers \cup {NoAnswer}]]
      /\ whole \in [Runs -> Makings \cup {Unknown}]
      /\ prior \in [Runs -> Makings \cup {Unknown}]
  BY DEF TypeOK
<1>2. ASSUME NEW o \in Processes, job'[o] # Idle
      PROVE  job'[o] \in Jobs /\ JobOK(job'[o])
  <2>1. CASE o = p
    BY <1>1, <2>1 DEF Launch
  <2>2. CASE o # p /\ Busy(o, j.run)
    <3>1. job'[o] = [job[o] EXCEPT !.alone = FALSE] /\ job[o] \in Jobs /\ JobOK(job[o])
      BY <1>1, <2>2 DEF Launch, Busy
    <3>2. job'[o] \in Jobs
      BY <3>1 DEF Jobs
    <3>3. JobOK([job[o] EXCEPT !.alone = FALSE])
      BY <3>1 DEF JobOK, Jobs
    <3> QED BY <3>1, <3>2, <3>3
  <2>3. CASE o # p /\ ~Busy(o, j.run)
    BY <1>1, <1>2, <2>3 DEF Launch
  <2> QED BY <2>1, <2>2, <2>3
<1>3. job' \in [Processes -> Jobs \cup {Idle}]
  <2>1. DOMAIN job' = Processes /\ job' = [o \in Processes |-> job'[o]]
    BY DEF Launch
  <2> QED BY <1>2, <2>1
<1>4. commands' \in 0..MaxCommands
  BY <1>1, StoreAssumption DEF Launch, Ready
<1>5. evaluator' \in 1..MaxEvaluator /\ catalogue' \in Catalogues /\ manifest' \in Manifests
  BY <1>1, StoreAssumption DEF Launch, Meanwhile
<1>6. UNCHANGED <<disk, migration, cache, whole, prior>>
  BY DEF Launch, history
<1>7. TypeOK'
  BY <1>1, <1>3, <1>4, <1>5, <1>6 DEF TypeOK
<1> QED BY <1>2, <1>7

LEMMA StartEvalType ==
  ASSUME TypeInv, NEW p \in Processes, NEW r \in Runs, NEW resuming, NEW limit \in Limits,
         NEW useCache \in BOOLEAN, StartEval(p, r, resuming, limit, useCache)
  PROVE  TypeInv'
<1>1. PICK samples \in EvalSamples(r, limit) :
        Launch(p, Job("eval", r, samples, <<>>, limit, useCache))
  BY DEF StartEval
<1>2. TypeOK /\ limit \in Nat
  BY StoreAssumption DEF TypeInv
<1>3. samples \in Seq(Questions) /\ <<>> \in Seq(Rows)
  BY <1>2, SamplesType, EmptySeq
<1> DEFINE j == Job("eval", r, samples, <<>>, limit, useCache)
<1>4. /\ j \in Jobs /\ j.op = "eval" /\ j.samples = samples /\ j.rows = <<>>
      /\ j.file = 1 /\ j.open = FALSE
  <2>1. "eval" \in {"eval", "resume", "rescore"}
    OBVIOUS
  <2>2. j \in Jobs
    BY <1>2, <1>3, <2>1, JobType
  <2> QED BY <2>2 DEF Job
<1> HIDE DEF j
<1>5. JobOK(j)
  BY <1>3, <1>4, EmptySeq, LenProperties DEF JobOK
<1> QED BY <1>1, <1>4, <1>5, LaunchType DEF StartEval, j

LEMMA StartResumeType ==
  ASSUME TypeInv, NEW p \in Processes, NEW r \in Runs, StartResume(p, r)
  PROVE  TypeInv'
<1> DEFINE limit == disk[r]["run_config"].limit
<1>1. PICK samples \in ResumeSamples(r) :
        Launch(p, [Job("resume", r, samples, <<>>, limit, TRUE) EXCEPT !.old = Recorded(r)])
  BY DEF StartResume
<1>2. TypeOK /\ ResumeChecks(r)
  BY DEF TypeInv, StartResume
<1>3. samples \in Seq(Questions) /\ <<>> \in Seq(Rows)
  BY <1>2, SamplesType, EmptySeq
<1>4. limit \in Nat
  <2>1. disk[r]["run_config"] \in Makings
    BY <1>2, FileNames, ReadableFile DEF ResumeChecks
  <2> QED BY <2>1 DEF Makings
<1>5. Recorded(r) \in [evaluator : 1..MaxEvaluator, hashes : SUBSET Rows]
  BY <1>2, RecordedType DEF ResumeChecks
<1> HIDE DEF limit
<1> DEFINE i == Job("resume", r, samples, <<>>, limit, TRUE)
           j == [i EXCEPT !.old = Recorded(r)]
<1>6. /\ i \in Jobs /\ i.op = "resume" /\ i.samples = samples /\ i.rows = <<>>
      /\ i.file = 1 /\ i.open = FALSE
  <2>1. "resume" \in {"eval", "resume", "rescore"} /\ TRUE \in BOOLEAN
    OBVIOUS
  <2>2. i \in Jobs
    BY <1>2, <1>3, <1>4, <2>1, JobType
  <2> QED BY <2>2 DEF Job
<1>7. Launch(p, j)
  BY <1>1
<1> HIDE DEF i
<1>8. /\ j \in Jobs /\ j.old = Recorded(r) /\ j.samples = samples /\ j.rows = <<>>
      /\ j.file = 1 /\ j.open = FALSE
  BY <1>5, <1>6 DEF Jobs
<1> HIDE DEF j
<1>9. JobOK(j)
  BY <1>3, <1>5, <1>8, EmptySeq, LenProperties DEF JobOK
<1> QED BY <1>7, <1>8, <1>9, LaunchType DEF StartResume

LEMMA StartRescoreType ==
  ASSUME TypeInv, NEW p \in Processes, NEW r \in Runs, StartRescore(p, r)
  PROVE  TypeInv'
<1> DEFINE limit == disk[r]["run_config"].limit
           samples == RescoreSamples(r)
           rows == RecordedRows(r)
           i == Job("rescore", r, samples, rows, limit, TRUE)
           j == [i EXCEPT !.old = Recorded(r), !.traced = StoredTraces(r)]
<1>1. Launch(p, j)
  BY DEF StartRescore
<1>2. TypeOK /\ ResumeChecks(r)
  BY DEF TypeInv, StartRescore
<1>3. /\ rows \in Seq(Rows) /\ Len(rows) \in Nat /\ DOMAIN rows = 1..Len(rows)
  BY <1>2, RecordedRowsType DEF ResumeChecks
<1>4. limit \in Nat
  <2>1. disk[r]["run_config"] \in Makings
    BY <1>2, FileNames, ReadableFile DEF ResumeChecks
  <2> QED BY <2>1 DEF Makings
<1>5. Recorded(r) \in [evaluator : 1..MaxEvaluator, hashes : SUBSET Rows]
  BY <1>2, RecordedType DEF ResumeChecks
<1>6. samples \in Seq(Questions) /\ Len(samples) = Len(rows)
      /\ \A k \in 1..Len(rows) : samples[k] = rows[k].q
  <2>1. samples \in Seq(Questions)
    BY <1>2, SamplesType
  <2>2. samples = [k \in 1..Len(rows) |-> rows[k].q]
    BY <1>3 DEF RescoreSamples
  <2>3. DOMAIN samples = 1..Len(rows)
    BY <2>2
  <2>4. Len(samples) = Len(rows)
    BY <1>3, <2>1, <2>3, LenProperties
  <2> QED BY <2>1, <2>2, <2>4
<1>7. StoredTraces(r) \in SUBSET Questions
  <2>1. CASE disk[r]["tool_traces"] = Absent
    BY <2>1 DEF StoredTraces
  <2>2. CASE disk[r]["tool_traces"] # Absent
    <3>1. disk[r]["tool_traces"] \in Makings
      BY <1>2, <2>2, FileNames, ReadableFile DEF StartRescore, Readable
    <3> QED BY <2>2, <3>1 DEF StoredTraces, Makings
  <2> QED BY <2>1, <2>2
<1> HIDE DEF limit, samples, rows
<1>8. /\ i \in Jobs /\ i.op = "rescore" /\ i.samples = samples /\ i.rows = rows
      /\ i.file = 1 /\ i.open = FALSE
  <2>1. "rescore" \in {"eval", "resume", "rescore"} /\ TRUE \in BOOLEAN
    OBVIOUS
  <2>2. i \in Jobs
    BY <1>2, <1>3, <1>4, <1>6, <2>1, JobType
  <2> QED BY <2>2 DEF Job
<1> HIDE DEF i
<1>9. /\ j \in Jobs /\ j.old = Recorded(r) /\ j.samples = samples /\ j.rows = rows
      /\ j.file = 1 /\ j.open = FALSE
  BY <1>5, <1>7, <1>8 DEF Jobs
<1> HIDE DEF j
<1>10. JobOK(j)
  BY <1>3, <1>5, <1>6, <1>9 DEF JobOK
<1> QED BY <1>1, <1>9, <1>10, LaunchType DEF StartRescore

\* The job of a working process, and that of the others, when only p's changes.
LEMMA OneJobType ==
  ASSUME TypeInv, NEW p \in Processes, NEW j \in Jobs \cup {Idle}, j # Idle => JobOK(j),
         job' = [job EXCEPT ![p] = j]
  PROVE  /\ job' \in [Processes -> Jobs \cup {Idle}]
         /\ \A o \in Processes : job'[o] # Idle => JobOK(job'[o])
<1>1. job \in [Processes -> Jobs \cup {Idle}]
      /\ \A o \in Processes : job[o] # Idle => JobOK(job[o])
  BY DEF TypeInv, TypeOK, Working
<1>2. \A o \in Processes : job'[o] = IF o = p THEN j ELSE job[o]
  BY <1>1
<1> QED BY <1>1, <1>2

LEMMA AskType ==
  ASSUME TypeInv, NEW p \in Processes, Ask(p)
  PROVE  TypeInv'
<1> DEFINE j == job[p]
           q == j.samples[Len(j.rows) + 1]
<1>1. TypeOK /\ j \in Jobs /\ JobOK(j) /\ j.rows \in Seq(Rows) /\ j.samples \in Seq(Questions)
      /\ j.run \in Runs /\ j.traced \in SUBSET Questions
  BY DEF TypeInv, TypeOK, Ask, Working, Jobs
<1>2. /\ Len(j.rows) \in Nat /\ Len(j.samples) \in Nat /\ Len(j.rows) < Len(j.samples)
      /\ Len(j.rows) + 1 \in 1..Len(j.samples)
  <2>1. Len(j.rows) \in Nat /\ Len(j.samples) \in Nat
    BY <1>1, LenProperties
  <2>2. Len(j.rows) # Len(j.samples)
    BY DEF Ask, Answered
  <2> QED BY <1>1, <2>1, <2>2 DEF JobOK
<1>3. q \in Questions
  BY <1>1, <1>2, ElementOfSeq
<1>4. ASSUME NEW a \in Answers \cup {NoAnswer}, Add(p, q, a)
      PROVE  /\ job' \in [Processes -> Jobs \cup {Idle}]
             /\ \A o \in Processes : job'[o] # Idle => JobOK(job'[o])
  <2> DEFINE rows == Append(j.rows, [q |-> q, a |-> a])
             traced == IF j.run \in Tooled /\ a # NoAnswer THEN j.traced \cup {q}
                       ELSE j.traced
             i == [j EXCEPT !.rows = rows, !.traced = traced]
  <2>1. [q |-> q, a |-> a] \in Rows
    BY <1>3 DEF Rows
  <2>2. /\ rows \in Seq(Rows) /\ Len(rows) = Len(j.rows) + 1
        /\ rows[Len(j.rows) + 1].q = q
        /\ \A k \in 1..Len(j.rows) : rows[k] = j.rows[k]
    BY <1>1, <2>1, AppendProperties
  <2>3. traced \in SUBSET Questions
    BY <1>1, <1>3
  <2>4. job' = [job EXCEPT ![p] = i]
    <3>1. job \in [Processes -> Jobs \cup {Idle}]
      BY <1>1 DEF TypeOK
    <3>2. job' = [job EXCEPT ![p] = [job[p] EXCEPT !.rows = rows, !.traced = traced]]
      BY <1>4, <3>1 DEF Add
    <3> QED BY <3>2
  <2> HIDE DEF rows, traced
  <2>5. /\ i \in Jobs /\ i.rows = rows /\ i.samples = j.samples /\ i.file = j.file
        /\ i.open = j.open /\ i.op = j.op /\ i.old = j.old
    BY <1>1, <2>2, <2>3 DEF Jobs
  <2>6. \A k \in 1..(Len(j.rows) + 1) : rows[k].q = j.samples[k]
    <3>1. \A k \in 1..Len(j.rows) : rows[k].q = j.samples[k]
      BY <1>1, <2>2 DEF JobOK
    <3>2. rows[Len(j.rows) + 1].q = j.samples[Len(j.rows) + 1]
      BY <2>2
    <3> QED BY <1>2, <3>1, <3>2
  <2>7. ~(j.file > 1 \/ j.open)
    BY <1>1, <1>2 DEF JobOK
  <2> HIDE DEF i, j, q
  <2>8. JobOK(i)
    BY <1>1, <1>2, <2>2, <2>5, <2>6, <2>7 DEF JobOK
  <2> QED BY <2>4, <2>5, <2>8, OneJobType
<1>5. \A a : a \in Answers => a \in Answers \cup {NoAnswer}
  OBVIOUS
<1>6. cache[j.run][q] \in Answers \cup {NoAnswer} /\ NoAnswer \in Answers \cup {NoAnswer}
  BY <1>1, <1>3 DEF TypeOK
<1>7. \A n \in 1..Tries : [to |-> q, try |-> n] \in Answers
  BY <1>3 DEF Answers
<1>8. \E a \in Answers \cup {NoAnswer} :
        Add(p, q, a) /\ (cache' = cache \/ cache' = [cache EXCEPT ![j.run][q] = a])
  BY <1>6, <1>7 DEF Ask
<1>9. PICK a \in Answers \cup {NoAnswer} :
        Add(p, q, a) /\ (cache' = cache \/ cache' = [cache EXCEPT ![j.run][q] = a])
  BY <1>8
<1>10. /\ job' \in [Processes -> Jobs \cup {Idle}]
       /\ \A o \in Processes : job'[o] # Idle => JobOK(job'[o])
  BY <1>4, <1>9
<1>11. cache' \in [Runs -> [Questions -> Answers \cup {NoAnswer}]]
  <2>1. cache \in [Runs -> [Questions -> Answers \cup {NoAnswer}]] /\ j.run \in Runs
    BY <1>1 DEF TypeOK
  <2> HIDE DEF j, q
  <2>2. [cache EXCEPT ![j.run][q] = a] \in [Runs -> [Questions -> Answers \cup {NoAnswer}]]
    BY <1>3, <2>1
  <2> QED BY <1>9, <2>1, <2>2
<1>12. UNCHANGED <<disk, migration, outside, commands, history>>
  BY DEF Ask
<1>13. TypeOK'
  BY <1>1, <1>10, <1>11, <1>12 DEF TypeOK, outside, history
<1> QED BY <1>10, <1>13 DEF TypeInv, Working

\* What is common to the steps that write.
LEMMA UnfinishedType ==
  ASSUME TypeInv, NEW p \in Processes, Unfinished(p)
  PROVE  /\ job[p] \in Jobs /\ JobOK(job[p]) /\ job[p].run \in Runs
         /\ job[p].file \in 1..8 /\ FileOrder[job[p].file] \in Files
         /\ Len(job[p].rows) = Len(job[p].samples)
         /\ Scored(job[p]) \in Makings
<1>1. job[p] \in Jobs /\ JobOK(job[p]) /\ Len(job[p].rows) = Len(job[p].samples)
  BY DEF TypeInv, TypeOK, Unfinished, Answered, Working
<1>2. job[p].run \in Runs /\ job[p].file \in 1..8
  BY <1>1, FileNames DEF Jobs, Unfinished
<1> QED BY <1>1, <1>2, FileNames, ScoredType

\* A job that goes on to its next file.
LEMMA MovedJob ==
  ASSUME NEW j \in Jobs, JobOK(j), Len(j.rows) = Len(j.samples), NEW i \in Jobs,
         i.rows = j.rows, i.samples = j.samples, i.op = j.op, i.old = j.old,
         i.open => i.file <= 8
  PROVE  JobOK(i)
BY DEF JobOK

LEMMA OpenType ==
  ASSUME TypeInv, NEW p \in Processes, Open(p)
  PROVE  TypeInv'
<1> DEFINE j == job[p]
           f == FileOrder[j.file]
           i == [j EXCEPT !.open = TRUE]
<1>1. Unfinished(p) /\ TypeOK
  BY DEF Open, TypeInv
<1>2. /\ j \in Jobs /\ JobOK(j) /\ j.run \in Runs /\ j.file \in 1..8 /\ f \in Files
      /\ Len(j.rows) = Len(j.samples) /\ Scored(j) \in Makings
  BY <1>1, UnfinishedType
<1>3. PICK c \in Cut(f, Scored(j)) : disk' = [disk EXCEPT ![j.run][f] = c]
  BY DEF Open
<1>4. c \in Makings \cup {Torn}
  BY <1>2, CutIsMaking
<1>5. disk' \in [Runs -> [Files -> Makings \cup {Absent, Torn}]]
  BY <1>1, <1>2, <1>3, <1>4 DEF TypeOK
<1>6. i \in Jobs /\ JobOK(i)
  <2>1. /\ i \in Jobs /\ i.rows = j.rows /\ i.samples = j.samples /\ i.op = j.op
        /\ i.old = j.old /\ i.file = j.file
    BY <1>2 DEF Jobs
  <2> HIDE DEF i
  <2> QED BY <1>2, <2>1, MovedJob
<1>7. job' = [job EXCEPT ![p] = i]
  BY DEF Open
<1>8. /\ job' \in [Processes -> Jobs \cup {Idle}]
      /\ \A o \in Processes : job'[o] # Idle => JobOK(job'[o])
  <2> HIDE DEF i
  <2> QED BY <1>6, <1>7, OneJobType
<1>9. whole' \in [Runs -> Makings \cup {Unknown}]
  BY <1>1, <1>2 DEF Open, TypeOK
<1>10. UNCHANGED <<migration, cache, outside, commands, prior>>
  BY DEF Open
<1>11. TypeOK'
  BY <1>1, <1>5, <1>8, <1>9, <1>10 DEF TypeOK, outside
<1> QED BY <1>8, <1>11 DEF TypeInv, Working

LEMMA CloseType ==
  ASSUME TypeInv, NEW p \in Processes, Close(p)
  PROVE  TypeInv'
<1> DEFINE j == job[p]
           f == FileOrder[j.file]
           i == [j EXCEPT !.open = FALSE, !.file = @ + 1]
<1>1. Unfinished(p) /\ TypeOK
  BY DEF Close, TypeInv
<1>2. /\ j \in Jobs /\ JobOK(j) /\ j.run \in Runs /\ j.file \in 1..8 /\ f \in Files
      /\ Len(j.rows) = Len(j.samples) /\ Scored(j) \in Makings
  BY <1>1, UnfinishedType
<1>3. disk' = [disk EXCEPT ![j.run][f] = Scored(j)]
  BY DEF Close
<1>4. disk' \in [Runs -> [Files -> Makings \cup {Absent, Torn}]]
  BY <1>1, <1>2, <1>3 DEF TypeOK
<1>5. i \in Jobs /\ JobOK(i)
  <2>1. j.file + 1 \in 1..(Len(FileOrder) + 1)
    BY <1>2, FileNames
  <2>2. /\ i \in Jobs /\ i.rows = j.rows /\ i.samples = j.samples /\ i.op = j.op
        /\ i.old = j.old /\ i.open = FALSE
    BY <1>2, <2>1 DEF Jobs
  <2> HIDE DEF i
  <2> QED BY <1>2, <2>2, MovedJob
<1>6. job' = [job EXCEPT ![p] = i]
  BY DEF Close
<1>7. /\ job' \in [Processes -> Jobs \cup {Idle}]
      /\ \A o \in Processes : job'[o] # Idle => JobOK(job'[o])
  <2> HIDE DEF i
  <2> QED BY <1>5, <1>6, OneJobType
<1>8. UNCHANGED <<migration, cache, outside, commands, history>>
  BY DEF Close
<1>9. TypeOK'
  BY <1>1, <1>4, <1>7, <1>8 DEF TypeOK, outside, history
<1> QED BY <1>7, <1>9 DEF TypeInv, Working

LEMMA SkipType ==
  ASSUME TypeInv, NEW p \in Processes, Skip(p)
  PROVE  TypeInv'
<1> DEFINE j == job[p]
           i == [j EXCEPT !.file = @ + 1]
<1>1. Unfinished(p) /\ TypeOK /\ ~j.open
  BY DEF Skip, TypeInv
<1>2. j \in Jobs /\ JobOK(j) /\ j.file \in 1..8 /\ Len(j.rows) = Len(j.samples)
  BY <1>1, UnfinishedType
<1>3. i \in Jobs /\ JobOK(i)
  <2>1. j.file + 1 \in 1..(Len(FileOrder) + 1)
    BY <1>2, FileNames
  <2>2. /\ i \in Jobs /\ i.rows = j.rows /\ i.samples = j.samples /\ i.op = j.op
        /\ i.old = j.old /\ i.open = j.open
    BY <1>2, <2>1 DEF Jobs
  <2> HIDE DEF i
  <2> QED BY <1>1, <1>2, <2>2, MovedJob
<1>4. job' = [job EXCEPT ![p] = i]
  BY DEF Skip
<1>5. /\ job' \in [Processes -> Jobs \cup {Idle}]
      /\ \A o \in Processes : job'[o] # Idle => JobOK(job'[o])
  <2> HIDE DEF i
  <2> QED BY <1>3, <1>4, OneJobType
<1>6. UNCHANGED <<disk, migration, cache, outside, commands, history>>
  BY DEF Skip
<1>7. TypeOK'
  BY <1>1, <1>5, <1>6 DEF TypeOK, outside, history
<1> QED BY <1>5, <1>7 DEF TypeInv, Working

LEMMA FinishType ==
  ASSUME TypeInv, NEW p \in Processes, Finish(p)
  PROVE  TypeInv'
<1> DEFINE j == job[p]
<1>1. /\ TypeOK /\ j \in Jobs /\ JobOK(j) /\ j.run \in Runs
  BY DEF TypeInv, TypeOK, Finish, Answered, Working, Jobs
<1>2. Migrated(j) \in Records \cup {Absent}
  <2>1. CASE j.op = "eval"
    BY <1>1, <2>1 DEF Migrated, TypeOK
  <2>2. CASE j.op # "eval"
    <3>1. Recorded(j.run) \in [evaluator : 1..MaxEvaluator, hashes : SUBSET Rows]
      BY <1>1, <2>2, RecordedType DEF Finish
    <3>2. j.old \in [evaluator : 1..MaxEvaluator, hashes : SUBSET Rows]
      BY <1>1, <2>2 DEF JobOK
    <3>3. \A b \in BOOLEAN :
            [old |-> OldEvaluator(j), new |-> Recorded(j.run).evaluator, preserved |-> b]
              \in Records
      BY <3>1, <3>2 DEF Records, OldEvaluator
    <3>4. migration[j.run] \in Records \cup {Absent}
      BY <1>1 DEF TypeOK
    <3> HIDE DEF j
    <3>5. (j.old.hashes # {} /\ j.old.hashes = Recorded(j.run).hashes) \in BOOLEAN
      OBVIOUS
    <3> QED BY <3>3, <3>4, <3>5 DEF Migrated
  <2> QED BY <2>1, <2>2
<1>3. Scored(j) \in Makings /\ j.found \in Makings \cup {Unknown}
  BY <1>1, ScoredType DEF Jobs
<1>4. job' = [job EXCEPT ![p] = Idle]
  BY DEF Finish
<1>5. /\ job' \in [Processes -> Jobs \cup {Idle}]
      /\ \A o \in Processes : job'[o] # Idle => JobOK(job'[o])
  BY <1>4, OneJobType
<1>6. migration' = [migration EXCEPT ![j.run] = Migrated(j)]
  BY DEF Finish
<1>7. \E w \in Makings \cup {Unknown} : whole' = [whole EXCEPT ![j.run] = w]
  <2>1. whole' = [whole EXCEPT ![j.run] = IF j.alone THEN Scored(j) ELSE Unknown]
    BY DEF Finish
  <2> HIDE DEF j
  <2> QED BY <1>3, <2>1
<1>8. \E w \in Makings \cup {Unknown} : prior' = [prior EXCEPT ![j.run] = w]
  <2>1. prior' = [prior EXCEPT ![j.run] = IF j.op # "eval" /\ j.alone THEN j.found
                                           ELSE Unknown]
    BY DEF Finish
  <2> HIDE DEF j
  <2> QED BY <1>3, <2>1
<1>9. UNCHANGED <<disk, cache, outside, commands>>
  BY DEF Finish
<1>10. migration' \in [Runs -> Records \cup {Absent}]
  BY <1>1, <1>2, <1>6 DEF TypeOK
<1>11. whole' \in [Runs -> Makings \cup {Unknown}]
  BY <1>1, <1>7 DEF TypeOK
<1>12. prior' \in [Runs -> Makings \cup {Unknown}]
  BY <1>1, <1>8 DEF TypeOK
<1>13. TypeOK'
  BY <1>1, <1>5, <1>9, <1>10, <1>11, <1>12 DEF TypeOK, outside
<1> QED BY <1>5, <1>13 DEF TypeInv, Working

LEMMA KillType ==
  ASSUME TypeInv, NEW p \in Processes, Kill(p)
  PROVE  TypeInv'
<1>1. job' = [job EXCEPT ![p] = Idle]
  BY DEF Kill
<1>2. /\ job' \in [Processes -> Jobs \cup {Idle}]
      /\ \A o \in Processes : job'[o] # Idle => JobOK(job'[o])
  BY <1>1, OneJobType
<1>3. UNCHANGED <<disk, migration, cache, outside, commands, history>>
  BY DEF Kill
<1> QED BY <1>2, <1>3 DEF TypeInv, TypeOK, Working, outside, history

LEMMA ClearCacheType ==
  ASSUME TypeInv, ClearCache
  PROVE  TypeInv'
<1>1. cache' \in [Runs -> [Questions -> Answers \cup {NoAnswer}]]
  BY DEF ClearCache, NoResponses
<1>2. UNCHANGED <<disk, migration, outside, job, commands, history>>
  BY DEF ClearCache
<1> QED BY <1>1, <1>2 DEF TypeInv, TypeOK, Working, outside, history

LEMMA InitType == Init => TypeInv
<1> SUFFICES ASSUME Init PROVE TypeInv
  OBVIOUS
<1>1. 1 \in 1..MaxEvaluator /\ 0 \in 0..MaxCommands
  BY StoreAssumption
<1>2. cache \in [Runs -> [Questions -> Answers \cup {NoAnswer}]]
  BY DEF Init, NoResponses
<1>3. TypeOK
  BY <1>1, <1>2 DEF Init, TypeOK
<1>4. \A p \in Processes : ~Working(p)
  BY DEF Init, Working
<1> QED BY <1>3, <1>4 DEF TypeInv

LEMMA NextType == TypeInv /\ [Next]_vars => TypeInv'
<1> SUFFICES ASSUME TypeInv, [Next]_vars PROVE TypeInv'
  OBVIOUS
<1>1. ASSUME NEW p \in Processes, NEW r \in Runs, NEW resuming \in BOOLEAN,
             NEW useCache \in BOOLEAN, NEW limit \in Limits,
             StartEval(p, r, resuming, limit, useCache)
      PROVE  TypeInv'
  BY <1>1, StartEvalType
<1>2. ASSUME NEW p \in Processes, NEW r \in Runs, StartResume(p, r)
      PROVE  TypeInv'
  BY <1>2, StartResumeType
<1>3. ASSUME NEW p \in Processes, NEW r \in Runs, StartRescore(p, r)
      PROVE  TypeInv'
  BY <1>3, StartRescoreType
<1>4. ASSUME NEW p \in Processes,
             Ask(p) \/ Open(p) \/ Close(p) \/ Skip(p) \/ Finish(p) \/ Kill(p)
      PROVE  TypeInv'
  BY <1>4, AskType, OpenType, CloseType, SkipType, FinishType, KillType
<1>5. CASE ClearCache
  BY <1>5, ClearCacheType
<1>6. CASE UNCHANGED vars
  BY <1>6 DEF vars, TypeInv, TypeOK, Working, outside, history
<1> QED BY <1>1, <1>2, <1>3, <1>4, <1>5, <1>6 DEF Next

\* Every variable has its type, whatever commands run, meet or are killed.
THEOREM TypeCorrect == Spec => []TypeOK
<1>1. TypeInv => TypeOK
  BY DEF TypeInv
<1> QED BY <1>1, InitType, NextType, PTL DEF Spec

-----------------------------------------------------------------------------
(* Answers stay with their questions. *)

\* The cache, and every job, pair answers with the questions they were given to; the
\* files do because they are written from nothing else.
OwnInv ==
  /\ GradesAreOfTheirQuestion
  /\ \A r \in Runs, q \in Questions : cache[r][q] # NoAnswer => cache[r][q].to = q
  /\ \A p \in Processes : Working(p) => OwnAnswers(job[p].rows)

LEMMA ScoredOwn ==
  ASSUME NEW j \in Jobs, JobOK(j), OwnAnswers(j.rows)
  PROVE  OwnAnswers(Scored(j).rows) /\ OwnAnswers(Scored(j).grades)
<1>1. /\ Len(j.rows) \in Nat /\ DOMAIN j.rows = 1..Len(j.rows)
      /\ \A k \in 1..Len(j.rows) : j.samples[k] = j.rows[k].q
  BY ScoredType
<1>2. Scored(j).rows = j.rows
      /\ Scored(j).grades = [k \in 1..Len(j.rows) |-> [q |-> j.rows[k].q, a |-> j.rows[k].a]]
  BY <1>1 DEF Scored
<1> QED BY <1>1, <1>2 DEF OwnAnswers

LEMMA CutOwn ==
  ASSUME NEW m \in Makings, OwnAnswers(m.rows), OwnAnswers(m.grades),
         NEW f, NEW c \in Cut(f, m), c # Torn
  PROVE  OwnAnswers(c.rows) /\ OwnAnswers(c.grades)
<1>1. m.rows \in Seq(Rows) /\ m.grades \in Seq(Rows)
  BY DEF Makings
<1>2. ASSUME NEW n \in 0..Len(m.rows), c = [m EXCEPT !.rows = SubSeq(@, 1, n)]
      PROVE  OwnAnswers(c.rows) /\ OwnAnswers(c.grades)
  <2>1. c.rows = SubSeq(m.rows, 1, n) /\ c.grades = m.grades
    BY <1>2 DEF Makings
  <2>2. \A k \in DOMAIN c.rows : k \in DOMAIN m.rows /\ c.rows[k] = m.rows[k]
    BY <1>1, <2>1, Shortened
  <2> QED BY <2>1, <2>2 DEF OwnAnswers
<1>3. ASSUME NEW n \in 0..Len(m.grades), c = [m EXCEPT !.grades = SubSeq(@, 1, n)]
      PROVE  OwnAnswers(c.rows) /\ OwnAnswers(c.grades)
  <2>1. c.grades = SubSeq(m.grades, 1, n) /\ c.rows = m.rows
    BY <1>3 DEF Makings
  <2>2. \A k \in DOMAIN c.grades : k \in DOMAIN m.grades /\ c.grades[k] = m.grades[k]
    BY <1>1, <2>1, Shortened
  <2> QED BY <2>1, <2>2 DEF OwnAnswers
<1>4. CASE c = [m EXCEPT !.traced = {}]
  <2>1. c.rows = m.rows /\ c.grades = m.grades
    BY <1>4 DEF Makings
  <2> QED BY <2>1
<1> QED BY <1>2, <1>3, <1>4, CutType

\* A step that leaves the files and the cache alone and shortens or keeps the work.
LEMMA StartOwn ==
  ASSUME TypeInv, OwnInv, NEW p \in Processes, NEW j, OwnAnswers(j.rows), Launch(p, j)
  PROVE  OwnInv'
<1>1. job \in [Processes -> Jobs \cup {Idle}]
  BY DEF TypeInv, TypeOK
<1>2. UNCHANGED <<disk, cache>>
  BY DEF Launch
<1>3. ASSUME NEW o \in Processes, job'[o] # Idle
      PROVE  OwnAnswers(job'[o].rows)
  <2>1. CASE o = p
    BY <2>1 DEF Launch
  <2>2. CASE o # p /\ Busy(o, j.run)
    <3>1. job'[o] = [job[o] EXCEPT !.alone = FALSE] /\ job[o] \in Jobs
          /\ OwnAnswers(job[o].rows)
      BY <1>1, <2>2 DEF Launch, Busy, OwnInv, Working
    <3>2. job'[o].rows = job[o].rows
      BY <3>1 DEF Jobs
    <3> QED BY <3>1, <3>2
  <2>3. CASE o # p /\ ~Busy(o, j.run)
    BY <1>3, <2>3 DEF Launch, OwnInv, Working
  <2> QED BY <2>1, <2>2, <2>3
<1> QED BY <1>2, <1>3 DEF OwnInv, GradesAreOfTheirQuestion, Readable, Working

LEMMA AskOwn ==
  ASSUME TypeInv, OwnInv, NEW p \in Processes, Ask(p)
  PROVE  OwnInv'
<1> DEFINE j == job[p]
           q == j.samples[Len(j.rows) + 1]
<1>1. /\ TypeOK /\ j \in Jobs /\ JobOK(j) /\ j.rows \in Seq(Rows)
      /\ j.samples \in Seq(Questions) /\ j.run \in Runs /\ OwnAnswers(j.rows)
      /\ job \in [Processes -> Jobs \cup {Idle}]
      /\ cache \in [Runs -> [Questions -> Answers \cup {NoAnswer}]]
  BY DEF TypeInv, TypeOK, Ask, Working, Jobs, OwnInv
<1>2. q \in Questions
  <2>1. Len(j.rows) \in Nat /\ Len(j.samples) \in Nat
    BY <1>1, LenProperties
  <2>2. Len(j.rows) # Len(j.samples)
    BY DEF Ask, Answered
  <2>3. Len(j.rows) + 1 \in 1..Len(j.samples)
    BY <1>1, <2>1, <2>2 DEF JobOK
  <2> QED BY <1>1, <2>3, ElementOfSeq
<1>3. \E a \in Answers \cup {NoAnswer} :
        /\ a = NoAnswer \/ a.to = q
        /\ Add(p, q, a)
        /\ cache' = cache \/ cache' = [cache EXCEPT ![j.run][q] = a]
  <2>1. \A n \in 1..Tries : [to |-> q, try |-> n] \in Answers
    BY <1>2 DEF Answers
  <2>2. cache[j.run][q] \in Answers \cup {NoAnswer}
    BY <1>1, <1>2
  <2>3. cache[j.run][q] # NoAnswer => cache[j.run][q].to = q
    BY <1>1, <1>2 DEF OwnInv
  <2>4. \A n \in 1..Tries : [to |-> q, try |-> n].to = q
    OBVIOUS
  <2> QED BY <2>1, <2>2, <2>3, <2>4 DEF Ask
<1>4. PICK a \in Answers \cup {NoAnswer} :
        /\ a = NoAnswer \/ a.to = q
        /\ Add(p, q, a)
        /\ cache' = cache \/ cache' = [cache EXCEPT ![j.run][q] = a]
  BY <1>3
<1>5. UNCHANGED disk
  BY DEF Ask
<1> DEFINE row == [q |-> q, a |-> a]
           rows == Append(j.rows, row)
<1>6. row \in Rows /\ (row.a = NoAnswer \/ row.a.to = row.q)
  BY <1>2, <1>4 DEF Rows
<1>7. OwnAnswers(rows)
  <2>1. Len(j.rows) \in Nat /\ DOMAIN j.rows = 1..Len(j.rows)
    BY <1>1, LenProperties
  <2> HIDE DEF row
  <2>2. /\ rows \in Seq(Rows) /\ Len(rows) = Len(j.rows) + 1
        /\ rows[Len(j.rows) + 1] = row
        /\ \A k \in 1..Len(j.rows) : rows[k] = j.rows[k]
    BY <1>1, <1>6, AppendProperties
  <2>3. DOMAIN rows = 1..(Len(j.rows) + 1)
    BY <2>2, LenProperties
  <2> HIDE DEF rows
  <2>4. \A k \in DOMAIN rows : k \in DOMAIN j.rows \/ k = Len(j.rows) + 1
    BY <2>1, <2>3
  <2> QED BY <1>1, <1>6, <2>1, <2>2, <2>4 DEF OwnAnswers
<1>8. \A o \in Processes : job'[o] # Idle => OwnAnswers(job'[o].rows)
  <2>1. job' = [job EXCEPT ![p].rows = rows,
                           ![p].traced = IF j.run \in Tooled /\ a # NoAnswer
                                         THEN @ \cup {q} ELSE @]
    BY <1>4 DEF Add
  <2> HIDE DEF rows
  <2>2. job'[p].rows = rows
    BY <1>1, <2>1 DEF Jobs
  <2>3. \A o \in Processes : o # p => job'[o] = job[o]
    BY <1>1, <2>1
  <2> QED BY <1>7, <2>2, <2>3 DEF OwnInv, Working
<1>9. \A r \in Runs, x \in Questions : cache'[r][x] # NoAnswer => cache'[r][x].to = x
  <2> HIDE DEF j, q, rows, row
  <2>1. CASE cache' = cache
    BY <2>1 DEF OwnInv
  <2>2. CASE cache' = [cache EXCEPT ![j.run][q] = a]
    <3>1. \A r \in Runs, x \in Questions :
            cache'[r][x] = IF r = j.run /\ x = q THEN a ELSE cache[r][x]
      BY <1>1, <1>2, <2>2
    <3> QED BY <1>4, <3>1 DEF OwnInv
  <2> QED BY <1>4, <2>1, <2>2
<1> QED BY <1>5, <1>8, <1>9 DEF OwnInv, GradesAreOfTheirQuestion, Readable, Working

\* Writing a file of which every readable state is in order.
LEMMA WriteOwn ==
  ASSUME TypeInv, OwnInv, NEW r \in Runs, NEW f \in Files, NEW c,
         c # Torn => OwnAnswers(c.rows) /\ OwnAnswers(c.grades),
         disk' = [disk EXCEPT ![r][f] = c]
  PROVE  GradesAreOfTheirQuestion'
<1>1. disk \in [Runs -> [Files -> Makings \cup {Absent, Torn}]]
  BY DEF TypeInv, TypeOK
<1>2. \A s \in Runs, g \in Files :
        disk'[s][g] = IF s = r /\ g = f THEN c ELSE disk[s][g]
  BY <1>1
<1> QED BY <1>2 DEF GradesAreOfTheirQuestion, OwnInv, Readable

\* A step after which each job has the rows it had, or is gone.
LEMMA RowsKept ==
  ASSUME TypeInv, OwnInv, NEW p \in Processes, NEW j, j # Idle => j.rows = job[p].rows,
         Working(p), job' = [job EXCEPT ![p] = j]
  PROVE  \A o \in Processes : job'[o] # Idle => OwnAnswers(job'[o].rows)
<1>1. job \in [Processes -> Jobs \cup {Idle}]
  BY DEF TypeInv, TypeOK
<1>2. \A o \in Processes : job'[o] = IF o = p THEN j ELSE job[o]
  BY <1>1
<1> QED BY <1>2 DEF OwnInv, Working

LEMMA OwnInitially == Init => OwnInv
<1> SUFFICES ASSUME Init PROVE OwnInv
  OBVIOUS
<1>1. \A r \in Runs, f \in Files : ~Readable(r, f)
  BY DEF Init, Readable
<1>2. \A r \in Runs, q \in Questions : cache[r][q] = NoAnswer
  BY DEF Init, NoResponses
<1>3. \A p \in Processes : ~Working(p)
  BY DEF Init, Working
<1> QED BY <1>1, <1>2, <1>3 DEF OwnInv, GradesAreOfTheirQuestion

LEMMA OwnStep ==
  ASSUME TypeInv, OwnInv, [Next]_vars
  PROVE  OwnInv'
<1>1. ASSUME NEW p \in Processes, NEW r \in Runs, NEW resuming \in BOOLEAN,
             NEW useCache \in BOOLEAN, NEW limit \in Limits,
             StartEval(p, r, resuming, limit, useCache)
      PROVE  OwnInv'
  <2>1. PICK samples : Launch(p, Job("eval", r, samples, <<>>, limit, useCache))
    BY <1>1 DEF StartEval
  <2>2. OwnAnswers(Job("eval", r, samples, <<>>, limit, useCache).rows)
    BY DEF Job, OwnAnswers
  <2> QED BY <2>1, <2>2, StartOwn
<1>2. ASSUME NEW p \in Processes, NEW r \in Runs, StartResume(p, r)
      PROVE  OwnInv'
  <2> DEFINE j(samples) == [Job("resume", r, samples, <<>>, disk[r]["run_config"].limit, TRUE)
                              EXCEPT !.old = Recorded(r)]
  <2>1. PICK samples : Launch(p, j(samples))
    BY <1>2 DEF StartResume
  <2>2. OwnAnswers(j(samples).rows)
    BY DEF Job, OwnAnswers
  <2> QED BY <2>1, <2>2, StartOwn
<1>3. ASSUME NEW p \in Processes, NEW r \in Runs, StartRescore(p, r)
      PROVE  OwnInv'
  <2> DEFINE j == [Job("rescore", r, RescoreSamples(r), RecordedRows(r),
                       disk[r]["run_config"].limit, TRUE)
                     EXCEPT !.old = Recorded(r), !.traced = StoredTraces(r)]
  <2>1. Launch(p, j)
    BY <1>3 DEF StartRescore
  <2>2. j.rows = RecordedRows(r)
    BY DEF Job
  <2>3. OwnAnswers(RecordedRows(r))
    BY <1>3, FileNames DEF StartRescore, ResumeChecks, OwnInv, GradesAreOfTheirQuestion,
                           RecordedRows
  <2> HIDE DEF j
  <2> QED BY <2>1, <2>2, <2>3, StartOwn
<1>4. ASSUME NEW p \in Processes, Ask(p) PROVE OwnInv'
  BY <1>4, AskOwn
<1>5. ASSUME NEW p \in Processes, Open(p) PROVE OwnInv'
  <2> DEFINE j == job[p]
             i == [j EXCEPT !.open = TRUE]
             f == FileOrder[j.file]
  <2>1. Unfinished(p) /\ job' = [job EXCEPT ![p] = i] /\ UNCHANGED cache
    BY <1>5 DEF Open
  <2>2. PICK c \in Cut(f, Scored(j)) : disk' = [disk EXCEPT ![j.run][f] = c]
    BY <1>5 DEF Open
  <2>3. /\ j \in Jobs /\ JobOK(j) /\ j.run \in Runs /\ f \in Files /\ Scored(j) \in Makings
        /\ OwnAnswers(j.rows) /\ Working(p)
    BY <2>1, UnfinishedType DEF OwnInv, Unfinished, Answered
  <2>4. c # Torn => OwnAnswers(c.rows) /\ OwnAnswers(c.grades)
    BY <2>2, <2>3, ScoredOwn, CutOwn
  <2>5. GradesAreOfTheirQuestion'
    BY <2>2, <2>3, <2>4, WriteOwn
  <2>6. i.rows = j.rows
    BY <2>3 DEF Jobs
  <2>7. \A o \in Processes : job'[o] # Idle => OwnAnswers(job'[o].rows)
    BY <2>1, <2>3, <2>6, RowsKept
  <2> QED BY <2>1, <2>5, <2>7 DEF OwnInv, Working
<1>6. ASSUME NEW p \in Processes, Close(p) PROVE OwnInv'
  <2> DEFINE j == job[p]
             i == [j EXCEPT !.open = FALSE, !.file = @ + 1]
             f == FileOrder[j.file]
  <2>1. /\ Unfinished(p) /\ job' = [job EXCEPT ![p] = i] /\ UNCHANGED cache
        /\ disk' = [disk EXCEPT ![j.run][f] = Scored(j)]
    BY <1>6 DEF Close
  <2>2. /\ j \in Jobs /\ JobOK(j) /\ j.run \in Runs /\ f \in Files
        /\ OwnAnswers(j.rows) /\ Working(p)
    BY <2>1, UnfinishedType DEF OwnInv, Unfinished, Answered
  <2>3. OwnAnswers(Scored(j).rows) /\ OwnAnswers(Scored(j).grades)
    BY <2>2, ScoredOwn
  <2>4. GradesAreOfTheirQuestion'
    BY <2>1, <2>2, <2>3, WriteOwn
  <2>5. i.rows = j.rows
    BY <2>2 DEF Jobs
  <2>6. \A o \in Processes : job'[o] # Idle => OwnAnswers(job'[o].rows)
    BY <2>1, <2>2, <2>5, RowsKept
  <2> QED BY <2>1, <2>4, <2>6 DEF OwnInv, Working
<1>7. ASSUME NEW p \in Processes, Skip(p) PROVE OwnInv'
  <2> DEFINE i == [job[p] EXCEPT !.file = @ + 1]
  <2>1. Unfinished(p) /\ job' = [job EXCEPT ![p] = i] /\ UNCHANGED <<disk, cache>>
    BY <1>7 DEF Skip
  <2>2. job[p] \in Jobs /\ Working(p)
    BY <2>1, UnfinishedType DEF Unfinished, Answered
  <2>3. i.rows = job[p].rows
    BY <2>2 DEF Jobs
  <2>4. \A o \in Processes : job'[o] # Idle => OwnAnswers(job'[o].rows)
    BY <2>1, <2>2, <2>3, RowsKept
  <2> QED BY <2>1, <2>4 DEF OwnInv, GradesAreOfTheirQuestion, Readable, Working
<1>8. ASSUME NEW p \in Processes, Finish(p) \/ Kill(p) PROVE OwnInv'
  <2>1. Working(p) /\ job' = [job EXCEPT ![p] = Idle] /\ UNCHANGED <<disk, cache>>
    BY <1>8 DEF Finish, Kill, Answered
  <2>2. \A o \in Processes : job'[o] # Idle => OwnAnswers(job'[o].rows)
    BY <2>1, RowsKept
  <2> QED BY <2>1, <2>2 DEF OwnInv, GradesAreOfTheirQuestion, Readable, Working
<1>9. CASE ClearCache
  <2>1. \A r \in Runs, q \in Questions : cache'[r][q] = NoAnswer
    BY <1>9 DEF ClearCache, NoResponses
  <2>2. UNCHANGED <<disk, job>>
    BY <1>9 DEF ClearCache
  <2> QED BY <2>1, <2>2 DEF OwnInv, GradesAreOfTheirQuestion, Readable, Working
<1>10. CASE UNCHANGED vars
  BY <1>10 DEF vars, OwnInv, GradesAreOfTheirQuestion, Readable, Working
<1> QED BY <1>1, <1>2, <1>3, <1>4, <1>5, <1>6, <1>7, <1>8, <1>9, <1>10 DEF Next

\* No file ever holds an answer, or a grade of it, under another question than the one
\* it was given to.
THEOREM AnswersKeepTheirQuestion == Spec => []GradesAreOfTheirQuestion
<1>1. OwnInv => GradesAreOfTheirQuestion
  BY DEF OwnInv
<1> QED BY <1>1, InitType, NextType, OwnInitially, OwnStep, PTL DEF Spec

-----------------------------------------------------------------------------
(* The invariant. *)

\* File k of the job's directory is already of its making.
Written(j, k) ==
  disk[j.run][FileOrder[k]] = Scored(j) \/ (FileOrder[k] = "tool_traces" /\ j.traced = {})

\* Commands that meet on a directory know that they are not alone.
Exclusive ==
  \A p, o \in Processes :
    p # o /\ Working(p) /\ Working(o) /\ job[p].run = job[o].run => ~job[p].alone

OpenedIsUnknown ==
  \A p \in Processes : Working(p) /\ job[p].open => whole[job[p].run] = Unknown

Behind ==
  \A p \in Processes : Working(p) /\ job[p].alone =>
    \A k \in 1..(job[p].file - 1) : Written(job[p], k)

DirInv == Exclusive /\ OpenedIsUnknown /\ Behind /\ WholeRunIsOneMaking

\* What a rescore or resume remembers of a whole run is what the run was.
Remembered ==
  \A p \in Processes : Working(p) /\ job[p].op # "eval" /\ job[p].found # Unknown =>
    /\ job[p].old.evaluator = job[p].found.evaluator
    /\ job[p].old.hashes = Range(job[p].found.rows)

\* And a resume or rescore of a manifest run works on the manifest the run was frozen to.
Refrozen ==
  \A p \in Processes :
    Working(p) /\ job[p].op # "eval" /\ job[p].found # Unknown /\ job[p].run \in Manifested =>
      /\ job[p].frozen = job[p].found.frozen
      /\ Range(job[p].samples) \in {job[p].found.frozen, Ids(job[p].found.rows)}

WholeInv ==
  /\ DirInv
  /\ Remembered
  /\ Refrozen
  /\ MigrationIsRecorded
  /\ FrozenQuestionsStay

-----------------------------------------------------------------------------
(* Facts the steps share. *)

LEMMA FilesDiffer == \A k, l \in 1..8 : FileOrder[k] = FileOrder[l] => k = l
BY DEF FileOrder

\* Every file has its place in the order.
LEMMA FilePlace == \A f \in Files : \E k \in 1..8 : FileOrder[k] = f
BY DEF Files, FileOrder, Range

LEMMA WorkingType ==
  ASSUME TypeInv, NEW p \in Processes, Working(p)
  PROVE  /\ job[p] \in Jobs /\ JobOK(job[p]) /\ job[p].run \in Runs
         /\ job[p].file \in 1..9 /\ job[p].open \in BOOLEAN /\ job[p].alone \in BOOLEAN
<1>1. job[p] \in Jobs /\ JobOK(job[p])
  BY DEF TypeInv, TypeOK, Working
<1> QED BY <1>1, FileNames DEF Jobs

LEMMA OnlyItsJob ==
  ASSUME TypeInv, NEW p \in Processes, NEW j, job' = [job EXCEPT ![p] = j]
  PROVE  \A o \in Processes : job'[o] = IF o = p THEN j ELSE job[o]
BY DEF TypeInv, TypeOK

LEMMA OnlyItsFile ==
  ASSUME TypeInv, NEW r \in Runs, NEW f \in Files, NEW c, disk' = [disk EXCEPT ![r][f] = c]
  PROVE  \A s \in Runs, g \in Files : disk'[s][g] = IF s = r /\ g = f THEN c ELSE disk[s][g]
BY DEF TypeInv, TypeOK

\* After Launch the new job is the process's, and a job still alone is untouched.
LEMMA LaunchJobs ==
  ASSUME TypeInv, NEW p \in Processes, NEW j, Launch(p, j)
  PROVE  /\ job'[p] = j
         /\ \A o \in Processes : o # p /\ job'[o] # Idle =>
              /\ Working(o)
              /\ job'[o].run = job[o].run /\ job'[o].open = job[o].open
              /\ job'[o].alone => job'[o] = job[o] /\ job[o].run # j.run
              /\ job'[o] = job[o] \/ job'[o] = [job[o] EXCEPT !.alone = FALSE]
         /\ UNCHANGED <<disk, migration, whole, prior>>
<1>1. job'[p] = j
  BY DEF Launch
<1>2. ASSUME NEW o \in Processes, o # p, job'[o] # Idle
      PROVE  /\ Working(o)
             /\ job'[o].run = job[o].run /\ job'[o].open = job[o].open
             /\ job'[o].alone => job'[o] = job[o] /\ job[o].run # j.run
             /\ job'[o] = job[o] \/ job'[o] = [job[o] EXCEPT !.alone = FALSE]
  <2>1. CASE Busy(o, j.run)
    <3>1. job'[o] = [job[o] EXCEPT !.alone = FALSE] /\ Working(o)
      BY <1>2, <2>1 DEF Launch, Busy, Working
    <3>2. job[o] \in Jobs
      BY <3>1, WorkingType
    <3>3. /\ job'[o].run = job[o].run /\ job'[o].open = job[o].open /\ ~job'[o].alone
      BY <3>1, <3>2 DEF Jobs
    <3> QED BY <3>1, <3>3
  <2>2. CASE ~Busy(o, j.run)
    <3>1. job'[o] = job[o]
      BY <1>2, <2>2 DEF Launch
    <3> QED BY <1>2, <2>2, <3>1 DEF Busy, Working
  <2> QED BY <2>1, <2>2
<1> QED BY <1>1, <1>2 DEF Launch, history

-----------------------------------------------------------------------------
(* DirInv is kept. *)

LEMMA LaunchDir ==
  ASSUME TypeInv, DirInv, NEW p \in Processes, NEW r \in Runs, Ready(p),
         NEW j, j.run = r, j.file = 1, j.open = FALSE,
         j.alone <=> ~\E o \in Processes : Busy(o, r),
         Launch(p, j)
  PROVE  DirInv'
<1>0. /\ job'[p] = j /\ UNCHANGED <<disk, whole>>
      /\ \A o \in Processes : o # p /\ job'[o] # Idle =>
           /\ Working(o)
           /\ job'[o].run = job[o].run /\ job'[o].open = job[o].open
           /\ job'[o].alone => job'[o] = job[o] /\ job[o].run # j.run
  BY LaunchJobs
<1>1. Exclusive'
  <2> SUFFICES ASSUME NEW o \in Processes, NEW i \in Processes, o # i, job'[o] # Idle,
                      job'[i] # Idle, job'[o].run = job'[i].run
               PROVE  ~job'[o].alone
    BY DEF Exclusive, Working
  <2>1. CASE o = p
    <3>1. Working(i) /\ job[i].run = r
      BY <1>0, <2>1
    <3>2. Busy(i, r)
      BY <3>1 DEF Busy, Working
    <3> QED BY <1>0, <2>1, <3>2
  <2>2. CASE o # p /\ i = p
    BY <1>0, <2>2
  <2>3. CASE o # p /\ i # p
    <3>1. Working(o) /\ Working(i) /\ job[o].run = job[i].run
      BY <1>0, <2>3
    <3>2. ~job[o].alone
      BY <2>3, <3>1 DEF DirInv, Exclusive
    <3> QED BY <1>0, <2>3, <3>2
  <2> QED BY <2>1, <2>2, <2>3
<1>2. OpenedIsUnknown'
  <2> SUFFICES ASSUME NEW o \in Processes, job'[o] # Idle, job'[o].open
               PROVE  whole'[job'[o].run] = Unknown
    BY DEF OpenedIsUnknown, Working
  <2>1. o # p /\ Working(o) /\ job'[o].run = job[o].run /\ job'[o].open = job[o].open
    BY <1>0
  <2>2. whole[job[o].run] = Unknown
    BY <2>1 DEF DirInv, OpenedIsUnknown
  <2> QED BY <1>0, <2>1, <2>2
<1>3. Behind'
  <2> SUFFICES ASSUME NEW o \in Processes, job'[o] # Idle, job'[o].alone,
                      NEW k \in 1..(job'[o].file - 1)
               PROVE  Written(job[o], k)'
    BY DEF Behind, Working
  <2>1. CASE o = p
    BY <1>0, <2>1
  <2>2. CASE o # p
    <3>1. Working(o) /\ job'[o] = job[o] /\ UNCHANGED disk
      BY <1>0, <2>2
    <3>2. Written(job[o], k)
      BY <3>1 DEF DirInv, Behind
    <3> QED BY <3>1, <3>2 DEF Written, Scored
  <2> QED BY <2>1, <2>2
<1>4. WholeRunIsOneMaking'
  BY <1>0 DEF DirInv, WholeRunIsOneMaking
<1> QED BY <1>1, <1>2, <1>3, <1>4 DEF DirInv

\* A process that goes on with its job stays as alone as it was.
LEMMA MovedExclusive ==
  ASSUME TypeInv, Exclusive, NEW p \in Processes, Working(p), NEW i,
         i.run = job[p].run, i.alone = job[p].alone, job' = [job EXCEPT ![p] = i]
  PROVE  Exclusive'
<1>1. \A o \in Processes : job'[o] = IF o = p THEN i ELSE job[o]
  BY OnlyItsJob
<1>2. \A o \in Processes : job'[o] # Idle =>
        Working(o) /\ job'[o].run = job[o].run /\ job'[o].alone = job[o].alone
  BY <1>1 DEF Working
<1> QED BY <1>2 DEF Exclusive, Working

\* The files another process, alone elsewhere, has written are not touched.
LEMMA OthersBehind ==
  ASSUME TypeInv, DirInv, NEW p \in Processes, Working(p),
         NEW r, r = job[p].run, NEW f \in Files, NEW c,
         UNCHANGED disk \/ disk' = [disk EXCEPT ![r][f] = c],
         NEW o \in Processes, o # p, Working(o), job[o].alone, job'[o] = job[o],
         NEW k \in 1..(job[o].file - 1)
  PROVE  Written(job[o], k)'
<1>1. Written(job[o], k)
  BY DEF DirInv, Behind
<1>2. job[o].run # r /\ r \in Runs /\ job[o].run \in Runs
  BY WorkingType DEF DirInv, Exclusive
<1>3. k \in 1..8 /\ FileOrder[k] \in Files
  BY WorkingType, FileNames
<1>4. disk'[job[o].run][FileOrder[k]] = disk[job[o].run][FileOrder[k]]
  <2>1. CASE UNCHANGED disk
    BY <2>1
  <2>2. CASE disk' = [disk EXCEPT ![r][f] = c]
    BY <1>2, <1>3, <2>2, OnlyItsFile
  <2> QED BY <2>1, <2>2
<1> QED BY <1>1, <1>4 DEF Written, Scored

LEMMA AskDir ==
  ASSUME TypeInv, DirInv, NEW p \in Processes, Ask(p)
  PROVE  DirInv'
<1>1. /\ Working(p) /\ job[p] \in Jobs /\ JobOK(job[p]) /\ job[p].file \in 1..9
      /\ job[p].run \in Runs
  BY WorkingType DEF Ask
<1>2. job[p].file = 1 /\ ~job[p].open
  BY <1>1 DEF Ask, Answered, JobOK
<1>3. \E q, a : Add(p, q, a)
  BY DEF Ask
<1>4. PICK q, a : Add(p, q, a)
  BY <1>3
<1> DEFINE i == [job[p] EXCEPT !.rows = Append(@, [q |-> q, a |-> a]),
                               !.traced = IF job[p].run \in Tooled /\ a # NoAnswer
                                          THEN @ \cup {q} ELSE @]
<1>5. job' = [job EXCEPT ![p] = i]
  <2>1. job \in [Processes -> Jobs \cup {Idle}]
    BY DEF TypeInv, TypeOK
  <2> QED BY <1>4, <2>1 DEF Add
<1>6. /\ i.run = job[p].run /\ i.alone = job[p].alone /\ i.file = job[p].file
      /\ i.open = job[p].open
  BY <1>1 DEF Jobs
<1> HIDE DEF i
<1>7. \A o \in Processes : job'[o] = IF o = p THEN i ELSE job[o]
  BY <1>5, OnlyItsJob
<1>8. UNCHANGED <<disk, whole>>
  BY DEF Ask, history
<1>9. Exclusive'
  BY <1>1, <1>5, <1>6, MovedExclusive DEF DirInv
<1>10. OpenedIsUnknown'
  BY <1>2, <1>6, <1>7, <1>8 DEF DirInv, OpenedIsUnknown, Working
<1>11. Behind'
  <2> SUFFICES ASSUME NEW o \in Processes, job'[o] # Idle, job'[o].alone,
                      NEW k \in 1..(job'[o].file - 1), o # p
               PROVE  Written(job[o], k)'
    BY <1>2, <1>6, <1>7 DEF Behind, Working
  <2>1. job'[o] = job[o] /\ Working(o)
    BY <1>7 DEF Working
  <2>2. "gates" \in Files
    BY FileNames
  <2> QED BY <1>1, <1>8, <2>1, <2>2, OthersBehind
<1>12. WholeRunIsOneMaking'
  BY <1>8 DEF DirInv, WholeRunIsOneMaking
<1> QED BY <1>9, <1>10, <1>11, <1>12 DEF DirInv

LEMMA OpenDir ==
  ASSUME TypeInv, DirInv, NEW p \in Processes, Open(p)
  PROVE  DirInv'
<1> DEFINE j == job[p]
           r == j.run
           f == FileOrder[j.file]
           i == [j EXCEPT !.open = TRUE]
<1>1. /\ Working(p) /\ j \in Jobs /\ r \in Runs /\ j.file \in 1..8 /\ f \in Files
  BY UnfinishedType DEF Open, Unfinished, Answered
<1>2. PICK c : disk' = [disk EXCEPT ![r][f] = c]
  BY DEF Open
<1>3. job' = [job EXCEPT ![p] = i] /\ whole' = [whole EXCEPT ![r] = Unknown]
  BY DEF Open
<1>4. /\ i.run = j.run /\ i.alone = j.alone /\ i.file = j.file /\ i.traced = j.traced
      /\ Scored(i) = Scored(j)
  BY <1>1 DEF Jobs, Scored
<1> HIDE DEF i, j, r, f
<1>5. \A o \in Processes : job'[o] = IF o = p THEN i ELSE job[o]
  BY <1>3, OnlyItsJob
<1>6. \A s \in Runs : whole'[s] = IF s = r THEN Unknown ELSE whole[s]
  BY <1>3 DEF TypeInv, TypeOK
<1>7. \A s \in Runs, g \in Files : disk'[s][g] = IF s = r /\ g = f THEN c ELSE disk[s][g]
  <2>1. disk \in [Runs -> [Files -> Makings \cup {Absent, Torn}]]
    BY DEF TypeInv, TypeOK
  <2> QED BY <1>1, <1>2, <2>1
<1>8. Exclusive'
  BY <1>1, <1>3, <1>4, MovedExclusive DEF DirInv, j
<1>9. OpenedIsUnknown'
  <2> SUFFICES ASSUME NEW o \in Processes, job'[o] # Idle, job'[o].open
               PROVE  whole'[job'[o].run] = Unknown
    BY DEF OpenedIsUnknown, Working
  <2>1. CASE o = p
    BY <1>1, <1>4, <1>5, <1>6, <2>1 DEF r
  <2>2. CASE o # p
    <3>1. job'[o] = job[o] /\ Working(o)
      BY <1>5, <2>2 DEF Working
    <3>2. whole[job[o].run] = Unknown /\ job[o].run \in Runs
      BY <3>1, WorkingType DEF DirInv, OpenedIsUnknown
    <3> QED BY <1>6, <3>1, <3>2
  <2> QED BY <2>1, <2>2
<1>10. Behind'
  <2> SUFFICES ASSUME NEW o \in Processes, job'[o] # Idle, job'[o].alone,
                      NEW k \in 1..(job'[o].file - 1)
               PROVE  Written(job[o], k)'
    BY DEF Behind, Working
  <2>1. CASE o = p
    <3>1. k \in 1..(j.file - 1) /\ k \in 1..8 /\ k # j.file
      BY <1>1, <1>4, <1>5, <2>1
    <3>2. Written(j, k)
      BY <1>1, <1>4, <1>5, <2>1, <3>1 DEF DirInv, Behind, j
    <3>3. FileOrder[k] \in Files /\ FileOrder[k] # f
      BY <1>1, <3>1, FilesDiffer, FileNames DEF f
    <3>4. disk'[r][FileOrder[k]] = disk[r][FileOrder[k]]
      BY <1>1, <1>7, <3>3
    <3>5. Written(j, k) <=> \/ disk[r][FileOrder[k]] = Scored(j)
                            \/ FileOrder[k] = "tool_traces" /\ j.traced = {}
      BY DEF Written, r
    <3>6. Written(job[p], k)' <=> \/ disk'[i.run][FileOrder[k]] = Scored(i)
                                  \/ FileOrder[k] = "tool_traces" /\ i.traced = {}
      BY <1>5 DEF Written, Scored
    <3> QED BY <1>4, <2>1, <3>2, <3>4, <3>5, <3>6 DEF r
  <2>2. CASE o # p
    <3>1. job'[o] = job[o] /\ Working(o)
      BY <1>5, <2>2 DEF Working
    <3> QED BY <1>1, <1>2, <2>2, <3>1, OthersBehind DEF r, j
  <2> QED BY <2>1, <2>2
<1>11. WholeRunIsOneMaking'
  BY <1>6, <1>7 DEF DirInv, WholeRunIsOneMaking
<1> QED BY <1>8, <1>9, <1>10, <1>11 DEF DirInv

\* A file is done: it was written, or there was nothing to write in it.
LEMMA ForwardDir ==
  ASSUME TypeInv, DirInv, NEW p \in Processes, Unfinished(p),
         NEW i, i.run = job[p].run, i.alone = job[p].alone, i.file = job[p].file + 1,
         i.open = FALSE, i.traced = job[p].traced, Scored(i) = Scored(job[p]),
         job' = [job EXCEPT ![p] = i], UNCHANGED whole,
         NEW r, r = job[p].run, NEW f, f = FileOrder[job[p].file],
         \/ UNCHANGED disk /\ f = "tool_traces" /\ job[p].traced = {}
         \/ disk' = [disk EXCEPT ![r][f] = Scored(job[p])] /\ whole[r] = Unknown
  PROVE  DirInv'
<1> DEFINE j == job[p]
<1>1. /\ Working(p) /\ j \in Jobs /\ r \in Runs /\ j.file \in 1..8 /\ f \in Files
  BY UnfinishedType DEF Unfinished, Answered
<1>2. \A o \in Processes : job'[o] = IF o = p THEN i ELSE job[o]
  <2>1. job \in [Processes -> Jobs \cup {Idle}]
    BY DEF TypeInv, TypeOK
  <2> QED BY <2>1
<1>3. \A s \in Runs, g \in Files :
        \/ disk'[s][g] = disk[s][g]
        \/ s = r /\ g = f /\ disk'[s][g] = Scored(j) /\ whole[r] = Unknown
  <2>1. disk \in [Runs -> [Files -> Makings \cup {Absent, Torn}]]
    BY DEF TypeInv, TypeOK
  <2> HIDE DEF j
  <2>2. disk' = disk \/ (disk' = [disk EXCEPT ![r][f] = Scored(j)] /\ whole[r] = Unknown)
    BY DEF j
  <2> QED BY <1>1, <2>1, <2>2
<1>4. Exclusive'
  BY <1>1, MovedExclusive DEF DirInv
<1>5. OpenedIsUnknown'
  BY <1>2 DEF DirInv, OpenedIsUnknown, Working
<1>6. Behind'
  <2> SUFFICES ASSUME NEW o \in Processes, job'[o] # Idle, job'[o].alone,
                      NEW k \in 1..(job'[o].file - 1)
               PROVE  Written(job[o], k)'
    BY DEF Behind, Working
  <2>1. CASE o = p
    <3>1. k \in 1..j.file /\ k \in 1..8 /\ FileOrder[k] \in Files
      BY <1>1, <1>2, <2>1, FileNames
    <3>2. \/ disk[r][FileOrder[k]] = Scored(j)
          \/ FileOrder[k] = "tool_traces" /\ j.traced = {}
          \/ disk'[r][FileOrder[k]] = Scored(j)
      <4>1. CASE k = j.file
        <5>1. disk' = [disk EXCEPT ![r][f] = Scored(j)] => disk'[r][f] = Scored(j)
          <6>1. disk \in [Runs -> [Files -> Makings \cup {Absent, Torn}]]
            BY DEF TypeInv, TypeOK
          <6> HIDE DEF j
          <6> QED BY <1>1, <6>1
        <5> QED BY <4>1, <5>1
      <4>2. CASE k # j.file
        <5>1. k \in 1..(j.file - 1)
          BY <1>1, <3>1, <4>2
        <5>2. Written(j, k)
          BY <1>1, <1>2, <2>1, <5>1 DEF DirInv, Behind
        <5> QED BY <5>2 DEF Written
      <4> QED BY <4>1, <4>2
    <3>3. disk'[r][FileOrder[k]] = disk[r][FileOrder[k]] \/ disk'[r][FileOrder[k]] = Scored(j)
      BY <1>1, <1>3, <3>1
    <3>4. Written(job[p], k)' <=> \/ disk'[i.run][FileOrder[k]] = Scored(i)
                                  \/ FileOrder[k] = "tool_traces" /\ i.traced = {}
      <4>1. job'[p] = i
        BY <1>2
      <4>2. Written(job[p], k)' <=> \/ disk'[job'[p].run][FileOrder[k]] = Scored(job'[p])
                                    \/ FileOrder[k] = "tool_traces" /\ job'[p].traced = {}
        BY Zenon DEF Written, Scored
      <4> QED BY <4>1, <4>2, Zenon
    <3> QED BY <2>1, <3>2, <3>3, <3>4
  <2>2. CASE o # p
    <3>1. job'[o] = job[o] /\ Working(o)
      BY <1>2, <2>2 DEF Working
    <3>2. job[o].alone /\ k \in 1..(job[o].file - 1)
      BY <3>1
    <3>3. Written(job[o], k)
      BY <3>1, <3>2 DEF DirInv, Behind
    <3>4. job[o].run # r /\ job[o].run \in Runs /\ k \in 1..8
      BY <1>1, <2>2, <3>1, <3>2, WorkingType DEF DirInv, Exclusive
    <3>5. disk'[job[o].run][FileOrder[k]] = disk[job[o].run][FileOrder[k]]
      BY <1>3, <3>4, FileNames
    <3>6. Written(job[o], k)' <=> \/ disk'[job'[o].run][FileOrder[k]] = Scored(job'[o])
                                  \/ FileOrder[k] = "tool_traces" /\ job'[o].traced = {}
      BY Zenon DEF Written, Scored
    <3> QED BY <3>1, <3>3, <3>5, <3>6, Zenon DEF Written
  <2> QED BY <2>1, <2>2
<1>7. WholeRunIsOneMaking'
  BY <1>3 DEF DirInv, WholeRunIsOneMaking
<1> QED BY <1>4, <1>5, <1>6, <1>7 DEF DirInv

LEMMA CloseDir ==
  ASSUME TypeInv, DirInv, NEW p \in Processes, Close(p)
  PROVE  DirInv'
<1> DEFINE i == [job[p] EXCEPT !.open = FALSE, !.file = @ + 1]
<1>1. /\ Unfinished(p) /\ job' = [job EXCEPT ![p] = i] /\ UNCHANGED whole
      /\ disk' = [disk EXCEPT ![job[p].run][FileOrder[job[p].file]] = Scored(job[p])]
  BY DEF Close, history
<1>2. job[p] \in Jobs /\ Working(p)
  BY <1>1, UnfinishedType DEF Unfinished, Answered
<1>3. whole[job[p].run] = Unknown
  BY <1>2 DEF Close, DirInv, OpenedIsUnknown
<1>4. /\ i.run = job[p].run /\ i.alone = job[p].alone /\ i.file = job[p].file + 1
      /\ i.open = FALSE /\ i.traced = job[p].traced /\ Scored(i) = Scored(job[p])
  BY <1>2 DEF Jobs, Scored
<1> HIDE DEF i
<1> QED BY <1>1, <1>3, <1>4, ForwardDir

LEMMA SkipDir ==
  ASSUME TypeInv, DirInv, NEW p \in Processes, Skip(p)
  PROVE  DirInv'
<1> DEFINE i == [job[p] EXCEPT !.file = @ + 1]
<1>1. /\ Unfinished(p) /\ job' = [job EXCEPT ![p] = i] /\ UNCHANGED <<disk, whole>>
      /\ ~job[p].open
  BY DEF Skip, history
<1>2. job[p] \in Jobs /\ Working(p)
  BY <1>1, UnfinishedType DEF Unfinished, Answered
<1>3. FileOrder[job[p].file] = "tool_traces" /\ job[p].traced = {}
  BY DEF Skip, Skips
<1>4. /\ i.run = job[p].run /\ i.alone = job[p].alone /\ i.file = job[p].file + 1
      /\ i.open = FALSE /\ i.traced = job[p].traced /\ Scored(i) = Scored(job[p])
  BY <1>1, <1>2 DEF Jobs, Scored
<1> HIDE DEF i
<1> QED BY <1>1, <1>3, <1>4, ForwardDir

\* A process that ends, one way or the other, leaves the others as they are.
LEMMA EndedDir ==
  ASSUME TypeInv, DirInv, NEW p \in Processes, job' = [job EXCEPT ![p] = Idle],
         UNCHANGED disk
  PROVE  /\ \A o \in Processes : job'[o] # Idle => o # p /\ job'[o] = job[o] /\ Working(o)
         /\ Exclusive' /\ Behind'
<1>1. \A o \in Processes : job'[o] # Idle => o # p /\ job'[o] = job[o] /\ Working(o)
  <2>1. job \in [Processes -> Jobs \cup {Idle}]
    BY DEF TypeInv, TypeOK
  <2>2. \A o \in Processes : job'[o] = IF o = p THEN Idle ELSE job[o]
    BY <2>1
  <2> QED BY <2>2 DEF Working
<1>2. Exclusive'
  BY <1>1 DEF DirInv, Exclusive, Working
<1>3. Behind'
  <2> SUFFICES ASSUME NEW o \in Processes, job'[o] # Idle, job'[o].alone,
                      NEW k \in 1..(job'[o].file - 1)
               PROVE  Written(job[o], k)'
    BY DEF Behind, Working
  <2>1. Written(job[o], k)
    BY <1>1 DEF DirInv, Behind
  <2> QED BY <1>1, <2>1 DEF Written, Scored
<1> QED BY <1>1, <1>2, <1>3

\* The files are all written by the time the command ends.
LEMMA FinishDir ==
  ASSUME TypeInv, DirInv, NEW p \in Processes, Finish(p)
  PROVE  /\ DirInv'
         /\ job[p].alone => \A f \in Files \ IF job[p].traced = {} THEN {"tool_traces"} ELSE {} :
                              disk[job[p].run][f] = Scored(job[p])
<1> DEFINE j == job[p]
           r == j.run
<1>1. /\ Working(p) /\ j \in Jobs /\ r \in Runs /\ j.file = 9
  <2>1. Working(p) /\ j.file > 8
    BY FileNames DEF Finish, Answered
  <2> QED BY <2>1, WorkingType
<1>2. /\ job' = [job EXCEPT ![p] = Idle] /\ UNCHANGED disk
      /\ whole' = [whole EXCEPT ![r] = IF j.alone THEN Scored(j) ELSE Unknown]
  BY DEF Finish
<1>3. /\ \A o \in Processes : job'[o] # Idle => o # p /\ job'[o] = job[o] /\ Working(o)
      /\ Exclusive' /\ Behind'
  BY <1>2, EndedDir
<1>4. ASSUME j.alone, NEW f \in Files \ IF j.traced = {} THEN {"tool_traces"} ELSE {}
      PROVE  disk[r][f] = Scored(j)
  <2>1. PICK k \in 1..8 : FileOrder[k] = f
    BY FilePlace
  <2>2. k \in 1..(j.file - 1)
    BY <1>1
  <2>3. Written(j, k)
    BY <1>1, <1>4, <2>2 DEF DirInv, Behind
  <2>4. f = "tool_traces" => j.traced # {}
    BY <1>4
  <2> QED BY <2>1, <2>3, <2>4 DEF Written
<1>5. Scored(j).traced = j.traced
  BY DEF Scored
<1> HIDE DEF j, r
<1>6. \A s \in Runs : whole'[s] = IF s = r THEN IF j.alone THEN Scored(j) ELSE Unknown
                                  ELSE whole[s]
  BY <1>1, <1>2 DEF TypeInv, TypeOK
<1>7. OpenedIsUnknown'
  <2> SUFFICES ASSUME NEW o \in Processes, job'[o] # Idle, job'[o].open
               PROVE  whole'[job'[o].run] = Unknown
    BY DEF OpenedIsUnknown, Working
  <2>1. o # p /\ job'[o] = job[o] /\ Working(o) /\ job[o].run \in Runs
    BY <1>3, WorkingType
  <2>2. whole[job[o].run] = Unknown
    BY <2>1 DEF DirInv, OpenedIsUnknown
  <2>3. job[o].run = r => ~j.alone
    BY <1>1, <2>1 DEF DirInv, Exclusive, j, r
  <2> QED BY <1>6, <2>1, <2>2, <2>3
<1>8. WholeRunIsOneMaking'
  <2> SUFFICES ASSUME NEW s \in Runs, whole'[s] # Unknown,
                      NEW f \in Files \ IF whole'[s].traced = {} THEN {"tool_traces"} ELSE {}
               PROVE  disk'[s][f] = whole'[s]
    BY DEF WholeRunIsOneMaking
  <2>1. CASE s = r
    BY <1>2, <1>4, <1>5, <1>6, <2>1
  <2>2. CASE s # r
    BY <1>2, <1>6, <2>2 DEF DirInv, WholeRunIsOneMaking
  <2> QED BY <2>1, <2>2
<1> QED BY <1>3, <1>4, <1>7, <1>8 DEF DirInv, j, r

-----------------------------------------------------------------------------
(* What resume and rescore remember. *)

RemembersIt(j) ==
  /\ j.old.evaluator = j.found.evaluator
  /\ j.old.hashes = Range(j.found.rows)

RefrozenTo(j) ==
  /\ j.frozen = j.found.frozen
  /\ Range(j.samples) \in {j.found.frozen, Ids(j.found.rows)}

LEMMA StartWhole ==
  ASSUME TypeInv, WholeInv, NEW p \in Processes, NEW r \in Runs, Ready(p),
         NEW j, j.run = r, j.file = 1, j.open = FALSE,
         j.alone <=> ~\E o \in Processes : Busy(o, r),
         Launch(p, j),
         j.op # "eval" /\ j.found # Unknown => RemembersIt(j),
         j.op # "eval" /\ j.found # Unknown /\ r \in Manifested => RefrozenTo(j)
  PROVE  WholeInv'
<1>1. DirInv'
  BY LaunchDir DEF WholeInv
<1>2. /\ job'[p] = j /\ UNCHANGED <<migration, whole, prior>>
      /\ \A o \in Processes : o # p /\ job'[o] # Idle =>
           /\ Working(o)
           /\ job'[o] = job[o] \/ job'[o] = [job[o] EXCEPT !.alone = FALSE]
  BY LaunchJobs
<1>3. \A o \in Processes : o # p /\ job'[o] # Idle =>
        /\ Working(o)
        /\ job'[o].op = job[o].op /\ job'[o].run = job[o].run /\ job'[o].old = job[o].old
        /\ job'[o].found = job[o].found /\ job'[o].frozen = job[o].frozen
        /\ job'[o].samples = job[o].samples
  <2> SUFFICES ASSUME NEW o \in Processes, o # p, job'[o] # Idle
               PROVE  /\ Working(o)
                      /\ job'[o].op = job[o].op /\ job'[o].run = job[o].run
                      /\ job'[o].old = job[o].old /\ job'[o].found = job[o].found
                      /\ job'[o].frozen = job[o].frozen /\ job'[o].samples = job[o].samples
    OBVIOUS
  <2>1. Working(o) /\ (job'[o] = job[o] \/ job'[o] = [job[o] EXCEPT !.alone = FALSE])
    BY <1>2
  <2>2. job[o] \in Jobs
    BY <2>1, WorkingType
  <2>3. CASE job'[o] = job[o]
    BY <2>1, <2>3
  <2>4. CASE job'[o] = [job[o] EXCEPT !.alone = FALSE]
    BY <2>1, <2>2, <2>4 DEF Jobs
  <2> QED BY <2>1, <2>3, <2>4
<1>4. Remembered'
  BY <1>2, <1>3 DEF WholeInv, Remembered, RemembersIt, Working
<1>5. Refrozen'
  BY <1>2, <1>3 DEF WholeInv, Refrozen, RefrozenTo, Working
<1>6. MigrationIsRecorded' /\ FrozenQuestionsStay'
  BY <1>2 DEF WholeInv, MigrationIsRecorded, FrozenQuestionsStay
<1> QED BY <1>1, <1>4, <1>5, <1>6 DEF WholeInv

\* A directory known to be whole is read as what it is known to be.
LEMMA ReadsWhole ==
  ASSUME WholeInv, NEW r \in Runs, whole[r] # Unknown
  PROVE  /\ disk[r]["environment"] = whole[r] /\ disk[r]["run_config"] = whole[r]
         /\ disk[r]["predictions"] = whole[r]
         /\ Recorded(r).evaluator = whole[r].evaluator
         /\ Recorded(r).hashes = Range(whole[r].rows)
<1>1. \A f \in Files \ {"tool_traces"} : disk[r][f] = whole[r]
  BY DEF WholeInv, DirInv, WholeRunIsOneMaking
<1>2. /\ disk[r]["environment"] = whole[r] /\ disk[r]["run_config"] = whole[r]
      /\ disk[r]["predictions"] = whole[r]
  BY <1>1, FileNames
<1> QED BY <1>2 DEF Recorded, RecordedRows

LEMMA StartEvalWhole ==
  ASSUME TypeInv, WholeInv, NEW p \in Processes, NEW r \in Runs, NEW resuming, NEW limit,
         NEW useCache, StartEval(p, r, resuming, limit, useCache)
  PROVE  WholeInv'
<1>1. PICK samples : Launch(p, Job("eval", r, samples, <<>>, limit, useCache))
  BY DEF StartEval
<1> DEFINE j == Job("eval", r, samples, <<>>, limit, useCache)
<1>2. /\ j.op = "eval" /\ j.run = r /\ j.file = 1 /\ j.open = FALSE
      /\ j.alone <=> ~\E o \in Processes : Busy(o, r)
  BY DEF Job
<1>3. Ready(p) /\ Launch(p, j)
  BY <1>1 DEF StartEval
<1> HIDE DEF j
<1> QED BY <1>2, <1>3, StartWhole

LEMMA StartResumeWhole ==
  ASSUME TypeInv, WholeInv, NEW p \in Processes, NEW r \in Runs, StartResume(p, r)
  PROVE  WholeInv'
<1> DEFINE limit == disk[r]["run_config"].limit
<1>1. PICK samples \in ResumeSamples(r) :
        Launch(p, [Job("resume", r, samples, <<>>, limit, TRUE) EXCEPT !.old = Recorded(r)])
  BY DEF StartResume
<1> DEFINE j == [Job("resume", r, samples, <<>>, limit, TRUE) EXCEPT !.old = Recorded(r)]
<1>2. /\ j.op = "resume" /\ j.run = r /\ j.file = 1 /\ j.open = FALSE
      /\ j.alone <=> ~\E o \in Processes : Busy(o, r)
      /\ j.found = whole[r] /\ j.old = Recorded(r) /\ j.samples = samples
      /\ r \in Manifested => j.frozen = Range(manifest)
  BY DEF Job
<1>3. Ready(p) /\ Launch(p, j)
  BY <1>1 DEF StartResume
<1> HIDE DEF j, limit
<1>4. ASSUME j.found # Unknown PROVE RemembersIt(j)
  BY <1>2, <1>4, ReadsWhole DEF RemembersIt
<1>5. ASSUME j.found # Unknown, r \in Manifested PROVE RefrozenTo(j)
  <2>1. samples = manifest
    BY <1>1, <1>5 DEF ResumeSamples, FromManifest
  <2>2. disk[r]["run_config"].frozen = Range(manifest)
    BY <1>5 DEF StartResume, ResumeChecks, SameManifest
  <2>3. disk[r]["run_config"] = j.found
    BY <1>2, <1>5, ReadsWhole
  <2> QED BY <1>2, <1>5, <2>1, <2>2, <2>3 DEF RefrozenTo
<1> QED BY <1>2, <1>3, <1>4, <1>5, StartWhole

LEMMA StartRescoreWhole ==
  ASSUME TypeInv, WholeInv, NEW p \in Processes, NEW r \in Runs, StartRescore(p, r)
  PROVE  WholeInv'
<1> DEFINE j == [Job("rescore", r, RescoreSamples(r), RecordedRows(r),
                     disk[r]["run_config"].limit, TRUE)
                   EXCEPT !.old = Recorded(r), !.traced = StoredTraces(r)]
<1>1. /\ j.op = "rescore" /\ j.run = r /\ j.file = 1 /\ j.open = FALSE
      /\ j.alone <=> ~\E o \in Processes : Busy(o, r)
      /\ j.found = whole[r] /\ j.old = Recorded(r) /\ j.samples = RescoreSamples(r)
      /\ r \in Manifested => j.frozen = Range(manifest)
  BY DEF Job
<1>2. Ready(p) /\ Launch(p, j)
  BY DEF StartRescore
<1> HIDE DEF j
<1>3. ASSUME j.found # Unknown PROVE RemembersIt(j)
  BY <1>1, <1>3, ReadsWhole DEF RemembersIt
<1>4. ASSUME j.found # Unknown, r \in Manifested PROVE RefrozenTo(j)
  <2>1. disk[r]["run_config"].frozen = Range(manifest)
    BY <1>4 DEF StartRescore, ResumeChecks, SameManifest
  <2>2. disk[r]["run_config"] = j.found /\ RecordedRows(r) = j.found.rows
    BY <1>1, <1>4, ReadsWhole DEF RecordedRows
  <2>3. Range(j.samples) = Ids(j.found.rows)
    BY <1>1, <2>2 DEF RescoreSamples, Range, Ids
  <2> QED BY <1>1, <1>4, <2>1, <2>2, <2>3 DEF RefrozenTo
<1> QED BY <1>1, <1>2, <1>3, <1>4, StartWhole

\* A process that goes on with its job, or ends it, forgets nothing of it.
LEMMA MovedWhole ==
  ASSUME TypeInv, Remembered, Refrozen, NEW p \in Processes, Working(p),
         NEW i,
         i # Idle => /\ i.op = job[p].op /\ i.run = job[p].run /\ i.old = job[p].old
                     /\ i.found = job[p].found /\ i.frozen = job[p].frozen
                     /\ i.samples = job[p].samples,
         job' = [job EXCEPT ![p] = i]
  PROVE  Remembered' /\ Refrozen'
<1>1. \A o \in Processes : job'[o] = IF o = p THEN i ELSE job[o]
  <2>1. job \in [Processes -> Jobs \cup {Idle}]
    BY DEF TypeInv, TypeOK
  <2> QED BY <2>1
<1>2. \A o \in Processes : job'[o] # Idle =>
        /\ Working(o)
        /\ job'[o].op = job[o].op /\ job'[o].run = job[o].run /\ job'[o].old = job[o].old
        /\ job'[o].found = job[o].found /\ job'[o].frozen = job[o].frozen
        /\ job'[o].samples = job[o].samples
  BY <1>1 DEF Working
<1>3. Remembered'
  BY <1>2 DEF Remembered, Working
<1>4. Refrozen'
  BY <1>2 DEF Refrozen, Working
<1> QED BY <1>3, <1>4

\* The steps of a command before its last.
LEMMA WorkWhole ==
  ASSUME TypeInv, WholeInv, NEW p \in Processes, Ask(p) \/ Open(p) \/ Close(p) \/ Skip(p)
  PROVE  WholeInv'
<1>1. DirInv'
  BY AskDir, OpenDir, CloseDir, SkipDir DEF WholeInv
<1>2. Working(p) /\ job[p] \in Jobs
  BY WorkingType DEF Ask, Open, Close, Skip, Unfinished, Answered
<1>3. \E i : /\ job' = [job EXCEPT ![p] = i]
             /\ i.op = job[p].op /\ i.run = job[p].run /\ i.old = job[p].old
             /\ i.found = job[p].found /\ i.frozen = job[p].frozen
             /\ i.samples = job[p].samples
  <2>1. CASE Ask(p)
    <3>1. \E q, a : Add(p, q, a)
      BY <2>1 DEF Ask
    <3>2. PICK q, a : Add(p, q, a)
      BY <3>1
    <3> DEFINE i == [job[p] EXCEPT !.rows = Append(@, [q |-> q, a |-> a]),
                                   !.traced = IF job[p].run \in Tooled /\ a # NoAnswer
                                              THEN @ \cup {q} ELSE @]
    <3>3. job' = [job EXCEPT ![p] = i]
      <4>1. job \in [Processes -> Jobs \cup {Idle}]
        BY DEF TypeInv, TypeOK
      <4> QED BY <3>2, <4>1 DEF Add
    <3>4. /\ i.op = job[p].op /\ i.run = job[p].run /\ i.old = job[p].old
          /\ i.found = job[p].found /\ i.frozen = job[p].frozen
          /\ i.samples = job[p].samples
      BY <1>2 DEF Jobs
    <3> HIDE DEF i
    <3> QED BY <3>3, <3>4
  <2>2. CASE Open(p)
    <3> DEFINE i == [job[p] EXCEPT !.open = TRUE]
    <3>1. job' = [job EXCEPT ![p] = i]
      BY <2>2 DEF Open
    <3>2. /\ i.op = job[p].op /\ i.run = job[p].run /\ i.old = job[p].old
          /\ i.found = job[p].found /\ i.frozen = job[p].frozen
          /\ i.samples = job[p].samples
      BY <1>2 DEF Jobs
    <3> HIDE DEF i
    <3> QED BY <3>1, <3>2
  <2>3. CASE Close(p)
    <3> DEFINE i == [job[p] EXCEPT !.open = FALSE, !.file = @ + 1]
    <3>1. job' = [job EXCEPT ![p] = i]
      BY <2>3 DEF Close
    <3>2. /\ i.op = job[p].op /\ i.run = job[p].run /\ i.old = job[p].old
          /\ i.found = job[p].found /\ i.frozen = job[p].frozen
          /\ i.samples = job[p].samples
      BY <1>2 DEF Jobs
    <3> HIDE DEF i
    <3> QED BY <3>1, <3>2
  <2>4. CASE Skip(p)
    <3> DEFINE i == [job[p] EXCEPT !.file = @ + 1]
    <3>1. job' = [job EXCEPT ![p] = i]
      BY <2>4 DEF Skip
    <3>2. /\ i.op = job[p].op /\ i.run = job[p].run /\ i.old = job[p].old
          /\ i.found = job[p].found /\ i.frozen = job[p].frozen
          /\ i.samples = job[p].samples
      BY <1>2 DEF Jobs
    <3> HIDE DEF i
    <3> QED BY <3>1, <3>2
  <2> QED BY <2>1, <2>2, <2>3, <2>4
<1>4. Remembered' /\ Refrozen'
  BY <1>2, <1>3, MovedWhole DEF WholeInv
<1>5. UNCHANGED <<migration, prior>>
      /\ \A r \in Runs : whole'[r] = Unknown \/ whole'[r] = whole[r]
  <2>1. whole \in [Runs -> Makings \cup {Unknown}]
    BY DEF TypeInv, TypeOK
  <2>2. \/ UNCHANGED whole
        \/ whole' = [whole EXCEPT ![job[p].run] = Unknown]
    BY DEF Ask, Open, Close, Skip, history
  <2>3. UNCHANGED <<migration, prior>>
    BY DEF Ask, Open, Close, Skip, history
  <2> QED BY <2>1, <2>2, <2>3
<1>6. MigrationIsRecorded'
  <2> SUFFICES ASSUME NEW s \in Runs, whole'[s] # Unknown, prior'[s] # Unknown,
                      prior'[s].rows # <<>>, prior'[s].evaluator # whole'[s].evaluator
               PROVE  migration'[s] = [old |-> prior'[s].evaluator, new |-> whole'[s].evaluator,
                                       preserved |-> Range(prior'[s].rows) = Range(whole'[s].rows)]
    BY DEF MigrationIsRecorded
  <2> QED BY <1>5 DEF WholeInv, MigrationIsRecorded
<1>7. FrozenQuestionsStay'
  <2> SUFFICES ASSUME NEW s \in Manifested, whole'[s] # Unknown, prior'[s] # Unknown
               PROVE  /\ whole'[s].frozen = prior'[s].frozen
                      /\ Ids(whole'[s].rows) \in {prior'[s].frozen, Ids(prior'[s].rows)}
    BY DEF FrozenQuestionsStay, Ids
  <2>1. whole'[s] = whole[s] /\ prior'[s] = prior[s]
    BY <1>5, StoreAssumption
  <2> QED BY <2>1 DEF WholeInv, FrozenQuestionsStay
<1> QED BY <1>1, <1>4, <1>6, <1>7 DEF WholeInv

\* A command that finishes alone: what migration.json says, and what was asked.
LEMMA FinishWhole ==
  ASSUME TypeInv, WholeInv, NEW p \in Processes, Finish(p)
  PROVE  WholeInv'
<1> DEFINE j == job[p]
           r == j.run
           m == Scored(j)
<1>1. DirInv' /\ (j.alone => disk[r]["environment"] = m /\ disk[r]["predictions"] = m)
  <2>1. /\ DirInv'
        /\ j.alone => \A f \in Files \ IF j.traced = {} THEN {"tool_traces"} ELSE {} :
                        disk[r][f] = m
    BY FinishDir DEF WholeInv
  <2>2. \A f \in {"environment", "predictions"} : f \in Files /\ f # "tool_traces"
    BY FileNames
  <2> QED BY <2>1, <2>2
<1>2. /\ Working(p) /\ j \in Jobs /\ JobOK(j) /\ r \in Runs /\ Answered(p)
  BY WorkingType DEF Finish, Answered
<1>3. Remembered' /\ Refrozen'
  <2>1. job' = [job EXCEPT ![p] = Idle]
    BY DEF Finish
  <2> QED BY <1>2, <2>1, MovedWhole DEF WholeInv
<1>4. /\ migration' = [migration EXCEPT ![r] = Migrated(j)]
      /\ whole' = [whole EXCEPT ![r] = IF j.alone THEN m ELSE Unknown]
      /\ prior' = [prior EXCEPT ![r] = IF j.op # "eval" /\ j.alone THEN j.found ELSE Unknown]
  BY DEF Finish
<1>5. /\ m.evaluator = j.evaluator /\ m.rows = j.rows /\ m.frozen = j.frozen
  BY DEF Scored
<1>6. ASSUME j.alone, j.op # "eval", j.found # Unknown
      PROVE  /\ j.old.evaluator = j.found.evaluator /\ j.old.hashes = Range(j.found.rows)
             /\ Recorded(r).evaluator = m.evaluator /\ Recorded(r).hashes = Range(m.rows)
  <2>1. j.old.evaluator = j.found.evaluator /\ j.old.hashes = Range(j.found.rows)
    BY <1>2, <1>6 DEF WholeInv, Remembered
  <2>2. Recorded(r).evaluator = m.evaluator /\ Recorded(r).hashes = Range(m.rows)
    BY <1>1, <1>6 DEF Recorded, RecordedRows
  <2> QED BY <2>1, <2>2
<1>7. ASSUME j.alone, j.op # "eval", j.found # Unknown, j.found.rows # <<>>,
             j.found.evaluator # m.evaluator
      PROVE  Migrated(j) = [old |-> j.found.evaluator, new |-> m.evaluator,
                            preserved |-> Range(j.found.rows) = Range(m.rows)]
  <2>1. j.found.rows \in Seq(Rows)
    BY <1>2, <1>7 DEF Jobs, Makings
  <2>2. Range(j.found.rows) # {}
    <3>1. 1 \in DOMAIN j.found.rows
      BY <1>7, <2>1, EmptySeq, LenProperties
    <3> QED BY <3>1 DEF Range
  <2>3. Migrated(j) = [old |-> j.old.evaluator, new |-> Recorded(r).evaluator,
                       preserved |-> j.old.hashes # {} /\ j.old.hashes = Recorded(r).hashes]
    BY <1>6, <1>7 DEF Migrated, OldEvaluator
  <2> QED BY <1>6, <1>7, <2>2, <2>3
<1>8. ASSUME j.alone, j.op # "eval", j.found # Unknown, r \in Manifested
      PROVE  /\ m.frozen = j.found.frozen
             /\ Ids(m.rows) \in {j.found.frozen, Ids(j.found.rows)}
  <2>1. j.frozen = j.found.frozen /\ Range(j.samples) \in {j.found.frozen, Ids(j.found.rows)}
    BY <1>2, <1>8 DEF WholeInv, Refrozen
  <2>2. Ids(j.rows) = Range(j.samples)
    <3>1. /\ j.rows \in Seq(Rows) /\ j.samples \in Seq(Questions)
          /\ Len(j.rows) = Len(j.samples)
          /\ \A k \in 1..Len(j.rows) : j.rows[k].q = j.samples[k]
      BY <1>2 DEF Jobs, JobOK, Answered
    <3>2. DOMAIN j.rows = 1..Len(j.rows) /\ DOMAIN j.samples = 1..Len(j.rows)
      BY <3>1, LenProperties
    <3> HIDE DEF j
    <3> QED BY <3>1, <3>2 DEF Ids, Range
  <2> QED BY <1>5, <2>1, <2>2
<1> HIDE DEF j, r, m
<1>9. \A s \in Runs :
        /\ s # r => migration'[s] = migration[s] /\ whole'[s] = whole[s] /\ prior'[s] = prior[s]
        /\ s = r => /\ migration'[s] = Migrated(j)
                    /\ whole'[s] = IF j.alone THEN m ELSE Unknown
                    /\ prior'[s] = IF j.op # "eval" /\ j.alone THEN j.found ELSE Unknown
  BY <1>2, <1>4 DEF TypeInv, TypeOK
<1>10. MigrationIsRecorded'
  <2> SUFFICES ASSUME NEW s \in Runs, whole'[s] # Unknown, prior'[s] # Unknown,
                      prior'[s].rows # <<>>, prior'[s].evaluator # whole'[s].evaluator
               PROVE  migration'[s] = [old |-> prior'[s].evaluator, new |-> whole'[s].evaluator,
                                       preserved |-> Range(prior'[s].rows) = Range(whole'[s].rows)]
    BY DEF MigrationIsRecorded
  <2>1. CASE s # r
    BY <1>9, <2>1 DEF WholeInv, MigrationIsRecorded
  <2>2. CASE s = r
    <3>1. j.alone /\ j.op # "eval" /\ j.found # Unknown /\ whole'[s] = m /\ prior'[s] = j.found
          /\ migration'[s] = Migrated(j)
      BY <1>9, <2>2
    <3> QED BY <1>7, <3>1
  <2> QED BY <2>1, <2>2
<1>11. FrozenQuestionsStay'
  <2> SUFFICES ASSUME NEW s \in Manifested, whole'[s] # Unknown, prior'[s] # Unknown
               PROVE  /\ whole'[s].frozen = prior'[s].frozen
                      /\ Ids(whole'[s].rows) \in {prior'[s].frozen, Ids(prior'[s].rows)}
    BY DEF FrozenQuestionsStay, Ids
  <2>1. s \in Runs
    BY StoreAssumption
  <2>2. CASE s # r
    BY <1>9, <2>1, <2>2 DEF WholeInv, FrozenQuestionsStay
  <2>3. CASE s = r
    <3>1. j.alone /\ j.op # "eval" /\ j.found # Unknown /\ whole'[s] = m /\ prior'[s] = j.found
      BY <1>9, <2>1, <2>3
    <3> QED BY <1>8, <2>3, <3>1
  <2> QED BY <2>2, <2>3
<1> QED BY <1>1, <1>3, <1>10, <1>11 DEF WholeInv

LEMMA EndWhole ==
  ASSUME TypeInv, WholeInv, NEW p \in Processes, Kill(p)
  PROVE  WholeInv'
<1>1. Working(p) /\ job' = [job EXCEPT ![p] = Idle]
      /\ UNCHANGED <<disk, migration, whole, prior>>
  BY DEF Kill, history
<1>2. /\ \A o \in Processes : job'[o] # Idle => o # p /\ job'[o] = job[o] /\ Working(o)
      /\ Exclusive' /\ Behind'
  BY <1>1, EndedDir DEF WholeInv
<1>3. OpenedIsUnknown' /\ WholeRunIsOneMaking'
  BY <1>1, <1>2 DEF WholeInv, DirInv, OpenedIsUnknown, WholeRunIsOneMaking, Working
<1>4. Remembered' /\ Refrozen'
  BY <1>1, MovedWhole DEF WholeInv
<1>5. MigrationIsRecorded' /\ FrozenQuestionsStay'
  BY <1>1 DEF WholeInv, MigrationIsRecorded, FrozenQuestionsStay
<1> QED BY <1>2, <1>3, <1>4, <1>5 DEF WholeInv, DirInv

\* Nothing of this depends on the cache.
LEMMA SameWhole ==
  ASSUME WholeInv, UNCHANGED <<disk, migration, job, whole, prior>>
  PROVE  WholeInv'
<1>1. DirInv'
  BY DEF WholeInv, DirInv, Exclusive, OpenedIsUnknown, Behind, Written, Scored,
         WholeRunIsOneMaking, Working
<1>2. Remembered' /\ Refrozen'
  BY DEF WholeInv, Remembered, Refrozen, Working
<1>3. MigrationIsRecorded' /\ FrozenQuestionsStay'
  BY DEF WholeInv, MigrationIsRecorded, FrozenQuestionsStay
<1> QED BY <1>1, <1>2, <1>3 DEF WholeInv

LEMMA WholeInitially == Init => WholeInv
<1> SUFFICES ASSUME Init PROVE WholeInv
  OBVIOUS
<1>1. \A p \in Processes : ~Working(p)
  BY DEF Init, Working
<1>2. \A r \in Runs : whole[r] = Unknown
  BY DEF Init
<1>3. DirInv /\ Remembered /\ Refrozen
  BY <1>1, <1>2 DEF DirInv, Exclusive, OpenedIsUnknown, Behind, WholeRunIsOneMaking,
                    Remembered, Refrozen
<1>4. MigrationIsRecorded /\ FrozenQuestionsStay
  BY <1>2, StoreAssumption DEF MigrationIsRecorded, FrozenQuestionsStay
<1> QED BY <1>3, <1>4 DEF WholeInv

LEMMA WholeStep ==
  ASSUME TypeInv, WholeInv, [Next]_vars
  PROVE  WholeInv'
<1>1. ASSUME NEW p \in Processes, NEW r \in Runs, NEW resuming \in BOOLEAN,
             NEW useCache \in BOOLEAN, NEW limit \in Limits,
             StartEval(p, r, resuming, limit, useCache)
      PROVE  WholeInv'
  BY <1>1, StartEvalWhole
<1>2. ASSUME NEW p \in Processes, NEW r \in Runs, StartResume(p, r)
      PROVE  WholeInv'
  BY <1>2, StartResumeWhole
<1>3. ASSUME NEW p \in Processes, NEW r \in Runs, StartRescore(p, r)
      PROVE  WholeInv'
  BY <1>3, StartRescoreWhole
<1>4. ASSUME NEW p \in Processes,
             Ask(p) \/ Open(p) \/ Close(p) \/ Skip(p) \/ Finish(p) \/ Kill(p)
      PROVE  WholeInv'
  BY <1>4, WorkWhole, FinishWhole, EndWhole
<1>5. CASE ClearCache
  BY <1>5, SameWhole DEF ClearCache, history
<1>6. CASE UNCHANGED vars
  BY <1>6, SameWhole DEF vars, history
<1> QED BY <1>1, <1>2, <1>3, <1>4, <1>5, <1>6 DEF Next

-----------------------------------------------------------------------------
(* What follows. *)

LEMMA AlwaysWhole == Spec => [](TypeInv /\ WholeInv)
BY InitType, NextType, WholeInitially, WholeStep, PTL DEF Spec

\* A directory that a command, alone with it, has finished is of one making.
THEOREM OneMaking == Spec => []WholeRunIsOneMaking
<1>1. WholeInv => WholeRunIsOneMaking
  BY DEF WholeInv, DirInv
<1> QED BY <1>1, AlwaysWhole, PTL

\* migration.json names both evaluators and tells truly whether the responses stayed.
THEOREM MigrationsRecorded == Spec => []MigrationIsRecorded
<1>1. WholeInv => MigrationIsRecorded
  BY DEF WholeInv
<1> QED BY <1>1, AlwaysWhole, PTL

\* A manifest run is resumed and rescored on the set it was frozen to.
THEOREM FrozenStays == Spec => []FrozenQuestionsStay
<1>1. WholeInv => FrozenQuestionsStay
  BY DEF WholeInv
<1> QED BY <1>1, AlwaysWhole, PTL
=============================================================================
