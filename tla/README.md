# A specification of FinanceBench's evaluation runs

FinanceBench (`src/src/financebench`) asks financial questions of language models, grades
the answers and publishes a readiness verdict. These modules specify the part of it that
decides whether a published number can be believed: how the questions and their gold
answers come about, how a run gets its answers, how a directory under `runs/` comes to hold
them, how grades and a verdict are made of them, and how a release is made of runs. They were
written from the code; docs, docstrings and tests are used only to say what the code
promises.

## The system

| part | state it keeps | operations | how it meets the others |
|---|---|---|---|
| run engine (`execution/engine.py`, `evaluation/conversation.py`) | `_RunContext`: total cost, priced and budget flags; per conversation the answers heard | `run`, one task per conversation under a semaphore, `_run_sample`, `_call_with_retries`, `_run_tool_agent` | asks the cache, then the provider; returns predictions in input order, or raises |
| response cache (`execution/cache.py`) | one JSON file per request hash | `get`, `put`, `clear`, four modes | the only state shared by two processes that are not in one directory |
| retry (`execution/retry.py`) | none; a limiter nobody turns on | `backoff_seconds`, `RateLimiter` | between two attempts of the engine |
| scoring (`execution/orchestration.py`, `evaluation/`) | counters over samples and failures of one run | `score_and_write`: attribution, retrieval re-attribution, macro-averages, gates, verdict, index | reads samples and predictions, writes artifacts |
| run directories (`storage/`) | eighteen files per run, rewritten in place | `write_run_artifacts`, `read_jsonl` | read back by resume, rescore, compare, leaderboard, release |
| commands (`cli.py`) | none of their own | `eval`, `resume`, `rescore`, `compare`, `cache clear`, and others | compose all of the above; two may run at once |
| tool agent (`tools/`) | messages so far, calls made, a module-level table of traces | model call, tool call, step limit | called by the engine, graded by the tool metrics |
| retrieval (`retrieval/`) | a corpus index | rank, retrieve, score what was found | prepares requests, renames failures |
| judge (`evaluation/judge/`) | none | one call per rubric item, calibration statistics | optional metrics |
| datasets (`datasets/`) | prepared files, content hashes | adapters, the SMB-CFO generator and oracles | samples, in an order that matters to a limit |
| providers (`models/`) | HTTP clients, price tables | `generate` | retryable and final errors |
| leaderboard, reports, release | none | read run directories | out of what is stored |

What is hard here: tasks that interleave at every `await` while they share a budget; turns
of a conversation that must see this model's own words; a process that may die between a
paid answer and its cache entry, or between any two of the files it writes; code, datasets
and manifest that change between a run and its resume; and a pipeline of small decisions,
each taking the last one's result, in which the order decides whether one dangerous answer
is still visible at the end. `PROJECT.json` lists the places under "hazards".

What makes each part correct:

* engine: the cap is overshot by less than one answer per concurrent task; nothing on disk
  is paid for twice; an answer belongs to the request it was given to; a turn is shown what
  this model said before it; a conversation whose turns are all there never breaks off; a run
  ends and returns all or nothing.
* run directories: answers and grades stay with their question; a finished directory is of
  one making; a change of evaluator is recorded and told truly; frozen question sets stay
  frozen. That only runs of one evaluator and of the same questions are compared is promised
  and not kept (findings 3 and 14).
* scoring: a single obeyed injection, or frequent numbers of a sign or power of ten that their
  benchmark does not tolerate, cap the verdict;
  samples nobody answered count for nothing; an answer that declines is not dangerous;
  a verdict rests on thirty answers.
* tool agent: a trace tells the conversation that took place, all of it; a sample is graded by
  its own trace, whatever else the process has asked; a rescore of what a finished command left
  grades alike; only arithmetic is ever computed, within the limits; every loop ends.
* cache files: a reader sees a whole answer or none, and one to its own question, whoever
  writes beside it or is killed.
* release: a bundle whose checksums verify is of one build; a tagged one publishes real,
  complete runs of one fingerprint; a good state can be released.
* SMB-CFO: golds of one set of books agree with each other; every family, trap and payload is
  asked; a frozen prefix is balanced.
* FinQA: execution is what the written steps mean, and an accepted program has the gold answer.

## Modules

| module | models | how it corresponds to the code |
|---|---|---|
| `RunEngine` | `RunEngine.run` and the processes that share its cache | An action is the code between two awaits that suspend. `place[g]` is where the task of conversation `g` is (`queued` at the semaphore, `turn` between requests, `calling`, `waiting` in a back-off, `agent`). `Request` is `with_model_history` and `build_request`; `RefuseOverBudget`, `CacheHit`, `Call` are the three ways out of `_run_sample` in the order of their guards; `Succeed`, `PutFails`, `BackOff`, `GiveUp` what becomes of a call. `Restart` is a new process: only `cache` survives. `delivered` is a history variable. |
| `EvaluationPromise` | what a caller of `run` relies on | Samples settle once and in turn order; all or nothing; saved stays saved. No tasks, cap, retries or semaphore. `RunEngine` implements it under the mapping `Promise` (`KeepsPromise`). |
| `RunScoring` | `score_and_write` from replies to verdict | `Grade` is the loop over predictions (the reply of each sample is chosen there), `Collect` and `Reattribute` the loop over failures without and with a retrieval pipeline, `Publish` everything after. A batch stands for `Size[i]` samples with the same kind of question and reply. |
| `RunStore` | `eval`, `resume`, `rescore`, `compare` on run directories | `StartX` is a command up to its first effect, with what it reads; `Ask` one answer, through the cache; `Open`, `Close`, `Skip` one file of `write_run_artifacts`; `Finish` the migration record. `Kill` anywhere. `whole` and `prior` are history: what an undisturbed command left, and what it had found. |
| `ToolAgent` | `tools/agent.py`, `tools/trace.py`, `evaluation/native/tool_use.py`, and the evals and rescores of one process | `CallsTool`, `ToolCrashes`, `Answers`, `ProviderFails` are what one agent does with what the provider ends in; `Score` and `WriteX` the rest of a command; `table` is the module-level table, `traces` what the run holds, `disk` what the command before left. `Metrics` is the eight metrics of a trace. What a call ends in is the constant `Execute`. |
| `FinanceTools` | `tools/registry.py`, `tools/sandbox.py` | Operators: `SafeEval` is the sandbox, walking an expression from `EvalNode` down; `ExecuteTool` is the registry, with an operator for each tool. `MCToolAgent` gives it to `ToolAgent` as `Execute`. |
| `CacheFiles` | `cache.py` at the level of file operations | `Get`, `IsFile`, `OpenEntry`, `Read`, `Return` for `get`; `OpenTmp`, `WritePart`, `Write`, `Rename` for `put`; one `Unlink` at a time for `clear`; `Kill` anywhere. An inode has its text and who wrote it, so that two writers of one temporary name share one. `raced` and `seen` are history. |
| `AtomicCache` | what users of the cache rely on | get, put and clear of single entries in one step each; `CacheFiles` implements it (`CacheIsAtomic`), except that a key two processes wrote at once (`disputed`) promises no more than answers to the right question. `RunEngine` and `RunStore` use the cache by this promise. |
| `Release` | `release.py`, `release-build`, `release-report`, `leaderboard` | `StartBuild` sweeps the runs, `Collect` reads them again, `JudgeCode` and `JudgeEvidence` are the gates, then one action per file written; `KillBuild` between any two; runs, checkout and authored documents change at any moment. |
| `SmbBooks` | `smb_cfo/business.py`, `oracles.py`, `tasks.py`, the traps of `adversarial.py` | `Bill` and `PassOver` are a customer's turn in the month loop of `generate_business`, `Spend` the rest of the month, `Close` what follows the loop, the sort by date included; each oracle is an operator over the books. |
| `SmbSplits` | `smb_cfo/adapter.py`, `adversarial.py`, `freeze-manifest` | `Ask`, `AskAdversarial`, `SkipFamily`: one business offered to a split; `Pick`: one turn of the rotation over families that fills a manifest; a queue is the set of positions it still holds, served from the least. |
| `FinqaPrograms` | `evaluation/native/finqa.py`, `convfinqa.py` | A model writes a reply token by token (`Write`) until it is graded (`Grade`); `ExtractProgram`, `EvalProgram` and `EqualProgram` are the functions of those names. |
| `MCRunEngine`, `MCRunScoring`, `MCRunStore`, `MCToolAgent`, `MCCacheFiles`, `MCRelease`, `MCSmbBooks`, `MCSmbSplits`, `MCFinqaPrograms` | instances | definitions the configurations substitute for constants |
| `RunEngineProofs`, `RunScoringProofs`, `RunStoreProofs`, `ToolAgentProofs`, `CacheFilesProofs`, `ReleaseProofs`, `SmbProofs` | theorems | see below |
| `SumTheorems` | sums over finite sets | lemmas the proofs about money, tokens and counts rest on |

The modules compose by abstraction: `RunStore` sees a run of the engine as a list of
answered or unanswered questions, and `RunScoring` takes such a list as its input;
`RunEngine` sees a tool conversation as one call, and `Release` a run directory as the two
evaluators it may be of.
Definitions called "Mutant of X" are plausible bugs in X that no specification uses; with
one in X's place, TLC finds the property violated that `PROJECT.json` names for it.

Abstractions worth knowing. *RunEngine*: texts are model values; prices are 2 or none;
latency, tokens and prompt rendering are left out; a task may also be preempted between two
of its turns, where the code goes straight on, which only adds behaviours; a deadline is one
of the reasons for `GiveUp`. *RunScoring*: a number is, within a hundredth, a sign and a power of ten times the
gold, or some other number, with the marks by which a metric may accept it all the same (the
digits of the gold, a number from 0 to 10 or 100, an absolute tolerance, a percentage); the
golds that are words, yes or no stand for themselves, and runs that elicit programs are left to
`FinqaPrograms`; scores are ten-thousandths rounded down; the other components
of the index are left out, and the index is only published or withheld. *RunStore*: a file
is the `Scored` value it was written from, or a cut of it, and files no command reads back
are left out; the outside world (code, datasets, manifest file) moves when a command starts,
since a running command has read all of it by then. *Tools*: amounts are whole numbers and a
quotient loses its fraction; a table is its header and its rows; the root in the growth rate is left out. *CacheFiles*: a mixture
of two texts is `Torn` and never parses, which is a miss; of what a request asks, the model, the sample and the messages stand for all fields;
correlation id and timeout are in a request and not in its key; `clear` never removes temporary files; a rename that finds its
file gone raises and ends the run. *Release*: sweeping the runs and collecting them are a step
each; tools, tests and secret scan are one verdict on the code; whether a run's manifest
entry conforms to the schema is a property of the run (`Conforming`); a run directory is the
evaluator `environment.json` names and the one its grades are of; copies of schemas and of the
limitations are left out. *SmbBooks*: money in cents, months of thirty days, random draws are
choices. *SmbSplits*: a business is its seed, and whether it has an answer for a family is a
choice. *FinqaPrograms*: tokens in place of text; exact fractions in place of floats rounded
to five decimals; `exp` is left out; the symbolic comparison (sympy, a library) is equality of
two expressions at sample points; row labels with brackets and layouts of a reply other than
a draft line and code blocks are left out.

## Runs

| run | bounds | what it asks |
|---|---|---|
| `engine_cap` | 4 samples limited to 3, two at a time, cap 2, answers priced 2 or unpriced, one retry, all cache modes, two processes; 2,300,480 states | types, overshoot, accounting, nothing paid twice |
| `engine_history` | a conversation of three turns delivered out of order and one single sample, one retry, retrieval may raise, two processes; 171,511 states | genuine answers, own words, implements `EvaluationPromise`, ends |
| `engine_tools` | the same conversation through the agent path; 75,444 states | a whole conversation never breaks off, whichever agents fail |
| `store_runs` | a plain run and a manifest run in tool mode, two questions in two datasets, two commands one after the other, two evaluators; 2,302,680 states | all safety properties of the store |
| `scoring_gates` | batches of 2 and 29 samples, all seven kinds of question, twenty-six replies each, all modes and the mock; 851,890 states | all safety properties of scoring |
| `scoring_failed_refusal` | one batch of thirty | *violated*: finding 5 |
| `tool_agent` | two samples side by side, two turns each, ten kinds of reply over a small ledger and an empty one, two commands and a third that is a rescore; 356,767 states. 2,271 expressions | traces, tokens, grades, rescores, metrics, every loop ends; only arithmetic within the limits runs |
| `cache_files` | two processes, one question in two deliveries and one that differs in its messages, two inodes, two answers paid, two calls out at a time; 1,803,280 states | whole entries, genuine hits, implements `AtomicCache` |
| `release` | a frozen run, a retrieval arm that must be named, a mock run; four builds or changes of the world; 4,072,923 states | one build, sound tags, gates that can go green |
| `smb_books` | two customers, two currencies, three traded months and the one under way; 474,026 states | double entry, golds agree |
| `smb_splits` | the real sizes (300, 150, 100, 12, 200), one question that a business cannot answer, manifests of 10 and of 75; 7,753 states | right size and no repeats, every case asked, balanced prefixes |
| `finqa_programs` | six samples, lines of 9 or 12 tokens, one token out of place in lines of up to 6, cut anywhere; 1,089,184 states | execution and equality of programs |

Some configurations are kept to be run by hand; TLC finds the property of each violated, as
told under "What the checks found".

| configuration | module | property |
|---|---|---|
| `EngineCapBeforeCache`, `EngineGappedChat` | `MCRunEngine` | `CachedSampleIsServed`, `ChainHoldsOnceBegun` |
| `StoreCompare`, `StoreQuestions`, `StoreResume` | `MCRunStore` | `ComparedByOneEvaluator`, `ComparesTheSameQuestions`, `ResumeAsksTheSameQuestions` |
| `ScoringRetrieval`, `ScoringSandbox`, `ScoringWrongSign` | `MCRunScoring` | `TreacheryCapsVerdictAfterRetrieval`, `SandboxGateFailsOnEscape`, `WrongSignIsCaught` |
| `ToolCrash`, `ToolCost` | `MCToolAgent` | `ErrorsGoToTheModel`, `CostIsOfTheConversations` |
| `CacheTorn` | `MCCacheFiles` | `NoTornEntry` |
| `SmbGrowth`, `SmbPrivate` | `MCSmbBooks`, `MCSmbSplits` | `GrowthIsOfTheLastMonths`, `PrivateAsksTheSame` |
| `FinqaGold` | `MCFinqaPrograms` | `GoldProgramIsRight` |

Why these bounds are enough. The overshoot needs two tasks that pass the cap together and a
third that is refused. A conversation needs three turns to have two answers whose order
can be wrong. One retry has a first, a last and a forbidden attempt. Two processes make a
resume. A directory has all its interesting histories after one command over the remains
of another. Batches of 2 and 29 straddle both 30 scored samples and the thresholds from
5 to 10 per cent, and one lost batch takes the run below the thirty. Two turns have a first
one that goes on and a last one that is cut off, and two commands in one process make a stale
trace in memory. A stale trace file takes three: an eval that writes it, an eval whose agents
all fail and leave it, and a rescore that reads it. The third command is therefore a rescore,
and for the sake of size one of what a few replies have made (`ThirdIsARescore`).
`OnlyArithmeticRuns` takes every expression of two levels and five symbols, and some of three,
through the calculator, in the first state, as the outcome of a call does not depend on the
state. The limits of the run, two levels, four symbols and an exponent of two, are within their
reach; the code has 20 levels, 500 characters and an exponent of 64, and refuses arithmetic
beyond them as it refuses a probe. Two processes are enough to share a
temporary name; two deliveries of one question have one key, and a question that shares all
but the messages with them has another. A build needs one before it to leave remains, and a run that
changes between sweep and collection. Three traded months are the fewest for a trend and two
currencies the fewest that can be added up wrongly. The splits have their real sizes. Two steps of a program have one that is
referred to and one that refers.

`store_runs` starts commands one after the other: two at once on two runs are out of
TLC's reach within minutes. With one manifest run, one question and two processes
(`Processes = {"s1", "s2"}`, `Runs = {frozen}`, the dataset constants of `StoreCompare.cfg`)
the same invariants hold over 613,488 states, and the theorems on `RunStore` cover any
number of processes. The inodes, the processes and the two deliveries of `cache_files` are interchangeable, and TLC
is told so (`Alike`), as it is told (`Live`) that what a process without a lookup or a save has
last asked is not read again. Two answers are written to two inodes at most.

Named bounds: `MaxSessions`, `MaxCommands`, `MaxEvaluator`, `Tries`, `MaxPaid`, `MaxEvents`,
`MaxSkips`, `MaxMisplaced`, `TwoOut`, `ThirdIsARescore` and the `limit` of a FinQA sample; everything else is bounded by the
code itself. `MaxTurns` of the agent is six in the code and two in the run; `MaxDepth`, `MaxSize` and
`MaxExponent` of the sandbox are smaller in the run than in the code, so that they are met. Deadlock is checked
for the engine (`Over` is its end). It is not for scoring, splits, books and programs, which
end when the report is written, the manifest frozen, the books closed or the reply graded, nor
for the store, the agent, the cache and the release, where commands are bounded and a user may
stop issuing them.

Fairness is assumed in two places. In `engine_history`, every task that can go on
does (asyncio runs every ready task; a provider call ends in an answer or in the timeout
`_call_with_retries` gives it, a sleep ends), `run` itself goes on, and a process with an
exception under way exits. In `tool_agent`, every agent whose provider call is out gets its
answer or its timeout, and what the process does between two such calls goes on. A kill is
never assumed to happen.

## Theorems

All are checked by TLAPS, for every value of the constants the named assumptions allow.

* `RunEngineProofs!TypeCorrect`. `TypeOK` bounds attempts, which is inductive only with
  `WaitersMayRetry` (a task backs off only while a retry is left).
* `RunEngineProofs!Overshoot`: outside tool mode, spend < cap + width * dearest answer. The
  invariant `CapInv` counts: spend plus one dearest answer for each call in flight stays
  below the cap plus the width, and no more tasks hold the semaphore than its width.
* `RunEngineProofs!Genuine`, `NoAnswerIsPaidTwice`: every cached or predicted answer
  is a delivered one; a task that is calling has no entry for its request (`UnsavedInv`)
  because another task's requests are for other samples.
* `RunEngineProofs!CostsAreAccounted`: `AccountInv` says that a record was once charged and the
  spend is the sum over the records of the prices they were charged at, task by task; when all
  tasks are done the records are all there are, and the sum is the one a run returns.
* `RunEngineProofs!EngineKeepsPromise`: every step of the engine maps to a step of
  `EvaluationPromise` or a stutter; it needs that a finished task has all its predictions
  (`DoneInv`) and that every sample belongs to exactly one task.
* `RunEngineProofs!OwnHistory`, where no two samples are the same turn of one
  conversation (`TurnsAreDistinct`, which the engine does not check; ConvFinQA numbers its
  turns so): `HeardInv` says that what a conversation has heard is what was said at the turns
  it has settled, each at its place.
* `RunEngineProofs!EveryStepCounts`, `NobodyIsStuck`: what `RunSettles` rests on besides
  fairness. `WorkLeft` sums, over the conversations, what each may still do: two steps for each
  attempt that is left, for each turn that is not settled. It is a natural number, and every
  step of a run that goes on makes it smaller. `InTurn`, that a task which calls, waits or runs an
  agent is about a turn that is open, gives in every state before the end a conversation that
  can move, or a free place at the semaphore for one that has not begun.
* `RunScoringProofs!TypeCorrect`, `DeclineHarmless`, `ObeyedInjectionCaps`: the last for any
  number of batches of any size; the invariant ties each batch already collected to a lower
  bound of the count its gate divides.
* `RunScoringProofs!VerdictIsEarned`, `LossesAreNotFailures`, `TreacheryCaps`: `Counting` says
  what the loops have counted so far: every graded batch that was scored had an answer, the
  counts are the weights of the batches counted, and a treacherous batch (a wrong sign or power
  of ten that the metric of its benchmark does not tolerate) stands among the failures. The rest is arithmetic of weights: those of a part are at most those of the whole.
* `RunStoreProofs!TypeCorrect`, `AnswersKeepTheirQuestion`: with `JobOK` (rows answer the
  samples one for one, files are written only when all are answered) and `OwnInv` (files,
  cache and jobs all keep answers with their question).
* `RunStoreProofs!OneMaking`, `MigrationsRecorded`, `FrozenStays`: with
  `DirInv` (two commands on one directory know they are not alone; while a file is open the
  directory is not known to be whole; a command that is alone has left its own making in
  every file behind it) and with what a resume or rescore remembers of the run it found
  (`Remembered`, `Refrozen`).
* `ToolAgentProofs!TypeCorrect`, `Conversation`, `OwnGrades`, `SameGrades`, `Agreement`, for
  any tools, turn limit and sequence of commands. `OwnGrades` is about evals, after whatever came
  before; `SameGrades` about a rescore of a directory whose last command finished. A rescore of
  one that was killed between `predictions.jsonl` and `tool_traces.jsonl` grades the new answers
  by the old traces: nothing in the code prevents it, and `whole` excepts it. `Talk` ties the records of a conversation to
  its messages. The grades need three more: what a command has in hand fits together
  (`HandInv`), a finished directory was graded by the traces it holds (`DiskInv`), and between
  commands the table has nothing that a rescore would take for the trace of an answer that
  has none on disk (`TableInv`). `Agreement` is about the metrics of any list of calls.
* `ToolAgentProofs!TokensAreCounted`: `TokensInv`, that the tokens in a trace are the sum over
  the turns of its conversation, one more turn being one more summand.
* `ToolAgentProofs!EveryTurnCounts`: turns that samples have left and stages that the command
  has left make a natural number that falls with every step, by whichever actor; a sample
  still asked has a turn left (`Talk`).
* `CacheFilesProofs!TypeCorrect`, `WholeEntries`, `GenuineHits`, `CacheKeepsItsPromise`: the
  invariant says that an inode has one name and is open for one key (`Apart`), that a key never
  raced for has at most one writer, whose text the temporary name has (`Alone`), and that a
  reader holds a value its key had since it asked (`Reader`), which the refinement needs.
* `ReleaseProofs!TypeCorrect`, `OneBuild`, `TaggedIsSound`: `Progress` says what a build under
  way has left on disk so far, `Listed` that whole checksums list the files of one build, none
  of them the gates of another, and `Passed` that gates which none failed were judged on a
  sound manifest.
* `ReleaseProofs!GoesGreen`: a build that nothing has disturbed works on the world as it is
  (`Undisturbed`), leaves checksums of what is there (`Left`) that no later build takes away
  (`SumsStay`), so that the next one fails no gate; leaderboards hold real runs only (`Boards`).

* `SmbProofs!SplitsAreFilledWithoutRepeats`: samples are `InTurn`, about one business
  after another, each asked about once in English and then perhaps in Russian.
* `SmbProofs!AnyPrefixIsBalanced`: queues are what is not frozen
  (`QueuesAreWhatIsLeft`), and a family has given a sample at each of its turns, or has no more
  (`GaveEachTurn`); how many turns it has had is a quotient of the counter and a comparison of
  its rank with the remainder, so that two families never differ by more than one.
* `SmbProofs!EveryCaseComesUp`, for splits that are `LargeEnough`: 24 businesses and
  `23 * MaxSkips + 12` for each language in which every family is to be asked, 14 for the
  adversarial split. `Covering` follows a family from one turn of the rotation to the next: a family
  that is skipped waits for the next round, and only two of the families can be. TLC finds
  `EveryCaseIsAsked` violated one below each bound, so they are tight. The sizes of the
  code, 300, 100 and 150, satisfy them with one skip.
* `SmbProofs!PrivateNeverAsks`: finding 11 for a private split of any size. Its period of three
  divides the twenty-four families, so the same eight of them always fall on the adversarial
  third; every third case is never an injection, and always one of every other trap (`LeftOut`).
* `SmbProofs!WhatIsBilledIsOwedOrBanked`: `PaidIsBanked`, that the payments in the ledger add up
  to the prices of the invoices marked paid, and `UntilToday`, that none of them lies in the
  future, which is where the 20 days of `Settled` and the bound on `Delays` are needed; the sort
  by date is a bijection of positions (`PlacesAreOneToOne`), so that no sum changes.
* `SmbProofs!FlowsAreTheCash`: the same money taken month by month and line by line.
* `SmbProofs!WhatIsOwedAddsUp`: in every state of the books, the receivables are those of one
  list of invoices, and those to chase are the heaviest of the overdue.
* `SmbProofs!ScenariosAreOrdered`, `GoldsAgreeInAllBooks`: the oracles of the scenarios and of the
  plain runway choose the same months (`EveryMonthIsTraded` shows that there are such months),
  a larger loss never lasts longer, and rounding to a tenth of a month keeps that order. The
  plain runway rounds the average month to a cent first. `MoreThanCents` is therefore a
  hypothesis of the second theorem: in the averaged months revenue is at least 2.5 cents a month and
  costs at least 3.34. Payroll and rent alone make costs of 15,500 a month in every business, and
  a single invoice of at least 800 paid in those months does for revenue. Without the
  hypothesis TLC finds a burn that rounds to nothing, an endless runway, and a finite one after
  costs were cut. The other hypothesis asks for two months of trade; the code has twelve.
* `SumTheorems`: a sum over a finite set does not depend on the order of adding up, grows with
  the set and its summands, changes by what one summand changes, and may be taken in parts or through a bijection. The library's induction
  theorems take the property as a parameter, which these provers cannot instantiate; the
  lemmas argue instead from a least counterexample, a subset of the finite set that fails
  while all its proper subsets do not, which `WFMin` provides.

The assumptions are `EngineAssumption`, `PredictionAssumption`, `ScoringAssumption`,
`StoreAssumption`, `MakingAssumption`, `AgentAssumption`, `NoneAssumption`, `CacheAssumption`,
`ReleaseAssumption`, `SplitsAssumption` and `BooksAssumption`: types of the constants, and that markers such as `Absent` are not
values of what they mark. TLC evaluates them in every run, and with them `SandboxAssumption`
and `GoldsExecute` (the golds of `MCFinqaPrograms` execute to their
answers), which no theorem uses.

Only model-checked, and why:

* `OnlyArithmeticRuns`, `ExecutesWhatIsWritten` and `EqualProgramsAnswerAlike` are about
  recursive functions over expressions and programs: induction over data.
* `RunSettles` and `AsksToTheEnd` are liveness: no proof under fairness is possible with
  these provers. Their safety core is proved: `EveryStepCounts`, `NobodyIsStuck` and
  `EveryTurnCounts` leave only that a step which can be taken for ever is taken.

## What the checks found

The fifth has a run, and `PROJECT.json` quotes the code and the text it disagrees with; the
others have a configuration in the second table above.

1. The cap is compared before the cache is asked, and hits count towards it: a resumed run
   refuses samples that are on disk.
2. A conversation with a missing middle turn passes the validation that the code says rules
   it out, and the run dies at the gap.
3. A resume killed between `environment.json` and `metric_details.jsonl` leaves a directory
   that `compare` takes for one of the new evaluator, with grades of the old.
4. `resume` sorts the datasets, so that a run with a limit is resumed on other questions.
5. An unanswerable SMB-CFO question answered with a figure is not a failed refusal: the
   accuracy metric does not apply, and attribution stops there.
6. Under retrieval no failure of a wrong answer stays catastrophic, so the gates that count
   catastrophic failures see none.
7. The sandbox gate fails when the sandbox did its work, and not when something escaped.
8. Two processes that answer one question share a temporary file: the first rename publishes
   what the second has just truncated, and a kill there leaves it torn.
9. `percent_change` of an infinite amount raises an exception that is no tool error: the engine
   takes it for a failed provider, and the conversation and its trace are lost.
10. The growth oracle drops the month under way a second time after a helper that has dropped
    it: in the public split it never compares the last two complete months.
11. The private split does not ask what the public ones ask: its adversarial third falls on
    three of the traps and on no injection, and eight of the twenty-four families never come,
    whatever its size (`PrivateNeverAsks`).
12. A gold program repeated word for word scores zero where it is a bare number, as in the
    look-up turns of ConvFinQA (`tests/datasets/test_convfinqa.py:76` has accuracy computable
    for all turns), or holds a per cent sign or a row label with `-`, `/` or `&`.

13. FinanceBench accepts a figure of the wrong sign, of any scale that filings use, and any of 0 to
    10 and 100, since the check that asks whether a figure came from the document also decides
    whether it is right; no failure is attributed to an answer that is right, although
    `grounding.py:98` has the wrong sign caught there. `TreacheryCapsVerdict` excepts what a
    metric tolerates (`Tolerated`) for this reason.
14. `compare` notes that two runs asked different questions and pairs those they share, where its
    docstring promises an error.
15. A `tool_assisted` run reports the tokens and the cost of the last response of each agent. The
    traces have the sum, which `tools/trace.py:91` says is the right one, and no total of the
    run does. `CostIsAccounted` is about runs of single answers and conversations for this reason;
    over agents it says no more than that each last response was charged.

Met while reading, without a run.

*Engine, scoring, store:* the tool path has no cap guard; an unmeasured numeric
accuracy becomes 0.0 and fails its gate although `docs/scoring.md` says untested is not
failed; `numeric_accuracy` counts samples that were never answered as wrong; no code
produces the failure types of the currency, period and unsupported-claim gates; a hedged
refusal that names a year is taken for an answer; a timeout is renamed under retrieval; the
index may be published with fewer than thirty scored samples; `rescore` gives a retrieval
run no pipeline; a rescore after a kill inside `predictions.jsonl` shrinks the run and reports
every hash preserved; `eval --resume`, or a kill before `migration.json`, changes the evaluator unrecorded; resume
drops the overrides `--temperature`, `--max-output-tokens`, `--timeout` and `--no-cache`; a
cache entry of another shape or encoding is an exception where the docstring says it is a miss.

*Tools:* a call that is cut off becomes the answer, and counts as an attempt; `{"tool": null}` is
a call of a tool named "None"; `sum()` and `min` or `max` of one argument are offered and always
fail; `csv_query` reads a bracketed negative as positive; `convert_currency` ignores the target's
rate; a search without query, a bad date and an error of the sandbox inside a formula are all
"not found"; literals pass through float although arithmetic is called exact.

*Release:* a `--run-id` run without fingerprint passes "one fingerprint", and the fingerprint is
not compared with that of the checkout; a first build cannot be tagged, as checksums are
looked for before they are written; a run killed after `environment.json` is published with old
grades; a missing `gates.json` shows as "ok" on the leaderboard; the gate for both models counts
ids; a stale `report.md` passes; a torn `leaderboard.json` is an exception.

*SMB-CFO:* two customers of one name are one; payroll of "the same amount" differs by cents; a
Russian "никогда" is wrong where the gold is "never"; a manifest promises duplicates and gaps that
are never generated; the growth oracle raises with exactly two months; a conflicting summary
equals the truth when there is no cash; a runway rounded before it is cut may be a month late;
a bilingual split of 100 that had to pass over two businesses would lack a family.

*FinQA:* a table step that is not the first keeps a separator, so that an equal program with its
steps in another order is rejected; a last step that is cut off is dropped and the program
counts as valid, where the docstring of `eval_program` has it malformed; an accepted program may
not be executable; of rows with one label the last is read; only the first code block is looked
at; ConvFinQA lacks a unit that FinQA accepts.

## Not modelled, and the plan

Not modelled: HTTP and payloads of providers, prompt wording, report layout, dataset
parsing and download (I/O and text); the statistics (data, no state). The component list in
`PROJECT.json` says so part by part.

Of the native metrics, TAT-QA, FinanceReasoning, SECQUE and the direct answers of ConvFinQA compare numbers
and words a model has written freely: what could go wrong in them is in the parsing of text,
which TLC cannot enumerate to any purpose. The same goes for `numeric.py`, the numbers grounding finds in a text, the text
of injected instructions and the mission and retrieval reports. The judge asks one question
per rubric item and keeps no state. The rate limiter is never switched on (`run_eval` passes no
rate). Prompts, configuration and schemas decide nothing over time.

Done, in this order: engine, promise, scoring, store, tools, cache files, release, the SMB-CFO
books and splits, the FinQA programs, and the theorems on all of them but the
programs. Left, in order:

1. `RateLimiter` and the length of a back-off over integer time, once a command uses them.
2. A composition of `Release` with `RunStore` in which the two evaluators of a directory are
   read off its files; today the correspondence is stated and not checked.
3. The judge's calls and calibration, if its verdicts come to be stored.
