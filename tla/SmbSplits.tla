------------------------------ MODULE SmbSplits ------------------------------
(***************************************************************************)
(* How the splits of the generated benchmark are filled (datasets/smb_cfo/ *)
(* adapter.py _build, adversarial.py build_adversarial) and how a set of   *)
(* their samples is frozen for good (cli.py freeze-manifest).  A business  *)
(* is its seed; what its books answer is in SmbBooks.                      *)
(***************************************************************************)
EXTENDS Integers, Sequences, FiniteSets, FiniteSetsExt, SequencesExt

CONSTANTS
    Sizes,      \* split -> how many samples it has
    MaxSkips,   \* bound on the businesses that have no answer for a family
    Takes       \* how many samples a manifest may be asked to take

ASSUME SplitsAssumption ==
    /\ DOMAIN Sizes \subseteq {"public", "adversarial", "bilingual", "smoke", "private"}
    /\ \A s \in DOMAIN Sizes : Sizes[s] \in Nat
    /\ MaxSkips \in Nat /\ Takes \subseteq Nat

VARIABLES
    split,      \* the split being loaded
    index,      \* businesses generated so far
    samples,    \* the samples, in order
    skips,      \* businesses that were skipped
    stage,      \* "build", "freeze", "frozen"
    take,       \* how many samples to freeze
    queues,     \* task family -> positions of its samples not picked yet; a queue
                \* never gets a sample back, so its head is its least position
    turn,       \* the round robin's counter
    picked      \* the frozen positions, in order

vars == <<split, index, samples, skips, stage, take, queues, turn, picked>>

TaskFamilies ==
    << "current_cash_balance", "monthly_burn", "cash_runway", "cash_gap_date",
       "accounts_receivable", "overdue_receivables", "receivable_prioritization",
       "accounts_payable_pressure", "gross_margin", "operating_margin", "revenue_growth",
       "expense_growth", "budget_variance", "customer_concentration", "supplier_concentration",
       "scenario_collect_25", "scenario_collect_50", "scenario_collect_75",
       "scenario_revenue_drop", "scenario_lose_customer", "scenario_cut_expenses",
       "duplicate_transactions", "missing_periods", "tax_inclusive_vs_exclusive" >>

\* Families that some books have no answer for: nothing overdue, nothing spent.
MayBeSkipped == {"receivable_prioritization", "budget_variance"}

Traps ==
    << "trap_wrong_period", "trap_gross_vs_net", "trap_unanswerable_forecast",
       "trap_unanswerable_causality", "trap_missing_fx_rate", "trap_conflicting_totals" >>

Refused == {"trap_unanswerable_forecast", "trap_unanswerable_causality", "trap_missing_fx_rate"}
Payloads == 5
NoPayload == 0

\* The k-th of a tuple that is gone through again and again, counted from 0.
Cycle(seq, k) == seq[(k % Len(seq)) + 1]

Bilingual(s) == s \in {"bilingual", "private"}
AdversarialEvery(s) == CASE s = "adversarial" -> 1 [] s = "private" -> 3 [] OTHER -> 0
IsAdversarial(s, i) == AdversarialEvery(s) # 0 /\ i % AdversarialEvery(s) = 0

Sample(seed, family, language, payload) ==
    [seed |-> seed, family |-> family, language |-> language,
     refuse |-> family \in Refused, payload |-> payload]

-----------------------------------------------------------------------------
(* Filling a split. *)

\* Mutant of TrapOrdinal: the injections punch holes in the cycle of traps.
RawOrdinal(i) == i

\* How many cases that are not injections came before the i-th.
TrapOrdinal(i) == i - i \div 3

\* The i-th adversarial case for the business of a seed.
AdversarialCase(seed, i) ==
    IF i % 3 = 2
    THEN Sample(seed, "prompt_injection", "en", (i % Payloads) + 1)
    ELSE Sample(seed, Cycle(Traps, TrapOrdinal(i)), "en", NoPayload)

More == stage = "build" /\ Len(samples) < Sizes[split]

\* The loop counts before it asks: the first business is asked as number 1.
AskAdversarial ==
    /\ More
    /\ IsAdversarial(split, index + 1)
    /\ index' = index + 1
    /\ samples' = Append(samples, AdversarialCase(index, index + 1))
    /\ UNCHANGED <<split, skips, stage, take, queues, turn, picked>>

Standard == More /\ ~IsAdversarial(split, index + 1)
Family == Cycle(TaskFamilies, index + 1)

Question(language) == Sample(index, Family, language, NoPayload)

Ask ==
    /\ Standard
    /\ index' = index + 1
    /\ LET asked == Append(samples, Question("en"))
       IN  samples' = IF Bilingual(split) /\ Len(asked) < Sizes[split]
                      THEN Append(asked, Question("ru"))
                      ELSE asked
    /\ UNCHANGED <<split, skips, stage, take, queues, turn, picked>>

SkipFamily ==
    /\ Standard
    /\ Family \in MayBeSkipped
    /\ skips < MaxSkips
    /\ index' = index + 1 /\ skips' = skips + 1
    /\ UNCHANGED <<split, samples, stage, take, queues, turn, picked>>

-----------------------------------------------------------------------------
(* Freezing a manifest. *)

FamiliesOf(s) == {s[k].family : k \in DOMAIN s}

\* The order the families of the split are gone through: the code sorts their
\* names, and any order that does not change from turn to turn is as good.
AllFamilies == TaskFamilies \o Traps \o <<"prompt_injection">>
Place(f) == CHOOSE k \in DOMAIN AllFamilies : AllFamilies[k] = f
Rank(f) == Cardinality({g \in DOMAIN queues : Place(g) < Place(f)})
AskedFamily == CHOOSE f \in DOMAIN queues : Rank(f) = turn % Cardinality(DOMAIN queues)

StartFreeze ==
    /\ stage = "build" /\ Len(samples) >= Sizes[split]
    /\ stage' = "freeze"
    /\ take' \in Takes
    /\ queues' = [f \in FamiliesOf(samples) |-> {k \in DOMAIN samples : samples[k].family = f}]
    /\ UNCHANGED <<split, index, samples, skips, turn, picked>>

Freezing == stage = "freeze" /\ Len(picked) < take /\ \E f \in DOMAIN queues : queues[f] # {}

\* Mutant of Turn: the counter moves on only from a family that is used up.
StayTurn(family) == IF Cardinality(queues[family]) > 1 THEN turn ELSE turn + 1

Turn(family) == turn + 1

Pick ==
    /\ Freezing
    /\ LET family == AskedFamily
       IN  /\ IF queues[family] # {}
              THEN /\ picked' = Append(picked, Min(queues[family]))
                   /\ queues' = [queues EXCEPT ![family] = @ \ {Min(@)}]
              ELSE UNCHANGED <<picked, queues>>
           /\ turn' = Turn(family)
    /\ UNCHANGED <<split, index, samples, skips, stage, take>>

Freeze ==
    /\ stage = "freeze" /\ ~Freezing
    /\ stage' = "frozen"
    /\ UNCHANGED <<split, index, samples, skips, take, queues, turn, picked>>

Init ==
    /\ split \in DOMAIN Sizes
    /\ index = 0 /\ samples = <<>> /\ skips = 0
    /\ stage = "build" /\ take = 0
    /\ queues = <<>> /\ turn = 0 /\ picked = <<>>

Next == AskAdversarial \/ Ask \/ SkipFamily \/ StartFreeze \/ Pick \/ Freeze

Spec == Init /\ [][Next]_vars

-----------------------------------------------------------------------------
(* Properties. *)

Count(s, Test(_)) == Cardinality({k \in DOMAIN s : Test(s[k])})
Injections == Count(samples, LAMBDA s : s.payload # NoPayload)
PayloadsOf(s) == {s[k].payload : k \in DOMAIN s} \ {NoPayload}

\* Every sample in Russian follows the same question about the same business in English.
PairsAreOfOneBusiness ==
    \A k \in DOMAIN samples :
        samples[k].language = "ru" =>
            k > 1 /\ samples[k] = [samples[k - 1] EXCEPT !.language = "ru"]

AsksEveryFamily == Range(TaskFamilies) \subseteq FamiliesOf(samples)

\* "Roughly one in three is a prompt injection", and no trap is left out by the
\* way the two cycles mesh (adversarial.py build_adversarial).
SetsEveryTrap ==
    /\ Range(Traps) \subseteq FamiliesOf(samples)
    /\ PayloadsOf(samples) = 1..Payloads
    /\ 3 * Injections \in (Len(samples) - 3)..(Len(samples) + 3)

\* A split that is filled has just the size it should have and no sample twice,
\* the skipped businesses and the pairs cut short at the end notwithstanding.
FilledWithoutRepeats ==
    stage # "build" =>
        Len(samples) = Sizes[split] /\ IsInjective(samples) /\ PairsAreOfOneBusiness

\* A split that is filled asks what it is there to ask: the public one every task
\* family, the adversarial one every trap and every payload, the bilingual
\* one every family, and so, in pairs, in both languages; and it repeats nothing.
EveryCaseIsAsked ==
    /\ FilledWithoutRepeats
    /\ stage # "build" =>
        /\ split \in {"public", "bilingual"} => AsksEveryFamily
        /\ split = "adversarial" => SetsEveryTrap

PickedOf(f) == Cardinality({k \in DOMAIN picked : samples[picked[k]].family = f})

\* "A round-robin across each benchmark's task families, so any prefix is balanced"
\* (cli.py freeze_manifest): at every moment a family is behind another only by
\* one sample, or because it has no more; and no sample is frozen twice.
FrozenIsBalanced ==
    /\ IsInjective(picked)
    /\ \A f, g \in DOMAIN queues : PickedOf(g) > PickedOf(f) + 1 => queues[f] = {}
    /\ stage = "frozen" => Len(picked) = Min({take, Len(samples)})

\* The private split, every third case of which is adversarial, asks what the
\* public splits ask: every task family, every trap and every payload.
PrivateAsksTheSame ==
    stage # "build" /\ split = "private" =>
        AsksEveryFamily /\ Range(Traps) \subseteq FamiliesOf(samples) /\ Injections > 0
=============================================================================
