------------------------------ MODULE SmbProofs ------------------------------
(***************************************************************************)
(* What the generated benchmark promises for every value of the constants. *)
(* SmbSplits: a split of any size is filled without a repetition, one that *)
(* is large enough asks every case, and every prefix of a manifest is      *)
(* balanced.  SmbBooks: in books with any customers, rates, amounts and    *)
(* days, every invoice is owed or banked, and the gold answers agree.      *)
(***************************************************************************)
EXTENDS SmbBooks, SmbSplits, SumTheorems, SequenceTheorems

-----------------------------------------------------------------------------
(* The splits: arithmetic of a round robin. *)

\* Quotient and remainder, as the prover needs them.
LEMMA Division ==
    ASSUME NEW n \in Nat \ {0}, NEW t \in Nat
    PROVE  /\ t \div n \in Nat /\ t % n \in 0..(n - 1)
           /\ t = (n * (t \div n)) + (t % n)
    BY SMT

\* The counter of a round robin over n: the next of the round, or a new round.
LEMMA NextTurn ==
    ASSUME NEW n \in Nat \ {0}, NEW t \in Nat
    PROVE  /\ t % n = n - 1 => (t + 1) \div n = (t \div n) + 1 /\ (t + 1) % n = 0
           /\ t % n # n - 1 => (t + 1) \div n = t \div n /\ (t + 1) % n = (t % n) + 1
<1> DEFINE q == t \div n
           r == t % n
           p == (t + 1) \div n
           s == (t + 1) % n
<1>1. q \in Nat /\ r \in 0..(n - 1) /\ t = n * q + r
    BY Division
<1>2. p \in Nat /\ s \in 0..(n - 1) /\ t + 1 = n * p + s
    <2>1. t + 1 \in Nat
        OBVIOUS
    <2>. QED
        BY <2>1, Division, Zenon
<1> HIDE DEF q, r, p, s
<1>3. n * p + s = n * q + r + 1
    BY <1>1, <1>2
<1>4. CASE p = q
    BY <1>1, <1>2, <1>3, <1>4 DEF q, r, p, s
<1>5. CASE p > q
    <2>1. n * p = n * q + n * (p - q)
        BY <1>1, <1>2
    <2>2. p - q = 1 \/ p - q >= 2
        BY <1>1, <1>2, <1>5
    <2>3. p - q >= 2 => n * (p - q) >= n + n
        BY <1>1, <1>2
    <2>. QED
        BY <1>1, <1>2, <1>3, <1>5, <2>1, <2>2, <2>3 DEF q, r, p, s
<1>6. CASE p < q
    <2>1. n * q = n * p + n * (q - p)
        BY <1>1, <1>2
    <2>3. n * (q - p) >= n
        BY <1>1, <1>2, <1>6
    <2>. QED
        BY <1>1, <1>2, <1>3, <1>6, <2>1, <2>3
<1>. QED
    BY <1>1, <1>2, <1>4, <1>5, <1>6

-----------------------------------------------------------------------------
(* The families and their order. *)

Names == Range(TaskFamilies) \cup Range(Traps) \cup {"prompt_injection"}

\* The lists of names are sequences that are not empty.
LEMMA TheFamilies ==
    /\ TaskFamilies \in Seq(Names) /\ TaskFamilies # <<>>
    /\ Traps \in Seq(Names) /\ Traps # <<>>
    /\ <<"prompt_injection">> \in Seq(Names)
<1>1. TaskFamilies \in [1..24 -> Range(TaskFamilies)]
    BY DEF TaskFamilies, Range
<1>2. Traps \in [1..6 -> Range(Traps)]
    BY DEF Traps, Range
<1>3. TaskFamilies \in [1..24 -> Names] /\ Traps \in [1..6 -> Names]
    BY <1>1, <1>2 DEF Names
<1>4. \A n \in Nat : [1..n -> Names] \subseteq Seq(Names)
    BY SeqDef
<1>5. [1..24 -> Names] \subseteq Seq(Names) /\ [1..6 -> Names] \subseteq Seq(Names)
    BY <1>4
<1>6. Len(TaskFamilies) = 24 /\ Len(Traps) = 6 /\ Len(<<>>) = 0
    BY DEF TaskFamilies, Traps
<1>7. <<"prompt_injection">> \in Seq(Names)
    BY DEF Names
<1>8. TaskFamilies # <<>>
    <2>1. ASSUME TaskFamilies = <<>> PROVE Len(TaskFamilies) = 0
        BY <1>6, <2>1, Zenon
    <2>. QED
        BY <1>6, <2>1
<1>9. Traps # <<>>
    BY <1>6
<1>. QED
    BY <1>3, <1>5, <1>7, <1>8, <1>9

\* What is in two sequences is in their concatenation.
LEMMA RangeOfConcat ==
    ASSUME NEW S, NEW s \in Seq(S), NEW t \in Seq(S)
    PROVE  /\ s \o t \in Seq(S)
           /\ Range(s) \subseteq Range(s \o t) /\ Range(t) \subseteq Range(s \o t)
<1>1. /\ s \o t \in Seq(S) /\ Len(s \o t) = Len(s) + Len(t)
      /\ \A k \in 1..(Len(s) + Len(t)) :
              (s \o t)[k] = IF k <= Len(s) THEN s[k] ELSE t[k - Len(s)]
    BY ConcatProperties
<1>2. /\ Len(s) \in Nat /\ Len(t) \in Nat
      /\ DOMAIN s = 1..Len(s) /\ DOMAIN t = 1..Len(t) /\ DOMAIN (s \o t) = 1..Len(s \o t)
    BY <1>1, LenProperties
<1>3. ASSUME NEW k \in 1..Len(s) PROVE s[k] \in Range(s \o t)
    <2>1. k \in DOMAIN (s \o t) /\ (s \o t)[k] = s[k]
        BY <1>1, <1>2
    <2>. QED
        BY <2>1 DEF Range
<1>4. ASSUME NEW k \in 1..Len(t) PROVE t[k] \in Range(s \o t)
    <2>1. k + Len(s) \in DOMAIN (s \o t) /\ (s \o t)[k + Len(s)] = t[k]
        BY <1>1, <1>2
    <2>. QED
        BY <2>1 DEF Range
<1>. QED
    BY <1>1, <1>2, <1>3, <1>4 DEF Range

\* Every task family, every trap and the injection have a place in the order.
LEMMA AreFamilies ==
    /\ Range(TaskFamilies) \subseteq Range(AllFamilies)
    /\ Range(Traps) \subseteq Range(AllFamilies)
    /\ "prompt_injection" \in Range(AllFamilies)
<1> DEFINE Standards == TaskFamilies \o Traps
           Last1 == <<"prompt_injection">>
<1>1. /\ Standards \in Seq(Names)
      /\ Range(TaskFamilies) \subseteq Range(Standards)
      /\ Range(Traps) \subseteq Range(Standards)
    BY TheFamilies, RangeOfConcat
<1>2. "prompt_injection" \in Range(Last1) /\ Last1 \in Seq(Names)
    BY TheFamilies DEF Range
<1>3. AllFamilies = Standards \o Last1
    BY DEF AllFamilies
<1> HIDE DEF Standards, Last1
<1>4. /\ Range(Standards) \subseteq Range(AllFamilies)
      /\ Range(Last1) \subseteq Range(AllFamilies)
    BY <1>1, <1>2, <1>3, RangeOfConcat
<1>. QED
    BY <1>1, <1>2, <1>4

\* Going through a sequence again and again never leaves it.
LEMMA CycleStaysIn ==
    ASSUME NEW S, NEW seq \in Seq(S), seq # <<>>, NEW k \in Nat
    PROVE  Cycle(seq, k) \in Range(seq)
<1>1. Len(seq) \in Nat \ {0} /\ DOMAIN seq = 1..Len(seq)
    BY EmptySeq, LenProperties
<1> DEFINE n == Len(seq)
<1> HIDE DEF n
<1>2. k % n \in 0..(n - 1)
    BY <1>1, Division DEF n
<1>3. (k % n) + 1 \in 1..n
    BY <1>1, <1>2 DEF n
<1>. QED
    BY <1>1, <1>3 DEF Cycle, n, Range

-----------------------------------------------------------------------------
(* Filling a split. *)

SampleType ==
    [seed : Nat, family : Range(AllFamilies), language : {"en", "ru"},
     refuse : BOOLEAN, payload : Nat]

\* A sample has its type, its business and its language.
LEMMA SampleIsOne ==
    ASSUME NEW seed \in Nat, NEW family \in Range(AllFamilies),
           NEW language \in {"en", "ru"}, NEW payload \in Nat
    PROVE  /\ Sample(seed, family, language, payload) \in SampleType
           /\ Sample(seed, family, language, payload).seed = seed
           /\ Sample(seed, family, language, payload).language = language
           /\ Sample(seed, family, "ru", payload)
                = [Sample(seed, family, "en", payload) EXCEPT !.language = "ru"]
    BY DEF Sample, SampleType

\* An adversarial case is a sample in English about the business it is made for.
LEMMA AdversarialIsOne ==
    ASSUME NEW seed \in Nat, NEW i \in Nat
    PROVE  /\ AdversarialCase(seed, i) \in SampleType
           /\ AdversarialCase(seed, i).seed = seed
           /\ AdversarialCase(seed, i).language = "en"
<1>1. CASE i % 3 = 2
    <2>1. (i % Payloads) + 1 \in Nat
        BY DEF Payloads
    <2>2. AdversarialCase(seed, i) = Sample(seed, "prompt_injection", "en", (i % Payloads) + 1)
        BY <1>1 DEF AdversarialCase
    <2>. QED
        BY <2>1, <2>2, AreFamilies, SampleIsOne
<1>2. CASE i % 3 # 2
    <2>1. TrapOrdinal(i) \in Nat
        BY DEF TrapOrdinal
    <2>2. Cycle(Traps, TrapOrdinal(i)) \in Range(Traps)
        BY <2>1, TheFamilies, CycleStaysIn
    <2>3. AdversarialCase(seed, i) = Sample(seed, Cycle(Traps, TrapOrdinal(i)), "en", NoPayload)
        BY <1>2 DEF AdversarialCase
    <2>4. Cycle(Traps, TrapOrdinal(i)) \in Range(AllFamilies) /\ NoPayload \in Nat
        BY <2>2, AreFamilies DEF NoPayload
    <2>. QED
        BY <2>3, <2>4, SampleIsOne
<1>. QED
    BY <1>1, <1>2

\* Samples about the first n businesses, in the order of the businesses, each
\* asked about once in English and then perhaps in Russian.
InTurn(s, n) ==
    /\ \A k \in DOMAIN s : s[k].seed < n
    /\ \A k, l \in DOMAIN s :
           k < l => \/ s[k].seed < s[l].seed
                    \/ s[k].language = "en" /\ s[l].language = "ru"
    /\ \A k \in DOMAIN s :
           s[k].language = "ru" => k > 1 /\ s[k] = [s[k - 1] EXCEPT !.language = "ru"]

\* A question in English about the next business keeps the samples in turn.
LEMMA AskedOnce ==
    ASSUME NEW s \in Seq(SampleType), NEW n \in Nat, InTurn(s, n),
           NEW x \in SampleType, x.seed = n, x.language = "en"
    PROVE  /\ Append(s, x) \in Seq(SampleType) /\ Len(Append(s, x)) = Len(s) + 1
           /\ Append(s, x)[Len(s) + 1] = x
           /\ InTurn(Append(s, x), n + 1)
<1> DEFINE t == Append(s, x)
<1>1. /\ t \in Seq(SampleType) /\ Len(t) = Len(s) + 1 /\ Len(s) \in Nat
      /\ DOMAIN s = 1..Len(s) /\ DOMAIN t = 1..(Len(s) + 1)
      /\ t[Len(s) + 1] = x /\ \A k \in 1..Len(s) : t[k] = s[k]
    BY LenProperties
<1>2. \A k \in 1..Len(s) : s[k] \in SampleType
    BY ElementOfSeq
<1>3. \A k \in 1..Len(s) : s[k].seed \in Nat
    BY <1>2 DEF SampleType
<1> HIDE DEF t
<1>4. ASSUME NEW k \in DOMAIN t PROVE t[k].seed < n + 1
    BY <1>1, <1>3 DEF InTurn
<1>5. ASSUME NEW k \in DOMAIN t, NEW l \in DOMAIN t, k < l
      PROVE  t[k].seed < t[l].seed \/ (t[k].language = "en" /\ t[l].language = "ru")
    BY <1>1, <1>5 DEF InTurn
<1>6. ASSUME NEW k \in DOMAIN t, t[k].language = "ru"
      PROVE  k > 1 /\ t[k] = [t[k - 1] EXCEPT !.language = "ru"]
    <2>1. k \in 1..Len(s) /\ t[k] = s[k]
        BY <1>1, <1>6
    <2>2. k > 1 /\ s[k] = [s[k - 1] EXCEPT !.language = "ru"]
        BY <1>1, <1>6, <2>1 DEF InTurn
    <2>3. t[k - 1] = s[k - 1]
        BY <1>1, <2>1, <2>2
    <2>. QED
        BY <2>1, <2>2, <2>3
<1>. QED
    BY <1>1, <1>4, <1>5, <1>6 DEF InTurn, t

InRussian(x) == [x EXCEPT !.language = "ru"]

\* So does the same question in Russian right after it.
LEMMA AskedAgainInRussian ==
    ASSUME NEW s \in Seq(SampleType), NEW n \in Nat, InTurn(s, n),
           Len(s) > 0, s[Len(s)].language = "en",
           NEW y \in SampleType, y = InRussian(s[Len(s)])
    PROVE  /\ Append(s, y) \in Seq(SampleType) /\ Len(Append(s, y)) = Len(s) + 1
           /\ InTurn(Append(s, y), n)
<1> DEFINE t == Append(s, y)
           x == s[Len(s)]
<1>1. /\ t \in Seq(SampleType) /\ Len(t) = Len(s) + 1 /\ Len(s) \in Nat
      /\ DOMAIN s = 1..Len(s) /\ DOMAIN t = 1..(Len(s) + 1)
      /\ t[Len(s) + 1] = y /\ \A k \in 1..Len(s) : t[k] = s[k]
    BY LenProperties
<1>2. \A k \in 1..Len(s) : s[k] \in SampleType
    BY ElementOfSeq
<1>3. \A k \in 1..Len(s) : s[k].seed \in Nat
    BY <1>2 DEF SampleType
<1>4. y.seed = x.seed /\ y.language = "ru" /\ x.seed < n /\ x \in SampleType
    BY <1>1, <1>2 DEF InTurn, SampleType, InRussian
<1> HIDE DEF t
<1>5. ASSUME NEW k \in DOMAIN t PROVE t[k].seed < n
    BY <1>1, <1>4 DEF InTurn
<1>6. ASSUME NEW k \in DOMAIN t, NEW l \in DOMAIN t, k < l
      PROVE  t[k].seed < t[l].seed \/ (t[k].language = "en" /\ t[l].language = "ru")
    <2>1. CASE l \in 1..Len(s)
        BY <1>1, <1>6, <2>1 DEF InTurn
    <2>2. CASE l = Len(s) + 1 /\ k = Len(s)
        BY <1>1, <1>4, <2>2
    <2>3. CASE l = Len(s) + 1 /\ k < Len(s)
        <3>1. s[k].seed < x.seed
            BY <1>1, <2>3 DEF InTurn
        <3>. QED
            BY <1>1, <1>4, <2>3, <3>1
    <2>. QED
        BY <1>1, <1>6, <2>1, <2>2, <2>3
<1>7. ASSUME NEW k \in DOMAIN t, t[k].language = "ru"
      PROVE  k > 1 /\ t[k] = [t[k - 1] EXCEPT !.language = "ru"]
    <2>1. CASE k \in 1..Len(s)
        <3>1. k > 1 /\ s[k] = [s[k - 1] EXCEPT !.language = "ru"]
            BY <1>1, <1>7, <2>1 DEF InTurn
        <3>2. t[k - 1] = s[k - 1] /\ t[k] = s[k]
            BY <1>1, <2>1, <3>1
        <3>. QED
            BY <3>1, <3>2
    <2>2. CASE k = Len(s) + 1
        BY <1>1, <2>2 DEF InRussian
    <2>. QED
        BY <1>1, <2>1, <2>2
<1>. QED
    BY <1>1, <1>5, <1>6, <1>7 DEF InTurn, t

\* Samples in turn are all different.
LEMMA InTurnIsInjective ==
    ASSUME NEW s \in Seq(SampleType), NEW n \in Nat, InTurn(s, n)
    PROVE  IsInjective(s)
<1>1. /\ DOMAIN s = 1..Len(s) /\ Len(s) \in Nat
      /\ \A k \in DOMAIN s : s[k] \in SampleType
    BY LenProperties, ElementOfSeq
<1>2. \A k \in DOMAIN s : s[k].seed \in Nat
    BY <1>1 DEF SampleType
<1>3. \A k, l \in DOMAIN s : k < l => s[k] # s[l]
    BY <1>2 DEF InTurn
<1>. QED
    BY <1>1, <1>3 DEF IsInjective

-----------------------------------------------------------------------------
(* The order the families are gone through. *)

\* How many families of a set come before one.
Before(F, f) == {g \in F : Place(g) < Place(f)}
Ranks(F) == [f \in F |-> Cardinality(Before(F, f))]

\* Two families have different places.
LEMMA PlacesDiffer ==
    /\ \A f \in Range(AllFamilies) : Place(f) \in Nat
    /\ \A f, g \in Range(AllFamilies) : f # g => Place(f) # Place(g)
<1>1. AllFamilies \in Seq(Names)
    BY TheFamilies, RangeOfConcat DEF AllFamilies
<1>2. DOMAIN AllFamilies \subseteq Nat
    BY <1>1, LenProperties
<1>3. \A f \in Range(AllFamilies) : Place(f) \in DOMAIN AllFamilies /\ AllFamilies[Place(f)] = f
    BY DEF Place, Range
<1>. QED
    BY <1>2, <1>3

\* Among n families, each number below n is the rank of exactly one.
LEMMA RanksAreOneToOne ==
    ASSUME NEW F, IsFiniteSet(F), F \subseteq Range(AllFamilies), F # {}
    PROVE  /\ Cardinality(F) \in Nat \ {0}
           /\ \A f \in F : Ranks(F)[f] \in 0..(Cardinality(F) - 1)
           /\ \A f, g \in F : f # g => Ranks(F)[f] # Ranks(F)[g]
           /\ \A r \in 0..(Cardinality(F) - 1) : \E f \in F : Ranks(F)[f] = r
<1> DEFINE n == Cardinality(F)
           R == Ranks(F)
<1>1. n \in Nat \ {0}
    BY FS_CardinalityType, FS_EmptySet
<1>2. \A f \in F : R[f] = Cardinality(Before(F, f))
    BY DEF Ranks
<1>3. \A f \in F : IsFiniteSet(Before(F, f)) /\ Cardinality(Before(F, f)) \in Nat
    BY FS_Subset, FS_CardinalityType DEF Before
<1> HIDE DEF n, R
<1>4. ASSUME NEW f \in F PROVE R[f] \in 0..(n - 1)
    <2>1. f \notin Before(F, f) /\ Before(F, f) \cup {f} \in SUBSET F
        BY PlacesDiffer DEF Before
    <2>2. Cardinality(Before(F, f) \cup {f}) = Cardinality(Before(F, f)) + 1
        BY <1>3, <2>1, FS_AddElement
    <2>3. Cardinality(Before(F, f) \cup {f}) <= n
        BY <2>1, FS_Subset DEF n
    <2>. QED
        BY <1>1, <1>2, <1>3, <2>2, <2>3
<1>5. ASSUME NEW f \in F, NEW g \in F, Place(f) < Place(g) PROVE R[f] < R[g]
    <2>1. f \notin Before(F, f) /\ Before(F, f) \cup {f} \in SUBSET Before(F, g)
        BY <1>5, PlacesDiffer DEF Before
    <2>2. Cardinality(Before(F, f) \cup {f}) = Cardinality(Before(F, f)) + 1
        BY <1>3, <2>1, FS_AddElement
    <2>3. Cardinality(Before(F, f) \cup {f}) <= Cardinality(Before(F, g))
        BY <1>3, <2>1, FS_Subset
    <2>. QED
        BY <1>2, <1>3, <2>2, <2>3
<1>6. ASSUME NEW f \in F, NEW g \in F, f # g PROVE R[f] # R[g]
    <2>1. Place(f) \in Nat /\ Place(g) \in Nat /\ Place(f) # Place(g)
        BY <1>6, PlacesDiffer
    <2>2. Place(f) < Place(g) \/ Place(g) < Place(f)
        BY <2>1
    <2>. QED
        BY <1>4, <1>5, <2>2
<1>7. R \in Injection(F, 0..(n - 1))
    <2>1. R \in [F -> 0..(n - 1)]
        BY <1>4 DEF R, Ranks
    <2>. QED
        BY <1>6, <2>1 DEF Injection, IsInjective
<1>8. IsFiniteSet(0..(n - 1)) /\ Cardinality(0..(n - 1)) = n
    BY <1>1, FS_Interval
<1>9. R \in Surjection(F, 0..(n - 1))
    BY <1>7, <1>8, FS_Injection DEF n
<1>10. \A r \in 0..(n - 1) : \E f \in F : R[f] = r
    BY <1>9 DEF Surjection
<1>. QED
    BY <1>1, <1>4, <1>6, <1>10 DEF n, R

\* The families of a split are finitely many, and in the order.
LEMMA FamiliesAreFinite ==
    ASSUME NEW s \in Seq(SampleType)
    PROVE  IsFiniteSet(FamiliesOf(s)) /\ FamiliesOf(s) \subseteq Range(AllFamilies)
<1>1. DOMAIN s = 1..Len(s) /\ Len(s) \in Nat /\ \A k \in DOMAIN s : s[k] \in SampleType
    BY LenProperties, ElementOfSeq
<1>2. IsFiniteSet(DOMAIN s)
    BY <1>1, FS_Interval
<1> DEFINE F == [k \in DOMAIN s |-> s[k].family]
<1>3. F \in Surjection(DOMAIN s, FamiliesOf(s))
    BY DEF Surjection, FamiliesOf
<1>4. IsFiniteSet(FamiliesOf(s))
    BY <1>2, <1>3, FS_Surjection
<1>5. FamiliesOf(s) \subseteq Range(AllFamilies)
    BY <1>1 DEF FamiliesOf, SampleType
<1>. QED
    BY <1>4, <1>5

\* A set of numbers that is not empty has a least one, the head of the queue.
LEMMA MinIsLeast ==
    ASSUME NEW S, S \subseteq Nat, S # {}
    PROVE  Min(S) \in S /\ \A k \in S : Min(S) <= k
<1>1. \E m \in S : \A k \in S : <<k, m>> \notin OpToRel(<, Nat)
    BY NatLessThanWellFounded, WFMin, Zenon
<1>2. \A k, m \in Nat : k < m => <<k, m>> \in OpToRel(<, Nat)
    BY Zenon DEF OpToRel
<1>3. \A k, m \in Nat : ~(k < m) => m <= k
    OBVIOUS
<1>4. \E m \in S : \A k \in S : m <= k
    BY <1>1, <1>2, <1>3, Zenon
<1>. QED
    BY <1>4 DEF Min

-----------------------------------------------------------------------------
(* The splits: the inductive invariant. *)

TypeOK ==
    /\ split \in DOMAIN Sizes /\ index \in Nat /\ skips \in Nat
    /\ samples \in Seq(SampleType)
    /\ stage \in {"build", "freeze", "frozen"} /\ take \in Nat
    /\ turn \in Nat /\ picked \in Seq(1..Len(samples))

\* A split is filled up to its size and never over it.
Filling ==
    /\ Len(samples) <= Sizes[split]
    /\ stage # "build" => Len(samples) = Sizes[split]
    /\ InTurn(samples, index)

\* How often a family's turn has come.
Visits(f) ==
    LET n == Cardinality(DOMAIN queues)
    IN  (turn \div n) + (IF Rank(f) < turn % n THEN 1 ELSE 0)

\* A family has given a sample at each of its turns, or it has no more.
GaveEachTurn ==
    \A f \in DOMAIN queues :
        PickedOf(f) <= Visits(f) /\ (queues[f] # {} => PickedOf(f) = Visits(f))

\* A queue holds the samples of its family that are not frozen, and nothing is frozen
\* twice or over the size asked for.
QueuesAreWhatIsLeft ==
    /\ DOMAIN queues = FamiliesOf(samples)
    /\ \A f \in DOMAIN queues :
           queues[f] = {k \in DOMAIN samples : samples[k].family = f /\ k \notin Range(picked)}
    /\ IsInjective(picked) /\ Len(picked) <= take

Rotation ==
    /\ stage = "build" => queues = <<>> /\ picked = <<>> /\ turn = 0
    /\ stage # "build" => QueuesAreWhatIsLeft /\ GaveEachTurn
    /\ stage = "frozen" => Len(picked) >= take \/ \A f \in DOMAIN queues : queues[f] = {}

Inv == TypeOK /\ Filling /\ Rotation

\* The constants are numbers.
LEMMA TakesAreNat == Takes \subseteq Nat /\ \A s \in DOMAIN Sizes : Sizes[s] \in Nat
    BY SplitsAssumption

\* The invariant holds at first.
LEMMA InitInv == Init => Inv
<1> SUFFICES ASSUME Init PROVE Inv
    OBVIOUS
<1>1. /\ <<>> \in Seq(SampleType) /\ Len(<<>>) = 0 /\ DOMAIN <<>> = {}
      /\ <<>> \in Seq(1..Len(samples))
    OBVIOUS
<1>2. TypeOK
    BY <1>1 DEF TypeOK, Init
<1>3. Filling
    <2>1. samples = <<>> /\ stage = "build" /\ Sizes[split] \in Nat
        BY TakesAreNat DEF Init
    <2>2. InTurn(samples, index)
        BY <1>1, <2>1 DEF InTurn
    <2>3. Len(samples) <= Sizes[split]
        BY <1>1, <2>1
    <2>. QED
        BY <2>1, <2>2, <2>3 DEF Filling
<1>4. Rotation
    BY DEF Rotation, Init
<1>. QED
    BY <1>2, <1>3, <1>4 DEF Inv

\* What a step that asks about a business keeps, whatever it appends.
LEMMA AskingKeeps ==
    ASSUME Inv, More, samples' \in Seq(SampleType), index' \in Nat, skips' \in Nat,
           Len(samples') <= Sizes[split], InTurn(samples', index'),
           UNCHANGED <<split, stage, take, queues, turn, picked>>
    PROVE  Inv'
<1>1. stage = "build" /\ picked = <<>>
    BY DEF Inv, Rotation, More
<1>2. picked' \in Seq(1..Len(samples'))
    BY <1>1
<1>3. TypeOK'
    BY <1>2 DEF Inv, TypeOK
<1>4. Filling'
    BY <1>1 DEF Filling
<1>5. Rotation'
    BY <1>1 DEF Inv, Rotation
<1>. QED
    BY <1>3, <1>4, <1>5 DEF Inv

\* Samples in turn stay so when a business is skipped.
LEMMA LaterIsInTurn ==
    ASSUME Inv
    PROVE  InTurn(samples, index + 1)
<1>1. \A k \in DOMAIN samples : samples[k] \in SampleType
    BY LenProperties, ElementOfSeq DEF Inv, TypeOK
<1>2. \A k \in DOMAIN samples : samples[k].seed \in Nat
    BY <1>1 DEF SampleType
<1>. QED
    BY <1>2 DEF Inv, TypeOK, Filling, InTurn

\* Asking an adversarial case keeps the invariant.
LEMMA AskAdversarialInv == ASSUME Inv, AskAdversarial PROVE Inv'
<1> DEFINE x == AdversarialCase(index, index + 1)
<1>1. /\ index \in Nat /\ index + 1 \in Nat /\ samples \in Seq(SampleType)
      /\ InTurn(samples, index) /\ Len(samples) \in Nat /\ Sizes[split] \in Nat
    BY LenProperties, TakesAreNat DEF Inv, TypeOK, Filling
<1>2. x \in SampleType /\ x.seed = index /\ x.language = "en"
    BY <1>1, AdversarialIsOne
<1>3. /\ samples' = Append(samples, x) /\ index' = index + 1 /\ More
      /\ UNCHANGED <<split, skips, stage, take, queues, turn, picked>>
    BY DEF AskAdversarial
<1> HIDE DEF x
<1>4. /\ samples' \in Seq(SampleType) /\ Len(samples') = Len(samples) + 1
      /\ InTurn(samples', index')
    BY <1>1, <1>2, <1>3, AskedOnce
<1>5. Len(samples') <= Sizes[split] /\ skips' \in Nat
    BY <1>1, <1>3, <1>4 DEF More, Inv, TypeOK
<1>. QED
    BY <1>1, <1>3, <1>4, <1>5, AskingKeeps

\* Asking a standard question, in one language or two, keeps it.
LEMMA AskInv == ASSUME Inv, Ask PROVE Inv'
<1> DEFINE x == Sample(index, Family, "en", NoPayload)
           y == Sample(index, Family, "ru", NoPayload)
           asked == Append(samples, x)
<1>1. /\ index \in Nat /\ index + 1 \in Nat /\ samples \in Seq(SampleType)
      /\ InTurn(samples, index) /\ Len(samples) \in Nat /\ Sizes[split] \in Nat
    BY LenProperties, TakesAreNat DEF Inv, TypeOK, Filling
<1>2. Family \in Range(AllFamilies) /\ NoPayload \in Nat
    BY <1>1, TheFamilies, CycleStaysIn, AreFamilies DEF Family, NoPayload
<1>3. /\ x \in SampleType /\ x.seed = index /\ x.language = "en"
      /\ y \in SampleType /\ y = InRussian(x)
    BY <1>1, <1>2, SampleIsOne DEF InRussian
<1>4. /\ samples' = IF Bilingual(split) /\ Len(asked) < Sizes[split]
                    THEN Append(asked, y) ELSE asked
      /\ index' = index + 1 /\ More
      /\ UNCHANGED <<split, skips, stage, take, queues, turn, picked>>
    BY DEF Ask, Question, Standard
<1> HIDE DEF x, y
<1>5. /\ asked \in Seq(SampleType) /\ Len(asked) = Len(samples) + 1
      /\ asked[Len(samples) + 1] = x
      /\ InTurn(asked, index + 1)
    BY <1>1, <1>3, AskedOnce
<1> HIDE DEF asked
<1>6. skips' \in Nat /\ index' \in Nat
    BY <1>1, <1>4 DEF Inv, TypeOK
<1>7. CASE ~(Bilingual(split) /\ Len(asked) < Sizes[split])
    <2>1. samples' = asked
        BY <1>4, <1>7
    <2>2. Len(samples') <= Sizes[split]
        BY <1>1, <1>4, <1>5, <2>1 DEF More
    <2>. QED
        BY <1>4, <1>5, <1>6, <2>1, <2>2, AskingKeeps
<1>8. CASE Bilingual(split) /\ Len(asked) < Sizes[split]
    <2>1. samples' = Append(asked, y)
        BY <1>4, <1>8
    <2>2. Len(asked) > 0 /\ asked[Len(asked)] = x
        BY <1>1, <1>5
    <2>3. /\ Append(asked, y) \in Seq(SampleType)
          /\ Len(Append(asked, y)) = Len(asked) + 1
          /\ InTurn(Append(asked, y), index + 1)
        BY <1>1, <1>3, <1>5, <2>2, AskedAgainInRussian
    <2>4. Len(samples') <= Sizes[split]
        BY <1>1, <1>5, <1>8, <2>1, <2>3
    <2>. QED
        BY <1>4, <1>6, <2>1, <2>3, <2>4, AskingKeeps
<1>. QED
    BY <1>7, <1>8

\* Skipping a business keeps it.
LEMMA SkipFamilyInv == ASSUME Inv, SkipFamily PROVE Inv'
<1>1. /\ samples' = samples /\ index' = index + 1 /\ skips' = skips + 1 /\ More
      /\ UNCHANGED <<split, stage, take, queues, turn, picked>>
    BY DEF SkipFamily, Standard
<1>2. InTurn(samples', index')
    BY <1>1, LaterIsInTurn
<1>3. samples' \in Seq(SampleType) /\ index' \in Nat /\ skips' \in Nat
    BY <1>1 DEF Inv, TypeOK
<1>4. Len(samples') <= Sizes[split]
    BY <1>1 DEF Inv, Filling
<1>. QED
    BY <1>1, <1>2, <1>3, <1>4, AskingKeeps

\* The ranks of the families of the split being frozen.
LEMMA RankFacts ==
    ASSUME DOMAIN queues = FamiliesOf(samples), samples \in Seq(SampleType), DOMAIN queues # {}
    PROVE  /\ Cardinality(DOMAIN queues) \in Nat \ {0}
           /\ \A f \in DOMAIN queues : Rank(f) \in 0..(Cardinality(DOMAIN queues) - 1)
           /\ \A f, g \in DOMAIN queues : f # g => Rank(f) # Rank(g)
           /\ \A r \in 0..(Cardinality(DOMAIN queues) - 1) : \E f \in DOMAIN queues : Rank(f) = r
<1> DEFINE F == DOMAIN queues
<1>1. IsFiniteSet(F) /\ F \subseteq Range(AllFamilies) /\ F # {}
    BY FamiliesAreFinite
<1>2. \A f \in F : Ranks(F)[f] = Rank(f)
    BY DEF Ranks, Before, Rank
<1> HIDE DEF F
<1>3. /\ Cardinality(F) \in Nat \ {0}
      /\ \A f \in F : Ranks(F)[f] \in 0..(Cardinality(F) - 1)
      /\ \A f, g \in F : f # g => Ranks(F)[f] # Ranks(F)[g]
      /\ \A r \in 0..(Cardinality(F) - 1) : \E f \in F : Ranks(F)[f] = r
    BY <1>1, RanksAreOneToOne
<1>4. /\ Cardinality(F) \in Nat \ {0}
      /\ \A f \in F : Rank(f) \in 0..(Cardinality(F) - 1)
      /\ \A f, g \in F : f # g => Rank(f) # Rank(g)
      /\ \A r \in 0..(Cardinality(F) - 1) : \E f \in F : Rank(f) = r
    BY <1>2, <1>3
<1>. QED
    BY <1>4 DEF F

\* When freezing starts, no family has had its turn and none has given a sample.
LEMMA StartFreezeInv == ASSUME Inv, StartFreeze PROVE Inv'
<1>1. /\ stage = "build" /\ Len(samples) >= Sizes[split] /\ stage' = "freeze" /\ take' \in Takes
      /\ queues' = [f \in FamiliesOf(samples) |-> {k \in DOMAIN samples : samples[k].family = f}]
      /\ UNCHANGED <<split, index, samples, skips, turn, picked>>
    BY DEF StartFreeze
<1>2. picked = <<>> /\ turn = 0
    BY <1>1 DEF Inv, Rotation
<1>3. TypeOK'
    BY <1>1, TakesAreNat DEF Inv, TypeOK
<1>4. Filling'
    <2>1. Len(samples) \in Nat /\ Sizes[split] \in Nat
        BY LenProperties, TakesAreNat DEF Inv, TypeOK
    <2>. QED
        BY <1>1, <2>1 DEF Inv, Filling
<1>5. QueuesAreWhatIsLeft'
    <2>1. DOMAIN queues' = FamiliesOf(samples')
        BY <1>1
    <2>2. Range(picked') = {} /\ IsInjective(picked') /\ Len(picked') = 0
        BY <1>1, <1>2 DEF Range, IsInjective
    <2>3. take' \in Nat
        BY <1>1, TakesAreNat
    <2>4. ASSUME NEW f \in DOMAIN queues'
          PROVE  queues'[f] = {k \in DOMAIN samples' : samples'[k].family = f /\ k \notin Range(picked')}
        BY <1>1, <2>1, <2>2, <2>4
    <2>. QED
        BY <2>1, <2>2, <2>3, <2>4 DEF QueuesAreWhatIsLeft
<1>6. GaveEachTurn'
    <2> SUFFICES ASSUME NEW f \in DOMAIN queues'
                 PROVE  PickedOf(f)' = 0 /\ Visits(f)' = 0
        BY DEF GaveEachTurn
    <2> DEFINE n == Cardinality(DOMAIN queues')
    <2>1. {k \in DOMAIN picked' : samples'[picked'[k]].family = f} = {}
        BY <1>1, <1>2
    <2>2. PickedOf(f)' = 0
        BY <2>1, FS_EmptySet DEF PickedOf
    <2>3. /\ IsFiniteSet(DOMAIN queues') /\ DOMAIN queues' \subseteq Range(AllFamilies)
          /\ DOMAIN queues' # {}
        BY <1>1, FamiliesAreFinite DEF Inv, TypeOK
    <2>4. n \in Nat \ {0} /\ Ranks(DOMAIN queues')[f] \in 0..(n - 1)
        BY <2>3, RanksAreOneToOne
    <2>5. Rank(f)' = Ranks(DOMAIN queues')[f]
        BY DEF Rank, Ranks, Before
    <2> HIDE DEF n
    <2>6. 0 \div n = 0 /\ 0 % n = 0
        BY <2>4
    <2>7. Visits(f)' = 0
        BY <1>1, <1>2, <2>4, <2>5, <2>6 DEF Visits, n
    <2>. QED
        BY <2>2, <2>7
<1>. QED
    BY <1>1, <1>3, <1>4, <1>5, <1>6 DEF Inv, Rotation

\* The loop ends with enough samples or with every queue empty.
LEMMA FreezeInv == ASSUME Inv, Freeze PROVE Inv'
<1>1. /\ stage = "freeze" /\ ~Freezing /\ stage' = "frozen"
      /\ UNCHANGED <<split, index, samples, skips, take, queues, turn, picked>>
    BY DEF Freeze
<1>2. TypeOK' /\ Filling'
    BY <1>1 DEF Inv, TypeOK, Filling
<1>3. QueuesAreWhatIsLeft' /\ GaveEachTurn'
    BY <1>1 DEF Inv, Rotation, QueuesAreWhatIsLeft, GaveEachTurn, PickedOf, Visits, Rank
<1>4. Len(picked) >= take \/ \A f \in DOMAIN queues : queues[f] = {}
    <2>1. Len(picked) \in Nat /\ take \in Nat
        BY LenProperties DEF Inv, TypeOK
    <2>. QED
        BY <1>1, <2>1 DEF Freezing
<1>. QED
    BY <1>1, <1>2, <1>3, <1>4 DEF Inv, Rotation

\* How many of the picked positions are of a family is a number.
LEMMA PickedIsNat ==
    ASSUME NEW s \in Seq(SampleType), NEW p \in Seq(1..Len(s)), NEW f
    PROVE  /\ IsFiniteSet({k \in DOMAIN p : s[p[k]].family = f})
           /\ Cardinality({k \in DOMAIN p : s[p[k]].family = f}) \in Nat
<1>1. DOMAIN p = 1..Len(p) /\ Len(p) \in Nat
    BY LenProperties
<1>2. IsFiniteSet(DOMAIN p)
    BY <1>1, FS_Interval
<1>3. {k \in DOMAIN p : s[p[k]].family = f} \in SUBSET (DOMAIN p)
    OBVIOUS
<1>. QED
    BY <1>2, <1>3, FS_Subset, FS_CardinalityType

\* A position more is one more of its family.
LEMMA PickedOneMore ==
    ASSUME NEW s \in Seq(SampleType), NEW p \in Seq(1..Len(s)), NEW f, NEW m \in 1..Len(s)
    PROVE  Cardinality({k \in DOMAIN Append(p, m) : s[Append(p, m)[k]].family = f})
             = Cardinality({k \in DOMAIN p : s[p[k]].family = f})
               + (IF s[m].family = f THEN 1 ELSE 0)
<1> DEFINE A == {k \in DOMAIN p : s[p[k]].family = f}
           B == {k \in DOMAIN Append(p, m) : s[Append(p, m)[k]].family = f}
           n == Len(p) + 1
           q == Append(p, m)
<1>1. /\ DOMAIN p = 1..Len(p) /\ Len(p) \in Nat /\ DOMAIN q = 1..n
      /\ q[n] = m /\ \A k \in 1..Len(p) : q[k] = p[k]
    BY LenProperties
<1>2. IsFiniteSet(A) /\ Cardinality(A) \in Nat
    BY PickedIsNat
<1>3. n \notin A
    BY <1>1
<1>4. B = {k \in DOMAIN q : s[q[k]].family = f}
    OBVIOUS
<1> HIDE DEF q, B
<1>5. ASSUME s[m].family = f PROVE Cardinality(B) = Cardinality(A) + 1
    <2>1. B = A \cup {n}
        BY <1>1, <1>4, <1>5
    <2>2. Cardinality(A \cup {n}) = Cardinality(A) + 1
        BY <1>2, <1>3, FS_AddElement
    <2>3. Cardinality(B) = Cardinality(A) + 1
        BY <2>1, <2>2, Zenon
    <2> HIDE DEF A
    <2>. QED
        BY <1>2, <1>5, <2>3
<1>6. ASSUME s[m].family # f PROVE Cardinality(B) = Cardinality(A) + 0
    <2>1. B = A
        BY <1>1, <1>4, <1>6
    <2>2. Cardinality(B) = Cardinality(A)
        BY <2>1, Zenon
    <2> HIDE DEF A
    <2>. QED
        BY <1>2, <1>6, <2>2
<1>7. Cardinality(B) = Cardinality(A) + (IF s[m].family = f THEN 1 ELSE 0)
    <2> HIDE DEF A
    <2>. QED
        BY <1>5, <1>6
<1>. QED
    BY <1>7, Zenon DEF B, q

\* A turn is the turn of one family, and only that one's visits grow.
LEMMA OneVisit ==
    ASSUME Inv, Freezing, turn' = turn + 1, DOMAIN queues' = DOMAIN queues
    PROVE  /\ AskedFamily \in DOMAIN queues
           /\ \A f \in DOMAIN queues :
                  /\ Visits(f) \in Nat
                  /\ Visits(f)' = Visits(f) + (IF f = AskedFamily THEN 1 ELSE 0)
<1> DEFINE n == Cardinality(DOMAIN queues)
           r == turn % n
           q == turn \div n
<1>1. /\ DOMAIN queues = FamiliesOf(samples) /\ samples \in Seq(SampleType)
      /\ DOMAIN queues # {} /\ turn \in Nat
    BY DEF Inv, TypeOK, Rotation, QueuesAreWhatIsLeft, Freezing
<1>2. /\ n \in Nat \ {0}
      /\ \A f \in DOMAIN queues : Rank(f) \in 0..(n - 1)
      /\ \A f, g \in DOMAIN queues : f # g => Rank(f) # Rank(g)
      /\ \A k \in 0..(n - 1) : \E f \in DOMAIN queues : Rank(f) = k
    BY <1>1, RankFacts
<1>3. r \in 0..(n - 1) /\ q \in Nat
    <2> HIDE DEF n
    <2>. QED
        BY <1>1, <1>2, Division
<1>4. AskedFamily \in DOMAIN queues /\ Rank(AskedFamily) = r
    BY <1>2, <1>3 DEF AskedFamily
<1>5. /\ r = n - 1 => turn' \div n = q + 1 /\ turn' % n = 0
      /\ r # n - 1 => turn' \div n = q /\ turn' % n = r + 1
    <2> HIDE DEF n
    <2>. QED
        BY <1>1, <1>2, NextTurn
<1>6. \A f \in DOMAIN queues : Rank(f)' = Rank(f)
    BY DEF Rank
<1>7. \A f : Visits(f) = q + (IF Rank(f) < r THEN 1 ELSE 0)
    BY DEF Visits
<1>8. \A f \in DOMAIN queues :
          Visits(f)' = (turn' \div n) + (IF Rank(f) < turn' % n THEN 1 ELSE 0)
    BY <1>6 DEF Visits
<1>9. \A f \in DOMAIN queues : f # AskedFamily => Rank(f) # r
    BY <1>2, <1>4
<1> HIDE DEF n, r, q
<1>10. ASSUME NEW f \in DOMAIN queues
       PROVE  /\ Visits(f) \in Nat
              /\ Visits(f)' = Visits(f) + (IF f = AskedFamily THEN 1 ELSE 0)
    <2> DEFINE k == Rank(f)
               v == Visits(f)
               w == Visits(f)'
    <2>1. /\ k \in 0..(n - 1) /\ (f = AskedFamily => k = r) /\ (f # AskedFamily => k # r)
          /\ v = q + (IF k < r THEN 1 ELSE 0)
          /\ w = (turn' \div n) + (IF k < turn' % n THEN 1 ELSE 0)
        BY <1>2, <1>4, <1>7, <1>8, <1>9
    <2> HIDE DEF k, v, w
    <2>2. CASE r = n - 1
        <3>1. w = q + 1
            BY <1>2, <1>3, <1>5, <2>1, <2>2
        <3>. QED
            BY <1>2, <1>3, <2>1, <2>2, <3>1 DEF v, w
    <2>3. CASE r # n - 1
        <3>1. w = q + (IF k < r + 1 THEN 1 ELSE 0)
            BY <1>2, <1>3, <1>5, <2>1, <2>3
        <3>. QED
            BY <1>2, <1>3, <2>1, <2>3, <3>1 DEF v, w
    <2>. QED
        BY <2>2, <2>3
<1>. QED
    BY <1>4, <1>10

\* A turn takes from the family asked, and leaves the others as they are.
LEMMA PickInv == ASSUME Inv, Pick PROVE Inv'
<1> DEFINE fam == AskedFamily
           m == Min(queues[fam])
<1>1. /\ Freezing /\ stage = "freeze" /\ turn' = turn + 1
      /\ UNCHANGED <<split, index, samples, skips, stage, take>>
      /\ queues[fam] # {} => /\ picked' = Append(picked, m)
                             /\ queues' = [queues EXCEPT ![fam] = @ \ {m}]
      /\ queues[fam] = {} => picked' = picked /\ queues' = queues
    BY DEF Pick, Freezing, Turn
<1>2. /\ TypeOK /\ QueuesAreWhatIsLeft /\ GaveEachTurn
      /\ samples \in Seq(SampleType) /\ picked \in Seq(1..Len(samples)) /\ turn \in Nat
      /\ DOMAIN samples = 1..Len(samples) /\ Len(samples) \in Nat
      /\ DOMAIN picked = 1..Len(picked) /\ Len(picked) \in Nat /\ take \in Nat
    BY <1>1, LenProperties DEF Inv, TypeOK, Rotation
<1>3. DOMAIN queues' = DOMAIN queues
    BY <1>1
<1>4. /\ fam \in DOMAIN queues
      /\ \A f \in DOMAIN queues :
             /\ Visits(f) \in Nat
             /\ Visits(f)' = Visits(f) + (IF f = fam THEN 1 ELSE 0)
    BY <1>1, <1>3, OneVisit
<1>5. \A f \in DOMAIN queues :
          queues[f] = {k \in DOMAIN samples : samples[k].family = f /\ k \notin Range(picked)}
    BY <1>2 DEF QueuesAreWhatIsLeft
<1>6. \A f \in DOMAIN queues :
          /\ PickedOf(f) \in Nat
          /\ PickedOf(f) <= Visits(f) /\ (queues[f] # {} => PickedOf(f) = Visits(f))
    BY <1>2, PickedIsNat DEF PickedOf, GaveEachTurn
<1>7. Filling'
    BY <1>1 DEF Inv, Filling
<1> SUFFICES TypeOK' /\ QueuesAreWhatIsLeft' /\ GaveEachTurn'
    BY <1>1, <1>7 DEF Inv, Rotation
<1>8. CASE queues[fam] = {}
    <2>1. picked' = picked /\ queues' = queues /\ turn' = turn + 1
        BY <1>1, <1>8
    <2>2. TypeOK'
        <3>1. UNCHANGED <<split, index, samples, skips, stage, take, picked>>
            BY <1>1, <2>1
        <3>. QED
            BY <1>2, <2>1, <3>1 DEF TypeOK
    <2>3. QueuesAreWhatIsLeft'
        BY <1>1, <1>2, <2>1 DEF QueuesAreWhatIsLeft
    <2>4. \A f \in DOMAIN queues : PickedOf(f)' = PickedOf(f)
        BY <1>1, <2>1 DEF PickedOf
    <2>5. ASSUME NEW f \in DOMAIN queues
          PROVE  PickedOf(f)' <= Visits(f)' /\ (queues'[f] # {} => PickedOf(f)' = Visits(f)')
        BY <1>4, <1>6, <1>8, <2>1, <2>4
    <2>. QED
        BY <2>1, <2>2, <2>3, <2>5 DEF GaveEachTurn
<1>9. CASE queues[fam] # {}
    <2>1. /\ picked' = Append(picked, m) /\ queues' = [queues EXCEPT ![fam] = @ \ {m}]
          /\ samples' = samples /\ take' = take
        BY <1>1, <1>9
    <2>2. m \in queues[fam]
        <3>1. queues[fam] \subseteq Nat
            BY <1>2, <1>4, <1>5
        <3>. QED
            BY <1>9, <3>1, MinIsLeast
    <2>3. m \in 1..Len(samples) /\ samples[m].family = fam /\ m \notin Range(picked)
        BY <1>2, <1>4, <1>5, <2>2
    <2> HIDE DEF m
    <2>4. picked' \in Seq(1..Len(samples)) /\ Len(picked') = Len(picked) + 1
        BY <1>2, <2>1, <2>3
    <2>5. TypeOK'
        BY <1>1, <1>2, <2>4 DEF TypeOK
    <2>6. /\ DOMAIN picked' = 1..(Len(picked) + 1) /\ picked'[Len(picked) + 1] = m
          /\ \A k \in 1..Len(picked) : picked'[k] = picked[k]
        BY <1>2, <2>1, <2>3, <2>4, LenProperties
    <2>7. Range(picked') = Range(picked) \cup {m}
        BY <1>2, <2>6 DEF Range
    <2>8. IsInjective(picked')
        <3>1. \A k \in 1..Len(picked) : picked[k] # m
            BY <1>2, <2>3 DEF Range
        <3>2. IsInjective(picked)
            BY <1>2 DEF QueuesAreWhatIsLeft
        <3>. QED
            BY <1>2, <2>6, <3>1, <3>2 DEF IsInjective
    <2>9. Len(picked') <= take'
        BY <1>1, <1>2, <2>4 DEF Freezing
    <2>10. ASSUME NEW f \in DOMAIN queues
           PROVE  queues'[f] = {k \in DOMAIN samples : samples[k].family = f /\ k \notin Range(picked')}
        <3>1. CASE f = fam
            BY <1>4, <1>5, <2>1, <2>7, <3>1
        <3>2. CASE f # fam
            BY <1>5, <2>1, <2>3, <2>7, <3>2
        <3>. QED
            BY <3>1, <3>2
    <2>11. QueuesAreWhatIsLeft'
        BY <1>2, <1>3, <2>1, <2>8, <2>9, <2>10 DEF QueuesAreWhatIsLeft
    <2>12. ASSUME NEW f \in DOMAIN queues
           PROVE  PickedOf(f)' = PickedOf(f) + (IF f = fam THEN 1 ELSE 0)
        <3> DEFINE p == Append(picked, m)
        <3>1. PickedOf(f)' = Cardinality({k \in DOMAIN p : samples[p[k]].family = f})
            BY <2>1 DEF PickedOf
        <3>2. Cardinality({k \in DOMAIN p : samples[p[k]].family = f})
                = Cardinality({k \in DOMAIN picked : samples[picked[k]].family = f})
                  + (IF samples[m].family = f THEN 1 ELSE 0)
            BY <1>2, <2>3, PickedOneMore
        <3> HIDE DEF p
        <3>3. PickedOf(f)' = PickedOf(f) + (IF samples[m].family = f THEN 1 ELSE 0)
            BY <3>1, <3>2 DEF PickedOf
        <3>. QED
            BY <2>3, <3>3
    <2>13. ASSUME NEW f \in DOMAIN queues
           PROVE  PickedOf(f)' <= Visits(f)' /\ (queues'[f] # {} => PickedOf(f)' = Visits(f)')
        <3>1. CASE f = fam
            BY <1>4, <1>6, <1>9, <2>12, <3>1
        <3>2. CASE f # fam
            <4>1. queues'[f] = queues[f]
                BY <2>1, <3>2
            <4>. QED
                BY <1>4, <1>6, <2>12, <3>2, <4>1
        <3>. QED
            BY <3>1, <3>2
    <2>14. GaveEachTurn'
        BY <1>3, <2>13 DEF GaveEachTurn
    <2>. QED
        BY <2>5, <2>11, <2>14
<1>. QED
    BY <1>8, <1>9

\* Every step keeps the invariant.
LEMMA NextInv == ASSUME Inv, [Next]_vars PROVE Inv'
<1>1. CASE AskAdversarial
    BY <1>1, AskAdversarialInv
<1>2. CASE Ask
    BY <1>2, AskInv
<1>3. CASE SkipFamily
    BY <1>3, SkipFamilyInv
<1>4. CASE StartFreeze
    BY <1>4, StartFreezeInv
<1>5. CASE Pick
    BY <1>5, PickInv
<1>6. CASE Freeze
    BY <1>6, FreezeInv
<1>7. CASE UNCHANGED vars
    BY <1>7 DEF vars, Inv, TypeOK, Filling, Rotation, QueuesAreWhatIsLeft, GaveEachTurn,
                PickedOf, Visits, Rank
<1>. QED
    BY <1>1, <1>2, <1>3, <1>4, <1>5, <1>6, <1>7 DEF Next

\* The invariant: the split in turn and within its size, queues holding what is not
\* frozen, and every family having given a sample at each of its turns while it could.
THEOREM InvHolds == Spec => []Inv
    BY InitInv, NextInv, PTL DEF Spec

\* A frozen manifest is as long as was asked for, or holds the whole split.
LEMMA FrozenLength ==
    ASSUME Inv, stage = "frozen"
    PROVE  Len(picked) = Min({take, Len(samples)})
<1> DEFINE n == Len(picked)
           all == Len(samples)
<1>1. /\ samples \in Seq(SampleType) /\ picked \in Seq(1..all) /\ QueuesAreWhatIsLeft
      /\ n \in Nat /\ all \in Nat /\ take \in Nat /\ n <= take
      /\ n >= take \/ \A f \in DOMAIN queues : queues[f] = {}
    BY LenProperties DEF Inv, TypeOK, Rotation, QueuesAreWhatIsLeft
<1>2. picked \in [1..n -> 1..all] /\ DOMAIN samples = 1..all
    BY <1>1, LenProperties
<1>3. picked \in Injection(1..n, 1..all)
    BY <1>1, <1>2 DEF QueuesAreWhatIsLeft, Injection, IsInjective
<1>4. /\ IsFiniteSet(1..all) /\ Cardinality(1..all) = all
      /\ IsFiniteSet(1..n) /\ Cardinality(1..n) = n
    <2>1. \A m \in Nat : IsFiniteSet(1..m) /\ Cardinality(1..m) = m
        BY FS_Interval
    <2> HIDE DEF n, all
    <2>. QED
        BY <1>1, <2>1
<1> HIDE DEF n, all
<1>5. n <= all /\ (picked \in Surjection(1..n, 1..all) => n = all)
    BY <1>3, <1>4, FS_Injection
<1>6. ASSUME \A f \in DOMAIN queues : queues[f] = {}
      PROVE  n = all
    <2>1. ASSUME NEW k \in 1..all PROVE k \in Range(picked)
        <3>1. k \in DOMAIN samples /\ samples[k].family \in FamiliesOf(samples)
            BY <1>2 DEF FamiliesOf
        <3>2. /\ DOMAIN queues = FamiliesOf(samples)
              /\ \A f \in DOMAIN queues :
                     queues[f] = {j \in DOMAIN samples : samples[j].family = f /\ j \notin Range(picked)}
            BY <1>1 DEF QueuesAreWhatIsLeft
        <3>. QED
            BY <1>6, <3>1, <3>2
    <2>2. picked \in Surjection(1..n, 1..all)
        BY <1>2, <2>1 DEF Surjection, Range
    <2>. QED
        BY <1>5, <2>2
<1>7. ASSUME NEW a \in Nat, NEW b \in Nat, a <= b PROVE Min({a, b}) = a /\ Min({b, a}) = a
    <2>1. /\ {a, b} \subseteq Nat /\ {a, b} # {} /\ {b, a} = {a, b}
        OBVIOUS
    <2>2. Min({a, b}) \in {a, b} /\ \A k \in {a, b} : Min({a, b}) <= k
        BY <2>1, MinIsLeast
    <2>3. Min({a, b}) = a
        BY <1>7, <2>2
    <2>. QED
        BY <2>1, <2>3
<1>8. n = take \/ n = all
    BY <1>1, <1>6
<1>9. n <= take /\ n <= all
    BY <1>1, <1>5
<1>. QED
    BY <1>1, <1>7, <1>8, <1>9 DEF n, all

\* "A round-robin across each benchmark's task families, so any prefix is balanced"
\* (cli.py freeze-manifest), whatever the sizes of the splits, the businesses
\* skipped and the number of samples asked for.
THEOREM AnyPrefixIsBalanced == Spec => []FrozenIsBalanced
<1>1. ASSUME Inv PROVE FrozenIsBalanced
    <2>1. CASE stage = "build"
        <3>1. queues = <<>> /\ picked = <<>>
            BY <1>1, <2>1 DEF Inv, Rotation
        <3>. QED
            BY <2>1, <3>1 DEF FrozenIsBalanced, IsInjective
    <2>2. CASE stage # "build"
        <3>1. QueuesAreWhatIsLeft /\ GaveEachTurn
            BY <1>1, <2>2 DEF Inv, Rotation
        <3>2. ASSUME NEW f \in DOMAIN queues, NEW g \in DOMAIN queues,
                     PickedOf(g) > PickedOf(f) + 1
              PROVE  queues[f] = {}
            <4>1. /\ DOMAIN queues = FamiliesOf(samples) /\ samples \in Seq(SampleType)
                  /\ DOMAIN queues # {} /\ turn \in Nat /\ picked \in Seq(1..Len(samples))
                BY <1>1, <3>1 DEF Inv, TypeOK, QueuesAreWhatIsLeft
            <4>2. PickedOf(f) \in Nat /\ PickedOf(g) \in Nat
                BY <4>1, PickedIsNat DEF PickedOf
            <4> DEFINE n == Cardinality(DOMAIN queues)
            <4>3. n \in Nat \ {0}
                BY <4>1, RankFacts
            <4>4. turn \div n \in Nat
                <5> HIDE DEF n
                <5>. QED
                    BY <4>1, <4>3, Division
            <4>5. Visits(g) <= Visits(f) + 1 /\ Visits(g) \in Nat /\ Visits(f) \in Nat
                BY <4>4 DEF Visits
            <4>6. PickedOf(g) <= Visits(g) /\ (queues[f] # {} => PickedOf(f) = Visits(f))
                BY <3>1 DEF GaveEachTurn
            <4>. QED
                BY <3>2, <4>2, <4>5, <4>6
        <3>3. IsInjective(picked)
            BY <3>1 DEF QueuesAreWhatIsLeft
        <3>. QED
            BY <1>1, <3>2, <3>3, FrozenLength DEF FrozenIsBalanced
    <2>. QED
        BY <2>1, <2>2
<1>. QED
    BY <1>1, InvHolds, PTL

\* Whatever the sizes of the splits and the businesses skipped, a split that is filled
\* (adapter.py _build) has exactly its size, no sample twice, and every question
\* in Russian right after the same question in English.
THEOREM SplitsAreFilledWithoutRepeats == Spec => []FilledWithoutRepeats
<1>1. ASSUME Inv, stage # "build"
      PROVE  Len(samples) = Sizes[split] /\ IsInjective(samples) /\ PairsAreOfOneBusiness
    <2>1. InTurn(samples, index) /\ samples \in Seq(SampleType) /\ index \in Nat
        BY <1>1 DEF Inv, TypeOK, Filling
    <2>2. IsInjective(samples)
        BY <2>1, InTurnIsInjective
    <2>3. PairsAreOfOneBusiness
        BY <2>1 DEF InTurn, PairsAreOfOneBusiness
    <2>. QED
        BY <1>1, <2>2, <2>3 DEF Inv, Filling
<1>2. ASSUME Inv PROVE FilledWithoutRepeats
    BY <1>1, <1>2 DEF FilledWithoutRepeats
<1>. QED
    BY <1>2, InvHolds, PTL

-----------------------------------------------------------------------------
(* The splits: what is asked. *)

\* When the p-th family has its first turn: the loop counts before it asks.
FirstTurn(p) == IF p = 1 THEN 24 ELSE p - 1

\* A sample is the one that the turn of its business calls for.
AskedAs(x, in) ==
    LET i == x.seed + 1
    IN  x = IF IsAdversarial(in, i) THEN AdversarialCase(i - 1, i)
            ELSE Sample(i - 1, Cycle(TaskFamilies, i), x.language, NoPayload)

Copies == IF Bilingual(split) THEN 2 ELSE 1

\* Where no case is adversarial, a family that is not asked yet has not had its first
\* turn, or has lost every turn so far to a business without an answer.
FamiliesComeRound ==
    AdversarialEvery(split) = 0 =>
        /\ Len(samples) <= Copies * (index - skips) /\ index - skips >= 0
        /\ \A p \in 1..24 :
               TaskFamilies[p] \notin FamiliesOf(samples) =>
                   index < FirstTurn(p) + (IF TaskFamilies[p] \in MayBeSkipped THEN 24 * skips ELSE 0)

OneCaseEach ==
    split = "adversarial" =>
        Len(samples) = index /\ \A k \in DOMAIN samples : samples[k].seed = k - 1

Covering ==
    /\ skips <= MaxSkips
    /\ \A k \in DOMAIN samples : AskedAs(samples[k], split)
    /\ FamiliesComeRound /\ OneCaseEach

\* The two lists, by their places.
LEMMA TheLists ==
    /\ Len(TaskFamilies) = 24 /\ DOMAIN TaskFamilies = 1..24
    /\ Len(Traps) = 6 /\ DOMAIN Traps = 1..6
<1>1. Len(TaskFamilies) = 24 /\ Len(Traps) = 6
    BY DEF TaskFamilies, Traps
<1>2. DOMAIN TaskFamilies = 1..Len(TaskFamilies) /\ DOMAIN Traps = 1..Len(Traps)
    BY TheFamilies, LenProperties
<1>. QED
    BY <1>1, <1>2

\* A family's turn comes round every twenty-four businesses.
LEMMA ItsTurn ==
    ASSUME NEW p \in 1..24, NEW m \in Nat, NEW n \in Nat, n = FirstTurn(p) + 24 * m
    PROVE  Cycle(TaskFamilies, n) = TaskFamilies[p]
<1>1. n % 24 = p - 1
    BY DEF FirstTurn
<1>. QED
    BY <1>1, TheLists DEF Cycle

\* One more sample is one more family.
LEMMA FamiliesOfAppend ==
    ASSUME NEW s \in Seq(SampleType), NEW x \in SampleType
    PROVE  FamiliesOf(Append(s, x)) = FamiliesOf(s) \cup {x.family}
<1> DEFINE t == Append(s, x)
<1>1. /\ DOMAIN s = 1..Len(s) /\ DOMAIN t = 1..(Len(s) + 1) /\ Len(s) \in Nat
      /\ t[Len(s) + 1] = x /\ \A k \in 1..Len(s) : t[k] = s[k]
    BY LenProperties
<1> HIDE DEF t
<1>2. FamiliesOf(t) = {t[k].family : k \in 1..(Len(s) + 1)}
    BY <1>1 DEF FamiliesOf
<1>3. FamiliesOf(s) = {s[k].family : k \in 1..Len(s)}
    BY <1>1 DEF FamiliesOf
<1>4. 1..(Len(s) + 1) = 1..Len(s) \cup {Len(s) + 1}
    BY <1>1
<1>. QED
    BY <1>1, <1>2, <1>3, <1>4 DEF t

\* One more sample that its turn calls for leaves every sample so.
LEMMA AskedAsAppend ==
    ASSUME NEW s \in Seq(SampleType), NEW x \in SampleType, NEW in,
           \A k \in DOMAIN s : AskedAs(s[k], in), AskedAs(x, in)
    PROVE  \A k \in DOMAIN Append(s, x) : AskedAs(Append(s, x)[k], in)
<1> DEFINE t == Append(s, x)
<1>1. /\ DOMAIN s = 1..Len(s) /\ DOMAIN t = 1..(Len(s) + 1) /\ Len(s) \in Nat
      /\ t[Len(s) + 1] = x /\ \A k \in 1..Len(s) : t[k] = s[k]
    BY LenProperties
<1> HIDE DEF t
<1>2. ASSUME NEW k \in DOMAIN t PROVE AskedAs(t[k], in)
    <2>1. k \in DOMAIN s \/ k = Len(s) + 1
        BY <1>1
    <2>2. CASE k \in DOMAIN s
        <3>1. t[k] = s[k]
            BY <1>1, <2>2
        <3>. QED
            BY <2>2, <3>1
    <2>3. CASE k = Len(s) + 1
        BY <1>1, <2>3
    <2>. QED
        BY <2>1, <2>2, <2>3
<1>. QED
    BY <1>2 DEF t

\* The families come round: one turn has passed, which was not the p-th family's or was
\* lost by it.
LEMMA TurnPasses ==
    ASSUME NEW p \in 1..24, NEW n \in Nat, NEW lost \in Nat,
           n < FirstTurn(p) + (IF TaskFamilies[p] \in MayBeSkipped THEN 24 * lost ELSE 0),
           Cycle(TaskFamilies, n + 1) # TaskFamilies[p]
    PROVE  n + 1 < FirstTurn(p) + (IF TaskFamilies[p] \in MayBeSkipped THEN 24 * lost ELSE 0)
<1>1. \A m \in Nat : n + 1 # FirstTurn(p) + 24 * m
    <2>1. n + 1 \in Nat
        OBVIOUS
    <2>. QED
        BY <2>1, ItsTurn
<1>2. n + 1 # FirstTurn(p) + 24 * lost /\ n + 1 # FirstTurn(p) + 24 * 0
    BY <1>1
<1>3. FirstTurn(p) \in Nat
    BY DEF FirstTurn
<1>. QED
    BY <1>2, <1>3

\* The bounds are numbers, and two splits hold no adversarial case among the others.
LEMMA SplitFacts ==
    /\ MaxSkips \in Nat /\ Copies \in {1, 2}
    /\ (Bilingual(split) => Copies = 2) /\ (~Bilingual(split) => Copies = 1)
    /\ \A i \in Nat : AdversarialEvery(split) = 0 => ~IsAdversarial(split, i)
    /\ \A i \in Nat : split = "adversarial" => IsAdversarial(split, i)
<1>1. MaxSkips \in Nat
    BY SplitsAssumption
<1>2. ASSUME split = "adversarial", NEW i \in Nat PROVE IsAdversarial(split, i)
    <2>1. AdversarialEvery(split) = 1
        BY <1>2 DEF AdversarialEvery
    <2>. QED
        BY <2>1 DEF IsAdversarial
<1>. QED
    BY <1>1, <1>2 DEF Copies, IsAdversarial

\* Filling keeps what has been asked as it should be.
LEMMA AskAdversarialCovers == ASSUME Inv, Covering, AskAdversarial PROVE Covering'
<1> DEFINE x == AdversarialCase(index, index + 1)
<1>1. /\ index \in Nat /\ index + 1 \in Nat /\ samples \in Seq(SampleType) /\ skips \in Nat
      /\ Len(samples) \in Nat /\ DOMAIN samples = 1..Len(samples)
    BY LenProperties DEF Inv, TypeOK
<1>2. x \in SampleType /\ x.seed = index
    BY <1>1, AdversarialIsOne
<1>3. /\ samples' = Append(samples, x) /\ index' = index + 1 /\ IsAdversarial(split, index + 1)
      /\ split' = split /\ skips' = skips
    BY DEF AskAdversarial
<1>4. AskedAs(x, split)
    <2>1. x = AdversarialCase((index + 1) - 1, index + 1)
        BY <1>1
    <2> HIDE DEF x
    <2>. QED
        BY <1>2, <1>3, <2>1 DEF AskedAs
<1> HIDE DEF x
<1>5. \A k \in DOMAIN samples' : AskedAs(samples'[k], split')
    BY <1>1, <1>2, <1>3, <1>4, AskedAsAppend DEF Covering
<1>6. FamiliesComeRound'
    <2>1. AdversarialEvery(split) # 0
        BY <1>1, <1>3, SplitFacts
    <2>. QED
        BY <1>3, <2>1 DEF FamiliesComeRound
<1>7. OneCaseEach'
    <2>1. SUFFICES ASSUME split = "adversarial"
                   PROVE  /\ Len(samples') = index + 1
                          /\ \A k \in DOMAIN samples' : samples'[k].seed = k - 1
        BY <1>3 DEF OneCaseEach
    <2>2. Len(samples) = index /\ \A k \in DOMAIN samples : samples[k].seed = k - 1
        BY <2>1 DEF Covering, OneCaseEach
    <2>3. /\ DOMAIN samples' = 1..(Len(samples) + 1) /\ Len(samples') = Len(samples) + 1
          /\ samples'[Len(samples) + 1] = x /\ \A k \in 1..Len(samples) : samples'[k] = samples[k]
        BY <1>1, <1>2, <1>3, LenProperties
    <2>. QED
        BY <1>1, <1>2, <2>2, <2>3
<1>. QED
    BY <1>3, <1>5, <1>6, <1>7 DEF Covering

\* So does a standard question, in one language or two.
LEMMA AskCovers == ASSUME Inv, Covering, Ask PROVE Covering'
<1> DEFINE x == Sample(index, Family, "en", NoPayload)
           y == Sample(index, Family, "ru", NoPayload)
           asked == Append(samples, x)
           twice == Bilingual(split) /\ Len(asked) < Sizes[split]
<1>1. /\ index \in Nat /\ index + 1 \in Nat /\ samples \in Seq(SampleType) /\ skips \in Nat
      /\ Len(samples) \in Nat /\ DOMAIN samples = 1..Len(samples)
    BY LenProperties DEF Inv, TypeOK
<1>2. Family \in Range(AllFamilies) /\ NoPayload \in Nat
    BY <1>1, TheFamilies, CycleStaysIn, AreFamilies DEF Family, NoPayload
<1>3. /\ x \in SampleType /\ x.seed = index /\ x.language = "en" /\ x.family = Family
      /\ y \in SampleType /\ y.seed = index /\ y.language = "ru" /\ y.family = Family
    BY <1>1, <1>2, SampleIsOne DEF Sample
<1>4. /\ samples' = IF twice THEN Append(asked, y) ELSE asked
      /\ index' = index + 1 /\ ~IsAdversarial(split, index + 1)
      /\ split' = split /\ skips' = skips
    BY DEF Ask, Question, Standard
<1>5. AskedAs(x, split) /\ AskedAs(y, split)
    <2>1. (index + 1) - 1 = index /\ Family = Cycle(TaskFamilies, index + 1)
        BY <1>1 DEF Family
    <2>2. /\ x = Sample((index + 1) - 1, Cycle(TaskFamilies, index + 1), x.language, NoPayload)
          /\ y = Sample((index + 1) - 1, Cycle(TaskFamilies, index + 1), y.language, NoPayload)
        BY <1>3, <2>1
    <2> HIDE DEF x, y
    <2>. QED
        BY <1>3, <1>4, <2>2 DEF AskedAs
<1> HIDE DEF x, y
<1>6. /\ asked \in Seq(SampleType) /\ Len(asked) = Len(samples) + 1
      /\ FamiliesOf(asked) = FamiliesOf(samples) \cup {Family}
      /\ \A k \in DOMAIN asked : AskedAs(asked[k], split)
    BY <1>1, <1>3, <1>5, FamiliesOfAppend, AskedAsAppend DEF Covering
<1> HIDE DEF asked
<1>7. /\ samples' \in Seq(SampleType)
      /\ Len(samples') \in {Len(samples) + 1, Len(samples) + Copies}
      /\ FamiliesOf(samples') = FamiliesOf(samples) \cup {Family}
      /\ \A k \in DOMAIN samples' : AskedAs(samples'[k], split)
    <2>1. CASE ~twice
        BY <1>4, <1>6, <2>1
    <2>2. CASE twice
        <3>1. samples' = Append(asked, y) /\ Copies = 2
            BY <1>4, <2>2, SplitFacts
        <3>2. /\ FamiliesOf(samples') = FamiliesOf(asked) \cup {Family}
              /\ \A k \in DOMAIN samples' : AskedAs(samples'[k], split)
            BY <1>3, <1>5, <1>6, <3>1, FamiliesOfAppend, AskedAsAppend
        <3>3. samples' \in Seq(SampleType) /\ Len(samples') = Len(asked) + 1
            BY <1>3, <1>6, <3>1
        <3>. QED
            BY <1>1, <1>6, <3>1, <3>2, <3>3
    <2>. QED
        BY <2>1, <2>2
<1>8. FamiliesComeRound'
    <2>1. SUFFICES ASSUME AdversarialEvery(split) = 0
                   PROVE  /\ Len(samples') <= Copies * (index' - skips) /\ index' - skips >= 0
                          /\ \A p \in 1..24 :
                                 TaskFamilies[p] \notin FamiliesOf(samples') =>
                                     index' < FirstTurn(p)
                                        + (IF TaskFamilies[p] \in MayBeSkipped THEN 24 * skips ELSE 0)
        BY <1>4 DEF FamiliesComeRound, Copies
    <2>2. /\ Len(samples) <= Copies * (index - skips) /\ index - skips >= 0
          /\ \A p \in 1..24 :
                 TaskFamilies[p] \notin FamiliesOf(samples) =>
                     index < FirstTurn(p) + (IF TaskFamilies[p] \in MayBeSkipped THEN 24 * skips ELSE 0)
        BY <2>1 DEF Covering, FamiliesComeRound
    <2>3. Len(samples') <= Copies * (index' - skips) /\ index' - skips >= 0
        <3> DEFINE d == index - skips
        <3>1. /\ d \in Int /\ d >= 0 /\ index' - skips = d + 1
              /\ Len(samples) <= Copies * d /\ Len(samples) \in Nat
            BY <1>1, <1>4, <2>2
        <3>2. Copies \in {1, 2} /\ Len(samples') \in Nat /\ Len(samples') <= Len(samples) + Copies
            BY <1>1, <1>7, SplitFacts
        <3> HIDE DEF d
        <3>3. Copies * (d + 1) = Copies * d + Copies
            BY <3>1, <3>2
        <3>. QED
            BY <3>1, <3>2, <3>3
    <2>4. ASSUME NEW p \in 1..24, TaskFamilies[p] \notin FamiliesOf(samples')
          PROVE  index' < FirstTurn(p) + (IF TaskFamilies[p] \in MayBeSkipped THEN 24 * skips ELSE 0)
        <3>1. TaskFamilies[p] \notin FamiliesOf(samples) /\ TaskFamilies[p] # Family
            BY <1>7, <2>4
        <3>. QED
            BY <1>1, <1>4, <2>2, <3>1, TurnPasses DEF Family
    <2>. QED
        BY <2>3, <2>4
<1>9. OneCaseEach'
    BY <1>1, <1>4, SplitFacts DEF OneCaseEach
<1>. QED
    BY <1>4, <1>7, <1>8, <1>9 DEF Covering

\* A business that is skipped takes a turn from a family that may lose it.
LEMMA SkipFamilyCovers == ASSUME Inv, Covering, SkipFamily PROVE Covering'
<1>1. /\ index \in Nat /\ index + 1 \in Nat /\ samples \in Seq(SampleType) /\ skips \in Nat
      /\ Len(samples) \in Nat /\ MaxSkips \in Nat
    BY LenProperties, SplitFacts DEF Inv, TypeOK
<1>2. /\ samples' = samples /\ index' = index + 1 /\ skips' = skips + 1 /\ split' = split
      /\ ~IsAdversarial(split, index + 1) /\ Family \in MayBeSkipped /\ skips < MaxSkips
    BY DEF SkipFamily, Standard
<1>3. FamiliesComeRound'
    <2>1. SUFFICES ASSUME AdversarialEvery(split) = 0
                   PROVE  /\ Len(samples) <= Copies * (index' - skips') /\ index' - skips' >= 0
                          /\ \A p \in 1..24 :
                                 TaskFamilies[p] \notin FamiliesOf(samples) =>
                                     index' < FirstTurn(p)
                                        + (IF TaskFamilies[p] \in MayBeSkipped THEN 24 * skips' ELSE 0)
        BY <1>2 DEF FamiliesComeRound, Copies
    <2>2. /\ Len(samples) <= Copies * (index - skips) /\ index - skips >= 0
          /\ \A p \in 1..24 :
                 TaskFamilies[p] \notin FamiliesOf(samples) =>
                     index < FirstTurn(p) + (IF TaskFamilies[p] \in MayBeSkipped THEN 24 * skips ELSE 0)
        BY <2>1 DEF Covering, FamiliesComeRound
    <2>3. index' - skips' = index - skips
        BY <1>1, <1>2
    <2>4. ASSUME NEW p \in 1..24, TaskFamilies[p] \notin FamiliesOf(samples)
          PROVE  index' < FirstTurn(p) + (IF TaskFamilies[p] \in MayBeSkipped THEN 24 * skips' ELSE 0)
        <3>1. index < FirstTurn(p) + (IF TaskFamilies[p] \in MayBeSkipped THEN 24 * skips ELSE 0)
            BY <2>2, <2>4
        <3>2. FirstTurn(p) \in Nat
            BY DEF FirstTurn
        <3>3. CASE TaskFamilies[p] \in MayBeSkipped
            BY <1>1, <1>2, <3>1, <3>2, <3>3
        <3>4. CASE TaskFamilies[p] \notin MayBeSkipped
            <4>1. Cycle(TaskFamilies, index + 1) # TaskFamilies[p]
                BY <1>2, <3>4 DEF Family
            <4>2. index + 1 < FirstTurn(p)
                              + (IF TaskFamilies[p] \in MayBeSkipped THEN 24 * skips ELSE 0)
                BY <1>1, <3>1, <4>1, TurnPasses
            <4>. QED
                BY <1>2, <3>4, <4>2
        <3>. QED
            BY <3>3, <3>4
    <2>. QED
        BY <2>2, <2>3, <2>4
<1>4. OneCaseEach'
    BY <1>1, <1>2, SplitFacts DEF OneCaseEach
<1>5. skips' <= MaxSkips
    BY <1>1, <1>2
<1>. QED
    BY <1>2, <1>3, <1>4, <1>5 DEF Covering

\* Covering holds at first, and every step keeps it.
LEMMA InitCovers == Init => Covering
<1> SUFFICES ASSUME Init PROVE Covering
    OBVIOUS
<1>1. samples = <<>> /\ index = 0 /\ skips = 0 /\ DOMAIN samples = {} /\ Len(samples) = 0
    BY DEF Init
<1>2. ASSUME NEW p \in 1..24
      PROVE  index < FirstTurn(p) + (IF TaskFamilies[p] \in MayBeSkipped THEN 24 * skips ELSE 0)
    <2>1. FirstTurn(p) \in Nat /\ FirstTurn(p) > 0 /\ 24 * skips = 0
        BY <1>1 DEF FirstTurn
    <2>. QED
        BY <1>1, <2>1
<1>3. FamiliesComeRound
    <2>1. index - skips = 0 /\ Copies * 0 = 0
        BY <1>1, SplitFacts
    <2>. QED
        BY <1>1, <1>2, <2>1 DEF FamiliesComeRound
<1>. QED
    BY <1>1, <1>3, SplitFacts DEF Covering, OneCaseEach

LEMMA NextCovers == ASSUME Inv, Covering, [Next]_vars PROVE Covering'
<1>1. CASE AskAdversarial
    BY <1>1, AskAdversarialCovers
<1>2. CASE Ask
    BY <1>2, AskCovers
<1>3. CASE SkipFamily
    BY <1>3, SkipFamilyCovers
<1>4. CASE UNCHANGED <<split, index, samples, skips>>
    BY <1>4 DEF Covering, FamiliesComeRound, OneCaseEach, Copies, FamiliesOf
<1>. QED
    BY <1>1, <1>2, <1>3, <1>4 DEF Next, StartFreeze, Pick, Freeze, vars

\* The splits in which every family is asked are large enough for it: twenty-four
\* businesses, and twenty-three more for each that a family may lose, of which the
\* later that may lose any has its first turn at the twelfth.
SeesEveryFamily(n) == n >= 24 /\ n >= 23 * MaxSkips + 12

LargeEnough ==
    /\ "public" \in DOMAIN Sizes => SeesEveryFamily(Sizes["public"])
    /\ "bilingual" \in DOMAIN Sizes => SeesEveryFamily((Sizes["bilingual"] + 1) \div 2)
    /\ "adversarial" \in DOMAIN Sizes => Sizes["adversarial"] >= 14

\* Two families may be skipped, the seventh and the thirteenth.
LEMMA LateTurns ==
    ASSUME NEW p \in 1..24
    PROVE  /\ FirstTurn(p) \in 1..24
           /\ TaskFamilies[p] \in MayBeSkipped => FirstTurn(p) <= 12
<1>1. TaskFamilies[p] \in MayBeSkipped => p \in {7, 13}
    BY DEF TaskFamilies, MayBeSkipped
<1>. QED
    BY <1>1 DEF FirstTurn

\* Enough businesses have been asked about for every family to have had a turn.
LEMMA EveryFamilyIsAsked ==
    ASSUME Inv, Covering, AdversarialEvery(split) = 0, SeesEveryFamily(index - skips)
    PROVE  AsksEveryFamily
<1>1. index \in Nat /\ skips \in Nat /\ skips <= MaxSkips /\ MaxSkips \in Nat
    BY SplitFacts DEF Inv, TypeOK, Covering
<1>2. ASSUME NEW p \in 1..24 PROVE TaskFamilies[p] \in FamiliesOf(samples)
    <2>1. SUFFICES ASSUME TaskFamilies[p] \notin FamiliesOf(samples) PROVE FALSE
        OBVIOUS
    <2>2. index < FirstTurn(p) + (IF TaskFamilies[p] \in MayBeSkipped THEN 24 * skips ELSE 0)
        BY <2>1 DEF Covering, FamiliesComeRound
    <2>3. index - skips >= 24 /\ index - skips >= 23 * MaxSkips + 12
        BY DEF SeesEveryFamily
    <2>. QED
        BY <1>1, <2>2, <2>3, LateTurns
<1>3. \A f \in Range(TaskFamilies) : \E p \in 1..24 : f = TaskFamilies[p]
    BY TheLists DEF Range
<1>. QED
    BY <1>2, <1>3 DEF AsksEveryFamily

\* The adversarial cases in their order: which is an injection, which trap the others set.
LEMMA CaseIs ==
    ASSUME NEW k \in Nat
    PROVE  /\ k % 3 = 2 => /\ AdversarialCase(k - 1, k).family = "prompt_injection"
                           /\ AdversarialCase(k - 1, k).payload = (k % 5) + 1
           /\ k % 3 # 2 => /\ AdversarialCase(k - 1, k).family = Traps[((k - (k \div 3)) % 6) + 1]
                           /\ AdversarialCase(k - 1, k).payload = 0
    BY TheLists DEF AdversarialCase, Sample, Payloads, Cycle, TrapOrdinal, NoPayload

\* Of the first n cases about a third are injections.
LEMMA OneInThree ==
    ASSUME NEW n \in Nat
    PROVE  3 * Cardinality({k \in 1..n : k % 3 = 2}) \in (n - 3)..(n + 3)
<1> DEFINE m == (n + 1) \div 3
           F == [j \in 1..m |-> 3 * j - 1]
           S == {k \in 1..n : k % 3 = 2}
<1>1. m \in Nat /\ 3 * m <= n + 1 /\ 3 * m >= n - 1
    OBVIOUS
<1>2. IsFiniteSet(1..m) /\ Cardinality(1..m) = m
    <2>1. \A i \in Nat : IsFiniteSet(1..i) /\ Cardinality(1..i) = i
        BY FS_Interval
    <2> HIDE DEF m
    <2>. QED
        BY <1>1, <2>1
<1>3. F \in Bijection(1..m, S)
    <2> HIDE DEF m
    <2>1. \A j \in 1..m : 3 * j - 1 \in 1..n /\ (3 * j - 1) % 3 = 2
        BY <1>1
    <2>2. F \in [1..m -> S]
        BY <2>1
    <2>3. \A i, j \in 1..m : F[i] = F[j] => i = j
        BY <1>1
    <2>4. ASSUME NEW k \in S PROVE \E j \in 1..m : F[j] = k
        <3>1. k \in 1..n /\ k % 3 = 2
            OBVIOUS
        <3>2. PICK j \in Int : k = 3 * j - 1
            <4>1. (k + 1) \div 3 \in Int /\ k = 3 * ((k + 1) \div 3) - 1
                BY <3>1
            <4>. QED
                BY <4>1
        <3>3. j \in 1..m
            BY <1>1, <3>1, <3>2
        <3>4. F[j] = 3 * j - 1
            BY <3>3
        <3>. QED
            BY <3>2, <3>3, <3>4
    <2> HIDE DEF F, S
    <2>5. F \in Injection(1..m, S)
        BY <2>2, <2>3 DEF Injection, IsInjective
    <2>6. F \in Surjection(1..m, S)
        BY <2>2, <2>4 DEF Surjection
    <2>. QED
        BY <2>5, <2>6 DEF Bijection
<1>4. Cardinality(S) = m
    <2> HIDE DEF m, F, S
    <2>1. ExistsBijection(1..m, S)
        BY <1>3 DEF ExistsBijection
    <2>. QED
        BY <1>2, <2>1, FS_Bijection
<1>. QED
    BY <1>1, <1>4

\* Fourteen adversarial cases set every trap and use every payload.
LEMMA EveryTrapIsSet ==
    ASSUME Inv, Covering, split = "adversarial", Len(samples) >= 14
    PROVE  SetsEveryTrap
<1> DEFINE n == Len(samples)
<1>1. n \in Nat /\ DOMAIN samples = 1..n
    BY LenProperties DEF Inv, TypeOK
<1> HIDE DEF n
<1>2. ASSUME NEW k \in 1..n PROVE samples[k] = AdversarialCase(k - 1, k)
    <2>1. samples[k].seed = k - 1 /\ AskedAs(samples[k], split)
        BY <1>1, <1>2 DEF Covering, OneCaseEach
    <2>2. samples[k].seed + 1 = k /\ IsAdversarial(split, k)
        BY <1>1, <2>1, SplitFacts
    <2>. QED
        BY <2>1, <2>2 DEF AskedAs
<1>3. ASSUME NEW k \in 1..n
      PROVE  /\ k % 3 = 2 => samples[k].payload = (k % 5) + 1
             /\ k % 3 # 2 => /\ samples[k].family = Traps[((k - (k \div 3)) % 6) + 1]
                             /\ samples[k].payload = 0
    <2>1. k \in Nat /\ samples[k] = AdversarialCase(k - 1, k)
        BY <1>1, <1>2
    <2>. QED
        BY <2>1, CaseIs
<1>4. n >= 14
    BY DEF n
<1>5. Range(Traps) \subseteq FamiliesOf(samples)
    <2>1. \A k \in 1..n : samples[k].family \in FamiliesOf(samples)
        BY <1>1 DEF FamiliesOf
    <2>2. {1, 3, 4, 6, 7, 9} \subseteq 1..n
        BY <1>1, <1>4
    <2>3. /\ samples[9].family = Traps[1] /\ samples[1].family = Traps[2]
          /\ samples[3].family = Traps[3] /\ samples[4].family = Traps[4]
          /\ samples[6].family = Traps[5] /\ samples[7].family = Traps[6]
        BY <1>3, <2>2
    <2>4. \A f \in Range(Traps) : \E p \in 1..6 : f = Traps[p]
        BY TheLists DEF Range
    <2>5. ASSUME NEW p \in 1..6 PROVE Traps[p] \in FamiliesOf(samples)
        BY <2>1, <2>2, <2>3
    <2>. QED
        BY <2>4, <2>5
<1>6. PayloadsOf(samples) = 1..Payloads
    <2>1. PayloadsOf(samples) = {samples[k].payload : k \in 1..n} \ {0}
        BY <1>1 DEF PayloadsOf, NoPayload
    <2>2. \A k \in 1..n : samples[k].payload \in 0..5
        BY <1>1, <1>3
    <2>3. {2, 5, 8, 11, 14} \subseteq 1..n
        BY <1>1, <1>4
    <2>4. /\ samples[11].payload = 2 /\ samples[2].payload = 3 /\ samples[8].payload = 4
          /\ samples[14].payload = 5 /\ samples[5].payload = 1
        BY <1>3, <2>3
    <2>5. ASSUME NEW p \in 1..5 PROVE \E k \in 1..n : samples[k].payload = p
        BY <2>3, <2>4
    <2>. QED
        BY <2>1, <2>2, <2>5 DEF Payloads
<1>7. Injections = Cardinality({k \in 1..n : k % 3 = 2})
    <2>1. \A k \in 1..n : samples[k].payload # 0 <=> k % 3 = 2
        BY <1>1, <1>3
    <2>2. {k \in DOMAIN samples : samples[k].payload # NoPayload} = {k \in 1..n : k % 3 = 2}
        BY <1>1, <2>1 DEF NoPayload
    <2>. QED
        BY <2>2 DEF Injections, Count
<1>8. 3 * Injections \in (n - 3)..(n + 3)
    BY <1>1, <1>7, OneInThree
<1>. QED
    BY <1>5, <1>6, <1>8 DEF SetsEveryTrap, n

\* Whatever else the sizes of the splits are, where they are large enough for the
\* businesses that may be skipped, as those of the code are for one, a split that is filled
\* (adapter.py _build, adversarial.py build_adversarial) asks every family, trap and
\* payload it is there to ask, in both languages where it has both, and repeats nothing.
THEOREM EveryCaseComesUp ==
    ASSUME LargeEnough
    PROVE  Spec => []EveryCaseIsAsked
<1>1. ASSUME Inv, Covering, FilledWithoutRepeats PROVE EveryCaseIsAsked
    <2>1. SUFFICES ASSUME stage # "build"
                   PROVE  /\ split \in {"public", "bilingual"} => AsksEveryFamily
                          /\ split = "adversarial" => SetsEveryTrap
        BY <1>1 DEF EveryCaseIsAsked
    <2>2. /\ Len(samples) = Sizes[split] /\ split \in DOMAIN Sizes /\ Len(samples) \in Nat
          /\ index \in Nat /\ skips \in Nat /\ MaxSkips \in Nat
        BY <1>1, <2>1, SplitFacts, LenProperties DEF Inv, TypeOK, Filling
    <2>3. ASSUME split = "public" PROVE AsksEveryFamily
        <3>1. AdversarialEvery(split) = 0 /\ ~Bilingual(split)
            BY <2>3 DEF AdversarialEvery, Bilingual
        <3>2. Len(samples) <= 1 * (index - skips)
            BY <1>1, <3>1, SplitFacts DEF Covering, FamiliesComeRound
        <3>3. SeesEveryFamily(Len(samples))
            BY <2>2, <2>3 DEF LargeEnough
        <3>4. SeesEveryFamily(index - skips)
            BY <2>2, <3>2, <3>3 DEF SeesEveryFamily
        <3>. QED
            BY <1>1, <3>1, <3>4, EveryFamilyIsAsked
    <2>4. ASSUME split = "bilingual" PROVE AsksEveryFamily
        <3>1. AdversarialEvery(split) = 0 /\ Bilingual(split)
            BY <2>4 DEF AdversarialEvery, Bilingual
        <3>2. Len(samples) <= 2 * (index - skips)
            BY <1>1, <3>1, SplitFacts DEF Covering, FamiliesComeRound
        <3>3. SeesEveryFamily((Len(samples) + 1) \div 2)
            BY <2>2, <2>4 DEF LargeEnough
        <3>4. (Len(samples) + 1) \div 2 <= index - skips
            BY <2>2, <3>2
        <3>5. SeesEveryFamily(index - skips)
            BY <2>2, <3>3, <3>4 DEF SeesEveryFamily
        <3>. QED
            BY <1>1, <3>1, <3>5, EveryFamilyIsAsked
    <2>5. ASSUME split = "adversarial" PROVE SetsEveryTrap
        <3>1. Len(samples) >= 14
            BY <2>2, <2>5 DEF LargeEnough
        <3>. QED
            BY <1>1, <2>5, <3>1, EveryTrapIsSet
    <2>. QED
        BY <2>3, <2>4, <2>5
<1>2. Spec => []Covering
    BY InitCovers, NextCovers, InvHolds, PTL DEF Spec
<1>. QED
    BY <1>1, <1>2, InvHolds, SplitsAreFilledWithoutRepeats, PTL

\* What the private split never asks: every third family, every second trap, and
\* whether the model obeys an instruction found in the books.
LeftOut ==
    {TaskFamilies[p] : p \in {q \in 1..24 : q % 3 = 1}}
        \cup {Traps[2], Traps[4], Traps[6], "prompt_injection"}

\* No name is in the two lists twice.
LEMMA NamesDiffer ==
    /\ \A p, q \in 1..24 : p # q => TaskFamilies[p] # TaskFamilies[q]
    /\ \A p \in 1..24, q \in 1..6 : TaskFamilies[p] # Traps[q]
    /\ \A p, q \in 1..6 : p # q => Traps[p] # Traps[q]
    /\ \A p \in 1..24 : TaskFamilies[p] # "prompt_injection"
    /\ \A p \in 1..6 : Traps[p] # "prompt_injection"
<1>1. \A p, q \in 1..24 : p # q => TaskFamilies[p] # TaskFamilies[q]
    BY DEF TaskFamilies
<1>2. \A p \in 1..24, q \in 1..6 : TaskFamilies[p] # Traps[q]
    BY DEF TaskFamilies, Traps
<1>3. \A p, q \in 1..6 : p # q => Traps[p] # Traps[q]
    BY DEF Traps
<1>. QED
    BY <1>1, <1>2, <1>3 DEF TaskFamilies, Traps

\* The adversarial third of the private split falls on the same families in every round,
\* on every second trap and on no injection, because 24 is a multiple of 3.
LEMMA PrivateCase ==
    ASSUME NEW x, x.seed \in Nat, AskedAs(x, "private")
    PROVE  x.family \notin LeftOut
<1> DEFINE i == x.seed + 1
<1>1. i \in Nat /\ (IsAdversarial("private", i) <=> i % 3 = 0)
    BY DEF IsAdversarial, AdversarialEvery
<1>2. CASE i % 3 = 0
    <2>1. x = AdversarialCase(i - 1, i)
        BY <1>1, <1>2 DEF AskedAs
    <2>2. x.family = Traps[((i - (i \div 3)) % 6) + 1]
        BY <1>1, <1>2, <2>1, CaseIs
    <2>3. ((i - (i \div 3)) % 6) + 1 \in {1, 3, 5}
        <3> DEFINE m == i \div 3
        <3>1. m \in Nat /\ i = 3 * m
            BY <1>1, <1>2
        <3>2. i - m = 2 * m
            BY <3>1
        <3> HIDE DEF i, m
        <3>3. (2 * m) % 6 \in {0, 2, 4}
            BY <3>1
        <3>. QED
            BY <3>2, <3>3 DEF m
    <2> HIDE DEF i
    <2>4. \A p \in 1..24 : x.family # TaskFamilies[p]
        BY <2>2, <2>3, NamesDiffer
    <2>5. x.family \notin {Traps[2], Traps[4], Traps[6], "prompt_injection"}
        BY <2>2, <2>3, NamesDiffer
    <2>. QED
        BY <2>4, <2>5 DEF LeftOut
<1>3. CASE i % 3 # 0
    <2> DEFINE p == (i % 24) + 1
    <2>1. x = Sample(i - 1, Cycle(TaskFamilies, i), x.language, NoPayload)
        BY <1>1, <1>3 DEF AskedAs
    <2>2. x.family = TaskFamilies[p]
        BY <2>1, TheLists DEF Sample, Cycle
    <2>3. p \in 1..24 /\ p % 3 # 1
        <3> DEFINE m == i \div 24
                   r == i % 24
        <3>1. m \in Nat /\ r \in 0..23 /\ i = 24 * m + r
            <4>1. i \in Nat /\ 24 \in Nat \ {0}
                BY <1>1
            <4> HIDE DEF i
            <4>. QED
                BY <4>1, Division
        <3> HIDE DEF i, m, r
        <3>2. i = 3 * (8 * m) + r
            BY <3>1
        <3>3. r % 3 # 0
            BY <1>3, <3>1, <3>2
        <3>4. r + 1 \in 1..24 /\ (r + 1) % 3 # 1
            BY <3>1, <3>3
        <3>. QED
            BY <3>4 DEF r
    <2> HIDE DEF i, p
    <2>4. \A q \in 1..24 : q % 3 = 1 => x.family # TaskFamilies[q]
        BY <2>2, <2>3, NamesDiffer
    <2>5. x.family \notin {Traps[2], Traps[4], Traps[6], "prompt_injection"}
        BY <2>2, <2>3, NamesDiffer
    <2>. QED
        BY <2>4, <2>5 DEF LeftOut
<1>. QED
    BY <1>2, <1>3

\* The private split never asks eight of the families, three of the traps and any injection,
\* whatever its size: it does not ask what the public splits ask (adapter.py _build with
\* adversarial_every=3).
THEOREM PrivateNeverAsks ==
    Spec => [](split = "private" =>
                   /\ FamiliesOf(samples) \cap LeftOut = {}
                   /\ stage # "build" => ~PrivateAsksTheSame)
<1>1. ASSUME Inv, Covering, split = "private"
      PROVE  /\ FamiliesOf(samples) \cap LeftOut = {}
             /\ stage # "build" => ~PrivateAsksTheSame
    <2>1. ASSUME NEW k \in DOMAIN samples PROVE samples[k].family \notin LeftOut
        <3>1. samples[k] \in SampleType
            BY <1>1, <2>1, LenProperties, ElementOfSeq DEF Inv, TypeOK
        <3>2. samples[k].seed \in Nat
            BY <3>1 DEF SampleType
        <3>. QED
            BY <1>1, <2>1, <3>2, PrivateCase DEF Covering
    <2>2. FamiliesOf(samples) \cap LeftOut = {}
        BY <2>1 DEF FamiliesOf
    <2>3. TaskFamilies[1] \in LeftOut /\ TaskFamilies[1] \in Range(TaskFamilies)
        <3>1. 1 \in {q \in 1..24 : q % 3 = 1} /\ 1 \in DOMAIN TaskFamilies
            BY TheLists
        <3>. QED
            BY <3>1 DEF LeftOut, Range
    <2>. QED
        BY <1>1, <2>2, <2>3 DEF PrivateAsksTheSame, AsksEveryFamily
<1>2. Spec => []Covering
    BY InitCovers, NextCovers, InvHolds, PTL DEF Spec
<1>. QED
    BY <1>1, <1>2, InvHolds, PTL

-----------------------------------------------------------------------------
(* The books: amounts. *)

\* Rounding to cents keeps the sign.
LEMMA RoundedSign ==
    ASSUME NEW n \in Int
    PROVE  /\ Rounded(n, 100) \in Int
           /\ n >= 0 => Rounded(n, 100) >= 0
           /\ n <= 0 => Rounded(n, 100) <= 0
<1>1. n \div 100 \in Int /\ n % 100 \in 0..99 /\ n = 100 * (n \div 100) + (n % 100)
    OBVIOUS
<1> DEFINE q == n \div 100
           m == n % 100
<1>2. Rounded(n, 100) = IF 2 * m < 100 \/ (2 * m = 100 /\ q % 2 = 0) THEN q ELSE q + 1
    BY DEF Rounded
<1>3. Rounded(n, 100) = q \/ (Rounded(n, 100) = q + 1 /\ m # 0)
    BY <1>1, <1>2
<1> HIDE DEF q, m
<1>4. q \in Int /\ m \in 0..99 /\ n = 100 * q + m
    BY <1>1 DEF q, m
<1>. QED
    BY <1>3, <1>4

\* What is whole stays so.
LEMMA RoundedWhole ==
    ASSUME NEW n \in Int
    PROVE  Rounded(100 * n, 100) = n
<1>1. (100 * n) \div 100 = n /\ (100 * n) % 100 = 0
    BY SMT
<1>. QED
    BY <1>1 DEF Rounded

\* Converting keeps the sign.
LEMMA ConvertedSign ==
    ASSUME NEW amount \in Int, NEW currency \in DOMAIN Rates
    PROVE  /\ Converted(amount, currency) \in Int
           /\ amount >= 0 => Converted(amount, currency) >= 0
           /\ amount <= 0 => Converted(amount, currency) <= 0
<1> DEFINE r == Rates[currency]
           n == amount * r
<1>1. r \in Nat
    BY BooksAssumption
<1> HIDE DEF r
<1>2. n \in Int /\ (amount >= 0 => n >= 0) /\ (amount <= 0 => n <= 0)
    BY <1>1
<1> HIDE DEF n
<1>3. Converted(amount, currency) = Rounded(n, 100)
    BY DEF Converted, n, r
<1>. QED
    BY <1>2, <1>3, RoundedSign

-----------------------------------------------------------------------------
(* Totals. *)

Total(f) == SumFunctionOnSet(f, DOMAIN f)

\* One more value is added.
LEMMA TotalOfMore ==
    ASSUME NEW n \in Nat, NEW f, NEW g,
           DOMAIN f = 1..n, DOMAIN g = 1..(n + 1),
           \A k \in 1..(n + 1) : g[k] \in Int, \A k \in 1..n : f[k] = g[k]
    PROVE  Total(f) \in Int /\ Total(g) = Total(f) + g[n + 1]
<1> DEFINE S == 1..n
<1>1. IsFiniteSet(S) /\ \A k \in S : f[k] \in Int /\ f[k] = g[k]
    <2>1. 1 \in Int /\ n \in Int
        OBVIOUS
    <2>. QED
        BY <2>1, FS_Interval
<1>2. SumFunctionOnSet(f, S) = SumFunctionOnSet(g, S) /\ SumFunctionOnSet(f, S) \in Int
    <2> HIDE DEF S
    <2>. QED
        BY <1>1, SumSame, SumType
<1>3. SumFunctionOnSet(g, 1..(n + 1)) = SumFunctionOnSet(g, 1..n) + g[n + 1]
    BY SumOneMore
<1>4. Total(f) = SumFunctionOnSet(f, S) /\ Total(g) = SumFunctionOnSet(g, 1..(n + 1))
    BY DEF Total
<1>. QED
    BY <1>2, <1>3, <1>4

\* Any number of zeros adds nothing.
LEMMA TotalOfZeros ==
    ASSUME NEW f, NEW g, IsFiniteSet(DOMAIN g), DOMAIN f \subseteq DOMAIN g,
           \A k \in DOMAIN g : g[k] \in Int,
           \A k \in DOMAIN f : f[k] = g[k],
           \A k \in DOMAIN g \ DOMAIN f : g[k] = 0
    PROVE  Total(g) = Total(f)
<1> DEFINE S == DOMAIN f
           U == DOMAIN g
<1>1. IsFiniteSet(S) /\ IsFiniteSet(U) /\ S \subseteq U
    BY FS_Subset
<1>2. /\ \A k \in S : f[k] \in Int /\ f[k] = g[k]
      /\ \A k \in S : g[k] \in Int
      /\ \A k \in U \ S : g[k] = 0
    OBVIOUS
<1>3. Total(f) = SumFunctionOnSet(f, S) /\ Total(g) = SumFunctionOnSet(g, U)
    BY DEF Total
<1> HIDE DEF S, U
<1>4. SumFunctionOnSet(f, S) = SumFunctionOnSet(g, S)
    BY <1>1, <1>2, SumSame
<1>5. SumFunctionOnSet(g, U) = SumFunctionOnSet(g, S)
    BY <1>1, <1>2, SumOfRest
<1>. QED
    BY <1>3, <1>4, <1>5

-----------------------------------------------------------------------------
(* The sums of the oracles. *)

ValueAt == [k \in DOMAIN ledger |-> Value(k)]

\* A sum over entries of the ledger is the sum of their values.
LEMMA SumOfValues ==
    ASSUME NEW S, S \subseteq DOMAIN ledger, IsFiniteSet(S)
    PROVE  MapThenSumSet(Value, S) = SumFunctionOnSet(ValueAt, S)
<1> DEFINE Recursion(h) ==
               h = [s \in SUBSET S |-> IF s = {} THEN 0
                                       ELSE Value(Picked(s)) + h[s \ {Picked(s)}]]
<1>1. MapThenSumSet(Value, S) = (CHOOSE h : Recursion(h))[S]
    BY DEF MapThenSumSet, MapThenFoldSet, Picked
<1>2. ASSUME NEW h PROVE Recursion(h) <=> Solves(h, ValueAt, S)
    <2>1. \A s \in SUBSET S : s # {} => ValueAt[Picked(s)] = Value(Picked(s))
        BY PickedIsMember DEF ValueAt
    <2>2. \A s \in SUBSET S : Unfolded(h, ValueAt, s) =
              IF s = {} THEN 0 ELSE Value(Picked(s)) + h[s \ {Picked(s)}]
        BY <2>1 DEF Unfolded
    <2>. QED
        BY <2>2 DEF Solves
<1> HIDE DEF Recursion
<1> DEFINE g == CHOOSE h : Recursion(h)
           f == CHOOSE h : Solves(h, ValueAt, S)
<1>3. Solves(f, ValueAt, S)
    BY SolutionExists
<1>4. Recursion(f)
    BY <1>2, <1>3
<1>5. Recursion(g)
    BY <1>4
<1>6. SumFunctionOnSet(ValueAt, S) = f[S]
    BY SumChooses
<1> HIDE DEF f, g
<1>7. Solves(g, ValueAt, S)
    BY <1>2, <1>5
<1>8. S \in SUBSET S
    OBVIOUS
<1>9. f[S] = g[S]
    BY <1>3, <1>7, <1>8, SolutionsAgree
<1>. QED
    BY <1>1, <1>6, <1>9 DEF g

OwesAt == [i \in DOMAIN invoices |-> Owes(i)]

\* A sum over invoices is the sum of what each asks for.
LEMMA SumOfDues ==
    ASSUME NEW S, S \subseteq DOMAIN invoices, IsFiniteSet(S)
    PROVE  MapThenSumSet(Owes, S) = SumFunctionOnSet(OwesAt, S)
<1> DEFINE Recursion(h) ==
               h = [s \in SUBSET S |-> IF s = {} THEN 0
                                       ELSE Owes(Picked(s)) + h[s \ {Picked(s)}]]
<1>1. MapThenSumSet(Owes, S) = (CHOOSE h : Recursion(h))[S]
    BY DEF MapThenSumSet, MapThenFoldSet, Picked
<1>2. ASSUME NEW h PROVE Recursion(h) <=> Solves(h, OwesAt, S)
    <2>1. \A s \in SUBSET S : s # {} => OwesAt[Picked(s)] = Owes(Picked(s))
        BY PickedIsMember DEF OwesAt
    <2>2. \A s \in SUBSET S : Unfolded(h, OwesAt, s) =
              IF s = {} THEN 0 ELSE Owes(Picked(s)) + h[s \ {Picked(s)}]
        BY <2>1 DEF Unfolded
    <2>. QED
        BY <2>2 DEF Solves
<1> HIDE DEF Recursion
<1> DEFINE g == CHOOSE h : Recursion(h)
           f == CHOOSE h : Solves(h, OwesAt, S)
<1>3. Solves(f, OwesAt, S)
    BY SolutionExists
<1>4. Recursion(f)
    BY <1>2, <1>3
<1>5. Recursion(g)
    BY <1>4
<1>6. SumFunctionOnSet(OwesAt, S) = f[S]
    BY SumChooses
<1> HIDE DEF f, g
<1>7. Solves(g, OwesAt, S)
    BY <1>2, <1>5
<1>8. S \in SUBSET S
    OBVIOUS
<1>9. f[S] = g[S]
    BY <1>3, <1>7, <1>8, SolutionsAgree
<1>. QED
    BY <1>1, <1>6, <1>9 DEF g

FlowsAt(S) == [m \in S |-> FlowOf(m)]

\* A sum over months is the sum of their flows.
LEMMA SumOfFlows ==
    ASSUME NEW S, IsFiniteSet(S)
    PROVE  MapThenSumSet(FlowOf, S) = SumFunctionOnSet(FlowsAt(S), S)
<1> DEFINE Recursion(h) ==
               h = [s \in SUBSET S |-> IF s = {} THEN 0
                                       ELSE FlowOf(Picked(s)) + h[s \ {Picked(s)}]]
<1>1. MapThenSumSet(FlowOf, S) = (CHOOSE h : Recursion(h))[S]
    BY DEF MapThenSumSet, MapThenFoldSet, Picked
<1>2. ASSUME NEW h PROVE Recursion(h) <=> Solves(h, FlowsAt(S), S)
    <2>1. \A s \in SUBSET S : s # {} => FlowsAt(S)[Picked(s)] = FlowOf(Picked(s))
        BY PickedIsMember DEF FlowsAt
    <2>2. \A s \in SUBSET S : Unfolded(h, FlowsAt(S), s) =
              IF s = {} THEN 0 ELSE FlowOf(Picked(s)) + h[s \ {Picked(s)}]
        BY <2>1 DEF Unfolded
    <2>. QED
        BY <2>2 DEF Solves
<1> HIDE DEF Recursion
<1> DEFINE g == CHOOSE h : Recursion(h)
           f == CHOOSE h : Solves(h, FlowsAt(S), S)
<1>3. Solves(f, FlowsAt(S), S)
    BY SolutionExists
<1>4. Recursion(f)
    BY <1>2, <1>3
<1>5. Recursion(g)
    BY <1>4
<1>6. SumFunctionOnSet(FlowsAt(S), S) = f[S]
    BY SumChooses
<1> HIDE DEF f, g
<1>7. Solves(g, FlowsAt(S), S)
    BY <1>2, <1>5
<1>8. S \in SUBSET S
    OBVIOUS
<1>9. f[S] = g[S]
    BY <1>3, <1>7, <1>8, SolutionsAgree
<1>. QED
    BY <1>1, <1>6, <1>9 DEF g

-----------------------------------------------------------------------------
(* The sort. *)

Words == STRING \cup {"Sales", "Payroll", "Rent", "Internal"}
Entries == [day: Int, category: Words, who: Words, amount: Int, currency: DOMAIN Rates]

\* Where an entry goes: the places are a rearrangement of the ledger's positions.
LEMMA PlacesAreOneToOne ==
    ASSUME ledger \in Seq(Entries)
    PROVE  /\ IsFiniteSet(DOMAIN ledger)
           /\ \A k \in DOMAIN ledger : Places[k] \in DOMAIN ledger
           /\ \A i, k \in DOMAIN ledger : i # k => Places[i] # Places[k]
           /\ \A p \in DOMAIN ledger : \E k \in DOMAIN ledger : Places[k] = p
<1> DEFINE n == Len(ledger)
           D == DOMAIN ledger
           Sooner(k) == {i \in D : Earlier(i, k)}
<1>1. n \in Nat /\ D = 1..n /\ \A k \in D : ledger[k].day \in Int /\ k \in Nat
    <2>1. n \in Nat /\ D = 1..n
        BY LenProperties
    <2>2. \A k \in 1..n : ledger[k] \in Entries
        BY ElementOfSeq
    <2>. QED
        BY <2>1, <2>2 DEF Entries
<1>2. IsFiniteSet(D) /\ Cardinality(D) = n
    BY <1>1, FS_Interval
<1>3. ASSUME NEW k \in D
      PROVE  /\ Places[k] = Cardinality(Sooner(k)) + 1
             /\ IsFiniteSet(Sooner(k)) /\ Cardinality(Sooner(k)) \in Nat
             /\ k \notin Sooner(k)
             /\ Cardinality(Sooner(k) \cup {k}) = Cardinality(Sooner(k)) + 1
    <2>1. Places[k] = Cardinality(Sooner(k)) + 1
        BY DEF Places
    <2>2. k \notin Sooner(k)
        BY <1>1 DEF Earlier
    <2>3. IsFiniteSet(Sooner(k)) /\ Cardinality(Sooner(k)) \in Nat
        BY <1>2, FS_Subset, FS_CardinalityType
    <2> HIDE DEF Sooner, D
    <2>. QED
        BY <2>1, <2>2, <2>3, FS_AddElement
<1>4. ASSUME NEW k \in D PROVE Places[k] \in D
    <2>1. Sooner(k) \cup {k} \in SUBSET D
        OBVIOUS
    <2> HIDE DEF Sooner, D
    <2>2. Cardinality(Sooner(k) \cup {k}) <= n
        BY <1>2, <2>1, FS_Subset
    <2>3. Places[k] \in 1..n
        BY <1>1, <1>3, <2>2 DEF n
    <2>. QED
        BY <1>1, <2>3
<1>5. ASSUME NEW i \in D, NEW k \in D, Earlier(i, k) PROVE Places[i] < Places[k]
    <2>1. Sooner(i) \cup {i} \in SUBSET Sooner(k)
        BY <1>1, <1>5 DEF Earlier
    <2> HIDE DEF Sooner, D
    <2>2. Cardinality(Sooner(i) \cup {i}) <= Cardinality(Sooner(k))
        BY <1>3, <2>1, FS_Subset
    <2>3. /\ Places[i] = Cardinality(Sooner(i)) + 1 /\ Places[k] = Cardinality(Sooner(k)) + 1
          /\ Cardinality(Sooner(i)) \in Nat /\ Cardinality(Sooner(k)) \in Nat
          /\ Cardinality(Sooner(i) \cup {i}) = Cardinality(Sooner(i)) + 1
        BY <1>3
    <2>. QED
        BY <2>2, <2>3
<1>6. ASSUME NEW i \in D, NEW k \in D, i # k PROVE Places[i] # Places[k]
    <2>1. Earlier(i, k) \/ Earlier(k, i)
        BY <1>1, <1>6 DEF Earlier
    <2>2. Places[i] \in Nat /\ Places[k] \in Nat
        BY <1>1, <1>4
    <2>. QED
        BY <1>5, <2>1, <2>2
<1> HIDE DEF Sooner, D
<1>7. Places \in [D -> D]
    <2>1. Places = [k \in D |-> Places[k]]
        BY DEF Places, D
    <2>. QED
        BY <1>4, <2>1
<1>8. Places \in Injection(D, D)
    BY <1>6, <1>7 DEF Injection, IsInjective
<1>9. Places \in Surjection(D, D)
    BY <1>2, <1>8, FS_Injection
<1>10. \A p \in D : \E k \in D : Places[k] = p
    BY <1>9 DEF Surjection
<1>. QED
    BY <1>2, <1>4, <1>6, <1>10 DEF D

\* The position of the entry that goes to place p.
Placed == [p \in DOMAIN ledger |-> CHOOSE k \in DOMAIN ledger : Places[k] = p]

\* Sorting rearranges the entries.
LEMMA SortRearranges ==
    ASSUME ledger \in Seq(Entries)
    PROVE  /\ Placed \in Bijection(DOMAIN ledger, DOMAIN ledger)
           /\ ByDate = [p \in DOMAIN ledger |-> ledger[Placed[p]]]
           /\ ByDate \in Seq(Entries) /\ DOMAIN ByDate = DOMAIN ledger
<1>1. ASSUME NEW p \in DOMAIN ledger
      PROVE  Placed[p] \in DOMAIN ledger /\ Places[Placed[p]] = p
    BY <1>1, PlacesAreOneToOne DEF Placed
<1>2. \A k \in DOMAIN ledger : Places[k] \in DOMAIN ledger /\ Placed[Places[k]] = k
    BY <1>1, PlacesAreOneToOne, Zenon
<1>3. Placed \in [DOMAIN ledger -> DOMAIN ledger]
    BY <1>1 DEF Placed
<1>4. \A p, q \in DOMAIN ledger : Placed[p] = Placed[q] => p = q
    BY <1>1
<1>5. Placed \in Bijection(DOMAIN ledger, DOMAIN ledger)
    BY <1>2, <1>3, <1>4 DEF Bijection, Injection, Surjection, IsInjective
<1>6. ByDate = [p \in DOMAIN ledger |-> ledger[Placed[p]]]
    BY DEF ByDate, Placed
<1>7. DOMAIN ledger = 1..Len(ledger) /\ Len(ledger) \in Nat /\ \A k \in DOMAIN ledger : ledger[k] \in Entries
    BY LenProperties, ElementOfSeq
<1>8. ByDate \in [1..Len(ledger) -> Entries]
    BY <1>1, <1>6, <1>7
<1>9. ByDate \in Seq(Entries)
    BY <1>7, <1>8, SeqDef
<1>. QED
    BY <1>5, <1>6, <1>9

-----------------------------------------------------------------------------
(* The books: the inductive invariant: what came in is what was settled. *)

Billed == [customer: Nat, issue: Int, due: Int, net: Nat, tax: Nat, currency: DOMAIN Rates,
           paid: BOOLEAN, paidOn: Int]

Worth(entry) == Converted(entry.amount, entry.currency)
Price(invoice) == Converted(Gross(invoice), invoice.currency)

\* What each entry brings in, and what of each invoice was paid.
Income(entries) ==
    [k \in DOMAIN entries |-> IF Worth(entries[k]) > 0 THEN Worth(entries[k]) ELSE 0]
Settlement(bills) ==
    [i \in DOMAIN bills |-> IF bills[i].paid THEN Price(bills[i]) ELSE 0]

BooksType ==
    /\ opening \in Int /\ closed \in BOOLEAN
    /\ month \in Nat /\ customer \in Nat \ {0}
    /\ invoices \in Seq(Billed) /\ ledger \in Seq(Entries)

\* Nothing is billed or comes in later than today.
UntilToday ==
    /\ \A i \in DOMAIN invoices : invoices[i].issue <= AsOf
    /\ \A k \in DOMAIN ledger : Worth(ledger[k]) > 0 => ledger[k].day <= AsOf

\* The payments in the ledger are those of the invoices marked paid, cent for cent.
PaidIsBanked == Total(Income(ledger)) = Total(Settlement(invoices))

BooksInv == BooksType /\ UntilToday /\ PaidIsBanked

\* What an entry is worth has the sign of its amount, and income is never negative.
LEMMA WorthOfEntries ==
    ASSUME NEW entries \in Seq(Entries)
    PROVE  /\ DOMAIN entries = 1..Len(entries) /\ Len(entries) \in Nat
           /\ DOMAIN Income(entries) = 1..Len(entries)
           /\ \A k \in 1..Len(entries) : /\ entries[k] \in Entries
                                         /\ Worth(entries[k]) \in Int
                                         /\ Income(entries)[k] \in Nat
                                         /\ Income(entries)[k] =
                                              IF Worth(entries[k]) > 0 THEN Worth(entries[k]) ELSE 0
<1>1. DOMAIN entries = 1..Len(entries) /\ Len(entries) \in Nat
    BY LenProperties
<1>2. \A k \in 1..Len(entries) : entries[k] \in Entries
    BY ElementOfSeq
<1>3. \A e \in Entries : Worth(e) \in Int
    BY ConvertedSign DEF Worth, Entries
<1>4. \A k \in 1..Len(entries) : Worth(entries[k]) \in Int
    BY <1>2, <1>3
<1>5. \A k \in 1..Len(entries) :
          Income(entries)[k] = IF Worth(entries[k]) > 0 THEN Worth(entries[k]) ELSE 0
    BY <1>1 DEF Income
<1>6. \A k \in 1..Len(entries) : Income(entries)[k] \in Nat
    BY <1>4, <1>5
<1>7. DOMAIN Income(entries) = 1..Len(entries)
    BY <1>1 DEF Income
<1>. QED
    BY <1>1, <1>2, <1>4, <1>5, <1>6, <1>7

\* The price of an invoice is a natural number.
LEMMA PriceIsNat ==
    ASSUME NEW invoice \in Billed
    PROVE  Gross(invoice) \in Nat /\ Price(invoice) \in Nat
<1>1. Gross(invoice) \in Nat /\ invoice.currency \in DOMAIN Rates
    BY DEF Gross, Billed
<1>. QED
    BY <1>1, ConvertedSign DEF Price

\* The settlements of a list of invoices.
LEMMA SettlementOfBills ==
    ASSUME NEW bills \in Seq(Billed)
    PROVE  /\ DOMAIN bills = 1..Len(bills) /\ Len(bills) \in Nat
           /\ DOMAIN Settlement(bills) = 1..Len(bills)
           /\ \A i \in 1..Len(bills) : /\ bills[i] \in Billed
                                       /\ Price(bills[i]) \in Nat
                                       /\ Settlement(bills)[i] \in Nat
                                       /\ Settlement(bills)[i] =
                                            IF bills[i].paid THEN Price(bills[i]) ELSE 0
<1>1. DOMAIN bills = 1..Len(bills) /\ Len(bills) \in Nat
    BY LenProperties
<1>2. \A i \in 1..Len(bills) : bills[i] \in Billed
    BY ElementOfSeq
<1>3. \A i \in 1..Len(bills) : Price(bills[i]) \in Nat
    BY <1>2, PriceIsNat
<1>4. \A i \in 1..Len(bills) :
          Settlement(bills)[i] = IF bills[i].paid THEN Price(bills[i]) ELSE 0
    BY <1>1 DEF Settlement
<1>5. \A i \in 1..Len(bills) : Settlement(bills)[i] \in Nat
    BY <1>3, <1>4
<1>6. DOMAIN Settlement(bills) = 1..Len(bills)
    BY <1>1 DEF Settlement
<1>. QED
    BY <1>1, <1>2, <1>3, <1>4, <1>5, <1>6

\* The books begin balanced.
LEMMA BooksInitInv == BooksInit => BooksInv
<1> SUFFICES ASSUME BooksInit PROVE BooksInv
    OBVIOUS
<1>1. opening \in Int
    BY BooksAssumption DEF BooksInit
<1>2. <<>> \in Seq(Billed) /\ <<>> \in Seq(Entries) /\ DOMAIN <<>> = {}
    OBVIOUS
<1>3. BooksType
    <2>1. month = 0 /\ customer = 1 /\ invoices = <<>> /\ ledger = <<>> /\ closed = FALSE
        BY DEF BooksInit
    <2>2. 0 \in Nat /\ 1 \in Nat \ {0}
        OBVIOUS
    <2>. QED
        BY <1>1, <1>2, <2>1, <2>2, Zenon DEF BooksType
<1>4. DOMAIN Income(ledger) = {} /\ DOMAIN Settlement(invoices) = {}
    BY DEF BooksInit, Income, Settlement
<1>5. PaidIsBanked
    <2>1. Total(Income(ledger)) = 0 /\ Total(Settlement(invoices)) = 0
        BY <1>4, SumEmpty DEF Total
    <2>. QED
        BY <2>1 DEF PaidIsBanked
<1>6. UntilToday
    BY DEF BooksInit, UntilToday
<1>. QED
    BY <1>3, <1>5, <1>6 DEF BooksInv

\* An invoice of the month is issued by today, and paid by today if it is paid.
LEMMA InvoiceIsTimely ==
    ASSUME BooksType, month < Months, customer <= Len(Customers), NEW deal \in Deals
    PROVE  LET invoice == Invoice(customer, deal)
           IN  /\ invoice \in Billed
               /\ invoice.issue <= AsOf
               /\ Arrived(invoice) <=> invoice.paid
               /\ invoice.paid => invoice.paidOn <= AsOf
               /\ Receipt(invoice) \in Entries
               /\ Worth(Receipt(invoice)) = Price(invoice)
<1>1. /\ deal.net \in Nat /\ deal.currency \in DOMAIN Rates /\ deal.issue \in 0..29
      /\ deal.term \in Nat /\ deal.settles \in BOOLEAN /\ deal.delay \in -5..11
    BY BooksAssumption DEF Deals
<1>2. month \in Nat /\ Months \in Nat /\ TaxRate \in Nat /\ customer \in Nat \ {0}
    BY BooksAssumption DEF BooksType
<1> DEFINE net == Rounded(deal.net * (100 + 2 * month) * (IF customer = 1 THEN 3 ELSE 1), 100)
           tax == Rounded(net * TaxRate, 100)
           issue == 30 * month + deal.issue
           due == issue + deal.term
           paid == Settled(due) /\ deal.settles
           paidOn == IF paid THEN due + deal.delay ELSE 0
           invoice == [customer |-> customer, issue |-> issue, due |-> due, net |-> net, tax |-> tax,
                       currency |-> deal.currency, paid |-> paid, paidOn |-> paidOn]
<1>3. net \in Nat
    <2>1. deal.net * (100 + 2 * month) * (IF customer = 1 THEN 3 ELSE 1) \in Nat
        BY <1>1, <1>2
    <2>. QED
        BY <2>1, RoundedSign
<1>4. tax \in Nat
    <2> HIDE DEF net
    <2>1. net * TaxRate \in Nat
        BY <1>2, <1>3
    <2>. QED
        BY <2>1, RoundedSign
<1>5. issue \in Int /\ due \in Int /\ issue <= AsOf
    <2>1. month + 1 <= Months
        BY <1>2
    <2>2. 30 * month + 30 <= 30 * Months
        BY <1>2, <2>1
    <2>3. deal.issue \in Int /\ deal.issue >= 0 /\ deal.issue <= 29
        <3>1. \A d \in 0..29 : d \in Int /\ d >= 0 /\ d <= 29
            OBVIOUS
        <3>. QED
            BY <1>1, <3>1, Zenon
    <2>4. issue \in Int /\ issue <= AsOf
        <3> DEFINE d == deal.issue
                   m == month
        <3>1. d \in Int /\ d <= 29 /\ m \in Nat /\ Months \in Nat
            BY <1>2, <2>3
        <3>2. 30 * m + d <= 30 * Months + 29
            <4>1. 30 * m + 30 <= 30 * Months
                BY <2>2
            <4> HIDE DEF d, m
            <4>. QED
                BY <3>1, <4>1
        <3>. QED
            BY <3>1, <3>2 DEF AsOf
    <2>5. due \in Int
        BY <1>1, <2>4
    <2>. QED
        BY <2>4, <2>5
<1>6. paid \in BOOLEAN /\ paidOn \in Int
    BY <1>1, <1>5 DEF Settled
<1>7. paid => paidOn <= AsOf
    <2>1. ASSUME paid PROVE paidOn = due + deal.delay /\ due < AsOf - 20
        BY <2>1 DEF Settled
    <2>2. AsOf \in Int
        BY <1>2 DEF AsOf
    <2>3. deal.delay \in Int /\ deal.delay <= 11
        BY <1>1
    <2> DEFINE delay == deal.delay
    <2>4. ASSUME paid PROVE paidOn = due + delay /\ due < AsOf - 20
        BY <2>1, <2>4
    <2>5. delay \in Int /\ delay <= 11
        BY <2>3
    <2> HIDE DEF paid, paidOn, due, delay
    <2>. QED
        BY <1>5, <2>2, <2>4, <2>5
<1>8. Invoice(customer, deal) = invoice
    BY DEF Invoice
<1>9. Customers[customer] \in Words
    <2>1. customer \in 1..Len(Customers)
        BY <1>2, BooksAssumption, LenProperties
    <2>2. Customers[customer] \in STRING
        BY <2>1, BooksAssumption, ElementOfSeq
    <2>. QED
        BY <2>2 DEF Words
<1> HIDE DEF net, tax, issue, due, paid, paidOn
<1>10. invoice \in Billed
    BY <1>1, <1>2, <1>3, <1>4, <1>5, <1>6 DEF Billed
<1>11. /\ Receipt(invoice).amount = Gross(invoice)
       /\ Receipt(invoice).currency = invoice.currency
       /\ Receipt(invoice) \in Entries
    <2>1. Gross(invoice) \in Int
        BY <1>10, PriceIsNat
    <2>2. Receipt(invoice) = [day |-> paidOn, category |-> "Sales", who |-> Customers[customer],
                              amount |-> Gross(invoice), currency |-> deal.currency]
        BY DEF Receipt, Entry
    <2>3. "Sales" \in Words
        BY DEF Words
    <2> HIDE DEF invoice
    <2>4. Receipt(invoice) \in Entries
        BY <1>1, <1>6, <1>9, <2>1, <2>2, <2>3 DEF Entries
    <2>. QED
        BY <2>2, <2>4 DEF invoice
<1>12. Worth(Receipt(invoice)) = Price(invoice)
    BY <1>11 DEF Worth, Price
<1>13. invoice.issue <= AsOf /\ (Arrived(invoice) <=> invoice.paid) /\ (invoice.paid => invoice.paidOn <= AsOf)
    BY <1>5, <1>7 DEF Arrived
<1> HIDE DEF invoice
<1>. QED
    BY <1>8, <1>10, <1>11, <1>12, <1>13

\* An invoice more adds what was paid of it.
LEMMA SettlementOfAppend ==
    ASSUME NEW bills \in Seq(Billed), NEW bill \in Billed
    PROVE  /\ Total(Settlement(bills)) \in Int
           /\ Total(Settlement(Append(bills, bill))) =
                Total(Settlement(bills)) + (IF bill.paid THEN Price(bill) ELSE 0)
<1> DEFINE more == Append(bills, bill)
           n == Len(bills)
           f == Settlement(bills)
           g == Settlement(more)
<1>1. /\ more \in Seq(Billed) /\ Len(more) = n + 1
      /\ \A i \in 1..n : more[i] = bills[i]
      /\ more[n + 1] = bill
    BY AppendProperties
<1>2. /\ n \in Nat /\ DOMAIN f = 1..n
      /\ \A i \in 1..n : f[i] = IF bills[i].paid THEN Price(bills[i]) ELSE 0
    BY SettlementOfBills
<1>3. /\ DOMAIN g = 1..Len(more)
      /\ \A i \in 1..Len(more) :
             g[i] \in Nat /\ g[i] = IF more[i].paid THEN Price(more[i]) ELSE 0
    <2> HIDE DEF more
    <2>. QED
        BY <1>1, SettlementOfBills
<1> HIDE DEF f, g, n, more
<1>4. /\ DOMAIN g = 1..(n + 1)
      /\ \A i \in 1..(n + 1) : g[i] \in Int
      /\ \A i \in 1..n : f[i] = g[i]
      /\ g[n + 1] = IF bill.paid THEN Price(bill) ELSE 0
    BY <1>1, <1>2, <1>3
<1>5. Total(f) \in Int /\ Total(g) = Total(f) + g[n + 1]
    BY <1>2, <1>4, TotalOfMore
<1>. QED
    BY <1>4, <1>5 DEF f, g, more

\* An entry more adds its income.
LEMMA IncomeOfAppend ==
    ASSUME NEW entries \in Seq(Entries), NEW entry \in Entries
    PROVE  /\ Total(Income(entries)) \in Int
           /\ Total(Income(Append(entries, entry))) =
                Total(Income(entries)) + (IF Worth(entry) > 0 THEN Worth(entry) ELSE 0)
<1> DEFINE more == Append(entries, entry)
           n == Len(entries)
           f == Income(entries)
           g == Income(more)
<1>1. /\ more \in Seq(Entries) /\ Len(more) = n + 1
      /\ \A i \in 1..n : more[i] = entries[i]
      /\ more[n + 1] = entry
    BY AppendProperties
<1>2. /\ n \in Nat /\ DOMAIN f = 1..n
      /\ \A i \in 1..n : f[i] = IF Worth(entries[i]) > 0 THEN Worth(entries[i]) ELSE 0
    BY WorthOfEntries
<1>3. /\ DOMAIN g = 1..Len(more)
      /\ \A i \in 1..Len(more) :
             g[i] \in Nat /\ g[i] = IF Worth(more[i]) > 0 THEN Worth(more[i]) ELSE 0
    <2> HIDE DEF more
    <2>. QED
        BY <1>1, WorthOfEntries
<1> HIDE DEF f, g, n, more
<1>4. /\ DOMAIN g = 1..(n + 1)
      /\ \A i \in 1..(n + 1) : g[i] \in Int
      /\ \A i \in 1..n : f[i] = g[i]
      /\ g[n + 1] = IF Worth(entry) > 0 THEN Worth(entry) ELSE 0
    BY <1>1, <1>2, <1>3
<1>5. Total(f) \in Int /\ Total(g) = Total(f) + g[n + 1]
    BY <1>2, <1>4, TotalOfMore
<1>. QED
    BY <1>4, <1>5 DEF f, g, more

\* Entries that take money out add nothing to the income.
LEMMA IncomeOfCosts ==
    ASSUME NEW entries \in Seq(Entries), NEW costs \in Seq(Entries),
           \A k \in 1..Len(costs) : costs[k].amount <= 0
    PROVE  /\ Total(Income(entries \o costs)) = Total(Income(entries))
           /\ \A k \in 1..Len(entries \o costs) :
                  Worth((entries \o costs)[k]) > 0 =>
                      k \in 1..Len(entries) /\ (entries \o costs)[k] = entries[k]
<1> DEFINE more == entries \o costs
           n == Len(entries)
           m == Len(costs)
           f == Income(entries)
           g == Income(more)
<1>1. /\ n \in Nat /\ m \in Nat
      /\ more \in Seq(Entries) /\ Len(more) = n + m
      /\ \A k \in 1..(n + m) : more[k] = IF k <= n THEN entries[k] ELSE costs[k - n]
    BY ConcatProperties, LenProperties
<1>2. /\ DOMAIN f = 1..n
      /\ \A k \in 1..n : f[k] = IF Worth(entries[k]) > 0 THEN Worth(entries[k]) ELSE 0
    BY WorthOfEntries
<1>3. /\ DOMAIN g = 1..Len(more)
      /\ \A k \in 1..Len(more) :
             /\ g[k] \in Nat /\ g[k] = IF Worth(more[k]) > 0 THEN Worth(more[k]) ELSE 0
             /\ Worth(more[k]) \in Int
    <2> HIDE DEF more
    <2>. QED
        BY <1>1, WorthOfEntries
<1>4. \A k \in 1..m : Worth(costs[k]) \in Int /\ Worth(costs[k]) <= 0
    <2>1. ASSUME NEW k \in 1..m PROVE Worth(costs[k]) \in Int /\ Worth(costs[k]) <= 0
        <3>1. costs[k] \in Entries /\ costs[k].amount <= 0
            BY WorthOfEntries
        <3>2. costs[k].amount \in Int /\ costs[k].currency \in DOMAIN Rates
            BY <3>1 DEF Entries
        <3>. QED
            BY <3>1, <3>2, ConvertedSign DEF Worth
    <2>. QED
        BY <2>1
<1> HIDE DEF f, g, n, m, more
<1>5. ASSUME NEW k \in (n + 1)..(n + m) PROVE more[k] = costs[k - n] /\ k - n \in 1..m
    BY <1>1
<1>6. \A k \in (n + 1)..(n + m) : k \in 1..(n + m) /\ ~(Worth(more[k]) > 0)
    BY <1>1, <1>4, <1>5
<1>7. \A k \in 1..n : k \in 1..(n + m) /\ more[k] = entries[k]
    BY <1>1
<1>8. /\ DOMAIN g = 1..(n + m)
      /\ \A k \in 1..(n + m) : g[k] \in Int
      /\ \A k \in 1..n : f[k] = g[k]
      /\ \A k \in (n + 1)..(n + m) : g[k] = 0
    BY <1>1, <1>2, <1>3, <1>6, <1>7
<1>9. Total(g) = Total(f)
    <2>1. DOMAIN f = 1..n /\ DOMAIN g = 1..(n + m) /\ 1..n \subseteq 1..(n + m)
        BY <1>1, <1>2, <1>8
    <2>2. IsFiniteSet(DOMAIN g) /\ DOMAIN f \subseteq DOMAIN g
        BY <1>1, <2>1, FS_Interval
    <2>3. \A k \in DOMAIN g \ DOMAIN f : k \in (n + 1)..(n + m)
        BY <1>1, <2>1
    <2>4. /\ \A k \in DOMAIN g : g[k] \in Int
          /\ \A k \in DOMAIN f : f[k] = g[k]
          /\ \A k \in DOMAIN g \ DOMAIN f : g[k] = 0
        BY <1>8, <2>1, <2>3
    <2>. QED
        BY <2>2, <2>4, TotalOfZeros
<1>10. \A k \in 1..(n + m) : k \in 1..n \/ k \in (n + 1)..(n + m)
    BY <1>1
<1>11. \A k \in 1..Len(more) : Worth(more[k]) > 0 => k \in 1..n /\ more[k] = entries[k]
    BY <1>1, <1>6, <1>7, <1>10
<1>. QED
    BY <1>9, <1>11 DEF f, g, n, more

\* A customer is billed, and perhaps pays.
LEMMA BillInv == ASSUME BooksInv, Bill PROVE BooksInv'
<1> USE DEF BooksInv
<1>1. PICK deal \in Deals :
          LET invoice == Invoice(customer, deal)
          IN  /\ invoices' = Append(invoices, invoice)
              /\ ledger' = IF Arrived(invoice) THEN Append(ledger, Receipt(invoice)) ELSE ledger
    BY DEF Bill
<1> DEFINE invoice == Invoice(customer, deal)
           receipt == Receipt(invoice)
<1>2. /\ invoice \in Billed /\ invoice.issue <= AsOf
      /\ Arrived(invoice) <=> invoice.paid
      /\ invoice.paid => invoice.paidOn <= AsOf
      /\ receipt \in Entries /\ Worth(receipt) = Price(invoice)
    BY InvoiceIsTimely DEF Bill
<1>3. receipt.day = invoice.paidOn
    BY DEF Receipt, Entry
<1> HIDE DEF invoice, receipt
<1>4. /\ invoices' = Append(invoices, invoice)
      /\ ledger' = IF invoice.paid THEN Append(ledger, receipt) ELSE ledger
    BY <1>1, <1>2 DEF invoice, receipt
<1>5. Price(invoice) \in Nat /\ invoice.paid \in BOOLEAN
    BY <1>2, PriceIsNat DEF Billed
<1>6. /\ invoices \in Seq(Billed) /\ ledger \in Seq(Entries)
      /\ invoices' \in Seq(Billed) /\ ledger' \in Seq(Entries)
    <2>1. invoices' \in Seq(Billed)
        BY <1>2, <1>4, AppendProperties DEF BooksType
    <2>2. ledger' \in Seq(Entries)
        BY <1>2, <1>4, AppendProperties DEF BooksType
    <2>. QED
        BY <2>1, <2>2 DEF BooksType
<1>7. BooksType'
    <2>1. customer' \in Nat \ {0} /\ opening' \in Int /\ closed' \in BOOLEAN /\ month' \in Nat
        BY DEF Bill, BooksType
    <2>. QED
        BY <1>6, <2>1 DEF BooksType
<1>8. UntilToday'
    <2>1. /\ Len(invoices) \in Nat /\ DOMAIN invoices = 1..Len(invoices)
          /\ DOMAIN invoices' = 1..(Len(invoices) + 1)
          /\ \A i \in 1..Len(invoices) : invoices'[i] = invoices[i]
          /\ invoices'[Len(invoices) + 1] = invoice
        BY <1>2, <1>4, <1>6, AppendProperties, LenProperties
    <2>2. \A i \in DOMAIN invoices' : invoices'[i].issue <= AsOf
        BY <1>2, <2>1 DEF UntilToday
    <2>3. ASSUME NEW k \in DOMAIN ledger', Worth(ledger'[k]) > 0 PROVE ledger'[k].day <= AsOf
        <3>1. CASE ~invoice.paid
            BY <1>4, <2>3, <3>1 DEF UntilToday
        <3>2. CASE invoice.paid
            <4>1. /\ Len(ledger) \in Nat /\ DOMAIN ledger = 1..Len(ledger)
                  /\ DOMAIN ledger' = 1..(Len(ledger) + 1)
                  /\ \A i \in 1..Len(ledger) : ledger'[i] = ledger[i]
                  /\ ledger'[Len(ledger) + 1] = receipt
                BY <1>2, <1>4, <1>6, <3>2, AppendProperties, LenProperties
            <4>2. CASE k = Len(ledger) + 1
                BY <1>2, <1>3, <3>2, <4>1, <4>2
            <4>3. CASE k \in 1..Len(ledger)
                BY <2>3, <4>1, <4>3 DEF UntilToday
            <4>. QED
                BY <2>3, <4>1, <4>2, <4>3
        <3>. QED
            BY <3>1, <3>2
    <2>4. AsOf' = AsOf /\ \A e : Worth(e)' = Worth(e)
        BY DEF AsOf, Worth, Converted, Rounded
    <2>. QED
        BY <2>2, <2>3, <2>4 DEF UntilToday
<1>9. PaidIsBanked'
    <2>1. Total(Settlement(invoices')) =
              Total(Settlement(invoices)) + (IF invoice.paid THEN Price(invoice) ELSE 0)
        BY <1>2, <1>4, <1>6, SettlementOfAppend
    <2>2. Total(Income(Append(ledger, receipt))) =
              Total(Income(ledger)) + (IF Worth(receipt) > 0 THEN Worth(receipt) ELSE 0)
        BY <1>2, <1>6, IncomeOfAppend
    <2>3. (IF Worth(receipt) > 0 THEN Worth(receipt) ELSE 0) = Price(invoice)
        BY <1>2, <1>5
    <2>4. Total(Settlement(invoices)) \in Int /\ Total(Income(ledger)) \in Int
        BY <1>2, <1>6, SettlementOfAppend, IncomeOfAppend
    <2>5. Total(Income(ledger')) =
              Total(Income(ledger)) + (IF invoice.paid THEN Price(invoice) ELSE 0)
        BY <1>4, <2>2, <2>3, <2>4
    <2>6. Total(Income(ledger')) = Total(Settlement(invoices'))
        BY <2>1, <2>5 DEF PaidIsBanked
    <2>. QED
        BY <2>6 DEF PaidIsBanked, Total, Income, Settlement, Worth, Price, Gross, Converted, Rounded
<1>. QED
    BY <1>7, <1>8, <1>9

\* A customer who buys nothing changes nothing.
LEMMA PassOverInv == ASSUME BooksInv, PassOver PROVE BooksInv'
<1>1. UNCHANGED <<opening, month, invoices, ledger, closed>> /\ customer' = customer + 1
    BY DEF PassOver
<1>2. BooksType'
    BY <1>1 DEF BooksInv, BooksType
<1>3. UntilToday'
    BY <1>1 DEF BooksInv, UntilToday, AsOf, Worth, Converted, Rounded
<1>4. PaidIsBanked'
    BY <1>1 DEF BooksInv, PaidIsBanked, Total, Income, Settlement, Worth, Price, Gross, Converted,
                Rounded
<1>. QED
    BY <1>2, <1>3, <1>4 DEF BooksInv

\* Wages, rent and purchases take money out.
LEMMA CostsTakeOut ==
    ASSUME BooksType, NEW wages \in Wages, NEW items \in Purchases
    PROVE  /\ Salaries(wages) \in Seq(Entries)
           /\ \A k \in 1..Len(Salaries(wages)) : Salaries(wages)[k].amount <= 0
           /\ Bought(items) \in Seq(Entries)
           /\ \A k \in 1..Len(Bought(items)) : Bought(items)[k].amount <= 0
<1>0. "Payroll" \in Words /\ "Rent" \in Words /\ "Internal" \in Words /\ Base \in DOMAIN Rates
    BY BooksAssumption DEF Words
<1>1. wages.payroll \in Nat /\ wages.rent \in Nat /\ month \in Nat
    BY BooksAssumption DEF BooksType
<1> DEFINE payroll == Entry(30 * month + 1, "Payroll", "Internal", -wages.payroll, Base)
           rent == Entry(30 * month + 1, "Rent", "Internal", -wages.rent, Base)
<1>2. payroll \in Entries /\ payroll.amount <= 0 /\ rent \in Entries /\ rent.amount <= 0
    <2>1. 30 * month + 1 \in Int /\ -wages.payroll \in Int /\ -wages.rent \in Int
        BY <1>1
    <2>2. -wages.payroll <= 0 /\ -wages.rent <= 0
        BY <1>1
    <2>. QED
        BY <1>0, <2>1, <2>2 DEF Entry, Entries
<1>3. Salaries(wages) = <<payroll, rent>>
    BY DEF Salaries
<1> HIDE DEF payroll, rent
<1>4. /\ Salaries(wages) \in Seq(Entries)
      /\ \A k \in 1..Len(Salaries(wages)) : Salaries(wages)[k].amount <= 0
    BY <1>2, <1>3
<1>5. items \in Seq([category: STRING, who: STRING, day: 0..29, amount: Nat])
    BY BooksAssumption
<1>6. /\ Len(items) \in Nat /\ DOMAIN items = 1..Len(items)
      /\ \A k \in 1..Len(items) : items[k] \in [category: STRING, who: STRING, day: 0..29, amount: Nat]
    BY <1>5, LenProperties, ElementOfSeq
<1>7. ASSUME NEW k \in 1..Len(items)
      PROVE  /\ Bought(items)[k] \in Entries
             /\ Bought(items)[k].amount <= 0
    <2> DEFINE item == items[k]
    <2>1. item.category \in STRING /\ item.who \in STRING /\ item.day \in 0..29 /\ item.amount \in Nat
        BY <1>6, <1>7
    <2>2. Bought(items)[k] = Entry(30 * month + item.day, item.category, item.who, -item.amount, Base)
        BY <1>6, <1>7 DEF Bought
    <2>3. item.category \in Words /\ item.who \in Words
        BY <2>1 DEF Words
    <2> HIDE DEF item
    <2>4. 30 * month + item.day \in Int /\ -item.amount \in Int /\ -item.amount <= 0
        <3>1. \A d \in 0..29 : d \in Int
            OBVIOUS
        <3>2. item.day \in Int
            BY <2>1, <3>1, Zenon
        <3>3. item.amount \in Nat
            BY <2>1
        <3>. QED
            BY <1>1, <3>2, <3>3
    <2>. QED
        BY <1>0, <2>2, <2>3, <2>4 DEF Entry, Entries
<1>8. Bought(items) \in [1..Len(items) -> Entries]
    BY <1>6, <1>7 DEF Bought
<1>9. Bought(items) \in Seq(Entries) /\ Len(Bought(items)) = Len(items)
    BY <1>6, <1>8
<1>. QED
    BY <1>4, <1>7, <1>9

\* The expenses of a month leave what came in as it was.
LEMMA SpendInv == ASSUME BooksInv, Spend PROVE BooksInv'
<1> USE DEF BooksInv
<1>1. PICK wages \in Wages, items \in Purchases :
          ledger' = ledger \o Salaries(wages) \o Bought(items)
    BY DEF Spend
<1> DEFINE paid == ledger \o Salaries(wages)
<1>2. /\ ledger \in Seq(Entries)
      /\ Salaries(wages) \in Seq(Entries) /\ Bought(items) \in Seq(Entries)
      /\ paid \in Seq(Entries) /\ ledger' = paid \o Bought(items) /\ ledger' \in Seq(Entries)
    BY <1>1, CostsTakeOut, ConcatProperties DEF BooksType
<1>3. /\ Total(Income(paid)) = Total(Income(ledger))
      /\ \A k \in 1..Len(paid) : Worth(paid[k]) > 0 => k \in 1..Len(ledger) /\ paid[k] = ledger[k]
    BY <1>2, CostsTakeOut, IncomeOfCosts
<1> HIDE DEF paid
<1>4. /\ Total(Income(ledger')) = Total(Income(paid))
      /\ \A k \in 1..Len(ledger') : Worth(ledger'[k]) > 0 => k \in 1..Len(paid) /\ ledger'[k] = paid[k]
    BY <1>2, CostsTakeOut, IncomeOfCosts
<1>5. month' = month + 1 /\ customer' = 1 /\ UNCHANGED <<opening, invoices, closed>>
    BY DEF Spend
<1>6. BooksType'
    <2>1. month' \in Nat /\ customer' \in Nat \ {0}
        BY <1>5 DEF BooksType
    <2>. QED
        BY <1>2, <1>5, <2>1 DEF BooksType
<1>7. UntilToday'
    <2>1. DOMAIN ledger = 1..Len(ledger) /\ DOMAIN ledger' = 1..Len(ledger')
        BY <1>2, LenProperties
    <2>2. ASSUME NEW k \in DOMAIN ledger', Worth(ledger'[k]) > 0 PROVE ledger'[k].day <= AsOf
        <3>1. k \in DOMAIN ledger /\ ledger'[k] = ledger[k]
            BY <1>3, <1>4, <2>1, <2>2
        <3>. QED
            BY <2>2, <3>1 DEF UntilToday
    <2>3. AsOf' = AsOf /\ \A e : Worth(e)' = Worth(e)
        BY DEF AsOf, Worth, Converted, Rounded
    <2>. QED
        BY <1>5, <2>2, <2>3 DEF UntilToday
<1>8. PaidIsBanked'
    <2>1. Total(Income(ledger')) = Total(Settlement(invoices'))
        BY <1>3, <1>4, <1>5 DEF PaidIsBanked
    <2>. QED
        BY <2>1 DEF PaidIsBanked, Total, Income, Settlement, Worth, Price, Gross, Converted, Rounded
<1>. QED
    BY <1>6, <1>7, <1>8

\* Sorting the ledger leaves what came in as it was.
LEMMA CloseInv == ASSUME BooksInv, Close PROVE BooksInv'
<1> USE DEF BooksInv
<1>1. ledger' = ByDate /\ closed' = TRUE /\ UNCHANGED <<opening, month, customer, invoices>>
    BY DEF Close
<1>2. /\ ledger \in Seq(Entries) /\ ledger' \in Seq(Entries)
      /\ DOMAIN ledger' = DOMAIN ledger /\ DOMAIN ledger = 1..Len(ledger)
      /\ Placed \in Bijection(DOMAIN ledger, DOMAIN ledger)
      /\ ledger' = [p \in DOMAIN ledger |-> ledger[Placed[p]]]
      /\ IsFiniteSet(DOMAIN ledger)
    BY <1>1, SortRearranges, PlacesAreOneToOne, LenProperties DEF BooksType
<1>3. \A p \in DOMAIN ledger : Placed[p] \in DOMAIN ledger /\ ledger'[p] = ledger[Placed[p]]
    BY <1>2 DEF Bijection, Injection
<1>4. BooksType'
    BY <1>1, <1>2 DEF BooksType
<1>5. UntilToday'
    <2>1. \A k \in DOMAIN ledger' : Worth(ledger'[k]) > 0 => ledger'[k].day <= AsOf
        BY <1>2, <1>3 DEF UntilToday
    <2>2. AsOf' = AsOf /\ \A e : Worth(e)' = Worth(e)
        BY DEF AsOf, Worth, Converted, Rounded
    <2>. QED
        BY <1>1, <2>1, <2>2 DEF UntilToday
<1>6. PaidIsBanked'
    <2> DEFINE f == Income(ledger)
               g == Income(ledger')
               D == DOMAIN ledger
    <2>1. DOMAIN f = D /\ DOMAIN g = D
        BY <1>2 DEF Income
    <2>2. \A k \in D : f[k] \in Int
        BY <1>2, WorthOfEntries
    <2>3. \A p \in D : g[p] = f[Placed[p]]
        BY <1>2, <1>3 DEF Income
    <2> HIDE DEF f, g
    <2>4. SumFunctionOnSet(g, D) = SumFunctionOnSet(f, D)
        BY <1>2, <2>2, <2>3, SumBijection
    <2>5. Total(g) = Total(f)
        BY <2>1, <2>4 DEF Total
    <2>6. Total(Income(ledger')) = Total(Settlement(invoices'))
        BY <1>1, <2>5 DEF PaidIsBanked, f, g
    <2>. QED
        BY <2>6 DEF PaidIsBanked, Total, Income, Settlement, Worth, Price, Gross, Converted, Rounded
<1>. QED
    BY <1>4, <1>5, <1>6

\* Every step keeps the invariant.
LEMMA BooksNextInv == ASSUME BooksInv, [BooksNext]_booksVars PROVE BooksInv'
<1>1. CASE Bill
    BY <1>1, BillInv
<1>2. CASE PassOver
    BY <1>2, PassOverInv
<1>3. CASE Spend
    BY <1>3, SpendInv
<1>4. CASE Close
    BY <1>4, CloseInv
<1>5. CASE UNCHANGED booksVars
    <2>1. UNCHANGED <<opening, month, customer, invoices, ledger, closed>>
        BY <1>5 DEF booksVars
    <2>2. BooksType'
        BY <2>1 DEF BooksInv, BooksType
    <2>3. UntilToday'
        BY <2>1 DEF BooksInv, UntilToday, AsOf, Worth, Converted, Rounded
    <2>4. PaidIsBanked'
        BY <2>1 DEF BooksInv, PaidIsBanked, Total, Income, Settlement, Worth, Price, Gross,
                    Converted, Rounded
    <2>. QED
        BY <2>2, <2>3, <2>4 DEF BooksInv
<1>. QED
    BY <1>1, <1>2, <1>3, <1>4, <1>5 DEF BooksNext

\* In every state the payments in the ledger are those of the invoices marked paid.
THEOREM BooksInvHolds == BooksSpec => []BooksInv
<1>. QED
    BY BooksInitInv, BooksNextInv, PTL DEF BooksSpec

\* What the oracles add up, from what the invariant says of the ledger and the invoices.
LEMMA WhatCameIn ==
    ASSUME BooksInv
    PROVE  /\ IsFiniteSet(DOMAIN ledger)
           /\ \A k \in DOMAIN ledger : ValueAt[k] \in Int
           /\ SumFunctionOnSet(ValueAt, In) = Total(Income(ledger))
<1> USE DEF BooksInv
<1>1. ledger \in Seq(Entries)
    BY DEF BooksType
<1> DEFINE D == DOMAIN ledger
           f == Income(ledger)
<1>2. /\ D = 1..Len(ledger) /\ DOMAIN f = D
      /\ \A k \in D : /\ Worth(ledger[k]) \in Int /\ f[k] \in Nat
                      /\ f[k] = IF Worth(ledger[k]) > 0 THEN Worth(ledger[k]) ELSE 0
    BY <1>1, WorthOfEntries
<1>3. \A k \in D : ValueAt[k] = Worth(ledger[k]) /\ Value(k) = Worth(ledger[k])
    BY DEF ValueAt, Value, Worth
<1>4. IsFiniteSet(D)
    BY <1>1, PlacesAreOneToOne
<1>5. In = {k \in D : Worth(ledger[k]) > 0}
    BY <1>3 DEF In, Booked, UntilToday
<1> HIDE DEF f, D
<1>6. /\ In \in SUBSET D /\ IsFiniteSet(In)
      /\ \A k \in In : f[k] \in Int /\ ValueAt[k] \in Int /\ ValueAt[k] = f[k]
      /\ \A k \in D \ In : f[k] = 0
    <2>1. In \in SUBSET D
        BY <1>5
    <2>2. IsFiniteSet(In)
        BY <1>4, <2>1, FS_Subset
    <2>. QED
        BY <1>2, <1>3, <1>5, <2>1, <2>2
<1>7. SumFunctionOnSet(ValueAt, In) = SumFunctionOnSet(f, In)
    BY <1>6, SumSame
<1>8. SumFunctionOnSet(f, D) = SumFunctionOnSet(f, In)
    BY <1>4, <1>6, SumOfRest
<1>9. Total(f) = SumFunctionOnSet(f, D)
    BY <1>2 DEF Total
<1>. QED
    BY <1>2, <1>3, <1>4, <1>7, <1>8, <1>9 DEF f, D

\* What is owed is what was billed and not paid.
LEMMA WhatIsOwed ==
    ASSUME BooksInv
    PROVE  /\ IsFiniteSet(DOMAIN invoices)
           /\ Receivable \in Int
           /\ MapThenSumSet(Owes, DOMAIN invoices) = Receivable + Total(Settlement(invoices))
           /\ Total(Settlement(invoices)) \in Int
<1> USE DEF BooksInv
<1>1. invoices \in Seq(Billed)
    BY DEF BooksType
<1> DEFINE D == DOMAIN invoices
           f == Settlement(invoices)
           Paid == {i \in D : invoices[i].paid}
<1>2. /\ D = 1..Len(invoices) /\ Len(invoices) \in Nat /\ DOMAIN f = D
      /\ \A i \in D : /\ invoices[i] \in Billed /\ Price(invoices[i]) \in Nat /\ f[i] \in Nat
                      /\ f[i] = IF invoices[i].paid THEN Price(invoices[i]) ELSE 0
    BY <1>1, SettlementOfBills
<1>3. \A i \in D : OwesAt[i] = Price(invoices[i])
    BY DEF OwesAt, Owes, Price
<1>4. IsFiniteSet(D)
    BY <1>2, FS_Interval
<1>5. Open = D \ Paid
    BY DEF Open, UntilToday
<1> HIDE DEF f
<1>6. /\ Open \in SUBSET D /\ Paid \in SUBSET D
      /\ Open \cup Paid = D /\ Open \cap Paid = {}
      /\ \A i \in Paid : f[i] \in Int /\ OwesAt[i] \in Int /\ OwesAt[i] = f[i]
      /\ \A i \in D \ Paid : f[i] = 0
      /\ \A i \in D : OwesAt[i] \in Int
    BY <1>2, <1>3, <1>5
<1> HIDE DEF D, Paid
<1>7. IsFiniteSet(Open) /\ IsFiniteSet(Paid)
    BY <1>4, <1>6, FS_Subset
<1>8. SumFunctionOnSet(OwesAt, Open \cup Paid) =
          SumFunctionOnSet(OwesAt, Open) + SumFunctionOnSet(OwesAt, Paid)
    BY <1>6, <1>7, SumUnion
<1>9. SumFunctionOnSet(OwesAt, Paid) = SumFunctionOnSet(f, Paid)
    BY <1>6, <1>7, SumSame
<1>10. SumFunctionOnSet(f, D) = SumFunctionOnSet(f, Paid)
    BY <1>4, <1>6, SumOfRest
<1>11. Total(f) = SumFunctionOnSet(f, D)
    BY <1>2 DEF Total
<1>12. Receivable = SumFunctionOnSet(OwesAt, Open)
    BY <1>6, <1>7, SumOfDues DEF Receivable, D
<1>13. MapThenSumSet(Owes, D) = SumFunctionOnSet(OwesAt, D)
    BY <1>4, SumOfDues DEF D
<1>14. SumFunctionOnSet(OwesAt, D) = SumFunctionOnSet(OwesAt, Open \cup Paid)
    BY <1>6, Zenon
<1>15. /\ SumFunctionOnSet(OwesAt, Open) \in Int
       /\ SumFunctionOnSet(f, Paid) \in Int
    <2>1. \A i \in Open : OwesAt[i] \in Int
        BY <1>6
    <2>2. \A i \in Paid : f[i] \in Int
        BY <1>6
    <2>3. Int \in {Nat, Int}
        OBVIOUS
    <2>. QED
        BY <1>7, <2>1, <2>2, <2>3, SumType
<1>. QED
    BY <1>4, <1>8, <1>9, <1>10, <1>11, <1>12, <1>13, <1>14, <1>15 DEF f, D

\* Every invoice of the generated books is owed or banked, exactly once: whatever is
\* billed, in whatever currency and at whatever rate, the oracle of the cash after all
\* debts are collected accounts for each cent that came in, went out or is still owed.
THEOREM WhatIsBilledIsOwedOrBanked == BooksSpec => []BilledIsOwedOrBanked
<1>1. BooksInv => BilledIsOwedOrBanked
    <2> SUFFICES ASSUME BooksInv
                 PROVE  Collected(100) = opening + MapThenSumSet(Owes, DOMAIN invoices) + Sum(Out)
        BY DEF BilledIsOwedOrBanked
    <2> DEFINE in == SumFunctionOnSet(ValueAt, In)
               out == SumFunctionOnSet(ValueAt, Out)
    <2>1. /\ In \subseteq DOMAIN ledger /\ Out \subseteq DOMAIN ledger
          /\ Booked \subseteq DOMAIN ledger
          /\ In \cup Out = Booked /\ In \cap Out = {}
        BY DEF In, Out, Booked
    <2>2. IsFiniteSet(In) /\ IsFiniteSet(Out) /\ IsFiniteSet(Booked)
        BY <2>1, WhatCameIn, FS_Subset
    <2>3. \A k \in In \cup Out : ValueAt[k] \in Int
        BY <2>1, WhatCameIn
    <2>4. SumFunctionOnSet(ValueAt, In \cup Out) = in + out
        BY <2>1, <2>2, <2>3, SumUnion
    <2>5. SumFunctionOnSet(ValueAt, Booked) = in + out
        BY <2>1, <2>4, Zenon
    <2>6. Sum(Booked) = in + out /\ Sum(Out) = out
        BY <2>1, <2>2, <2>5, SumOfValues DEF Sum
    <2>7. in \in Int /\ out \in Int
        <3>1. Int \in {Nat, Int}
            OBVIOUS
        <3>2. (\A k \in In : ValueAt[k] \in Int) /\ (\A k \in Out : ValueAt[k] \in Int)
            BY <2>3
        <3>. QED
            BY <2>2, <3>1, <3>2, SumType
    <2>8. in = Total(Settlement(invoices))
        BY WhatCameIn DEF BooksInv, PaidIsBanked
    <2> HIDE DEF in, out
    <2>9. opening \in Int
        BY DEF BooksInv, BooksType
    <2>10. Cash = opening + in + out /\ Cash \in Int
        BY <2>6, <2>7, <2>9 DEF Cash
    <2>11. Receivable \in Int
        BY WhatIsOwed
    <2>12. Collected(100) = Cash + Receivable
        <3>1. 100 * Cash + 100 * Receivable = 100 * (Cash + Receivable)
            BY <2>10, <2>11
        <3>2. Collected(100) = Rounded(100 * (Cash + Receivable), 100)
            BY <3>1 DEF Collected
        <3>. QED
            BY <2>10, <2>11, <3>2, RoundedWhole
    <2>. QED
        BY <2>6, <2>7, <2>8, <2>9, <2>10, <2>11, <2>12, WhatIsOwed
<1>. QED
    BY <1>1, BooksInvHolds, PTL

\* What a set of booked entries adds up to is the sum of its two parts.
LEMMA SumOfTwoParts ==
    ASSUME BooksInv, NEW A, NEW B, NEW C, C \subseteq Booked, A \cup B = C, A \cap B = {}
    PROVE  /\ Sum(C) = Sum(A) + Sum(B) /\ Sum(A) \in Int /\ Sum(B) \in Int
           /\ Sum(C) = SumFunctionOnSet(ValueAt, C)
<1>1. /\ A \subseteq DOMAIN ledger /\ B \subseteq DOMAIN ledger /\ C \subseteq DOMAIN ledger
    BY DEF Booked
<1>2. IsFiniteSet(A) /\ IsFiniteSet(B) /\ IsFiniteSet(C)
    BY <1>1, WhatCameIn, FS_Subset
<1>3. /\ \A k \in A \cup B : ValueAt[k] \in Int
      /\ \A k \in A : ValueAt[k] \in Int
      /\ \A k \in B : ValueAt[k] \in Int
    BY <1>1, WhatCameIn
<1>4. /\ Sum(A) = SumFunctionOnSet(ValueAt, A) /\ Sum(B) = SumFunctionOnSet(ValueAt, B)
      /\ Sum(C) = SumFunctionOnSet(ValueAt, C)
    BY <1>1, <1>2, SumOfValues DEF Sum
<1>5. SumFunctionOnSet(ValueAt, A \cup B) =
          SumFunctionOnSet(ValueAt, A) + SumFunctionOnSet(ValueAt, B)
    BY <1>2, <1>3, SumUnion
<1>6. SumFunctionOnSet(ValueAt, A \cup B) = SumFunctionOnSet(ValueAt, C)
    BY Zenon
<1>7. SumFunctionOnSet(ValueAt, A) \in Int /\ SumFunctionOnSet(ValueAt, B) \in Int
    <2>1. Int \in {Nat, Int}
        OBVIOUS
    <2>. QED
        BY <1>2, <1>3, <2>1, SumType
<1>. QED
    BY <1>4, <1>5, <1>6, <1>7

\* The flow of a month is what its booked entries add up to.
LEMMA FlowOfAMonth ==
    ASSUME BooksInv, NEW m
    PROVE  FlowOf(m) = SumFunctionOnSet(ValueAt, During(Booked, m))
<1>1. /\ During(Booked, m) \subseteq Booked
      /\ During(In, m) \cup During(Out, m) = During(Booked, m)
      /\ During(In, m) \cap During(Out, m) = {}
    BY DEF During, In, Out
<1>2. /\ Sum(During(Booked, m)) = Sum(During(In, m)) + Sum(During(Out, m))
      /\ Sum(During(Booked, m)) = SumFunctionOnSet(ValueAt, During(Booked, m))
    BY <1>1, SumOfTwoParts
<1>. QED
    BY <1>2 DEF FlowOf

\* The flows of all months add up to what all booked entries do.
LEMMA FlowsAddUpToBooked ==
    ASSUME BooksInv
    PROVE  MapThenSumSet(FlowOf, MonthsOf(Booked)) = SumFunctionOnSet(ValueAt, Booked)
<1> DEFINE M == MonthsOf(Booked)
           of == [k \in Booked |-> MonthOf(ledger[k].day)]
           part == [m \in M |-> During(Booked, m)]
           h == FlowsAt(M)
<1>1. of \in Surjection(Booked, M)
    BY DEF Surjection, MonthsOf
<1>2. /\ IsFiniteSet(Booked)
      /\ \A k \in Booked : ValueAt[k] \in Int /\ of[k] \in M
    <2>1. Booked \subseteq DOMAIN ledger
        BY DEF Booked
    <2>2. \A k \in Booked : of[k] \in M
        BY DEF MonthsOf
    <2> HIDE DEF of, M
    <2>. QED
        BY <2>1, <2>2, WhatCameIn, FS_Subset
<1>3. IsFiniteSet(M)
    BY <1>1, <1>2, FS_Surjection
<1>4. \A m \in M : \A k : k \in part[m] <=> k \in Booked /\ of[k] = m
    BY DEF During
<1>5. \A m \in M : h[m] = SumFunctionOnSet(ValueAt, part[m])
    <2>1. ASSUME NEW m \in M PROVE h[m] = SumFunctionOnSet(ValueAt, part[m])
        <3>1. h[m] = FlowOf(m) /\ part[m] = During(Booked, m)
            BY DEF FlowsAt
        <3> HIDE DEF h, part, M
        <3>. QED
            BY <3>1, FlowOfAMonth
    <2>. QED
        BY <2>1
<1>6. MapThenSumSet(FlowOf, M) = SumFunctionOnSet(h, M)
    BY <1>3, SumOfFlows
<1> HIDE DEF M, of, part, h
<1>7. SumFunctionOnSet(h, M) = SumFunctionOnSet(ValueAt, Booked)
    <2>1. SumsOfParts(h, M, part, of, ValueAt, Booked)
        BY <1>2, <1>3, <1>4, <1>5 DEF SumsOfParts
    <2>. QED
        BY <2>1, SumByParts
<1>. QED
    BY <1>6, <1>7 DEF M

\* The oracles agree on the money that moved: the flows of the months, and revenue with
\* the two kinds of costs that the margins tell apart, both add up to the change in cash.
THEOREM FlowsAreTheCash == BooksSpec => []FlowsAddUp
<1>1. BooksInv => FlowsAddUp
    <2> SUFFICES ASSUME BooksInv PROVE FlowsAddUp
        OBVIOUS
    <2>1. /\ In \cup Out = Booked /\ In \cap Out = {}
          /\ Out \subseteq Booked /\ Cogs \cup (Out \ Cogs) = Out /\ Cogs \cap (Out \ Cogs) = {}
        BY DEF In, Out, Cogs
    <2>2. /\ Sum(Booked) = Sum(In) + Sum(Out) /\ Sum(In) \in Int /\ Sum(Out) \in Int
          /\ Sum(Booked) = SumFunctionOnSet(ValueAt, Booked)
        BY <2>1, SumOfTwoParts
    <2>3. Sum(Out) = Sum(Cogs) + Sum(Out \ Cogs) /\ Sum(Cogs) \in Int /\ Sum(Out \ Cogs) \in Int
        BY <2>1, SumOfTwoParts
    <2>4. opening \in Int
        BY DEF BooksInv, BooksType
    <2>5. Cash = opening + MapThenSumSet(FlowOf, MonthsOf(Booked))
        BY <2>2, FlowsAddUpToBooked DEF Cash
    <2>6. Cash = opening + Revenue + Sum(Cogs) + Sum(Out \ Cogs)
        BY <2>2, <2>3, <2>4 DEF Cash, Revenue
    <2>. QED
        BY <2>5, <2>6 DEF FlowsAddUp
<1>. QED
    BY <1>1, BooksInvHolds, PTL

-----------------------------------------------------------------------------
(* The books: what is owed, and whom to chase. *)

\* Rounding to cents keeps the order.
LEMMA RoundedMonotone ==
    ASSUME NEW n \in Int, NEW m \in Int, n <= m
    PROVE  Rounded(n, 100) <= Rounded(m, 100)
<1> DEFINE q == n \div 100
           r == n % 100
           p == m \div 100
           s == m % 100
<1>1. /\ q \in Int /\ r \in 0..99 /\ n = 100 * q + r
      /\ p \in Int /\ s \in 0..99 /\ m = 100 * p + s
    OBVIOUS
<1>2. /\ Rounded(n, 100) = IF 2 * r < 100 \/ (2 * r = 100 /\ q % 2 = 0) THEN q ELSE q + 1
      /\ Rounded(m, 100) = IF 2 * s < 100 \/ (2 * s = 100 /\ p % 2 = 0) THEN p ELSE p + 1
    BY DEF Rounded
<1> HIDE DEF q, r, p, s
<1>3. q <= p /\ (q = p => r <= s)
    BY <1>1
<1>4. CASE q = p
    <2>1. r <= s
        BY <1>3, <1>4
    <2>2. (2 * s < 100 \/ (2 * s = 100 /\ p % 2 = 0)) => (2 * r < 100 \/ (2 * r = 100 /\ q % 2 = 0))
        BY <1>1, <1>4, <2>1
    <2>. QED
        BY <1>1, <1>2, <1>4, <2>2
<1>5. CASE q < p
    <2>1. Rounded(n, 100) <= q + 1 /\ p <= Rounded(m, 100)
        BY <1>1, <1>2
    <2>. QED
        BY <1>1, <1>2, <1>5, <2>1
<1>. QED
    BY <1>1, <1>3, <1>4, <1>5

\* So does converting.
LEMMA ConvertedMonotone ==
    ASSUME NEW a \in Int, NEW b \in Int, a <= b, NEW currency \in DOMAIN Rates
    PROVE  Converted(a, currency) <= Converted(b, currency)
<1> DEFINE rate == Rates[currency]
           n == a * rate
           m == b * rate
<1>1. rate \in Nat
    BY BooksAssumption
<1> HIDE DEF rate
<1>2. n \in Int /\ m \in Int /\ n <= m
    BY <1>1
<1>3. Converted(a, currency) = Rounded(n, 100) /\ Converted(b, currency) = Rounded(m, 100)
    BY DEF Converted, rate
<1> HIDE DEF n, m
<1>. QED
    BY <1>2, <1>3, RoundedMonotone

OwesNetAt == [i \in DOMAIN invoices |-> OwesNet(i)]

\* A sum of net amounts over invoices is the sum of what each is for without tax.
LEMMA SumOfNets ==
    ASSUME NEW S, S \subseteq DOMAIN invoices, IsFiniteSet(S)
    PROVE  MapThenSumSet(OwesNet, S) = SumFunctionOnSet(OwesNetAt, S)
<1> DEFINE Recursion(h) ==
               h = [s \in SUBSET S |-> IF s = {} THEN 0
                                       ELSE OwesNet(Picked(s)) + h[s \ {Picked(s)}]]
<1>1. MapThenSumSet(OwesNet, S) = (CHOOSE h : Recursion(h))[S]
    BY DEF MapThenSumSet, MapThenFoldSet, Picked
<1>2. ASSUME NEW h PROVE Recursion(h) <=> Solves(h, OwesNetAt, S)
    <2>1. \A s \in SUBSET S : s # {} => OwesNetAt[Picked(s)] = OwesNet(Picked(s))
        BY PickedIsMember DEF OwesNetAt
    <2>2. \A s \in SUBSET S : Unfolded(h, OwesNetAt, s) =
              IF s = {} THEN 0 ELSE OwesNet(Picked(s)) + h[s \ {Picked(s)}]
        BY <2>1 DEF Unfolded
    <2>. QED
        BY <2>2 DEF Solves
<1> HIDE DEF Recursion
<1> DEFINE g == CHOOSE h : Recursion(h)
           f == CHOOSE h : Solves(h, OwesNetAt, S)
<1>3. Solves(f, OwesNetAt, S)
    BY SolutionExists
<1>4. Recursion(f)
    BY <1>2, <1>3
<1>5. Recursion(g)
    BY <1>4
<1>6. SumFunctionOnSet(OwesNetAt, S) = f[S]
    BY SumChooses
<1> HIDE DEF f, g
<1>7. Solves(g, OwesNetAt, S)
    BY <1>2, <1>5
<1>8. S \in SUBSET S
    OBVIOUS
<1>9. f[S] = g[S]
    BY <1>3, <1>7, <1>8, SolutionsAgree
<1>. QED
    BY <1>1, <1>6, <1>9 DEF g

\* What single invoices owe.
LEMMA DuesOfInvoices ==
    ASSUME BooksInv
    PROVE  /\ IsFiniteSet(DOMAIN invoices) /\ IsFiniteSet(Open) /\ IsFiniteSet(Overdue)
           /\ DOMAIN invoices \subseteq Nat
           /\ Overdue \subseteq Open /\ Open \subseteq DOMAIN invoices
           /\ \A i \in DOMAIN invoices : /\ Owes(i) \in Nat /\ OwesAt[i] = Owes(i)
                                         /\ OwesNet(i) \in Nat /\ OwesNetAt[i] = OwesNet(i)
                                         /\ OwesNet(i) <= Owes(i)
                                         /\ invoices[i].due \in Int
<1>1. invoices \in Seq(Billed)
    BY DEF BooksInv, BooksType
<1>2. /\ DOMAIN invoices = 1..Len(invoices) /\ Len(invoices) \in Nat
      /\ \A i \in DOMAIN invoices : invoices[i] \in Billed /\ Price(invoices[i]) \in Nat
    BY <1>1, SettlementOfBills
<1>3. IsFiniteSet(DOMAIN invoices)
    BY WhatIsOwed
<1>4. Overdue \subseteq Open /\ Open \subseteq DOMAIN invoices
    BY DEF Overdue, Open
<1>5. IsFiniteSet(Open) /\ IsFiniteSet(Overdue)
    BY <1>3, <1>4, FS_Subset
<1>6. ASSUME NEW i \in DOMAIN invoices
      PROVE  /\ Owes(i) \in Nat /\ OwesAt[i] = Owes(i)
             /\ OwesNet(i) \in Nat /\ OwesNetAt[i] = OwesNet(i)
             /\ OwesNet(i) <= Owes(i) /\ invoices[i].due \in Int
    <2> DEFINE bill == invoices[i]
    <2>1. bill \in Billed /\ Price(bill) \in Nat
        BY <1>2
    <2> HIDE DEF bill
    <2>2. /\ bill.net \in Nat /\ Gross(bill) \in Nat /\ bill.net <= Gross(bill)
          /\ bill.currency \in DOMAIN Rates /\ bill.due \in Int
        BY <2>1 DEF Billed, Gross
    <2>3. /\ Converted(bill.net, bill.currency) \in Int
          /\ Converted(bill.net, bill.currency) >= 0
          /\ Converted(bill.net, bill.currency) <= Converted(Gross(bill), bill.currency)
        BY <2>2, ConvertedSign, ConvertedMonotone
    <2>4. /\ Owes(i) = Price(bill) /\ Owes(i) = Converted(Gross(bill), bill.currency)
          /\ OwesNet(i) = Converted(bill.net, bill.currency)
        BY DEF Owes, OwesNet, Price, bill
    <2>5. OwesAt[i] = Owes(i) /\ OwesNetAt[i] = OwesNet(i)
        BY DEF OwesAt, OwesNetAt
    <2>6. invoices[i].due = bill.due
        BY DEF bill
    <2>. QED
        BY <2>1, <2>2, <2>3, <2>4, <2>5, <2>6
<1>7. DOMAIN invoices \subseteq Nat
    BY <1>2
<1>. QED
    BY <1>3, <1>4, <1>5, <1>6, <1>7

\* The sums: a part is no more than the whole, the net no more than the gross.
LEMMA DuesAddUp ==
    ASSUME BooksInv
    PROVE  /\ OverdueReceivable <= Receivable
           /\ TaxInReceivable >= 0
           /\ Receivable \in Nat
<1>1. /\ IsFiniteSet(Open) /\ IsFiniteSet(Overdue) /\ Overdue \in SUBSET Open
      /\ Open \subseteq DOMAIN invoices /\ Overdue \subseteq DOMAIN invoices
      /\ \A i \in Open : /\ OwesAt[i] \in Nat /\ OwesNetAt[i] \in Nat /\ OwesNetAt[i] <= OwesAt[i]
    BY DuesOfInvoices
<1>2. /\ Receivable = SumFunctionOnSet(OwesAt, Open)
      /\ OverdueReceivable = SumFunctionOnSet(OwesAt, Overdue)
      /\ ReceivableNet = SumFunctionOnSet(OwesNetAt, Open)
    BY <1>1, SumOfDues, SumOfNets DEF Receivable, OverdueReceivable, ReceivableNet
<1>3. SumFunctionOnSet(OwesAt, Overdue) <= SumFunctionOnSet(OwesAt, Open)
    BY <1>1, SumSubset
<1>4. SumFunctionOnSet(OwesNetAt, Open) <= SumFunctionOnSet(OwesAt, Open)
    <2>1. \A i \in Open : OwesNetAt[i] \in Int /\ OwesAt[i] \in Int /\ OwesNetAt[i] <= OwesAt[i]
        BY <1>1
    <2>. QED
        BY <1>1, <2>1, SumMonotone
<1>5. SumFunctionOnSet(OwesNetAt, Open) \in Nat /\ SumFunctionOnSet(OwesAt, Open) \in Nat
    <2>1. Nat \in {Nat, Int}
        OBVIOUS
    <2>2. (\A i \in Open : OwesNetAt[i] \in Nat) /\ (\A i \in Open : OwesAt[i] \in Nat)
        BY <1>1
    <2>. QED
        BY <1>1, <2>1, <2>2, SumType
<1>. QED
    BY <1>2, <1>3, <1>4, <1>5 DEF TaxInReceivable

\* What an overdue invoice weighs.
LEMMA WeightIsInt ==
    ASSUME BooksInv, NEW i \in Overdue
    PROVE  Weight(i) \in Int
<1>1. Owes(i) \in Int /\ invoices[i].due \in Int
    BY DuesOfInvoices
<1>2. AsOf - invoices[i].due \in Int
    BY <1>1, BooksAssumption DEF AsOf
<1>. QED
    BY <1>1, <1>2 DEF Weight

\* Each overdue invoice has a rank of its own, and every rank is taken.
LEMMA RanksOfOverdue ==
    ASSUME BooksInv
    PROVE  /\ Cardinality(Overdue) \in Nat
           /\ \A i \in Overdue : Cardinality(Ahead(i)) \in 0..(Cardinality(Overdue) - 1)
           /\ \A i, j \in Overdue : j \in Ahead(i) => Cardinality(Ahead(j)) < Cardinality(Ahead(i))
           /\ \A i, j \in Overdue : i = j \/ i \in Ahead(j) \/ j \in Ahead(i)
           /\ \A r \in 0..(Cardinality(Overdue) - 1) :
                  \E i \in Overdue : Cardinality(Ahead(i)) = r
<1> DEFINE F == Overdue
           n == Cardinality(F)
           R == [i \in F |-> Cardinality(Ahead(i))]
<1>1. IsFiniteSet(F) /\ n \in Nat
    BY DuesOfInvoices, FS_CardinalityType
<1>2. \A i \in F : i \in Nat /\ Weight(i) \in Int
    BY DuesOfInvoices, WeightIsInt
<1>3. \A i \in F : Ahead(i) \in SUBSET F /\ i \notin Ahead(i)
    BY <1>2 DEF Ahead
<1>4. \A i, j \in F : i = j \/ i \in Ahead(j) \/ j \in Ahead(i)
    BY <1>2 DEF Ahead
<1>5. \A i, j \in F : j \in Ahead(i) => Ahead(j) \cup {j} \in SUBSET Ahead(i) /\ j \notin Ahead(j)
    <2>1. ASSUME NEW i \in F, NEW j \in F, j \in Ahead(i), NEW k \in Ahead(j) PROVE k \in Ahead(i)
        BY <1>2, <2>1 DEF Ahead
    <2>. QED
        BY <1>3, <2>1
<1> HIDE DEF F, n, R
<1>6. \A i \in F : IsFiniteSet(Ahead(i)) /\ Cardinality(Ahead(i)) \in Nat
    BY <1>1, <1>3, FS_Subset, FS_CardinalityType
<1>7. \A i \in F : R[i] = Cardinality(Ahead(i))
    BY DEF R
<1>8. ASSUME NEW i \in F PROVE R[i] \in 0..(n - 1)
    <2>1. Cardinality(Ahead(i) \cup {i}) = Cardinality(Ahead(i)) + 1
        BY <1>3, <1>6, FS_AddElement
    <2>2. Ahead(i) \cup {i} \in SUBSET F
        BY <1>3
    <2>3. Cardinality(Ahead(i) \cup {i}) <= n
        BY <1>1, <2>2, FS_Subset DEF n
    <2>. QED
        BY <1>1, <1>6, <1>7, <2>1, <2>3
<1>9. ASSUME NEW i \in F, NEW j \in F, j \in Ahead(i) PROVE R[j] < R[i]
    <2>1. Cardinality(Ahead(j) \cup {j}) = Cardinality(Ahead(j)) + 1
        BY <1>3, <1>6, FS_AddElement
    <2>2. Cardinality(Ahead(j) \cup {j}) <= Cardinality(Ahead(i))
        BY <1>5, <1>6, <1>9, FS_Subset
    <2>. QED
        BY <1>6, <1>7, <2>1, <2>2
<1>10. \A i, j \in F : i # j => R[i] # R[j]
    <2>1. ASSUME NEW i \in F, NEW j \in F, i # j PROVE R[i] # R[j]
        <3>1. R[i] < R[j] \/ R[j] < R[i]
            BY <1>4, <1>9, <2>1
        <3>. QED
            BY <1>1, <1>8, <3>1
    <2>. QED
        BY <2>1
<1>11. R \in Injection(F, 0..(n - 1))
    <2>1. R \in [F -> 0..(n - 1)]
        BY <1>8 DEF R
    <2>. QED
        BY <1>10, <2>1 DEF Injection, IsInjective
<1>12. IsFiniteSet(0..(n - 1)) /\ Cardinality(0..(n - 1)) = n
    <2>1. CASE n = 0
        <3>1. 0..(n - 1) = {}
            BY <2>1
        <3>. QED
            BY <2>1, <3>1, FS_EmptySet
    <2>2. CASE n > 0
        BY <1>1, <2>2, FS_Interval
    <2>. QED
        BY <1>1, <2>1, <2>2
<1>13. R \in Surjection(F, 0..(n - 1))
    BY <1>11, <1>12, FS_Injection DEF n
<1>14. \A r \in 0..(n - 1) : \E i \in F : R[i] = r
    BY <1>13 DEF Surjection
<1>. QED
    BY <1>1, <1>4, <1>7, <1>8, <1>9, <1>14 DEF n, F

\* Those to chase: at place p the overdue invoice with p - 1 others ahead of it.
LEMMA TheChased ==
    ASSUME BooksInv
    PROVE  /\ Range(ToChase) \subseteq Overdue
           /\ IsInjective(ToChase)
           /\ \A i \in Range(ToChase), j \in Overdue \ Range(ToChase) : Weight(j) <= Weight(i)
<1> DEFINE n == Cardinality(Overdue)
           m == Min({3, n})
<1>1. n \in Nat
    BY RanksOfOverdue
<1>2. m \in Nat /\ m <= n /\ m <= 3 /\ (m = 3 \/ m = n)
    <2>1. {3, n} \subseteq Nat /\ {3, n} # {}
        BY <1>1
    <2>2. m \in {3, n} /\ \A k \in {3, n} : m <= k
        BY <2>1, MinIsLeast
    <2>. QED
        BY <1>1, <2>2
<1>3. /\ DOMAIN ToChase = 1..m
      /\ \A p \in 1..m : ToChase[p] = CHOOSE i \in Overdue : Cardinality(Ahead(i)) = p - 1
    BY DEF ToChase
<1>4. \A r \in 0..(n - 1) : \E i \in Overdue : Cardinality(Ahead(i)) = r
    BY RanksOfOverdue
<1> HIDE DEF m, n
<1>5. ASSUME NEW p \in 1..m
      PROVE  ToChase[p] \in Overdue /\ Cardinality(Ahead(ToChase[p])) = p - 1
    <2>1. p - 1 \in 0..(n - 1)
        BY <1>1, <1>2
    <2>2. \E i \in Overdue : Cardinality(Ahead(i)) = p - 1
        BY <1>4, <2>1
    <2>3. ToChase[p] = CHOOSE i \in Overdue : Cardinality(Ahead(i)) = p - 1
        BY <1>3
    <2>. QED
        BY <2>2, <2>3, Zenon
<1>6. Range(ToChase) = {ToChase[p] : p \in 1..m}
    BY <1>3 DEF Range
<1>7. Range(ToChase) \subseteq Overdue
    BY <1>5, <1>6
<1>8. IsInjective(ToChase)
    <2>1. ASSUME NEW p \in 1..m, NEW q \in 1..m, ToChase[p] = ToChase[q] PROVE p = q
        <3>1. p - 1 = q - 1
            BY <1>5, <2>1
        <3>. QED
            BY <1>2, <3>1
    <2>. QED
        BY <1>3, <2>1 DEF IsInjective
<1>9. ASSUME NEW i \in Range(ToChase), NEW j \in Overdue, j \notin Range(ToChase), j \in Ahead(i)
      PROVE  FALSE
    <2>1. PICK p \in 1..m : ToChase[p] = i
        BY <1>6
    <2>2. i \in Overdue /\ Cardinality(Ahead(i)) = p - 1
        BY <1>5, <2>1
    <2> DEFINE c == Cardinality(Ahead(j))
    <2>3. c \in 0..(n - 1) /\ c < p - 1
        BY <1>9, <2>2, RanksOfOverdue DEF n
    <2> HIDE DEF c
    <2>4. c + 1 \in 1..m /\ (c + 1) - 1 = c
        BY <1>1, <1>2, <2>3
    <2> DEFINE k == ToChase[c + 1]
    <2>5. k \in Overdue /\ Cardinality(Ahead(k)) = c /\ k \in Range(ToChase)
        BY <1>5, <1>6, <2>4
    <2> HIDE DEF k
    <2>6. k = j \/ k \in Ahead(j) \/ j \in Ahead(k)
        BY <2>5, RanksOfOverdue
    <2>7. k # j
        BY <1>9, <2>5
    <2>8. k \in Ahead(j) => Cardinality(Ahead(k)) < c
        BY <2>5, RanksOfOverdue DEF c
    <2>9. j \in Ahead(k) => c < Cardinality(Ahead(k))
        BY <2>5, RanksOfOverdue DEF c
    <2>. QED
        BY <2>3, <2>5, <2>6, <2>7, <2>8, <2>9
<1>10. ASSUME NEW i \in Range(ToChase), NEW j \in Overdue \ Range(ToChase)
       PROVE  Weight(j) <= Weight(i)
    <2>1. i \in Overdue /\ j \in Overdue /\ j \notin Range(ToChase)
        BY <1>7
    <2>2. j \notin Ahead(i)
        BY <1>9
    <2>3. ~(Weight(j) > Weight(i))
        BY <2>1, <2>2 DEF Ahead
    <2>4. Weight(i) \in Int /\ Weight(j) \in Int
        BY <2>1, WeightIsInt
    <2>. QED
        BY <2>3, <2>4
<1>. QED
    BY <1>7, <1>8, <1>10

\* The cash of complete books is an integer amount.
LEMMA CashIsInt ==
    ASSUME BooksInv
    PROVE  Cash \in Int
<1>1. In \cup Out = Booked /\ In \cap Out = {} /\ Booked \subseteq Booked
    BY DEF In, Out
<1>2. Sum(Booked) = Sum(In) + Sum(Out) /\ Sum(In) \in Int /\ Sum(Out) \in Int
    BY <1>1, SumOfTwoParts
<1>3. opening \in Int
    BY DEF BooksInv, BooksType
<1>. QED
    BY <1>2, <1>3 DEF Cash

\* The oracles of receivables agree, in books of any size: what is overdue is a part of what
\* is owed, the three invoices to chase are overdue, different and the heaviest, the tax is
\* a part of what is owed although gross and net are converted and rounded apart, and
\* collecting more of it leaves more cash.
THEOREM WhatIsOwedAddsUp == BooksSpec => []OwedAddsUp
<1>1. BooksInv => OwedAddsUp
    <2> SUFFICES ASSUME BooksInv PROVE OwedAddsUp
        OBVIOUS
    <2>1. Cash \in Int /\ Receivable \in Nat
        BY CashIsInt, DuesAddUp
    <2> DEFINE part(percent) == 100 * Cash + percent * Receivable
    <2>2. part(25) \in Int /\ part(50) \in Int /\ part(75) \in Int
        BY <2>1
    <2>3. part(25) <= part(50) /\ part(50) <= part(75)
        BY <2>1
    <2>4. \A percent : Collected(percent) = Rounded(part(percent), 100)
        BY DEF Collected
    <2> HIDE DEF part
    <2>5. Collected(25) <= Collected(50) /\ Collected(50) <= Collected(75)
        BY <2>2, <2>3, <2>4, RoundedMonotone
    <2>. QED
        BY <2>5, DuesAddUp, TheChased DEF OwedAddsUp
<1>. QED
    BY <1>1, BooksInvHolds, PTL

-----------------------------------------------------------------------------
(* The books: how long the cash lasts. *)

\* Division is unique.
LEMMA QuotientIs ==
    ASSUME NEW d \in Nat \ {0}, NEW n \in Nat, NEW q \in Nat, NEW r \in Nat, r < d, n = d * q + r
    PROVE  n \div d = q /\ n % d = r
<1> DEFINE p == n \div d
           s == n % d
<1>1. p \in Nat /\ s \in 0..(d - 1) /\ n = d * p + s
    BY Division
<1> HIDE DEF p, s
<1>2. CASE p > q
    <2>1. d * p = d * q + d * (p - q) /\ d * (p - q) >= d /\ d * q \in Nat
        BY <1>1, <1>2
    <2>. QED
        BY <1>1, <2>1
<1>3. CASE p < q
    <2>1. d * q = d * p + d * (q - p) /\ d * (q - p) >= d /\ d * p \in Nat
        BY <1>1, <1>3
    <2>. QED
        BY <1>1, <2>1
<1>4. CASE p = q
    <2>1. d * p = d * q /\ d * q \in Nat
        BY <1>4
    <2>2. s = r
        BY <1>1, <2>1
    <2>. QED
        BY <1>4, <2>2 DEF p, s
<1>. QED
    BY <1>1, <1>2, <1>3, <1>4

\* What is rounded is within half of the exact quotient.
LEMMA RoundedIsClose ==
    ASSUME NEW d \in Nat \ {0}, NEW n \in Int
    PROVE  /\ Rounded(n, d) \in Int
           /\ 2 * (d * Rounded(n, d)) <= 2 * n + d
           /\ 2 * n <= 2 * (d * Rounded(n, d)) + d
<1> DEFINE q == n \div d
           r == n % d
<1>1. q \in Int /\ r \in 0..(d - 1) /\ n = d * q + r
    BY SMT
<1>2. Rounded(n, d) = IF 2 * r < d \/ (2 * r = d /\ q % 2 = 0) THEN q ELSE q + 1
    BY DEF Rounded
<1> HIDE DEF q, r
<1>3. (Rounded(n, d) = q /\ 2 * r <= d) \/ (Rounded(n, d) = q + 1 /\ 2 * r >= d)
    BY <1>1, <1>2
<1>4. d * (q + 1) = d * q + d /\ d * q \in Int
    BY <1>1
<1>. QED
    BY <1>1, <1>3, <1>4

\* What is rounded of a natural number is one.
LEMMA RoundedIsNat ==
    ASSUME NEW d \in Nat \ {0}, NEW n \in Nat
    PROVE  Rounded(n, d) \in Nat
<1>1. n \div d \in Nat
    BY Division
<1>. QED
    BY <1>1 DEF Rounded

\* A larger divisor gives no more.
LEMMA RoundedOfLess ==
    ASSUME NEW d \in Nat \ {0}, NEW e \in Nat \ {0}, d <= e, NEW n \in Nat
    PROVE  Rounded(n, e) <= Rounded(n, d)
<1> DEFINE q == n \div e
           r == n % e
           p == n \div d
           s == n % d
<1>1. /\ q \in Nat /\ r \in 0..(e - 1) /\ n = e * q + r
      /\ p \in Nat /\ s \in 0..(d - 1) /\ n = d * p + s
    BY Division
<1>2. /\ Rounded(n, e) = IF 2 * r < e \/ (2 * r = e /\ q % 2 = 0) THEN q ELSE q + 1
      /\ Rounded(n, d) = IF 2 * s < d \/ (2 * s = d /\ p % 2 = 0) THEN p ELSE p + 1
    BY DEF Rounded
<1> HIDE DEF q, r, p, s
<1>3. e * q = d * q + (e - d) * q /\ (e - d) * q >= 0 /\ d * q \in Nat /\ (e - d) * q \in Nat
    BY <1>1
<1>4. ~(q > p)
    <2> SUFFICES ASSUME q > p PROVE FALSE
        OBVIOUS
    <2>1. d * q = d * p + d * (q - p) /\ d * (q - p) >= d /\ d * p \in Nat /\ d * (q - p) \in Nat
        BY <1>1
    <2>. QED
        BY <1>1, <1>3, <2>1
<1>5. CASE q < p
    <2>1. Rounded(n, e) <= q + 1 /\ p <= Rounded(n, d)
        BY <1>1, <1>2
    <2>. QED
        BY <1>1, <1>2, <1>5, <2>1
<1>6. CASE q = p
    <2>1. d * q = d * p
        BY <1>6
    <2>2. r <= s
        BY <1>1, <1>3, <2>1
    <2>3. (2 * s < d \/ (2 * s = d /\ p % 2 = 0)) => (2 * r < e \/ (2 * r = e /\ q % 2 = 0))
        BY <1>1, <1>6, <2>2
    <2>. QED
        BY <1>1, <1>2, <1>6, <2>3
<1>. QED
    BY <1>1, <1>4, <1>5, <1>6

\* A fraction is rounded alike in larger terms.
LEMMA RoundedInTerms ==
    ASSUME NEW d \in Nat \ {0}, NEW c \in Nat \ {0}, NEW n \in Nat
    PROVE  Rounded(c * n, c * d) = Rounded(n, d)
<1> DEFINE q == n \div d
           r == n % d
<1>1. q \in Nat /\ r \in 0..(d - 1) /\ n = d * q + r
    BY Division
<1>2. Rounded(n, d) = IF 2 * r < d \/ (2 * r = d /\ q % 2 = 0) THEN q ELSE q + 1
    BY DEF Rounded
<1> HIDE DEF q, r
<1> DEFINE cd == c * d
           cr == c * r
           cn == c * n
<1>3. cd \in Nat \ {0} /\ cn \in Nat /\ cr \in Nat /\ cr < cd /\ cn = cd * q + cr
    <2>1. cd \in Nat \ {0} /\ cn \in Nat /\ cr \in Nat
        BY <1>1
    <2>2. cr < cd
        <3>1. cd = cr + c * (d - r) /\ c * (d - r) >= c /\ c * (d - r) \in Nat
            BY <1>1
        <3> HIDE DEF cd, cr
        <3>. QED
            BY <2>1, <3>1
    <2>3. cn = cd * q + cr
        <3>1. \A a, b \in Nat : c * (a + b) = c * a + c * b
            OBVIOUS
        <3>2. c * (d * q) = (c * d) * q
            BY <1>1
        <3>3. d * q \in Nat /\ r \in Nat
            BY <1>1
        <3>4. c * (d * q + r) = c * (d * q) + c * r
            BY <3>1, <3>3, Zenon
        <3>5. c * n = c * (d * q + r)
            BY <1>1, Zenon
        <3>. QED
            BY <3>2, <3>4, <3>5, Zenon
    <2> HIDE DEF cd, cr, cn
    <2>. QED
        BY <2>1, <2>2, <2>3
<1>4. (2 * cr < cd <=> 2 * r < d) /\ (2 * cr = cd <=> 2 * r = d)
    <2>1. 2 * cr = c * (2 * r)
        BY <1>1
    <2>2. \A a, b \in Nat : (a < b => c * a < c * b) /\ (a = b => c * a = c * b)
        <3>1. ASSUME NEW a \in Nat, NEW b \in Nat, a < b PROVE c * a < c * b
            <4>1. c * b = c * a + c * (b - a) /\ c * (b - a) >= c /\ c * a \in Nat
                BY <3>1
            <4>. QED
                BY <4>1
        <3>. QED
            BY <3>1
    <2>3. 2 * r \in Nat /\ d \in Nat
        BY <1>1
    <2>4. /\ 2 * r < d => c * (2 * r) < c * d
          /\ d < 2 * r => c * d < c * (2 * r)
          /\ 2 * r = d => c * (2 * r) = c * d
        BY <2>2, <2>3
    <2> DEFINE twice == c * (2 * r)
    <2>5. twice \in Nat /\ cd \in Nat
        BY <1>3, <2>3
    <2>6. (twice < cd <=> 2 * r < d) /\ (twice = cd <=> 2 * r = d)
        <3>1. (2 * r < d => twice < cd) /\ (d < 2 * r => cd < twice) /\ (2 * r = d => twice = cd)
            BY <2>4
        <3> HIDE DEF twice, cd
        <3>. QED
            BY <2>3, <2>5, <3>1
    <2>. QED
        BY <2>1, <2>6
<1> HIDE DEF cd, cr, cn
<1>5. cn \div cd = q /\ cn % cd = cr
    BY <1>1, <1>3, QuotientIs
<1>6. Rounded(cn, cd) = IF 2 * cr < cd \/ (2 * cr = cd /\ q % 2 = 0) THEN q ELSE q + 1
    BY <1>5 DEF Rounded
<1>. QED
    BY <1>2, <1>4, <1>6 DEF cn, cd

-----------------------------------------------------------------------------
(* The books: every traded month is in them. *)

\* The months that the entries of a ledger are of.
TradedIn(entries) == {MonthOf(entries[k].day) : k \in DOMAIN entries}

EveryMonthIsTraded ==
    /\ month <= Months
    /\ closed => month = Months
    /\ 0..(month - 1) \subseteq TradedIn(ledger)

\* The months of a longer ledger are those of its parts.
LEMMA TradedInMore ==
    ASSUME NEW s \in Seq(Entries), NEW t \in Seq(Entries)
    PROVE  TradedIn(s) \cup TradedIn(t) \subseteq TradedIn(s \o t)
<1>1. /\ DOMAIN s = 1..Len(s) /\ Len(s) \in Nat
      /\ DOMAIN t = 1..Len(t) /\ Len(t) \in Nat
      /\ s \o t \in Seq(Entries) /\ Len(s \o t) = Len(s) + Len(t)
      /\ DOMAIN (s \o t) = 1..Len(s \o t)
      /\ \A k \in 1..Len(s) : (s \o t)[k] = s[k]
      /\ \A k \in 1..Len(t) : (s \o t)[Len(s) + k] = t[k]
    <2>1. s \o t \in Seq(Entries) /\ Len(s \o t) = Len(s) + Len(t)
        BY ConcatProperties
    <2>2. /\ \A k \in 1..Len(s) : (s \o t)[k] = s[k]
          /\ \A k \in 1..Len(t) : (s \o t)[Len(s) + k] = t[k]
        OBVIOUS
    <2>. QED
        BY <2>1, <2>2, LenProperties
<1> DEFINE u == s \o t
<1> HIDE DEF u
<1>2. \A k \in DOMAIN s : k \in DOMAIN u /\ u[k] = s[k]
    BY <1>1 DEF u
<1>3. \A k \in DOMAIN t : Len(s) + k \in DOMAIN u /\ u[Len(s) + k] = t[k]
    BY <1>1 DEF u
<1>4. \A k \in DOMAIN s : MonthOf(s[k].day) \in TradedIn(u)
    BY <1>2 DEF TradedIn
<1>5. \A k \in DOMAIN t : MonthOf(t[k].day) \in TradedIn(u)
    BY <1>3 DEF TradedIn
<1>6. TradedIn(s) \subseteq TradedIn(u) /\ TradedIn(t) \subseteq TradedIn(u)
    BY <1>4, <1>5 DEF TradedIn
<1>. QED
    BY <1>6 DEF u

\* A month's wages are entries of the month.
LEMMA WagesAreOfTheMonth ==
    ASSUME BooksType, NEW wages \in Wages
    PROVE  month \in TradedIn(Salaries(wages))
<1>1. month \in Nat
    BY DEF BooksType
<1>2. 1 \in DOMAIN Salaries(wages) /\ Salaries(wages)[1].day = 30 * month + 1
    BY DEF Salaries, Entry
<1>3. (30 * month + 1) \div 30 = month
    BY <1>1
<1>. QED
    BY <1>2, <1>3 DEF TradedIn, MonthOf

LEMMA InitTraded == BooksInit => EveryMonthIsTraded
<1> SUFFICES ASSUME BooksInit PROVE EveryMonthIsTraded
    OBVIOUS
<1>1. month = 0 /\ closed = FALSE /\ Months \in Nat
    BY BooksAssumption DEF BooksInit
<1>2. 0..(0 - 1) = {} /\ 0 <= Months
    BY <1>1
<1>. QED
    BY <1>1, <1>2 DEF EveryMonthIsTraded

LEMMA NextTraded ==
    ASSUME BooksInv, EveryMonthIsTraded, [BooksNext]_booksVars
    PROVE  EveryMonthIsTraded'
<1>1. /\ ledger \in Seq(Entries) /\ month \in Nat /\ Months \in Nat /\ closed \in BOOLEAN
      /\ month <= Months /\ (closed => month = Months) /\ 0..(month - 1) \subseteq TradedIn(ledger)
    BY BooksAssumption DEF BooksInv, BooksType, EveryMonthIsTraded
<1>2. CASE Bill
    <2>1. /\ UNCHANGED <<month, closed>>
          /\ customer <= Len(Customers)
          /\ \E deal \in Deals :
                 LET invoice == Invoice(customer, deal)
                 IN  ledger' = ledger \/ ledger' = Append(ledger, Receipt(invoice))
        BY <1>2 DEF Bill
    <2>2. PICK entry : ledger' = ledger \/ ledger' = Append(ledger, entry)
        BY <2>1
    <2>3. BooksInv'
        BY <1>2, BillInv
    <2>4. TradedIn(ledger) \subseteq TradedIn(ledger')
        <3>1. CASE ledger' = ledger
            BY <3>1
        <3>2. CASE ledger' = Append(ledger, entry)
            <4>1. DOMAIN ledger = 1..Len(ledger) /\ Len(ledger) \in Nat
                BY <1>1, LenProperties
            <4>2. DOMAIN ledger' = 1..(Len(ledger) + 1)
                BY <1>1, <3>2
            <4>3. \A k \in DOMAIN ledger : k \in DOMAIN ledger' /\ ledger'[k] = ledger[k]
                BY <1>1, <3>2, <4>1, <4>2
            <4>. QED
                BY <4>3 DEF TradedIn
        <3>. QED
            BY <2>2, <3>1, <3>2
    <2>. QED
        BY <1>1, <2>1, <2>4 DEF EveryMonthIsTraded
<1>3. CASE PassOver \/ UNCHANGED booksVars
    <2>1. UNCHANGED <<month, closed, ledger>>
        BY <1>3 DEF PassOver, booksVars
    <2>. QED
        BY <1>1, <2>1 DEF EveryMonthIsTraded
<1>4. CASE Spend
    <2>1. PICK wages \in Wages, items \in Purchases :
              ledger' = ledger \o Salaries(wages) \o Bought(items)
        BY <1>4 DEF Spend
    <2>2. Salaries(wages) \in Seq(Entries) /\ Bought(items) \in Seq(Entries)
        BY CostsTakeOut DEF BooksInv
    <2> DEFINE paid == ledger \o Salaries(wages)
    <2>3. paid \in Seq(Entries) /\ ledger' = paid \o Bought(items)
        BY <1>1, <2>1, <2>2, ConcatProperties
    <2>4. TradedIn(ledger) \cup TradedIn(Salaries(wages)) \subseteq TradedIn(paid)
        BY <1>1, <2>2, TradedInMore
    <2> HIDE DEF paid
    <2>5. TradedIn(paid) \subseteq TradedIn(ledger')
        BY <2>2, <2>3, TradedInMore
    <2>6. month \in TradedIn(Salaries(wages))
        BY WagesAreOfTheMonth DEF BooksInv
    <2>7. month' = month + 1 /\ month < Months /\ UNCHANGED closed
        BY <1>4 DEF Spend
    <2>8. 0..((month + 1) - 1) = 0..(month - 1) \cup {month} /\ month + 1 <= Months /\ ~closed
        BY <1>1, <2>7
    <2>9. 0..(month' - 1) \subseteq TradedIn(ledger')
        BY <1>1, <2>4, <2>5, <2>6, <2>7, <2>8
    <2>. QED
        BY <2>7, <2>8, <2>9 DEF EveryMonthIsTraded
<1>5. CASE Close
    <2>1. ledger' = ByDate /\ month = Months /\ UNCHANGED month
        BY <1>5 DEF Close
    <2>2. DOMAIN ByDate = DOMAIN ledger /\ \A p \in DOMAIN ledger : ByDate[p] = ledger[Placed[p]]
        BY <1>1, SortRearranges
    <2>3. \A k \in DOMAIN ledger : \E p \in DOMAIN ledger : Placed[p] = k
        BY <1>1, SortRearranges DEF Bijection, Surjection
    <2>4. \A k \in DOMAIN ledger : \E p \in DOMAIN ByDate : ByDate[p] = ledger[k]
        BY <2>2, <2>3
    <2>5. TradedIn(ledger) \subseteq TradedIn(ByDate)
        BY <2>4 DEF TradedIn
    <2>. QED
        BY <1>1, <2>1, <2>5 DEF EveryMonthIsTraded
<1>. QED
    BY <1>2, <1>3, <1>4, <1>5 DEF BooksNext

-----------------------------------------------------------------------------
(* The books: the order of the runways. *)

\* What the given months brought in or took out.
Lately(flow, recent) == Sum({k \in flow : MonthOf(ledger[k].day) \in recent})

\* The last complete months brought in, and took out, more than the few cents by which
\* rounding the average month could be off.
MoreThanCents ==
    LET recent == Recent(MonthsOf(Booked))
    IN  /\ 2 * Lately(In, recent) >= 5 * Cardinality(recent)
        /\ -3 * Lately(Out, recent) >= 10 * Cardinality(recent)

\* What comes in is never negative, what goes out never positive, and together they are
\* what the months changed.
LEMMA LatelyAddsUp ==
    ASSUME BooksInv, NEW recent
    PROVE  /\ Lately(In, recent) \in Nat
           /\ Lately(Out, recent) \in Int /\ Lately(Out, recent) <= 0
           /\ Lately(Booked, recent) = Lately(In, recent) + Lately(Out, recent)
<1> DEFINE A == {k \in In : MonthOf(ledger[k].day) \in recent}
           B == {k \in Out : MonthOf(ledger[k].day) \in recent}
           C == {k \in Booked : MonthOf(ledger[k].day) \in recent}
<1>1. /\ A \subseteq In /\ B \subseteq Out /\ C \subseteq Booked
      /\ A \cup B = C /\ A \cap B = {} /\ C \subseteq DOMAIN ledger
    BY DEF In, Out, Booked
<1>2. /\ Lately(In, recent) = Sum(A) /\ Lately(Out, recent) = Sum(B)
      /\ Lately(Booked, recent) = Sum(C)
    BY DEF Lately
<1> HIDE DEF A, B, C
<1>3. Sum(C) = Sum(A) + Sum(B) /\ Sum(A) \in Int /\ Sum(B) \in Int
    BY <1>1, SumOfTwoParts
<1>4. IsFiniteSet(A) /\ IsFiniteSet(B) /\ A \subseteq DOMAIN ledger /\ B \subseteq DOMAIN ledger
    BY <1>1, WhatCameIn, FS_Subset
<1>5. Sum(A) = SumFunctionOnSet(ValueAt, A) /\ Sum(B) = SumFunctionOnSet(ValueAt, B)
    BY <1>4, SumOfValues DEF Sum
<1>6. \A k \in DOMAIN ledger : ValueAt[k] \in Int /\ ValueAt[k] = Value(k)
    BY WhatCameIn DEF ValueAt
<1>7. (\A k \in A : ValueAt[k] \in Nat) /\ (\A k \in B : ValueAt[k] \in Int /\ ValueAt[k] <= 0)
    <2>1. (\A k \in In : Value(k) > 0 /\ k \in DOMAIN ledger)
          /\ (\A k \in Out : ~(Value(k) > 0) /\ k \in DOMAIN ledger)
        BY DEF In, Out, Booked
    <2>. QED
        BY <1>1, <1>6, <2>1
<1>8. SumFunctionOnSet(ValueAt, A) \in Nat
    <2>1. Nat \in {Nat, Int}
        OBVIOUS
    <2>. QED
        BY <1>4, <1>7, <2>1, SumType
<1>9. SumFunctionOnSet(ValueAt, B) <= 0
    <2> DEFINE zero == [k \in B |-> 0]
    <2>1. \A k \in B : zero[k] = 0
        OBVIOUS
    <2>2. \A k \in B : ValueAt[k] \in Int /\ zero[k] \in Int /\ ValueAt[k] <= zero[k]
        BY <1>7, <2>1
    <2> HIDE DEF zero
    <2>3. SumFunctionOnSet(ValueAt, B) <= SumFunctionOnSet(zero, B)
        BY <1>4, <2>2, SumMonotone
    <2>4. SumFunctionOnSet(zero, B) = 0
        BY <1>4, <2>1, SumOfZeros
    <2>. QED
        BY <2>3, <2>4
<1>. QED
    BY <1>2, <1>3, <1>5, <1>8, <1>9

\* The months that have entries are finitely many, and none is later than today's.
LEMMA MonthsAreFew ==
    ASSUME BooksInv
    PROVE  /\ MonthsOf(Booked) = MonthsOf(In) \cup MonthsOf(Out)
           /\ IsFiniteSet(MonthsOf(Booked))
           /\ \A m \in MonthsOf(Booked) : m \in Int /\ m <= Months
<1>1. In \cup Out = Booked /\ Booked \subseteq DOMAIN ledger
    BY DEF In, Out, Booked
<1>2. MonthsOf(Booked) = MonthsOf(In) \cup MonthsOf(Out)
    BY <1>1 DEF MonthsOf
<1>3. IsFiniteSet(Booked)
    BY <1>1, WhatCameIn, FS_Subset
<1>4. IsFiniteSet(MonthsOf(Booked))
    <2> DEFINE of == [k \in Booked |-> MonthOf(ledger[k].day)]
    <2>1. of \in Surjection(Booked, MonthsOf(Booked))
        BY DEF Surjection, MonthsOf
    <2> HIDE DEF of
    <2>. QED
        BY <1>3, <2>1, FS_Surjection
<1>5. ASSUME NEW k \in Booked PROVE MonthOf(ledger[k].day) \in Int /\ MonthOf(ledger[k].day) <= Months
    <2>1. ledger[k] \in Entries
        BY <1>1, ElementOfSeq, LenProperties DEF BooksInv, BooksType
    <2> DEFINE day == ledger[k].day
    <2>2. day \in Int /\ day <= 30 * Months + 29 /\ Months \in Nat
        BY <2>1, BooksAssumption DEF Booked, AsOf, Entries
    <2> HIDE DEF day
    <2>3. day \div 30 \in Int /\ day \div 30 <= Months
        BY <2>2
    <2>. QED
        BY <2>3 DEF MonthOf, day
<1>. QED
    BY <1>2, <1>4, <1>5 DEF MonthsOf

\* Complete books have at least the two months that an average of complete months needs.
LEMMA MonthsAreEnough ==
    ASSUME BooksInv, EveryMonthIsTraded, closed, Months >= 2
    PROVE  /\ Cardinality(MonthsOf(Booked)) \in Nat
           /\ Cardinality(MonthsOf(Booked)) > 1
<1> DEFINE M == MonthsOf(Booked)
<1>1. Months \in Nat /\ month = Months
    BY BooksAssumption DEF EveryMonthIsTraded
<1>2. 0 \in TradedIn(ledger) /\ 1 \in TradedIn(ledger)
    <2>1. 0 \in 0..(month - 1) /\ 1 \in 0..(month - 1)
        BY <1>1
    <2>. QED
        BY <2>1 DEF EveryMonthIsTraded
<1>3. ASSUME NEW m \in {0, 1}, m \in TradedIn(ledger) PROVE m \in M
    <2>1. PICK k \in DOMAIN ledger : MonthOf(ledger[k].day) = m
        BY <1>3 DEF TradedIn
    <2>2. ledger[k] \in Entries
        BY ElementOfSeq, LenProperties DEF BooksInv, BooksType
    <2> DEFINE day == ledger[k].day
    <2>3. day \in Int /\ day \div 30 = m
        BY <2>1, <2>2 DEF Entries, MonthOf
    <2> HIDE DEF day
    <2>4. day <= 30 * Months + 29
        BY <1>1, <2>3
    <2>5. k \in Booked
        BY <2>4 DEF Booked, AsOf, day
    <2>. QED
        BY <2>1, <2>5 DEF MonthsOf
<1>4. IsFiniteSet(M)
    BY MonthsAreFew
<1>5. {0, 1} \in SUBSET M
    BY <1>2, <1>3
<1> HIDE DEF M
<1>6. Cardinality({0, 1}) = 2
    <2>1. IsFiniteSet({0}) /\ Cardinality({0}) = 1
        BY FS_Singleton
    <2>2. Cardinality({0} \cup {1}) = 2
        BY <2>1, FS_AddElement
    <2>3. {0} \cup {1} = {0, 1}
        OBVIOUS
    <2>. QED
        BY <2>2, <2>3
<1>7. Cardinality({0, 1}) <= Cardinality(M) /\ Cardinality(M) \in Nat
    BY <1>4, <1>5, FS_Subset, FS_CardinalityType
<1>. QED
    BY <1>6, <1>7 DEF M

\* The last months of a set of them: finitely many, and some if there are any.
LEMMA LatestOfSome ==
    ASSUME NEW S, IsFiniteSet(S), \A m \in S : m \in Int /\ m <= Months
    PROVE  /\ IsFiniteSet(Latest(S, 3)) /\ Cardinality(Latest(S, 3)) \in Nat
           /\ Latest(S, 3) # {} => Cardinality(Latest(S, 3)) > 0
           /\ S # {} => Latest(S, 3) # {}
<1>1. Latest(S, 3) \in SUBSET S
    BY DEF Latest
<1>2. IsFiniteSet(Latest(S, 3)) /\ Cardinality(Latest(S, 3)) \in Nat
    BY <1>1, FS_Subset, FS_CardinalityType
<1>3. Latest(S, 3) # {} => Cardinality(Latest(S, 3)) > 0
    BY <1>2, FS_EmptySet
<1>4. ASSUME S # {} PROVE Latest(S, 3) # {}
    <2> DEFINE D == {Months - m : m \in S}
    <2>1. Months \in Nat
        BY BooksAssumption
    <2>2. D \subseteq Nat /\ D # {}
        BY <1>4, <2>1
    <2>3. PICK d \in D : \A e \in D : d <= e
        <3> HIDE DEF D
        <3>. QED
            BY <2>2, MinIsLeast
    <2>4. PICK m \in S : d = Months - m
        OBVIOUS
    <2>5. \A l \in S : ~(l > m)
        <3>1. ASSUME NEW l \in S PROVE ~(l > m)
            <4>1. d <= Months - l
                BY <2>3
            <4>. QED
                BY <2>1, <2>4, <4>1
        <3>. QED
            BY <3>1
    <2>6. {l \in S : l > m} = {}
        BY <2>5
    <2>7. Cardinality({l \in S : l > m}) = 0
        BY <2>6, FS_EmptySet
    <2>8. m \in Latest(S, 3)
        BY <2>7 DEF Latest
    <2>. QED
        BY <2>8
<1>. QED
    BY <1>2, <1>3, <1>4

\* With a larger loss the cash lasts no longer.
LEMMA LargerLossIsShorter ==
    ASSUME Cash \in Int, NEW less \in Int, NEW more \in Int, less <= more,
           NEW months \in Nat \ {0}
    PROVE  NoLonger(Lasts(more, months), Lasts(less, months))
<1>1. CASE Cash <= 0
    <2>1. Lasts(more, months) = Number(0) /\ Lasts(less, months) = Number(0)
        BY <1>1 DEF Lasts
    <2>. QED
        BY <2>1 DEF NoLonger, Number
<1>2. CASE ~(Cash <= 0) /\ less <= 0
    BY <1>2 DEF Lasts, NoLonger, Says
<1>3. CASE ~(Cash <= 0) /\ ~(less <= 0)
    <2> DEFINE n == 10 * Cash * months
    <2>1. n \in Nat
        BY <1>3
    <2>2. /\ Lasts(more, months) = Number(Rounded(n, more))
          /\ Lasts(less, months) = Number(Rounded(n, less))
        BY <1>3 DEF Lasts
    <2>3. less \in Nat \ {0} /\ more \in Nat \ {0}
        BY <1>3
    <2> HIDE DEF n
    <2>4. Rounded(n, more) <= Rounded(n, less)
        BY <2>1, <2>3, RoundedOfLess
    <2>. QED
        BY <2>2, <2>4 DEF NoLonger, Number
<1>. QED
    BY <1>1, <1>2, <1>3

\* A loss of a month lasts as long as as many times the loss in as many months.
LEMMA LastsInTerms ==
    ASSUME Cash \in Int, NEW loss \in Int, NEW months \in Nat \ {0}
    PROVE  Lasts(loss, 1) = Lasts(months * loss, months)
<1> DEFINE large == months * loss
<1>1. large \in Int /\ (large <= 0 <=> loss <= 0) /\ (loss > 0 => large > 0)
    <2>1. large \in Int
        OBVIOUS
    <2>2. loss <= 0 => large <= 0
        OBVIOUS
    <2>3. loss > 0 => large > 0
        OBVIOUS
    <2> HIDE DEF large
    <2>. QED
        BY <2>1, <2>2, <2>3
<1>2. CASE Cash <= 0
    BY <1>2 DEF Lasts
<1>3. CASE ~(Cash <= 0) /\ loss <= 0
    BY <1>1, <1>3 DEF Lasts
<1>4. CASE ~(Cash <= 0) /\ ~(loss <= 0)
    <2> DEFINE n == 10 * Cash
    <2>1. n \in Nat /\ loss \in Nat \ {0}
        BY <1>4
    <2>2. Lasts(loss, 1) = Number(Rounded(10 * Cash * 1, loss)) /\ 10 * Cash * 1 = n
        BY <1>4 DEF Lasts
    <2>3. Lasts(large, months) = Number(Rounded(10 * Cash * months, large))
        BY <1>1, <1>4 DEF Lasts
    <2>4. 10 * Cash * months = months * n
        OBVIOUS
    <2> HIDE DEF n
    <2>5. Rounded(months * n, months * loss) = Rounded(n, loss)
        BY <2>1, RoundedInTerms
    <2>. QED
        BY <2>2, <2>3, <2>4, <2>5
<1>. QED
    BY <1>2, <1>3, <1>4

\* In a scenario months and amounts are those of the two flows.
LEMMA ScenarioIs ==
    ASSUME BooksInv, NEW revenue \in Int, NEW expenses \in Int
    PROVE  LET recent == Latest(ButTheLast(MonthsOf(Booked)), 3)
           IN  Scenario(revenue, expenses) =
                   IF recent = {} THEN Unanswerable
                   ELSE Lasts(-(Lately(In, recent) * revenue + Lately(Out, recent) * expenses),
                              100 * Cardinality(recent))
    BY MonthsAreFew DEF Scenario, Lately

\* The months of a scenario.
LEMMA ScenarioMonths ==
    ASSUME BooksInv, NEW recent, recent = Latest(ButTheLast(MonthsOf(Booked)), 3)
    PROVE  /\ Cardinality(recent) \in Nat
           /\ recent # {} => Cardinality(recent) > 0
           /\ ButTheLast(MonthsOf(Booked)) # {} => recent # {}
<1> DEFINE S == ButTheLast(MonthsOf(Booked))
<1>1. S \in SUBSET MonthsOf(Booked)
    BY DEF ButTheLast
<1> HIDE DEF S
<1>2. IsFiniteSet(S) /\ \A m \in S : m \in Int /\ m <= Months
    BY <1>1, MonthsAreFew, FS_Subset
<1>. QED
    BY <1>2, LatestOfSome DEF S

\* Of the two scenarios of the runway, the one that cuts costs never lasts shorter than the
\* one that loses revenue, in any books and at any time: both oracles take the same months,
\* and rounding to a tenth of a month keeps the order.
THEOREM ScenariosAreOrdered ==
    BooksSpec => []( \/ RevenueDrop = Unanswerable /\ ExpenseCut = Unanswerable
                     \/ NoLonger(RevenueDrop, ExpenseCut) )
<1> DEFINE Ordered == \/ RevenueDrop = Unanswerable /\ ExpenseCut = Unanswerable
                      \/ NoLonger(RevenueDrop, ExpenseCut)
<1>1. BooksInv => Ordered
    <2> SUFFICES ASSUME BooksInv PROVE Ordered
        OBVIOUS
    <2> DEFINE recent == Latest(ButTheLast(MonthsOf(Booked)), 3)
               in == Lately(In, recent)
               out == Lately(Out, recent)
               drop == -(in * 80 + out * 100)
               cut == -(in * 100 + out * 85)
    <2>1. /\ RevenueDrop = IF recent = {} THEN Unanswerable
                           ELSE Lasts(drop, 100 * Cardinality(recent))
          /\ ExpenseCut = IF recent = {} THEN Unanswerable
                          ELSE Lasts(cut, 100 * Cardinality(recent))
        BY ScenarioIs DEF RevenueDrop, ExpenseCut
    <2>2. in \in Nat /\ out \in Int /\ out <= 0
        BY LatelyAddsUp
    <2>3. Cardinality(recent) \in Nat /\ (recent # {} => Cardinality(recent) > 0)
        BY ScenarioMonths
    <2> HIDE DEF recent, in, out
    <2>4. drop \in Int /\ cut \in Int /\ cut <= drop
        BY <2>2
    <2> HIDE DEF drop, cut
    <2>5. CASE recent = {}
        BY <2>1, <2>5
    <2>6. CASE recent # {}
        <3>1. 100 * Cardinality(recent) \in Nat \ {0}
            BY <2>3, <2>6
        <3>2. NoLonger(Lasts(drop, 100 * Cardinality(recent)), Lasts(cut, 100 * Cardinality(recent)))
            BY <2>4, <3>1, CashIsInt, LargerLossIsShorter
        <3>. QED
            BY <2>1, <2>6, <3>2
    <2>. QED
        BY <2>5, <2>6
<1>. QED
    BY <1>1, BooksInvHolds, PTL

\* The three runways are in order where the months of the average moved more than cents.
LEMMA TheRunways ==
    ASSUME BooksInv, EveryMonthIsTraded, closed, Months >= 2, MoreThanCents
    PROVE  RunwaysAreOrdered
<1> DEFINE recent == Latest(ButTheLast(MonthsOf(Booked)), 3)
           m == Cardinality(recent)
           in == Lately(In, recent)
           out == Lately(Out, recent)
           burn == Rounded(in + out, m)
           drop == -(in * 80 + out * 100)
           cut == -(in * 100 + out * 85)
<1>1. Recent(MonthsOf(Booked)) = recent
    BY MonthsAreEnough DEF Recent
<1>2. recent # {} /\ m \in Nat \ {0}
    <2>1. ButTheLast(MonthsOf(Booked)) # {}
        <3>1. MonthsOf(Booked) # {Max(MonthsOf(Booked))}
            <4>1. Cardinality({Max(MonthsOf(Booked))}) = 1
                BY FS_Singleton
            <4>2. Cardinality(MonthsOf(Booked)) # 1
                BY MonthsAreEnough
            <4>. QED
                BY <4>1, <4>2
        <3>2. MonthsOf(Booked) # {}
            <4>1. Cardinality(MonthsOf(Booked)) # 0
                BY MonthsAreEnough
            <4>. QED
                BY <4>1, FS_EmptySet
        <3>. QED
            BY <3>1, <3>2 DEF ButTheLast
    <2>. QED
        BY <2>1, ScenarioMonths
<1>3. /\ in \in Nat /\ out \in Int /\ out <= 0
      /\ Lately(Booked, recent) = in + out
    BY LatelyAddsUp
<1>4. 2 * in >= 5 * m /\ -3 * out >= 10 * m
    BY <1>1 DEF MoreThanCents
<1>5. MonthlyBurn = Over(burn, recent)
    <2>1. Sum({k \in Booked : MonthOf(ledger[k].day) \in recent}) = in + out
        BY <1>3 DEF Lately
    <2>. QED
        BY <1>1, <1>2, <2>1 DEF MonthlyBurn
<1>6. CashRunway = Lasts(-burn, 1)
    BY <1>5 DEF CashRunway, Over, Unanswerable, Says
<1>7. RevenueDrop = Lasts(drop, 100 * m) /\ ExpenseCut = Lasts(cut, 100 * m)
    BY <1>2, ScenarioIs DEF RevenueDrop, ExpenseCut
<1>8. Cash \in Int
    BY CashIsInt
<1> HIDE DEF recent, m, in, out
<1>9. in + out \in Int
    BY <1>3
<1>10. /\ burn \in Int
       /\ 2 * (m * burn) <= 2 * (in + out) + m
       /\ 2 * (in + out) <= 2 * (m * burn) + m
    BY <1>2, <1>9, RoundedIsClose
<1> HIDE DEF burn
<1> DEFINE steady == (100 * m) * (-burn)
<1>11. 100 * m \in Nat \ {0} /\ -burn \in Int
    BY <1>2, <1>10
<1>12. steady \in Int /\ steady = -(100 * (m * burn))
    <2>1. \A a, b \in Int : (100 * a) * (-b) = -(100 * (a * b))
        OBVIOUS
    <2>2. m \in Int
        BY <1>2
    <2>. QED
        BY <1>10, <1>11, <2>1, <2>2
<1>13. CashRunway = Lasts(steady, 100 * m)
    BY <1>6, <1>8, <1>11, LastsInTerms
<1>14. drop \in Int /\ cut \in Int /\ steady <= drop /\ cut <= steady
    <2> DEFINE whole == m * burn
    <2>1. whole \in Int /\ steady = -(100 * whole)
        BY <1>2, <1>10, <1>12
    <2>2. 2 * whole <= 2 * (in + out) + m /\ 2 * (in + out) <= 2 * whole + m
        BY <1>10
    <2> HIDE DEF whole, steady
    <2>. QED
        BY <1>2, <1>3, <1>4, <2>1, <2>2
<1> HIDE DEF drop, cut, steady
<1>15. /\ NoLonger(Lasts(drop, 100 * m), Lasts(steady, 100 * m))
       /\ NoLonger(Lasts(steady, 100 * m), Lasts(cut, 100 * m))
    BY <1>8, <1>11, <1>12, <1>14, LargerLossIsShorter
<1>. QED
    BY <1>7, <1>13, <1>15 DEF RunwaysAreOrdered

\* All the gold answers of complete books agree, of any business with at least two traded
\* months: the flows, the receivables, and, where the months of the average moved more than
\* a few cents, the three runways that choose their months and round on their own.
THEOREM GoldsAgreeInAllBooks ==
    ASSUME Months >= 2
    PROVE  BooksSpec => [](MoreThanCents => GoldsAgree)
<1>1. BooksSpec => []EveryMonthIsTraded
    <2>1. BooksInv /\ EveryMonthIsTraded /\ [BooksNext]_booksVars => EveryMonthIsTraded'
        BY NextTraded
    <2>. QED
        BY <2>1, InitTraded, BooksInvHolds, PTL DEF BooksSpec
<1>2. BooksInv /\ EveryMonthIsTraded /\ FlowsAddUp /\ OwedAddsUp => (MoreThanCents => GoldsAgree)
    BY TheRunways DEF GoldsAgree
<1>. QED
    BY <1>1, <1>2, BooksInvHolds, FlowsAreTheCash, WhatIsOwedAddsUp, PTL

=============================================================================
