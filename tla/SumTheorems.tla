----------------------------- MODULE SumTheorems -----------------------------
(***************************************************************************)
(* What a sum over a finite set is.  SumFunctionOnSet(f, S) of the         *)
(* community modules adds up f[x] for the x of S, one picked element after *)
(* another; the lemmas say that the order of picking does not matter.      *)
(*                                                                         *)
(* The induction is by least counterexample: strict inclusion is           *)
(* well-founded on the subsets of a finite set.                            *)
(***************************************************************************)
EXTENDS Integers, FiniteSets, Functions, FiniteSetTheorems, WellFoundedInduction, TLAPS

\* Among sets of subsets of a finite set, every one that is not empty has a member
\* none of whose proper subsets is in it.
LEMMA LeastSubset ==
  ASSUME NEW S, IsFiniteSet(S), NEW T, T \subseteq SUBSET S, T # {}
  PROVE  \E s \in T : \A u \in SUBSET s : u # s => u \notin T
<1> DEFINE R == StrictSubsetOrdering(S)
<1>1. IsWellFoundedOn(R, SUBSET S)
  BY FS_StrictSubsetOrderingWellFounded, FS_FiniteSubsetsOfFinite
<1>2. \A u, s \in SUBSET S : u \subseteq s /\ u # s => <<u, s>> \in R
  BY DEF StrictSubsetOrdering
<1> HIDE DEF R
<1>3. PICK s \in T : \A u \in T : <<u, s>> \notin R
  BY <1>1, WFMin
<1> QED
  BY <1>2, <1>3

-----------------------------------------------------------------------------
(* The recursion behind a sum. *)

Picked(s) == CHOOSE x \in s : TRUE

Unfolded(h, f, s) == IF s = {} THEN 0 ELSE f[Picked(s)] + h[s \ {Picked(s)}]

\* h has, for every subset of S, its sum by the recursion of the library.
Solves(h, f, S) == h = [s \in SUBSET S |-> Unfolded(h, f, s)]

\* A sum is what any solution of the recursion has for the whole set, if one exists.
LEMMA SumChooses ==
  ASSUME NEW f, NEW S
  PROVE  SumFunctionOnSet(f, S) = (CHOOSE h : Solves(h, f, S))[S]
BY DEF SumFunctionOnSet, FoldFunctionOnSet, MapThenFoldSet, Solves, Unfolded, Picked

\* The picked element of a set is one of its elements.
LEMMA PickedIsMember ==
  ASSUME NEW s, s # {}
  PROVE  Picked(s) \in s
BY DEF Picked

\* What a solution has for a subset.
LEMMA SolutionAt ==
  ASSUME NEW f, NEW S, NEW h, Solves(h, f, S), NEW s \in SUBSET S
  PROVE  h[s] = Unfolded(h, f, s)
BY DEF Solves

\* Two solutions have the same for what is a subset of both their sets.
LEMMA SolutionsAgree ==
  ASSUME NEW f, NEW S, NEW U, IsFiniteSet(S), S \subseteq U,
         NEW h, Solves(h, f, S), NEW g, Solves(g, f, U)
  PROVE  \A s \in SUBSET S : h[s] = g[s]
<1> DEFINE T == {s \in SUBSET S : h[s] # g[s]}
<1>1. SUFFICES ASSUME T # {} PROVE FALSE
  OBVIOUS
<1>2. PICK s \in T : \A u \in SUBSET s : u # s => u \notin T
  <2> HIDE DEF T
  <2>1. T \subseteq SUBSET S
    BY DEF T
  <2> QED BY <1>1, <2>1, LeastSubset
<1>3. s \in SUBSET S /\ s \in SUBSET U /\ h[s] # g[s]
  OBVIOUS
<1>4. h[s] = Unfolded(h, f, s) /\ g[s] = Unfolded(g, f, s)
  <2>1. h[s] = Unfolded(h, f, s)
    BY <1>3, SolutionAt
  <2>2. g[s] = Unfolded(g, f, s)
    BY <1>3, SolutionAt
  <2> QED BY <2>1, <2>2
<1>5. s # {}
  BY <1>3, <1>4 DEF Unfolded
<1>6. h[s \ {Picked(s)}] = g[s \ {Picked(s)}]
  BY <1>2, <1>3, <1>5, PickedIsMember
<1> QED
  BY <1>3, <1>4, <1>5, <1>6 DEF Unfolded

\* The recursion has a solution for every finite set.
LEMMA SolutionExists ==
  ASSUME NEW f, NEW S, IsFiniteSet(S)
  PROVE  Solves(CHOOSE h : Solves(h, f, S), f, S)
<1> DEFINE T == {s \in SUBSET S : ~\E h : Solves(h, f, s)}
<1>1. SUFFICES ASSUME T # {} PROVE FALSE
  <2>1. S \notin T => \E h : Solves(h, f, S)
    OBVIOUS
  <2> QED BY <2>1
<1>2. PICK s \in T : \A u \in SUBSET s : u # s => u \notin T
  <2> HIDE DEF T
  <2>1. T \subseteq SUBSET S
    BY DEF T
  <2> QED BY <1>1, <2>1, LeastSubset
<1>3. s \in SUBSET S /\ ~\E h : Solves(h, f, s)
  OBVIOUS
<1> DEFINE Part(u) == CHOOSE h : Solves(h, f, u)
<1>4. ASSUME NEW u \in SUBSET s, u # s PROVE Solves(Part(u), f, u)
  <2>1. \E h : Solves(h, f, u)
    BY <1>2, <1>3, <1>4
  <2> QED BY <2>1
<1> DEFINE Step(r) == IF r = {} THEN 0 ELSE f[Picked(r)] + Part(r \ {Picked(r)})[r \ {Picked(r)}]
           H == [r \in SUBSET s |-> Step(r)]
<1> HIDE DEF T, Part
<1>5. ASSUME NEW u \in SUBSET s, u # s PROVE H[u] = Part(u)[u]
  <2>1. H[u] = Step(u)
    BY <1>5
  <2>2. Part(u)[u] = Unfolded(Part(u), f, u)
    BY <1>4, <1>5, SolutionAt
  <2>3. CASE u = {}
    BY <2>1, <2>2, <2>3 DEF Unfolded
  <2>4. CASE u # {}
    <3> DEFINE v == u \ {Picked(u)}
    <3>1. Picked(u) \in u
      BY <2>4, PickedIsMember
    <3>2. v \in SUBSET s /\ v # s /\ v \subseteq u /\ v \in SUBSET v /\ IsFiniteSet(v)
      BY <1>3, <1>5, <3>1, FS_Subset
    <3>3. Solves(Part(v), f, v) /\ Solves(Part(u), f, u)
      BY <1>4, <1>5, <3>2
    <3>4. \A w \in SUBSET v : Part(v)[w] = Part(u)[w]
      BY <3>2, <3>3, SolutionsAgree
    <3> QED BY <2>1, <2>2, <2>4, <3>2, <3>4 DEF Unfolded
  <2> QED BY <2>3, <2>4
<1>6. ASSUME NEW r \in SUBSET s
      PROVE  Step(r) = Unfolded(H, f, r)
  <2>1. CASE r = {}
    BY <2>1 DEF Unfolded
  <2>2. CASE r # {}
    <3>1. r \ {Picked(r)} \in SUBSET s /\ r \ {Picked(r)} # s
      BY <1>6, <2>2, PickedIsMember
    <3>2. H[r \ {Picked(r)}] = Part(r \ {Picked(r)})[r \ {Picked(r)}]
      BY <1>5, <3>1
    <3> QED BY <2>2, <3>2 DEF Unfolded
  <2> QED BY <2>1, <2>2
<1>7. H = [r \in SUBSET s |-> Unfolded(H, f, r)]
  <2> HIDE DEF Step
  <2> QED BY <1>6
<1>8. Solves(H, f, s)
  BY <1>7 DEF Solves
<1> QED
  BY <1>3, <1>8

\* A sum is zero, or the picked element's value and the sum of the rest.
LEMMA SumUnfolds ==
  ASSUME NEW f, NEW S, IsFiniteSet(S)
  PROVE  SumFunctionOnSet(f, S) =
           IF S = {} THEN 0
           ELSE f[Picked(S)] + SumFunctionOnSet(f, S \ {Picked(S)})
<1> DEFINE h == CHOOSE h : Solves(h, f, S)
           rest == S \ {Picked(S)}
           g == CHOOSE g : Solves(g, f, rest)
<1>1. Solves(h, f, S)
  BY SolutionExists
<1>2. IsFiniteSet(rest) /\ rest \subseteq S
  BY FS_Subset
<1>3. Solves(g, f, rest)
  BY <1>2, SolutionExists
<1>4. SumFunctionOnSet(f, S) = h[S] /\ SumFunctionOnSet(f, rest) = g[rest]
  BY SumChooses
<1> HIDE DEF h, g
<1>5. g[rest] = h[rest]
  BY <1>1, <1>2, <1>3, SolutionsAgree
<1>6. h[S] = Unfolded(h, f, S)
  <2>1. S \in SUBSET S
    OBVIOUS
  <2> QED BY <1>1, <2>1, SolutionAt
<1> QED
  <2>1. rest \in SUBSET rest
    OBVIOUS
  <2> QED BY <1>4, <1>5, <1>6, <2>1 DEF Unfolded

-----------------------------------------------------------------------------
(* Sums of integers. *)

\* The sum over nothing is zero.
LEMMA SumEmpty ==
  ASSUME NEW f
  PROVE  SumFunctionOnSet(f, {}) = 0
BY SumUnfolds, FS_EmptySet

\* A sum of integers is an integer, and one of naturals a natural.
LEMMA SumType ==
  ASSUME NEW f, NEW S, IsFiniteSet(S), NEW V \in {Nat, Int}, \A x \in S : f[x] \in V
  PROVE  SumFunctionOnSet(f, S) \in V
<1> DEFINE T == {s \in SUBSET S : SumFunctionOnSet(f, s) \notin V}
<1>1. SUFFICES ASSUME T # {} PROVE FALSE
  OBVIOUS
<1>2. PICK s \in T : \A u \in SUBSET s : u # s => u \notin T
  <2> HIDE DEF T
  <2>1. T \subseteq SUBSET S
    BY DEF T
  <2> QED BY <1>1, <2>1, LeastSubset
<1>3. s \in SUBSET S /\ SumFunctionOnSet(f, s) \notin V /\ IsFiniteSet(s)
  BY FS_Subset
<1>4. SumFunctionOnSet(f, s) =
        IF s = {} THEN 0 ELSE f[Picked(s)] + SumFunctionOnSet(f, s \ {Picked(s)})
  BY <1>3, SumUnfolds
<1>5. s # {}
  BY <1>3, <1>4
<1>6. Picked(s) \in s
  BY <1>5, PickedIsMember
<1>7. SumFunctionOnSet(f, s \ {Picked(s)}) \in V
  BY <1>2, <1>3, <1>6
<1>8. f[Picked(s)] \in V
  BY <1>3, <1>6
<1> QED
  BY <1>3, <1>4, <1>5, <1>7, <1>8

\* Any element may be taken out of a sum, not only the picked one.
LEMMA SumRemove ==
  ASSUME NEW f, NEW S, IsFiniteSet(S), \A x \in S : f[x] \in Int, NEW y \in S
  PROVE  SumFunctionOnSet(f, S) = f[y] + SumFunctionOnSet(f, S \ {y})
<1> DEFINE Sum(s) == SumFunctionOnSet(f, s)
           T == {s \in SUBSET S : \E x \in s : Sum(s) # f[x] + Sum(s \ {x})}
<1>1. SUFFICES ASSUME T # {} PROVE FALSE
  OBVIOUS
<1>2. PICK s \in T : \A u \in SUBSET s : u # s => u \notin T
  <2> HIDE DEF T
  <2>1. T \subseteq SUBSET S
    BY DEF T
  <2> QED BY <1>1, <2>1, LeastSubset
<1>3. s \in SUBSET S /\ IsFiniteSet(s)
  BY FS_Subset
<1>4. PICK x \in s : Sum(s) # f[x] + Sum(s \ {x})
  OBVIOUS
<1>5. \A u \in SUBSET s : u # s => \A v \in u : Sum(u) = f[v] + Sum(u \ {v})
  BY <1>2, <1>3
<1> DEFINE p == Picked(s)
<1>6. p \in s
  BY <1>4, PickedIsMember
<1>7. Sum(s) = f[p] + Sum(s \ {p})
  BY <1>3, <1>4, SumUnfolds
<1>8. p # x
  BY <1>4, <1>7
<1> HIDE DEF T, p
<1>9. Sum(s \ {p}) = f[x] + Sum((s \ {p}) \ {x})
  BY <1>4, <1>5, <1>6, <1>8
<1>10. Sum(s \ {x}) = f[p] + Sum((s \ {x}) \ {p})
  BY <1>4, <1>5, <1>6, <1>8
<1>11. Sum((s \ {p}) \ {x}) = Sum((s \ {x}) \ {p})
  <2>1. (s \ {p}) \ {x} = (s \ {x}) \ {p}
    OBVIOUS
  <2> QED BY <2>1, Zenon
<1>12. f[x] \in Int /\ f[p] \in Int
  BY <1>3, <1>4, <1>6
<1>13. Sum((s \ {x}) \ {p}) \in Int
  <2>1. IsFiniteSet((s \ {x}) \ {p}) /\ \A z \in (s \ {x}) \ {p} : f[z] \in Int
    BY <1>3, FS_Subset
  <2> QED BY <2>1, SumType
<1> HIDE DEF Sum
<1> QED
  BY <1>4, <1>7, <1>9, <1>10, <1>11, <1>12, <1>13

\* One more element adds its value.
LEMMA SumAdd ==
  ASSUME NEW f, NEW S, IsFiniteSet(S), NEW y, y \notin S,
         \A x \in S \cup {y} : f[x] \in Int
  PROVE  SumFunctionOnSet(f, S \cup {y}) = SumFunctionOnSet(f, S) + f[y]
<1>1. IsFiniteSet(S \cup {y}) /\ (S \cup {y}) \ {y} = S
  BY FS_AddElement
<1>2. SumFunctionOnSet(f, S \cup {y}) = f[y] + SumFunctionOnSet(f, (S \cup {y}) \ {y})
  BY <1>1, SumRemove
<1>3. SumFunctionOnSet(f, S) \in Int /\ f[y] \in Int
  BY SumType
<1>4. SumFunctionOnSet(f, (S \cup {y}) \ {y}) = SumFunctionOnSet(f, S)
  BY <1>1, Zenon
<1> QED
  BY <1>2, <1>3, <1>4

\* A sum depends on nothing but the values it adds up, and grows with each of them.
LEMMA SumMonotone ==
  ASSUME NEW f, NEW g, NEW S, IsFiniteSet(S),
         \A x \in S : f[x] \in Int /\ g[x] \in Int /\ f[x] <= g[x]
  PROVE  SumFunctionOnSet(f, S) <= SumFunctionOnSet(g, S)
<1> DEFINE T == {s \in SUBSET S : ~(SumFunctionOnSet(f, s) <= SumFunctionOnSet(g, s))}
<1>1. SUFFICES ASSUME T # {} PROVE FALSE
  OBVIOUS
<1>2. PICK s \in T : \A u \in SUBSET s : u # s => u \notin T
  <2> HIDE DEF T
  <2>1. T \subseteq SUBSET S
    BY DEF T
  <2> QED BY <1>1, <2>1, LeastSubset
<1>3. /\ s \in SUBSET S /\ IsFiniteSet(s)
      /\ ~(SumFunctionOnSet(f, s) <= SumFunctionOnSet(g, s))
  BY FS_Subset
<1>4. s # {}
  BY <1>3, SumEmpty
<1>5. PICK x \in s : TRUE
  BY <1>4
<1>6. SumFunctionOnSet(f, s \ {x}) <= SumFunctionOnSet(g, s \ {x})
  BY <1>2, <1>3, <1>5
<1>7. IsFiniteSet(s \ {x})
  BY <1>3, FS_Subset
<1>8. SumFunctionOnSet(f, s \ {x}) \in Int /\ SumFunctionOnSet(g, s \ {x}) \in Int
  BY <1>3, <1>7, SumType
<1>9. /\ SumFunctionOnSet(f, s) = f[x] + SumFunctionOnSet(f, s \ {x})
      /\ SumFunctionOnSet(g, s) = g[x] + SumFunctionOnSet(g, s \ {x})
  BY <1>3, <1>5, SumRemove
<1> QED
  BY <1>3, <1>5, <1>6, <1>8, <1>9

\* Functions that agree on a set have one sum over it.
LEMMA SumSame ==
  ASSUME NEW f, NEW g, NEW S, IsFiniteSet(S), \A x \in S : f[x] \in Int /\ f[x] = g[x]
  PROVE  SumFunctionOnSet(f, S) = SumFunctionOnSet(g, S)
<1>1. /\ SumFunctionOnSet(f, S) <= SumFunctionOnSet(g, S)
      /\ SumFunctionOnSet(g, S) <= SumFunctionOnSet(f, S)
  BY SumMonotone
<1>2. SumFunctionOnSet(f, S) \in Int /\ SumFunctionOnSet(g, S) \in Int
  BY SumType
<1> QED
  BY <1>1, <1>2

\* The sum over two sets that share nothing is the sum of their sums.
LEMMA SumUnion ==
  ASSUME NEW f, NEW S, NEW U, IsFiniteSet(S), IsFiniteSet(U), S \cap U = {},
         \A x \in S \cup U : f[x] \in Int
  PROVE  SumFunctionOnSet(f, S \cup U) = SumFunctionOnSet(f, S) + SumFunctionOnSet(f, U)
<1> DEFINE Sum(s) == SumFunctionOnSet(f, s)
           T == {s \in SUBSET U : Sum(S \cup s) # Sum(S) + Sum(s)}
<1>1. SUFFICES ASSUME T # {} PROVE FALSE
  OBVIOUS
<1>2. PICK s \in T : \A u \in SUBSET s : u # s => u \notin T
  <2> HIDE DEF T
  <2>1. T \subseteq SUBSET U
    BY DEF T
  <2> QED BY <1>1, <2>1, LeastSubset
<1>3. s \in SUBSET U /\ IsFiniteSet(s) /\ Sum(S \cup s) # Sum(S) + Sum(s)
  BY FS_Subset
<1>4. Sum(S) \in Int
  BY SumType
<1>5. CASE s = {}
  <2>1. Sum(s) = 0
    BY <1>5, SumEmpty
  <2>2. S \cup s = S
    BY <1>5
  <2>3. Sum(S \cup s) = Sum(S)
    BY <2>2, Zenon
  <2> HIDE DEF Sum
  <2> QED BY <1>3, <1>4, <2>1, <2>3
<1>6. CASE s # {}
  <2>1. PICK x \in s : TRUE
    BY <1>6
  <2>2. Sum(S \cup (s \ {x})) = Sum(S) + Sum(s \ {x})
    BY <1>2, <1>3, <2>1
  <2>3. IsFiniteSet(s \ {x}) /\ IsFiniteSet(S \cup s) /\ (S \cup s) \ {x} = S \cup (s \ {x})
    BY <1>3, <2>1, FS_Subset, FS_Union
  <2>4. Sum(s) = f[x] + Sum(s \ {x})
    BY <1>3, <2>1, SumRemove
  <2>5. Sum(S \cup s) = f[x] + Sum((S \cup s) \ {x})
    <3>1. \A z \in S \cup s : f[z] \in Int
      BY <1>3
    <3> QED BY <2>1, <2>3, <3>1, SumRemove
  <2>6. f[x] \in Int /\ Sum(s \ {x}) \in Int
    BY <1>3, <2>1, <2>3, SumType
  <2>7. Sum((S \cup s) \ {x}) = Sum(S \cup (s \ {x}))
    BY <2>3, Zenon
  <2> HIDE DEF Sum
  <2> QED BY <1>3, <1>4, <2>2, <2>4, <2>5, <2>6, <2>7
<1> QED
  BY <1>5, <1>6

\* A part of a sum of naturals is no more than the whole.
LEMMA SumSubset ==
  ASSUME NEW f, NEW S, IsFiniteSet(S), \A x \in S : f[x] \in Nat, NEW U \in SUBSET S
  PROVE  SumFunctionOnSet(f, U) <= SumFunctionOnSet(f, S)
<1>1. IsFiniteSet(U) /\ IsFiniteSet(S \ U) /\ U \cup (S \ U) = S /\ U \cap (S \ U) = {}
  BY FS_Subset
<1>2. SumFunctionOnSet(f, U) \in Nat /\ SumFunctionOnSet(f, S \ U) \in Nat
  BY <1>1, SumType
<1>3. \A x \in U \cup (S \ U) : f[x] \in Int
  BY <1>1
<1>4. SumFunctionOnSet(f, U \cup (S \ U)) = SumFunctionOnSet(f, U) + SumFunctionOnSet(f, S \ U)
  BY <1>1, <1>3, SumUnion
<1>5. SumFunctionOnSet(f, U \cup (S \ U)) = SumFunctionOnSet(f, S)
  BY <1>1, Zenon
<1> QED
  BY <1>2, <1>4, <1>5

\* Changing one value changes the sum by the difference.
LEMMA SumChange ==
  ASSUME NEW f, NEW g, NEW S, IsFiniteSet(S), NEW y \in S,
         \A x \in S : f[x] \in Int /\ g[x] \in Int,
         \A x \in S \ {y} : f[x] = g[x]
  PROVE  SumFunctionOnSet(g, S) = SumFunctionOnSet(f, S) + (g[y] - f[y])
<1>1. IsFiniteSet(S \ {y})
  BY FS_Subset
<1>2. SumFunctionOnSet(f, S \ {y}) = SumFunctionOnSet(g, S \ {y})
  BY <1>1, SumSame
<1>3. SumFunctionOnSet(f, S \ {y}) \in Int
  BY <1>1, SumType
<1>4. /\ SumFunctionOnSet(f, S) = f[y] + SumFunctionOnSet(f, S \ {y})
      /\ SumFunctionOnSet(g, S) = g[y] + SumFunctionOnSet(g, S \ {y})
  BY SumRemove
<1> QED
  BY <1>2, <1>3, <1>4

\* A sum of zeros is zero.
LEMMA SumOfZeros ==
  ASSUME NEW f, NEW S, IsFiniteSet(S), \A x \in S : f[x] = 0
  PROVE  SumFunctionOnSet(f, S) = 0
<1>1. \A x \in S : f[x] \in {0} /\ f[x] \in Int
  OBVIOUS
<1> DEFINE T == {s \in SUBSET S : SumFunctionOnSet(f, s) # 0}
<1>2. SUFFICES ASSUME T # {} PROVE FALSE
  OBVIOUS
<1>3. PICK s \in T : \A u \in SUBSET s : u # s => u \notin T
  <2> HIDE DEF T
  <2>1. T \subseteq SUBSET S
    BY DEF T
  <2> QED BY <1>2, <2>1, LeastSubset
<1>4. s \in SUBSET S /\ IsFiniteSet(s) /\ SumFunctionOnSet(f, s) # 0
  BY FS_Subset
<1>5. PICK x \in s : TRUE
  BY <1>4, SumEmpty
<1>6. SumFunctionOnSet(f, s \ {x}) = 0
  BY <1>3, <1>4, <1>5
<1>7. SumFunctionOnSet(f, s) = f[x] + SumFunctionOnSet(f, s \ {x})
  BY <1>1, <1>4, <1>5, SumRemove
<1> QED
  BY <1>1, <1>4, <1>5, <1>6, <1>7

\* What adds nothing may be left out of a sum.
LEMMA SumOfRest ==
  ASSUME NEW f, NEW S, IsFiniteSet(S), NEW U \in SUBSET S, \A x \in U : f[x] \in Int,
         \A x \in S \ U : f[x] = 0
  PROVE  SumFunctionOnSet(f, S) = SumFunctionOnSet(f, U)
<1>1. IsFiniteSet(U) /\ IsFiniteSet(S \ U) /\ U \cup (S \ U) = S /\ U \cap (S \ U) = {}
  BY FS_Subset
<1>2. \A x \in U \cup (S \ U) : f[x] \in Int
  OBVIOUS
<1>3. SumFunctionOnSet(f, U \cup (S \ U)) = SumFunctionOnSet(f, U) + SumFunctionOnSet(f, S \ U)
  BY <1>1, <1>2, SumUnion
<1>4. SumFunctionOnSet(f, S \ U) = 0 /\ SumFunctionOnSet(f, U) \in Int
  BY <1>1, SumOfZeros, SumType
<1>5. SumFunctionOnSet(f, U \cup (S \ U)) = SumFunctionOnSet(f, S)
  BY <1>1, Zenon
<1> QED
  BY <1>3, <1>4, <1>5

\* A sum over 1..n + 1 is one over 1..n and its last value.
LEMMA SumOneMore ==
  ASSUME NEW n \in Nat, NEW f, \A k \in 1..(n + 1) : f[k] \in Int
  PROVE  /\ SumFunctionOnSet(f, 1..(n + 1)) = SumFunctionOnSet(f, 1..n) + f[n + 1]
         /\ SumFunctionOnSet(f, 1..n) \in Int
<1> DEFINE S == 1..n
           U == 1..(n + 1)
           last == n + 1
<1>1. U \ {last} = S /\ last \in U
  OBVIOUS
<1>2. IsFiniteSet(U) /\ IsFiniteSet(S)
  <2>1. n \in Int /\ n + 1 \in Int
    OBVIOUS
  <2> QED BY <2>1, FS_Interval
<1>3. \A k \in U : f[k] \in Int
  OBVIOUS
<1> HIDE DEF S, U, last
<1>4. SumFunctionOnSet(f, U) = f[last] + SumFunctionOnSet(f, U \ {last})
  BY <1>1, <1>2, <1>3, SumRemove
<1>5. SumFunctionOnSet(f, U \ {last}) = SumFunctionOnSet(f, S)
  BY <1>1, Zenon
<1>6. \A k \in S : f[k] \in Int
  BY <1>1, <1>3
<1>7. SumFunctionOnSet(f, S) \in Int /\ f[last] \in Int
  BY <1>1, <1>2, <1>3, <1>6, SumType
<1>8. SumFunctionOnSet(f, U) = SumFunctionOnSet(f, S) + f[last]
  BY <1>4, <1>5, <1>7
<1> QED
  BY <1>7, <1>8 DEF S, U, last

\* Summing in another order gives the same.
LEMMA SumBijection ==
    ASSUME NEW f, NEW g, NEW S, NEW U, IsFiniteSet(S), IsFiniteSet(U),
           NEW b \in Bijection(S, U),
           \A x \in S : g[x] = f[b[x]], \A y \in U : f[y] \in Int
    PROVE  SumFunctionOnSet(g, S) = SumFunctionOnSet(f, U)
<1> DEFINE Image(s) == {b[x] : x \in s}
           T == {s \in SUBSET S : SumFunctionOnSet(g, s) # SumFunctionOnSet(f, Image(s))}
<1>0. /\ \A x \in S : b[x] \in U
      /\ \A x, y \in S : b[x] = b[y] => x = y
      /\ \A y \in U : \E x \in S : b[x] = y
    BY DEF Bijection, Injection, Surjection, IsInjective
<1>1. SUFFICES ASSUME T # {} PROVE FALSE
    <2>1. S \in SUBSET S
        OBVIOUS
    <2>2. SumFunctionOnSet(g, S) = SumFunctionOnSet(f, Image(S))
        BY <1>1, <2>1
    <2>3. Image(S) = U
        BY <1>0
    <2>. QED
        BY <2>2, <2>3
<1>2. PICK s \in T : \A u \in SUBSET s : u # s => u \notin T
    <2> HIDE DEF T
    <2>1. T \subseteq SUBSET S
        BY DEF T
    <2>. QED
        BY <1>1, <2>1, LeastSubset
<1>3. s \in SUBSET S /\ SumFunctionOnSet(g, s) # SumFunctionOnSet(f, Image(s))
    OBVIOUS
<1>4. s # {}
    <2>1. ASSUME s = {} PROVE FALSE
        <3>1. Image(s) = {}
            BY <2>1
        <3>2. SumFunctionOnSet(f, Image(s)) = 0 /\ SumFunctionOnSet(g, s) = 0
            BY <2>1, <3>1, SumEmpty
        <3>. QED
            BY <1>3, <3>2
    <2>. QED
        BY <2>1
<1>5. PICK x \in s : TRUE
    BY <1>4
<1>6. SumFunctionOnSet(g, s \ {x}) = SumFunctionOnSet(f, Image(s \ {x}))
    BY <1>2, <1>3, <1>5
<1>7. Image(s \ {x}) = Image(s) \ {b[x]} /\ b[x] \in Image(s) /\ Image(s) \subseteq U
    BY <1>0, <1>3, <1>5
<1>8. IsFiniteSet(s) /\ IsFiniteSet(Image(s))
    BY <1>3, <1>7, FS_Subset
<1>9. /\ \A y \in s : g[y] \in Int
      /\ \A y \in Image(s) : f[y] \in Int
    BY <1>0, <1>3
<1> HIDE DEF Image, T
<1>10. SumFunctionOnSet(g, s) = g[x] + SumFunctionOnSet(g, s \ {x})
    BY <1>5, <1>8, <1>9, SumRemove
<1>11. SumFunctionOnSet(f, Image(s)) = f[b[x]] + SumFunctionOnSet(f, Image(s) \ {b[x]})
    BY <1>7, <1>8, <1>9, SumRemove
<1>12. SumFunctionOnSet(f, Image(s \ {x})) = SumFunctionOnSet(f, Image(s) \ {b[x]})
    BY <1>7, Zenon
<1>13. g[x] = f[b[x]]
    BY <1>3, <1>5
<1>. QED
    BY <1>3, <1>6, <1>10, <1>11, <1>12, <1>13

\* Each x of S is in one part, that of of[x], and h[m] is the sum over the part of m.
SumsOfParts(h, M, part, of, f, S) ==
  /\ IsFiniteSet(S) /\ IsFiniteSet(M)
  /\ \A x \in S : f[x] \in Int /\ of[x] \in M
  /\ \A m \in M : \A x : x \in part[m] <=> x \in S /\ of[x] = m
  /\ \A m \in M : h[m] = SumFunctionOnSet(f, part[m])

\* A sum may be taken part by part.
LEMMA SumByParts ==
  ASSUME NEW h, NEW M, NEW part, NEW of, NEW f, NEW S, SumsOfParts(h, M, part, of, f, S)
  PROVE  SumFunctionOnSet(h, M) = SumFunctionOnSet(f, S)
<1> USE DEF SumsOfParts
<1> DEFINE Of(U) == {k \in S : of[k] \in U}
           T == {U \in SUBSET M : SumFunctionOnSet(h, U) # SumFunctionOnSet(f, Of(U))}
<1>1. SUFFICES ASSUME T # {} PROVE FALSE
  <2>1. M \in SUBSET M /\ Of(M) = S
    OBVIOUS
  <2>2. SumFunctionOnSet(h, M) = SumFunctionOnSet(f, Of(M))
    BY <1>1, <2>1
  <2> HIDE DEF Of
  <2> QED BY <2>1, <2>2
<1>2. PICK U \in T : \A u \in SUBSET U : u # U => u \notin T
  <2> HIDE DEF T
  <2>1. T \subseteq SUBSET M
    BY DEF T
  <2> QED BY <1>1, <2>1, LeastSubset
<1>3. U \in SUBSET M /\ SumFunctionOnSet(h, U) # SumFunctionOnSet(f, Of(U))
  OBVIOUS
<1>4. U # {}
  <2>1. ASSUME U = {} PROVE FALSE
    <3>1. Of(U) = {}
      BY <2>1
    <3>2. SumFunctionOnSet(f, Of(U)) = 0 /\ SumFunctionOnSet(h, U) = 0
      BY <2>1, <3>1, SumEmpty
    <3> QED BY <1>3, <3>2
  <2> QED BY <2>1
<1>5. PICK m \in U : TRUE
  BY <1>4
<1> DEFINE rest == U \ {m}
           mine == part[m]
<1>6. SumFunctionOnSet(h, rest) = SumFunctionOnSet(f, Of(rest))
  BY <1>2, <1>3, <1>5
<1>7. Of(U) = Of(rest) \cup mine /\ Of(rest) \cap mine = {} /\ mine \subseteq S
  BY <1>3, <1>5
<1>8. /\ IsFiniteSet(Of(rest)) /\ IsFiniteSet(mine) /\ IsFiniteSet(U)
      /\ \A k \in Of(rest) \cup mine : f[k] \in Int
  BY <1>3, <1>7, FS_Subset
<1>9. \A u \in U : h[u] \in Int
  <2>1. ASSUME NEW u \in U PROVE h[u] \in Int
    <3>1. IsFiniteSet(part[u]) /\ \A k \in part[u] : f[k] \in Int
      <4>1. part[u] \subseteq S
        BY <1>3, <2>1
      <4> QED BY <4>1, FS_Subset
    <3>2. Int \in {Nat, Int}
      OBVIOUS
    <3>3. SumFunctionOnSet(f, part[u]) \in Int
      BY <3>1, <3>2, SumType
    <3> QED BY <1>3, <3>3
  <2> QED BY <2>1
<1>10. h[m] = SumFunctionOnSet(f, mine)
  BY <1>3
<1> HIDE DEF Of, T, rest, mine
<1>11. SumFunctionOnSet(f, Of(rest) \cup mine) = SumFunctionOnSet(f, Of(rest)) + SumFunctionOnSet(f, mine)
  BY <1>7, <1>8, SumUnion
<1>12. SumFunctionOnSet(h, U) = h[m] + SumFunctionOnSet(h, U \ {m})
  BY <1>5, <1>8, <1>9, SumRemove
<1>13. SumFunctionOnSet(f, Of(U)) = SumFunctionOnSet(f, Of(rest) \cup mine)
  BY <1>7, Zenon
<1>14. SumFunctionOnSet(f, Of(rest)) \in Int /\ SumFunctionOnSet(f, mine) \in Int
  <2>1. (\A k \in Of(rest) : f[k] \in Int) /\ (\A k \in mine : f[k] \in Int)
    BY <1>8
  <2>2. Int \in {Nat, Int}
    OBVIOUS
  <2> QED BY <1>8, <2>1, <2>2, SumType
<1>15. SumFunctionOnSet(h, U \ {m}) = SumFunctionOnSet(f, Of(rest))
  BY <1>6 DEF rest
<1> QED
  BY <1>3, <1>10, <1>11, <1>12, <1>13, <1>14, <1>15
=============================================================================
