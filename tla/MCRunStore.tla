----------------------------- MODULE MCRunStore ------------------------------
(* Instances of RunStore for TLC: two datasets of a group, and what may become of them. *)
EXTENDS RunStore

CONSTANTS plain, frozen, other, one, two, three

\* The group names its datasets in another order than the alphabet.
Home2 == [q \in Questions |-> IF q = two THEN "b" ELSE "a"]
GroupOrder == <<"b", "a">>
Alphabet == <<"a", "b">>

\* One question each; or the second dataset has lost its question.
Whole2 == [d \in {"a", "b"} |-> IF d = "a" THEN <<one>> ELSE <<two>>]
Lost2 == [d \in {"a", "b"} |-> IF d = "a" THEN <<one>> ELSE <<>>]
\* Two questions in the dataset that the group names last and the alphabet first.
Uneven == {[d \in {"a", "b"} |-> IF d = "a" THEN <<one, three>> ELSE <<two>>]}
Moving == {Whole2, Lost2}

\* A single dataset with a single question.
OneDataset == <<"a">>
JustOne == {[d \in {"a"} |-> <<one>>]}
OneFrozen == {<<one>>}

BothFrozen == {<<two, one>>}
EitherFrozen == {<<two, one>>, <<one>>}
Unlimited == {0}
TwoAsked == {0, 2}
OneAsked == {0, 1}
JustWhole == {Whole2}
=============================================================================
