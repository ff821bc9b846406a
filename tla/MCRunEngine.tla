----------------------------- MODULE MCRunEngine -----------------------------
(* Instances of RunEngine for TLC: the sample lists, conversations and prices. *)
EXTENDS RunEngine

CONSTANTS chat, figure, garbled

\* Independent single-turn samples.
Singles == [i \in Input |-> NoConversation]
NoTurns == [i \in Input |-> 0]

\* One three-turn conversation that arrives out of order, beside a single sample.
OneChat == <<chat, NoConversation, chat, chat>>
OutOfOrder == <<2, 0, 0, 1>>

\* The same conversation with its second turn left out by a sample manifest.
GappedChat == <<chat, chat, NoConversation>>
GappedTurns == <<0, 2, 0>>

\* An answer that parses, and one that does not and is shown as "(no answer)".
SpokenAs == [c \in Contents |-> IF c = garbled THEN NoAnswer ELSE c]

PricedOrNot == {2, Unpriced}
AlwaysTwo == {2}
NeverPriced == {Unpriced}
JustReadWrite == {"read_write"}
EveryMode == {"read_write", "read_only", "refresh", "off"}
=============================================================================
