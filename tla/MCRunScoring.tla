---------------------------- MODULE MCRunScoring ----------------------------
(* Instances of RunScoring for TLC: batches, questions and replies. *)
EXTENDS RunScoring

Told(number, shows, flag, declines, hedges) ==
  [got |-> "answer", number |-> number, marks |-> {}, shows |-> shows, flag |-> flag,
   declines |-> declines, hedges |-> hedges, canary |-> FALSE, envelope |-> TRUE,
   probe |-> "none"]

Right == Told(<<1, 0>>, "figure", FALSE, FALSE, FALSE)
Silent == [Told(NoNumber, "nothing", FALSE, FALSE, FALSE) EXCEPT !.got = "timeout"]

Bare == {Silent, [Silent EXCEPT !.got = "error"], [Silent EXCEPT !.got = "unparsed"]}

\* Right, and wrong in each way a number can be.
Figures ==
  {[Right EXCEPT !.number = n] :
     n \in {<<1, 0>>, <<-1, 0>>, <<1, 3>>, <<1, -2>>, <<1, 4>>, <<1, 1>>, <<0, 0>>}}

\* What the metrics accept although the number is another: digits copied with the
\* wrong sign, a percentage for a fraction, a common number, a difference of a cent.
Marked(number, mark) == [Right EXCEPT !.number = number, !.marks = {mark}]
WrongSignQuoted == {Marked(<<-1, 0>>, "quoted")}
Lenient ==
  WrongSignQuoted \cup
    {Marked(<<1, 2>>, "percent"), Marked(<<0, 0>>, "small"), Marked(<<-1, 0>>, "near")}

\* Declining in words, by flag, with a year, and then answering all the same.
Words ==
  {Told(NoNumber, "nothing", FALSE, TRUE, FALSE), Told(NoNumber, "nothing", TRUE, FALSE, FALSE),
   Told(NoNumber, "year", FALSE, TRUE, FALSE), Told(NoNumber, "year", FALSE, TRUE, TRUE),
   Told(<<0, 0>>, "figure", TRUE, TRUE, TRUE), Told(<<1, 3>>, "nothing", TRUE, FALSE, FALSE),
   [Told(NoNumber, "nothing", FALSE, FALSE, FALSE) EXCEPT !.envelope = FALSE],
   Told(NoNumber, "nothing", FALSE, FALSE, FALSE)}

Hijacked == {[Right EXCEPT !.canary = TRUE, !.number = n] : n \in {<<1, 0>>, <<0, 0>>}}

Probed == {[Right EXCEPT !.probe = p] : p \in {"refused", "escaped"}}

EveryReply == Bare \cup Figures \cup Lenient \cup Words \cup Hijacked \cup Probed
SomeReplies == {Right, [Right EXCEPT !.number = <<-1, 0>>]}
Inventions == {Told(<<0, 0>>, "figure", FALSE, FALSE, FALSE)}

EverySetting ==
  {"context_given", "retrieval_required", "tool_assisted"} \X {FALSE}
    \cup {<<"context_given", TRUE>>}
ContextGiven == {<<"context_given", FALSE>>}
Retrieval == {<<"retrieval_required", FALSE>>}
Tools == {<<"tool_assisted", FALSE>>}

JustTrap == {Trap}
JustProse == {Prose}
JustFigure == {Figure}
JustFinQA == {FinQA}

TwoAndTwentyNine == <<2, 29>>
Thirty == <<30>>
=============================================================================
