----------------------------- MODULE MCCacheFiles -----------------------------
(* Instances of CacheFiles for TLC. *)
EXTENDS CacheFiles, FiniteSetsExt, TLC

CONSTANTS id1, id2, id3, short, middle, long

Request(messages, id, timeout) ==
  [model |-> "m", sample |-> "s", messages |-> messages, id |-> id, timeout |-> timeout]

\* The second turn of one sample, after one answer to the first and after another; the
\* former is delivered twice, with another patience.
One == {Request("after 10", id1, short)}
MCRequests ==
  One \cup {Request("after 10", id2, long), Request("after 12", id3, middle)}

\* What a process that neither looks up nor saves has last asked is not looked at again.
Live ==
  <<[p \in Procs |-> IF at[p] \in Looking \cup Putting THEN request[p] ELSE None],
    at, mode, asked, answer, fd, todo, files, paid, raced, seen>>

\* Two calls are out at a time, of one process or of two.
TwoOut == MapThenSumSet(LAMBDA p : Cardinality(asked[p]), Procs) <= 2

\* Inodes, processes and the deliveries of one question may change places.
Alike ==
  Permutations(Inodes) \cup Permutations(Procs)
    \cup {id1 :> id2 @@ id2 :> id1 @@ short :> long @@ long :> short}
AnyInode == Permutations(Inodes)
=============================================================================
