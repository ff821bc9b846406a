------------------------------ MODULE AtomicCache ------------------------------
(***************************************************************************)
(* What the users of the response cache rely on.  A get answers what the   *)
(* key held at some moment while it looked; what is saved stays until it   *)
(* is saved again or cleared.  Nothing but the right question is promised  *)
(* of a key that two processes have written at once.                       *)
(***************************************************************************)
CONSTANTS Procs, Keys, AnswersTo(_), None, Pending

VARIABLES
  store,      \* the answer of each key, or None
  clearing,   \* the processes that are emptying the cache
  disputed,   \* keys written by two processes at once
  asking,     \* the key each process has asked for, or None
  seen,       \* what that key held since
  told        \* the answer it was given, None for a miss

vars == <<store, clearing, disputed, asking, seen, told>>

\* A process that asks sees every value its key takes.
Watching ==
  seen' = [p \in Procs |->
    IF asking'[p] = None THEN {}
    ELSE (IF asking[p] = None THEN {} ELSE seen[p]) \cup {store'[asking'[p]]}]

Ask(p, k) ==
  /\ asking[p] = None
  /\ asking' = [asking EXCEPT ![p] = k]
  /\ told' = [told EXCEPT ![p] = Pending]
  /\ UNCHANGED <<store, clearing, disputed>>

Answer(p) ==
  /\ asking[p] # None /\ told[p] = Pending
  /\ \E a \in IF asking[p] \in disputed THEN AnswersTo(asking[p]) \cup {None} ELSE seen[p] :
       told' = [told EXCEPT ![p] = a]
  /\ UNCHANGED <<store, clearing, disputed, asking>>

Leave(p) ==
  /\ asking' = [asking EXCEPT ![p] = None]
  /\ told' = [told EXCEPT ![p] = None]
  /\ clearing' = clearing \ {p}
  /\ UNCHANGED <<store, disputed>>

Save(k) ==
  /\ \E a \in AnswersTo(k) : store' = [store EXCEPT ![k] = a]
  /\ UNCHANGED <<clearing, disputed, asking, told>>

StartClear(p) ==
  /\ asking[p] = None
  /\ clearing' = clearing \cup {p}
  /\ UNCHANGED <<store, disputed, asking, told>>

Remove(k) ==
  /\ clearing # {}
  /\ store' = [store EXCEPT ![k] = None]
  /\ UNCHANGED <<clearing, disputed, asking, told>>

Dispute(k) ==
  /\ disputed' = disputed \cup {k}
  /\ UNCHANGED <<store, clearing, asking, told>>

Disturb(k) ==
  /\ k \in disputed
  /\ \E a \in AnswersTo(k) \cup {None} : store' = [store EXCEPT ![k] = a]
  /\ UNCHANGED <<clearing, disputed, asking, told>>

Init ==
  /\ store = [k \in Keys |-> None] /\ clearing = {} /\ disputed = {}
  /\ asking = [p \in Procs |-> None] /\ told = [p \in Procs |-> None]
  /\ seen = [p \in Procs |-> {}]

Next ==
  /\ \/ \E p \in Procs : Answer(p) \/ Leave(p) \/ StartClear(p) \/ \E k \in Keys : Ask(p, k)
     \/ \E k \in Keys : Save(k) \/ Remove(k) \/ Dispute(k) \/ Disturb(k)
  /\ Watching

Spec == Init /\ [][Next]_vars
=============================================================================
