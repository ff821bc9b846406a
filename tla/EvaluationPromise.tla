-------------------------- MODULE EvaluationPromise --------------------------
(***************************************************************************)
(* What a caller of RunEngine.run may rely on, with no mention of tasks,   *)
(* semaphores, retries or caps: every sample is settled once, the turns of *)
(* a conversation in order; the run returns only when every sample is      *)
(* settled; a run that ends otherwise returns nothing at all; and an       *)
(* answer once saved stays saved, through restarts too.                    *)
(***************************************************************************)
EXTENDS Naturals

CONSTANTS
  Samples,          \* the samples of the run
  Precedes(_, _)    \* which sample is an earlier turn of which other's conversation

VARIABLES
  phase,    \* "ready", "running", "aborting", "returned", "dead", "rejected"
  outcome,  \* [Samples -> "pending", "answered" or "failed"]
  saved     \* the samples with an answer on disk

vars == <<phase, outcome, saved>>

Init ==
  /\ phase = "ready"
  /\ outcome = [i \in Samples |-> "pending"]
  /\ saved = {}

Begin ==
  /\ phase = "ready"
  /\ phase' \in {"running", "rejected"}
  /\ UNCHANGED <<outcome, saved>>

\* One sample is settled, for good, once every earlier turn is; an answer may be saved.
Settle(i) ==
  /\ phase \in {"running", "aborting"}
  /\ outcome[i] = "pending"
  /\ \A j \in Samples : Precedes(j, i) => outcome[j] # "pending"
  /\ \/ /\ outcome' = [outcome EXCEPT ![i] = "failed"]
        /\ saved' = saved
     \/ /\ outcome' = [outcome EXCEPT ![i] = "answered"]
        /\ saved' \in {saved, saved \cup {i}}
  /\ UNCHANGED phase

Abort ==
  /\ phase = "running"
  /\ phase' = "aborting"
  /\ UNCHANGED <<outcome, saved>>

Return ==
  /\ phase = "running"
  /\ \A i \in Samples : outcome[i] # "pending"
  /\ phase' = "returned"
  /\ UNCHANGED <<outcome, saved>>

Stop ==
  /\ phase \in {"running", "aborting"}
  /\ phase' = "dead"
  /\ UNCHANGED <<outcome, saved>>

Restart ==
  /\ phase \in {"returned", "dead"}
  /\ phase' = "ready"
  /\ outcome' = [i \in Samples |-> "pending"]
  /\ UNCHANGED saved

Next ==
  \/ Begin \/ Abort \/ Return \/ Stop \/ Restart
  \/ \E i \in Samples : Settle(i)

Spec == Init /\ [][Next]_vars
=============================================================================
