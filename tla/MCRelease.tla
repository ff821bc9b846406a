------------------------------- MODULE MCRelease -------------------------------
(* An instance of Release for TLC. *)
EXTENDS Release

\* One experiment, that "frozen" or "arm" answers; "arm" has no manifest and must be named.
MCNeeds == {[among |-> {"frozen", "arm"}, count |-> 1]}
=============================================================================
