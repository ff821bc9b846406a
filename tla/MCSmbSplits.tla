---------------------------- MODULE MCSmbSplits ----------------------------
(* The splits of SmbSplits at the sizes of the code. *)
EXTENDS SmbSplits

RealSizes == [public |-> 300, adversarial |-> 150, bilingual |-> 100, smoke |-> 12,
              private |-> 200]
=============================================================================
