----------------------------- MODULE MCHrDocument -----------------------------
(* Instances of HrDocument for TLC: two documents of one kind, two keys. *)
EXTENDS HrDocument, TLC

CONSTANTS k1, k2, w1, w2

\* The first document has a long life, the second stays as it was made.
Revisions == <<4, 1>>

\* Keys are only compared, workers are alike; every property is a safety one.
Symmetry == Permutations({k1, k2}) \cup Permutations({w1, w2})

=============================================================================
