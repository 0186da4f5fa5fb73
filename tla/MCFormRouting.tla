---------------------------- MODULE MCFormRouting ----------------------------
(* Instances of FormRouting for TLC: one form, two definitions. *)
EXTENDS FormRouting, TLC

CONSTANTS f1, d1, d2, k1, k2, w1, w2

\* Work on the form itself overlaps, and submissions overlap that and changes
\* of a definition's status; bindings and other starts are served alone.
Traffic == {{"save", "transition", "remove"}, {"submit", "transition"}, {"submit", "status"}}

\* The first definition follows its form and may be restarted, the second
\* is bound by a task or started by hand.
StartModes == (d1 :> {"restart"}) @@ (d2 :> {"manual"})

\* Keys and workers are alike; every property is a safety one.
Symmetry == Permutations({w1, w2}) \cup Permutations({k1, k2})

\* An instance that was started leaves fewer changes of the form to explore.
Short == \A f \in Forms : db.form[f].version + Cardinality({i \in Instances : db.inst[i] # NoInstance}) <= 4

=============================================================================
