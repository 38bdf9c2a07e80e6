----------------------------- MODULE MCPreparation -----------------------------
(* Preparation and ComponentMoves with interchangeable items and storage     *)
(* units.                                                                    *)
EXTENDS Preparation, TLC

Symmetry == Permutations(Items) \cup Permutations(Caskets)

\* Bound: the first snapshot is saved undisturbed.  A job whose rows are merged with the
\* last snapshot is disturbed in every way.
FirstUndisturbed == saved \/ (unsure = {} /\ ~stray)

\* Bound: one item at a time is disturbed, of which the properties then say nothing.
OneDisturbed == Cardinality(unsure) <= 1
===============================================================================
