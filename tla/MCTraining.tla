----------------------------- MODULE MCTraining -----------------------------
(* Training for TLC: one name of a sample is as good as another. *)
EXTENDS Training, TLC

Symmetry == Permutations(Sessions)
=============================================================================
