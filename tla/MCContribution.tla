--------------------------- MODULE MCContribution ---------------------------
EXTENDS Contribution, TLC

SessionSymmetry == Permutations(Sessions)
=============================================================================
