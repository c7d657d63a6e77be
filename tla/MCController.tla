---------------------------- MODULE MCController ----------------------------
EXTENDS Controller, TLC

SessionSymmetry == Permutations(Sessions)
=============================================================================
