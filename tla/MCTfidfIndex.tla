---------------------------- MODULE MCTfidfIndex ----------------------------
EXTENDS TfidfIndex, TLC

TermSymmetry == Permutations(Term)
=============================================================================
