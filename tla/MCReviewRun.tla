---------------------------- MODULE MCReviewRun ----------------------------
EXTENDS ReviewRun, TLC
Symmetry == Permutations(Bindings) \cup Permutations(Heads)
=============================================================================
