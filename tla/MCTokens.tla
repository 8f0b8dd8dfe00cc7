------------------------------ MODULE MCTokens ------------------------------
EXTENDS TokenStore, TLC

Symmetry == Permutations(Mac) \cup Permutations(Worker)
=============================================================================
