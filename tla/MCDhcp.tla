------------------------------- MODULE MCDhcp -------------------------------
EXTENDS DhcpLeases, TLC

Symmetry == Permutations(Mac)
=============================================================================
