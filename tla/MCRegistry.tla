----------------------------- MODULE MCRegistry -----------------------------
\* Two nodes, enough ids for each to be reaped or restarted away and come back.
EXTENDS Registry, TLC
CONSTANTS n1, n2
Symmetry == Permutations(Nodes)
=============================================================================
