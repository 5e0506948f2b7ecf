---------------------------- MODULE MCSettlement ----------------------------
\* One provider that may change its account, two quotes, two transfers, and a
\* third request so that one transfer or one quote can be used again.
EXTENDS Settlement, TLC
CONSTANTS p1, a1, a2, q1, q2, r1, r2, r3, k1, k2
Symmetry == Permutations(Quotes) \cup Permutations(Requests)
            \cup Permutations(Payloads) \cup Permutations(Accounts)
=============================================================================
