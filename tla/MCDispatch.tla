----------------------------- MODULE MCDispatch -----------------------------
\* Two providers, so that a retry has somewhere to go and a first provider's
\* late answers meet a second one's.
\* The job is quoted for p1: the two are alike, so p2 would only repeat it.
EXTENDS Dispatch
CONSTANTS p1, p2, j1
=============================================================================
