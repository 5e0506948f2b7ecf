----------------------------- MODULE MCPurchase -----------------------------
\* Two reports: a result and an error in either order, or two of a kind; a
\* price under the ceiling and one over it.
EXTENDS Purchase
=============================================================================
