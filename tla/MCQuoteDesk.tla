---------------------------- MODULE MCQuoteDesk ----------------------------
\* Three requests of two clients, one let through per window; a price and a rate
\* that do not divide.
EXTENDS QuoteDesk, TLC
CONSTANTS r1, r2, r3, c1, c2, p1
Symmetry == Permutations(Requests) \cup Permutations(Clients)
MCPrices == {1000, 2500}
MCRates == {3, 7}
=============================================================================
