----------------------------- MODULE MCComposer -----------------------------
\* Two inputs beside the blank one, two quotes and two payments: enough for an
\* answer that comes late and for a payment that meets another one.
EXTENDS Composer, TLC
CONSTANTS blank, fair, zero, q1, q2, i1, i2, c1, c2
Symmetry == Permutations(Quotes) \cup Permutations(Payments) \cup Permutations(Connectors)
=============================================================================
