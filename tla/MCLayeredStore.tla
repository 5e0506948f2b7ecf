--------------------------- MODULE MCLayeredStore ---------------------------
\* One row in each table, and room for two background writes at a time.
EXTENDS LayeredStore
CONSTANTS j1, n1, s1, s2
=============================================================================
