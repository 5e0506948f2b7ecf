--------------------------- MODULE MCProviderNode ---------------------------
\* Two jobs and two runs: a job can be sent again while its first run is still
\* going, or the other job can run beside it.  The jobs are interchangeable, so the
\* first one dispatched may be called j1: half of the states are the other half's
\* mirror image.  (TLC's symmetry sets are unsound for RunsEnd.)
EXTENDS ProviderNode
CONSTANTS j1, j2
FirstIsJ1 == out = {} /\ ~slipped /\ run[1].pc = "none" => j2 \notin out'
=============================================================================
