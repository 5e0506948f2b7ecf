--------------------------- MODULE MCControlChannel --------------------------
\* Four sockets are enough for the chains of reconnects these troubles start, three
\* troubles with one heartbeat at a time (Troubles), or one trouble
\* with two heartbeats for a registration that overlaps another.
EXTENDS ControlChannel, TLC
=============================================================================
