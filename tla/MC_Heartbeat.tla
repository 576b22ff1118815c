--------------------------- MODULE MC_Heartbeat ---------------------------
EXTENDS Heartbeat
CONSTANTS i1, i2, d1
=============================================================================
