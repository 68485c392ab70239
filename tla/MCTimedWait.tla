----------------------------- MODULE MCTimedWait -----------------------------
EXTENDS TimedWait
=============================================================================
