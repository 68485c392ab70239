--------------------------- MODULE MCEventHandling ---------------------------
EXTENDS CommandLine
=============================================================================
