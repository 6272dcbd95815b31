--------------------------- MODULE MCDependencies ---------------------------
EXTENDS Dependencies, TLC

CONSTANTS r1, r2, r3
=============================================================================
