--------------------------- MODULE MCApplications ---------------------------
EXTENDS Applications

CONSTANTS r1, r2, t1, t2, t3, c1
=============================================================================
