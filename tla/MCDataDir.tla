----------------------------- MODULE MCDataDir -----------------------------
EXTENDS DataDir
CONSTANTS k1, k2, v1, v2
=============================================================================
