---------------------------- MODULE MCIndexCache ----------------------------
\* Instances of IndexCache for TLC.
EXTENDS IndexCache

CONSTANTS c1, c2
=============================================================================
