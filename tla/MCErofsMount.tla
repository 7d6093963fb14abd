---------------------------- MODULE MCErofsMount ----------------------------
\* Instances of ErofsMount for TLC.
EXTENDS ErofsMount

CONSTANTS m1, m2, u1
=============================================================================
