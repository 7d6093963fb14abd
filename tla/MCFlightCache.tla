-------------------------- MODULE MCFlightCache --------------------------
\* Instances of FlightCache for TLC.
EXTENDS FlightCache

CONSTANTS c1, c2, c3, k1, k2

FirstKeyForgotten == {{k1}}
=============================================================================
