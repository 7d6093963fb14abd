--------------------------- MODULE MCPackageCache ---------------------------
\* An instance of PackageCache for TLC.
EXTENDS PackageCache, TLC

CONSTANTS p1, p2

\* Each process gets the package once, and finds what the other left of it.
MCMaxGets == p1 :> 1 @@ p2 :> 1
=============================================================================
