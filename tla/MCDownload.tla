----------------------------- MODULE MCDownload -----------------------------
\* Downloads of small files, for TLC.
EXTENDS Download

MCLimits == {-1, 0, 2, 3}
=============================================================================
