------------------------------ MODULE MCCompat ------------------------------
EXTENDS Compat
\* PAF 2.1, PAF 3.0, PAF 4.0 and PAF 5.2.
MCVersions == {20100, 30000, 40000, 50200}
=============================================================================
