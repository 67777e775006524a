---------------------------- MODULE MCRegistryV2Wal ----------------------------
\* Instances of RegistryV2Wal for TLC.  Liveness is checked without symmetry.
EXTENDS RegistryV2Wal

CONSTANTS p1, p2, k1, k2, k3, v1, v2
=============================================================================
