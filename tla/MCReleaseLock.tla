---------------------------- MODULE MCReleaseLock ----------------------------
EXTENDS ReleaseLock, TLC

CONSTANTS p1, p2, p3, p4

Symmetry == Permutations(Processes)
=============================================================================
