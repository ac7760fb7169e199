------------------------------ MODULE MCMonitor ------------------------------
\* Instances of Monitor for TLC.
EXTENDS Monitor, TLC
CONSTANTS c1, c2, c3
CallerSymmetry == Permutations(Callers)
=============================================================================
