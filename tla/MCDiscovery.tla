----------------------------- MODULE MCDiscovery -----------------------------
\* Instances of Discovery for TLC.
EXTENDS Discovery

CONSTANTS d1, d2, s1

Shared == [d \in Disks |-> s1]
=============================================================================
