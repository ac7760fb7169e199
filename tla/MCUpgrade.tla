------------------------------- MODULE MCUpgrade ------------------------------
\* Instances of Upgrade for TLC.  The unit is 64 sectors instead of 65536.
EXTENDS Upgrade, TLC

CONSTANTS service, command

Either == Permutations(Processes)
=============================================================================
