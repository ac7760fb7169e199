------------------------------ MODULE MCKeyStore ------------------------------
\* Instances of KeyStore for TLC.
EXTENDS KeyStore, Naturals, TLC

HostsAndKeys == Permutations(Hosts) \cup Permutations(Keys)

\* At most two of the actors are in the middle of something.
TwoAtOnce == Cardinality({a \in Actors : work[a] # Idle}) <= 2
=============================================================================
