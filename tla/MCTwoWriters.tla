----------------------------- MODULE MCTwoWriters -----------------------------
\* Instances of TwoWriters for TLC.
EXTENDS TwoWriters

CONSTANTS d1

OneHost == [k \in Keys |-> {1}]
ExcludeNone == {{}}
Adjacent == {0}
=============================================================================
