------------------------------ MODULE MCApiReads ------------------------------
\* Instances of ApiReads for TLC.
EXTENDS ApiReads

CONSTANTS d1, d2

OneEach == [k \in Keys |-> IF k = d1 THEN {1} ELSE {2}]
ExcludeSome == {{}, {d1}}
Adjacent == {0}
=============================================================================
