------------------------------ MODULE MCDelivery ------------------------------
\* Instances of Delivery for TLC.
EXTENDS Delivery

CONSTANTS d1, d2

OneEach == [k \in Keys |-> IF k = d1 THEN {1} ELSE {2}]
ExcludeNone == {{}}
Adjacent == {0}
=============================================================================
