--------------------------------- MODULE Pins ---------------------------------
(***************************************************************************)
(* What the key store promises (transport.py, _PinningClient): a host is   *)
(* trusted with the key it shows first, any other key is refused, until    *)
(* somebody forgets the host.                                              *)
(***************************************************************************)
CONSTANTS Hosts, Keys, None

VARIABLES
  pin,   \* the pinned key of each host, or None
  met    \* the keys accepted from each host since it was last forgotten

Init ==
  /\ pin = [h \in Hosts |-> None]
  /\ met = [h \in Hosts |-> {}]

Trust(h, k) ==
  /\ pin[h] \in {None, k}
  /\ pin' = [pin EXCEPT ![h] = k]
  /\ met' = [met EXCEPT ![h] = @ \cup {k}]

Forget(h) ==
  /\ pin[h] # None
  /\ pin' = [pin EXCEPT ![h] = None]
  /\ met' = [met EXCEPT ![h] = {}]

Next == \E h \in Hosts : Forget(h) \/ \E k \in Keys : Trust(h, k)

Spec == Init /\ [][Next]_<<pin, met>>
=============================================================================
