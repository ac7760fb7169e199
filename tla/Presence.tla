------------------------------- MODULE Presence -------------------------------
(***************************************************************************)
(* What the database promises about disks that come and go (storage.py,    *)
(* StatusChange): a disk is known from the first time it is reported, and  *)
(* from then on it is there or missing.  Every disappearance and every     *)
(* return is told once, when it is noticed, and nothing else is.  One      *)
(* result of a host may settle several disks at once.                      *)
(***************************************************************************)
EXTENDS Sequences

CONSTANT Keys

VARIABLES
  state,   \* "unseen", "present" or "missing"
  told     \* the announcements about each disk, oldest first

Init ==
  /\ state = [k \in Keys |-> "unseen"]
  /\ told = [k \in Keys |-> <<>>]

Moves(k, from, to) == state[k] = from /\ state'[k] = to
Tells(k, what) == told'[k] = Append(told[k], what)
Silent(k) == told'[k] = told[k]

Appears(k) == Moves(k, "unseen", "present") /\ Silent(k)
Vanishes(k) == Moves(k, "present", "missing") /\ Tells(k, "missing")
Returns(k) == Moves(k, "missing", "present") /\ Tells(k, "returned")
Stays(k) == state'[k] = state[k] /\ Silent(k)

Next ==
  /\ DOMAIN state' = Keys /\ DOMAIN told' = Keys
  /\ \A k \in Keys : Appears(k) \/ Vanishes(k) \/ Returns(k) \/ Stays(k)

Spec == Init /\ [][Next]_<<state, told>>
=============================================================================
