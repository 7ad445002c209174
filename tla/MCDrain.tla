------------------------------ MODULE MCDrain -------------------------------
(***************************************************************************)
(* Drain for TLC: n1 is the departing primary, n2 the first surviving one, *)
(* n3 a replica. The two keys share one slot, so that a slot takes several *)
(* batches of keys.                                                        *)
(***************************************************************************)
EXTENDS Drain

CONSTANTS n1, n2, n3, k1, k2

MCSlotOf == [k \in Key |-> 1]
=============================================================================
