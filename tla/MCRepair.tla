------------------------------ MODULE MCRepair ------------------------------
(***************************************************************************)
(* Two keys in one slot that is moved from n1 to n2; n3 is the third       *)
(* primary and the seed.                                                   *)
(***************************************************************************)
EXTENDS Repair

CONSTANTS n1, n2, n3, k1, k2

MCSlotOf == [k \in Key |-> 1]
=============================================================================
