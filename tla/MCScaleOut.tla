----------------------------- MODULE MCScaleOut -----------------------------
(***************************************************************************)
(* From one shard to three (two shards are rejected at admission). n1 is   *)
(* the primary of shard 0 and the seed.                                    *)
(***************************************************************************)
EXTENDS ScaleOut, TLC

CONSTANTS n1, n2, n3, k1

MCSlotOf == [k \in Key |-> 1]

MCShardPrimary == (0 :> n1) @@ (1 :> n2) @@ (2 :> n3)

FromOne == ScaleInit /\ old = 1 /\ slot = 1

FromOneSpec == FromOne /\ [][ScaleNext]_scaleVars /\ ScaleFairness
=============================================================================
