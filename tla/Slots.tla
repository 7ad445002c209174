------------------------------- MODULE Slots --------------------------------
(***************************************************************************)
(* The slot arithmetic of internal/slots/slots.go: how the slot space is   *)
(* split over the shards of a new cluster.                                 *)
(***************************************************************************)
EXTENDS Integers

CONSTANT TotalSlots     \* 16384 in Valkey

ASSUME SlotsAssumption == TotalSlots \in Nat \ {0}

\* Distribute(n): the range of slots of each of n shards. The result is empty for n <= 0.
Distribute(n) ==
    [i \in 0..n - 1 |-> [Start |-> (i * TotalSlots) \div n,
                         End   |-> ((i + 1) * TotalSlots) \div n - 1]]

\* TargetCounts(n): the number of slots of each of n shards.
TargetCounts(n) ==
    [i \in 0..n - 1 |-> Distribute(n)[i].End - Distribute(n)[i].Start + 1]

-----------------------------------------------------------------------------
\* slots.Distribute: as long as there is a slot for each shard, the ranges follow one
\* another without a gap or an overlap, none is empty, and together they are all the slots.
Partition ==
    \A n \in 1..TotalSlots :
        /\ Distribute(n)[0].Start = 0 /\ Distribute(n)[n - 1].End = TotalSlots - 1
        /\ \A i \in 0..n - 1 : Distribute(n)[i].Start <= Distribute(n)[i].End
        /\ \A i \in 0..n - 2 : Distribute(n)[i + 1].Start = Distribute(n)[i].End + 1

\* slots.TargetCounts: the shares of any two shards differ by one slot at most, and none is
\* below the share that scaleOut gives a new shard.
Balanced ==
    \A n \in 1..TotalSlots : \A i \in 0..n - 1 :
        TargetCounts(n)[i] \in {TotalSlots \div n, TotalSlots \div n + 1}
=============================================================================
