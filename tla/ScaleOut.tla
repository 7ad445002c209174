------------------------------ MODULE ScaleOut ------------------------------
(***************************************************************************)
(* Filling new shards, internal/controller/scaling.go: each pass of        *)
(* reconcileCluster observes the cluster from the seed; an open slot sends *)
(* it to RepairSlots (the stability gate of topology.Decide); otherwise,   *)
(* while fewer primaries own slots than there are shards, scaleOut gives   *)
(* the primary of every shard from that number on its share, taken from    *)
(* the fattest primary. A pass that fails is followed by another one that  *)
(* starts from what it then observes.                                      *)
(***************************************************************************)
EXTENDS SlotMover

CONSTANT ShardPrimary   \* the primary (pod 0) of each desired shard, by shard index

Desired == Cardinality(Master)

ASSUME ScaleOutAssumption ==
    /\ Master # {}
    /\ ShardPrimary \in [0..Desired - 1 -> Master]
    /\ \A n \in Master : \E i \in 0..Desired - 1 : ShardPrimary[i] = n

VARIABLES
    stage,    \* what scaleOut does next: nothing, measure a shard, fill it
    filling,  \* index of the shard being filled
    need,     \* slots the shard still needs
    current,  \* history: the seed knew of all the shard's slots when they were counted
    old       \* history: the shards that owned slots before the scale-out

passVars == <<stage, filling, need, current>>
scaleVars == <<vars, passVars, old>>

ScaleTypeOK ==
    /\ TypeOK
    /\ stage \in {"decide", "measure", "fill"}
    /\ filling \in 0..Desired - 1 /\ need \in Nat /\ current \in BOOLEAN
    /\ old \in 1..Desired - 1

\* A formed cluster of old shards, to which shards have been added.
ScaleInit ==
    /\ Init
    /\ old \in 1..Desired - 1
    /\ \A i \in 0..Desired - 1 : (Booked(ShardPrimary[i]) # {}) <=> i < old
    /\ stage = "decide" /\ filling = 0 /\ need = 0 /\ current = FALSE

-----------------------------------------------------------------------------
\* SlotCount of n in the seed's reply.
SlotCount(n) == Cardinality(Booked(n))

\* summarize: a shard is a primary that owns slots.
PrimaryCount == Cardinality({n \in Master : SlotCount(n) > 0})

PerShard == Cardinality(Slot) \div Desired

AnyOpen == \E n \in Node, s \in Slot : OpenOn(n, s)

FattestPrimaries(exclude) ==
    {n \in Master \ {exclude} :
        /\ SlotCount(n) > 0
        /\ \A m \in Master \ {exclude} : SlotCount(m) <= SlotCount(n)}

\* Decide lets the pass through: nothing is open as far as collectOpenSlots sees
\* (it skips a node it cannot reach), and there are too few shards.
BeginScaleOut ==
    /\ pc = "idle" /\ stage = "decide"
    /\ IF AnyOpen THEN Lose ELSE UNCHANGED fails
    /\ PrimaryCount < Desired
    /\ stage' = "measure" /\ filling' = PrimaryCount
    /\ UNCHANGED <<valkeyVars, opVars, need, current>>

\* The slots that n claims.
Own(n) == {s \in Slot : Claims(n, s)}

Measure ==
    /\ stage = "measure" /\ stage' = "fill"
    /\ need' = IF PerShard > SlotCount(ShardPrimary[filling])
               THEN PerShard - SlotCount(ShardPrimary[filling]) ELSE 0
    /\ current' = (Own(ShardPrimary[filling]) \subseteq Booked(ShardPrimary[filling]))
    /\ UNCHANGED <<vars, filling>>

\* Mutant of Fill: what a round has moved is not taken off the need.
FillAgain ==
    /\ stage = "fill" /\ need > 0
    /\ \E f \in FattestPrimaries(ShardPrimary[filling]) :
        MoveSlots(f, ShardPrimary[filling], need)
    /\ UNCHANGED passVars

\* One round of the fill loop: what is needed, or all that the fattest primary has.
Fill ==
    /\ stage = "fill" /\ need > 0
    /\ \E f \in FattestPrimaries(ShardPrimary[filling]) :
        MoveSlots(f, ShardPrimary[filling], need)
    /\ need' = need - Cardinality(todo')
    /\ UNCHANGED <<stage, filling, current>>

\* Mutant of NextShard: the loop runs past the last shard.
NextShardUnbounded ==
    /\ pc = "idle" /\ stage = "fill"
    /\ need = 0 \/ FattestPrimaries(ShardPrimary[filling]) = {}
    /\ filling' = filling + 1 /\ stage' = "measure"
    /\ need' = 0 /\ current' = FALSE /\ UNCHANGED vars

\* Mutant of NextShard: the same shard is measured again.
NextShardStuck ==
    /\ pc = "idle" /\ stage = "fill"
    /\ need = 0 \/ FattestPrimaries(ShardPrimary[filling]) = {}
    /\ stage' = "measure" /\ need' = 0 /\ current' = FALSE /\ UNCHANGED <<vars, filling>>

\* The shard has its share, or no source has slots to give.
NextShard ==
    /\ pc = "idle" /\ stage = "fill"
    /\ need = 0 \/ FattestPrimaries(ShardPrimary[filling]) = {}
    /\ IF filling + 1 < Desired
       THEN filling' = filling + 1 /\ stage' = "measure"
       ELSE filling' = 0 /\ stage' = "decide"
    /\ need' = 0 /\ current' = FALSE /\ UNCHANGED vars

\* scaleOut returns the error of the MoveSlots call it made.
Abandon == stage' = "decide" /\ filling' = 0 /\ need' = 0 /\ current' = FALSE

\* The step with which MoveSlots returns without an error.
Completes ==
    /\ pc = "assign" /\ todo = {}
    /\ \E n \in rest : rest = {n} /\ SetSlotNodeOk(n, slot, dst)

FillStep ==
    /\ MoveStep
    /\ IF pc' = "idle" /\ ~Completes THEN Abandon ELSE UNCHANGED passVars

\* The stability gate: a pass that sees an open slot repairs, and only that.
RepairPass ==
    /\ (stage = "decide" /\ RepairSlots) \/ RepairStep
    /\ UNCHANGED passVars

ScaleOperator ==
    /\ BeginScaleOut \/ Measure \/ Fill \/ FillStep \/ NextShard \/ RepairPass
    /\ UNCHANGED old

ScaleNext ==
    \/ ScaleOperator
    \/ Fail /\ Abandon /\ UNCHANGED old
    \/ (Client \/ Bus) /\ UNCHANGED <<passVars, old>>

ScaleSpec == ScaleInit /\ [][ScaleNext]_scaleVars

\* Every pass is requeued and a started call runs on; the bus keeps talking.
ScaleFairness ==
    /\ WF_scaleVars(ScaleOperator)
    /\ WF_scaleVars(Bus /\ UNCHANGED <<passVars, old>>)

ScaleFairSpec == ScaleSpec /\ ScaleFairness

-----------------------------------------------------------------------------
\* What the operator takes for a finished scale-out: nothing open, every shard owns
\* slots. It will not move a slot again.
Settled == pc = "idle" /\ stage = "decide" /\ ~AnyOpen /\ PrimaryCount = Desired

\* scaleOut: without a failure the passes end the scale-out, however far the views of
\* the nodes lag behind, and it stays settled.
ScaleOutSettles == [](fails = 0) => <>[]Settled

\* Every slot left open by an interrupted migration is finalised, wherever its markers are.
OpenSlotsRepaired == []<>(pc = "idle" /\ ~AnyOpen)

\* scaleOut: "a primary already holding its share is skipped, so a retry never over-assigns".
\* Whatever earlier passes left behind, a shard that gets a slot while it is filled ends up
\* with its share at most, provided that the seed knew of its slots when they were counted.
NeverOverAssigns ==
    [][stage = "fill" /\ current
        => \A n \in Master : Own(n)' \subseteq Own(n) \/ Cardinality(Own(n)') <= PerShard]_scaleVars

\* A settled scale-out has given every new shard its share, also when a pass failed.
SettledIsBalanced ==
    Settled => \A i \in old..Desired - 1 : SlotCount(ShardPrimary[i]) >= PerShard
=============================================================================
