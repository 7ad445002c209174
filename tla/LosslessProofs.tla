--------------------------- MODULE LosslessProofs ---------------------------
(***************************************************************************)
(* What Reconciler guarantees in the behaviours in which no pod is lost    *)
(* and the readiness gate lets a pass through only when the pods that it   *)
(* waits for are there: slots stay with the first pods of the shards,      *)
(* which are neither deleted nor forgotten while they own any, and a Ready *)
(* status is true. Crashes, failed commands, edits and the deletion of the *)
(* resource may come at any step.                                          *)
(***************************************************************************)
EXTENDS ReconcilerProofs

\* shardsReady counts pods. The pods that it counts are those of the declared topology.
GateHonest == stage = "gate" /\ ShardsReady => AllPods \subseteq up \ doomed

Calm == outages = 0 /\ GateHonest

-----------------------------------------------------------------------------
\* The steps of a pass that has gone through the gate.
PostGate == Working \ {"ensure", "gate"}

\* Such a pass has all its pods.
Gated ==
    /\ stage \in Working \ {"ensure"} => \A i \in 0..cr.shards - 1 : sts[i] = cr.replicas + 1
    /\ stage \in PostGate => AllPods \subseteq up \ doomed

Safe(p) == p \in up \ doomed /\ sts[p[1]] > 0

\* Slots, and slots left open, are with members that run and that nothing is about to stop:
\* the first pods of shards, which are never made replicas.
Owners ==
    object # "gone" =>
        /\ \A p \in Pod : count[p] > 0 => p[2] = 0 /\ p \in member /\ Safe(p)
        /\ \A p \in open : p[2] = 0 /\ (p \in member => Safe(p))
        /\ \A i \in Shard : masterOf[<<i, 0>>] = NoPod

\* A cluster that is being formed has as many slots as the shards so far are to get.
Forming ==
    /\ stage = "form" => at = 0 /\ \A p \in Pod : count[p] = 0
    /\ stage = "addslots" =>
         /\ AllPods \subseteq member /\ Sum(count, Pod) = Cut(at, cr.shards)
         /\ \A p \in Pod : count[p] = IF p[2] = 0 /\ p[1] < at THEN TargetCounts(cr.shards)[p[1]]
                                      ELSE 0

\* No slot is counted twice.
SlotsAreFew == object # "gone" => Sum(count, Pod) <= TotalSlots

\* A pass works on the current spec or on an earlier one, and its report is about that.
Generations ==
    /\ status.computedFrom <= spec.generation
    /\ stage # "idle" => /\ status.computedFrom <= cr.generation
                         /\ cr.generation <= spec.generation
                         /\ cr.generation = spec.generation => cr = spec
    /\ stage = "publish" => report.generation = cr.generation

Settled ==
    /\ Sum(count, Pod) = TotalSlots /\ open \cap member = {}
    /\ {p \in Pod : count[p] > 0} = {<<i, 0>> : i \in 0..spec.shards - 1}

Claim == object = "live" /\ status.phase = "Ready" /\ status.computedFrom = spec.generation

\* The steps of a pass that finds the declared topology in place.
Quiet == {"idle", "ensure", "gate", "observe", "members", "attach-members", "forget", "status",
          "publish"}

\* Ready is claimed of a cluster that is settled. A pass that unsettles it has withdrawn
\* the claim before.
Truth ==
    /\ object = "new" => status.phase # "Ready"
    /\ Claim => Settled /\ stage \in Quiet
    /\ stage = "publish" /\ object = "live" /\ AllReady(report) /\ report.generation = spec.generation
         => Settled

Lossless == Basics /\ Gated /\ Owners /\ Forming /\ SlotsAreFew /\ Generations /\ Truth

-----------------------------------------------------------------------------
\* The sums are those that the seed's reply gives.
LEMMA Primes ==
    /\ Assigned = Sum(count, member) /\ Assigned' = Sum(count', member')
    /\ Sum(count, Pod)' = Sum(count', Pod)
BY Zenon DEF Assigned, Sum, MapThenSumSet, MapThenFoldSet

\* The owners of slots, and the number of slots that have an owner.
LEMMA WhatOwnersOwn ==
    ASSUME Basics, Owners, object # "gone"
    PROVE  /\ SlotOwners = {p \in Pod : count[p] > 0}
           /\ Assigned = Sum(count, Pod) /\ Sum(count, Pod) \in Nat
<1>1. member \subseteq Pod /\ count \in [Pod -> Nat] /\ IsFiniteSet(Pod)
    BY Bounds, Zenon DEF Basics, ClusterOK
<1>2. ASSUME NEW p \in Pod, count[p] > 0
      PROVE  p \in member /\ masterOf[p] = NoPod
    <2>1. p[2] = 0 /\ p \in member
        BY <1>2, Zenon DEF Owners
    <2>2. p[1] \in Shard /\ p = <<p[1], 0>>
        BY <2>1 DEF Pod
    <2> QED BY <2>1, <2>2, Zenon DEF Owners
<1>3. SlotOwners = {p \in Pod : count[p] > 0}
    BY <1>1, <1>2, Zenon DEF SlotOwners
<1>4. \A p \in Pod : count[p] \in Nat
    BY <1>1, Zenon
<1>5. \A p \in Pod \ member : count[p] = 0
    BY <1>1, <1>2, <1>4, SMTT(30)
<1>6. Sum(count, Pod) = Sum(count, member)
    BY <1>1, <1>4, <1>5, SumOfRest, SMTT(30)
<1>7. Sum(count, Pod) \in Nat
    BY <1>1, <1>4, SumType, Zenon
<1> QED BY <1>3, <1>6, <1>7, Primes, Zenon

\* findShardPrimary finds the first pod of the shard.
LEMMA PrimaryIsFirst ==
    ASSUME Basics, Owners, object # "gone", stage # "idle", NEW i \in Shard
    PROVE  FindShardPrimary(i) = IF <<i, 0>> \in up THEN <<i, 0>> ELSE NoPod
<1> DEFINE owners == {j \in 0..cr.replicas : <<i, j>> \in up /\ <<i, j>> \in SlotOwners}
<1>1. owners \subseteq {0}
    <2> SUFFICES ASSUME NEW j \in owners PROVE j = 0
        BY Zenon
    <2>1. <<i, j>> \in Pod /\ count[<<i, j>>] > 0
        BY WhatOwnersOwn, Zenon
    <2> QED BY <2>1, Zenon DEF Owners
<1>2. CASE owners = {}
    BY <1>2, Zenon DEF FindShardPrimary
<1>3. CASE owners # {}
    <2>1. owners = {0} /\ Min(owners) = 0 /\ <<i, 0>> \in up
        <3>1. owners = {0} /\ <<i, 0>> \in up
            BY <1>1, <1>3, Zenon
        <3>2. owners \subseteq Nat
            BY <3>1
        <3> HIDE DEF owners
        <3>3. Min(owners) \in owners
            BY <1>3, <3>2, MinIsIn, Zenon
        <3> QED BY <3>1, <3>3, Zenon
    <2> QED BY <1>3, <2>1, Zenon DEF FindShardPrimary
<1> QED BY <1>2, <1>3, Zenon

-----------------------------------------------------------------------------
\* A pass that works on the cluster has its resource.
LEMMA InUse ==
    ASSUME Basics, stage \in Working
    PROVE  object \in {"live", "deleting"} /\ cr \in Specs /\ cr.shards \in Nat \ {0}
           /\ cr.replicas \in Nat /\ cr.shards <= Max(Sizes)
<1>1. object \in {"live", "deleting"}
    BY Zenon DEF Basics, Life, ObjectOK, Working
<1>2. cr \in Specs
    BY Zenon DEF Basics, PassOK, Working
<1> QED BY <1>1, <1>2, Bounds, Zenon DEF Specs

\* The pods of a pass that has gone through the gate are there to stay.
LEMMA PodsAreSafe ==
    ASSUME Basics, Gated, stage \in PostGate
    PROVE  /\ \A p \in AllPods : p \in Pod /\ Safe(p)
           /\ \A i \in 0..cr.shards - 1 : i \in Shard /\ <<i, 0>> \in AllPods
           /\ Seed \in up
<1>1. cr.shards \in Nat \ {0} /\ cr.replicas \in Nat /\ cr.shards <= Max(Sizes)
    BY InUse, Zenon DEF PostGate
<1>2. ASSUME NEW p \in AllPods
      PROVE  p \in Pod /\ Safe(p)
    <2>1. p \in Pod /\ p[1] \in 0..cr.shards - 1
        BY <1>1 DEF AllPods, Pod, Shard
    <2>2. sts[p[1]] = cr.replicas + 1 /\ p \in up \ doomed
        BY <2>1, Zenon DEF Gated, PostGate
    <2> QED BY <1>1, <2>1, <2>2, SMTT(30) DEF Safe
<1>3. ASSUME NEW i \in 0..cr.shards - 1
      PROVE  i \in Shard /\ <<i, 0>> \in AllPods
    <2>1. i \in Shard
        BY <1>1, Bounds, SMTT(30) DEF Shard
    <2> QED BY <1>1, <2>1, Bounds, SMTT(30) DEF AllPods, Pod
<1>4. Seed \in up
    BY <1>1, <1>2, <1>3, SMTT(30) DEF Seed, Safe
<1> QED BY <1>2, <1>3, <1>4, Zenon

\* Slots move from an owner to the first pod of a declared shard.
Shifted(f, t) ==
    /\ f \in Pod /\ t \in AllPods /\ t[2] = 0 /\ f # t /\ count[f] > 0
    /\ UNCHANGED <<member, masterOf>>
    /\ \E m \in 0..count[f] : count' = Moved(f, t, m)
    /\ open' \subseteq open \cup {f, t}
    /\ count' # count \/ open' # open => t \in member

\* A step of Fill moves slots from one pod to another (MoveSlots in FillNewShards).
LEMMA FillShifts ==
    ASSUME Basics, Gated, Owners, Fill
    PROVE  \E f, t \in Pod : Shifted(f, t)
<1>1. stage = "fill" /\ stage \in Working /\ stage \in PostGate
    BY Zenon DEF Fill, Working, PostGate, Stages
<1>2. at < cr.shards /\ at \in Nat /\ <<at, 0>> \in Pod
    BY FillMoves DEF Shard
<1>3. PICK f \in SlotOwners, n \in Nat :
        /\ f \in Pod /\ f # <<at, 0>> /\ 1 <= n /\ n <= count[f]
        /\ MoveSlots(f, <<at, 0>>, n, "fill")
    BY FillMoves, Zenon
<1>4. count[f] \in Nat /\ at <= cr.shards
    BY <1>1, <1>3, Zenon DEF Basics, ClusterOK, PassOK, Loop
<1>5. /\ UNCHANGED <<member, masterOf>>
      /\ \E m \in 0..n : count' = Moved(f, <<at, 0>>, m)
      /\ \E ends \in SUBSET {f, <<at, 0>>} : open' = open \cup ends
      /\ count' # count => {f, <<at, 0>>} \subseteq member
      /\ open' # open => {f, <<at, 0>>} \subseteq member
    <2> DEFINE t == <<at, 0>>
    <2>1. /\ ClusterOK /\ PassOK /\ BudgetOK /\ "fill" \in {"fill", "status"}
          /\ "fill" = "fill" => at <= cr.shards
          /\ f \in Pod /\ t \in Pod /\ f # t /\ n \in Nat /\ 1 <= n /\ n <= count[f]
          /\ stage \in Working /\ MoveSlots(f, t, n, "fill")
        BY <1>1, <1>2, <1>3, <1>4, Zenon DEF Basics
    <2> HIDE DEF t
    <2>2. /\ UNCHANGED <<member, masterOf>>
          /\ \E m \in 0..n : count' = Moved(f, t, m)
          /\ \E ends \in SUBSET {f, t} : open' = open \cup ends
          /\ count' # count => {f, t} \subseteq member \cap up
          /\ open' # open => {f, t} \subseteq member \cap up
        BY <2>1, MoveSlotsEffect, ZenonT(40)
    <2> QED BY <2>2, Zenon DEF t
<1>6. at \in 0..cr.shards - 1 /\ <<at, 0>> \in AllPods
    BY <1>1, <1>2, InUse, PodsAreSafe
<1>7. Shifted(f, <<at, 0>>)
    BY <1>3, <1>4, <1>5, <1>6 DEF Shifted
<1> QED BY <1>2, <1>3, <1>7, Zenon

\* scaleIn deletes a shard only when its first pod owns no slots: no pod of it does.
LEMMA DeletedIsEmpty ==
    ASSUME Basics, Owners, stage = "drain", NEW i \in Shard, DeleteShard(i), NEW p \in Pod,
      p[1] = i
    PROVE  count[p] = 0
<1>1. SUFFICES ASSUME count[p] > 0 PROVE FALSE
    BY DEF Basics, ClusterOK
<1>2. object # "gone" /\ stage # "idle"
    BY InUse, Zenon DEF Working, Stages
<1>3. p = <<i, 0>> /\ p \in member /\ p \in up
    BY <1>1, <1>2, SMTT(30) DEF Owners, Safe, Pod
<1>4. FindShardPrimary(i) = p
    BY <1>2, <1>3, PrimaryIsFirst, Zenon
<1> QED BY <1>1, <1>3, <1>4, SMTT(30) DEF DeleteShard, SlotCount

\* A step of ScaleIn waits, moves slots from one pod to another, or deletes a departing shard.
LEMMA ScaleInEffect ==
    ASSUME Basics, Gated, Owners, ScaleIn
    PROVE  \/ UNCHANGED <<kubeVars, clusterVars>>
           \/ UNCHANGED kubeVars /\ \E f, t \in Pod : Shifted(f, t)
           \/ \E i \in Shard : i >= cr.shards /\ DeleteShard(i)
<1>1. stage = "drain" /\ stage \in Working /\ stage \in PostGate /\ stage # "idle"
    BY Zenon DEF ScaleIn, Working, PostGate, Stages
<1>2. CASE Departing = {}
    BY <1>2, Zenon DEF ScaleIn
<1>3. CASE Departing # {}
    <2>1. Departing \subseteq Nat /\ Departing \subseteq Shard
        BY DEF Departing, Shard
    <2>2. PICK i \in Departing : DrainBatch(i) \/ DeleteShard(i)
        BY <1>3, <2>1, MinIsIn, Zenon DEF ScaleIn
    <2>3. i \in Shard /\ i >= cr.shards
        BY <2>1, Zenon DEF Departing
    <2>4. CASE DrainBatch(i)
        <3> DEFINE d == FindShardPrimary(i)
        <3>1. /\ d \in Pod /\ d \in member /\ count[d] > 0
              /\ \/ UNCHANGED <<kubeVars, clusterVars>>
                 \/ \E k \in Shard, n \in Nat :
                        /\ k < cr.shards /\ FindShardPrimary(k) \in Pod /\ FindShardPrimary(k) # d
                        /\ 1 <= n /\ n <= count[d]
                        /\ MoveSlots(d, FindShardPrimary(k), n, "status")
            BY <1>1, <2>3, <2>4, BatchMoves, Zenon
        <3> HIDE DEF d
        <3>2. ASSUME NEW k \in Shard, NEW n \in Nat, k < cr.shards, FindShardPrimary(k) \in Pod,
                     FindShardPrimary(k) # d, 1 <= n, n <= count[d],
                     MoveSlots(d, FindShardPrimary(k), n, "status")
              PROVE  UNCHANGED kubeVars /\ \E f, t \in Pod : Shifted(f, t)
            <4>1. object # "gone" /\ cr.shards \in Nat
                BY <1>1, InUse, Zenon
            <4>2. k \in 0..cr.shards - 1
                BY <3>2, <4>1, SMTT(30) DEF Shard
            <4>3. <<k, 0>> \in AllPods /\ <<k, 0>> \in Pod /\ <<k, 0>> \in up
                BY <1>1, <4>2, PodsAreSafe, Zenon DEF Safe
            <4>4. FindShardPrimary(k) = <<k, 0>>
                BY <1>1, <4>1, <4>3, PrimaryIsFirst, Zenon
            <4>5. MoveSlots(d, <<k, 0>>, n, "status") /\ d # <<k, 0>> /\ count[d] \in Nat
                BY <3>1, <3>2, <4>4, Zenon DEF Basics, ClusterOK
            <4>6. /\ UNCHANGED <<kubeVars, member, masterOf>>
                  /\ \E m \in 0..n : count' = Moved(d, <<k, 0>>, m)
                  /\ \E ends \in SUBSET {d, <<k, 0>>} : open' = open \cup ends
                  /\ count' # count => {d, <<k, 0>>} \subseteq member
                  /\ open' # open => {d, <<k, 0>>} \subseteq member
                <5> DEFINE t == <<k, 0>>
                <5>1. /\ ClusterOK /\ PassOK /\ BudgetOK /\ 1 <= n /\ n <= count[d]
                      /\ "status" \in {"fill", "status"} /\ ("status" = "fill" => at <= cr.shards)
                      /\ d \in Pod /\ t \in Pod /\ d # t /\ n \in Nat /\ stage \in Working
                      /\ MoveSlots(d, t, n, "status")
                    BY <1>1, <3>1, <3>2, <4>3, <4>5, Zenon DEF Basics
                <5> HIDE DEF t
                <5>2. /\ UNCHANGED <<kubeVars, member, masterOf>>
                      /\ \E m \in 0..n : count' = Moved(d, t, m)
                      /\ \E ends \in SUBSET {d, t} : open' = open \cup ends
                      /\ count' # count => {d, t} \subseteq member \cap up
                      /\ open' # open => {d, t} \subseteq member \cap up
                    BY <5>1, MoveSlotsEffect, ZenonT(40)
                <5> QED BY <5>2, Zenon DEF t
            <4>7. Shifted(d, <<k, 0>>)
                BY <3>1, <3>2, <4>3, <4>5, <4>6 DEF Shifted
            <4> QED BY <3>1, <4>3, <4>6, <4>7, Zenon
        <3> QED BY <3>1, <3>2, Zenon
    <2> QED BY <2>2, <2>3, <2>4, Zenon
<1> QED BY <1>2, <1>3, Zenon

-----------------------------------------------------------------------------
\* The steps of a pass that has gone through the gate.
PassStep ==
    \/ Observe \/ FormMeet \/ AddSlots \/ AttachReplicas \/ RepairSlots
    \/ ScaleOutJoin \/ Fill \/ FillNext
    \/ ForgetStaleNodes \/ ScaleIn \/ DeleteShardPVCs \/ Members
    \/ Refresh \/ Publish \/ SeedLost

\* The other steps, without the loss of a pod.
OtherStep ==
    \/ ReadResource \/ AddFinalizer \/ DeleteOwnedPVCs \/ RemoveFinalizer
    \/ EnsureStatefulSets \/ Gate \/ OperatorCrash \/ User \/ Kubernetes \/ Failover

\* Without outages a step is one of a pass beyond the gate, or one of the others.
LEMMA NextSteps ==
    ASSUME outages = 0, (outages = 0)', [Next]_vars
    PROVE  PassStep \/ OtherStep \/ UNCHANGED vars
BY DEF Next, Operator, Outage, PassStep, OtherStep

\* What a step of a pass leaves alone.
LEMMA PassFrame ==
    ASSUME Basics, PassStep
    PROVE  /\ stage \in PostGate /\ stage' \in PostGate \cup {"idle"}
           /\ stage' # "idle" => cr' = cr
           /\ UNCHANGED <<spec, object, outages>>
           /\ ~ScaleIn => UNCHANGED <<sts, up, doomed>>
<1>1. stage \in Working /\ stage' \in Working \cup {"idle"}
    BY OperatorStep, Zenon DEF PassStep
<1>2. CASE Observe
    <2>1. PICK o \in Observations : stage' = FirstStage(PlanFor(o))
        BY <1>2, Zenon DEF Observe
    <2>2. stage = "observe" /\ UNCHANGED <<spec, object, cr, outages, kubeVars>>
        BY <1>2, Zenon DEF Observe
    <2>3. stage' \in {"form", "repair", "join", "sweep", "members"}
        BY <2>1, <2>2, PlanIsSound, Zenon
    <2> QED BY <1>1, <2>2, <2>3, Zenon DEF PostGate, kubeVars
<1>3. CASE FormMeet \/ ScaleOutJoin \/ Members
    <2>1. /\ stage \in {"form", "join", "members"}
          /\ \E pods, next : /\ next \in {"addslots", "attach-join", "attach-members"}
                             /\ Meet(pods, next)
        BY <1>3, Zenon DEF FormMeet, ScaleOutJoin, Members
    <2>2. /\ UNCHANGED <<spec, object, kubeVars, outages>>
          /\ \E next \in {"addslots", "attach-join", "attach-members", "idle"} : Goto(next)
        BY <2>1, Zenon DEF Meet, Crash
    <2> QED BY <1>1, <2>1, <2>2, Zenon DEF PostGate, kubeVars, Goto
<1>4. CASE AddSlots
    BY <1>1, <1>4, Zenon DEF AddSlots, Goto, PostGate, kubeVars
<1>5. CASE AttachReplicas
    <2>1. /\ stage \in {"attach-form", "attach-join", "attach-fill", "attach-members"}
          /\ UNCHANGED <<spec, object, kubeVars, outages>>
          /\ Goto(AfterAttach[stage]) \/ Goto("idle")
        BY <1>5, Zenon DEF AttachReplicas, AfterAttach, Crash
    <2>2. AfterAttach[stage] \in {"fill", "forget", "status"}
        BY <2>1, Zenon DEF AfterAttach
    <2> QED BY <1>1, <2>1, <2>2, Zenon DEF PostGate, kubeVars, Goto
<1>6. CASE RepairSlots \/ ForgetStaleNodes
    BY <1>1, <1>6, Zenon DEF RepairSlots, ForgetStaleNodes, Goto, PostGate, kubeVars
<1>7. CASE Fill
    <2>1. /\ stage = "fill"
          /\ \E f, n : MoveSlots(f, <<at, 0>>, n, "fill")
        BY <1>7, Zenon DEF Fill
    <2>2. /\ UNCHANGED <<spec, object, kubeVars, outages>>
          /\ Goto("fill") \/ Goto("idle")
        BY <2>1, Zenon DEF MoveSlots, Crash
    <2> QED BY <1>1, <2>1, <2>2, Zenon DEF PostGate, kubeVars, Goto
<1>8. CASE FillNext
    BY <1>1, <1>8, Zenon DEF FillNext, Goto, PostGate, kubeVars
<1>9. CASE ScaleIn
    <2>1. /\ stage = "drain" /\ UNCHANGED <<spec, object, outages>>
          /\ \/ Goto("status") \/ Goto("idle")
             \/ stage' = "pvcs" /\ UNCHANGED cr
        BY <1>9, Zenon DEF ScaleIn, DrainBatch, DeleteShard, MoveSlots, Crash
    <2> QED BY <1>1, <1>9, <2>1, Zenon DEF PostGate, Goto
<1>10. CASE DeleteShardPVCs
    BY <1>1, <1>10, Zenon DEF DeleteShardPVCs, DeleteVolumes, Crash, Goto, PostGate
<1>11. CASE Refresh \/ Publish \/ SeedLost
    BY <1>1, <1>11, Zenon DEF Refresh, Publish, SeedLost, Goto, PostGate, kubeVars
<1> QED BY <1>2, <1>3, <1>4, <1>5, <1>6, <1>7, <1>8, <1>9, <1>10, <1>11, Zenon DEF PassStep

-----------------------------------------------------------------------------
\* The pods of a pass stay: only pods that no StatefulSet asks for stop, and only shards
\* that are not declared are deleted.
LEMMA GatedStep ==
    ASSUME Basics, Gated, Owners, Calm, PassStep \/ OtherStep
    PROVE  Gated'
<1>1. CASE PassStep /\ ~ScaleIn
    BY <1>1, PassFrame, Zenon DEF Gated, AllPods, PostGate, Working
<1>2. CASE ScaleIn
    <2>1. /\ stage = "drain" /\ stage \in PostGate
          /\ stage' \in PostGate \cup {"idle"} /\ (stage' # "idle" => cr' = cr)
        BY <1>2, PassFrame, Zenon DEF PassStep, ScaleIn
    <2>2. CASE UNCHANGED kubeVars
        BY <2>1, <2>2, Zenon DEF kubeVars, Gated, AllPods, PostGate, Working
    <2>3. CASE \E i \in Shard : i >= cr.shards /\ DeleteShard(i)
        <3>1. PICK i \in Shard : i >= cr.shards /\ DeleteShard(i)
            BY <2>3, Zenon
        <3>2. /\ sts' = [sts EXCEPT ![i] = 0] /\ UNCHANGED <<up, cr>>
              /\ doomed' = doomed \cup {p \in up : p[1] = i}
            BY <3>1, Zenon DEF DeleteShard
        <3>3. /\ cr.shards \in Nat /\ i \in Nat /\ i \notin 0..cr.shards - 1
              /\ sts \in [Shard -> 0..Max(ReplicaChoices) + 1]
              /\ 0..cr.shards - 1 \subseteq Shard
            <4>1. cr.shards \in Nat /\ 0..cr.shards - 1 \subseteq Shard
                BY <2>1, InUse, PodsAreSafe, Zenon DEF PostGate
            <4>2. i \in Nat
                BY DEF Shard
            <4> QED BY <3>1, <4>1, <4>2, SMTT(30) DEF Basics, KubeOK
        <3>4. \A k \in 0..cr.shards - 1 : sts'[k] = cr.replicas + 1
            BY <2>1, <3>2, <3>3, Zenon DEF Gated, PostGate
        <3>5. \A p \in AllPods : p[1] # i
            BY <3>3, SMTT(30) DEF AllPods, Pod, Shard
        <3>6. AllPods \subseteq up' \ doomed'
            BY <2>1, <3>2, <3>5, Zenon DEF Gated
        <3>7. AllPods' = AllPods
            BY <3>2, Zenon DEF AllPods
        <3> QED BY <3>2, <3>4, <3>6, <3>7, Zenon DEF Gated
    <2> QED BY <1>2, <2>2, <2>3, ScaleInEffect, Zenon
<1>3. CASE ReadResource \/ AddFinalizer \/ DeleteOwnedPVCs \/ RemoveFinalizer \/ OperatorCrash
    <2>1. stage' \in {"idle", "ensure", "reclaim", "finalize", "unfinalize"}
        BY <1>3, Zenon DEF ReadResource, AddFinalizer, DeleteOwnedPVCs, RemoveFinalizer, OperatorCrash,
           DeleteVolumes, Crash, Goto
    <2> QED BY <2>1, Zenon DEF Gated, PostGate, Working
<1>4. CASE EnsureStatefulSets
    <2>1. stage' \in {"idle", "gate"}
        BY <1>4, Zenon DEF EnsureStatefulSets, Crash, Goto
    <2>2. CASE stage' = "idle"
        BY <2>2, Zenon DEF Gated, PostGate, Working
    <2>3. CASE stage' = "gate"
        <3>1. /\ sts' = [i \in Shard |-> IF i < cr.shards THEN cr.replicas + 1 ELSE sts[i]]
              /\ stage = "ensure" /\ cr' = cr
            BY <1>4, <2>3, Zenon DEF EnsureStatefulSets, Crash, Goto
        <3>2. cr.shards \in Nat \ {0} /\ cr.shards <= Max(Sizes) /\ Max(Sizes) \in Nat
            BY <3>1, InUse, Bounds, Zenon DEF Working, Stages
        <3>3. \A i \in 0..cr.shards - 1 : i \in Shard /\ i < cr.shards
            BY <3>2 DEF Shard
        <3> QED BY <2>3, <3>1, <3>3, Zenon DEF Gated, PostGate
    <2> QED BY <2>1, <2>2, <2>3, Zenon
<1>5. CASE Gate
    <2>1. stage = "gate" /\ UNCHANGED kubeVars
        BY <1>5, Zenon DEF Gate
    <2>2. CASE ShardsReady
        <3>1. stage' = "observe" /\ cr' = cr
            BY <1>5, <2>2, Zenon DEF Gate, Goto
        <3>2. AllPods \subseteq up \ doomed
            BY <2>1, <2>2, Zenon DEF Calm, GateHonest
        <3>3. \A i \in 0..cr.shards - 1 : sts[i] = cr.replicas + 1
            BY <2>1, Zenon DEF Gated, Working, Stages
        <3> QED BY <2>1, <3>1, <3>2, <3>3, Zenon DEF Gated, kubeVars, AllPods
    <2>3. CASE ~ShardsReady
        <3>1. stage' = "idle"
            BY <1>5, <2>3, Zenon DEF Gate, Goto
        <3> QED BY <3>1, Zenon DEF Gated, PostGate, Working
    <2> QED BY <2>2, <2>3, Zenon
<1>6. CASE User \/ Failover
    BY <1>6, Zenon DEF User, EditSpec, DeleteResource, Failover, kubeVars, passVars, Gated,
      AllPods
<1>7. CASE CollectGarbage
    <2>1. stage \notin Working /\ stage' = stage
        BY <1>7, Zenon DEF CollectGarbage, Basics, Life, Working, passVars
    <2> QED BY <2>1, Zenon DEF Gated, PostGate
<1>8. CASE PodStart
    BY <1>8, Zenon DEF PodStart, passVars, Gated, AllPods, Basics, KubeOK
<1>9. CASE PodStop
    <2>1. PICK p \in up :
            /\ p \in doomed \/ p[2] >= sts[p[1]]
            /\ up' = up \ {p} /\ doomed' = doomed \ {p}
        BY <1>9, Zenon DEF PodStop
    <2>2. UNCHANGED <<sts, stage, cr>>
        BY <1>9, Zenon DEF PodStop, passVars
    <2>3. ASSUME stage \in PostGate PROVE p \notin AllPods
        <3>1. \A i \in 0..cr.shards - 1 : sts[i] = cr.replicas + 1
            BY <2>3, Zenon DEF Gated, PostGate
        <3>2. SUFFICES ASSUME p \in AllPods PROVE FALSE
            BY Zenon
        <3>3. p \in Pod /\ p[1] < cr.shards /\ p[2] <= cr.replicas
            BY <3>2, Zenon DEF AllPods
        <3>4. cr.shards \in Nat /\ cr.replicas \in Nat
            BY <2>3, InUse, Zenon DEF PostGate
        <3>5. p[1] \in 0..cr.shards - 1 /\ p[2] \in Nat
            BY <3>3, <3>4, Bounds, SMTT(30) DEF Pod, Shard
        <3>6. p \notin doomed
            BY <2>3, <3>2, Zenon DEF Gated
        <3> QED BY <2>1, <3>1, <3>3, <3>4, <3>5, <3>6, SMTT(30)
    <2> QED BY <2>1, <2>2, <2>3, Zenon DEF Gated, AllPods
<1> QED BY <1>1, <1>2, <1>3, <1>4, <1>5, <1>6, <1>7, <1>8, <1>9, Zenon DEF PassStep, OtherStep,
  Kubernetes

-----------------------------------------------------------------------------
\* A step that leaves the nodes alone, and takes no StatefulSet away.
LEMMA OwnersFrame ==
    ASSUME Basics, Owners, UNCHANGED <<member, masterOf, count, open, up, doomed>>,
           \A i \in Shard : sts[i] > 0 => sts'[i] > 0, object = "gone" => object' = "gone"
    PROVE  Owners'
<1> SUFFICES ASSUME object' # "gone" PROVE Owners'
    BY Zenon DEF Owners
<1>1. \A p \in Pod : Safe(p) => Safe(p)'
    BY Zenon DEF Safe, Pod
<1>2. open \subseteq Pod
    BY Zenon DEF Basics, ClusterOK
<1> QED BY <1>1, <1>2, Zenon DEF Owners

\* Meeting pods of the pass keeps the slots where they are safe.
LEMMA MeetOwners ==
    ASSUME Basics, Gated, Owners, stage \in PostGate, NEW pods \in SUBSET AllPods, NEW next,
           Meet(pods, next)
    PROVE  /\ Owners' /\ UNCHANGED <<count, open, masterOf>>
           /\ member \subseteq member' /\ member' \subseteq member \cup pods
<1>1. PICK met \in SUBSET pods : member' = member \cup met
    BY Zenon DEF Meet
<1>2. UNCHANGED <<object, sts, up, doomed, count, open, masterOf>>
    BY Zenon DEF Meet, kubeVars
<1>3. object # "gone"
    BY InUse, Zenon DEF PostGate
<1>4. \A p \in pods : Safe(p)
    BY PodsAreSafe, Zenon
<1>5. \A p : Safe(p)' = Safe(p)
    BY <1>2, Zenon DEF Safe
<1>6. Owners'
    BY <1>1, <1>2, <1>3, <1>4, <1>5, Zenon DEF Owners
<1> QED BY <1>1, <1>2, <1>6, Zenon

\* Moving slots to a pod of the pass, too.
LEMMA ShiftedOwners ==
    ASSUME Basics, Gated, Owners, stage \in PostGate, NEW f \in Pod, NEW t \in Pod, Shifted(f, t),
           UNCHANGED <<object, sts, up, doomed>>
    PROVE  Owners'
<1>1. object # "gone"
    BY InUse, Zenon DEF PostGate
<1>2. /\ t \in AllPods /\ t[2] = 0 /\ f # t /\ count[f] > 0
      /\ UNCHANGED <<member, masterOf>>
      /\ open' \subseteq open \cup {f, t}
      /\ count' # count \/ open' # open => t \in member
    BY Zenon DEF Shifted
<1>3. PICK m \in 0..count[f] : count' = Moved(f, t, m)
    BY Zenon DEF Shifted
<1>4. /\ f[2] = 0 /\ f \in member /\ Safe(f) /\ Safe(t)
    BY <1>1, <1>2, PodsAreSafe, Zenon DEF Owners
<1>5. \A p : Safe(p)' = Safe(p)
    BY Zenon DEF Safe
<1>6. count \in [Pod -> Nat]
    BY Zenon DEF Basics, ClusterOK
<1>7. \A p \in Pod \ {f, t} : count'[p] = count[p]
    BY <1>3, <1>6, Zenon DEF Moved
<1>8. ASSUME NEW p \in Pod, count'[p] > 0
      PROVE  p[2] = 0 /\ p \in member /\ Safe(p)
    <2>1. CASE count' = count
        BY <1>1, <1>8, <2>1, Zenon DEF Owners
    <2>2. CASE count' # count
        <3>1. CASE p \in {f, t}
            BY <1>2, <1>4, <2>2, <3>1, Zenon
        <3>2. CASE p \notin {f, t}
            BY <1>1, <1>7, <1>8, <3>2, Zenon DEF Owners
        <3> QED BY <3>1, <3>2, Zenon
    <2> QED BY <2>1, <2>2, Zenon
<1>9. ASSUME NEW p \in open'
      PROVE  p[2] = 0 /\ (p \in member => Safe(p))
    BY <1>1, <1>2, <1>4, Zenon DEF Owners
<1> QED BY <1>1, <1>2, <1>5, <1>8, <1>9, Zenon DEF Owners

\* No slot comes to a pod that may go, and no owner goes.
LEMMA OwnersStep ==
    ASSUME Basics, Gated, Owners, Forming, PassStep \/ OtherStep
    PROVE  Owners'
<1>1. CASE Observe \/ FillNext \/ DeleteShardPVCs \/ Refresh \/ Publish \/ SeedLost
    <2>1. UNCHANGED clusterVars
        BY <1>1, Zenon DEF Observe, FillNext, DeleteShardPVCs, Refresh, Publish, SeedLost
    <2>2. UNCHANGED <<object, sts, up, doomed>>
        BY <1>1, Zenon DEF Observe, FillNext, DeleteShardPVCs, Refresh, Publish, SeedLost, kubeVars
    <2> QED BY <2>1, <2>2, OwnersFrame, Zenon DEF clusterVars
<1>2. CASE FormMeet \/ ScaleOutJoin \/ Members
    <2>1. stage \in PostGate
        BY <1>2, PassFrame, Zenon DEF PassStep
    <2>2. \E pods \in SUBSET AllPods : \E next : Meet(pods, next)
        BY <1>2, Zenon DEF FormMeet, ScaleOutJoin, Members
    <2> QED BY <2>1, <2>2, MeetOwners, Zenon
<1>3. CASE AddSlots
    <2>1. stage = "addslots" /\ stage \in PostGate /\ object # "gone"
        BY <1>3, PassFrame, InUse, Zenon DEF PassStep, AddSlots, PostGate
    <2>2. UNCHANGED <<object, sts, up, doomed, member, masterOf, open>>
        BY <1>3, Zenon DEF AddSlots, kubeVars
    <2>3. CASE UNCHANGED count
        BY <2>2, <2>3, OwnersFrame, Zenon
    <2>4. CASE /\ at < cr.shards
               /\ count' = [count EXCEPT ![<<at, 0>>] = TargetCounts(cr.shards)[at]]
        <3>1. cr.shards \in Nat /\ at \in Nat
            BY <2>1, InUse, SMTT(30) DEF PostGate, Basics, PassOK
        <3>2. at \in 0..cr.shards - 1
            BY <2>4, <3>1, SMTT(30)
        <3>3. <<at, 0>> \in AllPods /\ <<at, 0>> \in Pod /\ Safe(<<at, 0>>)
            BY <2>1, <3>2, PodsAreSafe, Zenon
        <3>4. <<at, 0>> \in member
            BY <2>1, <3>3, Zenon DEF Forming
        <3>5. \A p : Safe(p)' = Safe(p)
            BY <2>2, Zenon DEF Safe
        <3>6. \A p \in Pod \ {<<at, 0>>} : count'[p] = count[p]
            BY <2>4, Zenon DEF Basics, ClusterOK
        <3>7. ASSUME NEW p \in Pod, count'[p] > 0
              PROVE  p[2] = 0 /\ p \in member /\ Safe(p)
            <4>1. CASE p = <<at, 0>>
                BY <3>3, <3>4, <4>1, Zenon
            <4>2. CASE p # <<at, 0>>
                BY <2>1, <3>6, <3>7, <4>2, Zenon DEF Owners
            <4> QED BY <4>1, <4>2, Zenon
        <3> QED BY <2>1, <2>2, <3>5, <3>7, Zenon DEF Owners
    <2> QED BY <1>3, <2>3, <2>4, Zenon DEF AddSlots
<1>4. CASE AttachReplicas
    <2>1. PICK done \in SUBSET ToAttach :
            /\ masterOf' = [p \in Pod |-> IF p \in done THEN FindShardPrimary(p[1])
                                          ELSE masterOf[p]]
            /\ open' = open \ done
        BY <1>4, Zenon DEF AttachReplicas
    <2>2. UNCHANGED <<object, sts, up, doomed, member, count>>
        BY <1>4, Zenon DEF AttachReplicas, kubeVars
    <2>3. object # "gone" /\ stage # "idle"
        BY <1>4, PassFrame, InUse, Zenon DEF PassStep, PostGate, Working
    <2>4. ASSUME NEW i \in Shard
          PROVE  <<i, 0>> \notin done
        <3>1. SUFFICES ASSUME <<i, 0>> \in ToAttach PROVE FALSE
            BY Zenon
        <3>2. <<i, 0>> \in up /\ FindShardPrimary(i) # <<i, 0>>
            BY <3>1, Zenon DEF ToAttach
        <3> QED BY <2>3, <3>2, PrimaryIsFirst, Zenon
    <2>5. \A i \in Shard : <<i, 0>> \in Pod
        BY Bounds DEF Pod
    <2>6. \A p : Safe(p)' = Safe(p)
        BY <2>2, Zenon DEF Safe
    <2> QED BY <2>1, <2>2, <2>3, <2>4, <2>5, <2>6, Zenon DEF Owners
<1>5. CASE RepairSlots
    <2>1. UNCHANGED <<object, sts, up, doomed, member, masterOf, count>> /\ open' \subseteq open
        BY <1>5, Zenon DEF RepairSlots, kubeVars
    <2> QED BY <2>1, Zenon DEF Owners, Safe
<1>6. CASE Fill
    <2>1. stage \in PostGate /\ UNCHANGED <<object, sts, up, doomed>>
        <3>1. ~ScaleIn
            BY <1>6, Zenon DEF Fill, ScaleIn
        <3> QED BY <1>6, <3>1, PassFrame, Zenon DEF PassStep
    <2> QED BY <1>6, <2>1, FillShifts, ShiftedOwners, Zenon
<1>7. CASE ForgetStaleNodes
    <2>1. /\ UNCHANGED <<object, sts, up, doomed, masterOf, count, open>>
          /\ member' = member \ Stale
        BY <1>7, Zenon DEF ForgetStaleNodes, Forget, kubeVars
    <2>2. object # "gone" /\ cr.replicas \in Nat
        BY <1>7, PassFrame, InUse, Zenon DEF PassStep, PostGate
    <2>3. \A p : Safe(p)' = Safe(p)
        BY <2>1, Zenon DEF Safe
    <2>4. ASSUME NEW p \in Pod, count[p] > 0
          PROVE  p \notin Stale
        <3>1. p[2] = 0 /\ sts[p[1]] > 0
            BY <2>2, <2>4, Zenon DEF Owners, Safe
        <3> QED BY <2>2, <3>1, SMTT(30) DEF Stale
    <2> QED BY <2>1, <2>2, <2>3, <2>4, Zenon DEF Owners
<1>8. CASE ScaleIn
    <2>1. stage = "drain" /\ stage \in PostGate /\ UNCHANGED object /\ object # "gone"
        BY <1>8, PassFrame, InUse, Zenon DEF PassStep, ScaleIn, PostGate
    <2>2. CASE UNCHANGED <<kubeVars, clusterVars>>
        BY <2>1, <2>2, OwnersFrame, Zenon DEF kubeVars, clusterVars
    <2>3. CASE UNCHANGED kubeVars /\ \E f, t \in Pod : Shifted(f, t)
        BY <2>1, <2>3, ShiftedOwners, Zenon DEF kubeVars
    <2>4. CASE \E i \in Shard : DeleteShard(i)
        <3>1. PICK i \in Shard : DeleteShard(i)
            BY <2>4, Zenon
        <3>2. /\ member' = member \ ({<<i, j>> : j \in 0..cr.replicas} \cap up)
              /\ sts' = [sts EXCEPT ![i] = 0]
              /\ doomed' = doomed \cup {p \in up : p[1] = i}
              /\ UNCHANGED <<up, masterOf, count, open>>
            BY <3>1, Zenon DEF DeleteShard, Forget
        <3>3. \A p \in Pod : p[1] = i => count[p] = 0
            BY <2>1, <3>1, DeletedIsEmpty, Zenon
        <3>4. cr.replicas \in Nat /\ sts \in [Shard -> 0..Max(ReplicaChoices) + 1] /\ open \subseteq Pod
            BY <2>1, InUse, Zenon DEF PostGate, Basics, KubeOK, ClusterOK
        <3>5. ASSUME NEW p \in Pod, p[1] # i
              PROVE  (Safe(p) => Safe(p)') /\ (p \in member <=> p \in member')
            BY <3>2, <3>4, <3>5, SMTT(30) DEF Safe, Pod
        <3>6. ASSUME NEW p \in open, p \in member'
              PROVE  p[1] # i
            <4>1. p \in Pod /\ p[2] = 0 /\ p \in member /\ p \in up
                BY <2>1, <3>2, <3>4, <3>6, Zenon DEF Owners, Safe
            <4>2. SUFFICES ASSUME p[1] = i PROVE FALSE
                BY Zenon
            <4>3. p = <<i, 0>> /\ 0 \in 0..cr.replicas
                BY <3>4, <4>1, <4>2, SMTT(30) DEF Pod
            <4> QED BY <3>2, <3>6, <4>1, <4>3, Zenon
        <3>7. ASSUME NEW p \in Pod, count'[p] > 0
              PROVE  p[2] = 0 /\ p \in member' /\ Safe(p)'
            <4>1. p[1] # i /\ count[p] > 0
                BY <3>2, <3>3, <3>7, SMTT(30)
            <4> QED BY <2>1, <3>5, <4>1, Zenon DEF Owners
        <3>8. ASSUME NEW p \in open'
              PROVE  p[2] = 0 /\ (p \in member' => Safe(p)')
            <4>1. p \in open /\ p \in Pod /\ p[2] = 0
                BY <2>1, <3>2, <3>4, Zenon DEF Owners
            <4>2. ASSUME p \in member' PROVE Safe(p)'
                <5>1. p[1] # i
                    BY <3>6, <4>1, <4>2, Zenon
                <5> QED BY <2>1, <3>5, <4>1, <4>2, <5>1, Zenon DEF Owners
            <4> QED BY <4>1, <4>2, Zenon
        <3> QED BY <2>1, <3>2, <3>7, <3>8, Zenon DEF Owners
    <2> QED BY <1>8, <2>2, <2>3, <2>4, ScaleInEffect, Zenon
<1>9. CASE \/ ReadResource \/ AddFinalizer \/ DeleteOwnedPVCs \/ RemoveFinalizer \/ Gate
           \/ OperatorCrash \/ User
    <2>1. /\ UNCHANGED clusterVars /\ UNCHANGED <<sts, up, doomed>>
          /\ object = "gone" => object' = "gone"
        BY <1>9, Zenon DEF ReadResource, AddFinalizer, DeleteOwnedPVCs, RemoveFinalizer, Gate,
           OperatorCrash, User, EditSpec, DeleteResource, kubeVars
    <2> QED BY <2>1, OwnersFrame, Zenon DEF clusterVars
<1>10. CASE EnsureStatefulSets
    <2>1. PICK k \in 0..cr.shards : sts' = [i \in Shard |-> IF i < k THEN cr.replicas + 1 ELSE sts[i]]
        BY <1>10, Zenon DEF EnsureStatefulSets
    <2>2. UNCHANGED <<object, up, doomed>> /\ UNCHANGED clusterVars /\ stage = "ensure"
        BY <1>10, Zenon DEF EnsureStatefulSets
    <2>3. cr.replicas \in Nat
        BY <2>2, InUse, Zenon DEF Working, Stages
    <2>4. \A i \in Shard : sts[i] > 0 => sts'[i] > 0
        BY <2>1, <2>3, SMTT(30)
    <2> QED BY <2>2, <2>4, OwnersFrame, Zenon DEF clusterVars
<1>11. CASE CollectGarbage
    BY <1>11, Zenon DEF CollectGarbage, Owners
<1>12. CASE PodStart
    <2> SUFFICES ASSUME object' # "gone" PROVE Owners'
        BY Zenon DEF Owners
    <2>1. PICK p \in Pod \ up :
            /\ up' = up \cup {p}
            /\ \/ UNCHANGED <<member, masterOf, count, open>>
               \/ /\ member' = member \ {p} /\ open' = open \ {p}
                  /\ masterOf' = [masterOf EXCEPT ![p] = NoPod]
                  /\ count' = [count EXCEPT ![p] = 0]
        BY <1>12, Zenon DEF PodStart
    <2>2. UNCHANGED <<object, sts, doomed>> /\ object # "gone"
        BY <1>12, Zenon DEF PodStart
    <2>3. \A q \in Pod : Safe(q) => Safe(q)' /\ q # p
        BY <2>1, <2>2, Zenon DEF Safe
    <2>4. open \subseteq Pod /\ count \in [Pod -> Nat] /\ masterOf \in [Pod -> Pod \cup {NoPod}]
        BY Zenon DEF Basics, ClusterOK
    <2>5. CASE UNCHANGED <<member, masterOf, count, open>>
        BY <2>2, <2>3, <2>4, <2>5, Zenon DEF Owners
    <2>6. CASE /\ member' = member \ {p} /\ open' = open \ {p}
               /\ masterOf' = [masterOf EXCEPT ![p] = NoPod]
               /\ count' = [count EXCEPT ![p] = 0]
        <3>1. ASSUME NEW q \in Pod, count'[q] > 0
              PROVE  q[2] = 0 /\ q \in member' /\ Safe(q)'
            <4>1. count[q] > 0
                BY <2>4, <2>6, <3>1, SMTT(30)
            <4> QED BY <2>2, <2>3, <2>6, <4>1, Zenon DEF Owners
        <3>2. ASSUME NEW q \in open'
              PROVE  q[2] = 0 /\ (q \in member' => Safe(q)')
            BY <2>2, <2>3, <2>4, <2>6, Zenon DEF Owners
        <3>3. \A i \in Shard : masterOf'[<<i, 0>>] = NoPod
            <4>1. \A i \in Shard : <<i, 0>> \in Pod
                BY Bounds DEF Pod
            <4> QED BY <2>2, <2>4, <2>6, <4>1, Zenon DEF Owners
        <3> QED BY <3>1, <3>2, <3>3, Zenon DEF Owners
    <2> QED BY <2>1, <2>5, <2>6, Zenon
<1>13. CASE PodStop
    <2> SUFFICES ASSUME object' # "gone" PROVE Owners'
        BY Zenon DEF Owners
    <2>1. PICK p \in up :
            /\ p \in doomed \/ p[2] >= sts[p[1]]
            /\ up' = up \ {p} /\ doomed' = doomed \ {p}
        BY <1>13, Zenon DEF PodStop
    <2>2. UNCHANGED <<object, sts, member, masterOf, count, open>> /\ object # "gone"
        BY <1>13, Zenon DEF PodStop, clusterVars
    <2>3. ASSUME NEW q \in Pod, q[2] = 0, Safe(q)
          PROVE  Safe(q)'
        <3>1. q \notin doomed /\ sts[q[1]] > 0 /\ sts[q[1]] \in Nat
            BY <2>3, Bounds, SMTT(30) DEF Safe, Pod, Basics, KubeOK
        <3>2. q # p
            BY <2>1, <2>3, <3>1, SMTT(30)
        <3> QED BY <2>1, <2>2, <2>3, <3>2, Zenon DEF Safe
    <2>4. open \subseteq Pod
        BY Zenon DEF Basics, ClusterOK
    <2> QED BY <2>2, <2>3, <2>4, Zenon DEF Owners
<1>14. CASE Failover
    <2> SUFFICES ASSUME object' # "gone" PROVE FALSE
        BY Zenon DEF Owners
    <2>1. PICK p \in SlotOwners : p \notin up
        BY <1>14, Zenon DEF Failover
    <2>2. object # "gone"
        BY <1>14, Zenon DEF Failover
    <2> QED BY <2>1, <2>2, WhatOwnersOwn, Zenon DEF Owners, Safe
<1> QED BY <1>1, <1>2, <1>3, <1>4, <1>5, <1>6, <1>7, <1>8, <1>9, <1>10, <1>11, <1>12, <1>13, <1>14, Zenon
       DEF PassStep, OtherStep, Kubernetes

-----------------------------------------------------------------------------
\* Slots are given out by AddSlots only, and then they only move.
LEMMA CountStep ==
    ASSUME Basics, Gated, Owners, PassStep \/ OtherStep, object' # "gone"
    PROVE  \/ UNCHANGED count
           \/ AddSlots
           \/ Fill /\ \E f, t \in Pod : Shifted(f, t)
           \/ ScaleIn /\ \E f, t \in Pod : Shifted(f, t)
<1>1. CASE \/ Observe \/ FormMeet \/ AttachReplicas \/ RepairSlots \/ ScaleOutJoin \/ FillNext
           \/ ForgetStaleNodes \/ DeleteShardPVCs \/ Members \/ Refresh \/ Publish \/ SeedLost
    BY <1>1, Zenon DEF Observe, FormMeet, Meet, AttachReplicas, RepairSlots, ScaleOutJoin,
      FillNext,
       ForgetStaleNodes, DeleteShardPVCs, Members, Refresh, Publish, SeedLost, clusterVars
<1>2. CASE Fill
    BY <1>2, FillShifts, Zenon
<1>3. CASE ScaleIn
    BY <1>3, ScaleInEffect, Zenon DEF DeleteShard, clusterVars
<1>4. CASE \/ ReadResource \/ AddFinalizer \/ DeleteOwnedPVCs \/ RemoveFinalizer \/ Gate
           \/ EnsureStatefulSets \/ OperatorCrash \/ User \/ CollectGarbage \/ PodStop
    BY <1>4, Zenon DEF ReadResource, AddFinalizer, DeleteOwnedPVCs, RemoveFinalizer, Gate,
       EnsureStatefulSets, OperatorCrash, User, EditSpec, DeleteResource, CollectGarbage, PodStop,
       clusterVars
<1>5. CASE PodStart
    <2>1. PICK p \in Pod \ up : UNCHANGED count \/ count' = [count EXCEPT ![p] = 0]
        BY <1>5, Zenon DEF PodStart
    <2>2. object # "gone" /\ count \in [Pod -> Nat]
        BY <1>5, Zenon DEF PodStart, Basics, ClusterOK
    <2>3. count[p] = 0
        BY <2>1, <2>2, SMTT(30) DEF Owners, Safe
    <2> QED BY <2>1, <2>2, <2>3, Zenon
<1>6. CASE Failover
    <2>1. PICK p \in SlotOwners : p \notin up
        BY <1>6, Zenon DEF Failover
    <2>2. object # "gone"
        BY <1>6, Zenon DEF Failover
    <2> QED BY <2>1, <2>2, WhatOwnersOwn, Zenon DEF Owners, Safe
<1> QED BY <1>1, <1>2, <1>3, <1>4, <1>5, <1>6, Zenon DEF PassStep, OtherStep, Kubernetes

\* A move keeps the number of slots.
LEMMA ShiftedSum ==
    ASSUME Basics, NEW f \in Pod, NEW t \in Pod, Shifted(f, t)
    PROVE  Sum(count', Pod) = Sum(count, Pod)
<1>1. PICK m \in 0..count[f] : count' = Moved(f, t, m)
    BY Zenon DEF Shifted
<1>2. f # t /\ count \in [Pod -> Nat] /\ IsFiniteSet(Pod)
    BY Bounds, Zenon DEF Shifted, Basics, ClusterOK
<1>3. count[f] \in Nat
    BY <1>2, Zenon
<1>4. m \in Nat /\ m <= count[f]
    BY <1>3, SMTT(30)
<1>5. /\ count' \in [Pod -> Nat] /\ count'[f] = count[f] - m /\ count'[t] = count[t] + m
      /\ \A p \in Pod \ {f, t} : count'[p] = count[p]
    BY <1>1, <1>2, <1>4, SMTT(30) DEF Moved
<1> QED BY <1>2, <1>4, <1>5, SumMove, SMTT(30)

\* The steps that lead to the forming of a cluster.
LEMMA FormingSteps ==
    ASSUME Basics, PassStep \/ OtherStep
    PROVE  /\ stage' = "form" => Observe \/ UNCHANGED <<stage, cr, at>>
           /\ stage' = "addslots" => FormMeet \/ AddSlots \/ UNCHANGED <<stage, cr, at>>
           /\ UNCHANGED stage /\ stage \in {"form", "addslots"} =>
                AddSlots \/ User \/ Kubernetes \/ Failover
           /\ stage = "addslots" /\ stage' = "attach-form" => AddSlots
<1>1. CASE FormMeet \/ ScaleOutJoin \/ Members
    BY <1>1, Zenon DEF FormMeet, ScaleOutJoin, Members, Meet, Crash, Goto
<1>2. CASE AttachReplicas
    <2>1. /\ stage \in {"attach-form", "attach-join", "attach-fill", "attach-members"}
          /\ stage' \in {AfterAttach[stage], "idle"}
        BY <1>2, Zenon DEF AttachReplicas, AfterAttach, Crash, Goto
    <2>2. AfterAttach[stage] \in {"fill", "forget", "status"}
        BY <2>1, ZenonT(40) DEF AfterAttach
    <2> QED BY <2>1, <2>2, Zenon
<1>3. CASE Fill \/ ScaleIn
    BY <1>3, Zenon DEF Fill, ScaleIn, DrainBatch, DeleteShard, MoveSlots, Crash, Goto
<1>4. CASE \/ RepairSlots \/ FillNext \/ ForgetStaleNodes \/ DeleteShardPVCs
           \/ Refresh \/ Publish \/ SeedLost
    BY <1>4, Zenon DEF RepairSlots, FillNext, ForgetStaleNodes, DeleteShardPVCs, DeleteVolumes,
       Refresh, Publish, SeedLost, Crash, Goto
<1>5. CASE \/ ReadResource \/ AddFinalizer \/ DeleteOwnedPVCs \/ RemoveFinalizer
           \/ EnsureStatefulSets \/ Gate \/ OperatorCrash
    BY <1>5, Zenon DEF ReadResource, AddFinalizer, DeleteOwnedPVCs, RemoveFinalizer, DeleteVolumes,
       EnsureStatefulSets, Gate, OperatorCrash, Crash, Goto
<1>6. CASE User \/ Kubernetes \/ Failover
    BY <1>6, Zenon DEF User, EditSpec, DeleteResource, Kubernetes, CollectGarbage, PodStart,
      PodStop,
       Failover, passVars
<1>7. CASE Observe
    <2>1. stage = "observe" /\ \E o \in Observations : stage' = FirstStage(PlanFor(o))
        BY <1>7, Zenon DEF Observe
    <2>2. stage' \in {"form", "repair", "join", "sweep", "members"}
        BY <2>1, PlanIsSound, Zenon
    <2> QED BY <1>7, <2>1, <2>2, Zenon
<1>8. CASE AddSlots
    BY <1>8, Zenon DEF AddSlots, Goto
<1> QED BY <1>1, <1>2, <1>3, <1>4, <1>5, <1>6, <1>7, <1>8, Zenon DEF PassStep, OtherStep

\* AddSlots gives the next shard its share, and after the last one all slots are given out.
LEMMA AddSlotsEffect ==
    ASSUME Basics, Forming, AddSlots
    PROVE  /\ cr.shards \in Nat \ {0} /\ at \in 0..cr.shards
           /\ \/ /\ UNCHANGED count /\ stage' = "idle"
              \/ /\ UNCHANGED count /\ stage' = "attach-form" /\ at = cr.shards
              \/ /\ UNCHANGED <<stage, cr, member>> /\ at < cr.shards /\ at' = at + 1
                 /\ count' = [count EXCEPT ![<<at, 0>>] = TargetCounts(cr.shards)[at]]
                 /\ Sum(count', Pod) = Cut(at + 1, cr.shards)
                 /\ \A p \in Pod : count'[p] = IF p[2] = 0 /\ p[1] < at + 1
                                               THEN TargetCounts(cr.shards)[p[1]] ELSE 0
<1>1. stage = "addslots" /\ stage \in Working
    BY Zenon DEF AddSlots, Working, Stages
<1>2. cr.shards \in Nat \ {0} /\ cr.shards <= Max(Sizes) /\ at \in Nat /\ at <= cr.shards
    BY <1>1, InUse, SMTT(30) DEF Basics, PassOK, Loop
<1>3. /\ Sum(count, Pod) = Cut(at, cr.shards)
      /\ \A p \in Pod : count[p] = IF p[2] = 0 /\ p[1] < at THEN TargetCounts(cr.shards)[p[1]]
                                   ELSE 0
    BY <1>1, Zenon DEF Forming
<1>4. ASSUME at < cr.shards, <<at, 0>> \in up
      PROVE  /\ UNCHANGED <<stage, cr, member>> /\ at' = at + 1
             /\ count' = [count EXCEPT ![<<at, 0>>] = TargetCounts(cr.shards)[at]]
             /\ Sum(count', Pod) = Cut(at + 1, cr.shards)
             /\ \A p \in Pod : count'[p] = IF p[2] = 0 /\ p[1] < at + 1
                                           THEN TargetCounts(cr.shards)[p[1]] ELSE 0
    <2>1. /\ count' = [count EXCEPT ![<<at, 0>>] = TargetCounts(cr.shards)[at]]
          /\ at' = at + 1 /\ UNCHANGED <<stage, cr, member>>
        BY <1>4, Zenon DEF AddSlots
    <2>2. at \in 0..cr.shards - 1 /\ <<at, 0>> \in Pod
        BY <1>2, <1>4, Bounds, SMTT(30) DEF Pod, Shard
    <2>3. /\ TargetCounts(cr.shards)[at] = Cut(at + 1, cr.shards) - Cut(at, cr.shards)
          /\ TargetCounts(cr.shards)[at] \in Nat
        BY <1>2, <2>2, Ranges, ShareSize, Zenon
    <2>4. Cut(at, cr.shards) \in Nat /\ Cut(at + 1, cr.shards) \in Nat
        BY <1>2, Cuts, Zenon
    <2>5. count \in [Pod -> Nat] /\ IsFiniteSet(Pod) /\ count[<<at, 0>>] = 0
        <3>1. count \in [Pod -> Nat] /\ IsFiniteSet(Pod)
            BY Bounds, Zenon DEF Basics, ClusterOK
        <3>2. ~(<<at, 0>>[1] < at)
            BY <1>2, SMTT(30)
        <3> QED BY <1>3, <2>2, <3>1, <3>2, Zenon
    <2>6. /\ count' \in [Pod -> Nat] /\ count'[<<at, 0>>] = TargetCounts(cr.shards)[at]
          /\ \A p \in Pod \ {<<at, 0>>} : count[p] = count'[p]
        BY <2>1, <2>2, <2>3, <2>5, Zenon
    <2>7. Sum(count', Pod) = Sum(count, Pod) - count[<<at, 0>>] + count'[<<at, 0>>]
        <3>1. \A y \in Pod : count[y] \in Nat /\ count'[y] \in Nat
            BY <2>5, <2>6, Zenon
        <3> QED BY <2>2, <2>5, <2>6, <3>1, SumUpdate, SMTT(30)
    <2>8. Sum(count', Pod) = Cut(at + 1, cr.shards)
        BY <1>3, <2>3, <2>4, <2>5, <2>6, <2>7, SMTT(30)
    <2>9. ASSUME NEW p \in Pod
          PROVE  count'[p] = IF p[2] = 0 /\ p[1] < at + 1 THEN TargetCounts(cr.shards)[p[1]] ELSE 0
        <3>1. p = <<p[1], p[2]>> /\ p[1] \in Nat
            BY DEF Pod, Shard
        <3>2. CASE p = <<at, 0>>
            BY <1>2, <2>6, <3>2, SMTT(30)
        <3>3. CASE p # <<at, 0>>
            <4>1. p[2] = 0 => p[1] # at
                BY <3>1, <3>3, Zenon
            <4>2. p[2] = 0 => (p[1] < at <=> p[1] < at + 1)
                BY <1>2, <3>1, <4>1, SMTT(30)
            <4> QED BY <1>3, <2>6, <3>3, <4>2, Zenon
        <3> QED BY <3>2, <3>3, Zenon
    <2> QED BY <2>1, <2>8, <2>9, Zenon
<1>5. ASSUME ~(at < cr.shards /\ <<at, 0>> \in up)
      PROVE  \/ UNCHANGED count /\ stage' = "idle"
             \/ UNCHANGED count /\ stage' = "attach-form" /\ at = cr.shards
    BY <1>2, <1>5, SMTT(30) DEF AddSlots, Goto
<1> QED BY <1>2, <1>4, <1>5, SMTT(30)

\* The forming of a cluster, step by step: a pass that forms one has seen no slot owned.
LEMMA FormingStep ==
    ASSUME Basics, Gated, Owners, Forming, PassStep \/ OtherStep, Basics'
    PROVE  Forming'
<1>1. ASSUME stage' = "form"
      PROVE  at' = 0 /\ \A p \in Pod : count'[p] = 0
    <2>1. CASE UNCHANGED <<stage, cr, at>>
        <3>1. stage = "form" /\ object' # "gone" /\ ~AddSlots /\ ~Fill /\ ~ScaleIn
            BY <1>1, <2>1, Zenon DEF AddSlots, Fill, ScaleIn, Basics, Life
        <3>2. UNCHANGED count
            BY <3>1, CountStep, Zenon
        <3> QED BY <2>1, <3>1, <3>2, Zenon DEF Forming
    <2>2. CASE Observe
        <3>1. PICK o \in Observations :
                /\ stage' = FirstStage(PlanFor(o))
                /\ at' = IF PlanFor(o) = "ScaleOutShards" THEN o.primaries ELSE 0
            BY <2>2, Zenon DEF Observe
        <3>2. stage = "observe" /\ UNCHANGED count
            BY <2>2, Zenon DEF Observe, clusterVars
        <3>3. PlanFor(o) = "Form" /\ o.formed = (Assigned > 0)
            <4>1. PlanFor(o) \in Kinds /\ o.formed = (Assigned > 0)
                BY <3>2, PlanIsSound, Zenon
            <4> QED BY <1>1, <3>1, <4>1, Zenon DEF FirstStage, Kinds
        <3>4. ~(Assigned > 0)
            BY <3>3, Zenon DEF PlanFor, Decide
        <3>5. object # "gone"
            BY <3>2, InUse, Zenon DEF Working, Stages
        <3>6. Sum(count, Pod) = 0
            BY <3>4, <3>5, WhatOwnersOwn, SMTT(30)
        <3>7. \A p \in Pod : count[p] = 0
            <4>1. IsFiniteSet(Pod) /\ \A p \in Pod : count[p] \in Nat
                BY Bounds, Zenon DEF Basics, ClusterOK
            <4>2. \A p \in Pod : count[p] <= Sum(count, Pod)
                BY <4>1, SumBounds, Zenon
            <4> QED BY <3>6, <4>1, <4>2, SMTT(30)
        <3> QED BY <3>1, <3>2, <3>3, <3>7, Zenon
    <2> QED BY <1>1, <2>1, <2>2, FormingSteps, Zenon
<1>2. ASSUME stage' = "addslots"
      PROVE  /\ AllPods' \subseteq member' /\ Sum(count', Pod) = Cut(at', cr'.shards)
             /\ \A p \in Pod : count'[p] = IF p[2] = 0 /\ p[1] < at'
                                           THEN TargetCounts(cr'.shards)[p[1]] ELSE 0
    <2>1. CASE FormMeet
        <3>1. stage = "form" /\ stage \in PostGate /\ Goto("addslots") /\ member' = member \cup AllPods
              /\ UNCHANGED count
            BY <1>2, <2>1, PassFrame, Zenon DEF PassStep, FormMeet, Meet, Crash, Goto
        <3>2. UNCHANGED <<cr, at>> /\ at = 0 /\ \A p \in Pod : count[p] = 0
            BY <3>1, Zenon DEF Goto, Forming
        <3>3. AllPods' = AllPods
            BY <3>2, Zenon DEF AllPods
        <3>4. Sum(count, Pod) = 0
            <4>1. IsFiniteSet(Pod) /\ {} \in SUBSET Pod
                BY Bounds, Zenon
            <4>2. Sum(count, Pod) = Sum(count, {})
                BY <3>2, <4>1, SumOfRest, SMTT(30)
            <4> QED BY <4>2, SumEmpty, Zenon
        <3>5. cr.shards \in Nat \ {0}
            BY <3>1, InUse, Zenon DEF PostGate
        <3>6. Cut(0, cr.shards) = 0
            BY <3>5, OuterCuts, Zenon
        <3>7. \A p \in Pod : ~(p[1] < 0)
            BY DEF Pod, Shard
        <3> QED BY <3>1, <3>2, <3>3, <3>4, <3>6, <3>7, Zenon
    <2>2. CASE AddSlots
        <3>1. /\ UNCHANGED <<stage, cr, member>> /\ at' = at + 1
              /\ Sum(count', Pod) = Cut(at + 1, cr.shards)
              /\ \A p \in Pod : count'[p] = IF p[2] = 0 /\ p[1] < at + 1
                                            THEN TargetCounts(cr.shards)[p[1]] ELSE 0
            BY <1>2, <2>2, AddSlotsEffect, Zenon
        <3>2. AllPods' = AllPods /\ AllPods \subseteq member
            BY <1>2, <3>1, Zenon DEF AllPods, Forming
        <3> QED BY <3>1, <3>2, Zenon
    <2>3. CASE UNCHANGED <<stage, cr, at>> /\ ~AddSlots
        <3>1. stage = "addslots" /\ object' # "gone" /\ ~Fill /\ ~ScaleIn /\ stage \in PostGate
            BY <1>2, <2>3, Zenon DEF Fill, ScaleIn, Basics, Life, PostGate, Working, Stages
        <3>2. UNCHANGED count
            BY <2>3, <3>1, CountStep, Zenon
        <3>3. AllPods' = AllPods /\ AllPods \subseteq member /\ AllPods \subseteq up
            BY <2>3, <3>1, Zenon DEF AllPods, Forming, Gated
        <3>4. User \/ Kubernetes \/ Failover
            BY <2>3, <3>1, FormingSteps, Zenon
        <3>5. member' = member \/ \E p \in Pod \ up : member' = member \ {p}
            BY <3>4, Zenon DEF User, EditSpec, DeleteResource, Kubernetes, CollectGarbage,
              PodStart,
               PodStop, Failover, clusterVars
        <3> QED BY <2>3, <3>1, <3>2, <3>3, <3>5, Zenon DEF Forming
    <2> QED BY <1>2, <2>1, <2>2, <2>3, FormingSteps, Zenon
<1> QED BY <1>1, <1>2, Primes, Zenon DEF Forming

\* The slots that have an owner never become fewer, nor more than there are.
LEMMA SlotsStep ==
    ASSUME Basics, Gated, Owners, Forming, SlotsAreFew, PassStep \/ OtherStep, object' # "gone",
           object # "gone"
    PROVE  /\ Sum(count', Pod) \in Nat /\ Sum(count', Pod) <= TotalSlots
           /\ Sum(count, Pod) <= Sum(count', Pod)
<1>1. Sum(count, Pod) \in Nat /\ Sum(count, Pod) <= TotalSlots
    BY WhatOwnersOwn, Zenon DEF SlotsAreFew
<1>2. CASE Sum(count', Pod) = Sum(count, Pod)
    BY <1>1, <1>2, SMTT(30)
<1>3. CASE AddSlots /\ ~UNCHANGED count
    <2>1. /\ cr.shards \in Nat \ {0} /\ at \in 0..cr.shards /\ at < cr.shards
          /\ Sum(count', Pod) = Cut(at + 1, cr.shards)
        BY <1>3, AddSlotsEffect, Zenon
    <2>2. Sum(count, Pod) = Cut(at, cr.shards)
        BY <1>3, Zenon DEF AddSlots, Forming
    <2>3. at + 1 \in 0..cr.shards /\ at \in Nat
        BY <2>1
    <2>4. Cut(at + 1, cr.shards) <= TotalSlots /\ Cut(at + 1, cr.shards) \in Nat
        BY <2>1, <2>3, CutBound, Cuts, Zenon
    <2>5. Cut(at, cr.shards) <= Cut(at + 1, cr.shards)
        <3>1. Cut(at + 1, cr.shards) - Cut(at, cr.shards)
                \in {TotalSlots \div cr.shards, TotalSlots \div cr.shards + 1}
            BY <2>1, <2>3, CutDistance, Zenon
        <3>2. TotalSlots \div cr.shards \in Nat /\ Cut(at, cr.shards) \in Nat
            BY <2>1, <2>3, ShareIsNat, Cuts, Zenon
        <3> QED BY <2>4, <3>1, <3>2, SMTT(30)
    <2> QED BY <2>1, <2>2, <2>4, <2>5, Zenon
<1> QED BY <1>2, <1>3, CountStep, ShiftedSum, Zenon

-----------------------------------------------------------------------------
\* The report carries the generation of the spec that the pass has read.
LEMMA ReportedGeneration ==
    ASSUME Refresh
    PROVE  report'.generation = cr.generation
<1> DEFINE Report(ready, actual, desired, covered, slots, generation) ==
        [ready |-> ready, actual |-> actual, desired |-> desired, covered |-> covered,
         open |-> slots, generation |-> generation]
<1>1. \A r, a, d, c, o, g : Report(r, a, d, c, o, g).generation = g
    BY Zenon
<1>2. PICK r, a, d, c, o : report' = Report(r, a, d, c, o, cr.generation)
    BY Zenon DEF Refresh
<1> QED BY <1>1, <1>2, Zenon

\* What the writing of a status does to the fields that a claim is about.
LEMMA StatusFields ==
    ASSUME NEW s \in Statuses
    PROVE  /\ \A phase \in Phases : /\ SetPhase(s, phase).phase = phase
                                    /\ SetPhase(s, phase).computedFrom = s.computedFrom
           /\ \A rep \in Reports, g \in Nat :
                 /\ UpdateStatus(s, rep, g).computedFrom = rep.generation
                 /\ UpdateStatus(s, rep, g).phase = "Ready" => AllReady(rep)
<1>1. ASSUME NEW phase \in Phases
      PROVE  /\ SetPhase(s, phase).phase = phase
             /\ SetPhase(s, phase).computedFrom = s.computedFrom
    BY Zenon DEF SetPhase, Statuses
<1>2. ASSUME NEW rep \in Reports, NEW g \in Nat
      PROVE  /\ UpdateStatus(s, rep, g).computedFrom = rep.generation
             /\ UpdateStatus(s, rep, g).phase = "Ready" => AllReady(rep)
    <2> DEFINE counted == [s EXCEPT !.readyShards = rep.ready, !.observedGeneration = g,
                                    !.computedFrom = rep.generation]
               ready == [counted EXCEPT !.phase = "Ready", !.available = "True",
                                        !.progressing = "False", !.degraded = "False"]
               resharding == [counted EXCEPT !.phase = "Resharding", !.progressing = "True",
                                             !.available = "True"]
               degraded == [counted EXCEPT !.phase = "Degraded", !.available = "False",
                                           !.degraded = "True"]
    <2>1. counted \in Statuses /\ counted.computedFrom = rep.generation
        BY Zenon DEF Statuses, Reports
    <2> HIDE DEF counted
    <2>2. ready.computedFrom = rep.generation
        BY <2>1, Zenon DEF Statuses
    <2>3. resharding.computedFrom = rep.generation /\ resharding.phase = "Resharding"
        BY <2>1, Zenon DEF Statuses
    <2>4. degraded.computedFrom = rep.generation /\ degraded.phase = "Degraded"
        BY <2>1, Zenon DEF Statuses
    <2>5. UpdateStatus(s, rep, g) = IF AllReady(rep) THEN ready
                                    ELSE IF rep.ready > 0 /\ (rep.actual > rep.desired \/ rep.open)
                                    THEN resharding ELSE degraded
        BY Zenon DEF UpdateStatus, counted
    <2> HIDE DEF ready, resharding, degraded
    <2> QED BY <2>2, <2>3, <2>4, <2>5, Zenon
<1> QED BY <1>1, <1>2, Zenon

\* The steps that write no status and read no state for one.
PlainStep ==
    \/ FormMeet \/ AddSlots \/ AttachReplicas \/ RepairSlots \/ ScaleOutJoin \/ Fill \/ FillNext
    \/ ForgetStaleNodes \/ ScaleIn \/ DeleteShardPVCs \/ Members \/ SeedLost
    \/ DeleteOwnedPVCs \/ RemoveFinalizer \/ EnsureStatefulSets \/ OperatorCrash

\* These steps leave the spec and the status alone, and lead to no publication.
LEMMA PlainFrame ==
    ASSUME Basics, PlainStep
    PROVE  /\ UNCHANGED <<spec, status>> /\ object' \in {object, "gone"}
           /\ stage # "idle" /\ stage' # "publish" /\ (stage' # "idle" => cr' = cr)
<1>1. CASE FormMeet \/ ScaleOutJoin \/ Members
    BY <1>1, Zenon DEF FormMeet, ScaleOutJoin, Members, Meet, Crash, Goto
<1>2. CASE AttachReplicas
    <2>1. /\ stage \in {"attach-form", "attach-join", "attach-fill", "attach-members"}
          /\ UNCHANGED <<spec, object, status>>
          /\ stage' \in {AfterAttach[stage], "idle"} /\ (stage' # "idle" => cr' = cr)
        BY <1>2, Zenon DEF AttachReplicas, AfterAttach, Crash, Goto
    <2>2. AfterAttach[stage] \in {"fill", "forget", "status"}
        BY <2>1, ZenonT(40) DEF AfterAttach
    <2> QED BY <2>1, <2>2, Zenon
<1>3. CASE Fill \/ ScaleIn
    BY <1>3, Zenon DEF Fill, ScaleIn, DrainBatch, DeleteShard, MoveSlots, Crash, Goto
<1>4. CASE AddSlots \/ RepairSlots \/ FillNext \/ ForgetStaleNodes \/ DeleteShardPVCs \/ SeedLost
    BY <1>4, Zenon DEF AddSlots, RepairSlots, FillNext, ForgetStaleNodes, DeleteShardPVCs,
      DeleteVolumes,
       SeedLost, Crash, Goto
<1>5. CASE DeleteOwnedPVCs \/ RemoveFinalizer \/ EnsureStatefulSets \/ OperatorCrash
    BY <1>5, Zenon DEF DeleteOwnedPVCs, RemoveFinalizer, DeleteVolumes, EnsureStatefulSets,
       OperatorCrash, Crash, Goto
<1> QED BY <1>1, <1>2, <1>3, <1>4, <1>5, Zenon DEF PlainStep

\* The steps that follow, sorted by what they do to the status.
LEMMA StatusSteps ==
    ASSUME PassStep \/ OtherStep
    PROVE  PlainStep \/ Observe \/ Refresh \/ Publish \/ ReadResource \/ AddFinalizer \/ Gate
           \/ EditSpec \/ DeleteResource \/ Kubernetes \/ Failover
BY Zenon DEF PassStep, OtherStep, PlainStep, User

\* A report and a status are about the spec that their pass has read.
LEMMA GenerationsStep ==
    ASSUME Basics, Generations, PassStep \/ OtherStep
    PROVE  Generations'
<1> USE DEF Generations
<1>0. /\ spec.generation \in Nat /\ status.computedFrom \in Nat /\ status \in Statuses
      /\ stage # "idle" => cr \in Specs /\ cr.generation \in Nat
    BY Zenon DEF Basics, ObjectOK, PassOK, Specs, Statuses
<1>1. CASE PlainStep
    BY <1>1, PlainFrame, Zenon
<1>2. CASE Observe
    <2>1. PICK o \in Observations :
            /\ stage' = FirstStage(PlanFor(o))
            /\ status' = IF PlanFor(o) = "None" THEN status
                         ELSE SetPhase(status, PhaseOf(PlanFor(o)))
        BY <1>2, Zenon DEF Observe
    <2>2. stage = "observe" /\ UNCHANGED <<spec, cr>>
        BY <1>2, Zenon DEF Observe
    <2>3. /\ FirstStage(PlanFor(o)) \in {"form", "repair", "join", "sweep", "members"}
          /\ PlanFor(o) # "None" => PhaseOf(PlanFor(o)) \in Phases
        BY <2>2, PlanIsSound, Zenon
    <2>4. status'.computedFrom = status.computedFrom
        BY <1>0, <2>1, <2>3, StatusFields, Zenon
    <2> QED BY <2>1, <2>2, <2>3, <2>4, Zenon
<1>3. CASE Refresh
    <2>1. stage = "status" /\ stage' = "publish" /\ UNCHANGED <<spec, status, cr>>
        BY <1>3, Zenon DEF Refresh
    <2>2. report'.generation = cr.generation
        BY <1>3, ReportedGeneration, Zenon
    <2> QED BY <2>1, <2>2, Zenon
<1>4. CASE Publish
    <2>1. /\ stage = "publish" /\ stage' = "idle" /\ UNCHANGED spec
          /\ status' = UpdateStatus(status, report, spec.generation)
        BY <1>4, Zenon DEF Publish, Goto
    <2>2. report \in Reports
        BY <2>1, Zenon DEF Basics, PassOK
    <2>3. status'.computedFrom = report.generation
        BY <1>0, <2>1, <2>2, StatusFields, Zenon
    <2> QED BY <2>1, <2>3, Zenon
<1>5. CASE ReadResource
    <2>1. UNCHANGED <<spec, status>> /\ cr' = spec /\ stage' # "publish"
        BY <1>5, Zenon DEF ReadResource
    <2> QED BY <1>0, <2>1, SMTT(30)
<1>6. CASE AddFinalizer
    <2>1. stage = "finalize" /\ stage' # "publish" /\ UNCHANGED status
        BY <1>6, Zenon DEF AddFinalizer, Goto
    <2>2. CASE object = "new" /\ spec = cr
        <3>1. spec' = Stored(spec) /\ cr' = Stored(spec)
            BY <1>6, <2>2, Zenon DEF AddFinalizer
        <3>2. spec.generation <= spec'.generation /\ spec'.generation \in Nat
            BY <3>1, StoredSpec, Zenon DEF Basics, ObjectOK, Specs
        <3>3. status.computedFrom <= spec'.generation /\ spec'.generation <= spec'.generation
            BY <1>0, <3>2, SMTT(30)
        <3> QED BY <2>1, <3>1, <3>3, Zenon
    <2>3. CASE ~(object = "new" /\ spec = cr)
        BY <1>6, <2>1, <2>3, Zenon DEF AddFinalizer, Goto
    <2> QED BY <2>2, <2>3, Zenon
<1>7. CASE Gate
    <2>1. /\ stage = "gate" /\ stage' \in {"idle", "observe"} /\ (stage' # "idle" => cr' = cr)
          /\ UNCHANGED spec /\ (UNCHANGED status \/ status' = SetPhase(status, "Provisioning"))
        BY <1>7, Zenon DEF Gate, Goto
    <2>2. status'.computedFrom = status.computedFrom
        <3>1. "Provisioning" \in Phases
            BY Zenon DEF Phases
        <3>2. SetPhase(status, "Provisioning").computedFrom = status.computedFrom
            BY <1>0, <3>1, StatusFields, Zenon
        <3> QED BY <2>1, <3>2, Zenon
    <2> QED BY <2>1, <2>2, Zenon
<1>8. CASE EditSpec
    <2>1. UNCHANGED <<status, stage, cr, report>>
        BY <1>8, Zenon DEF EditSpec, passVars
    <2>2. spec'.generation = spec.generation + 1
        <3>1. PICK n \in Sizes, r \in ReplicaChoices :
                spec' = [spec EXCEPT !.shards = n, !.replicas = r, !.generation = @ + 1]
            BY <1>8, Zenon DEF EditSpec
        <3>2. spec \in Specs
            BY Zenon DEF Basics, ObjectOK
        <3> QED BY <3>1, <3>2, Zenon DEF Specs
    <2> QED BY <1>0, <2>1, <2>2, SMTT(30)
<1>9. CASE DeleteResource \/ Kubernetes \/ Failover
    BY <1>9, Zenon DEF DeleteResource, Kubernetes, CollectGarbage, PodStart, PodStop, Failover, passVars
<1> QED BY <1>1, <1>2, <1>3, <1>4, <1>5, <1>6, <1>7, <1>8, <1>9, StatusSteps, Zenon

-----------------------------------------------------------------------------
\* There are as many first pods as shards.
LEMMA FirstPods ==
    ASSUME NEW n \in Nat
    PROVE  LET firsts == {<<i, 0>> : i \in 0..n - 1}
           IN  IsFiniteSet(firsts) /\ Cardinality(firsts) = n
<1> DEFINE firsts == {<<i, 0>> : i \in 0..n - 1}
           f == [i \in 0..n - 1 |-> <<i, 0>>]
<1>1. f \in Bijection(0..n - 1, firsts)
    BY Zenon DEF Bijection, Injection, Surjection, IsInjective
<1>2. IsFiniteSet(0..n - 1) /\ Cardinality(0..n - 1) = n
    BY FirstShards, Zenon
<1> HIDE DEF firsts
<1>3. ExistsBijection(0..n - 1, firsts)
    BY <1>1, Zenon DEF ExistsBijection
<1>4. IsFiniteSet(firsts) /\ Cardinality(firsts) = n
    BY <1>2, <1>3, FS_Bijection, Zenon
<1> QED BY <1>4, Zenon DEF firsts

\* A cluster stays settled while slots, markers and members stay.
LEMMA SettledKept ==
    ASSUME Settled, UNCHANGED <<spec, count>>, open' \cap member' \subseteq open \cap member
    PROVE  Settled'
<1>1. Sum(count', Pod) = Sum(count, Pod)
    BY Zenon
<1> QED BY <1>1, Primes, Zenon DEF Settled

\* A report that all is ready is about a settled cluster: the shards that are counted ready
\* are the declared ones, and there are no other owners.
LEMMA ReportIsTrue ==
    ASSUME Basics, Gated, Owners, Generations, Refresh, AllReady(report'),
      cr.generation = spec.generation
    PROVE  Settled
<1> DEFINE declared == 0..cr.shards - 1
           ready == {i \in declared : \E j \in 0..cr.replicas : <<i, j>> \in SlotOwners}
           firsts == {<<i, 0>> : i \in declared}
<1>1. PICK c \in SlotsCovered :
        report' = [ready |-> Cardinality(ready), actual |-> Cardinality(SlotOwners),
                   desired |-> cr.shards, covered |-> c, open |-> OpenSlots,
                   generation |-> cr.generation]
    BY Zenon DEF Refresh
<1>2. stage = "status" /\ stage \in Working /\ cr = spec
    BY Zenon DEF Refresh, Working, Stages, Generations
<1>3. object # "gone" /\ cr.shards \in Nat
    BY <1>2, InUse, Zenon
<1>4. Cardinality(ready) = cr.shards /\ Cardinality(SlotOwners) = cr.shards /\ c /\ ~OpenSlots
    BY <1>1, Zenon DEF AllReady
<1>5. Assigned = TotalSlots
    BY <1>1, <1>4, Zenon DEF SlotsCovered
<1>6. open \cap member = {}
    BY <1>3, <1>4, Zenon DEF OpenSlots, Owners, Safe
<1>7. ready = declared
    <2>1. IsFiniteSet(declared) /\ Cardinality(declared) = cr.shards
        BY <1>3, FirstShards, Zenon
    <2>2. ready \in SUBSET declared
        BY Zenon
    <2> HIDE DEF ready, declared
    <2> QED BY <1>4, <2>1, <2>2, FS_Subset, Zenon
<1>8. SlotOwners = {p \in Pod : count[p] > 0}
    BY <1>3, WhatOwnersOwn, Zenon
<1>9. ASSUME NEW i \in declared
      PROVE  <<i, 0>> \in SlotOwners
    <2>1. PICK j \in 0..cr.replicas : <<i, j>> \in SlotOwners
        BY <1>7, Zenon
    <2>2. j = 0
        BY <1>3, <1>8, <2>1, Zenon DEF Owners
    <2> QED BY <2>1, <2>2, Zenon
<1>10. SlotOwners = firsts
    <2>1. firsts \in SUBSET SlotOwners
        BY <1>9, Zenon
    <2>2. Cardinality(firsts) = cr.shards
        BY <1>3, FirstPods, Zenon
    <2>3. IsFiniteSet(SlotOwners)
        BY <1>8, Bounds, FS_Subset, Zenon
    <2> HIDE DEF firsts
    <2>4. Cardinality(firsts) = Cardinality(SlotOwners)
        BY <1>4, <2>2, Zenon
    <2> QED BY <2>1, <2>3, <2>4, FS_Subset, Zenon
<1>11. Sum(count, Pod) = TotalSlots
    BY <1>3, <1>5, WhatOwnersOwn, Zenon
<1> QED BY <1>2, <1>6, <1>8, <1>10, <1>11, Zenon DEF Settled

\* The steps of a pass that has found nothing to do leave a settled cluster settled.
LEMMA QuietPassKeeps ==
    ASSUME Basics, Gated, Owners, Generations, PlainStep, Claim, Settled, stage \in Quiet,
           object' = "live"
    PROVE  Settled' /\ stage' \in Quiet
<1>1. UNCHANGED <<spec, status>> /\ object = "live"
    BY PlainFrame, Zenon DEF Claim
<1>2. stage # "idle" => cr = spec
    <2>1. stage # "idle" => cr.generation \in Nat /\ spec.generation \in Nat
        BY Zenon DEF Basics, ObjectOK, PassOK, Specs
    <2> QED BY <2>1, SMTT(30) DEF Generations, Claim
<1>3. CASE EnsureStatefulSets \/ OperatorCrash \/ SeedLost
    <2>1. stage' \in {"gate", "idle", "status", "drain"} /\ UNCHANGED clusterVars
        BY <1>3, Zenon DEF EnsureStatefulSets, OperatorCrash, SeedLost, Crash, Goto
    <2>2. stage' # "drain"
        BY <1>3, Zenon DEF EnsureStatefulSets, OperatorCrash, SeedLost, Crash, Goto, Quiet
    <2> QED BY <1>1, <2>1, <2>2, SettledKept, Zenon DEF clusterVars, Quiet
<1>4. CASE Members
    <2>1. stage = "members" /\ Meet(AllPods \ member, "attach-members") /\ stage \in PostGate
        BY <1>4, PassFrame, Zenon DEF PassStep, Members
    <2>2. /\ UNCHANGED <<count, open>> /\ member' \subseteq member \cup (AllPods \ member)
        BY <2>1, MeetOwners, Zenon
    <2>3. stage' \in {"attach-members", "idle"}
        BY <2>1, Zenon DEF Meet, Crash, Goto
    <2>4. ASSUME NEW p \in open, p \in AllPods
          PROVE  p \in member
        <3>1. p \in Pod /\ p[2] = 0 /\ p[1] < spec.shards
            BY <1>1, <1>2, <2>1, <2>4, Zenon DEF Owners, AllPods
        <3>2. p = <<p[1], 0>> /\ p[1] \in 0..spec.shards - 1
            <4>1. spec.shards \in Nat
                BY Bounds, Zenon DEF Basics, ObjectOK, Specs
            <4> QED BY <3>1, <4>1, SMTT(30) DEF Pod, Shard
        <3>3. count[p] > 0
            BY <3>1, <3>2, Zenon DEF Settled
        <3> QED BY <1>1, <3>1, <3>3, Zenon DEF Owners
    <2> QED BY <1>1, <2>2, <2>3, <2>4, SettledKept, Zenon DEF Quiet
<1>5. CASE AttachReplicas
    <2>1. stage = "attach-members"
        BY <1>5, Zenon DEF AttachReplicas, AfterAttach, Quiet
    <2>2. stage' \in {"forget", "idle"}
        BY <1>5, <2>1, Zenon DEF AttachReplicas, AfterAttach, Crash, Goto
    <2>3. UNCHANGED <<member, count>> /\ open' \subseteq open
        BY <1>5, Zenon DEF AttachReplicas
    <2> QED BY <1>1, <2>2, <2>3, SettledKept, Zenon DEF Quiet
<1>6. CASE ForgetStaleNodes
    <2>1. stage = "forget" /\ stage' = "status"
        BY <1>6, Zenon DEF ForgetStaleNodes, Quiet, Goto
    <2>2. UNCHANGED <<open, count>> /\ member' \subseteq member
        BY <1>6, Zenon DEF ForgetStaleNodes, Forget
    <2> QED BY <1>1, <2>1, <2>2, SettledKept, Zenon DEF Quiet
<1>7. CASE \/ FormMeet \/ AddSlots \/ RepairSlots \/ ScaleOutJoin \/ Fill \/ FillNext
           \/ ScaleIn \/ DeleteShardPVCs
    BY <1>7, Zenon DEF FormMeet, AddSlots, RepairSlots, ScaleOutJoin, Fill, FillNext, ScaleIn,
       DeleteShardPVCs, Quiet
<1>8. CASE DeleteOwnedPVCs \/ RemoveFinalizer
    BY <1>8, Zenon DEF DeleteOwnedPVCs, RemoveFinalizer, Quiet
<1> QED BY <1>3, <1>4, <1>5, <1>6, <1>7, <1>8, Zenon DEF PlainStep

\* Kubernetes does not unsettle a cluster, and none of its nodes is lost.
LEMMA KubernetesKeeps ==
    ASSUME Basics, Owners, object = "live", Settled, Kubernetes \/ Failover
    PROVE  Settled'
<1>1. UNCHANGED spec /\ object' # "gone"
    BY Zenon DEF Kubernetes, CollectGarbage, PodStart, PodStop, Failover
<1>2. CASE PodStart
    <2>1. PICK p \in Pod \ up :
            \/ UNCHANGED <<member, count, open>>
            \/ /\ member' = member \ {p} /\ open' = open \ {p}
               /\ count' = [count EXCEPT ![p] = 0]
        BY <1>2, ZenonT(40) DEF PodStart
    <2>2. count[p] = 0 /\ count \in [Pod -> Nat]
        BY DEF Owners, Safe, Basics, ClusterOK
    <2>3. UNCHANGED count /\ open' \cap member' \subseteq open \cap member
        BY <2>1, <2>2, Zenon
    <2> QED BY <1>1, <2>3, SettledKept, Zenon
<1>3. CASE PodStop
    BY <1>1, <1>3, SettledKept, Zenon DEF PodStop, clusterVars
<1>4. CASE CollectGarbage
    BY <1>4, Zenon DEF CollectGarbage
<1>5. CASE Failover
    <2>1. PICK p \in SlotOwners : p \notin up
        BY <1>5, Zenon DEF Failover
    <2> QED BY <2>1, WhatOwnersOwn, Zenon DEF Owners, Safe
<1> QED BY <1>2, <1>3, <1>4, <1>5, Zenon DEF Kubernetes

\* Ready is published of a settled cluster, and withdrawn before it is unsettled.
LEMMA TruthStep ==
    ASSUME Basics, Gated, Owners, Generations, Truth, PassStep \/ OtherStep
    PROVE  Truth'
<1> DEFINE Reported == /\ stage = "publish" /\ object = "live" /\ AllReady(report)
                       /\ report.generation = spec.generation
<1>0. /\ spec.generation \in Nat /\ status \in Statuses /\ status.computedFrom \in Nat
      /\ spec \in Specs
    BY Zenon DEF Basics, ObjectOK, Specs, Statuses
<1>1. CASE PlainStep
    <2>1. UNCHANGED <<spec, status>> /\ object' \in {object, "gone"} /\ stage' # "publish"
        BY <1>1, PlainFrame, Zenon
    <2>2. ASSUME Claim' PROVE Settled' /\ stage' \in Quiet
        <3>1. Claim /\ object' = "live"
            BY <2>1, <2>2, Zenon DEF Claim
        <3> QED BY <1>1, <3>1, QuietPassKeeps, Zenon DEF Truth
    <2> QED BY <2>1, <2>2, Zenon DEF Truth
<1>2. CASE Observe
    <2>1. PICK o \in Observations :
            /\ stage' = FirstStage(PlanFor(o))
            /\ status' = IF PlanFor(o) = "None" THEN status
                         ELSE SetPhase(status, PhaseOf(PlanFor(o)))
        BY <1>2, Zenon DEF Observe
    <2>2. stage = "observe" /\ UNCHANGED <<spec, object>> /\ UNCHANGED clusterVars
        BY <1>2, Zenon DEF Observe
    <2>3. /\ FirstStage(PlanFor(o)) \in {"form", "repair", "join", "sweep", "members"}
          /\ PlanFor(o) # "None" => PhaseOf(PlanFor(o)) \in Phases \ {"Ready"}
        BY <2>2, PlanIsSound, Zenon
    <2>4. object # "new"
        BY <2>2, Zenon DEF Basics, Life
    <2>5. ASSUME Claim' PROVE Settled' /\ stage' \in Quiet
        <3>1. PlanFor(o) = "None"
            BY <1>0, <2>1, <2>3, <2>5, StatusFields, Zenon DEF Claim
        <3>2. stage' = "members" /\ UNCHANGED status
            BY <2>1, <3>1, Zenon DEF FirstStage
        <3>3. Settled
            BY <2>2, <2>5, <3>2, Zenon DEF Truth, Claim
        <3> QED BY <2>2, <3>2, <3>3, SettledKept, Zenon DEF clusterVars, Quiet
    <2> QED BY <2>1, <2>2, <2>3, <2>4, <2>5, Zenon DEF Truth
<1>3. CASE Refresh
    <2>1. stage = "status" /\ stage' = "publish" /\ UNCHANGED <<spec, object, status>>
          /\ UNCHANGED clusterVars /\ report'.generation = cr.generation
        BY <1>3, SMTT(30) DEF Refresh
    <2>2. Settled => Settled'
        BY <2>1, SettledKept, Zenon DEF clusterVars
    <2>3. Reported' => Settled
        BY <1>3, <2>1, ReportIsTrue, Zenon
    <2>4. Claim' => Settled
        BY <2>1, Zenon DEF Truth, Claim
    <2>5. object # "new"
        BY <2>1, Zenon DEF Basics, Life
    <2> QED BY <2>1, <2>2, <2>3, <2>4, <2>5, Zenon DEF Truth, Quiet
<1>4. CASE Publish
    <2>1. /\ stage = "publish" /\ stage' = "idle" /\ UNCHANGED <<spec, object>>
          /\ status' = UpdateStatus(status, report, spec.generation) /\ UNCHANGED clusterVars
        BY <1>4, Zenon DEF Publish, Goto
    <2>2. report \in Reports
        BY <2>1, Zenon DEF Basics, PassOK
    <2>3. /\ status'.computedFrom = report.generation
          /\ status'.phase = "Ready" => AllReady(report)
        BY <1>0, <2>1, <2>2, StatusFields, Zenon
    <2>4. Claim' => Settled
        BY <2>1, <2>3, Zenon DEF Claim, Truth
    <2>5. Settled => Settled'
        BY <2>1, SettledKept, Zenon DEF clusterVars
    <2>6. object # "new"
        BY <2>1, Zenon DEF Basics, Life
    <2> QED BY <2>1, <2>4, <2>5, <2>6, Zenon DEF Truth, Quiet
<1>5. CASE ReadResource
    <2>1. UNCHANGED <<spec, object, status>> /\ UNCHANGED clusterVars /\ stage' # "publish"
          /\ (object = "live" => stage' = "ensure")
        BY <1>5, Zenon DEF ReadResource
    <2>2. Settled => Settled'
        BY <2>1, SettledKept, Zenon DEF clusterVars
    <2> QED BY <2>1, <2>2, Zenon DEF Truth, Claim, Quiet
<1>6. CASE AddFinalizer
    <2>1. /\ stage = "finalize" /\ UNCHANGED status /\ stage' # "publish"
          /\ object' = "live" => object \in {"new", "live"}
          /\ object' = "new" => object = "new"
        BY <1>6, Zenon DEF AddFinalizer, Goto
    <2>2. object \in {"new", "gone"}
        BY <2>1, Zenon DEF Basics, Life
    <2>3. ~Claim'
        BY <2>1, <2>2, Zenon DEF Truth, Claim
    <2> QED BY <2>1, <2>3, Zenon DEF Truth
<1>7. CASE Gate
    <2>1. /\ stage = "gate" /\ UNCHANGED <<spec, object>> /\ UNCHANGED clusterVars
          /\ \/ stage' = "observe" /\ UNCHANGED status
             \/ stage' = "idle" /\ status' = SetPhase(status, "Provisioning")
        BY <1>7, Zenon DEF Gate, Goto
    <2>2. SetPhase(status, "Provisioning").phase = "Provisioning"
        <3>1. "Provisioning" \in Phases
            BY Zenon DEF Phases
        <3> QED BY <1>0, <3>1, StatusFields, Zenon
    <2>3. object # "new"
        BY <2>1, Zenon DEF Basics, Life
    <2>4. Settled => Settled'
        BY <2>1, SettledKept, Zenon DEF clusterVars
    <2> QED BY <2>1, <2>2, <2>3, <2>4, Zenon DEF Truth, Claim, Quiet
<1>8. CASE EditSpec
    <2>1. UNCHANGED <<object, status, stage, cr, report>>
        BY <1>8, Zenon DEF EditSpec, passVars
    <2>2. spec'.generation = spec.generation + 1
        <3>1. PICK n \in Sizes, r \in ReplicaChoices :
                spec' = [spec EXCEPT !.shards = n, !.replicas = r, !.generation = @ + 1]
            BY <1>8, Zenon DEF EditSpec
        <3> QED BY <1>0, <3>1, Zenon DEF Specs
    <2>3. ~Claim'
        BY <1>0, <2>1, <2>2, SMTT(30) DEF Generations, Claim
    <2>4. ~Reported'
        <3>1. stage = "publish" => cr.generation \in Nat
            BY Zenon DEF Basics, PassOK, Specs
        <3> QED BY <1>0, <2>1, <2>2, <3>1, SMTT(30) DEF Generations
    <2> QED BY <2>1, <2>3, <2>4, Zenon DEF Truth
<1>9. CASE DeleteResource
    <2>1. object' \in {"gone", "deleting"}
        BY <1>9, Zenon DEF DeleteResource
    <2> QED BY <2>1, Zenon DEF Truth, Claim
<1>10. CASE Kubernetes \/ Failover
    <2>1. UNCHANGED <<spec, object, status, stage, report>>
        BY <1>10, Zenon DEF Kubernetes, CollectGarbage, PodStart, PodStop, Failover, passVars
    <2>2. object = "live" /\ Settled => Settled'
        BY <1>10, KubernetesKeeps, Zenon
    <2> QED BY <2>1, <2>2, Zenon DEF Truth, Claim
<1> QED BY <1>1, <1>2, <1>3, <1>4, <1>5, <1>6, <1>7, <1>8, <1>9, <1>10, StatusSteps, Zenon

-----------------------------------------------------------------------------
\* A resource that the operator has not seen yet satisfies the invariant.
LEMMA InitialLossless == Init => Lossless
<1> SUFFICES ASSUME Init PROVE Lossless
    BY Zenon
<1>1. Basics
    BY InitialBasics, Zenon
<1>2. /\ stage = "idle" /\ object = "new" /\ status = NoStatus /\ open = {}
      /\ count = [p \in Pod |-> 0] /\ masterOf = [p \in Pod |-> NoPod]
    BY Zenon DEF Init, InitResource
<1>3. Gated /\ Forming
    BY <1>2, Zenon DEF Gated, Forming, PostGate, Working
<1>4. Owners
    <2>1. \A i \in Shard : <<i, 0>> \in Pod
        BY Bounds, SMTT(30) DEF Pod
    <2> QED BY <1>2, <2>1, SMTT(30) DEF Owners
<1>5. SlotsAreFew
    <2>1. IsFiniteSet(Pod) /\ {} \in SUBSET Pod /\ \A p \in Pod : count[p] = 0
        BY <1>2, Bounds, Zenon
    <2>2. Sum(count, Pod) = Sum(count, {})
        BY <2>1, SumOfRest, SMTT(30)
    <2>3. Sum(count, Pod) = 0
        BY <2>2, SumEmpty, Zenon
    <2> QED BY <2>3, SlotsAssumption, SMTT(30) DEF SlotsAreFew
<1>6. Generations /\ Truth
    <2>1. status.computedFrom = 0 /\ status.phase # "Ready"
        BY <1>2, Zenon DEF NoStatus
    <2>2. 0 <= spec.generation
        BY <1>1, SMTT(30) DEF Basics, ObjectOK, Specs
    <2> QED BY <1>2, <2>1, <2>2, Zenon DEF Generations, Truth, Claim
<1> QED BY <1>1, <1>3, <1>4, <1>5, <1>6, Zenon DEF Lossless

\* A resource that is gone does not come back.
LEMMA GoneForGood ==
    ASSUME Basics, PassStep \/ OtherStep, object = "gone"
    PROVE  object' = "gone"
<1>1. CASE PassStep
    BY <1>1, PassFrame, Zenon
<1>2. CASE OtherStep
    BY <1>2, Zenon DEF OtherStep, ReadResource, AddFinalizer, DeleteOwnedPVCs, RemoveFinalizer,
       EnsureStatefulSets, Gate, OperatorCrash, User, EditSpec, DeleteResource, Kubernetes,
       CollectGarbage, PodStart, PodStop, Failover
<1> QED BY <1>1, <1>2, Zenon

\* Every step of a calm behaviour keeps it.
LEMMA LosslessStep == Lossless /\ Calm /\ Calm' /\ [Next]_vars => Lossless'
<1> SUFFICES ASSUME Lossless, Calm, Calm', [Next]_vars PROVE Lossless'
    BY Zenon
<1>1. Basics'
    BY BasicsStep, Zenon DEF Lossless
<1>2. CASE PassStep \/ OtherStep
    <2>1. Gated' /\ Owners' /\ Forming' /\ Generations' /\ Truth'
        BY <1>1, <1>2, GatedStep, OwnersStep, FormingStep, GenerationsStep, TruthStep, Zenon DEF Lossless
    <2>2. SlotsAreFew'
        <3>1. SUFFICES ASSUME object' # "gone" PROVE Sum(count', Pod) <= TotalSlots
            BY Primes, Zenon DEF SlotsAreFew
        <3>2. object # "gone"
            BY <1>2, <3>1, GoneForGood, Zenon DEF Lossless
        <3> QED BY <1>2, <3>1, <3>2, SlotsStep, Zenon DEF Lossless
    <2> QED BY <1>1, <2>1, <2>2, Zenon DEF Lossless
<1>3. CASE UNCHANGED vars
    <2>1. UNCHANGED <<spec, object, status, sts, volumes, up, doomed, late, member, masterOf,
      count,
                      open, stage, cr, at, report>>
        BY <1>3, Zenon DEF vars, kubeVars, clusterVars, passVars
    <2>2. Gated' /\ Owners'
        BY <2>1, Zenon DEF Lossless, Gated, Owners, Safe, AllPods
    <2>3. Forming' /\ SlotsAreFew'
        BY <2>1, Primes, Zenon DEF Lossless, Forming, SlotsAreFew, AllPods
    <2>4. Generations' /\ Truth'
        BY <2>1, SettledKept, Zenon DEF Lossless, Generations, Truth, Claim
    <2> QED BY <1>1, <2>2, <2>3, <2>4, Zenon DEF Lossless
<1> QED BY <1>2, <1>3, NextSteps, Zenon DEF Calm

\* The inductive invariant holds in every calm behaviour.
LEMMA LosslessAlways == Spec /\ []Calm => []Lossless
BY InitialLossless, LosslessStep, PTL DEF Spec

\* updateStatus: if no pod is lost and the gate lets no pass through too early, a Ready
\* computed from the current spec is true, and stays true until a pass or an edit withdraws
\* it, whatever the number of edits, crashes and failed commands.
THEOREM ReadyIsTrue == Spec /\ []Calm => []ReadyIsTruthful
<1>1. Lossless => ReadyIsTruthful
    <2> SUFFICES ASSUME Lossless, Claim
                 PROVE  /\ Assigned = TotalSlots /\ open \cap member = {}
                        /\ Cardinality(SlotOwners) = spec.shards
                        /\ \A p \in SlotOwners : p[1] < spec.shards
        BY Zenon DEF ReadyIsTruthful, Claim
    <2>1. Settled /\ Basics /\ Owners /\ object # "gone"
        BY Zenon DEF Lossless, Truth, Claim
    <2>2. SlotOwners = {<<i, 0>> : i \in 0..spec.shards - 1} /\ Assigned = TotalSlots
        BY <2>1, WhatOwnersOwn, Zenon DEF Settled
    <2>3. spec.shards \in Nat
        BY <2>1, Bounds, Zenon DEF Basics, ObjectOK, Specs
    <2>4. Cardinality({<<i, 0>> : i \in 0..spec.shards - 1}) = spec.shards
        BY <2>3, FirstPods, Zenon
    <2> QED BY <2>1, <2>2, <2>3, <2>4, SMTT(30) DEF Settled
<1> QED BY <1>1, LosslessAlways, PTL

\* scaleIn, deleteShard: then a shard is deleted only when it has been drained, even if the
\* spec is edited or the operator fails in the middle of it.
THEOREM DrainsBeforeDeleting == Spec /\ []Calm => DrainedBeforeDeleted
<1> DEFINE Drained == object # "gone" => \A i \in Shard : sts[i] > 0 /\ sts'[i] = 0
                                           => \A p \in Pod : p[1] = i => count[p] = 0
<1>1. Lossless /\ Calm /\ Calm' /\ [Next]_vars => [Drained]_vars
    <2> SUFFICES ASSUME Lossless, Calm, Calm', [Next]_vars, object # "gone", ~UNCHANGED vars,
                        NEW i \in Shard, sts[i] > 0, sts'[i] = 0, NEW p \in Pod, p[1] = i
                 PROVE  count[p] = 0
        BY Zenon
    <2>0. sts'[i] # sts[i]
        <3>1. ~(0 > 0)
            OBVIOUS
        <3> QED BY <3>1, Zenon
    <2>1. PassStep \/ OtherStep
        BY NextSteps, Zenon DEF Calm
    <2>2. CASE ScaleIn
        <3>1. PICK k \in Shard : DeleteShard(k)
            BY <2>0, <2>2, ScaleInEffect, Zenon DEF Lossless, kubeVars
        <3>2. k = i
            <4>1. sts' = [sts EXCEPT ![k] = 0]
                BY <3>1, Zenon DEF DeleteShard
            <4>2. k # i => sts'[i] = sts[i]
                BY <4>1, Zenon DEF Lossless, Basics, KubeOK
            <4> QED BY <2>0, <4>2, Zenon
        <3> QED BY <2>2, <3>1, <3>2, DeletedIsEmpty, Zenon DEF ScaleIn, Lossless
    <2>3. CASE PassStep /\ ~ScaleIn
        BY <2>0, <2>3, PassFrame, Zenon DEF Lossless
    <2>4. CASE OtherStep
        <3>1. ~EnsureStatefulSets
            <4>1. SUFFICES ASSUME EnsureStatefulSets PROVE FALSE
                BY Zenon
            <4>2. cr.replicas \in Nat
                BY <4>1, InUse, Zenon DEF EnsureStatefulSets, Working, Stages, Lossless
            <4> QED BY <4>1, <4>2, SMTT(30) DEF EnsureStatefulSets
        <3>2. ~CollectGarbage
            BY Zenon DEF CollectGarbage
        <3>3. UNCHANGED sts
            BY <2>4, <3>1, <3>2, Zenon DEF OtherStep, ReadResource, AddFinalizer, DeleteOwnedPVCs,
               RemoveFinalizer, Gate, OperatorCrash, User, EditSpec, DeleteResource, Kubernetes,
               PodStart, PodStop, Failover, kubeVars
        <3> QED BY <3>3, SMTT(30)
    <2> QED BY <2>1, <2>2, <2>3, <2>4, Zenon
<1> QED BY <1>1, LosslessAlways, PTL DEF Spec, DrainedBeforeDeleted

\* forgetStaleNodes, deleteShard: then no node that owns slots is removed from the cluster.
THEOREM OwnersAreKept == Spec /\ []Calm => OwnersKept
<1> DEFINE Kept == object = "live" => \A p \in member \ member' : count[p] = 0
<1>1. Lossless /\ Calm /\ Calm' /\ [Next]_vars => [Kept]_vars
    <2> SUFFICES ASSUME Lossless, Calm, Calm', [Next]_vars, object = "live", ~UNCHANGED vars,
                        NEW p \in member \ member', count[p] # 0
                 PROVE  FALSE
        BY Zenon
    <2>1. PassStep \/ OtherStep
        BY NextSteps, Zenon DEF Calm
    <2>2. p \in Pod /\ count[p] > 0
        BY DEF Lossless, Basics, ClusterOK
    <2>3. Owners' /\ object' # "gone"
        <3>1. Owners' /\ Basics'
            BY LosslessStep, Zenon DEF Lossless
        <3>2. ~RemoveFinalizer
            BY Zenon DEF RemoveFinalizer, Lossless, Basics, Life
        <3>3. ~PassStep => object' # "gone"
            BY <2>1, <3>2, Zenon DEF OtherStep, ReadResource, AddFinalizer, DeleteOwnedPVCs, Gate,
               EnsureStatefulSets, OperatorCrash, User, EditSpec, DeleteResource, Kubernetes,
               CollectGarbage, PodStart, PodStop, Failover
        <3> QED BY <3>1, <3>3, PassFrame, Zenon DEF Lossless
    <2>4. count'[p] = 0
        <3>1. count'[p] \in Nat
            BY <2>2, BasicsStep, Zenon DEF Lossless, Basics, ClusterOK
        <3> QED BY <2>2, <2>3, <3>1, SMTT(30) DEF Owners
    <2>5. UNCHANGED member \/ UNCHANGED count
        BY <2>1, <2>3, CountStep, Zenon DEF Lossless, AddSlots, Shifted
    <2> QED BY <2>2, <2>4, <2>5, Zenon
<1> QED BY <1>1, LosslessAlways, PTL DEF Spec, OwnersKept

\* formCluster: then the last ADDSLOTS leaves every slot with an owner, and the shares of the
\* shards even to within one slot.
THEOREM FormsAllEvenly == Spec /\ []Calm => FormsEvenly
<1> DEFINE Even == stage = "addslots" /\ stage' = "attach-form"
                     => /\ Assigned' = TotalSlots
                        /\ \A p, q \in SlotOwners' : count'[p] <= count'[q] + 1
<1>1. Lossless /\ Calm /\ Calm' /\ [Next]_vars => [Even]_vars
    <2> SUFFICES ASSUME Lossless, Calm, Calm', [Next]_vars, ~UNCHANGED vars,
                        stage = "addslots", stage' = "attach-form"
                 PROVE  /\ Assigned' = TotalSlots
                        /\ \A p, q \in SlotOwners' : count'[p] <= count'[q] + 1
        BY Zenon
    <2>1. AddSlots
        <3>1. PassStep \/ OtherStep
            BY NextSteps, Zenon DEF Calm
        <3> QED BY <3>1, FormingSteps, Zenon DEF Lossless
    <2>2. /\ cr.shards \in Nat \ {0} /\ at = cr.shards /\ UNCHANGED count
        BY <2>1, AddSlotsEffect, Zenon DEF Lossless
    <2>3. /\ Sum(count, Pod) = Cut(cr.shards, cr.shards)
          /\ \A p \in Pod : count[p] = IF p[2] = 0 /\ p[1] < cr.shards
                                       THEN TargetCounts(cr.shards)[p[1]] ELSE 0
        BY <2>2, Zenon DEF Lossless, Forming
    <2>4. Assigned = TotalSlots /\ SlotOwners = {p \in Pod : count[p] > 0}
        <3>1. object # "gone"
            BY Zenon DEF Lossless, Basics, Life
        <3> QED BY <2>2, <2>3, <3>1, OuterCuts, WhatOwnersOwn, Zenon DEF Lossless
    <2>5. UNCHANGED <<member, masterOf>>
        BY <2>1, Zenon DEF AddSlots
    <2>6. Assigned' = Assigned /\ SlotOwners' = SlotOwners
        BY <2>2, <2>5, Primes, Zenon DEF SlotOwners
    <2> DEFINE share == TotalSlots \div cr.shards
    <2>7. \A p \in SlotOwners : count[p] \in {share, share + 1}
        <3> SUFFICES ASSUME NEW p \in SlotOwners PROVE count[p] \in {share, share + 1}
            BY Zenon
        <3>1. p \in Pod /\ count[p] > 0
            BY <2>4, ZenonT(40)
        <3>2. count[p] = TargetCounts(cr.shards)[p[1]] /\ p[1] \in Nat /\ p[1] \in 0..cr.shards - 1
            BY <2>2, <2>3, <3>1, SMTT(30) DEF Pod, Shard
        <3> QED BY <2>2, <3>2, Ranges, CutDistance, ZenonT(40)
    <2>8. share \in Nat
        BY <2>2, ShareIsNat, Zenon
    <2> HIDE DEF share
    <2> QED BY <2>2, <2>4, <2>6, <2>7, <2>8, SMTT(30)
<1> QED BY <1>1, LosslessAlways, PTL DEF Spec, FormsEvenly

-----------------------------------------------------------------------------
\* The readiness gate can be trusted when the number of replicas is never edited: then the
\* pods of a shard that run are among those of the declared topology.
OneSize ==
    /\ stage # "idle" => cr.replicas = spec.replicas
    /\ \A i \in Shard : sts[i] \in {0, spec.replicas + 1}
    /\ \A p \in up : p[2] <= spec.replicas

\* If only shard counts are edited, every shard keeps the one number of pods.
LEMMA OneSizeStep ==
    ASSUME EditKinds \subseteq {{}, {"shards"}}, Basics, OneSize, [Next]_vars
    PROVE  OneSize'
<1>0. /\ spec \in Specs /\ spec.replicas \in Nat /\ sts \in [Shard -> 0..Max(ReplicaChoices) + 1]
      /\ up \subseteq Pod
    BY Bounds, Zenon DEF Basics, ObjectOK, KubeOK, Specs
<1>1. CASE PassStep
    <2>1. /\ stage # "idle" /\ (stage' # "idle" => cr' = cr) /\ UNCHANGED spec
          /\ ~ScaleIn => UNCHANGED <<sts, up>>
        BY <1>1, PassFrame, Zenon DEF PostGate, Working
    <2>2. ScaleIn => /\ UNCHANGED up
                     /\ UNCHANGED sts \/ \E i \in Shard : sts' = [sts EXCEPT ![i] = 0]
        <3>1. Departing # {} => Min(Departing) \in Shard
            <4>1. Departing \subseteq Nat /\ Departing \subseteq Shard
                BY DEF Departing, Shard
            <4> QED BY <4>1, MinIsIn, Zenon
        <3> QED BY <3>1, Zenon DEF ScaleIn, DrainBatch, DeleteShard, MoveSlots, kubeVars
    <2> QED BY <1>0, <2>1, <2>2, Zenon DEF OneSize
<1>2. CASE EnsureStatefulSets
    <2>1. PICK k \in 0..cr.shards : sts' = [i \in Shard |-> IF i < k THEN cr.replicas + 1 ELSE sts[i]]
        BY <1>2, Zenon DEF EnsureStatefulSets
    <2>2. stage = "ensure" /\ (stage' # "idle" => cr' = cr) /\ UNCHANGED <<spec, up>>
        BY <1>2, Zenon DEF EnsureStatefulSets, Crash, Goto
    <2> QED BY <1>0, <2>1, <2>2, Zenon DEF OneSize
<1>3. CASE EditSpec
    <2>1. PICK n \in Sizes, r \in ReplicaChoices :
            /\ {f \in {"shards", "replicas"} : IF f = "shards" THEN n # spec.shards
                                               ELSE r # spec.replicas} \in EditKinds
            /\ spec' = [spec EXCEPT !.shards = n, !.replicas = r, !.generation = @ + 1]
        BY <1>3, Zenon DEF EditSpec
    <2>2. r = spec.replicas
        BY <2>1
    <2>3. spec'.replicas = spec.replicas
        BY <1>0, <2>1, <2>2, Zenon DEF Specs
    <2>4. UNCHANGED <<sts, up, stage, cr>>
        BY <1>3, Zenon DEF EditSpec, kubeVars, passVars
    <2> QED BY <2>3, <2>4, Zenon DEF OneSize
<1>4. CASE ReadResource
    BY <1>4, Zenon DEF ReadResource, kubeVars, OneSize
<1>5. CASE DeleteOwnedPVCs \/ RemoveFinalizer \/ Gate \/ OperatorCrash
    <2>1. stage # "idle" /\ (stage' # "idle" => cr' = cr) /\ UNCHANGED <<spec, sts, up>>
        BY <1>5, Zenon DEF DeleteOwnedPVCs, DeleteVolumes, RemoveFinalizer, Gate,
           OperatorCrash, Crash, Goto, kubeVars
    <2> QED BY <2>1, Zenon DEF OneSize
<1>6. CASE DeleteResource \/ Failover
    BY <1>6, Zenon DEF DeleteResource, Failover, kubeVars, passVars, OneSize
<1>7. CASE CollectGarbage
    BY <1>7, Zenon DEF CollectGarbage, passVars, OneSize
<1>8. CASE PodStart
    <2>1. PICK p \in Pod : p[2] < sts[p[1]] /\ up' = up \cup {p}
        BY <1>8, Zenon DEF PodStart
    <2>2. p[2] <= spec.replicas
        <3>1. p[1] \in Shard /\ p[2] \in Nat
            BY Bounds, SMTT(30) DEF Pod
        <3> QED BY <1>0, <2>1, <3>1, SMTT(30) DEF OneSize
    <2> QED BY <1>8, <2>1, <2>2, Zenon DEF PodStart, passVars, OneSize
<1>9. CASE PodStop \/ Outage
    BY <1>9, Zenon DEF PodStop, Outage, passVars, OneSize
<1>10. CASE UNCHANGED vars
    BY <1>10, Zenon DEF vars, kubeVars, passVars, OneSize
<1>11. CASE AddFinalizer
    <2>1. CASE object = "new" /\ spec = cr
        <3>1. spec' = cr' /\ UNCHANGED <<sts, up>>
            BY <1>11, <2>1, Zenon DEF AddFinalizer, kubeVars
        <3>2. up' = {} /\ \A i \in Shard : sts'[i] = 0
            BY <2>1, <3>1, Zenon DEF Basics, Life
        <3> QED BY <3>1, <3>2, Zenon DEF OneSize
    <2>2. CASE ~(object = "new" /\ spec = cr)
        BY <1>11, <2>2, Zenon DEF AddFinalizer, Goto, kubeVars, OneSize
    <2> QED BY <2>1, <2>2, Zenon
<1> QED BY <1>1, <1>2, <1>3, <1>4, <1>5, <1>6, <1>7, <1>8, <1>9, <1>10, <1>11, Zenon
       DEF Next, Operator, User, Kubernetes, PassStep

\* With one number of pods per shard, the pods shardsReady counts are the declared ones: no
\* other pod can stand in for one that is still to be deleted.
LEMMA GateIsHonest ==
    ASSUME Basics, OneSize
    PROVE  GateHonest
<1> SUFFICES ASSUME stage = "gate", ShardsReady, NEW p \in AllPods
             PROVE  p \in up \ doomed
    BY Zenon DEF GateHonest
<1>1. /\ cr.shards \in Nat /\ cr.replicas \in Nat /\ cr.replicas = spec.replicas
      /\ up \subseteq Pod
    BY InUse, Zenon DEF Working, Stages, OneSize, Basics, KubeOK
<1>2. p[1] \in 0..cr.shards - 1 /\ p[2] \in 0..cr.replicas /\ p = <<p[1], p[2]>>
    BY <1>1, Bounds, SMTT(30) DEF AllPods, Pod, Shard
<1> DEFINE i == p[1]
           running == {q \in up \ doomed : q[1] = i}
           declared == {<<i, j>> : j \in 0..cr.replicas}
<1>3. Cardinality(running) = cr.replicas + 1
    BY <1>2, ZenonT(40) DEF ShardsReady
<1>4. running \in SUBSET declared
    BY <1>1, Bounds, SMTT(30) DEF OneSize, Pod
<1>5. IsFiniteSet(declared) /\ Cardinality(declared) = cr.replicas + 1
    <2> DEFINE f == [j \in 0..cr.replicas |-> <<i, j>>]
    <2>1. f \in Bijection(0..cr.replicas, declared)
        BY Zenon DEF Bijection, Injection, Surjection, IsInjective
    <2>2. IsFiniteSet(0..cr.replicas) /\ Cardinality(0..cr.replicas) = cr.replicas + 1
        BY <1>1, FS_Interval, SMTT(30)
    <2>3. ExistsBijection(0..cr.replicas, declared)
        BY <2>1, Zenon DEF ExistsBijection
    <2> HIDE DEF declared
    <2> QED BY <2>2, <2>3, FS_Bijection, Zenon
<1>6. running = declared
    <2> HIDE DEF running, declared
    <2> QED BY <1>3, <1>4, <1>5, FS_Subset, Zenon
<1>7. p \in declared
    BY <1>2, Zenon
<1> QED BY <1>6, <1>7, Zenon

\* Every shard has the one number of pods at first: there are no shards.
LEMMA InitialOneSize == Init => OneSize
BY Bounds, Zenon DEF Init, InitResource, OneSize

\* If only shard counts are edited and no pod is lost, all this needs no further assumption:
\* whatever the edits, crashes and failed commands, a Ready status of the current spec is
\* true, shards are drained before they are deleted, no owner of slots is removed from the
\* cluster, and a new cluster is formed evenly.
THEOREM ShardEditsAreSafe ==
    ASSUME EditKinds \subseteq {{}, {"shards"}}, MaxOutages = 0
    PROVE  Spec => []ReadyIsTruthful /\ DrainedBeforeDeleted /\ OwnersKept /\ FormsEvenly
<1>1. Basics => outages = 0
    BY DEF Basics, BudgetOK
<1>2. Basics /\ OneSize /\ [Next]_vars => OneSize'
    BY OneSizeStep, Zenon
<1>3. Basics /\ OneSize => Calm
    BY <1>1, GateIsHonest, Zenon DEF Calm
<1>4. Spec => []Calm
    BY <1>2, <1>3, BasicsAlways, InitialOneSize, PTL DEF Spec
<1> QED BY <1>4, ReadyIsTrue, DrainsBeforeDeleting, OwnersAreKept, FormsAllEvenly, PTL
=============================================================================
