-------------------------- MODULE ReconcilerProofs --------------------------
(***************************************************************************)
(* What holds of Reconciler in every behaviour, with edits, crashes, lost  *)
(* pods and failovers: the types of its variables, that the teardown       *)
(* reclaims every volume, and that a pass which finds the declared         *)
(* topology in place changes nothing.                                      *)
(***************************************************************************)
EXTENDS Reconciler, SlotsProofs

\* A finite set of numbers that is not empty has a greatest element.
LEMMA MaxIsIn ==
    ASSUME NEW S, IsFiniteSet(S), S \subseteq Nat, S # {}
    PROVE  Max(S) \in S /\ \A x \in S : x <= Max(S)
<1> DEFINE Bad == {T \in SUBSET S : T # {} /\ ~\E x \in T : \A y \in T : x >= y}
<1>1. Bad = {}
    <2>1. SUFFICES ASSUME Bad # {} PROVE FALSE
        BY Zenon
    <2>2. IsWellFoundedOn(StrictSubsetOrdering(S), FiniteSubsetsOf(S))
        BY FS_StrictSubsetOrderingWellFounded, Zenon
    <2>3. Bad \subseteq FiniteSubsetsOf(S)
        BY FS_FiniteSubsetsOfFinite, Zenon
    <2>4. PICK T \in Bad : \A U \in Bad : ~(<<U, T>> \in StrictSubsetOrdering(S))
        BY <2>1, <2>2, <2>3, WFMin, Zenon
    <2>5. PICK x \in T : TRUE
        BY Zenon
    <2>6. T \ {x} \notin Bad
        BY <2>4, Zenon DEF StrictSubsetOrdering
    <2>7. CASE T \ {x} = {}
        BY <2>5, <2>7
    <2>8. CASE T \ {x} # {}
        <3>1. PICK m \in T \ {x} : \A y \in T \ {x} : m >= y
            BY <2>6, <2>8, Zenon
        <3>2. \A y \in T : IF x >= m THEN x >= y ELSE m >= y
            BY <3>1
        <3> QED BY <3>1, <3>2, <2>5, Zenon
    <2> QED BY <2>7, <2>8, Zenon
<1>2. \E x \in S : \A y \in S : x >= y
    BY <1>1, Zenon
<1>3. Max(S) \in S /\ \A y \in S : Max(S) >= y
    BY <1>2, Zenon DEF Max
<1> QED BY <1>3, Zenon

\* A set of numbers that is not empty has a least element.
LEMMA MinIsIn ==
    ASSUME NEW S, S \subseteq Nat, S # {}
    PROVE  Min(S) \in S /\ \A x \in S : Min(S) <= x
<1>1. PICK m \in S : \A x \in S : ~(<<x, m>> \in OpToRel(<, Nat))
    BY NatLessThanWellFounded, WFMin, Zenon
<1>2. \A x \in S : m <= x
    <2>1. \A x \in S : x \in Nat /\ m \in Nat /\ ~(x < m)
        BY <1>1, Zenon DEF OpToRel
    <2> QED BY <2>1
<1>3. Min(S) \in S /\ \A x \in S : Min(S) <= x
    BY <1>2, Zenon DEF Min
<1> QED BY <1>3, Zenon

\* The shards of a topology of n shards are n shards.
LEMMA FirstShards ==
    ASSUME NEW n \in Nat
    PROVE  IsFiniteSet(0..n - 1) /\ Cardinality(0..n - 1) = n
BY FS_Interval

\* The bounds of the instance.
LEMMA Bounds ==
    /\ Max(Sizes) \in Nat /\ Max(ReplicaChoices) \in Nat
    /\ \A n \in Sizes : n \in Nat \ {0} /\ n <= Max(Sizes)
    /\ \A r \in ReplicaChoices : r \in Nat /\ r <= Max(ReplicaChoices)
    /\ IsFiniteSet(Pod)
<1>1. /\ Max(Sizes) \in Sizes /\ \A n \in Sizes : n <= Max(Sizes)
      /\ Max(ReplicaChoices) \in ReplicaChoices
      /\ \A r \in ReplicaChoices : r <= Max(ReplicaChoices)
    <2>1. Sizes \subseteq Nat /\ ReplicaChoices \subseteq Nat
        BY ReconcilerAssumption, Zenon
    <2> QED BY <2>1, MaxIsIn, ReconcilerAssumption, Zenon
<1>2. Max(Sizes) \in Nat \ {0} /\ Max(ReplicaChoices) \in Nat
    BY <1>1, ReconcilerAssumption, Zenon
<1>3. IsFiniteSet(Pod)
    <2>1. IsFiniteSet(0..Max(Sizes) - 1) /\ IsFiniteSet(0..Max(ReplicaChoices))
        BY <1>2, FS_Interval
    <2> QED BY <2>1, FS_Product, Zenon DEF Pod, Shard
<1> QED BY <1>1, <1>2, <1>3, ReconcilerAssumption, Zenon

-----------------------------------------------------------------------------
\* The steps of a pass that works on the cluster.
Working == Stages \ {"idle", "finalize", "reclaim", "unfinalize"}

\* The steps that use the position of a loop over the declared shards.
Loop == {"form", "addslots", "join", "attach-join", "fill"}

ObjectOK ==
    /\ spec \in Specs /\ object \in {"new", "live", "deleting", "gone"}
    /\ status \in Statuses

KubeOK ==
    /\ sts \in [Shard -> 0..Max(ReplicaChoices) + 1]
    /\ doomed \subseteq up /\ up \subseteq Pod
    /\ late \subseteq volumes /\ volumes \subseteq Pod

ClusterOK ==
    /\ member \subseteq Pod /\ open \subseteq Pod
    /\ masterOf \in [Pod -> Pod \cup {NoPod}]
    /\ count \in [Pod -> Nat]

\* Between two passes the local variables are empty; in a pass the spec is there.
PassOK ==
    /\ stage \in Stages /\ at \in 0..Max(Sizes)
    /\ report \in Reports \cup {NoReport}
    /\ IF stage = "idle" THEN cr = NoSpec /\ at = 0 /\ report = NoReport ELSE cr \in Specs
    /\ stage = "publish" => report \in Reports
    /\ stage \in Loop => at <= cr.shards

BudgetOK == crashes \in 0..MaxCrashes /\ outages \in 0..MaxOutages

\* The life of the resource. Nothing exists before the finalizer is on it. A teardown is
\* begun when it is being deleted, and it goes when its volumes are gone: from then on only
\* late ones appear.
Life ==
    /\ object = "new" => /\ volumes = {} /\ up = {} /\ \A i \in Shard : sts[i] = 0
                         /\ stage \in {"idle", "finalize"}
    /\ stage \in {"reclaim", "unfinalize"} => object = "deleting"
    /\ stage = "finalize" => object \in {"new", "gone"}
    /\ late # {} => \/ object = "gone"
                    \/ object = "deleting" /\ stage \in {"idle", "reclaim", "unfinalize"}
    /\ stage = "unfinalize" => volumes \subseteq late
    /\ object = "gone" => volumes \subseteq late /\ stage \in {"idle", "finalize"}

Basics == ObjectOK /\ KubeOK /\ ClusterOK /\ PassOK /\ BudgetOK /\ Life

\* The inductive invariant implies what it is for.
LEMMA BasicsImply == Basics => TypeOK /\ VolumesReclaimed
BY Zenon DEF Basics, ObjectOK, KubeOK, ClusterOK, PassOK, BudgetOK, Life, TypeOK, VolumesReclaimed

\* A pass that works on the cluster leaves the life of the resource alone.
LEMMA LifeGoesOn ==
    ASSUME Life, stage \in Working, stage' \in Working \cup {"idle"}, UNCHANGED <<object, late>>
    PROVE  Life'
<1>1. object \notin {"new", "gone"} /\ late = {}
    BY Zenon DEF Life, Working
<1> QED BY <1>1, Zenon DEF Life, Working

\* Where Goto leads.
LEMMA GotoEffect ==
    ASSUME PassOK, stage # "idle", NEW next \in Stages \ {"publish"}, Goto(next),
           next \in Loop => at <= cr.shards
    PROVE  PassOK' /\ stage' = next /\ (next # "idle" => UNCHANGED <<cr, at, report>>)
<1>1. CASE next = "idle"
    BY <1>1, Bounds DEF Goto, PassOK, Loop, Stages
<1>2. CASE next # "idle"
    BY <1>2, Zenon DEF Goto, PassOK
<1> QED BY <1>1, <1>2, Zenon

\* What a crash of the operator leaves of the pass.
LEMMA CrashEffect ==
    ASSUME PassOK, BudgetOK, stage # "idle", Crash
    PROVE  PassOK' /\ stage' = "idle" /\ crashes' \in 0..MaxCrashes
<1>1. Goto("idle") /\ crashes < MaxCrashes /\ crashes' = crashes + 1
    BY Zenon DEF Crash
<1>2. "idle" \in Stages \ {"publish"} /\ "idle" \notin Loop
    BY Zenon DEF Stages, Loop
<1>3. PassOK' /\ stage' = "idle"
    BY <1>1, <1>2, GotoEffect, Zenon
<1>4. crashes' \in 0..MaxCrashes
    BY <1>1, ReconcilerAssumption DEF BudgetOK
<1> QED BY <1>3, <1>4, Zenon

\* findShardPrimary finds a running pod of the shard, if it finds one.
LEMMA PrimaryIsPod ==
    ASSUME KubeOK, PassOK, stage # "idle", NEW i \in Shard
    PROVE  \/ FindShardPrimary(i) = NoPod /\ <<i, 0>> \notin up
           \/ /\ FindShardPrimary(i) \in up /\ FindShardPrimary(i) \in Pod
              /\ FindShardPrimary(i)[1] = i
<1> DEFINE owners == {j \in 0..cr.replicas : <<i, j>> \in up /\ <<i, j>> \in SlotOwners}
<1>1. cr.replicas \in Nat /\ up \subseteq Pod
    BY ReconcilerAssumption, Zenon DEF KubeOK, PassOK, Specs
<1>2. CASE owners # {}
    <2>1. Min(owners) \in owners
        <3>1. owners \subseteq Nat
            BY <1>1
        <3> HIDE DEF owners
        <3> QED BY <1>2, <3>1, MinIsIn, Zenon
    <2> QED BY <1>1, <1>2, <2>1, Zenon DEF FindShardPrimary
<1>3. CASE owners = {}
    BY <1>1, <1>3, Zenon DEF FindShardPrimary
<1> QED BY <1>2, <1>3, Zenon

-----------------------------------------------------------------------------
\* MoveSlots moves what the source has, and the pass goes on or ends.
LEMMA MoveSlotsEffect ==
    ASSUME ClusterOK, PassOK, BudgetOK, NEW f \in Pod, NEW t \in Pod, NEW n \in Nat,
           n <= count[f], 1 <= n, f # t, NEW next \in {"fill", "status"}, stage \in Working,
           next = "fill" => at <= cr.shards, MoveSlots(f, t, n, next)
    PROVE  /\ ClusterOK' /\ PassOK' /\ BudgetOK' /\ stage' \in {next, "idle"}
           /\ UNCHANGED <<spec, object, status, kubeVars, member, masterOf, outages>>
           /\ \E m \in 0..n : count' = Moved(f, t, m)
           /\ \E ends \in SUBSET {f, t} : open' = open \cup ends
           /\ count' # count => {f, t} \subseteq member \cap up /\ masterOf[t] = NoPod
           /\ open' # open => {f, t} \subseteq member \cap up /\ masterOf[t] = NoPod
<1> DEFINE movable == {f, t} \subseteq member \cap up /\ masterOf[t] = NoPod
           Over == PassOK' /\ stage' \in {next, "idle"} /\ crashes' \in 0..MaxCrashes
<1>1. UNCHANGED <<spec, object, status, kubeVars, member, masterOf, outages>>
    BY Zenon DEF MoveSlots
<1>2. stage # "idle" /\ "idle" \in Stages \ {"publish"} /\ "idle" \notin Loop
      /\ next \in Stages \ {"publish"} /\ (next \in Loop => at <= cr.shards)
    BY Zenon DEF Working, Stages, Loop
<1>3. Goto(next) /\ UNCHANGED crashes => Over
    BY <1>2, GotoEffect, Zenon DEF BudgetOK
<1>4. Goto("idle") /\ UNCHANGED crashes => Over
    BY <1>2, GotoEffect, Zenon DEF BudgetOK
<1>5. Crash => Over
    BY <1>2, CrashEffect, Zenon
<1>6. /\ Over
      /\ \/ /\ movable /\ \E m \in 0..n : count' = Moved(f, t, m)
            /\ \E ends \in SUBSET {f, t} : open' = open \cup ends
         \/ UNCHANGED <<count, open>>
    <2> DEFINE allHear == \A p \in member : masterOf[p] = NoPod => p \in up
    <2> HIDE DEF Over, movable, allHear
    <2>1. \/ movable /\ count' = Moved(f, t, n) /\ Goto(next) /\ UNCHANGED <<open, crashes>>
          \/ /\ movable /\ \E m \in 0..n - 1 : count' = Moved(f, t, m)
             /\ open' \in {open \cup ends : ends \in SUBSET {f, t}} /\ Crash
          \/ /\ movable /\ \E m \in IF allHear THEN 0..n - 1 ELSE {0, 1} : count' = Moved(f, t, m)
             /\ open' \in {open \cup ends : ends \in SUBSET {f, t}} /\ Goto("idle")
             /\ UNCHANGED crashes
          \/ Goto("idle") /\ UNCHANGED <<count, open, crashes>>
        BY Zenon DEF MoveSlots, movable, allHear
    <2>2. n \in 0..n /\ 0..n - 1 \subseteq 0..n /\ {0, 1} \subseteq 0..n
        OBVIOUS
    <2>3. {} \in SUBSET {f, t} /\ open \cup {} = open
        BY Zenon
    <2> QED BY <1>3, <1>4, <1>5, <2>1, <2>2, <2>3, Zenon
<1>7. Moved(f, t, 0) = count
    BY DEF Moved, ClusterOK
<1>8. \A m \in 0..n : Moved(f, t, m) \in [Pod -> Nat]
    BY DEF Moved, ClusterOK
<1>9. /\ \E m \in 0..n : count' = Moved(f, t, m)
      /\ \E ends \in SUBSET {f, t} : open' = open \cup ends
    <2>1. 0 \in 0..n /\ {} \in SUBSET {f, t} /\ open \cup {} = open
        OBVIOUS
    <2> QED BY <1>6, <1>7, <2>1, Zenon
<1>10. ClusterOK'
    BY <1>1, <1>8, <1>9, Zenon DEF ClusterOK
<1>11. BudgetOK'
    BY <1>1, <1>6, Zenon DEF BudgetOK
<1> QED BY <1>1, <1>6, <1>9, <1>10, <1>11, Zenon

\* A set of two numbers has the lesser one as its minimum.
LEMMA MinOfTwo ==
    ASSUME NEW a \in Nat, NEW b \in Nat
    PROVE  Min({a, b}) \in {a, b} /\ Min({a, b}) <= a /\ Min({a, b}) <= b
<1>1. {a, b} \subseteq Nat /\ {a, b} # {}
    BY Zenon
<1>2. Min({a, b}) \in {a, b} /\ \A x \in {a, b} : Min({a, b}) <= x
    BY <1>1, MinIsIn, Zenon
<1> QED BY <1>2, Zenon

\* The even share of the slots is a natural number.
LEMMA ShareIsNat ==
    ASSUME NEW k \in Nat \ {0}
    PROVE  TotalSlots \div k \in Nat
BY SlotsAssumption, Z3

\* The share that a shard of a new cluster gets.
LEMMA ShareSize ==
    ASSUME NEW k \in Nat \ {0}, NEW i \in 0..k - 1
    PROVE  TargetCounts(k)[i] \in Nat
BY Ranges, CutDistance, ShareIsNat

\* What Fill moves: slots of another owner, to pod 0 of the shard at hand.
LEMMA FillMoves ==
    ASSUME Basics, Fill
    PROVE  /\ at < cr.shards /\ at \in Shard /\ <<at, 0>> \in Pod /\ <<at, 0>> \in up
           /\ \E f \in SlotOwners, n \in Nat :
                /\ f \in Pod /\ f # <<at, 0>> /\ 1 <= n /\ n <= count[f]
                /\ MoveSlots(f, <<at, 0>>, n, "fill")
<1>1. /\ stage = "fill" /\ at < cr.shards /\ SlotCount(<<at, 0>>) < PerShard
      /\ <<at, 0>> \in up
    BY Zenon DEF Fill
<1>2. cr.shards \in Nat \ {0} /\ cr.shards <= Max(Sizes) /\ Max(Sizes) \in Nat
    BY <1>1, Bounds, Zenon DEF Basics, PassOK, Specs
<1>3. at \in Nat /\ at \in Shard
    BY <1>1, <1>2 DEF Basics, PassOK, Shard
<1>4. <<at, 0>> \in Pod
    BY <1>3, Bounds DEF Pod
<1>5. PICK f \in FattestPrimaries(<<at, 0>>) :
         MoveSlots(f, <<at, 0>>, Min({PerShard - SlotCount(<<at, 0>>), count[f]}), "fill")
    BY Zenon DEF Fill
<1>6. f \in SlotOwners /\ f # <<at, 0>>
    BY <1>5, Zenon DEF FattestPrimaries
<1>7. f \in Pod /\ count[f] \in Nat /\ count[f] > 0
    BY <1>6, Zenon DEF SlotOwners, Basics, ClusterOK
<1>8. PerShard \in Nat
    BY <1>2, ShareIsNat, Zenon DEF PerShard
<1>9. SlotCount(<<at, 0>>) \in Nat
    BY <1>4, Zenon DEF SlotCount, Basics, ClusterOK
<1> DEFINE n == Min({PerShard - SlotCount(<<at, 0>>), count[f]})
<1>10. n \in Nat /\ 1 <= n /\ n <= count[f]
    <2>1. PerShard - SlotCount(<<at, 0>>) \in Nat /\ PerShard - SlotCount(<<at, 0>>) >= 1
        BY <1>1, <1>8, <1>9
    <2> QED BY <2>1, <1>7, MinOfTwo, SMTT(30)
<1> QED BY <1>1, <1>3, <1>4, <1>5, <1>6, <1>7, <1>10, Zenon

\* What DrainBatch moves: slots of the primary of the first departing shard, to the primary
\* of a shard that stays.
LEMMA BatchMoves ==
    ASSUME Basics, stage = "drain", NEW i \in Shard, DrainBatch(i)
    PROVE  LET d == FindShardPrimary(i)
           IN  /\ d \in Pod /\ d \in up /\ d \in member /\ count[d] > 0 /\ d[1] = i
               /\ \/ /\ Goto("idle")
                     /\ UNCHANGED <<spec, object, status, kubeVars, clusterVars, crashes,
                       outages>>
                  \/ \E k \in Shard, n \in Nat :
                        /\ k < cr.shards /\ FindShardPrimary(k) \in Pod /\ FindShardPrimary(k) # d
                        /\ 1 <= n /\ n <= count[d]
                        /\ MoveSlots(d, FindShardPrimary(k), n, "status")
<1> DEFINE d == FindShardPrimary(i)
           survivors == {k \in 0..cr.shards - 1 : FindShardPrimary(k) \notin {NoPod, d}}
           n == Min({BatchSlots, SlotCount(d)})
<1>1. SlotCount(d) > 0
    BY Zenon DEF DrainBatch
<1>2. d \in member /\ SlotCount(d) = count[d] /\ count[d] > 0
    BY <1>1 DEF SlotCount
<1>3. d \in Pod /\ count[d] \in Nat
    BY <1>2, Zenon DEF Basics, ClusterOK
<1>4. d # NoPod
    BY <1>3 DEF NoPod, Pod
<1>5. d \in up /\ d[1] = i
    BY <1>4, PrimaryIsPod, Zenon DEF Basics
<1>6. n \in Nat /\ 1 <= n /\ n <= count[d]
    BY <1>2, <1>3, MinOfTwo, ReconcilerAssumption, SMTT(30)
<1>7. CASE survivors = {}
    BY <1>2, <1>3, <1>5, <1>7, Zenon DEF DrainBatch
<1>8. CASE survivors # {}
    <2>1. survivors \subseteq Nat
        OBVIOUS
    <2>2. Min(survivors) \in survivors
        <3> HIDE DEF survivors
        <3> QED BY <1>8, <2>1, MinIsIn, Zenon
    <2>3. MoveSlots(d, FindShardPrimary(Min(survivors)), n, "status")
        BY <1>8, Zenon DEF DrainBatch
    <2>4. PICK k \in survivors : k = Min(survivors)
        BY <2>2, Zenon
    <2>5. k \in Shard /\ k < cr.shards
        BY <2>4, Bounds DEF Basics, PassOK, Specs, Shard
    <2>6. FindShardPrimary(k) \in Pod /\ FindShardPrimary(k) # d
        BY <2>4, <2>5, PrimaryIsPod, Zenon DEF Basics
    <2>7. MoveSlots(d, FindShardPrimary(k), n, "status")
        BY <2>3, <2>4, Zenon
    <2> HIDE DEF n, d
    <2>8. \E kk \in Shard, nn \in Nat :
            /\ kk < cr.shards /\ FindShardPrimary(kk) \in Pod /\ FindShardPrimary(kk) # d
            /\ 1 <= nn /\ nn <= count[d]
            /\ MoveSlots(d, FindShardPrimary(kk), nn, "status")
        BY <2>5, <2>6, <2>7, <1>6, Zenon
    <2> QED BY <1>2, <1>3, <1>5, <2>8, Zenon DEF d
<1> QED BY <1>7, <1>8, Zenon

-----------------------------------------------------------------------------
\* What a step of a pass that works on the cluster has to show for Basics.
LEMMA WorkStep ==
    ASSUME Basics, stage \in Working, stage' \in Working \cup {"idle"},
           UNCHANGED <<spec, object, late, outages>>, status' \in Statuses,
           KubeOK', ClusterOK', PassOK', crashes' \in 0..MaxCrashes
    PROVE  Basics'
<1>1. Life'
    BY LifeGoesOn, Zenon DEF Basics
<1> QED BY <1>1, Zenon DEF Basics, ObjectOK, BudgetOK

\* Meeting pods adds them to the members.
LEMMA MeetStep ==
    ASSUME Basics, stage \in Working, NEW pods \in SUBSET Pod,
           NEW next \in Working \ {"publish"}, next \in Loop => at <= cr.shards, Meet(pods, next)
    PROVE  Basics' /\ stage' \in {next, "idle"}
<1>1. /\ stage # "idle" /\ "idle" \in Stages \ {"publish"} /\ "idle" \notin Loop
      /\ next \in Stages \ {"publish"}
    BY Zenon DEF Working, Stages, Loop
<1> DEFINE Over == PassOK' /\ stage' \in {next, "idle"} /\ crashes' \in 0..MaxCrashes
<1>2. Goto(next) /\ UNCHANGED crashes => Over
    BY <1>1, GotoEffect, Zenon DEF Basics, BudgetOK
<1>3. Goto("idle") /\ UNCHANGED crashes => Over
    BY <1>1, GotoEffect, Zenon DEF Basics, BudgetOK
<1>4. Crash => Over
    BY <1>1, CrashEffect, Zenon DEF Basics
<1>5. Over /\ ClusterOK' /\ UNCHANGED <<spec, object, status, kubeVars, outages>>
    <2> HIDE DEF Over
    <2> QED BY <1>2, <1>3, <1>4, Zenon DEF Meet, Basics, ClusterOK
<1>6. KubeOK'
    BY <1>5, Zenon DEF kubeVars, Basics, KubeOK
<1>7. status' \in Statuses /\ UNCHANGED late
    BY <1>5, Zenon DEF Basics, ObjectOK, kubeVars
<1> QED BY <1>5, <1>6, <1>7, WorkStep, Zenon

\* Volumes are deleted, and the pass goes on or fails.
LEMMA DeleteVolumesEffect ==
    ASSUME PassOK, BudgetOK, stage # "idle", NEW pods,
           NEW next \in Stages \ {"publish"}, next \notin Loop, DeleteVolumes(pods, next)
    PROVE  /\ PassOK' /\ crashes' \in 0..MaxCrashes
           /\ volumes' \subseteq volumes
           /\ \/ stage' = "idle"
              \/ stage' = next /\ volumes' = volumes \ pods /\ UNCHANGED <<cr, at, report>>
<1>1. PICK done \in SUBSET pods :
        /\ volumes' = volumes \ done
        /\ \/ done = pods /\ Goto(next) /\ UNCHANGED crashes
           \/ done # pods /\ Crash
    BY Zenon DEF DeleteVolumes
<1>2. CASE done = pods /\ Goto(next) /\ UNCHANGED crashes
    <2>1. PassOK' /\ stage' = next /\ (next # "idle" => UNCHANGED <<cr, at, report>>)
        BY <1>2, GotoEffect, Zenon
    <2> QED BY <1>1, <1>2, <2>1, Zenon DEF BudgetOK
<1>3. CASE Crash
    BY <1>1, <1>3, CrashEffect, Zenon
<1> QED BY <1>1, <1>2, <1>3, Zenon

\* An update of the object stores a spec that can be declared, of no earlier generation.
LEMMA StoredSpec ==
    ASSUME NEW s \in Specs
    PROVE  /\ Stored(s) \in Specs
           /\ s.generation <= Stored(s).generation
<1>0. s.generation \in Nat /\ s.replicas \in ReplicaChoices
    BY Zenon DEF Specs
<1>1. CASE s.replicas = 0
    <2>1. Stored(s) = [s EXCEPT !.replicas = DefaultReplicas, !.generation = @ + 1]
        BY <1>1, Zenon DEF Stored
    <2>2. DefaultReplicas \in ReplicaChoices
        BY <1>0, <1>1, ReconcilerAssumption, Zenon
    <2>3. s.generation + 1 \in Nat /\ s.generation <= s.generation + 1
        BY <1>0
    <2>4. Stored(s).generation = s.generation + 1
        BY <2>1, Zenon DEF Specs
    <2>5. Stored(s) \in Specs
        BY <2>1, <2>2, <2>3, Zenon DEF Specs
    <2> QED BY <2>3, <2>4, <2>5, Zenon
<1>2. CASE s.replicas # 0
    <2>1. Stored(s) = s
        BY <1>2, Zenon DEF Stored
    <2>2. s.generation <= s.generation
        BY <1>0
    <2> QED BY <2>1, <2>2, Zenon
<1> QED BY <1>1, <1>2, Zenon

\* The steps that begin a pass and those of the teardown.
LEMMA LifecycleStep ==
    ASSUME Basics, ReadResource \/ AddFinalizer \/ DeleteOwnedPVCs \/ RemoveFinalizer
    PROVE  Basics'
<1> USE DEF Basics
<1>0. /\ {"ensure", "idle", "unfinalize"} \subseteq Stages \ {"publish"}
      /\ "ensure" \notin Loop /\ "idle" \notin Loop /\ "unfinalize" \notin Loop
    BY Zenon DEF Stages, Loop
<1>1. CASE ReadResource
    <2>1. PassOK'
        BY <1>1, Zenon DEF ReadResource, PassOK, ObjectOK, Stages, Loop
    <2>2. Life'
        BY <1>1, Zenon DEF ReadResource, Life, kubeVars, ObjectOK
    <2>3. ObjectOK' /\ KubeOK' /\ ClusterOK' /\ BudgetOK'
        BY <1>1, Zenon DEF ReadResource, kubeVars, clusterVars, ObjectOK, KubeOK, ClusterOK, BudgetOK
    <2> QED BY <2>1, <2>2, <2>3, Zenon
<1>2. CASE AddFinalizer
    <2>1. stage = "finalize" /\ UNCHANGED <<status, kubeVars, clusterVars, crashes, outages>>
        BY <1>2, Zenon DEF AddFinalizer
    <2>2. KubeOK' /\ ClusterOK' /\ BudgetOK'
        BY <2>1, Zenon DEF kubeVars, clusterVars, KubeOK, ClusterOK, BudgetOK
    <2>3. CASE object = "new" /\ spec = cr
        <3>1. /\ object' = "live" /\ spec' = Stored(spec) /\ cr' = Stored(spec)
              /\ stage' = "ensure" /\ UNCHANGED <<at, report>>
            BY <1>2, <2>3, Zenon DEF AddFinalizer
        <3>2. Stored(spec) \in Specs
            BY StoredSpec, Zenon DEF ObjectOK
        <3>3. ObjectOK'
            BY <2>1, <3>1, <3>2, Zenon DEF ObjectOK
        <3>4. PassOK'
            BY <1>0, <3>1, <3>2, Zenon DEF PassOK
        <3>5. Life'
            BY <2>1, <2>3, <3>1, Zenon DEF Life, kubeVars
        <3> QED BY <2>2, <3>3, <3>4, <3>5, Zenon
    <2>4. CASE ~(object = "new" /\ spec = cr)
        <3>1. UNCHANGED <<object, spec>> /\ Goto("idle")
            BY <1>2, <2>4, Zenon DEF AddFinalizer
        <3>2. PassOK' /\ stage' = "idle"
            BY <1>0, <2>1, <3>1, GotoEffect, Zenon
        <3>3. ObjectOK' /\ Life'
            BY <2>1, <3>1, <3>2, Zenon DEF ObjectOK, Life, kubeVars
        <3> QED BY <2>2, <3>2, <3>3, Zenon
    <2> QED BY <2>3, <2>4, Zenon
<1>3. CASE DeleteOwnedPVCs
    <2>1. /\ stage = "reclaim" /\ DeleteVolumes(volumes, "unfinalize") /\ late' = {}
          /\ UNCHANGED <<spec, object, status, sts, up, doomed, clusterVars, outages>>
        BY <1>3, Zenon DEF DeleteOwnedPVCs
    <2>2. /\ PassOK' /\ crashes' \in 0..MaxCrashes /\ volumes' \subseteq volumes
          /\ \/ stage' = "idle"
             \/ stage' = "unfinalize" /\ volumes' = volumes \ volumes
        BY <2>1, <1>0, DeleteVolumesEffect, Zenon
    <2>3. Life'
        BY <2>1, <2>2, Zenon DEF Life
    <2>4. ObjectOK' /\ KubeOK' /\ ClusterOK' /\ BudgetOK'
        BY <2>1, <2>2, Zenon DEF clusterVars, ObjectOK, KubeOK, ClusterOK, BudgetOK
    <2> QED BY <2>2, <2>3, <2>4, Zenon
<1>4. CASE RemoveFinalizer
    <2>1. PassOK' /\ stage' = "idle"
        BY <1>4, <1>0, GotoEffect, Zenon DEF RemoveFinalizer
    <2>2. Life'
        BY <1>4, <2>1, Zenon DEF RemoveFinalizer, Life, kubeVars
    <2>3. ObjectOK' /\ KubeOK' /\ ClusterOK' /\ BudgetOK'
        BY <1>4, Zenon DEF RemoveFinalizer, kubeVars, clusterVars, ObjectOK, KubeOK, ClusterOK, BudgetOK
    <2> QED BY <2>1, <2>2, <2>3, Zenon
<1> QED BY <1>1, <1>2, <1>3, <1>4, Zenon

\* The steps of the user, of Kubernetes and of the cluster itself, and a crash.
LEMMA EnvironmentStep ==
    ASSUME Basics, OperatorCrash \/ User \/ Kubernetes \/ Outage \/ Failover
    PROVE  Basics'
<1> USE DEF Basics
<1>1. CASE OperatorCrash
    <2>1. PassOK' /\ stage' = "idle" /\ crashes' \in 0..MaxCrashes
        BY <1>1, CrashEffect, Zenon DEF OperatorCrash
    <2>2. Life'
        BY <1>1, <2>1, Zenon DEF OperatorCrash, Life, kubeVars
    <2>3. ObjectOK' /\ KubeOK' /\ ClusterOK' /\ BudgetOK'
        BY <1>1, <2>1, Zenon DEF OperatorCrash, kubeVars, clusterVars, ObjectOK, KubeOK, ClusterOK,
           BudgetOK
    <2> QED BY <2>1, <2>2, <2>3, Zenon
<1>2. CASE EditSpec
    <2>1. spec' \in Specs
        <3>1. PICK n \in Sizes, r \in ReplicaChoices :
                spec' = [spec EXCEPT !.shards = n, !.replicas = r, !.generation = @ + 1]
            BY <1>2, Zenon DEF EditSpec
        <3>2. spec \in Specs /\ spec.generation + 1 \in Nat
            BY DEF ObjectOK, Specs
        <3> QED BY <3>1, <3>2, Zenon DEF Specs
    <2>2. ObjectOK' /\ KubeOK' /\ ClusterOK' /\ BudgetOK' /\ PassOK'
        BY <1>2, <2>1, Zenon DEF EditSpec, kubeVars, clusterVars, passVars, ObjectOK, KubeOK,
           ClusterOK, BudgetOK, PassOK
    <2>3. Life'
        BY <1>2, Zenon DEF EditSpec, kubeVars, passVars, Life
    <2> QED BY <2>2, <2>3, Zenon
<1>3. CASE DeleteResource
    <2>1. ObjectOK' /\ KubeOK' /\ ClusterOK' /\ BudgetOK' /\ PassOK'
        BY <1>3, Zenon DEF DeleteResource, kubeVars, clusterVars, passVars, ObjectOK, KubeOK,
           ClusterOK, BudgetOK, PassOK
    <2>2. Life'
        BY <1>3, Zenon DEF DeleteResource, kubeVars, passVars, Life
    <2> QED BY <2>1, <2>2, Zenon
<1>4. CASE CollectGarbage
    <2>1. sts' \in [Shard -> 0..Max(ReplicaChoices) + 1]
        BY <1>4, Bounds DEF CollectGarbage
    <2>2. ObjectOK' /\ KubeOK' /\ ClusterOK' /\ BudgetOK' /\ PassOK'
        BY <1>4, <2>1, Zenon DEF CollectGarbage, clusterVars, passVars, ObjectOK, KubeOK,
           ClusterOK, BudgetOK, PassOK
    <2>3. Life'
        BY <1>4, Zenon DEF CollectGarbage, passVars, Life
    <2> QED BY <2>2, <2>3, Zenon
<1>5. CASE PodStart
    <2>1. PICK p \in Pod \ up :
            /\ p[2] < sts[p[1]]
            /\ up' = up \cup {p} /\ volumes' = volumes \cup {p}
            /\ IF p \in volumes THEN UNCHANGED <<member, masterOf, count, open, late>>
               ELSE /\ member' = member \ {p} /\ open' = open \ {p}
                    /\ masterOf' = [masterOf EXCEPT ![p] = NoPod]
                    /\ count' = [count EXCEPT ![p] = 0]
                    /\ late' = IF object = "gone" \/ stage = "unfinalize" THEN late \cup {p}
                               ELSE late
        BY <1>5, Zenon DEF PodStart
    <2>2. UNCHANGED <<spec, object, status, sts, doomed, passVars, crashes, outages>>
        BY <1>5, Zenon DEF PodStart
    <2>3. object # "new"
        BY <2>1 DEF Life, Pod, KubeOK
    <2>4. KubeOK'
        BY <2>1, <2>2, Zenon DEF KubeOK
    <2>5. ClusterOK'
        BY <2>1 DEF ClusterOK
    <2>6. Life'
        BY <2>1, <2>2, <2>3, Zenon DEF passVars, Life
    <2>7. ObjectOK' /\ BudgetOK' /\ PassOK'
        BY <2>2, Zenon DEF passVars, ObjectOK, BudgetOK, PassOK
    <2> QED BY <2>4, <2>5, <2>6, <2>7, Zenon
<1>6. CASE PodStop
    <2>1. ObjectOK' /\ KubeOK' /\ ClusterOK' /\ BudgetOK' /\ PassOK'
        BY <1>6, Zenon DEF PodStop, clusterVars, passVars, ObjectOK, KubeOK, ClusterOK, BudgetOK, PassOK
    <2>2. Life'
        BY <1>6, Zenon DEF PodStop, passVars, Life
    <2> QED BY <2>1, <2>2, Zenon
<1>7. CASE Outage
    <2>1. ObjectOK' /\ KubeOK' /\ ClusterOK' /\ PassOK'
        BY <1>7, Zenon DEF Outage, clusterVars, passVars, ObjectOK, KubeOK, ClusterOK, PassOK
    <2>2. BudgetOK'
        BY <1>7, ReconcilerAssumption DEF Outage, BudgetOK
    <2>3. Life'
        BY <1>7, Zenon DEF Outage, passVars, Life
    <2> QED BY <2>1, <2>2, <2>3, Zenon
<1>8. CASE Failover
    <2>1. ClusterOK'
        <3>1. PICK p \in SlotOwners \ up, q \in member \cap up :
                /\ count' = [count EXCEPT ![p] = 0, ![q] = count[p]]
                /\ masterOf' = [r \in Pod |-> IF r = q THEN NoPod
                                  ELSE IF r = p \/ masterOf[r] = p THEN q ELSE masterOf[r]]
                /\ open' = open \ {p}
            BY <1>8, Zenon DEF Failover
        <3>2. p \in Pod /\ q \in Pod /\ UNCHANGED member
            BY <1>8, Zenon DEF Failover, SlotOwners, ClusterOK
        <3> QED BY <3>1, <3>2, Zenon DEF ClusterOK
    <2>2. ObjectOK' /\ KubeOK' /\ BudgetOK' /\ PassOK'
        BY <1>8, Zenon DEF Failover, kubeVars, passVars, ObjectOK, KubeOK, BudgetOK, PassOK
    <2>3. Life'
        BY <1>8, Zenon DEF Failover, kubeVars, passVars, Life
    <2> QED BY <2>1, <2>2, <2>3, Zenon
<1> QED BY <1>1, <1>2, <1>3, <1>4, <1>5, <1>6, <1>7, <1>8, Zenon DEF User, Kubernetes

\* The statuses that a pass writes.
LEMMA StatusWritten ==
    ASSUME NEW s \in Statuses
    PROVE  /\ \A phase \in Phases : SetPhase(s, phase) \in Statuses
           /\ \A rep \in Reports, g \in Nat : UpdateStatus(s, rep, g) \in Statuses
<1>1. \A phase \in Phases : SetPhase(s, phase) \in Statuses
    BY Zenon DEF SetPhase, Statuses, ConditionStatus
<1>2. ASSUME NEW rep \in Reports, NEW g \in Nat
      PROVE  UpdateStatus(s, rep, g) \in Statuses
    <2> DEFINE counted == [s EXCEPT !.readyShards = rep.ready, !.observedGeneration = g,
                                    !.computedFrom = rep.generation]
    <2>1. counted \in Statuses
        BY Zenon DEF Statuses, Reports
    <2>2. /\ {"Ready", "Resharding", "Degraded"} \subseteq Phases
          /\ {"True", "False"} \subseteq ConditionStatus
        BY Zenon DEF Phases, ConditionStatus
    <2> HIDE DEF counted
    <2>3. [counted EXCEPT !.phase = "Ready", !.available = "True", !.progressing = "False",
                          !.degraded = "False"] \in Statuses
        BY <2>1, <2>2, Zenon DEF Statuses
    <2>4. [counted EXCEPT !.phase = "Resharding", !.progressing = "True", !.available = "True"]
            \in Statuses
        BY <2>1, <2>2, Zenon DEF Statuses
    <2>5. [counted EXCEPT !.phase = "Degraded", !.available = "False", !.degraded = "True"]
            \in Statuses
        BY <2>1, <2>2, Zenon DEF Statuses
    <2> QED BY <2>3, <2>4, <2>5, Zenon DEF UpdateStatus, counted
<1> QED BY <1>1, <1>2, Zenon

\* The summary that a pass plans with, and the plan.
LEMMA PlanIsSound ==
    ASSUME Basics, stage # "idle", NEW o \in Observations
    PROVE  /\ o.primaries = Cardinality(SlotOwners) /\ o.primaries \in Nat
           /\ PlanFor(o) \in Kinds
           /\ PlanFor(o) = "ScaleOutShards" => o.primaries < cr.shards
           /\ o.formed = (Assigned > 0)
           /\ FirstStage(PlanFor(o)) \in {"form", "repair", "join", "sweep", "members"}
           /\ PlanFor(o) # "None" => PhaseOf(PlanFor(o)) \in Phases \ {"Ready"}
<1>1. IsFiniteSet(SlotOwners)
    BY Bounds, FS_Subset, Zenon DEF SlotOwners, Basics, ClusterOK
<1>2. o.primaries = Cardinality(SlotOwners) /\ o.formed = (Assigned > 0)
    <2>1. o.primaries = Cardinality(SlotOwners)
        BY DEF Observations
    <2>2. o.formed = (Assigned > 0)
        <3> DEFINE formed == Assigned > 0
        <3>1. \A c : [formed |-> formed, covered |-> c /\ ~OpenSlots,
          primaries |-> Cardinality(SlotOwners),
                      replicaCounts |-> {Cardinality({q \in member : masterOf[q] = p}) : p \in SlotOwners}].formed
                     = formed
            BY Zenon
        <3> HIDE DEF formed
        <3>2. o.formed = formed
            BY <3>1, Zenon DEF Observations, formed
        <3> QED BY <3>2, Zenon DEF formed
    <2> QED BY <2>1, <2>2, Zenon
<1>3. o.primaries \in Nat
    BY <1>1, <1>2, FS_CardinalityType, Zenon
<1>4. cr.shards \in Nat
    BY Bounds, Zenon DEF Basics, PassOK, Specs
<1>5. PlanFor(o) \in Kinds /\ (PlanFor(o) = "ScaleOutShards" => o.primaries < cr.shards)
    BY <1>3, <1>4, Zenon DEF PlanFor, Decide, Kinds
<1>6. FirstStage(PlanFor(o)) \in {"form", "repair", "join", "sweep", "members"}
    BY <1>5, Zenon DEF FirstStage, Kinds
<1>7. PlanFor(o) # "None" => PhaseOf(PlanFor(o)) \in Phases \ {"Ready"}
    BY <1>5, Zenon DEF PhaseOf, Kinds, Phases
<1> QED BY <1>2, <1>3, <1>5, <1>6, <1>7, Zenon

\* The steps of a pass that works on the cluster.
LEMMA OperatorStep ==
    ASSUME Basics,
           \/ EnsureStatefulSets \/ Gate \/ Observe
           \/ FormMeet \/ AddSlots \/ AttachReplicas \/ RepairSlots
           \/ ScaleOutJoin \/ Fill \/ FillNext
           \/ ForgetStaleNodes \/ ScaleIn \/ DeleteShardPVCs \/ Members
           \/ Refresh \/ Publish \/ SeedLost
    PROVE  Basics' /\ stage \in Working /\ stage' \in Working \cup {"idle"}
<1> USE DEF Basics
<1> DEFINE Quiet == Stages \ ({"publish"} \cup Loop)
<1>a. UNCHANGED kubeVars => KubeOK' /\ UNCHANGED late
    BY Zenon DEF kubeVars, KubeOK
<1>b. UNCHANGED clusterVars => ClusterOK'
    BY Zenon DEF clusterVars, ClusterOK
<1>c. UNCHANGED crashes => crashes' \in 0..MaxCrashes
    BY Zenon DEF BudgetOK
<1>d. UNCHANGED status => status' \in Statuses
    BY Zenon DEF ObjectOK
<1>e. ASSUME NEW next \in Quiet, stage # "idle", Goto(next)
      PROVE  PassOK' /\ stage' = next /\ (next # "idle" => UNCHANGED <<cr, at, report>>)
    BY <1>e, GotoEffect, Zenon
<1>f. /\ {"idle", "gate", "observe", "attach-form", "attach-fill", "status", "drain",
           "attach-members", "forget", "repair"} \subseteq Quiet
      /\ {"ensure", "gate", "observe", "form", "addslots", "attach-form", "repair", "join",
           "attach-join", "fill", "attach-fill", "sweep", "drain", "pvcs", "members",
           "attach-members", "forget", "status", "publish"} = Working
    BY DEF Stages, Loop, Working
<1>g. AllPods \subseteq Pod
    BY Zenon DEF AllPods
<1> HIDE DEF Quiet
<1>1. CASE EnsureStatefulSets
    <2>1. PICK k \in 0..cr.shards :
            /\ sts' = [i \in Shard |-> IF i < k THEN cr.replicas + 1 ELSE sts[i]]
            /\ \/ k = cr.shards /\ Goto("gate") /\ UNCHANGED crashes
               \/ k < cr.shards /\ Crash
        BY <1>1, Zenon DEF EnsureStatefulSets
    <2>2. /\ stage = "ensure"
          /\ UNCHANGED <<spec, object, status, volumes, up, doomed, late, clusterVars, outages>>
        BY <1>1, Zenon DEF EnsureStatefulSets
    <2>3. cr.replicas \in Nat /\ cr.replicas <= Max(ReplicaChoices)
        BY <2>2, Bounds, Zenon DEF PassOK, Specs
    <2>4. sts' \in [Shard -> 0..Max(ReplicaChoices) + 1]
        BY <2>1, <2>3, Bounds DEF KubeOK
    <2>5. KubeOK'
        BY <2>2, <2>4, Zenon DEF KubeOK
    <2>6. PassOK' /\ crashes' \in 0..MaxCrashes /\ stage' \in {"gate", "idle"}
        BY <2>1, <2>2, <1>c, <1>e, <1>f, CrashEffect, Zenon
    <2> QED BY <2>2, <2>5, <2>6, <1>b, <1>d, <1>f, WorkStep, Zenon
<1>2. CASE Gate
    <2>1. stage = "gate" /\ UNCHANGED <<spec, object, kubeVars, clusterVars, crashes, outages>>
        BY <1>2, Zenon DEF Gate
    <2>2. \/ Goto("observe") /\ UNCHANGED status
          \/ Goto("idle") /\ status' = SetPhase(status, "Provisioning")
        BY <1>2, Zenon DEF Gate
    <2>3. status' \in Statuses
        BY <2>2, StatusWritten, Zenon DEF ObjectOK, Phases
    <2>4. PassOK' /\ stage' \in {"observe", "idle"}
        BY <2>1, <2>2, <1>e, <1>f, Zenon
    <2> QED BY <2>1, <2>3, <2>4, <1>a, <1>b, <1>c, <1>f, WorkStep, Zenon
<1>3. CASE Observe
    <2>1. PICK o \in Observations :
            /\ stage' = FirstStage(PlanFor(o))
            /\ at' = IF PlanFor(o) = "ScaleOutShards" THEN o.primaries ELSE 0
            /\ status' = IF PlanFor(o) = "None" THEN status
                         ELSE SetPhase(status, PhaseOf(PlanFor(o)))
        BY <1>3, Zenon DEF Observe
    <2>2. /\ stage = "observe"
          /\ UNCHANGED <<spec, object, kubeVars, clusterVars, cr, report, crashes, outages>>
        BY <1>3, Zenon DEF Observe
    <2>3. /\ o.primaries \in Nat /\ (PlanFor(o) = "ScaleOutShards" => o.primaries < cr.shards)
          /\ FirstStage(PlanFor(o)) \in {"form", "repair", "join", "sweep", "members"}
          /\ (PlanFor(o) # "None" => PhaseOf(PlanFor(o)) \in Phases \ {"Ready"})
        BY <2>2, PlanIsSound, Zenon
    <2>4. status' \in Statuses
        BY <2>1, <2>3, StatusWritten, Zenon DEF ObjectOK
    <2>5. cr \in Specs /\ cr.shards \in Nat /\ cr.shards <= Max(Sizes) /\ Max(Sizes) \in Nat
        BY <2>2, Bounds, Zenon DEF PassOK, Specs
    <2>6. at' \in 0..Max(Sizes) /\ at' <= cr.shards
        BY <2>1, <2>3, <2>5, SMTT(30)
    <2>7. PassOK'
        BY <2>1, <2>2, <2>3, <2>5, <2>6, Zenon DEF PassOK, Stages
    <2>8. stage' \in Working
        BY <2>1, <2>3, <1>f, Zenon
    <2> QED BY <2>2, <2>4, <2>7, <2>8, <1>a, <1>b, <1>c, <1>f, WorkStep, Zenon
<1>4. CASE FormMeet
    <2>1. stage = "form" /\ Meet(AllPods, "addslots") /\ at <= cr.shards
        BY <1>4, Zenon DEF FormMeet, PassOK, Loop
    <2>2. "addslots" \in Working \ {"publish"} /\ stage \in Working
        BY <2>1, <1>f, Zenon
    <2> QED BY <2>1, <2>2, <1>g, MeetStep, Zenon
<1>5. CASE AddSlots
    <2>1. /\ stage = "addslots"
          /\ UNCHANGED <<spec, object, status, kubeVars, member, masterOf, open, crashes,
            outages>>
        BY <1>5, Zenon DEF AddSlots
    <2>2. /\ cr \in Specs /\ cr.shards \in Nat \ {0} /\ cr.shards <= Max(Sizes)
          /\ Max(Sizes) \in Nat
        BY <2>1, Bounds, Zenon DEF PassOK, Specs
    <2>3. CASE at < cr.shards /\ <<at, 0>> \in up
        <3>1. /\ count' = [count EXCEPT ![<<at, 0>>] = TargetCounts(cr.shards)[at]]
              /\ at' = at + 1 /\ UNCHANGED <<stage, cr, report>>
            BY <1>5, <2>3, ZenonT(40) DEF AddSlots
        <3>2. PassOK'
            BY <2>1, <2>2, <2>3, <3>1, SMTT(30) DEF PassOK, Loop
        <3>3. TargetCounts(cr.shards)[at] \in Nat
            BY <2>2, <2>3, ShareSize, SMTT(30) DEF PassOK
        <3>4. ClusterOK'
            BY <2>1, <3>1, <3>3, Zenon DEF ClusterOK
        <3> QED BY <2>1, <3>1, <3>2, <3>4, <1>a, <1>c, <1>d, <1>f, WorkStep, Zenon
    <2>4. CASE ~(at < cr.shards /\ <<at, 0>> \in up)
        <3>1. UNCHANGED count /\ (Goto("idle") \/ Goto("attach-form"))
            BY <1>5, <2>4, Zenon DEF AddSlots
        <3>2. PassOK' /\ stage' \in {"idle", "attach-form"}
            BY <2>1, <3>1, <1>e, <1>f, Zenon
        <3>3. UNCHANGED clusterVars
            BY <2>1, <3>1, Zenon DEF clusterVars
        <3> QED BY <2>1, <3>2, <3>3, <1>a, <1>b, <1>c, <1>d, <1>f, WorkStep, Zenon
    <2> QED BY <2>3, <2>4, Zenon
<1>6. CASE AttachReplicas
    <2>1. PICK done \in SUBSET ToAttach :
            /\ masterOf' = [p \in Pod |-> IF p \in done THEN FindShardPrimary(p[1])
                                          ELSE masterOf[p]]
            /\ open' = open \ done
            /\ \/ UNCHANGED crashes /\ Goto(IF done = ToAttach THEN AfterAttach[stage] ELSE "idle")
               \/ Crash
        BY <1>6, Zenon DEF AttachReplicas
    <2>2. /\ stage \in {"attach-form", "attach-join", "attach-fill", "attach-members"}
          /\ UNCHANGED <<spec, object, status, kubeVars, member, count, outages>>
        BY <1>6, Zenon DEF AttachReplicas, AfterAttach
    <2>3. /\ AfterAttach[stage] \in {"fill", "forget", "status"}
          /\ AfterAttach[stage] = "fill" => stage = "attach-join"
        BY <2>2, Zenon DEF AfterAttach
    <2>4. ASSUME NEW p \in done
          PROVE  p \in Pod /\ FindShardPrimary(p[1]) \in Pod
        <3>1. p \in Pod /\ FindShardPrimary(p[1]) # NoPod
            BY Zenon DEF ToAttach, AllPods
        <3>2. p[1] \in Shard
            BY <3>1, Zenon DEF Pod
        <3> QED BY <2>2, <3>1, <3>2, PrimaryIsPod, Zenon
    <2>5. ClusterOK'
        BY <2>1, <2>2, <2>4, Zenon DEF ClusterOK
    <2>6. CASE UNCHANGED crashes /\ Goto(IF done = ToAttach THEN AfterAttach[stage] ELSE "idle")
        <3>1. PICK next \in {"fill", "forget", "status", "idle"} :
                Goto(next) /\ (next = "fill" => stage = "attach-join")
            BY <2>3, <2>6, Zenon
        <3>2. next \in Stages \ {"publish"} /\ (next \in Loop => at <= cr.shards)
            BY <3>1, Zenon DEF Stages, Loop, PassOK
        <3>3. PassOK' /\ stage' = next
            BY <2>2, <3>1, <3>2, GotoEffect, Zenon
        <3> QED BY <2>2, <2>5, <2>6, <3>3, <1>a, <1>c, <1>d, <1>f, WorkStep, Zenon
    <2>7. CASE Crash
        <3>1. PassOK' /\ stage' = "idle" /\ crashes' \in 0..MaxCrashes
            BY <2>2, <2>7, CrashEffect, Zenon
        <3> QED BY <2>2, <2>5, <3>1, <1>a, <1>d, <1>f, WorkStep, Zenon
    <2> QED BY <2>1, <2>6, <2>7, Zenon
<1>7. CASE RepairSlots
    <2>1. /\ stage = "repair" /\ Goto("status") /\ open' \subseteq open
          /\ UNCHANGED <<spec, object, status, kubeVars, member, masterOf, count, crashes,
            outages>>
        BY <1>7, Zenon DEF RepairSlots
    <2>2. ClusterOK'
        BY <2>1, Zenon DEF ClusterOK
    <2>3. PassOK' /\ stage' = "status"
        BY <2>1, <1>e, <1>f, Zenon
    <2> QED BY <2>1, <2>2, <2>3, <1>a, <1>c, <1>d, <1>f, WorkStep, Zenon
<1>8. CASE ScaleOutJoin
    <2>1. /\ stage = "join" /\ Meet({p \in AllPods : p[1] >= at}, "attach-join")
          /\ at <= cr.shards
        BY <1>8, Zenon DEF ScaleOutJoin, PassOK, Loop
    <2>2. "attach-join" \in Working \ {"publish"} /\ stage \in Working
        BY <2>1, <1>f, Zenon
    <2> QED BY <2>1, <2>2, <1>g, MeetStep, Zenon
<1>9. CASE Fill
    <2>1. PICK f \in SlotOwners, n \in Nat :
            /\ f \in Pod /\ f # <<at, 0>> /\ 1 <= n /\ n <= count[f]
            /\ MoveSlots(f, <<at, 0>>, n, "fill")
        BY <1>9, FillMoves, Zenon
    <2>2. stage = "fill" /\ <<at, 0>> \in Pod /\ at <= cr.shards
        BY <1>9, FillMoves, Zenon DEF Fill, PassOK, Loop
    <2>3. stage \in Working
        BY <2>2, <1>f, Zenon
    <2>4. /\ ClusterOK' /\ PassOK' /\ BudgetOK' /\ stage' \in {"fill", "idle"}
          /\ UNCHANGED <<spec, object, status, kubeVars, outages>>
        BY <2>1, <2>2, <2>3, MoveSlotsEffect, Zenon
    <2>5. crashes' \in 0..MaxCrashes
        BY <2>4, Zenon DEF BudgetOK
    <2> QED BY <2>2, <2>4, <2>5, <1>a, <1>d, <1>f, WorkStep, Zenon
<1>10. CASE FillNext
    <2>1. stage = "fill" /\ UNCHANGED <<spec, object, status, kubeVars, clusterVars, crashes,
      outages>>
        BY <1>10, Zenon DEF FillNext
    <2>2. \/ Goto("attach-fill") \/ Goto("idle")
          \/ at # cr.shards /\ at' = at + 1 /\ UNCHANGED <<stage, cr, report>>
        BY <1>10, Zenon DEF FillNext
    <2>3. CASE at # cr.shards /\ at' = at + 1 /\ UNCHANGED <<stage, cr, report>>
        <3>1. /\ cr \in Specs /\ cr.shards \in Nat \ {0} /\ cr.shards <= Max(Sizes)
              /\ Max(Sizes) \in Nat
            BY <2>1, Bounds, Zenon DEF PassOK, Specs
        <3>2. PassOK'
            BY <2>1, <2>3, <3>1, SMTT(30) DEF PassOK, Loop
        <3> QED BY <2>1, <2>3, <3>2, <1>a, <1>b, <1>c, <1>d, <1>f, WorkStep, Zenon
    <2>4. CASE Goto("attach-fill") \/ Goto("idle")
        <3>1. PassOK' /\ stage' \in {"idle", "attach-fill"}
            BY <2>1, <2>4, <1>e, <1>f, Zenon
        <3> QED BY <2>1, <3>1, <1>a, <1>b, <1>c, <1>d, <1>f, WorkStep, Zenon
    <2> QED BY <2>2, <2>3, <2>4, Zenon
<1>11. CASE ForgetStaleNodes
    <2>1. /\ stage \in {"forget", "sweep"} /\ member' \subseteq member
          /\ Goto("drain") \/ Goto("status")
          /\ UNCHANGED <<spec, object, status, kubeVars, masterOf, count, open, crashes, outages>>
        BY <1>11, Zenon DEF ForgetStaleNodes, Forget
    <2>2. ClusterOK'
        BY <2>1, Zenon DEF ClusterOK
    <2>3. PassOK' /\ stage' \in {"drain", "status"}
        BY <2>1, <1>e, <1>f, Zenon
    <2> QED BY <2>1, <2>2, <2>3, <1>a, <1>c, <1>d, <1>f, WorkStep, Zenon
<1>12. CASE ScaleIn
    <2>1. stage = "drain"
        BY <1>12, Zenon DEF ScaleIn
    <2>2. CASE Departing = {}
        <3>1. Goto("status") /\ UNCHANGED <<spec, object, status, kubeVars, clusterVars,
          crashes, outages>>
            BY <1>12, <2>2, Zenon DEF ScaleIn
        <3>2. PassOK' /\ stage' = "status"
            BY <2>1, <3>1, <1>e, <1>f, Zenon
        <3> QED BY <2>1, <3>1, <3>2, <1>a, <1>b, <1>c, <1>d, <1>f, WorkStep, Zenon
    <2>3. CASE Departing # {}
        <3>1. Departing \subseteq Nat /\ Departing \subseteq Shard
            BY DEF Departing, Shard
        <3>2. PICK i \in Departing : DrainBatch(i) \/ DeleteShard(i)
            BY <1>12, <2>3, <3>1, MinIsIn, Zenon DEF ScaleIn
        <3>3. i \in Shard
            BY <3>1, Zenon
        <3>4. CASE DrainBatch(i)
            <4> DEFINE d == FindShardPrimary(i)
            <4>1. /\ d \in Pod
                  /\ \/ /\ Goto("idle")
                        /\ UNCHANGED <<spec, object, status, kubeVars, clusterVars, crashes,
                          outages>>
                     \/ \E k \in Shard, n \in Nat :
                            /\ FindShardPrimary(k) \in Pod /\ FindShardPrimary(k) # d
                            /\ 1 <= n /\ n <= count[d]
                            /\ MoveSlots(d, FindShardPrimary(k), n, "status")
                BY <2>1, <3>3, <3>4, BatchMoves, Zenon
            <4> HIDE DEF d
            <4>2. CASE /\ Goto("idle")
                       /\ UNCHANGED <<spec, object, status, kubeVars, clusterVars, crashes,
                         outages>>
                <5>1. PassOK' /\ stage' = "idle"
                    BY <2>1, <4>2, <1>e, <1>f, Zenon
                <5> QED BY <2>1, <4>2, <5>1, <1>a, <1>b, <1>c, <1>d, <1>f, WorkStep, Zenon
            <4>3. ASSUME NEW t \in Pod, NEW n \in Nat, t # d, 1 <= n, n <= count[d],
                         MoveSlots(d, t, n, "status")
                  PROVE  Basics' /\ stage' \in {"status", "idle"}
                <5>1. stage \in Working
                    BY <2>1, <1>f, Zenon
                <5>2. /\ ClusterOK' /\ PassOK' /\ BudgetOK' /\ stage' \in {"status", "idle"}
                      /\ UNCHANGED <<spec, object, status, kubeVars, outages>>
                    BY <4>1, <4>3, <5>1, MoveSlotsEffect, Zenon
                <5>3. crashes' \in 0..MaxCrashes
                    BY <5>2, Zenon DEF BudgetOK
                <5> QED BY <5>1, <5>2, <5>3, <1>a, <1>d, <1>f, WorkStep, Zenon
            <4> QED BY <2>1, <4>1, <4>2, <4>3, <1>f, Zenon
        <3>5. CASE DeleteShard(i)
            <4>1. /\ sts' = [sts EXCEPT ![i] = 0]
                  /\ doomed' = doomed \cup {p \in up : p[1] = i}
                  /\ stage' = "pvcs" /\ at' = i /\ member' \subseteq member
                  /\ UNCHANGED <<spec, object, status, volumes, up, late, masterOf, count, open,
                                 cr, report, crashes, outages>>
                BY <3>5, Zenon DEF DeleteShard, Forget
            <4>2. KubeOK'
                <5>1. sts' \in [Shard -> 0..Max(ReplicaChoices) + 1]
                    BY <3>3, <4>1, Bounds, SMTT(30) DEF KubeOK
                <5>2. doomed' \subseteq up'
                    BY <4>1, Zenon DEF KubeOK
                <5> QED BY <4>1, <5>1, <5>2, Zenon DEF KubeOK
            <4>3. ClusterOK'
                BY <4>1, ZenonT(40) DEF ClusterOK
            <4>4. PassOK'
                BY <2>1, <3>3, <4>1, Bounds, SMTT(30) DEF PassOK, Stages, Loop, Shard
            <4> QED BY <2>1, <4>1, <4>2, <4>3, <4>4, <1>c, <1>d, <1>f, WorkStep, Zenon
        <3> QED BY <3>2, <3>4, <3>5, Zenon
    <2> QED BY <2>2, <2>3, Zenon
<1>13. CASE DeleteShardPVCs
    <2>1. /\ stage = "pvcs" /\ DeleteVolumes({p \in volumes : p[1] = at}, "drain")
          /\ UNCHANGED <<spec, object, status, sts, up, doomed, late, clusterVars, outages>>
        BY <1>13, Zenon DEF DeleteShardPVCs
    <2>2. "drain" \in Stages \ {"publish"} /\ "drain" \notin Loop
        BY Zenon DEF Stages, Loop
    <2>3. PassOK' /\ crashes' \in 0..MaxCrashes /\ volumes' \subseteq volumes
          /\ stage' \in {"drain", "idle"}
        BY <2>1, <2>2, DeleteVolumesEffect, Zenon
    <2>4. late = {}
        BY <2>1, Zenon DEF Life
    <2>5. KubeOK'
        BY <2>1, <2>3, <2>4, Zenon DEF KubeOK
    <2> QED BY <2>1, <2>3, <2>5, <1>b, <1>d, <1>f, WorkStep, Zenon
<1>14. CASE Members
    <2>1. stage = "members" /\ Meet(AllPods \ member, "attach-members")
        BY <1>14, Zenon DEF Members
    <2>2. /\ "attach-members" \in Working \ {"publish"} /\ stage \in Working
          /\ "attach-members" \notin Loop
        BY <2>1, <1>f, Zenon DEF Loop
    <2>3. AllPods \ member \in SUBSET Pod
        BY <1>g, Zenon
    <2> QED BY <2>1, <2>2, <2>3, MeetStep, Zenon
<1>15. CASE Refresh
    <2>1. PICK c \in SlotsCovered :
            report' = [ready |-> Cardinality({i \in 0..cr.shards - 1 :
                                     \E j \in 0..cr.replicas : <<i, j>> \in SlotOwners}),
                       actual |-> Cardinality(SlotOwners), desired |-> cr.shards,
                       covered |-> c, open |-> OpenSlots, generation |-> cr.generation]
        BY <1>15, Zenon DEF Refresh
    <2>2. /\ stage = "status" /\ stage' = "publish"
          /\ UNCHANGED <<spec, object, status, kubeVars, clusterVars, cr, at, crashes, outages>>
        BY <1>15, Zenon DEF Refresh
    <2>3. cr \in Specs /\ cr.shards \in Nat /\ cr.generation \in Nat
        BY <2>2, Bounds, Zenon DEF PassOK, Specs
    <2>4. c \in BOOLEAN /\ OpenSlots \in BOOLEAN
        BY <2>1, Zenon DEF SlotsCovered, OpenSlots
    <2>5. Cardinality(SlotOwners) \in Nat
        <3>1. IsFiniteSet(SlotOwners)
            BY Bounds, FS_Subset, Zenon DEF SlotOwners, ClusterOK
        <3> QED BY <3>1, FS_CardinalityType, Zenon
    <2>6. Cardinality({i \in 0..cr.shards - 1 :
                          \E j \in 0..cr.replicas : <<i, j>> \in SlotOwners}) \in Nat
        <3>1. IsFiniteSet(0..cr.shards - 1)
            BY <2>3, FirstShards, Zenon
        <3>2. IsFiniteSet({i \in 0..cr.shards - 1 :
                              \E j \in 0..cr.replicas : <<i, j>> \in SlotOwners})
            BY <3>1, FS_Subset, Zenon
        <3> QED BY <3>2, FS_CardinalityType, Zenon
    <2>7. report' \in Reports
        BY <2>1, <2>3, <2>4, <2>5, <2>6, Zenon DEF Reports
    <2>8. PassOK'
        BY <2>2, <2>3, <2>7, Zenon DEF PassOK, Stages, Loop
    <2> QED BY <2>2, <2>8, <1>a, <1>b, <1>c, <1>d, <1>f, WorkStep, Zenon
<1>16. CASE Publish
    <2>1. /\ stage = "publish" /\ Goto("idle")
          /\ status' = UpdateStatus(status, report, spec.generation)
          /\ UNCHANGED <<spec, object, kubeVars, clusterVars, crashes, outages>>
        BY <1>16, Zenon DEF Publish
    <2>2. report \in Reports /\ spec.generation \in Nat /\ status \in Statuses
        BY <2>1, Zenon DEF PassOK, ObjectOK, Specs
    <2>3. status' \in Statuses
        BY <2>1, <2>2, StatusWritten, Zenon
    <2>4. PassOK' /\ stage' = "idle"
        BY <2>1, <1>e, <1>f, Zenon
    <2> QED BY <2>1, <2>3, <2>4, <1>a, <1>b, <1>c, <1>f, WorkStep, Zenon
<1>17. CASE SeedLost
    <2>1. /\ stage \in {"observe", "attach-form", "repair", "attach-join", "fill", "attach-fill",
                        "sweep", "drain", "status"}
          /\ Goto("status") \/ Goto("drain") \/ Goto("idle")
          /\ UNCHANGED <<spec, object, status, kubeVars, clusterVars, crashes, outages>>
        BY <1>17, Zenon DEF SeedLost
    <2>2. PassOK' /\ stage' \in {"status", "drain", "idle"}
        BY <2>1, <1>e, <1>f, Zenon
    <2> QED BY <2>1, <2>2, <1>a, <1>b, <1>c, <1>d, <1>f, WorkStep, Zenon
<1> QED BY <1>1, <1>2, <1>3, <1>4, <1>5, <1>6, <1>7, <1>8, <1>9, <1>10, <1>11, <1>12, <1>13,
           <1>14, <1>15, <1>16, <1>17, Zenon

-----------------------------------------------------------------------------
\* A resource that the operator has not seen yet satisfies the invariant.
LEMMA InitialBasics == Init => Basics
<1> SUFFICES ASSUME Init PROVE Basics
    BY Zenon
<1> USE DEF Init, InitResource
<1>1. ObjectOK
    <2>1. NoStatus \in Statuses
        BY Zenon DEF NoStatus, Statuses, Phases, ConditionStatus
    <2>2. 1..MaxEdits + 1 \subseteq Nat
        BY ReconcilerAssumption
    <2>3. spec \in Specs
        BY <2>2, Zenon DEF Specs
    <2> QED BY <2>1, <2>3, Zenon DEF ObjectOK
<1>2. KubeOK /\ ClusterOK
    BY Bounds DEF KubeOK, ClusterOK
<1>3. PassOK
    BY Bounds DEF PassOK, Stages, Loop
<1>4. BudgetOK /\ Life
    BY ReconcilerAssumption DEF BudgetOK, Life
<1> QED BY <1>1, <1>2, <1>3, <1>4, Zenon DEF Basics

\* Every step keeps the invariant.
LEMMA BasicsStep == Basics /\ [Next]_vars => Basics'
<1> SUFFICES ASSUME Basics, [Next]_vars PROVE Basics'
    BY Zenon
<1>1. CASE Operator
    BY <1>1, LifecycleStep, OperatorStep, Zenon DEF Operator
<1>2. CASE OperatorCrash \/ User \/ Kubernetes \/ Outage \/ Failover
    BY <1>2, EnvironmentStep, Zenon
<1>3. CASE UNCHANGED vars
    BY <1>3, ZenonT(40) DEF vars, kubeVars, clusterVars, passVars, Basics, ObjectOK, KubeOK,
      ClusterOK, PassOK,
       BudgetOK, Life
<1> QED BY <1>1, <1>2, <1>3, Zenon DEF Next

\* The inductive invariant holds in every behaviour.
LEMMA BasicsAlways == Spec => []Basics
BY InitialBasics, BasicsStep, PTL DEF Spec

\* The reconcile loop keeps the types of its variables, whatever the edits, crashes, lost
\* pods and failovers: no step asks for more pods than can be declared, loses a pass's
\* copy of the spec, or drives a slot count below zero.
THEOREM ReconcilerTypeCorrect == Spec => []TypeOK
BY BasicsAlways, BasicsImply, PTL

\* reconcileDelete: a resource that is gone has left no volume behind but those that pods
\* created after the volumes were listed.
THEOREM TeardownReclaims == Spec => []VolumesReclaimed
BY BasicsAlways, BasicsImply, PTL
-----------------------------------------------------------------------------
\* No pod stands for the absence of one.
LEMMA NoPodIsNone == NoPod \notin Pod
BY DEF NoPod, Pod

\* A cluster that is as declared: its pods, and no two primaries for one shard.
LEMMA AsDeclared ==
    ASSUME Basics, Converged
    PROVE  /\ member = {p \in Pod : p[1] < spec.shards /\ p[2] <= spec.replicas}
           /\ \A p, q \in SlotOwners : p[1] = q[1] => p = q
<1>1. /\ spec.shards \in Nat \ {0} /\ spec.shards <= Max(Sizes) /\ spec.replicas \in Nat
      /\ Max(Sizes) \in Nat /\ Max(ReplicaChoices) \in Nat
    BY Bounds, Zenon DEF Basics, ObjectOK, Specs
<1>2. \A p \in Pod : p = <<p[1], p[2]>> /\ p[1] \in Shard /\ p[2] \in Nat
    BY <1>1 DEF Pod
<1>3. \A i \in Shard : i \in Nat /\ sts[i] = IF i < spec.shards THEN spec.replicas + 1 ELSE 0
    <2>1. \A i \in Shard : i \in Nat
        BY <1>1 DEF Shard
    <2> QED BY <2>1, Zenon DEF Converged
<1>4. \A p \in Pod : p[2] < sts[p[1]] <=> (p[1] < spec.shards /\ p[2] <= spec.replicas)
    BY <1>1, <1>2, <1>3, SMTT(30)
<1>5. member = {p \in Pod : p[1] < spec.shards /\ p[2] <= spec.replicas}
    BY <1>4, Zenon DEF Converged, Asked
<1> DEFINE T == 0..spec.shards - 1
           f == [p \in SlotOwners |-> p[1]]
<1>6. \A p \in SlotOwners : p[1] \in T
    BY <1>1, <1>2, <1>3, <1>5, SMTT(30) DEF SlotOwners
<1>7. \A i \in T : \E q \in SlotOwners : q[1] = i
    <2> SUFFICES ASSUME NEW i \in T PROVE \E q \in SlotOwners : q[1] = i
        BY Zenon
    <2>1. <<i, 0>> \in Pod /\ i < spec.shards /\ 0 <= spec.replicas
        BY <1>1 DEF Pod, Shard
    <2>2. <<i, 0>> \in Asked
        BY <2>1, <1>5, Zenon DEF Converged
    <2> QED BY <2>2, Zenon DEF Converged
<1>8. Cardinality(SlotOwners) = Cardinality(T)
    <2>1. spec.shards \in Nat
        BY <1>1, Zenon
    <2> QED BY <2>1, FirstShards, Zenon DEF Converged
<1>9. IsFiniteSet(SlotOwners)
    BY Bounds, FS_Subset, Zenon DEF SlotOwners, Basics, ClusterOK
<1>10. f \in Surjection(SlotOwners, T)
    <2> HIDE DEF T
    <2> QED BY <1>6, <1>7, Zenon DEF Surjection
<1>11. f \in Injection(SlotOwners, T)
    <2> HIDE DEF T, f
    <2> QED BY <1>8, <1>9, <1>10, FS_SurjSameCardinalityImpliesInj, Zenon
<1>12. \A p, q \in SlotOwners : p[1] = q[1] => p = q
    <2> HIDE DEF T
    <2> QED BY <1>11, Zenon DEF Injection, IsInjective
<1> QED BY <1>5, <1>12, Zenon

\* The primary of each shard of such a cluster has the declared number of replicas.
LEMMA ReplicasAsDeclared ==
    ASSUME Basics, Converged, NEW p \in SlotOwners
    PROVE  Cardinality({q \in member : masterOf[q] = p}) = spec.replicas
<1>1. /\ spec.replicas \in Nat /\ Max(ReplicaChoices) \in Nat
      /\ spec.replicas <= Max(ReplicaChoices)
    BY Bounds, Zenon DEF Basics, ObjectOK, Specs
<1>2. p \in member /\ p \in Pod /\ masterOf[p] = NoPod
    BY Zenon DEF SlotOwners, Basics, ClusterOK
<1>3. /\ p[1] < spec.shards /\ p[1] \in Shard /\ p[2] \in 0..spec.replicas
      /\ p = <<p[1], p[2]>>
    BY <1>1, <1>2, AsDeclared, SMTT(30) DEF Pod
<1> DEFINE Q == {q \in member : masterOf[q] = p}
           J == (0..spec.replicas) \ {p[2]}
           g == [j \in J |-> <<p[1], j>>]
<1>4. ASSUME NEW q \in member
      PROVE  masterOf[q] = p <=> q[1] = p[1] /\ q # p
    <2>1. PICK o \in SlotOwners : o[1] = q[1] /\ (q = o \/ masterOf[q] = o)
        BY Zenon DEF Converged
    <2>2. p # NoPod /\ o # NoPod
        <3>1. o \in Pod
            BY Zenon DEF SlotOwners, Basics, ClusterOK
        <3> QED BY <3>1, <1>2, NoPodIsNone, Zenon
    <2>3. q = o => masterOf[q] = NoPod
        BY Zenon DEF SlotOwners
    <2>4. p[1] = o[1] => p = o
        BY AsDeclared, Zenon
    <2> QED BY <2>1, <2>2, <2>3, <2>4, <1>2, Zenon
<1>5. \A j \in J : <<p[1], j>> \in Q
    <2> SUFFICES ASSUME NEW j \in J PROVE <<p[1], j>> \in Q
        BY Zenon
    <2>1. <<p[1], j>> \in Pod /\ j <= spec.replicas
        BY <1>1, <1>3, SMTT(30) DEF Pod
    <2>2. <<p[1], j>> \in member
        BY <2>1, <1>3, AsDeclared, Zenon
    <2>3. <<p[1], j>> # p
        BY <1>3
    <2> QED BY <2>2, <2>3, <1>4, Zenon
<1>6. \A q \in Q : \E j \in J : <<p[1], j>> = q
    <2> SUFFICES ASSUME NEW q \in Q PROVE \E j \in J : <<p[1], j>> = q
        BY Zenon
    <2>1. q \in member /\ q[1] = p[1] /\ q # p
        BY <1>4, Zenon
    <2>2. q = <<q[1], q[2]>> /\ q[2] \in 0..spec.replicas
        BY <1>1, <2>1, AsDeclared, SMTT(30) DEF Pod
    <2>3. q[2] # p[2]
        BY <2>1, <2>2, <1>3, Zenon
    <2> QED BY <2>1, <2>2, <2>3, Zenon
<1>7. ExistsBijection(J, Q)
    <2> HIDE DEF J, Q
    <2>1. g \in [J -> Q]
        BY <1>5, Zenon
    <2>2. IsInjective(g)
        BY Zenon DEF IsInjective
    <2>3. \A q \in Q : \E j \in J : g[j] = q
        BY <1>6, Zenon
    <2> QED BY <2>1, <2>2, <2>3, Zenon DEF ExistsBijection, Bijection, Injection, Surjection
<1>8. IsFiniteSet(J) /\ Cardinality(J) = spec.replicas
    <2> DEFINE n == spec.replicas + 1
    <2>1. n \in Nat /\ 0..n - 1 = 0..spec.replicas
        BY <1>1
    <2> HIDE DEF n
    <2>a. IsFiniteSet(0..spec.replicas) /\ Cardinality(0..spec.replicas) = n
        BY <2>1, FirstShards, Zenon
    <2>2. IsFiniteSet(0..spec.replicas) /\ Cardinality(0..spec.replicas) = spec.replicas + 1
        BY <2>a, Zenon DEF n
    <2>3. /\ IsFiniteSet(J)
          /\ Cardinality(J) = Cardinality(0..spec.replicas) - 1
        BY <2>2, <1>3, FS_RemoveElement, Zenon
    <2> QED BY <1>1, <2>2, <2>3, SMTT(30)
<1> QED BY <1>7, <1>8, FS_Bijection, ZenonT(40)

\* What a pass over such a cluster finds: no pod to meet, attach or forget, no shard to
\* drain, and nothing to plan.
LEMMA NothingToDo ==
    ASSUME Basics, AtRest, stage # "idle"
    PROVE  /\ cr = spec /\ AllPods = member /\ Stale = {} /\ ToAttach = {}
           /\ \A o \in Observations : PlanFor(o) = "None"
<1>1. Converged /\ cr = spec
    BY Zenon DEF AtRest
<1>2. /\ spec.shards \in Nat \ {0} /\ spec.replicas \in Nat
      /\ Max(Sizes) \in Nat /\ Max(ReplicaChoices) \in Nat
    BY Bounds, Zenon DEF Basics, ObjectOK, Specs
<1>3. AllPods = member
    BY <1>1, AsDeclared, Zenon DEF AllPods
<1>4. \A p \in member : p \in Pod /\ p[1] \in Shard /\ p[1] < spec.shards /\ p[2] <= spec.replicas
    <2>1. \A p \in Pod : p[1] \in Shard
        BY Zenon DEF Pod
    <2> QED BY <1>1, <2>1, AsDeclared, Zenon
<1>5. Stale = {}
    <2>1. \A i \in Shard : i < spec.shards => sts[i] # 0
        BY <1>1, <1>2, SMTT(30) DEF Converged
    <2>2. \A p \in member : p[2] \in Nat
        BY <1>2, <1>4, SMTT(30) DEF Pod
    <2>3. \A p \in member : ~(p[2] > spec.replicas)
        BY <1>2, <1>4, <2>2, SMTT(30)
    <2> QED BY <1>1, <1>4, <2>1, <2>3, Zenon DEF Stale
<1>6. Departing = {}
    BY <1>1, <1>2 DEF Departing, Converged, Shard
<1>7. ToAttach = {}
    <2> SUFFICES ASSUME NEW p \in AllPods \cap up, FindShardPrimary(p[1]) # p
                 PROVE  p \in member /\ masterOf[p] = FindShardPrimary(p[1])
        BY Zenon DEF ToAttach
    <2>1. p \in member /\ p \in Asked
        BY <1>1, <1>3, Zenon DEF Converged
    <2>2. PICK q \in SlotOwners : q[1] = p[1] /\ (p = q \/ masterOf[p] = q)
        BY <1>1, <2>1, Zenon DEF Converged
    <2> DEFINE owners == {j \in 0..cr.replicas : <<p[1], j>> \in up /\ <<p[1], j>> \in SlotOwners}
    <2>3. q \in up /\ q \in member
        BY <1>1, <2>2, Zenon DEF Converged, SlotOwners
    <2>4. q = <<p[1], q[2]>> /\ q[2] \in 0..spec.replicas
        BY <1>2, <1>4, <2>2, <2>3, SMTT(30) DEF Pod
    <2>5. q[2] \in owners
        BY <1>1, <2>2, <2>3, <2>4, Zenon
    <2>6. Min(owners) \in owners
        <3>1. owners \subseteq Nat
            BY <1>1, <1>2, SMTT(30)
        <3> HIDE DEF owners
        <3> QED BY <2>5, <3>1, MinIsIn, Zenon
    <2>7. FindShardPrimary(p[1]) = <<p[1], Min(owners)>> /\ <<p[1], Min(owners)>> \in SlotOwners
        BY <2>5, <2>6, Zenon DEF FindShardPrimary
    <2>8. <<p[1], Min(owners)>> = q
        <3> DEFINE o == <<p[1], Min(owners)>>
        <3>1. o \in SlotOwners /\ o[1] = q[1]
            BY <2>2, <2>7, Zenon
        <3> HIDE DEF o
        <3>2. o = q
            BY <1>1, <2>2, <3>1, AsDeclared, Zenon
        <3> QED BY <3>2, Zenon DEF o
    <2> QED BY <2>1, <2>2, <2>7, <2>8, Zenon
<1>8. ASSUME NEW o \in Observations
      PROVE  PlanFor(o) = "None"
    <2>1. SlotsCovered = {TRUE} /\ Assigned = TotalSlots /\ ~OpenSlots
        <3>1. open \cap member \cap up = {}
            BY <1>1, Zenon DEF Converged
        <3> QED BY <1>1, <3>1, Zenon DEF Converged, SlotsCovered, OpenSlots
    <2> DEFINE formed == Assigned > 0
               covered == TRUE /\ ~OpenSlots
               primaries == Cardinality(SlotOwners)
               counts == {Cardinality({q \in member : masterOf[q] = p}) : p \in SlotOwners}
    <2>a. o = [formed |-> formed, covered |-> covered, primaries |-> primaries,
               replicaCounts |-> counts]
        BY <2>1, Zenon DEF Observations
    <2>b. covered
        BY <2>1, Zenon
    <2>c. o.covered = covered /\ o.replicaCounts = counts
        <3> HIDE DEF formed, covered, primaries, counts
        <3> QED BY <2>a, Zenon
    <2>2. o.covered
        BY <2>b, <2>c, Zenon
    <2>3. o.formed
        <3>1. o.formed = (Assigned > 0)
            BY PlanIsSound, Zenon
        <3>2. TotalSlots > 0
            BY SlotsAssumption
        <3> QED BY <2>1, <3>1, <3>2, Zenon
    <2>4. o.primaries = spec.shards
        BY <1>1, PlanIsSound, Zenon DEF Converged
    <2>5. \A rc \in o.replicaCounts : rc = spec.replicas
        <3>1. o.replicaCounts = {Cardinality({q \in member : masterOf[q] = p}) : p \in SlotOwners}
            BY <2>c, Zenon
        <3> QED BY <1>1, <3>1, ReplicasAsDeclared, Zenon
    <2>6. ~(cr.shards > o.primaries) /\ ~(cr.shards < o.primaries)
        BY <1>1, <1>2, <2>4, SMTT(30)
    <2>7. Decide(cr, o) = "None"
        BY <1>1, <2>2, <2>3, <2>5, <2>6, Zenon DEF Decide
    <2> QED BY <1>6, <2>7, Zenon DEF PlanFor
<1> QED BY <1>1, <1>3, <1>5, <1>7, <1>8, Zenon

\* A step of such a pass leaves the cluster as it is, and the pass goes on or ends.
LEMMA AtRestStep ==
    ASSUME Basics, Next, AtRest, stage' # stage
    PROVE  /\ UNCHANGED <<sts, volumes, clusterVars>>
           /\ stage' \in SteadyStages
           /\ stage = "observe" => status' = status
<1>a. object = "live" /\ stage \in SteadyStages /\ Converged
    BY Zenon DEF AtRest
<1>b. \A next : Goto(next) => stage' = next
    BY Zenon DEF Goto
<1>c. UNCHANGED kubeVars => UNCHANGED <<sts, volumes>>
    BY Zenon DEF kubeVars
<1>1. CASE ReadResource
    BY <1>1, <1>a, <1>c, Zenon DEF ReadResource, SteadyStages
<1>2. CASE EnsureStatefulSets
    <2>1. PICK k \in 0..cr.shards :
            /\ sts' = [i \in Shard |-> IF i < k THEN cr.replicas + 1 ELSE sts[i]]
            /\ \/ k = cr.shards /\ Goto("gate") /\ UNCHANGED crashes
               \/ k < cr.shards /\ Crash
        BY <1>2, Zenon DEF EnsureStatefulSets
    <2>2. stage = "ensure" /\ UNCHANGED <<volumes, clusterVars>>
        BY <1>2, Zenon DEF EnsureStatefulSets
    <2>3. stage' \in {"gate", "idle"}
        BY <2>1, <1>b, Zenon DEF Crash
    <2>4. cr = spec /\ cr.shards \in Nat /\ Max(Sizes) \in Nat
        BY <2>2, NothingToDo, Bounds, Zenon DEF Basics, ObjectOK, Specs
    <2>5. \A i \in Shard : i < k => i < cr.shards
        BY <2>4 DEF Shard
    <2>6. \A i \in Shard : i < k => sts[i] = cr.replicas + 1
        BY <1>a, <2>4, <2>5, Zenon DEF Converged
    <2>7. sts = [i \in Shard |-> sts[i]]
        BY Zenon DEF Basics, KubeOK
    <2>8. sts' = sts
        BY <2>1, <2>6, <2>7, Zenon
    <2> QED BY <2>2, <2>3, <2>8, Zenon DEF SteadyStages
<1>3. CASE Gate
    BY <1>3, <1>b, <1>c, Zenon DEF Gate, SteadyStages
<1>4. CASE Observe
    <2>1. PICK o \in Observations :
            /\ stage' = FirstStage(PlanFor(o))
            /\ status' = IF PlanFor(o) = "None" THEN status
                         ELSE SetPhase(status, PhaseOf(PlanFor(o)))
        BY <1>4, Zenon DEF Observe
    <2>2. stage = "observe" /\ UNCHANGED <<kubeVars, clusterVars>>
        BY <1>4, Zenon DEF Observe
    <2>3. PlanFor(o) = "None"
        BY <2>2, NothingToDo, Zenon
    <2>4. FirstStage("None") = "members"
        BY Zenon DEF FirstStage
    <2> QED BY <2>1, <2>2, <2>3, <2>4, <1>c, Zenon DEF SteadyStages
<1>5. CASE Members
    <2>1. stage = "members" /\ AllPods \ member = {}
        <3>1. stage = "members"
            BY <1>5, Zenon DEF Members
        <3> QED BY <3>1, NothingToDo, Zenon
    <2>2. Meet({}, "attach-members")
        BY <1>5, <2>1, Zenon DEF Members
    <2>3. stage' \in {"attach-members", "idle"} /\ member' = member
        BY <2>2, <1>b, Zenon DEF Meet, Crash
    <2>4. UNCHANGED <<kubeVars, masterOf, count, open>>
        BY <2>2, Zenon DEF Meet
    <2> QED BY <2>1, <2>3, <2>4, <1>c, Zenon DEF clusterVars, SteadyStages
<1>6. CASE AttachReplicas
    <2>1. stage = "attach-members" /\ AfterAttach[stage] = "forget"
        BY <1>6, <1>a, Zenon DEF AttachReplicas, AfterAttach, SteadyStages
    <2>2. ToAttach = {}
        BY <2>1, NothingToDo, Zenon
    <2>3. PICK done \in SUBSET ToAttach :
            /\ masterOf' = [p \in Pod |-> IF p \in done THEN FindShardPrimary(p[1])
                                          ELSE masterOf[p]]
            /\ open' = open \ done
            /\ stage' \in {AfterAttach[stage], "idle"}
        BY <1>6, <1>b, Zenon DEF AttachReplicas, Crash
    <2>4. done = {}
        BY <2>2, <2>3, Zenon
    <2>5. masterOf' = masterOf /\ open' = open
        BY <2>3, <2>4, Zenon DEF Basics, ClusterOK
    <2>6. UNCHANGED <<kubeVars, member, count>>
        BY <1>6, Zenon DEF AttachReplicas
    <2> QED BY <2>1, <2>3, <2>5, <2>6, <1>c, Zenon DEF clusterVars, SteadyStages
<1>7. CASE ForgetStaleNodes
    <2>1. stage = "forget"
        BY <1>7, <1>a, Zenon DEF ForgetStaleNodes, SteadyStages
    <2>2. Stale = {}
        BY <2>1, NothingToDo, Zenon
    <2>3. /\ member' = member \ Stale /\ stage' = "status"
          /\ UNCHANGED <<kubeVars, masterOf, count, open>>
        BY <1>7, <2>1, <1>b, Zenon DEF ForgetStaleNodes, Forget
    <2> QED BY <2>1, <2>2, <2>3, <1>c, Zenon DEF clusterVars, SteadyStages
<1>8. CASE Refresh \/ Publish
    BY <1>8, <1>b, <1>c, Zenon DEF Refresh, Publish, SteadyStages
<1>9. CASE SeedLost
    BY <1>9, <1>a, <1>b, <1>c, Zenon DEF SeedLost, SteadyStages
<1>10. CASE OperatorCrash
    BY <1>10, <1>b, <1>c, Zenon DEF OperatorCrash, Crash, SteadyStages
<1>11. ~(AddFinalizer \/ DeleteOwnedPVCs \/ RemoveFinalizer \/ FormMeet \/ AddSlots \/ RepairSlots
          \/ ScaleOutJoin \/ Fill \/ FillNext \/ ScaleIn \/ DeleteShardPVCs)
    BY <1>a, Zenon DEF AddFinalizer, DeleteOwnedPVCs, RemoveFinalizer, FormMeet, AddSlots,
       RepairSlots, ScaleOutJoin, Fill, FillNext, ScaleIn, DeleteShardPVCs, SteadyStages
<1>12. ~(User \/ Kubernetes \/ Outage \/ Failover)
    BY Zenon DEF User, EditSpec, DeleteResource, Kubernetes, CollectGarbage, PodStart, PodStop,
       Outage, Failover, passVars
<1> QED BY <1>1, <1>2, <1>3, <1>4, <1>5, <1>6, <1>7, <1>8, <1>9, <1>10, <1>11, <1>12, Zenon
       DEF Next, Operator

\* reconcileCluster, reconcileMembership: in every behaviour, with edits, crashes, lost pods
\* and failovers, a pass over a cluster that has the topology the pass has read plans nothing
\* and changes neither a StatefulSet, a volume nor the cluster.
THEOREM ConvergedStaysPut == Spec => ConvergedIsFixed
<1>1. Basics /\ [Next]_vars
        => [AtRest /\ stage' # stage
             => /\ UNCHANGED <<sts, volumes, clusterVars>>
                /\ stage' \in SteadyStages
                /\ stage = "observe" => status' = status]_vars
    BY AtRestStep, Zenon
<1> QED BY <1>1, BasicsAlways, PTL DEF Spec, ConvergedIsFixed
=============================================================================
