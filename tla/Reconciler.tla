----------------------------- MODULE Reconciler -----------------------------
(***************************************************************************)
(* The reconcile loop of internal/controller: one pass reads the resource, *)
(* ensures the StatefulSets, waits for the pods, observes the cluster,     *)
(* decides, acts and publishes the status. Between any two of its steps    *)
(* the spec may be edited, pods come and go, replicas take over, and the   *)
(* operator may fail or be restarted: it keeps nothing, the next pass      *)
(* starts again from what it reads.                                        *)
(*                                                                         *)
(* Slots are counted, not named: the slot mover is one step that moves a   *)
(* number of slots or fails part-way (SlotMover has its commands). The     *)
(* nodes agree on who owns how much.                                       *)
(***************************************************************************)
EXTENDS Slots, Status, Topology, FiniteSetsExt

CONSTANTS
    Sizes,          \* shard counts that may be declared
    ReplicaChoices, \* replicas per shard that may be declared
    BatchSlots,     \* drainBatchSlots: slots moved per pass of a drain
    EditKinds,      \* the fields that may be edited together
    MayDelete,      \* whether the resource may be deleted
    MaxEdits,       \* bound: the last generation of the spec that is edited
    MaxCrashes,     \* bound: operator crashes and failed commands
    MaxOutages      \* bound: pods lost

\* What the API server stores for a spec that does not give the number of replicas.
DefaultReplicas == 1

ASSUME ReconcilerAssumption ==
    /\ IsFiniteSet(Sizes) /\ Sizes # {} /\ Sizes \subseteq Nat \ {0}
    /\ IsFiniteSet(ReplicaChoices) /\ ReplicaChoices # {} /\ ReplicaChoices \subseteq Nat
    /\ 0 \in ReplicaChoices => DefaultReplicas \in ReplicaChoices
    /\ BatchSlots \in Nat \ {0}
    /\ EditKinds \subseteq SUBSET {"shards", "replicas"}
    /\ MayDelete \in BOOLEAN
    /\ MaxEdits \in Nat /\ MaxCrashes \in Nat /\ MaxOutages \in Nat

Shard == 0..Max(Sizes) - 1
Pod == Shard \X (0..Max(ReplicaChoices))
NoPod == <<>>
Seed == <<0, 0>>

VARIABLES
    spec,       \* the declared topology as the API server stores it, and its generation
    object,     \* the resource: without its finalizer, with it, being deleted, gone
    status,     \* the status of the resource
    sts,        \* sts[i]: pods the StatefulSet of shard i asks for, 0 if there is none
    volumes,    \* pods that have a volume claim: a node's identity and data
    up,         \* pods that run and can be reached
    doomed,     \* running pods whose StatefulSet has been deleted
    late,       \* history: volumes created after those of a deleted resource were listed
    member,     \* pods whose nodes the cluster knows
    masterOf,   \* the pod a node replicates, NoPod for a primary
    count,      \* the number of slots a node owns
    open,       \* nodes with a slot that an interrupted migration left open
    stage,      \* the operator's next step
    cr,         \* the spec this pass has read
    at,         \* the shard at hand in a loop of the pass
    report,     \* what the pass has found for the status
    crashes, outages

kubeVars == <<sts, volumes, up, doomed, late>>
clusterVars == <<member, masterOf, count, open>>
passVars == <<stage, cr, at, report>>
vars == <<spec, object, status, kubeVars, clusterVars, passVars, crashes, outages>>

Specs == [shards : Sizes, replicas : ReplicaChoices, minReplicas : 0..Max(ReplicaChoices),
          generation : Nat]

NoSpec == [shards |-> 0]
NoReport == [generation |-> 0]

Stages == {"idle", "finalize", "reclaim", "unfinalize", "ensure", "gate", "observe", "form",
           "addslots", "attach-form", "repair", "join", "attach-join", "fill", "attach-fill", "sweep", "drain", "pvcs", "members",
           "attach-members", "forget", "status", "publish"}

TypeOK ==
    /\ spec \in Specs /\ cr \in Specs \cup {NoSpec}
    /\ object \in {"new", "live", "deleting", "gone"}
    /\ status \in Statuses
    /\ sts \in [Shard -> 0..Max(ReplicaChoices) + 1]
    /\ doomed \subseteq up /\ up \subseteq Pod
    /\ late \subseteq volumes /\ volumes \subseteq Pod
    /\ member \subseteq Pod
    /\ masterOf \in [Pod -> Pod \cup {NoPod}]
    /\ count \in [Pod -> Nat]
    /\ open \subseteq Pod
    /\ stage \in Stages /\ at \in 0..Max(Sizes)
    /\ report \in Reports \cup {NoReport}
    /\ crashes \in 0..MaxCrashes /\ outages \in 0..MaxOutages

\* A resource that the operator has not seen yet. It may have been edited already.
InitResource ==
    /\ spec \in [shards : Sizes, replicas : ReplicaChoices, minReplicas : 0..Max(ReplicaChoices),
                 generation : 1..MaxEdits + 1]
    /\ spec.minReplicas <= spec.replicas
    /\ object = "new" /\ status = NoStatus
    /\ sts = [i \in Shard |-> 0]
    /\ volumes = {} /\ up = {} /\ doomed = {} /\ late = {} /\ member = {}
    /\ masterOf = [p \in Pod |-> NoPod]
    /\ count = [p \in Pod |-> 0]
    /\ open = {}
    /\ stage = "idle" /\ cr = NoSpec /\ at = 0 /\ report = NoReport

Init == InitResource /\ crashes = 0 /\ outages = 0

-----------------------------------------------------------------------------
\* allEndpoints: the pods of the desired shards.
AllPods == {p \in Pod : p[1] < cr.shards /\ p[2] <= cr.replicas}

\* Primaries that own slots in the seed's reply: summarize counts these as shards.
SlotOwners == {p \in member : masterOf[p] = NoPod /\ count[p] > 0}

Assigned == MapThenSumSet(LAMBDA p : count[p], member)

\* cluster_state is ok and every slot assigned. A lost primary shows only once the
\* others have noticed.
SlotsCovered ==
    IF Assigned # TotalSlots THEN {FALSE}
    ELSE IF SlotOwners \subseteq up THEN {TRUE} ELSE BOOLEAN

\* collectOpenSlots asks every node, but skips those it cannot reach.
OpenSlots == open \cap member \cap up # {}

\* findShardPrimary: the pod that is a primary and owns slots, or else ordinal 0.
FindShardPrimary(i) ==
    LET owners == {j \in 0..cr.replicas : <<i, j>> \in up /\ <<i, j>> \in SlotOwners}
    IN  IF owners # {} THEN <<i, Min(owners)>>
        ELSE IF <<i, 0>> \in up THEN <<i, 0>> ELSE NoPod

Departing == {i \in Shard : i >= cr.shards /\ sts[i] > 0}

\* idx[id].SlotCount(): none for an id that is not in the reply.
SlotCount(p) == IF p \in member THEN count[p] ELSE 0

\* Mutant of Stale: the declared topology stands for the StatefulSets.
StaleUndeclared == {p \in member : p[1] >= cr.shards \/ p[2] > cr.replicas}

\* Nodes whose pod belongs to no existing StatefulSet.
Stale == {p \in member : sts[p[1]] = 0 \/ p[2] > cr.replicas}

\* The local variables are dead once a pass has ended.
Goto(next) ==
    /\ stage' = next
    /\ IF next = "idle" THEN cr' = NoSpec /\ at' = 0 /\ report' = NoReport
       ELSE UNCHANGED <<cr, at, report>>

\* An error or a crash ends the pass.
Crash == crashes < MaxCrashes /\ crashes' = crashes + 1 /\ Goto("idle")

-----------------------------------------------------------------------------
\* Mutant of ReadResource: the finalizer is left to a later pass.
ReadResourceUnguarded ==
    /\ stage = "idle" /\ object # "gone"
    /\ stage' = IF object = "deleting" THEN "reclaim" ELSE "ensure"
    /\ cr' = spec
    /\ UNCHANGED <<spec, object, status, kubeVars, clusterVars, at, report, crashes, outages>>

\* Reconcile reads the resource, if it still exists.
ReadResource ==
    /\ stage = "idle" /\ object # "gone"
    /\ stage' = CASE object = "deleting" -> "reclaim" [] object = "new" -> "finalize"
                  [] OTHER -> "ensure"
    /\ cr' = spec
    /\ UNCHANGED <<spec, object, status, kubeVars, clusterVars, at, report, crashes, outages>>

\* What an update of the whole object makes of its spec: no replicas are left out of the
\* JSON, the API server puts the default in their place, and the spec has changed.
Stored(s) ==
    IF s.replicas = 0 THEN [s EXCEPT !.replicas = DefaultReplicas, !.generation = @ + 1] ELSE s

\* An update of the object is refused if it has changed since it was read. The pass goes
\* on with the object as it was stored.
AddFinalizer ==
    /\ stage = "finalize"
    /\ IF object = "new" /\ spec = cr
       THEN /\ object' = "live" /\ spec' = Stored(cr) /\ cr' = Stored(cr)
            /\ stage' = "ensure" /\ UNCHANGED <<at, report>>
       ELSE UNCHANGED <<object, spec>> /\ Goto("idle")
    /\ UNCHANGED <<status, kubeVars, clusterVars, crashes, outages>>

\* Volumes are deleted one by one; the loop ends with the last one or with a failure. A
\* volume that a pod still uses goes when the pod stops: a pod that starts finds none.
DeleteVolumes(pods, next) ==
    \E done \in SUBSET pods :
        /\ volumes' = volumes \ done
        /\ \/ done = pods /\ Goto(next) /\ UNCHANGED crashes
           \/ done # pods /\ Crash

\* reconcileDelete: every volume of the instance ...
DeleteOwnedPVCs ==
    /\ stage = "reclaim"
    /\ DeleteVolumes(volumes, "unfinalize")
    /\ late' = {}
    /\ UNCHANGED <<spec, object, status, sts, up, doomed, clusterVars, outages>>

\* Mutant of RemoveFinalizer: the pods are to stop first.
RemoveFinalizerLast ==
    /\ stage = "unfinalize"
    /\ object' = IF spec = cr /\ up = {} THEN "gone" ELSE object
    /\ Goto("idle")
    /\ UNCHANGED <<spec, status, kubeVars, clusterVars, crashes, outages>>

\* ... then the finalizer goes, and the object with it, whatever spec is stored last.
RemoveFinalizer ==
    /\ stage = "unfinalize"
    /\ object' = IF spec = cr THEN "gone" ELSE object
    /\ Goto("idle")
    /\ UNCHANGED <<spec, status, kubeVars, clusterVars, crashes, outages>>

\* Mutant of EnsureStatefulSets: there is a pod more than the primary and its replicas.
EnsureStatefulSetsExtra ==
    /\ stage = "ensure"
    /\ \E k \in 0..cr.shards :
        /\ sts' = [i \in Shard |-> IF i < k THEN cr.replicas + 2 ELSE sts[i]]
        /\ \/ k = cr.shards /\ Goto("gate") /\ UNCHANGED crashes
           \/ k < cr.shards /\ Crash
    /\ UNCHANGED <<spec, object, status, volumes, up, doomed, late, clusterVars, outages>>

\* Mutant of EnsureStatefulSets: a StatefulSet that exists keeps its number of pods.
EnsureStatefulSetsOnce ==
    /\ stage = "ensure"
    /\ \E k \in 0..cr.shards :
        /\ sts' = [i \in Shard |-> IF i < k /\ sts[i] = 0 THEN cr.replicas + 1 ELSE sts[i]]
        /\ \/ k = cr.shards /\ Goto("gate") /\ UNCHANGED crashes
           \/ k < cr.shards /\ Crash
    /\ UNCHANGED <<spec, object, status, volumes, up, doomed, late, clusterVars, outages>>

\* ensureStatefulSets: one StatefulSet for each desired shard.
EnsureStatefulSets ==
    /\ stage = "ensure"
    /\ \E k \in 0..cr.shards :
        /\ sts' = [i \in Shard |-> IF i < k THEN cr.replicas + 1 ELSE sts[i]]
        /\ \/ k = cr.shards /\ Goto("gate") /\ UNCHANGED crashes
           \/ k < cr.shards /\ Crash
    /\ UNCHANGED <<spec, object, status, volumes, up, doomed, late, clusterVars, outages>>

\* shardsReady: every desired shard has exactly its pods ready.
ShardsReady ==
    \A i \in 0..cr.shards - 1 :
        Cardinality({p \in up \ doomed : p[1] = i}) = cr.replicas + 1

Gate ==
    /\ stage = "gate"
    /\ IF ShardsReady THEN Goto("observe") /\ UNCHANGED status
       ELSE Goto("idle") /\ status' = SetPhase(status, "Provisioning")
    /\ UNCHANGED <<spec, object, kubeVars, clusterVars, crashes, outages>>

\* Mutant of Observations: the shards counted are those whose pod 0 owns slots.
ObservationsByOrdinal ==
    {[formed |-> Assigned > 0, covered |-> c /\ ~OpenSlots,
      primaries |-> Cardinality({p \in SlotOwners : p[2] = 0}),
      replicaCounts |-> {Cardinality({q \in member : masterOf[q] = p}) : p \in SlotOwners}]
        : c \in SlotsCovered}

\* summarize
Observations ==
    {[formed |-> Assigned > 0, covered |-> c /\ ~OpenSlots, primaries |-> Cardinality(SlotOwners),
      replicaCounts |-> {Cardinality({q \in member : masterOf[q] = p}) : p \in SlotOwners}]
        : c \in SlotsCovered}

\* reconcileCluster's plan: a StatefulSet in excess turns any plan but forming and
\* scaling out into scaling in.
PlanFor(o) ==
    LET kind == Decide(cr, o)
    IN  IF Departing # {} /\ kind \notin {"Form", "ScaleOutShards"} THEN "ScaleInShards"
        ELSE kind

FirstStage(kind) ==
    CASE kind = "Form" -> "form"
      [] kind = "Repair" -> "repair"
      [] kind = "ScaleOutShards" -> "join"
      [] kind = "ScaleInShards" -> "sweep"
      [] OTHER -> "members"

PhaseOf(kind) ==
    CASE kind = "Form" -> "Forming"
      [] kind = "ScaleReplicas" -> "ScalingReplicas"
      [] OTHER -> "Resharding"

Observe ==
    /\ stage = "observe" /\ Seed \in up
    /\ \E o \in Observations :
        /\ stage' = FirstStage(PlanFor(o))
        /\ at' = IF PlanFor(o) = "ScaleOutShards" THEN o.primaries ELSE 0
        /\ status' = IF PlanFor(o) = "None" THEN status
                     ELSE SetPhase(status, PhaseOf(PlanFor(o)))
    /\ UNCHANGED <<spec, object, kubeVars, clusterVars, cr, report, crashes, outages>>

-----------------------------------------------------------------------------
\* CLUSTER MEET from the seed to each of the pods in turn.
Meet(pods, next) ==
    /\ \E met \in SUBSET {p \in pods : Seed \in up /\ p \in up} :
        /\ member' = member \cup met
        /\ \/ met = pods /\ Goto(next) /\ UNCHANGED crashes
           \/ ~(pods \cup {Seed} \subseteq up) /\ met # pods /\ Goto("idle") /\ UNCHANGED crashes
           \/ met # pods /\ Crash
    /\ UNCHANGED <<spec, object, status, kubeVars, masterOf, count, open, outages>>

\* attachReplicas: the reachable pods of the desired shards that do not replicate
\* their shard's primary yet.
ToAttach ==
    {p \in AllPods \cap up :
        /\ FindShardPrimary(p[1]) \notin {NoPod, p}
        /\ ~(p \in member /\ masterOf[p] = FindShardPrimary(p[1]))}

\* CLUSTER REPLICATE is refused by a node with slots and for a target that is a replica.
ReplicateOk(p) ==
    /\ count[p] = 0 /\ p \in member
    /\ FindShardPrimary(p[1]) \in member /\ masterOf[FindShardPrimary(p[1])] = NoPod

AfterAttach == [s \in {"attach-form", "attach-join", "attach-fill", "attach-members"} |->
    CASE s = "attach-join" -> "fill" [] s = "attach-members" -> "forget" [] OTHER -> "status"]

\* The order in which attachReplicas visits the pods.
Before(p, q) == p[1] < q[1] \/ (p[1] = q[1] /\ p[2] < q[2])

\* The replicas are attached one after the other, up to the first one that is refused or
\* to the failure that ends the pass. A node that becomes a replica closes its slots.
AttachReplicas ==
    /\ stage \in DOMAIN AfterAttach /\ (stage = "attach-members" \/ Seed \in up)
    /\ LET accepted == {p \in ToAttach :
                           ReplicateOk(p) /\ \A q \in ToAttach : Before(q, p) => ReplicateOk(q)}
       IN  \E done \in SUBSET accepted :
            /\ \A p \in done, q \in accepted : Before(q, p) => q \in done
            /\ masterOf' = [p \in Pod |-> IF p \in done THEN FindShardPrimary(p[1])
                                          ELSE masterOf[p]]
            /\ open' = open \ done
            /\ \/ done = accepted /\ UNCHANGED crashes
                  /\ Goto(IF done = ToAttach THEN AfterAttach[stage] ELSE "idle")
               \/ done # accepted /\ Crash
    /\ UNCHANGED <<spec, object, status, kubeVars, member, count, outages>>

\* formCluster: meet all pods, then give pod 0 of each shard its range.
FormMeet == stage = "form" /\ Meet(AllPods, "addslots")

\* Mutant of AddSlots: each shard gets the share that scaleOut would give it.
AddSlotsPerShard ==
    /\ stage = "addslots"
    /\ IF at < cr.shards
       THEN IF <<at, 0>> \in up
            THEN /\ count' = [count EXCEPT ![<<at, 0>>] = TotalSlots \div cr.shards]
                 /\ at' = at + 1 /\ UNCHANGED <<stage, cr, report>>
            ELSE Goto("idle") /\ UNCHANGED count
       ELSE Goto("attach-form") /\ UNCHANGED count
    /\ UNCHANGED <<spec, object, status, kubeVars, member, masterOf, open, crashes, outages>>

AddSlots ==
    /\ stage = "addslots"
    /\ IF at < cr.shards
       THEN IF <<at, 0>> \in up
            THEN /\ count' = [count EXCEPT ![<<at, 0>>] = TargetCounts(cr.shards)[at]]
                 /\ at' = at + 1 /\ UNCHANGED <<stage, cr, report>>
            ELSE Goto("idle") /\ UNCHANGED count
       ELSE Goto("attach-form") /\ UNCHANGED count
    /\ UNCHANGED <<spec, object, status, kubeVars, member, masterOf, open, crashes, outages>>

\* RepairSlots finalises the open slots of the primaries it reaches. It leaves a slot that
\* has no owner as it is.
RepairSlots ==
    /\ stage = "repair" /\ Seed \in up
    /\ LET reached == {p \in member \cap up : masterOf[p] = NoPod}
       IN  open' \in IF Assigned = TotalSlots THEN {open \ reached}
                     ELSE {open \ closed : closed \in SUBSET reached}
    /\ Goto("status")
    /\ UNCHANGED <<spec, object, status, kubeVars, member, masterOf, count, crashes, outages>>

-----------------------------------------------------------------------------
Moved(f, t, n) == [count EXCEPT ![f] = @ - n, ![t] = @ + n]

\* MoveSlots tells every primary the cluster knows who owns the slot, and MIGRATE is refused
\* by a primary with too few replicas. A call that fails leaves what it had moved, and
\* possibly a slot open at either end.
MoveSlots(f, t, n, next) ==
    LET movable == {f, t} \subseteq member \cap up /\ masterOf[t] = NoPod
        allHear == \A p \in member : masterOf[p] = NoPod => p \in up
        inSync == Cardinality({q \in member \cap up : masterOf[q] = t}) >= cr.minReplicas
    IN  /\ \/ /\ movable /\ allHear
              /\ count' = Moved(f, t, n) /\ Goto(next) /\ UNCHANGED <<open, crashes>>
           \/ /\ movable /\ \E m \in 0..n - 1 : count' = Moved(f, t, m)
              /\ open' \in {open \cup ends : ends \in SUBSET {f, t}} /\ Crash
           \/ /\ movable /\ ~(allHear /\ inSync)
              /\ \E m \in IF allHear THEN 0..n - 1 ELSE {0, 1} : count' = Moved(f, t, m)
              /\ open' \in {open \cup ends : ends \in SUBSET {f, t}} /\ Goto("idle") /\ UNCHANGED crashes
           \/ ~movable /\ Goto("idle") /\ UNCHANGED <<count, open, crashes>>
        /\ UNCHANGED <<spec, object, status, kubeVars, member, masterOf, outages>>

\* scaleOut: the shards from the number of slot owners on join.
ScaleOutJoin == stage = "join" /\ Meet({p \in AllPods : p[1] >= at}, "attach-join")

FattestPrimaries(exclude) ==
    {p \in SlotOwners \ {exclude} :
        \A q \in SlotOwners \ {exclude} : count[q] <= count[p]}

PerShard == TotalSlots \div cr.shards

\* ... and pod 0 of each is filled up to its share.
Fill ==
    /\ stage = "fill" /\ Seed \in up /\ at < cr.shards
    /\ SlotCount(<<at, 0>>) < PerShard /\ FattestPrimaries(<<at, 0>>) # {}
    /\ <<at, 0>> \in up
    /\ \E f \in FattestPrimaries(<<at, 0>>) :
        MoveSlots(f, <<at, 0>>, Min({PerShard - SlotCount(<<at, 0>>), count[f]}), "fill")

FillNext ==
    /\ stage = "fill" /\ Seed \in up
    /\ IF at = cr.shards THEN Goto("attach-fill")
       ELSE IF <<at, 0>> \notin up THEN Goto("idle")
       ELSE /\ SlotCount(<<at, 0>>) >= PerShard \/ FattestPrimaries(<<at, 0>>) = {}
            /\ at' = at + 1 /\ UNCHANGED <<stage, cr, report>>
    /\ UNCHANGED <<spec, object, status, kubeVars, clusterVars, crashes, outages>>

-----------------------------------------------------------------------------
\* forgetEverywhere, for each of the pods.
Forget(pods) == member' = member \ pods

\* forgetStaleNodes, first in scaleIn and last in reconcileMembership.
ForgetStaleNodes ==
    /\ stage = "forget" \/ (stage = "sweep" /\ Seed \in up)
    /\ Forget(Stale)
    /\ Goto(IF stage = "sweep" THEN "drain" ELSE "status")
    /\ UNCHANGED <<spec, object, status, kubeVars, masterOf, count, open, crashes, outages>>

\* scaleIn, for the first departing shard: move one batch of its primary's slots to the
\* first surviving primary ...
DrainBatch(i) ==
    LET d == FindShardPrimary(i)
        survivors == {s \in 0..cr.shards - 1 : FindShardPrimary(s) \notin {NoPod, d}}
    IN  /\ SlotCount(d) > 0
        /\ IF survivors = {}
           THEN Goto("idle") /\ UNCHANGED <<spec, object, status, kubeVars, clusterVars, crashes, outages>>
           ELSE MoveSlots(d, FindShardPrimary(Min(survivors)), Min({BatchSlots, SlotCount(d)}), "status")

\* Mutant of DeleteShard: the shard is deleted after one batch.
DeleteShardEarly(i) ==
    /\ SlotCount(FindShardPrimary(i)) <= BatchSlots
    /\ Forget({<<i, j>> : j \in 0..cr.replicas} \cap up)
    /\ sts' = [sts EXCEPT ![i] = 0]
    /\ doomed' = doomed \cup {p \in up : p[1] = i}
    /\ stage' = "pvcs" /\ at' = i
    /\ UNCHANGED <<spec, object, status, volumes, up, late, masterOf, count, open, cr, report, crashes, outages>>

\* ... or, if that owns none, forget the shard's nodes and delete its StatefulSet.
DeleteShard(i) ==
    /\ SlotCount(FindShardPrimary(i)) = 0
    /\ Forget({<<i, j>> : j \in 0..cr.replicas} \cap up)
    /\ sts' = [sts EXCEPT ![i] = 0]
    /\ doomed' = doomed \cup {p \in up : p[1] = i}
    /\ stage' = "pvcs" /\ at' = i
    /\ UNCHANGED <<spec, object, status, volumes, up, late, masterOf, count, open, cr, report, crashes, outages>>

ScaleIn ==
    /\ stage = "drain" /\ Seed \in up
    /\ IF Departing = {}
       THEN Goto("status") /\ UNCHANGED <<spec, object, status, kubeVars, clusterVars, crashes, outages>>
       ELSE DrainBatch(Min(Departing)) \/ DeleteShard(Min(Departing))

DeleteShardPVCs ==
    /\ stage = "pvcs"
    /\ DeleteVolumes({p \in volumes : p[1] = at}, "drain")
    /\ UNCHANGED <<spec, object, status, sts, up, doomed, late, clusterVars, outages>>

\* reconcileMembership meets the pods that are missing, then attaches and forgets.
Members == stage = "members" /\ Meet(AllPods \ member, "attach-members")

-----------------------------------------------------------------------------
\* The state is read again for the status ...
Refresh ==
    /\ stage = "status" /\ Seed \in up
    /\ \E c \in SlotsCovered :
        report' = [ready |-> Cardinality({i \in 0..cr.shards - 1 :
                                 \E j \in 0..cr.replicas : <<i, j>> \in SlotOwners}),
                   actual |-> Cardinality(SlotOwners), desired |-> cr.shards,
                   covered |-> c, open |-> OpenSlots, generation |-> cr.generation]
    /\ stage' = "publish"
    /\ UNCHANGED <<spec, object, status, kubeVars, clusterVars, cr, at, crashes, outages>>

\* ... and written into the latest version of the object.
Publish ==
    /\ stage = "publish"
    /\ status' = UpdateStatus(status, report, spec.generation)
    /\ Goto("idle")
    /\ UNCHANGED <<spec, object, kubeVars, clusterVars, crashes, outages>>

\* These steps begin by reading the state from the seed: without it the pass ends, but for
\* the repair and the sweep, whose errors are ignored.
SeedLost ==
    /\ stage \in {"observe", "attach-form", "repair", "attach-join", "fill", "attach-fill",
                  "sweep", "drain", "status"}
    /\ Seed \notin up
    /\ Goto(CASE stage = "repair" -> "status" [] stage = "sweep" -> "drain" [] OTHER -> "idle")
    /\ UNCHANGED <<spec, object, status, kubeVars, clusterVars, crashes, outages>>

Operator ==
    \/ ReadResource \/ AddFinalizer \/ DeleteOwnedPVCs \/ RemoveFinalizer
    \/ EnsureStatefulSets \/ Gate \/ Observe
    \/ FormMeet \/ AddSlots \/ AttachReplicas \/ RepairSlots
    \/ ScaleOutJoin \/ Fill \/ FillNext
    \/ ForgetStaleNodes \/ ScaleIn \/ DeleteShardPVCs \/ Members
    \/ Refresh \/ Publish \/ SeedLost

OperatorCrash ==
    /\ stage # "idle" /\ Crash
    /\ UNCHANGED <<spec, object, status, kubeVars, clusterVars, outages>>

-----------------------------------------------------------------------------
\* The user changes the declared topology.
EditSpec ==
    /\ object # "gone" /\ spec.generation <= MaxEdits
    /\ \E n \in Sizes, r \in ReplicaChoices :
        /\ spec.minReplicas <= r
        /\ {f \in {"shards", "replicas"} : IF f = "shards" THEN n # spec.shards
                                           ELSE r # spec.replicas} \in EditKinds
        /\ spec' = [spec EXCEPT !.shards = n, !.replicas = r, !.generation = @ + 1]
    /\ UNCHANGED <<object, status, kubeVars, clusterVars, passVars, crashes, outages>>

\* The user deletes the resource: with a finalizer on it, it stays until that is removed.
DeleteResource ==
    /\ MayDelete
    /\ \/ object = "new" /\ object' = "gone"
       \/ object = "live" /\ object' = "deleting"
    /\ UNCHANGED <<spec, status, kubeVars, clusterVars, passVars, crashes, outages>>

\* Kubernetes deletes what a deleted resource owned, in its own time.
CollectGarbage ==
    /\ object = "gone" /\ \E i \in Shard : sts[i] > 0
    /\ sts' = [i \in Shard |-> 0] /\ doomed' = up
    /\ UNCHANGED <<spec, object, status, volumes, up, late, clusterVars, passVars, crashes, outages>>

\* The StatefulSet controller starts a pod. On a new volume the node is a new one.
PodStart ==
    /\ \E p \in Pod \ up :
        /\ p[2] < sts[p[1]]
        /\ up' = up \cup {p} /\ volumes' = volumes \cup {p}
        /\ IF p \in volumes THEN UNCHANGED <<member, masterOf, count, open, late>>
           ELSE /\ member' = member \ {p} /\ open' = open \ {p}
                /\ masterOf' = [masterOf EXCEPT ![p] = NoPod]
                /\ count' = [count EXCEPT ![p] = 0]
                /\ late' = IF object = "gone" \/ stage = "unfinalize" THEN late \cup {p} ELSE late
    /\ UNCHANGED <<spec, object, status, sts, doomed, passVars, crashes, outages>>

PodStop ==
    /\ \E p \in up :
        /\ p \in doomed \/ p[2] >= sts[p[1]]
        /\ up' = up \ {p} /\ doomed' = doomed \ {p}
    /\ UNCHANGED <<spec, object, status, sts, volumes, late, clusterVars, passVars, crashes, outages>>

\* A pod is lost or cut off for a while.
Outage ==
    /\ outages < MaxOutages /\ outages' = outages + 1
    /\ \E p \in up \ doomed : up' = up \ {p}
    /\ UNCHANGED <<spec, object, status, sts, volumes, doomed, late, clusterVars, passVars, crashes>>

\* A majority of the slot owners promotes a replica of a lost primary.
Failover ==
    /\ \E p \in SlotOwners \ up, q \in member \cap up :
        /\ masterOf[q] = p
        /\ 2 * Cardinality(SlotOwners \cap up) > Cardinality(SlotOwners)
        /\ count' = [count EXCEPT ![p] = 0, ![q] = count[p]]
        /\ masterOf' = [r \in Pod |-> IF r = q THEN NoPod
                                      ELSE IF r = p \/ masterOf[r] = p THEN q ELSE masterOf[r]]
        /\ open' = open \ {p}
    /\ UNCHANGED <<spec, object, status, kubeVars, member, passVars, crashes, outages>>

Kubernetes == CollectGarbage \/ PodStart \/ PodStop

User == EditSpec \/ DeleteResource

Next == Operator \/ OperatorCrash \/ User \/ Kubernetes \/ Outage \/ Failover

Spec == Init /\ [][Next]_vars

\* Every pass is requeued, pods are started and stopped, replicas take over.
Fairness == WF_vars(Operator) /\ WF_vars(Kubernetes) /\ WF_vars(Failover)

-----------------------------------------------------------------------------
\* The pods the StatefulSets ask for.
Asked == {p \in Pod : p[2] < sts[p[1]]}

\* The declared topology is in place: the declared pods exist and are the members of the
\* cluster, one of each shard is a running primary and the others replicate it, and the
\* primaries serve every slot.
Converged ==
    /\ \A i \in Shard : sts[i] = IF i < spec.shards THEN spec.replicas + 1 ELSE 0
    /\ member = Asked /\ SlotOwners \subseteq up /\ Cardinality(SlotOwners) = spec.shards
    /\ \A p \in Asked : \E q \in SlotOwners : q[1] = p[1] /\ (p = q \/ masterOf[p] = q)
    /\ Assigned = TotalSlots /\ open \cap member = {}

\* Reconcile: once the edits and the failures have ended, the passes bring the cluster to
\* the topology of the spec as it is stored (which the finalizer's update may have changed),
\* and it stays there until the resource is deleted.
Converges == <>[](Converged \/ object \in {"deleting", "gone"})

\* The steps of a pass that finds nothing to do.
SteadyStages == {"idle", "ensure", "gate", "observe", "members", "attach-members", "forget",
                 "status", "publish"}

\* Such a pass, which has read the spec as it is, over a cluster that is as declared.
AtRest ==
    /\ object = "live" /\ stage \in SteadyStages
    /\ stage = "idle" \/ cr = spec
    /\ Converged

\* reconcileCluster, reconcileMembership: a pass over a cluster that has the topology the
\* pass has read plans nothing, sends no command that changes a StatefulSet, a volume or the
\* cluster, and goes on to publish its status, whichever pod of a shard is its primary by
\* now, whichever replicas are away and wherever the pass is cut short.
ConvergedIsFixed ==
    [][AtRest /\ stage' # stage
        => /\ UNCHANGED <<sts, volumes, clusterVars>>
           /\ stage' \in SteadyStages
           /\ stage = "observe" => status' = status]_vars

\* scaleIn, deleteShard: while the resource exists, a shard's StatefulSet is deleted only
\* when none of the shard's nodes owns a slot.
DrainedBeforeDeleted ==
    [][object # "gone" => \A i \in Shard : sts[i] > 0 /\ sts'[i] = 0
                           => \A p \in Pod : p[1] = i => count[p] = 0]_vars

\* formCluster: when the last ADDSLOTS has succeeded the members of the cluster own every
\* slot, for no later pass assigns one that was left out, and no two shares differ by more
\* than a slot.
FormsEvenly ==
    [][stage = "addslots" /\ stage' = "attach-form"
        => /\ Assigned' = TotalSlots
           /\ \A p, q \in SlotOwners' : count'[p] <= count'[q] + 1]_vars

\* updateStatus: a Ready computed from the current spec is true, and stays true while
\* the passes that follow run: the declared number of shards serves every slot.
ReadyIsTruthful ==
    object = "live" /\ status.phase = "Ready" /\ status.computedFrom = spec.generation
        => /\ Assigned = TotalSlots /\ open \cap member = {}
           /\ Cardinality(SlotOwners) = spec.shards
           /\ \A p \in SlotOwners : p[1] < spec.shards

\* forgetStaleNodes, deleteShard: while the resource is in use, no node that owns slots
\* is removed from the cluster, whatever its role was when it was created.
OwnersKept ==
    [][object = "live" => \A p \in member \ member' : count[p] = 0]_vars

\* reconcileDelete: when the resource is gone, so are all its volumes, those that earlier
\* passes left behind included. Only a volume that a pod created while its StatefulSet
\* waited for the garbage collector can remain.
VolumesReclaimed == object = "gone" => volumes \subseteq late

\* A deleted resource goes, with its pods and StatefulSets, whatever pass the deletion
\* interrupts and however often the teardown fails.
Removed ==
    object = "deleting" ~> (object = "gone" /\ up = {} /\ \A i \in Shard : sts[i] = 0)

\* types.go: observedGeneration is the generation the status reflects, so a Ready that
\* carries the current generation is about the current spec.
ReadyReflectsSpec ==
    status.phase = "Ready" /\ status.observedGeneration = spec.generation
        => Cardinality(SlotOwners) = spec.shards
=============================================================================
