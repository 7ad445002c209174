--------------------------- MODULE RolloutProofs ----------------------------
(***************************************************************************)
(* A pod that was created from the current template runs the current       *)
(* configuration, whatever the number of shards, pods, edits and faults.   *)
(* The hash alone says nothing: what counts is that a spec gets to the     *)
(* ConfigMap before it gets to a template, to a template before it gets to *)
(* a pod, and that no pod starts with less than its template says.         *)
(***************************************************************************)
EXTENDS Rollout, TLAPS

\* The order in which a spec travels; each place is at most as new as the one before it.
Order ==
    /\ stage = "configmap" => configMap <= cr
    /\ stage = "statefulsets" => configMap = cr
    /\ \A i \in Shard : template[i] <= configMap
    /\ \A p \in Pod : revision[p] <= template[p[1]]
    /\ \A p \in up : revision[p] <= running[p] /\ running[p] <= configMap

RolloutInv == RolloutTypeOK /\ Order

\* A pod belongs to a shard.
LEMMA PodShard == \A p \in Pod : p[1] \in Shard
BY Zenon DEF Pod

\* Nothing exists before the first pass.
LEMMA InitInv == Init => RolloutInv
<1> SUFFICES ASSUME Init PROVE RolloutInv
    BY Zenon
<1>1. declared \in Seq(Choices) /\ Latest = 1
    BY RolloutAssumption DEF Init, Latest
<1>2. 0 \in Shard
    BY RolloutAssumption DEF Shard
<1>3. RolloutTypeOK
    BY <1>1, <1>2, RolloutAssumption DEF Init, RolloutTypeOK
<1>4. Order
    BY PodShard DEF Init, Order
<1> QED BY <1>3, <1>4, Zenon DEF RolloutInv

\* The operator writes the ConfigMap first, and what it writes is no older than what is there.
LEMMA OperatorInv == RolloutInv /\ (Operator \/ Abandon) => RolloutInv'
<1> SUFFICES ASSUME RolloutInv, Operator \/ Abandon PROVE RolloutInv'
    BY Zenon
<1> USE RolloutAssumption DEF RolloutInv
<1>1. Latest \in Nat /\ Latest' = Latest
    BY DEF RolloutTypeOK, Latest, Operator, ReadSpec, EnsureConfigMap, EnsureStatefulSet, Abandon
<1>2. 0 \in Shard
    BY DEF Shard
<1>3. CASE ReadSpec
    <2>1. RolloutTypeOK'
        BY <1>1, <1>3 DEF RolloutTypeOK, ReadSpec, objects, pods
    <2>2. Order'
        BY <1>1, <1>3 DEF RolloutTypeOK, Order, ReadSpec, objects, pods
    <2> QED BY <2>1, <2>2, Zenon
<1>4. CASE EnsureConfigMap
    <2>1. RolloutTypeOK'
        BY <1>1, <1>4, Zenon DEF RolloutTypeOK, EnsureConfigMap, pods
    <2>2. configMap <= configMap'
        BY <1>4, Zenon DEF EnsureConfigMap, Order
    <2>3. Order'
        BY <1>1, <1>4, <2>1, <2>2 DEF RolloutTypeOK, Order, EnsureConfigMap, pods
    <2> QED BY <2>1, <2>3, Zenon
<1>5. CASE EnsureStatefulSet
    <2>1. at' \in Shard
        <3>1. at \in Nat /\ NumShards \in Nat
            BY DEF RolloutTypeOK, Shard
        <3>2. (at + 1 < NumShards /\ at' = at + 1) \/ at' = 0
            BY <1>5, Zenon DEF EnsureStatefulSet
        <3> QED BY <1>2, <3>1, <3>2 DEF Shard
    <2>2. RolloutTypeOK'
        BY <1>1, <1>5, <2>1 DEF RolloutTypeOK, EnsureStatefulSet, pods
    <2>3. \A i \in Shard : template'[i] = (IF i = at THEN configMap ELSE template[i])
        BY <1>5, Zenon DEF RolloutTypeOK, Order, EnsureStatefulSet
    <2>4. \A i \in Shard : template[i] <= template'[i] /\ template'[i] <= configMap'
        BY <1>5, <2>3 DEF RolloutTypeOK, Order, EnsureStatefulSet
    <2>5. \A p \in Pod : revision'[p] <= template'[p[1]]
        <3> SUFFICES ASSUME NEW p \in Pod PROVE revision'[p] <= template'[p[1]]
            BY Zenon
        <3>1. revision[p] <= template[p[1]] /\ template[p[1]] <= template'[p[1]]
            BY <2>4, PodShard, Zenon DEF Order
        <3>2. revision' = revision
            BY <1>5, Zenon DEF EnsureStatefulSet, pods
        <3>3. p[1] \in Shard
            BY PodShard, Zenon
        <3>4. revision[p] \in Nat /\ template[p[1]] \in Nat
            <4>1. revision[p] \in 0..Latest /\ template[p[1]] \in 0..Latest
                BY <3>3, Zenon DEF RolloutTypeOK
            <4> QED BY <1>1, <4>1
        <3>5. template'[p[1]] \in Nat
            <4>1. template'[p[1]] \in 0..Latest
                BY <1>1, <2>2, <3>3, Zenon DEF RolloutTypeOK
            <4> QED BY <1>1, <4>1
        <3> QED BY <3>1, <3>2, <3>4, <3>5
    <2>6. Order'
        BY <1>5, <2>4, <2>5, Zenon DEF Order, EnsureStatefulSet, pods
    <2> QED BY <2>2, <2>6, Zenon
<1>6. CASE Abandon
    <2>1. RolloutTypeOK'
        BY <1>1, <1>2, <1>6 DEF RolloutTypeOK, Abandon, objects, pods
    <2>2. Order'
        BY <1>6, Zenon DEF Order, Abandon, objects, pods
    <2> QED BY <2>1, <2>2, Zenon
<1> QED BY <1>3, <1>4, <1>5, <1>6, Zenon DEF Operator

\* An edit makes everything that exists one older.
LEMMA EditInv == RolloutInv /\ Edit => RolloutInv'
<1> SUFFICES ASSUME RolloutInv, Edit PROVE RolloutInv'
    BY Zenon
<1>1. PICK s \in Choices : declared' = Append(declared, s)
    BY Zenon DEF Edit
<1>2. declared' \in Seq(Choices) /\ Latest' = Latest + 1 /\ Latest \in Nat
    BY <1>1 DEF RolloutInv, RolloutTypeOK, Latest
<1>3. 0..Latest \subseteq 0..Latest' /\ Latest' \in 1..MaxEdits + 1
    BY <1>2, RolloutAssumption DEF Edit, RolloutInv, RolloutTypeOK
<1>4. /\ template \in [Shard -> 0..Latest'] /\ revision \in [Pod -> 0..Latest']
      /\ running \in [Pod -> 0..Latest'] /\ cr \in 0..Latest' /\ configMap \in 0..Latest'
    BY <1>3, Zenon DEF RolloutInv, RolloutTypeOK
<1>5. RolloutTypeOK'
    BY <1>2, <1>3, <1>4, Zenon DEF RolloutInv, RolloutTypeOK, Edit, pass, objects, pods
<1>6. Order'
    BY Zenon DEF RolloutInv, Order, Edit, pass, objects, pods
<1> QED BY <1>5, <1>6, Zenon DEF RolloutInv

\* A pod starts with the ConfigMap, which is at least as new as the label it may take.
LEMMA PodInv ==
    ASSUME NEW p \in Pod
    PROVE  RolloutInv /\ (PodStart(p) \/ RollPod(p) \/ Evict(p) \/ RestartContainer(p)) => RolloutInv'
<1> SUFFICES ASSUME RolloutInv, PodStart(p) \/ RollPod(p) \/ Evict(p) \/ RestartContainer(p)
             PROVE  RolloutInv'
    BY Zenon
<1> USE RolloutAssumption DEF RolloutInv
<1>1. /\ Latest \in Nat /\ Latest' = Latest
      /\ UNCHANGED <<declared, stage, cr, at, configMap, template>>
    <2>1. UNCHANGED <<declared, stage, cr, at, configMap, template>>
        BY Zenon DEF PodStart, RollPod, Evict, RestartContainer, pass, objects
    <2>2. Latest \in Nat
        BY DEF RolloutTypeOK
    <2> QED BY <2>1, <2>2, Zenon DEF Latest
<1>2. p[1] \in Shard
    BY PodShard, Zenon
<1>3. CASE PodStart(p)
    <2>1. PICK r \in {template[p[1]], revision[p]} \ {0} : revision' = [revision EXCEPT ![p] = r]
        BY <1>3, Zenon DEF PodStart
    <2>2. r \in 0..Latest /\ r <= template[p[1]] /\ r <= configMap
        BY <1>1, <1>2, <2>1, SMTT(30) DEF RolloutTypeOK, Order
    <2>3. RolloutTypeOK'
        BY <1>1, <1>3, <2>1, <2>2, Zenon DEF RolloutTypeOK, PodStart
    <2>4. \A q \in Pod : revision'[q] <= template'[q[1]]
        BY <1>1, <2>1, <2>2, Zenon DEF RolloutTypeOK, Order
    <2>5. \A q \in up' : revision'[q] <= running'[q] /\ running'[q] <= configMap'
        BY <1>1, <1>3, <2>1, <2>2 DEF RolloutTypeOK, Order, PodStart
    <2>6. Order'
        BY <1>1, <2>4, <2>5, Zenon DEF Order
    <2> QED BY <2>3, <2>6, Zenon
<1>4. CASE RollPod(p)
    <2>1. RolloutTypeOK'
        <3>1. 0 \in 0..Latest
            BY <1>1
        <3>2. /\ revision' \in [Pod -> 0..Latest] /\ running' \in [Pod -> 0..Latest]
              /\ up' \subseteq Pod /\ faults' \in 0..MaxFaults
            BY <1>4, <3>1, Zenon DEF RolloutTypeOK, RollPod
        <3> QED BY <1>1, <3>2, Zenon DEF RolloutTypeOK
    <2>2. \A q \in Pod : revision'[q] <= template'[q[1]]
        <3> SUFFICES ASSUME NEW q \in Pod PROVE revision'[q] <= template[q[1]]
            BY <1>1, Zenon
        <3>1. revision'[q] = IF q = p THEN 0 ELSE revision[q]
            BY <1>4, Zenon DEF RolloutTypeOK, RollPod
        <3>2. q[1] \in Shard
            BY PodShard, Zenon
        <3>3. template[q[1]] \in Nat /\ revision[q] <= template[q[1]]
            BY <1>1, <3>2 DEF RolloutTypeOK, Order
        <3> QED BY <3>1, <3>3
    <2>3. \A q \in up' : revision'[q] <= running'[q] /\ running'[q] <= configMap'
        BY <1>1, <1>4, Zenon DEF RolloutTypeOK, Order, RollPod
    <2>4. Order'
        BY <1>1, <2>2, <2>3, Zenon DEF Order
    <2> QED BY <2>1, <2>4, Zenon
<1>5. CASE Evict(p)
    <2>1. RolloutTypeOK'
        BY <1>1, <1>5 DEF RolloutTypeOK, Evict
    <2>2. \A q \in up' : revision'[q] <= running'[q] /\ running'[q] <= configMap'
        BY <1>1, <1>5, Zenon DEF RolloutTypeOK, Order, Evict
    <2>3. Order'
        BY <1>1, <1>5, <2>2, Zenon DEF Order, Evict
    <2> QED BY <2>1, <2>3, Zenon
<1>6. CASE RestartContainer(p)
    <2>1. PICK v \in running[p]..configMap : running' = [running EXCEPT ![p] = v]
        BY <1>6, Zenon DEF RestartContainer
    <2>2. v \in 0..Latest /\ running[p] <= v /\ v <= configMap /\ revision[p] <= v
        BY <1>1, <1>6, <2>1 DEF RolloutTypeOK, Order, RestartContainer
    <2>3. RolloutTypeOK'
        BY <1>1, <1>6, <2>1, <2>2 DEF RolloutTypeOK, RestartContainer
    <2>4. \A q \in up' : revision'[q] <= running'[q] /\ running'[q] <= configMap'
        BY <1>1, <1>6, <2>1, <2>2, Zenon DEF RolloutTypeOK, Order, RestartContainer
    <2>5. Order'
        BY <1>1, <1>6, <2>4, Zenon DEF Order, RestartContainer
    <2> QED BY <2>3, <2>5, Zenon
<1> QED BY <1>3, <1>4, <1>5, <1>6, Zenon

\* Every step keeps the order in which the specs travel.
LEMMA StepInv == RolloutInv /\ [Next]_vars => RolloutInv'
<1> SUFFICES ASSUME RolloutInv, [Next]_vars PROVE RolloutInv'
    BY Zenon
<1>1. CASE UNCHANGED vars
    BY <1>1, Zenon DEF RolloutInv, RolloutTypeOK, Order, Latest, vars, pass, objects, pods
<1> QED BY <1>1, OperatorInv, EditInv, PodInv, Zenon DEF Next

\* The order gives the property: the label is the newest spec there is, so what the pod
\* runs, which lies between the two, renders the same text.
LEMMA OrderTells == RolloutInv => HashTells
<1> SUFFICES ASSUME RolloutInv, NoReturn, NEW p \in up,
                    SameTemplate(revision[p], Latest)
             PROVE  SameConf(running[p], Latest)
    BY Zenon DEF HashTells
<1>1. /\ Latest \in Nat \ {0} /\ revision[p] \in 0..Latest /\ running[p] \in 0..Latest
      /\ revision[p] <= running[p]
    BY DEF RolloutInv, RolloutTypeOK, Order
<1>2. revision[p] # 0 /\ SameConf(revision[p], Latest)
    BY <1>1, Zenon DEF SameTemplate, SameConf, Template
<1>3. revision[p] \in 1..Latest /\ Latest \in 1..Latest /\ running[p] \in revision[p]..Latest
    BY <1>1, <1>2
<1> QED BY <1>2, <1>3, Zenon DEF NoReturn

\* Type correctness of the rollout.
THEOREM RolloutTypeCorrect == Spec => []RolloutTypeOK
<1>1. RolloutInv => RolloutTypeOK
    BY Zenon DEF RolloutInv
<1> QED BY <1>1, InitInv, StepInv, PTL DEF Spec

\* configHash tells which pods are still to be replaced: a pod that was created from the
\* current template runs the current configuration, as long as the user has not gone back to an earlier one.
THEOREM HashIsTrusted == Spec => []HashTells
BY InitInv, StepInv, OrderTells, PTL DEF Spec

\* Filling in the defaults of the API types changes no directive.
LEMMA DefaultsRender == \A s \in Settings : RenderValkeyConf(s) = RenderValkeyConf(Defaulted(s))
<1> SUFFICES ASSUME NEW s \in Settings
             PROVE  RenderValkeyConf(s) = RenderValkeyConf(Defaulted(s))
    BY Zenon
<1>1. /\ Defaulted(s).clusterNodeTimeoutMillis = Or(s.clusterNodeTimeoutMillis, 0, 5000)
      /\ Defaulted(s).requireFullCoverage = Or(s.requireFullCoverage, Unset, "true")
      /\ Defaulted(s).minReplicasToWrite = s.minReplicasToWrite
      /\ Defaulted(s).ioThreads = Or(s.ioThreads, 0, 1)
      /\ Defaulted(s).maxmemoryPolicy = Or(s.maxmemoryPolicy, Unset, "noeviction")
      /\ Defaulted(s).mode = Or(s.mode, Unset, "AOF")
      /\ Defaulted(s).appendFsync = Or(s.appendFsync, Unset, "everysec")
      /\ Defaulted(s).memoryLimit = s.memoryLimit
    BY SMTT(30) DEF Defaulted, Settings
<1>2. PersistenceConf(s) = PersistenceConf(Defaulted(s))
    BY <1>1, Zenon DEF PersistenceConf, Or, Unset
<1>3. s.ioThreads \in 0..128
    BY DEF Settings
<1> QED BY <1>1, <1>2, <1>3 DEF RenderValkeyConf, Or, Unset

\* RenderValkeyConf and the API types have the same defaults, for every spec that the
\* validation rules admit and not only for those of the run.
THEOREM DefaultsAlwaysAgree == Spec => []DefaultsAgree
<1>1. RolloutInv => DefaultsAgree
    <2> SUFFICES ASSUME RolloutInv, NEW v \in 1..Latest
                 PROVE  Conf(v) = RenderValkeyConf(Defaulted(declared[v]))
        BY Zenon DEF DefaultsAgree
    <2>1. declared[v] \in Settings
        BY RolloutAssumption DEF RolloutInv, RolloutTypeOK, Latest
    <2> QED BY <2>1, DefaultsRender, Zenon DEF Conf
<1> QED BY <1>1, InitInv, StepInv, PTL DEF Spec
=============================================================================
