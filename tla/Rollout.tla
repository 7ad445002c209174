------------------------------ MODULE Rollout -------------------------------
(***************************************************************************)
(* How a change of the settings reaches the pods. A pass of Reconcile      *)
(* renders the configuration into the ConfigMap that every pod mounts, and *)
(* its hash, with the image and the resources, into the pod template of    *)
(* each StatefulSet; the StatefulSet controller replaces the pods whose    *)
(* template has changed, and a pod reads the ConfigMap when it starts.     *)
(*                                                                         *)
(* The specs the user has declared are numbered, and an object or a pod    *)
(* carries the number of the spec that it was built from, 0 if there is    *)
(* none. What the code and Kubernetes compare is what was built, never the *)
(* number: see SameConf and SameTemplate.                                  *)
(***************************************************************************)
EXTENDS Config, Sequences

CONSTANTS
    NumShards, NumPods,     \* the StatefulSets, and the pods of each
    Choices, First,         \* the settings a user declares, and those the resource begins with
    MaxEdits,               \* bound: changes of the spec
    MaxFaults               \* bound: passes cut short, pods evicted, containers that die

ASSUME RolloutAssumption ==
    /\ NumShards \in Nat \ {0} /\ NumPods \in Nat \ {0}
    /\ Choices \subseteq Settings /\ First \in Choices
    /\ MaxEdits \in Nat /\ MaxFaults \in Nat

VARIABLES
    declared,       \* the specs so far, the current one last
    stage, cr, at,  \* the pass: where it is, the spec it read, the shard it is at
    configMap,      \* the contents of the ConfigMap
    template,       \* the pod template of each StatefulSet
    revision,       \* the template each pod was created from; 0 while the pod is still to be created
    running,        \* the configuration that each pod started with; 0 while it is down
    up,             \* the pods that are ready
    faults

objects == <<configMap, template>>
pods == <<revision, running, up>>
pass == <<stage, cr, at>>
vars == <<declared, pass, objects, pods, faults>>

Shard == 0..NumShards - 1
Pod == Shard \X (0..NumPods - 1)

\* What the ConfigMap holds.
Conf(v) == RenderValkeyConf(declared[v])

\* What a spec changes in the pod template of a StatefulSet. The hash stands for the text.
Template(v) ==
    [image |-> declared[v].image, resources |-> declared[v].memoryLimit, configHash |-> Conf(v)]

SameConf(u, v) == u = v \/ (u # 0 /\ v # 0 /\ Conf(u) = Conf(v))

SameTemplate(u, v) == u = v \/ (u # 0 /\ v # 0 /\ Template(u) = Template(v))

Latest == Len(declared)

RolloutTypeOK ==
    /\ declared \in Seq(Choices) /\ Latest \in 1..MaxEdits + 1
    /\ stage \in {"idle", "configmap", "statefulsets"} /\ cr \in 0..Latest /\ at \in Shard
    /\ configMap \in 0..Latest /\ template \in [Shard -> 0..Latest]
    /\ revision \in [Pod -> 0..Latest] /\ running \in [Pod -> 0..Latest] /\ up \subseteq Pod
    /\ faults \in 0..MaxFaults

Init ==
    /\ declared = <<First>>
    /\ stage = "idle" /\ cr = 0 /\ at = 0
    /\ configMap = 0 /\ template = [i \in Shard |-> 0]
    /\ revision = [p \in Pod |-> 0] /\ running = [p \in Pod |-> 0] /\ up = {}
    /\ faults = 0
-----------------------------------------------------------------------------
\* Reconcile reads the resource. What the cache of the client returns is what the API
\* server held a moment earlier: an edit that follows the read.
ReadSpec ==
    /\ stage = "idle"
    /\ stage' = "configmap" /\ cr' = Latest
    /\ UNCHANGED <<declared, at, objects, pods, faults>>

\* Mutant of EnsureConfigMap: it only creates what does not exist.
EnsureConfigMapOnce ==
    /\ stage = "configmap"
    /\ configMap' = IF configMap = 0 THEN cr ELSE configMap
    /\ stage' = "statefulsets"
    /\ UNCHANGED <<declared, cr, at, template, pods, faults>>

\* ensureConfigMap; ensureHeadlessService, which follows it, depends on no setting.
EnsureConfigMap ==
    /\ stage = "configmap"
    /\ configMap' = cr /\ stage' = "statefulsets"
    /\ UNCHANGED <<declared, cr, at, template, pods, faults>>

\* Mutant of EnsureStatefulSet: the template of an existing StatefulSet is left as it is.
EnsureStatefulSetOnce ==
    /\ stage = "statefulsets"
    /\ template' = [template EXCEPT ![at] = IF @ = 0 THEN cr ELSE @]
    /\ IF at + 1 < NumShards
       THEN at' = at + 1 /\ UNCHANGED <<stage, cr>>
       ELSE at' = 0 /\ stage' = "idle" /\ cr' = 0
    /\ UNCHANGED <<declared, configMap, pods, faults>>

\* Mutant of EnsureStatefulSet: the loop runs to the number of shards and not to one before.
EnsureStatefulSetPast ==
    /\ stage = "statefulsets"
    /\ template' = [template EXCEPT ![at] = cr]
    /\ IF at < NumShards
       THEN at' = at + 1 /\ UNCHANGED <<stage, cr>>
       ELSE at' = 0 /\ stage' = "idle" /\ cr' = 0
    /\ UNCHANGED <<declared, configMap, pods, faults>>

\* One turn of the loop of ensureStatefulSets. What the pass does after the last one
\* touches neither the objects nor the pods.
EnsureStatefulSet ==
    /\ stage = "statefulsets"
    /\ template' = [template EXCEPT ![at] = cr]
    /\ IF at + 1 < NumShards
       THEN at' = at + 1 /\ UNCHANGED <<stage, cr>>
       ELSE at' = 0 /\ stage' = "idle" /\ cr' = 0
    /\ UNCHANGED <<declared, configMap, pods, faults>>

\* A write fails, or the operator crashes: the pass ends where it is.
Abandon ==
    /\ stage # "idle" /\ faults < MaxFaults
    /\ faults' = faults + 1
    /\ stage' = "idle" /\ cr' = 0 /\ at' = 0
    /\ UNCHANGED <<declared, objects, pods>>

Operator == ReadSpec \/ EnsureConfigMap \/ EnsureStatefulSet
-----------------------------------------------------------------------------
\* The user declares other settings, which may well render the same text.
Edit ==
    /\ Latest <= MaxEdits
    /\ \E s \in Choices : s # declared[Latest] /\ declared' = Append(declared, s)
    /\ UNCHANGED <<pass, objects, pods, faults>>

\* A pod starts, and startupScript copies the mounted ConfigMap. A pod that is created takes
\* the template of its StatefulSet; one that was evicted may come back as it was.
PodStart(p) ==
    /\ p \notin up /\ template[p[1]] # 0
    /\ \E r \in {template[p[1]], revision[p]} \ {0} : revision' = [revision EXCEPT ![p] = r]
    /\ running' = [running EXCEPT ![p] = configMap]
    /\ up' = up \cup {p}
    /\ UNCHANGED <<declared, pass, objects, faults>>

\* The StatefulSet controller deletes a pod whose template has changed, from the last
\* ordinal down, and not before those it has replaced are ready.
RollPod(p) ==
    /\ p \in up /\ ~SameTemplate(revision[p], template[p[1]])
    /\ \A j \in p[2] + 1..NumPods - 1 :
        <<p[1], j>> \in up /\ SameTemplate(revision[<<p[1], j>>], template[p[1]])
    /\ revision' = [revision EXCEPT ![p] = 0]
    /\ running' = [running EXCEPT ![p] = 0] /\ up' = up \ {p}
    /\ UNCHANGED <<declared, pass, objects, faults>>

\* A pod is evicted.
Evict(p) ==
    /\ p \in up /\ faults < MaxFaults
    /\ faults' = faults + 1
    /\ running' = [running EXCEPT ![p] = 0] /\ up' = up \ {p}
    /\ UNCHANGED <<declared, pass, objects, revision>>

\* A container dies and is started again in its pod, with the file that the kubelet has
\* refreshed since the pod started, or not.
RestartContainer(p) ==
    /\ p \in up /\ faults < MaxFaults
    /\ faults' = faults + 1
    /\ \E v \in running[p]..configMap : running' = [running EXCEPT ![p] = v]
    /\ UNCHANGED <<declared, pass, objects, revision, up>>

Next ==
    \/ Operator \/ Abandon \/ Edit
    \/ \E p \in Pod : PodStart(p) \/ RollPod(p) \/ Evict(p) \/ RestartContainer(p)

Spec == Init /\ [][Next]_vars

\* Reconcile is requeued for as long as the resource lives; the StatefulSet controller and
\* the kubelet carry on with every pod.
FairSpec ==
    Spec /\ WF_vars(Operator) /\ \A p \in Pod : WF_vars(PodStart(p)) /\ WF_vars(RollPod(p))
-----------------------------------------------------------------------------
\* The user has not gone back to a configuration that an edit had replaced.
NoReturn ==
    \A u, w \in 1..Latest : \A v \in u..w : SameConf(u, w) => SameConf(v, w)

\* configHash: a pod that was created from the current template runs the current
\* configuration, unless the user has gone back to an earlier one. It is why Reconcile
\* writes the ConfigMap before the StatefulSets, and it must survive edits during a pass,
\* abandoned passes, evictions and restarts in place.
HashTells ==
    NoReturn => \A p \in up : SameTemplate(revision[p], Latest) => SameConf(running[p], Latest)

\* configHash rolls the StatefulSets: once the user stops editing, every pod comes to be one
\* of the last template declared, with the last configuration declared, and stays up; again
\* unless that is an earlier configuration.
ConfigReachesPods ==
    <>[](NoReturn => \A p \in Pod : /\ p \in up /\ SameTemplate(revision[p], Latest)
                                     /\ SameConf(running[p], Latest))

\* The defaults of RenderValkeyConf are those of the API types: a spec in which an object
\* is left out and one in which it is given empty render the same text, so that adding
\* the empty object restarts nothing.
DefaultsAgree ==
    \A v \in 1..Latest : Conf(v) = RenderValkeyConf(Defaulted(declared[v]))
=============================================================================
