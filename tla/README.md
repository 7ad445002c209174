# Verification of valkeycluster-operator

TLA+ models of the operator's control logic, the TLC runs that check them and the
TLAPS proofs about them. `PROJECT.json` lists the runs, the mutants that show each
property can fail, the source lines each definition models, the findings and the
hazards the properties are aimed at.

## The system

A `ValkeyCluster` resource declares a number of shards, of replicas per shard, and the
settings of the nodes. The operator runs one pass at a time (`Reconcile`): it puts a
finalizer on the resource, writes a ConfigMap and a StatefulSet per shard, waits for the
pods, reads the cluster from pod 0 of shard 0 (the *seed*), decides one action
(`topology.Decide`), carries it out with Valkey commands and publishes the status. When the
resource is deleted it reclaims the volumes and removes the finalizer. It stores nothing:
after an error or a crash the next pass starts from what it reads. The Valkey nodes run at
the same time, serve clients, spread slot ownership over the cluster bus and promote
replicas. Slots are moved by the operator itself, command by command.

| part | source | module |
|---|---|---|
| slot mover, repair of open slots | `internal/cluster/goredis.go` | `SlotMover` |
| Valkey nodes (external) | as used by `goredis.go` | `Valkey` |
| draining and deleting a shard | `controller/scaling.go` `scaleIn` | `Drain`, abstractly `Handover` |
| filling new shards | `controller/scaling.go` `scaleOut` | `ScaleOut` |
| repair after interrupted moves | `goredis.go` `RepairSlots` | `Repair` |
| one whole pass, pods, edits, failover, deletion | `controller/*.go` | `Reconciler` |
| the decision | `topology/topology.go` | `Topology` |
| status, phase, conditions | `controller/status.go` | `Status` |
| slot arithmetic | `slots/slots.go` | `Slots` |
| settings and their defaults | `resources/builders.go`, `api/v1alpha1` | `Config` |
| a change of the settings on its way to the pods | `controller/resources.go` | `Rollout` |

Two levels of detail are used. `SlotMover`, `Drain`, `ScaleOut` and `Repair` name the slots
and the keys, have one action per command and give every node its own view of who owns
what. `Reconciler` counts slots and lets the nodes agree, so that whole passes, edits and
pod losses fit into a run. `Rollout` is about the pods' configuration only: what a pass does
to the cluster changes neither the ConfigMap nor the templates.

## Modules

**Valkey.** Per node: the slot table (`owner`), the `importing`/`migrating` markers, the
config epoch, the keys (`store`). The value of a key is the number of the client write it
comes from, 0 if absent; `acked` is the last acknowledged one. Commands are pairs of a
condition (`...Ok`) and an effect. `Gossip` lets a node adopt a claim of another one: the
higher epoch wins, an importing node keeps its view, a node that loses a slot drops its
keys. Replication of data between a primary and its replicas is not modelled.

**SlotMover.** `pc` names the next command of `MoveSlots` (probe, importing, migrating,
getkeys, migrate, assign) or of `RepairSlots` (repair, stray, restore, stable, node). A
command that fails, a lost reply and a crash are all `Fail`, or the partial branch of
`Migrate`; the errors `RepairSlots` ignores are `Ignoring`. The order in which the
primaries are told of a new owner is arbitrary: it is the order of a reply.

**Drain.** `scaleIn` for one departing shard: batches until the seed shows no slot of the
departing primary, then the shard is forgotten and deleted. No repair runs in between,
because a StatefulSet in excess overrides the repair plan. `bare` records the slots that
were reassigned without the handshake.

**Handover.** What a drain promises, in terms of who claims each slot and nothing else: the
survivor takes a slot that nobody but the departing primary claims, the departing primary
releases it and never takes it back, and the shard is deleted only when somebody else
claims every slot. Only a slot that was moved without the handshake (`loose`) may fall back
to the departing primary. In `Drain`, `HO` maps the claims to the nodes that book a slot on
themselves and `loose` to `bare`.

**ScaleOut.** The stability gate, the measuring of each new shard and the fill loop, from
one shard to three (a declared number of two is rejected at admission). The history
variable `current` says whether the seed booked everything the new shard claimed when the
shard was measured: only then is what the pass asks for what the shard lacks. The state that
the loop reads to choose its source and the one that `MoveSlots` reads again are one reading
here; a change in between can only make the call move fewer slots or choose a source that is
no longer the fattest.

**Repair.** Moves of a slot between two primaries are cut short, retried and repaired in any
order, while clients and the bus go on. Two history variables say which repairs the
property is about: `clean` (the nodes agreed on the owners when it began, no command of it
has failed, and no listing of a node's keys was cut at `RepairCap`) and `left` (the keys
whose last acknowledged write was on an owner or an open primary when it began, and that no
client has touched since).

**Reconciler.** `stage` is the next step of the pass. The state of Kubernetes is the pods
each StatefulSet asks for, the volumes, the running pods and those of deleted
StatefulSets; that of the cluster is the members, who replicates whom, slot counts, and the
nodes on which an interrupted move left a slot open (`open`).
`object` follows the resource from *new* (no finalizer yet) over *live* and *deleting* to
*gone*. The finalizer is added by an update of the whole typed object, which leaves out a
`replicasPerShard` of 0; the API server stores the default 1 in its place, in a new
generation, and the pass goes on with that (`Stored`). So the operator itself can change the
spec, and only a later edit gives a cluster without replicas. The update that removes the
finalizer does the same to an object that is gone with it, and status updates do not touch the
spec. The other fields with a default cannot be 0, or have 0 as the default. The teardown is
`DeleteOwnedPVCs` and `RemoveFinalizer`, after which Kubernetes
collects the StatefulSets in its own time (`CollectGarbage`). With
`minReplicasToWrite` set, a primary with too few replicas refuses the keys of a fill, so a
new shard cannot be filled before its replicas are attached; an edit keeps
`minReplicasToWrite` at or below the number of replicas. `MoveSlots` is one step that
completes, or stops after some slots and possibly leaves one open. Simplifications: a met
node is known to all at once; the cluster state read at the start of `reconcileMembership`
is taken as current when replicas are attached; a node is forgotten by all others in one
step, although the code asks them one by one and ignores their errors, and does not come back
through gossip; a node without a volume restarts as a new one.

**Config, Rollout.** `Config` has the fields of a spec that reach the pods, the defaults of
the API types (`Defaulted`) and what `RenderValkeyConf` makes of a spec. In `Rollout` the
specs a user declares are numbered, and the ConfigMap, the template of each StatefulSet and
each pod carry the number of the spec they were built from. The code and Kubernetes never
compare numbers: `SameConf` and `SameTemplate` compare what was rendered, so two specs that
differ only in a field that is not rendered restart nothing. A pass writes the ConfigMap and
then the templates one by one, and can be abandoned anywhere. A read from the client's cache
is what the API server held a moment earlier, so it is the same as an edit that follows the
read; one cache never goes back. Of Kubernetes it is assumed that a pod starts with the
current ConfigMap; that a container restarted in its pod may find any version since then,
because the kubelet refreshes the file late; that an evicted pod may come back at its old
revision; and that pods are replaced from the last ordinal down, one at a time per
StatefulSet.

## Runs

Passing:

| run | properties | shows |
|---|---|---|
| `drain` | `HandshakeKeepsWrites`, `SlotsOutliveShard`, `ImplementsHandover`, `DrainCompletes` | no acknowledged write of a slot moved with the handshake is lost; every slot outlives the deleted shard; a drain is a handover; it ends, although open slots are not repaired meanwhile |
| `scaleout` | `ScaleOutSettles`, `OpenSlotsRepaired`, `NeverOverAssigns` | a scale-out without failures ends, whatever the bus does; open slots left by a failure are always found and closed; a fill measured on a current seed never gives a shard more than its share, however often it fails and is retried |
| `repair` | `RepairGathers` | an undisturbed repair brings every key that clients leave alone to the owner of its slot, from whatever nodes the interrupted moves left it on, and closes the slot |
| `reconcile` | `Converges`, `DrainedBeforeDeleted`, `OwnersKept`, `ReadyIsTruthful`, `VolumesReclaimed`, `Removed`, `FormsEvenly`, `ConvergedIsFixed` | three lives of a resource, each of which may end by its deletion at any moment; among the rest, that a pass which finds the declared topology in place changes nothing, also after a failover has made another pod the primary |
| `rollout` | `HashTells`, `ConfigReachesPods`, `DefaultsAgree` | a change of the settings or the image reaches every pod; a pod of the current template runs the current configuration; the two sets of defaults agree |

Each of them also checks the type invariant of its module. The lives that `reconcile`
follows are initial states of `MCReconciler`: `Created` (a new resource, edited before or
while it is formed, or later), `Edited` (a formed one, edited while the operator may fail or
crash) and `Battered` (a formed one that loses two pods while the operator may fail or
crash). The hazards they leave out, because there the code does fail, are those of the runs
below.

Violated, each against a sentence of the repository quoted under `findings`:

| run | what happens |
|---|---|
| `drain_fast_path` | a write between the empty probe and the reassignment is lost |
| `scaleout_short` | a shard whose fill failed stays below its share |
| `forming_crash` | a crash while forming leaves an uncovered cluster for good |
| `edit_both` | shards and replicas raised together: the pass fails for ever at a replica nobody met |
| `stale_ready` | `Ready` for the old spec carries the new generation |
| `unreachable_departing` | a departing primary that does not answer is deleted with its slots |
| `replica_reduction` | the replicas are reduced while pod 0 is down: the replica that took over is forgotten with its slots |

**Observed without a run.** The models, or the reading they are based on, also show the
following.

- *Scaling.* 3, 1, 3 shards in a row can leave an emptied inner shard that is never filled
  (the cause is that of `scaleout_short`). A retried fill that reads a lagging seed can give
  a shard more than its share, also without a failure: this is why `NeverOverAssigns` has the
  precondition `current`. Shards and replicas raised in two
  edits in a row behave like `edit_both` if no pass runs in between. A slot moved by the
  fast path, without a new epoch, can end without an owner if the target hears the source's
  claim before the source is told.
- *Repair.* A key written to the importing node after `RepairSlots` has listed that node's
  keys is stranded when the slot is closed. If a key is on several nodes, the
  first copy to reach the owner stays, because `MIGRATE` is sent without `REPLACE` here, even
  if another one is newer. Keys beyond the cap of a listing are left behind, and it is not
  enough that the nodes hold fewer when the repair begins: clients add keys to an importing
  node while other slots are repaired. These are the cases that the preconditions of
  `RepairGathers` leave out.
- *No replicas.* A resource created with `replicasPerShard: 0` gets one replica per shard, as
  described under **Reconciler**. The API type says "0 means no HA"
  (`api/v1alpha1/valkeycluster_types.go:141`), and FR-005 asks for `shards × (1 +
  replicasPerShard)` nodes on creation. `Converges` is about the spec as it is stored: the
  cluster reaches that, not the number that was declared. An edit to 0 after the finalizer has
  been added is kept.
- *The gate.* `shardsReady` compares numbers of pods, not which pods they are. If a shard is
  deleted and asked for again with more replicas while its old pod 0 is still terminating,
  and the replicas are then reduced, the new pod 1 counts for pod 0, and the pass goes on as
  if pod 0 were there to stay. `GateHonest` of `LosslessProofs` excludes this case.
- *Volumes.* Volumes of removed replicas stay, and so do those of a shard if the operator
  dies between the deletion of the StatefulSet and theirs. FR-023 (`spec.md:120`) asks for the
  storage of a removed node to be reclaimed when the node is removed, "shard scale-down or
  replica reduction"; the code does so only for a shard whose deletion is not interrupted.
  Both kinds are reclaimed when the resource is deleted, and this is what `VolumesReclaimed`
  says; it says nothing of the time before. A pod that starts after the finalizer has listed
  the volumes and before its StatefulSet is collected leaves a volume that nobody deletes
  (`late`). FR-019 (`spec.md:112`) has deletion remove "all resources the operator created",
  storage included: `VolumesReclaimed` is weaker by exactly these volumes.
- *Settings.* If the user goes from A to B and back to A, a pod that started with B while
  its StatefulSet still had the first template counts as one of the new template, is not
  replaced, and keeps running B. This needs no failure: the pod may simply start late. It is
  why `HashTells` and `ConfigReachesPods` have the precondition `NoReturn`. A rollout
  replaces pods of all shards at the same time, one in each.

**Bounds.** `drain` has two primaries and a replica, two slots, one of them with both keys,
and one key per `MIGRATE`, so that a slot takes several batches and can be cut short between
them; two failures allow a failed retry. `repair` has three primaries, one slot, two keys
and two failures: two interrupted moves can leave the keys on two nodes and the markers on
others, and a listing of one key (`RepairCap`) is cut whenever a node holds both. The
scale-out runs have three primaries and six slots, two per shard: with one slot per shard a
pass that reads a lagging seed can take a shard's only slot away and `ScaleOutSettles` fails;
a shard of a real cluster would have to lose all of its slots that way. The reconciler runs
have one or three shards, at most one replica, and six slots, or seven in `reconcile`: shares
are uneven then, and the last of three shards, with three slots and batches of two, takes
more than one pass to drain. `reconcile` allows one edit, one crash or failed command and two
lost pods. Edits are bounded by the generation (`MaxEdits`), which the finalizer's update may
raise, too; the lives therefore start at a generation that leaves one edit from then on. With
two, raising shards and replicas one after the other is `edit_both` again. A formed cluster
starts in its second generation, because one without replicas has been edited. `rollout` has
two StatefulSets of two pods, so that the passes and the rollouts of both interleave, two edits, so that one can overtake the other, and one fault; two of its
three settings render the same text and differ in the image and in a field that is not
rendered. A bound on failures is what lets liveness be stated: the system converges once they
end.

**Fairness.** The operator is weakly fair, because every result of `Reconcile` requeues
and an error is retried; the bus, the StatefulSet controller, the garbage collector, the
kubelet and the failover of Valkey are weakly fair, because they run on their own timers.
In `drain` every claim on the bus is heard in the end (`Hear`), and in `rollout` every pod
is started and replaced in the end, for the same reason. Clients, edits, deletions, crashes
and pod losses are not fair.

**Deadlock.** It is checked for `rollout` and for the violated runs of `Reconciler`, whose
passes never end. `drain`, `scaleout` and `repair` stop when their work is done, and
`reconcile` when the resource is gone.

## Proofs

The proofs hold for every value of the constants that satisfies the named assumptions.

**A drain** (`ValkeyAssumption`, `MoverAssumption`, `DrainAssumption`: any finite sets of
nodes, slots and keys, any starting epoch, any bounds). `DrainProofs` proves

- `DrainTypeCorrect`: the types of a drain;
- `HandshakeKeepsWritesThm`: the invariant `HandshakeKeepsWrites`;
- `SlotsOutliveShardThm`: the invariant `SlotsOutliveShard`.

Neither property is inductive: a write is only safe because of what the nodes know of its
slot. `DrainInv` says of each slot that it is `Quiet` (the departing primary never had it)
or `Moving`: `Shape` limits who books it and who has it open, `Heard` says a replica, which
may be the seed, books it on the target only when the target's claim cannot be beaten any
more, and `Safe` (for slots not reassigned bare) that the source is empty and cannot be
written to as soon as anyone books the slot on the target, and that the target's epoch is
then the highest. `AtHand` ties this to the command `MoveSlots` is about to send.
The first half of the module shows that the bus, the clients, the commands of `MoveSlots` and
the deletion keep the invariant for every slot; the second puts the steps together (`StepOK`)
and states the theorems.

It also proves the refinement, `DrainIsHandover`: in a state of `DrainInv` every
step of a drain changes the claims to one slot as `Handover` allows, deletes the shard when
a survivor claims every slot, or leaves the claims alone. The invariant is needed twice: the
departing primary cannot win back a slot that went through the handshake because the
target's epoch is higher, and the seed's view, on which the deletion rests, is backed by a
claim.

**Repairs and scale-outs** (`ValkeyAssumption`, `MoverAssumption`, `RepairAssumption`,
`ScaleOutAssumption`: any cluster, any slots and keys, any bounds).

`ScaleOutProofs` proves `ScaleTypeCorrect` and `NeverOverAssignsThm`, the action property
`NeverOverAssigns`. The property speaks of one step; the inductive invariant `Share` says why
no step goes too far: after a current measurement, what the new shard claims, what the move
at hand may still bring (`Pending`) and what the pass will ask for after it are together at
most its share. A command of `MoveSlots` gives slots to its target alone, and only those of
the call (`MoveClaims`); a claim on the bus can cost a node a slot but never gives it one
(`OthersClaims`).

`RepairProofs` proves `RepairTypeCorrect` and `RepairGathersThm`, the action property
`RepairGathers`. Its inductive invariant is `Gathering`. `Routed` and `OneCopy` hold whatever
fails: slots only ever go from `From` to `To`, so only `To` imports, only `From` migrates,
nobody else holds keys, and the last acknowledged write on an importing `To` has no
newer rival on `From`. `Undisturbed` follows a clean repair from its snapshot: the open slots
are still to be closed, the primaries agree with the snapshot about them, and the last write
of each key of `left` is on the owner, or on `To` and due for a later step (`Coming`).
Without `OneCopy` the step that moves stray keys fails, because `MIGRATE` leaves a key alone
that the owner has. TLC checked the invariant before the proof, with one slot and two, two
keys, three primaries and two failures.

`MoverProofs` has what `Drain`, `Repair` and `ScaleOut` share: what each command, a claim on
the bus and a client's request change cell by cell, and that `MoveSlots` and `RepairSlots`
keep the types.

**The slots** (`SlotsAssumption`: any positive number of slots). `SlotsProofs` proves, for
every number of shards up to the number of slots, `DistributePartitions` (the ranges follow
one another without a gap or an overlap, and none is empty) and `SharesAreEven` (shares
differ by one slot at most). `FormsEvenly` of the run `reconcile` is about what the forming
makes of these shares. The ranges are given by cuts `(i * TotalSlots) \div n`; a quotient is
pinned down by two inequalities, and from those of two neighbouring cuts follows that they
are at least one and at most one rounded share apart.

**The reconcile loop** (`ReconcilerAssumption`, `SlotsAssumption`: any finite choice of
shard and replica counts, any number of slots, edits, crashes and lost pods).
`ReconcilerProofs` proves `ReconcilerTypeCorrect` and `TeardownReclaims` (the invariant
`VolumesReclaimed`) of every behaviour. The inductive invariant `Basics` adds to the types the
`Life` of the resource: nothing exists before the finalizer is on it, a teardown begins only
when it is being deleted, and once its volumes have been listed only `late` ones appear.

It also proves `ConvergedStaysPut`, the action property `ConvergedIsFixed`, of every
behaviour, failovers included. `Converged` asks for as many slot owners as shards and for one
in every shard, so that by counting no shard has two (`AsDeclared`); then `findShardPrimary`
finds the node that the others replicate, whichever pod it is, every owner has exactly the
declared replicas (`ReplicasAsDeclared`), and nothing is left to plan, meet, attach or forget
(`NothingToDo`). With `Converges`, which TLC checks, this is why a converged cluster is not
disturbed by the passes that go on for ever.

`LosslessProofs` proves `ReadyIsTrue`, `DrainsBeforeDeleting`, `OwnersAreKept` and
`FormsAllEvenly`, the properties `ReadyIsTruthful`, `DrainedBeforeDeleted`, `OwnersKept` and
`FormsEvenly` of the run `reconcile`, of the behaviours that satisfy `Calm`: no pod is lost,
and when the gate opens the declared pods are the ones that run. Edits of any kind, crashes,
failed commands and the deletion of the resource come at any step and in any number. Both
conditions are needed: with a lost pod `DrainedBeforeDeleted` and `OwnersKept` fail in the
runs `unreachable_departing` and `replica_reduction`, and without `GateHonest` the case
*The gate* above breaks `OwnersKept`. `ShardEditsAreSafe` then shows that
`GateHonest` holds by itself if only the number of shards is edited: every shard has the same
number of pods then (`OneSize`), so that no pod can be counted for another.

The inductive invariant is `Lossless`. `Gated` says that a pass beyond the gate has its pods,
`Owners` that slots and open slots are on first pods of shards, which run and stay,
`Forming` that the slots assigned so far are those of the shards so far, `SlotsAreFew` that no
slot is counted twice, `Generations` which specs a pass and a status are about (also when the pass itself has
stored a new one), and `Truth`
that a claimed Ready describes a settled cluster and that a pass which unsettles it has withdrawn
the claim before. TLC checked it before the proof, with one and two shards, up to one replica,
every kind of edit and a crash.

Slots are counted with a sum over a finite set. The fold of the community modules picks the
elements in an order of its own, so `SlotsProofs` first shows that the order does not matter
(`SumElement`), and then what a sum becomes when a value changes or moves. These facts need
induction over finite sets, whose theorem takes an operator as a parameter; they are proved
from the least subset for which they fail (`LeastSubset`), which needs none.

**The settings** (`RolloutAssumption`: any number of shards and pods, edits and faults, any
settings that the validation rules admit). `RolloutProofs` proves `RolloutTypeCorrect`,
`HashIsTrusted` (the invariant `HashTells`) and `DefaultsAlwaysAgree`. The hash says nothing
by itself; the inductive invariant `Order` says that a spec travels one way: a template is no
newer than the ConfigMap, a pod's revision no newer than its template, and what a pod runs
lies between its revision and the ConfigMap. A pod whose template renders as the latest spec
then runs a configuration declared between two equal ones, which `NoReturn` makes equal to
both.

**Only model-checked**: the liveness properties, because they need fairness and `ENABLED`
(`DrainCompletes`, `ScaleOutSettles`, `OpenSlotsRepaired`, `Converges`, `Removed`,
`ConfigReachesPods`); and `ReadyIsTruthful`, `DrainedBeforeDeleted` and `OwnersKept` while pods
are lost, which hold only in the lives that `reconcile` follows.

## Not modelled

- `Rebalance`, `Reshard` and `Fix`: wrappers of `valkey-cli` that nothing calls; execution in
  pods is I/O.
- The text of `CLUSTER NODES` and its parsers, `FormatRange(s)`: what they deliver is
  modelled, their characters are not.
- Labels, ports, probes, affinity, the Service and the announced addresses: the same for
  every spec, or text. The storage fields cannot be edited.
- The per-shard details of the status.
- The wiring of the manager, generated code; one operator is running at a time.
- The test double `fake.go`: it is never part of the running operator, and each of its
  commands is one atomic update of a map.
