------------------------------- MODULE Valkey -------------------------------
(***************************************************************************)
(* The nodes of a Valkey cluster as the operator's slot mover uses them:   *)
(* what each node believes about slot ownership, its open-slot             *)
(* markers, the keys it holds, and the cluster bus that spreads ownership. *)
(* Valkey itself is not part of the repository: these definitions model    *)
(* the commands that internal/cluster/goredis.go sends and the replies it  *)
(* depends on.                                                             *)
(*                                                                         *)
(* A key's value is abstracted to the number of the client write that      *)
(* produced it; 0 means that the key does not exist.                       *)
(***************************************************************************)
EXTENDS Naturals, FiniteSets

CONSTANTS
    Node,       \* nodes of the cluster
    Slot,       \* hash slots (naturals: the mover walks them in order)
    Key,        \* client keys
    SlotOf,     \* the slot each key hashes to
    None,       \* no node
    MaxWrites   \* bound: client writes per key

ASSUME ValkeyAssumption ==
    /\ IsFiniteSet(Node) /\ IsFiniteSet(Key) /\ IsFiniteSet(Slot)
    /\ Slot \subseteq Nat
    /\ SlotOf \in [Key -> Slot]
    /\ None \notin Node
    /\ MaxWrites \in Nat

VARIABLES
    owner,      \* owner[n][s]: the node n believes owns slot s
    importing,  \* importing[n][s]: the node n is importing s from, or None
    migrating,  \* migrating[n][s]: the node n is migrating s to, or None
    epoch,      \* epoch[n]: n's config epoch; on the bus the higher claim wins
    currentEpoch, \* the highest config epoch given out in the cluster
    store,      \* store[n][k]: the write of k that n holds, 0 if it has no k
    acked,      \* acked[k]: the last write acknowledged to a client, 0 if deleted
    writes      \* writes[k]: client writes of k so far

markVars == <<importing, migrating>>
epochVars == <<epoch, currentEpoch>>
nodeVars == <<owner, markVars, epochVars, store>>
clientVars == <<acked, writes>>
valkeyVars == <<nodeVars, clientVars>>

NodeOrNone == Node \cup {None}

ValkeyTypeOK ==
    /\ owner \in [Node -> [Slot -> NodeOrNone]]
    /\ importing \in [Node -> [Slot -> NodeOrNone]]
    /\ migrating \in [Node -> [Slot -> NodeOrNone]]
    /\ epoch \in [Node -> Nat] /\ currentEpoch \in Nat
    /\ store \in [Node -> [Key -> Nat]]
    /\ acked \in [Key -> Nat]
    /\ writes \in [Key -> Nat]

-----------------------------------------------------------------------------
Claims(n, s) == owner[n][s] = n

KeysIn(n, s) == {k \in Key : SlotOf[k] = s /\ store[n][k] # 0}

\* CLUSTER GETKEYSINSLOT slot count: count keys, or all of them if there are fewer.
GetKeysInSlot(n, s, count) ==
    {B \in SUBSET KeysIn(n, s) :
        Cardinality(B) = count \/ (B = KeysIn(n, s) /\ Cardinality(B) <= count)}

\* A node shows its own open slots, and only those, in its CLUSTER NODES reply.
OpenOn(n, s) == importing[n][s] # None \/ migrating[n][s] # None

\* CLUSTER SETSLOT s IMPORTING m: refused by a node that owns the slot.
SetSlotImportingOk(n, s) == ~Claims(n, s)

SetSlotImporting(n, s, m) ==
    /\ importing' = [importing EXCEPT ![n][s] = m]
    /\ UNCHANGED <<owner, migrating, epochVars, store>>

\* CLUSTER SETSLOT s MIGRATING m: refused by a node that does not own the slot.
SetSlotMigratingOk(n, s) == Claims(n, s)

SetSlotMigrating(n, s, m) ==
    /\ migrating' = [migrating EXCEPT ![n][s] = m]
    /\ UNCHANGED <<owner, importing, epochVars, store>>

\* CLUSTER SETSLOT s STABLE clears the node's markers for the slot.
SetSlotStable(n, s) ==
    /\ importing' = [importing EXCEPT ![n][s] = None]
    /\ migrating' = [migrating EXCEPT ![n][s] = None]
    /\ UNCHANGED <<owner, epochVars, store>>

\* CLUSTER SETSLOT s NODE m: refused by an owner that still holds keys of the slot
\* and is told that it belongs to another node.
SetSlotNodeOk(n, s, m) == m = n \/ ~Claims(n, s) \/ KeysIn(n, s) = {}

\* A node that was importing the slot and is told it now owns it takes a config epoch
\* above every other, so that its claim wins on the bus, unless it has that already.
SetSlotNode(n, s, m) ==
    /\ owner' = [owner EXCEPT ![n][s] = m]
    /\ migrating' = [migrating EXCEPT ![n][s] = IF KeysIn(n, s) = {} THEN None ELSE @]
    /\ importing' = [importing EXCEPT ![n][s] = IF m = n THEN None ELSE @]
    /\ IF m = n /\ importing[n][s] # None /\ epoch[n] # currentEpoch
       THEN /\ currentEpoch' = currentEpoch + 1
            /\ epoch' = [epoch EXCEPT ![n] = currentEpoch + 1]
       ELSE UNCHANGED epochVars
    /\ UNCHANGED store

\* MIGRATE runs on a node that owns the slot or has it open, and the receiver
\* takes the keys only if it owns or is importing the slot.
MigrateOk(n, m, s) ==
    /\ Claims(n, s) \/ OpenOn(n, s)
    /\ Claims(m, s) \/ importing[m][s] # None

\* The keys in copied reach m, and those in deleted (a subset) are then removed
\* from n. A transfer whose reply is lost leaves copies on both nodes.
Transfer(n, m, copied, deleted) ==
    /\ store' = [store EXCEPT
           ![m] = [k \in Key |-> IF k \in copied THEN store[n][k] ELSE @[k]],
           ![n] = [k \in Key |-> IF k \in deleted THEN 0 ELSE @[k]]]
    /\ UNCHANGED <<owner, markVars, epochVars>>

\* The owner n knows for s no longer stands in the way of m's claim: there is none,
\* its config epoch is lower, or it has stopped claiming the slot itself.
Yields(n, s, m) ==
    owner[n][s] \in Node =>
        epoch[owner[n][s]] < epoch[m] \/ ~Claims(owner[n][s], s)

\* The cluster bus: n hears m's claim to a slot and adopts it. A node that loses a
\* slot this way deletes the keys it still holds for it; a node importing the slot
\* keeps its view. The migrating marker of the loser may or may not survive,
\* depending on the release.
Gossip(m, n, s) ==
    /\ m # n /\ Claims(m, s) /\ owner[n][s] # m
    /\ importing[n][s] = None
    /\ Yields(n, s, m)
    /\ owner' = [owner EXCEPT ![n][s] = m]
    /\ \/ UNCHANGED migrating
       \/ migrating' = [migrating EXCEPT ![n][s] = None]
    /\ store' = IF Claims(n, s)
                THEN [store EXCEPT ![n] = [k \in Key |->
                         IF SlotOf[k] = s THEN 0 ELSE @[k]]]
                ELSE store
    /\ UNCHANGED <<importing, epochVars, clientVars>>

-----------------------------------------------------------------------------
\* A node executes a client command on k directly if it owns the slot, unless it is
\* migrating the slot away and no longer has the key: then the client is sent with
\* ASKING to the importing node.
ServesDirect(n, k) ==
    /\ Claims(n, SlotOf[k])
    /\ migrating[n][SlotOf[k]] = None \/ store[n][k] # 0

ServesAsking(n, k) ==
    \E m \in Node \ {n} :
        /\ Claims(m, SlotOf[k]) /\ migrating[m][SlotOf[k]] = n /\ store[m][k] = 0
        /\ Claims(n, SlotOf[k]) \/ importing[n][SlotOf[k]] # None

Serves(n, k) == ServesDirect(n, k) \/ ServesAsking(n, k)

ClientWrite(n, k) ==
    /\ writes[k] < MaxWrites
    /\ Serves(n, k)
    /\ writes' = [writes EXCEPT ![k] = @ + 1]
    /\ acked' = [acked EXCEPT ![k] = writes[k] + 1]
    /\ store' = [store EXCEPT ![n][k] = writes[k] + 1]
    /\ UNCHANGED <<owner, markVars, epochVars>>

ClientDelete(n, k) ==
    /\ Serves(n, k) /\ store[n][k] # 0
    /\ acked' = [acked EXCEPT ![k] = 0]
    /\ store' = [store EXCEPT ![n][k] = 0]
    /\ UNCHANGED <<owner, markVars, epochVars, writes>>
=============================================================================
