----------------------------- MODULE SlotMover ------------------------------
(***************************************************************************)
(* The operator's native slot mover, internal/cluster/goredis.go:          *)
(* MoveSlots (IMPORTING, MIGRATING, MIGRATE ... REPLACE, then SETSLOT NODE *)
(* on every primary) and RepairSlots (finalise every open slot), one       *)
(* action per command they send, interleaved with clients and with the     *)
(* cluster bus. The operator keeps nothing on disk: an error returned by a *)
(* command, a lost reply and a crash of the operator all leave the nodes   *)
(* as they are and the next pass starting from what it observes.           *)
(***************************************************************************)
EXTENDS Valkey

CONSTANTS
    Master,     \* the primaries; the other nodes are replicas, which only hear the bus
    Seed,       \* the node whose CLUSTER NODES reply the operator reads
    BatchSize,  \* keys per MIGRATE (128 in the code)
    RepairCap,  \* keys fetched per node by RepairSlots (1000 in the code)
    StartEpoch, \* the cluster's current epoch at first; no node has a higher one
    MaxFails    \* bound: failed or lost commands

ASSUME MoverAssumption ==
    /\ Master \subseteq Node /\ Seed \in Node
    /\ BatchSize \in Nat \ {0} /\ RepairCap \in Nat \ {0}
    /\ StartEpoch \in Nat \ {0} /\ MaxFails \in Nat

VARIABLES
    pc,     \* the command the operator sends next
    src,    \* MoveSlots: fromNodeID
    dst,    \* MoveSlots: toNodeID; RepairSlots: the owner of the slot at hand
    view,   \* RepairSlots: slot owners in the snapshot taken from the seed
    todo,   \* slots still to be moved or repaired
    slot,   \* the slot at hand
    batch,  \* keys fetched and not migrated yet
    rest,   \* primaries the current loop has not visited yet
    cur,    \* RepairSlots: the primary being visited
    fails   \* failed or lost commands so far

opVars == <<pc, src, dst, view, todo, slot, batch, rest, cur>>
vars == <<valkeyVars, opVars, fails>>

PCs == {"idle", "probe", "importing", "migrating", "getkeys", "migrate", "assign",
        "repair", "stray", "restore", "stable", "node"}

TypeOK ==
    /\ ValkeyTypeOK
    /\ pc \in PCs
    /\ src \in NodeOrNone /\ dst \in NodeOrNone /\ cur \in NodeOrNone
    /\ view \in [Slot -> NodeOrNone]
    /\ todo \subseteq Slot
    /\ slot \in Slot
    /\ batch \subseteq Key
    /\ rest \subseteq Node
    /\ fails \in Nat

\* A formed, covered cluster: every node agrees on the owner of every slot, there
\* are no markers, and a key that exists is on the owner of its slot.
Init ==
    /\ \E o \in [Slot -> Master], present \in SUBSET Key :
        /\ owner = [n \in Node |-> o]
        /\ store = [n \in Node |-> [k \in Key |->
               IF k \in present /\ o[SlotOf[k]] = n THEN 1 ELSE 0]]
        /\ acked = [k \in Key |-> IF k \in present THEN 1 ELSE 0]
        /\ writes = [k \in Key |-> IF k \in present THEN 1 ELSE 0]
    /\ importing = [n \in Node |-> [s \in Slot |-> None]]
    /\ migrating = [n \in Node |-> [s \in Slot |-> None]]
    /\ currentEpoch = StartEpoch
    /\ epoch \in [Node -> 1..StartEpoch]
    /\ \A m, n \in Node : m # n => epoch[m] # epoch[n]
    /\ pc = "idle" /\ src = None /\ dst = None /\ cur = None
    /\ view = [s \in Slot |-> None]
    /\ todo = {} /\ slot \in Slot /\ batch = {} /\ rest = {}
    /\ fails = 0

-----------------------------------------------------------------------------
\* The local variables are dead once a call has returned.
Return ==
    /\ pc' = "idle" /\ src' = None /\ dst' = None /\ cur' = None
    /\ view' = [s \in Slot |-> None]
    /\ todo' = {} /\ batch' = {} /\ rest' = {} /\ UNCHANGED slot

\* One more command has failed.
Lose == fails < MaxFails /\ fails' = fails + 1

\* A command fails without effect, its reply is lost (the effect was an earlier
\* step), or the operator dies.
Fail ==
    /\ pc # "idle"
    /\ Lose
    /\ Return
    /\ UNCHANGED valkeyVars

\* A command is refused by the node: the call returns its error.
Refused == Return /\ UNCHANGED <<valkeyVars, fails>>

Goto(label) ==
    /\ pc' = label
    /\ UNCHANGED <<src, dst, view, todo, slot, batch, rest, cur, clientVars, fails>>

-----------------------------------------------------------------------------
\* The slots of f in the seed's reply.
Booked(f) == {s \in Slot : owner[Seed][s] = f}

\* Mutant of MoveSlots: a range is read as ending, and beginning, one slot later.
MoveSlotsShifted(f, t, n) ==
    /\ pc = "idle"
    /\ f # t /\ n > 0 /\ Booked(f) # {}
    /\ todo' = {s + 1 : s \in {r \in Booked(f) : Cardinality({q \in Booked(f) : q < r}) < n}}
    /\ src' = f /\ dst' = t /\ pc' = "probe"
    /\ UNCHANGED <<valkeyVars, view, slot, batch, rest, cur, fails>>

\* Mutant of MoveSlots: open slots are left to a repair.
MoveSlotsClosed(f, t, n) ==
    /\ pc = "idle"
    /\ f # t /\ n > 0
    /\ todo' = {s \in Booked(f) : ~OpenOn(f, s) /\ Cardinality({r \in Booked(f) : r < s}) < n}
    /\ todo' # {}
    /\ src' = f /\ dst' = t /\ pc' = "probe"
    /\ UNCHANGED <<valkeyVars, view, slot, batch, rest, cur, fails>>

\* MoveSlots(seed, f, t, n): the snapshot is read from the seed, and the first n of
\* the slots it shows for f are taken, lowest first.
MoveSlots(f, t, n) ==
    /\ pc = "idle"
    /\ f # t /\ n > 0 /\ Booked(f) # {}
    /\ todo' = {s \in Booked(f) : Cardinality({r \in Booked(f) : r < s}) < n}
    /\ src' = f /\ dst' = t /\ pc' = "probe"
    /\ UNCHANGED <<valkeyVars, view, slot, batch, rest, cur, fails>>

\* The probe: a slot without keys goes straight to the assignment of its owner.
Probe ==
    /\ pc = "probe"
    /\ \E s \in todo :
        /\ \A t \in todo : s <= t
        /\ slot' = s /\ todo' = todo \ {s}
        /\ pc' = IF KeysIn(src, s) = {} THEN "assign" ELSE "importing"
    /\ rest' = Master
    /\ UNCHANGED <<valkeyVars, src, dst, view, batch, cur, fails>>

\* Mutant of SetImporting: its error is ignored.
SetImportingIgnored ==
    /\ pc = "importing" /\ pc' = "migrating"
    /\ \/ SetSlotImporting(dst, slot, src) /\ UNCHANGED fails
       \/ Lose /\ UNCHANGED nodeVars
    /\ UNCHANGED <<src, dst, view, todo, slot, batch, rest, cur, clientVars>>

SetImporting ==
    /\ pc = "importing"
    /\ IF SetSlotImportingOk(dst, slot)
       THEN SetSlotImporting(dst, slot, src) /\ Goto("migrating")
       ELSE Refused

SetMigrating ==
    /\ pc = "migrating"
    /\ IF SetSlotMigratingOk(src, slot)
       THEN SetSlotMigrating(src, slot, dst) /\ Goto("getkeys")
       ELSE Refused

\* The key loop: fetch up to BatchSize keys, until the slot is empty on the source.
GetKeys ==
    /\ pc = "getkeys"
    /\ batch' \in GetKeysInSlot(src, slot, BatchSize)
    /\ pc' = IF batch' = {} THEN "assign" ELSE "migrate"
    /\ UNCHANGED <<valkeyVars, src, dst, view, todo, slot, rest, cur, fails>>

\* Mutant of Migrate: one batch of keys is taken for the whole slot.
MigrateOnce ==
    /\ pc = "migrate" /\ MigrateOk(src, dst, slot)
    /\ Transfer(src, dst, batch \cap KeysIn(src, slot), batch \cap KeysIn(src, slot))
    /\ pc' = "assign" /\ batch' = {}
    /\ UNCHANGED <<src, dst, view, todo, slot, rest, cur, clientVars, fails>>

\* MIGRATE ... REPLACE KEYS batch. Keys deleted since they were fetched are skipped
\* by the node.
Migrate ==
    /\ pc = "migrate"
    /\ LET keys == batch \cap KeysIn(src, slot)
       IN  \/ /\ MigrateOk(src, dst, slot)
              /\ Transfer(src, dst, keys, keys)
              /\ pc' = "getkeys" /\ batch' = {}
              /\ UNCHANGED <<src, dst, view, todo, slot, rest, cur, clientVars, fails>>
           \* an error part-way: some keys moved, some are now on both nodes
           \/ /\ MigrateOk(src, dst, slot)
              /\ \E copied \in SUBSET keys : \E deleted \in SUBSET copied :
                    Transfer(src, dst, copied, deleted)
              /\ Return
              /\ Lose /\ UNCHANGED clientVars
           \/ ~MigrateOk(src, dst, slot) /\ Refused

\* assignOwner: SETSLOT NODE on every primary, in the order of the CLUSTER NODES
\* reply, which is the order of a hash table.
AssignOwner ==
    /\ pc = "assign"
    /\ \E n \in rest :
        IF SetSlotNodeOk(n, slot, dst)
        THEN /\ SetSlotNode(n, slot, dst)
             /\ IF rest # {n}
                THEN /\ rest' = rest \ {n}
                     /\ UNCHANGED <<pc, src, dst, view, todo, slot, batch, cur>>
                ELSE IF todo # {}
                THEN /\ pc' = "probe" /\ rest' = {}
                     /\ UNCHANGED <<src, dst, view, todo, slot, batch, cur>>
                ELSE Return
             /\ UNCHANGED <<clientVars, fails>>
        ELSE Refused

MoveStep ==
    \/ Probe \/ SetImporting \/ SetMigrating \/ GetKeys \/ Migrate \/ AssignOwner

-----------------------------------------------------------------------------
\* Mutant of RepairSlots: the seed is asked for the markers of all nodes.
RepairSlotsOfSeed ==
    /\ pc = "idle"
    /\ todo' = {s \in Slot : OpenOn(Seed, s)} /\ todo' # {}
    /\ view' = owner[Seed] /\ pc' = "repair"
    /\ UNCHANGED <<valkeyVars, src, dst, slot, batch, rest, cur, fails>>

\* RepairSlots: the snapshot, then collectOpenSlots asks every node for its own
\* markers. A node that cannot be reached is skipped, so its open slots are missed.
RepairSlots ==
    /\ pc = "idle"
    /\ \E skipped \in SUBSET Node :
        /\ IF skipped = {} THEN UNCHANGED fails ELSE Lose
        /\ todo' = {s \in Slot : \E n \in Node \ skipped : OpenOn(n, s)}
    /\ todo' # {}
    /\ view' = owner[Seed] /\ pc' = "repair"
    /\ UNCHANGED <<valkeyVars, src, dst, slot, batch, rest, cur>>

\* The loop over the open slots is finished when none is left.
NextOpenSlot(left) ==
    IF left = {} THEN Return
    ELSE /\ pc' = "repair" /\ todo' = left /\ rest' = {} /\ cur' = None
         /\ UNCHANGED <<src, dst, view, slot, batch>>

\* Mutant of RepairOne: the markers are cleared first, stray keys are left where they are.
RepairOneClearing ==
    /\ pc = "repair"
    /\ \E s \in todo :
        IF view[s] = None
        THEN NextOpenSlot(todo \ {s})
        ELSE /\ slot' = s /\ dst' = view[s] /\ todo' = todo \ {s}
             /\ rest' = Master /\ pc' = "stable"
             /\ UNCHANGED <<src, view, batch, cur>>
    /\ UNCHANGED <<valkeyVars, fails>>

\* One open slot (they come out of a map, in any order). A slot without an owner in
\* the snapshot is left alone.
RepairOne ==
    /\ pc = "repair"
    /\ \E s \in todo :
        IF view[s] = None
        THEN NextOpenSlot(todo \ {s})
        ELSE /\ slot' = s /\ dst' = view[s] /\ todo' = todo \ {s}
             /\ rest' = Master \ {view[s]} /\ pc' = "stray"
             /\ UNCHANGED <<src, view, batch, cur>>
    /\ UNCHANGED <<valkeyVars, fails>>

\* Step 1: visit every primary but the owner and fetch the keys it holds for the
\* slot; an error counts as no keys.
Stray ==
    /\ pc = "stray"
    /\ \/ /\ rest = {} /\ pc' = "stable" /\ rest' = Master
          /\ UNCHANGED <<cur, batch, fails>>
       \/ \E n \in rest :
            /\ pc' = "restore" /\ rest' = rest \ {n} /\ cur' = n
            /\ \/ batch' \in GetKeysInSlot(n, slot, RepairCap) /\ UNCHANGED fails
               \/ batch' = {} /\ Lose
    /\ UNCHANGED <<valkeyVars, src, dst, view, todo, slot>>

\* A command whose error RepairSlots ignores: it takes effect, fails, or is refused.
Ignoring(ok, command) ==
    \/ ok /\ command /\ UNCHANGED fails
    \/ ok /\ Lose /\ UNCHANGED nodeVars
    \/ ~ok /\ UNCHANGED <<nodeVars, fails>>

\* ... and migrate them to the owner one at a time, without REPLACE, ignoring
\* errors: the key stays where it is, or is left on both nodes.
RestoreOk(k) == MigrateOk(cur, dst, slot) /\ store[cur][k] # 0 /\ store[dst][k] = 0

Restore ==
    /\ pc = "restore"
    /\ \/ /\ batch = {} /\ pc' = "stray" /\ cur' = None
          /\ UNCHANGED <<valkeyVars, batch, fails>>
       \/ \E k \in batch :
            /\ batch' = batch \ {k}
            /\ \/ Ignoring(RestoreOk(k), Transfer(cur, dst, {k}, {k}))
               \/ RestoreOk(k) /\ Transfer(cur, dst, {k}, {}) /\ Lose
            /\ UNCHANGED <<clientVars, pc, cur>>
    /\ UNCHANGED <<src, dst, view, todo, slot, rest>>

\* Step 2: SETSLOT STABLE, then SETSLOT NODE owner, on every primary in turn.
Stable ==
    /\ pc = "stable"
    /\ \E n \in rest :
        /\ Ignoring(TRUE, SetSlotStable(n, slot))
        /\ cur' = n /\ rest' = rest \ {n} /\ pc' = "node"
    /\ UNCHANGED <<src, dst, view, todo, slot, batch, clientVars>>

AssertOwner ==
    /\ pc = "node"
    /\ Ignoring(SetSlotNodeOk(cur, slot, dst), SetSlotNode(cur, slot, dst))
    /\ IF rest = {} THEN NextOpenSlot(todo)
       ELSE /\ pc' = "stable" /\ cur' = None
            /\ UNCHANGED <<src, dst, view, todo, slot, batch, rest>>
    /\ UNCHANGED clientVars

RepairStep == RepairOne \/ Stray \/ Restore \/ Stable \/ AssertOwner

-----------------------------------------------------------------------------
Client == \E n \in Node, k \in Key :
    (ClientWrite(n, k) \/ ClientDelete(n, k)) /\ UNCHANGED <<opVars, fails>>

Bus == \E m, n \in Node, s \in Slot :
    Gossip(m, n, s) /\ UNCHANGED <<opVars, fails>>

=============================================================================
