---------------------------- MODULE MoverProofs -----------------------------
(***************************************************************************)
(* What the commands of Valkey do to the tables and the keys, cell by      *)
(* cell, and what the calls of the slot mover do to their own variables.   *)
(* The proofs about the callers (Drain, Repair, ScaleOut) use these lemmas *)
(* instead of the EXCEPTs.                                                 *)
(***************************************************************************)
EXTENDS SlotMover, TLAPS

\* What one update of one cell of a node's table does to every cell.
LEMMA Cell ==
    ASSUME NEW f \in [Node -> [Slot -> NodeOrNone]], NEW g,
           NEW n \in Node, NEW s \in Slot, NEW v \in NodeOrNone,
           g = [f EXCEPT ![n][s] = v]
    PROVE  /\ g \in [Node -> [Slot -> NodeOrNone]]
           /\ \A x \in Node, y \in Slot :
                g[x][y] = IF x = n /\ y = s THEN v ELSE f[x][y]
<1>1. \A x \in Node : g[x] = IF x = n THEN [f[n] EXCEPT ![s] = v] ELSE f[x]
  BY Zenon
<1>2. \A x \in Node : g[x] \in [Slot -> NodeOrNone]
  BY <1>1, Zenon
<1>3. \A x \in Node, y \in Slot : g[x][y] = IF x = n /\ y = s THEN v ELSE f[x][y]
  BY <1>1, Zenon
<1> QED BY <1>2, <1>3, Zenon

\* The tables of the nodes are well typed.
Tables ==
    /\ owner \in [Node -> [Slot -> NodeOrNone]]
    /\ importing \in [Node -> [Slot -> NodeOrNone]]
    /\ migrating \in [Node -> [Slot -> NodeOrNone]]
    /\ epoch \in [Node -> Nat] /\ currentEpoch \in Nat
    /\ store \in [Node -> [Key -> Nat]]

\* The effect of CLUSTER SETSLOT IMPORTING, cell by cell.
LEMMA ImportingEffect ==
    ASSUME Tables, NEW n \in Node, NEW s \in Slot, NEW m \in Node, SetSlotImporting(n, s, m)
    PROVE  /\ Tables'
           /\ owner' = owner /\ migrating' = migrating /\ store' = store
           /\ epoch' = epoch /\ currentEpoch' = currentEpoch
           /\ \A x \in Node, y \in Slot :
                importing'[x][y] = IF x = n /\ y = s THEN m ELSE importing[x][y]
<1>1. m \in NodeOrNone
  BY Zenon DEF NodeOrNone
<1>2. /\ importing' \in [Node -> [Slot -> NodeOrNone]]
      /\ \A x \in Node, y \in Slot :
           importing'[x][y] = IF x = n /\ y = s THEN m ELSE importing[x][y]
  BY <1>1, Cell DEF SetSlotImporting, Tables
<1> QED BY <1>2, Zenon DEF SetSlotImporting, Tables, epochVars

\* The effect of CLUSTER SETSLOT MIGRATING, cell by cell.
LEMMA MigratingEffect ==
    ASSUME Tables, NEW n \in Node, NEW s \in Slot, NEW m \in Node, SetSlotMigrating(n, s, m)
    PROVE  /\ Tables'
           /\ owner' = owner /\ importing' = importing /\ store' = store
           /\ epoch' = epoch /\ currentEpoch' = currentEpoch
           /\ \A x \in Node, y \in Slot :
                migrating'[x][y] = IF x = n /\ y = s THEN m ELSE migrating[x][y]
<1>1. m \in NodeOrNone
  BY Zenon DEF NodeOrNone
<1>2. /\ migrating' \in [Node -> [Slot -> NodeOrNone]]
      /\ \A x \in Node, y \in Slot :
           migrating'[x][y] = IF x = n /\ y = s THEN m ELSE migrating[x][y]
  BY <1>1, Cell DEF SetSlotMigrating, Tables
<1> QED BY <1>2, Zenon DEF SetSlotMigrating, Tables, epochVars

\* The effect of CLUSTER SETSLOT STABLE, cell by cell.
LEMMA StableEffect ==
    ASSUME Tables, NEW n \in Node, NEW s \in Slot, SetSlotStable(n, s)
    PROVE  /\ Tables'
           /\ owner' = owner /\ store' = store
           /\ epoch' = epoch /\ currentEpoch' = currentEpoch
           /\ \A x \in Node, y \in Slot :
                importing'[x][y] = IF x = n /\ y = s THEN None ELSE importing[x][y]
           /\ \A x \in Node, y \in Slot :
                migrating'[x][y] = IF x = n /\ y = s THEN None ELSE migrating[x][y]
<1>1. None \in NodeOrNone
  BY Zenon DEF NodeOrNone
<1>2. /\ importing' \in [Node -> [Slot -> NodeOrNone]]
      /\ \A x \in Node, y \in Slot :
           importing'[x][y] = IF x = n /\ y = s THEN None ELSE importing[x][y]
  BY <1>1, Cell DEF SetSlotStable, Tables
<1>3. /\ migrating' \in [Node -> [Slot -> NodeOrNone]]
      /\ \A x \in Node, y \in Slot :
           migrating'[x][y] = IF x = n /\ y = s THEN None ELSE migrating[x][y]
  BY <1>1, Cell DEF SetSlotStable, Tables
<1> QED BY <1>2, <1>3, Zenon DEF SetSlotStable, Tables, epochVars

\* What CLUSTER SETSLOT s NODE m does on node n, cell by cell.
Assigned(n, s, m) ==
    /\ store' = store
    /\ \A x \in Node, y \in Slot :
         owner'[x][y] = IF x = n /\ y = s THEN m ELSE owner[x][y]
    /\ \A x \in Node, y \in Slot : importing'[x][y] =
         IF x = n /\ y = s /\ m = n THEN None ELSE importing[x][y]
    /\ \A x \in Node, y \in Slot : migrating'[x][y] =
         IF x = n /\ y = s /\ KeysIn(n, s) = {} THEN None ELSE migrating[x][y]
    /\ IF m = n /\ importing[n][s] # None /\ epoch[n] # currentEpoch
       THEN /\ currentEpoch' = currentEpoch + 1
            /\ \A x \in Node : epoch'[x] = IF x = n THEN currentEpoch + 1 ELSE epoch[x]
       ELSE epoch' = epoch /\ currentEpoch' = currentEpoch

\* SETSLOT NODE as Valkey writes it (SetSlotNode) has the effect Assigned lists.
LEMMA NodeEffect ==
    ASSUME Tables, NEW n \in Node, NEW s \in Slot, NEW m \in Node, SetSlotNode(n, s, m)
    PROVE  Tables' /\ Assigned(n, s, m)
<1>1. m \in NodeOrNone /\ None \in NodeOrNone
      /\ importing[n][s] \in NodeOrNone /\ migrating[n][s] \in NodeOrNone
  BY DEF NodeOrNone, Tables
<1>2. /\ owner' \in [Node -> [Slot -> NodeOrNone]]
      /\ \A x \in Node, y \in Slot :
           owner'[x][y] = IF x = n /\ y = s THEN m ELSE owner[x][y]
  BY <1>1, Cell DEF SetSlotNode, Tables
<1>3. PICK i \in NodeOrNone : /\ i = IF m = n THEN None ELSE importing[n][s]
                              /\ importing' = [importing EXCEPT ![n][s] = i]
  BY <1>1, Zenon DEF SetSlotNode
<1>4. /\ importing' \in [Node -> [Slot -> NodeOrNone]]
      /\ \A x \in Node, y \in Slot :
           importing'[x][y] = IF x = n /\ y = s THEN i ELSE importing[x][y]
  BY <1>3, Cell DEF Tables
<1>5. PICK g \in NodeOrNone : /\ g = IF KeysIn(n, s) = {} THEN None ELSE migrating[n][s]
                              /\ migrating' = [migrating EXCEPT ![n][s] = g]
  BY <1>1, Zenon DEF SetSlotNode
<1>6. /\ migrating' \in [Node -> [Slot -> NodeOrNone]]
      /\ \A x \in Node, y \in Slot :
           migrating'[x][y] = IF x = n /\ y = s THEN g ELSE migrating[x][y]
  BY <1>5, Cell DEF Tables
<1>7. epoch' \in [Node -> Nat] /\ currentEpoch' \in Nat
  <2>1. epoch \in [Node -> Nat] /\ currentEpoch \in Nat /\ currentEpoch + 1 \in Nat
    BY DEF Tables
  <2>2. \/ epoch' = [epoch EXCEPT ![n] = currentEpoch + 1] /\ currentEpoch' = currentEpoch + 1
        \/ epoch' = epoch /\ currentEpoch' = currentEpoch
    BY Zenon DEF SetSlotNode, epochVars
  <2> QED BY <2>1, <2>2, Zenon
<1>8. IF m = n /\ importing[n][s] # None /\ epoch[n] # currentEpoch
      THEN /\ currentEpoch' = currentEpoch + 1
           /\ \A x \in Node : epoch'[x] = IF x = n THEN currentEpoch + 1 ELSE epoch[x]
      ELSE epoch' = epoch /\ currentEpoch' = currentEpoch
  BY Zenon DEF SetSlotNode, Tables, epochVars
<1>9. store' = store
  BY Zenon DEF SetSlotNode
<1>10. Tables'
  BY <1>2, <1>4, <1>6, <1>7, <1>9, Zenon DEF Tables
<1>11. \A x \in Node, y \in Slot : importing'[x][y] =
         IF x = n /\ y = s /\ m = n THEN None ELSE importing[x][y]
  <2> SUFFICES ASSUME NEW x \in Node, NEW y \in Slot
               PROVE  importing'[x][y] =
                        IF x = n /\ y = s /\ m = n THEN None ELSE importing[x][y]
    BY Zenon
  <2>1. importing'[x][y] = IF x = n /\ y = s THEN i ELSE importing[x][y]
    BY <1>4, Zenon
  <2> QED BY <1>3, <2>1, Zenon
<1>12. \A x \in Node, y \in Slot : migrating'[x][y] =
         IF x = n /\ y = s /\ KeysIn(n, s) = {} THEN None ELSE migrating[x][y]
  <2> SUFFICES ASSUME NEW x \in Node, NEW y \in Slot
               PROVE  migrating'[x][y] =
                        IF x = n /\ y = s /\ KeysIn(n, s) = {} THEN None ELSE migrating[x][y]
    BY Zenon
  <2>1. migrating'[x][y] = IF x = n /\ y = s THEN g ELSE migrating[x][y]
    BY <1>6, Zenon
  <2> QED BY <1>5, <2>1, Zenon
<1> QED BY <1>2, <1>8, <1>9, <1>10, <1>11, <1>12, Zenon DEF Assigned

\* What the transfer of keys changes: those in c are copied from n to m, and those in d
\* are deleted from n.
Moved(n, m, c, d) ==
    /\ owner' = owner /\ importing' = importing /\ migrating' = migrating
    /\ epoch' = epoch /\ currentEpoch' = currentEpoch
    /\ \A k \in Key : store'[n][k] = IF k \in d THEN 0 ELSE store[n][k]
    /\ \A k \in Key : store'[m][k] = IF k \in c THEN store[n][k] ELSE store[m][k]
    /\ \A x \in Node \ {n, m}, k \in Key : store'[x][k] = store[x][k]

\* The effect of MIGRATE, node by node.
LEMMA TransferMoves ==
    ASSUME Tables, NEW n \in Node, NEW m \in Node, n # m,
           NEW c, c \subseteq Key, NEW d, d \subseteq c, Transfer(n, m, c, d)
    PROVE  Tables' /\ Moved(n, m, c, d)
<1> DEFINE M == [k \in Key |-> IF k \in c THEN store[n][k] ELSE store[m][k]]
           N == [k \in Key |-> IF k \in d THEN 0 ELSE store[n][k]]
<1>1. store \in [Node -> [Key -> Nat]]
  BY Zenon DEF Tables
<1>2. store' = [store EXCEPT ![m] = M, ![n] = N]
  BY <1>1, Zenon DEF Transfer
<1>3. M \in [Key -> Nat] /\ N \in [Key -> Nat]
  BY <1>1, Zenon
<1>4. \A x \in Node : store'[x] = IF x = n THEN N ELSE IF x = m THEN M ELSE store[x]
  BY <1>1, <1>2, Zenon
<1>5. store' \in [Node -> [Key -> Nat]]
  BY <1>1, <1>2, <1>3, Zenon
<1>6. /\ \A k \in Key : store'[n][k] = IF k \in d THEN 0 ELSE store[n][k]
      /\ \A k \in Key : store'[m][k] = IF k \in c THEN store[n][k] ELSE store[m][k]
      /\ \A x \in Node \ {n, m}, k \in Key : store'[x][k] = store[x][k]
  <2>1. \A k \in Key : /\ M[k] = IF k \in c THEN store[n][k] ELSE store[m][k]
                       /\ N[k] = IF k \in d THEN 0 ELSE store[n][k]
    BY Zenon
  <2> HIDE DEF M, N
  <2> QED BY <1>4, <2>1, Zenon
<1>7. /\ owner' = owner /\ importing' = importing /\ migrating' = migrating
      /\ epoch' = epoch /\ currentEpoch' = currentEpoch
  BY Zenon DEF Transfer, markVars, epochVars
<1> QED BY <1>5, <1>6, <1>7, Zenon DEF Tables, Moved

\* The effect of MIGRATE, key by key.
LEMMA TransferEffect ==
    ASSUME Tables, NEW n \in Node, NEW m \in Node, n # m,
           NEW c, c \subseteq Key, NEW d, d \subseteq c, Transfer(n, m, c, d)
    PROVE  /\ Tables'
           /\ owner' = owner /\ importing' = importing /\ migrating' = migrating
           /\ epoch' = epoch /\ currentEpoch' = currentEpoch
           /\ \A x \in Node, k \in Key : store'[x][k] =
                IF x = n /\ k \in d THEN 0
                ELSE IF x = m /\ k \in c THEN store[n][k] ELSE store[x][k]
<1>1. Tables' /\ Moved(n, m, c, d)
  BY TransferMoves, Zenon
<1>2. ASSUME NEW x \in Node, NEW k \in Key
      PROVE  store'[x][k] = IF x = n /\ k \in d THEN 0
                            ELSE IF x = m /\ k \in c THEN store[n][k] ELSE store[x][k]
  BY <1>1, Zenon DEF Moved
<1> QED BY <1>1, <1>2, Zenon DEF Moved

\* The effect of hearing a claim on the bus, cell by cell and key by key.
LEMMA GossipEffect ==
    ASSUME Tables, NEW m \in Node, NEW n \in Node, NEW s \in Slot, Gossip(m, n, s)
    PROVE  /\ Tables'
           /\ importing' = importing /\ epoch' = epoch /\ currentEpoch' = currentEpoch
           /\ acked' = acked /\ writes' = writes
           /\ \A x \in Node, y \in Slot :
                owner'[x][y] = IF x = n /\ y = s THEN m ELSE owner[x][y]
           /\ \A x \in Node, y \in Slot :
                \/ migrating'[x][y] = migrating[x][y]
                \/ x = n /\ y = s /\ migrating'[x][y] = None
           /\ \A x \in Node, k \in Key : store'[x][k] =
                IF x = n /\ owner[n][s] = n /\ SlotOf[k] = s THEN 0 ELSE store[x][k]
<1>1. m \in NodeOrNone /\ None \in NodeOrNone
  BY Zenon DEF NodeOrNone
<1>2. /\ owner' \in [Node -> [Slot -> NodeOrNone]]
      /\ \A x \in Node, y \in Slot :
           owner'[x][y] = IF x = n /\ y = s THEN m ELSE owner[x][y]
  BY <1>1, Cell DEF Gossip, Tables
<1>3. /\ migrating' \in [Node -> [Slot -> NodeOrNone]]
      /\ \A x \in Node, y \in Slot :
           \/ migrating'[x][y] = migrating[x][y]
           \/ x = n /\ y = s /\ migrating'[x][y] = None
  <2>1. CASE migrating' = migrating
    BY <2>1, Zenon DEF Tables
  <2>2. CASE migrating' = [migrating EXCEPT ![n][s] = None]
    <3>1. /\ migrating' \in [Node -> [Slot -> NodeOrNone]]
          /\ \A x \in Node, y \in Slot :
               migrating'[x][y] = IF x = n /\ y = s THEN None ELSE migrating[x][y]
      BY <1>1, <2>2, Cell DEF Tables
    <3> QED BY <3>1, Zenon
  <2> QED BY <2>1, <2>2, Zenon DEF Gossip
<1>4. /\ store' \in [Node -> [Key -> Nat]]
      /\ \A x \in Node, k \in Key : store'[x][k] =
           IF x = n /\ owner[n][s] = n /\ SlotOf[k] = s THEN 0 ELSE store[x][k]
  <2> DEFINE N == [k \in Key |-> IF SlotOf[k] = s THEN 0 ELSE store[n][k]]
  <2>1. store \in [Node -> [Key -> Nat]]
    BY Zenon DEF Tables
  <2>2. N \in [Key -> Nat]
    BY <2>1, Zenon
  <2>3. CASE owner[n][s] = n
    <3>1. store' = [store EXCEPT ![n] = N]
      BY <2>1, <2>3, Zenon DEF Gossip, Claims
    <3>2. \A x \in Node : store'[x] = IF x = n THEN N ELSE store[x]
      BY <2>1, <3>1, Zenon
    <3> QED BY <2>1, <2>2, <2>3, <3>1, <3>2, Zenon
  <2>4. CASE owner[n][s] # n
    BY <2>1, <2>4, Zenon DEF Gossip, Claims
  <2> QED BY <2>3, <2>4, Zenon
<1>5. importing' = importing /\ epoch' = epoch /\ currentEpoch' = currentEpoch
      /\ acked' = acked /\ writes' = writes
  BY Zenon DEF Gossip, epochVars, clientVars
<1>6. Tables'
  BY <1>2, <1>3, <1>4, <1>5, Zenon DEF Tables
<1> QED BY <1>2, <1>3, <1>4, <1>5, <1>6, Zenon

\* The effect of a client's write or delete: a node that serves the key holds what
\* the client was told, and nothing else changes.
LEMMA ClientEffect ==
    ASSUME ValkeyTypeOK, NEW n \in Node, NEW k \in Key, ClientWrite(n, k) \/ ClientDelete(n, k)
    PROVE  /\ Tables' /\ acked' \in [Key -> Nat] /\ writes' \in [Key -> Nat]
           /\ owner' = owner /\ importing' = importing /\ migrating' = migrating
           /\ epoch' = epoch /\ currentEpoch' = currentEpoch
           /\ Serves(n, k)
           /\ store'[n][k] = acked'[k]
           /\ \A x \in Node, y \in Key : x # n \/ y # k => store'[x][y] = store[x][y]
           /\ \A y \in Key : y # k => acked'[y] = acked[y]
<1>1. /\ store \in [Node -> [Key -> Nat]] /\ acked \in [Key -> Nat]
      /\ writes \in [Key -> Nat] /\ Tables
  BY Zenon DEF ValkeyTypeOK, Tables
<1>2. PICK v \in Nat : store' = [store EXCEPT ![n][k] = v] /\ acked' = [acked EXCEPT ![k] = v]
  <2>1. writes[k] + 1 \in Nat
    BY <1>1
  <2> QED BY <2>1, Zenon DEF ClientWrite, ClientDelete
<1>3. \A x \in Node : store'[x] = IF x = n THEN [store[n] EXCEPT ![k] = v] ELSE store[x]
  BY <1>1, <1>2, Zenon
<1>4. store' \in [Node -> [Key -> Nat]]
  BY <1>1, <1>2, <1>3, Zenon
<1>5. acked' \in [Key -> Nat] /\ writes' \in [Key -> Nat]
  BY <1>1, <1>2 DEF ClientWrite, ClientDelete
<1>6. /\ store'[n][k] = acked'[k]
      /\ \A x \in Node, y \in Key : x # n \/ y # k => store'[x][y] = store[x][y]
      /\ \A y \in Key : y # k => acked'[y] = acked[y]
  BY <1>1, <1>2, <1>3, Zenon
<1>7. /\ owner' = owner /\ importing' = importing /\ migrating' = migrating
      /\ epoch' = epoch /\ currentEpoch' = currentEpoch /\ Serves(n, k)
  BY Zenon DEF ClientWrite, ClientDelete, markVars, epochVars
<1> QED BY <1>1, <1>4, <1>5, <1>6, <1>7, Zenon DEF Tables

-----------------------------------------------------------------------------
\* The types of the variables of the calls, and of the clients.
Locals ==
    /\ pc \in PCs
    /\ src \in NodeOrNone /\ dst \in NodeOrNone /\ cur \in NodeOrNone
    /\ view \in [Slot -> NodeOrNone]
    /\ todo \subseteq Slot /\ slot \in Slot /\ batch \subseteq Key /\ rest \subseteq Node
    /\ fails \in Nat

Clients == acked \in [Key -> Nat] /\ writes \in [Key -> Nat]

InMove == pc \in {"probe", "importing", "migrating", "getkeys", "migrate", "assign"}

\* A call under way has its arguments: MoveSlots two different nodes, RepairSlots the
\* owner of the slot at hand, and the primary it is visiting.
AtWork ==
    /\ InMove => src \in Node /\ dst \in Node /\ src # dst
    /\ pc \in {"stray", "restore", "stable", "node"} => dst \in Node
    /\ pc \in {"restore", "node"} => cur \in Node

\* The type invariant is the sum of its parts.
LEMMA TypeParts == TypeOK <=> Tables /\ Clients /\ Locals
BY Zenon DEF TypeOK, ValkeyTypeOK, Tables, Clients, Locals

\* What leaves the parts of the type invariant alone, keeps them.
LEMMA TypeFrames ==
    ASSUME TypeOK
    PROVE  /\ UNCHANGED nodeVars => Tables'
           /\ UNCHANGED clientVars => Clients'
           /\ UNCHANGED <<opVars, fails>> => Locals' /\ (AtWork => AtWork')
           /\ Return /\ fails' \in Nat => Locals' /\ AtWork'
           /\ Lose => fails' \in Nat
<1> USE ValkeyAssumption, MoverAssumption
<1>1. UNCHANGED nodeVars => Tables'
  BY Zenon DEF TypeOK, ValkeyTypeOK, Tables, nodeVars, markVars, epochVars
<1>2. UNCHANGED clientVars => Clients'
  BY Zenon DEF TypeOK, ValkeyTypeOK, Clients, clientVars
<1>3. UNCHANGED <<opVars, fails>> => Locals' /\ (AtWork => AtWork')
  BY Zenon DEF TypeOK, Locals, opVars, AtWork, InMove
<1>4. Return /\ fails' \in Nat => Locals' /\ AtWork'
  BY Zenon DEF TypeOK, Return, Locals, AtWork, InMove, PCs, NodeOrNone
<1>5. Lose => fails' \in Nat
  BY DEF TypeOK, Lose
<1> QED BY <1>1, <1>2, <1>3, <1>4, <1>5, Zenon

\* Each command of MoveSlots keeps the variables in their types, and the call has two
\* different nodes as long as it goes on.
LEMMA MoveTypes == TypeOK /\ AtWork /\ MoveStep => TypeOK' /\ AtWork'
<1> SUFFICES ASSUME TypeOK, AtWork, MoveStep PROVE TypeOK' /\ AtWork'
  BY Zenon
<1> USE ValkeyAssumption, MoverAssumption
<1>0. Tables /\ Clients /\ Locals
  BY TypeParts, Zenon
<1>a. ASSUME Tables', Clients', Locals', AtWork' PROVE TypeOK' /\ AtWork'
  BY <1>a, Zenon DEF TypeOK, ValkeyTypeOK, Tables, Clients, Locals
<1>b. slot \in Slot /\ fails \in Nat
  BY Zenon DEF TypeOK
<1>c. Refused => TypeOK' /\ AtWork'
  BY <1>a, <1>b, TypeFrames, Zenon DEF Refused, valkeyVars
<1>d. InMove => src \in Node /\ dst \in Node /\ src # dst
  BY Zenon DEF AtWork
<1>e. ASSUME NEW l \in PCs, Goto(l), InMove, l \in {"migrating", "getkeys"}
      PROVE  Clients' /\ Locals' /\ AtWork'
  <2>1. Clients'
    BY <1>e, TypeFrames, Zenon DEF Goto
  <2>2. Locals'
    BY <1>e, Zenon DEF Goto, TypeOK, Locals
  <2> QED BY <1>d, <1>e, <2>1, <2>2, Zenon DEF Goto, AtWork
<1>1. CASE Probe
  <2>1. Tables' /\ Clients'
    BY <1>1, TypeFrames, Zenon DEF Probe, valkeyVars
  <2>2. Locals'
    BY <1>1, Zenon DEF Probe, TypeOK, Locals, PCs
  <2>3. AtWork'
    BY <1>1, <1>d, Zenon DEF Probe, AtWork, InMove
  <2> QED BY <1>a, <2>1, <2>2, <2>3, Zenon
<1>2. CASE SetImporting
  <2>1. CASE SetSlotImporting(dst, slot, src) /\ Goto("migrating")
    <3>1. InMove /\ src \in Node /\ dst \in Node
      BY <1>2, <1>d, Zenon DEF SetImporting, InMove
    <3>2. Tables'
      BY <1>0, <1>b, <2>1, <3>1, ImportingEffect, Zenon
    <3>3. Clients' /\ Locals' /\ AtWork'
      BY <1>e, <2>1, <3>1, Zenon DEF PCs
    <3> QED BY <1>a, <3>2, <3>3, Zenon
  <2> QED BY <1>2, <1>c, <2>1, Zenon DEF SetImporting
<1>3. CASE SetMigrating
  <2>1. CASE SetSlotMigrating(src, slot, dst) /\ Goto("getkeys")
    <3>1. InMove /\ src \in Node /\ dst \in Node
      BY <1>3, <1>d, Zenon DEF SetMigrating, InMove
    <3>2. Tables'
      BY <1>0, <1>b, <2>1, <3>1, MigratingEffect, Zenon
    <3>3. Clients' /\ Locals' /\ AtWork'
      BY <1>e, <2>1, <3>1, Zenon DEF PCs
    <3> QED BY <1>a, <3>2, <3>3, Zenon
  <2> QED BY <1>3, <1>c, <2>1, Zenon DEF SetMigrating
<1>4. CASE GetKeys
  <2>1. Tables' /\ Clients'
    BY <1>4, TypeFrames, Zenon DEF GetKeys, valkeyVars
  <2>2. batch' \subseteq Key
    BY <1>4, Zenon DEF GetKeys, GetKeysInSlot, KeysIn
  <2>3. Locals'
    BY <1>4, <2>2, Zenon DEF GetKeys, TypeOK, Locals, PCs
  <2>4. AtWork'
    BY <1>4, <1>d, Zenon DEF GetKeys, AtWork, InMove
  <2> QED BY <1>a, <2>1, <2>3, <2>4, Zenon
<1>5. CASE Migrate
  <2>1. PICK keys : keys = batch \cap KeysIn(src, slot) /\ keys \subseteq Key
    BY Zenon DEF KeysIn
  <2>2. InMove /\ src \in Node /\ dst \in Node /\ src # dst
    BY <1>5, <1>d, Zenon DEF Migrate, InMove
  <2>3. CASE /\ Transfer(src, dst, keys, keys)
             /\ pc' = "getkeys" /\ batch' = {}
             /\ UNCHANGED <<src, dst, view, todo, slot, rest, cur, clientVars, fails>>
    <3>1. Tables'
      BY <1>0, <2>1, <2>2, <2>3, TransferEffect, Zenon
    <3>2. Clients'
      BY <2>3, TypeFrames, Zenon
    <3>3. Locals'
      BY <2>3, Zenon DEF TypeOK, Locals, PCs
    <3>4. AtWork'
      BY <2>2, <2>3, Zenon DEF AtWork, InMove
    <3> QED BY <1>a, <3>1, <3>2, <3>3, <3>4, Zenon
  <2>4. CASE /\ \E copied \in SUBSET keys : \E deleted \in SUBSET copied :
                   Transfer(src, dst, copied, deleted)
             /\ Return /\ Lose /\ UNCHANGED clientVars
    <3>1. PICK c \in SUBSET keys : \E deleted \in SUBSET c : Transfer(src, dst, c, deleted)
      BY <2>4, Zenon
    <3>2. PICK d \in SUBSET c : Transfer(src, dst, c, d)
      BY <3>1, Zenon
    <3>3. Tables'
      BY <1>0, <2>1, <2>2, <3>2, TransferEffect, Zenon
    <3>4. Clients' /\ Locals' /\ AtWork'
      BY <2>4, TypeFrames, Zenon
    <3> QED BY <1>a, <3>3, <3>4, Zenon
  <2> QED BY <1>5, <1>c, <2>1, <2>3, <2>4, Zenon DEF Migrate
<1>6. CASE AssignOwner
  <2>1. PICK n \in rest :
           \/ Refused
           \/ /\ SetSlotNode(n, slot, dst) /\ UNCHANGED <<clientVars, fails>>
              /\ \/ Return
                 \/ /\ rest' \in {rest \ {n}, {}} /\ pc' \in {pc, "probe"}
                    /\ UNCHANGED <<src, dst, view, todo, slot, batch, cur>>
    BY <1>6, Zenon DEF AssignOwner
  <2>2. n \in Node /\ InMove /\ src \in Node /\ dst \in Node /\ src # dst
    BY <1>6, <1>d, Zenon DEF AssignOwner, InMove, TypeOK
  <2>3. CASE /\ SetSlotNode(n, slot, dst) /\ UNCHANGED <<clientVars, fails>>
             /\ \/ Return
                \/ /\ rest' \in {rest \ {n}, {}} /\ pc' \in {pc, "probe"}
                   /\ UNCHANGED <<src, dst, view, todo, slot, batch, cur>>
    <3>1. Tables'
      BY <1>0, <1>b, <2>2, <2>3, NodeEffect, Zenon
    <3>2. Clients'
      BY <2>3, TypeFrames, Zenon
    <3>3. CASE Return
      BY <1>a, <1>b, <2>3, <3>1, <3>2, <3>3, TypeFrames, Zenon
    <3>4. CASE /\ rest' \in {rest \ {n}, {}} /\ pc' \in {pc, "probe"}
               /\ UNCHANGED <<src, dst, view, todo, slot, batch, cur>>
      <4>1. Locals'
        BY <2>3, <3>4, Zenon DEF TypeOK, Locals, PCs
      <4>2. AtWork'
        BY <2>2, <3>4, Zenon DEF AtWork, InMove
      <4> QED BY <1>a, <3>1, <3>2, <4>1, <4>2, Zenon
    <3> QED BY <2>3, <3>3, <3>4, Zenon
  <2> QED BY <1>c, <2>1, <2>3, Zenon
<1> QED BY <1>1, <1>2, <1>3, <1>4, <1>5, <1>6, Zenon DEF MoveStep

\* Each command of RepairSlots keeps the variables in their types: in particular the
\* owner it asserts is a node, whatever the snapshot said of the slots.
LEMMA RepairTypes == TypeOK /\ AtWork /\ RepairStep => TypeOK' /\ AtWork'
<1> SUFFICES ASSUME TypeOK, AtWork, RepairStep PROVE TypeOK' /\ AtWork'
  BY Zenon
<1> USE ValkeyAssumption, MoverAssumption
<1>0. Tables /\ Clients /\ Locals
  BY TypeParts, Zenon
<1>a. ASSUME Tables', Clients', Locals', AtWork' PROVE TypeOK' /\ AtWork'
  BY <1>a, Zenon DEF TypeOK, ValkeyTypeOK, Tables, Clients, Locals
<1>b. slot \in Slot /\ fails \in Nat /\ todo \subseteq Slot
  BY Zenon DEF TypeOK
<1>c. ASSUME NEW l, l \subseteq Slot, NextOpenSlot(l), fails' \in Nat
      PROVE  Locals' /\ AtWork'
  <2>1. CASE Return
    BY <1>c, <2>1, TypeFrames, Zenon
  <2>2. CASE /\ pc' = "repair" /\ todo' = l /\ rest' = {} /\ cur' = None
             /\ UNCHANGED <<src, dst, view, slot, batch>>
    BY <1>c, <2>2, Zenon DEF TypeOK, Locals, AtWork, InMove, PCs, NodeOrNone
  <2> QED BY <1>c, <2>1, <2>2, Zenon DEF NextOpenSlot
<1>1. CASE RepairOne
  <2>1. Tables' /\ Clients'
    BY <1>1, TypeFrames, Zenon DEF RepairOne, valkeyVars
  <2>2. fails' \in Nat
    BY <1>1, <1>b, Zenon DEF RepairOne
  <2>3. PICK s \in todo :
           IF view[s] = None
           THEN NextOpenSlot(todo \ {s})
           ELSE /\ slot' = s /\ dst' = view[s] /\ todo' = todo \ {s}
                /\ rest' = Master \ {view[s]} /\ pc' = "stray"
                /\ UNCHANGED <<src, view, batch, cur>>
    BY <1>1, Zenon DEF RepairOne
  <2>4. CASE view[s] = None
    BY <1>a, <1>b, <1>c, <2>1, <2>2, <2>3, <2>4, Zenon
  <2>5. CASE view[s] # None
    <3>1. view[s] \in Node
      BY <2>5, Zenon DEF TypeOK, NodeOrNone
    <3>2. Locals'
      BY <2>2, <2>3, <2>5, <3>1, Zenon DEF TypeOK, Locals, PCs, NodeOrNone
    <3>3. AtWork'
      BY <2>3, <2>5, <3>1, Zenon DEF AtWork, InMove
    <3> QED BY <1>a, <2>1, <3>2, <3>3, Zenon
  <2> QED BY <2>4, <2>5, Zenon
<1>2. CASE Stray
  <2>1. Tables' /\ Clients'
    BY <1>2, TypeFrames, Zenon DEF Stray, valkeyVars
  <2>2. dst \in Node
    BY <1>2, Zenon DEF Stray, AtWork
  <2>3. CASE /\ pc' = "stable" /\ rest' = Master /\ UNCHANGED <<cur, batch, fails>>
             /\ UNCHANGED <<src, dst, view, todo, slot>>
    <3>1. Locals'
      BY <2>3, Zenon DEF TypeOK, Locals, PCs
    <3>2. AtWork'
      BY <2>2, <2>3, Zenon DEF AtWork, InMove
    <3> QED BY <1>a, <2>1, <3>1, <3>2, Zenon
  <2>4. ASSUME NEW n \in rest, pc' = "restore", rest' = rest \ {n}, cur' = n,
               \/ batch' \in GetKeysInSlot(n, slot, RepairCap) /\ UNCHANGED fails
               \/ batch' = {} /\ Lose,
               UNCHANGED <<src, dst, view, todo, slot>>
        PROVE  TypeOK' /\ AtWork'
    <3>1. batch' \subseteq Key /\ fails' \in Nat
      BY <2>4, <1>b, TypeFrames, Zenon DEF GetKeysInSlot, KeysIn
    <3>2. n \in Node
      BY Zenon DEF TypeOK
    <3>3. Locals'
      BY <2>4, <3>1, <3>2, Zenon DEF TypeOK, Locals, PCs, NodeOrNone
    <3>4. AtWork'
      BY <2>2, <2>4, <3>2, Zenon DEF AtWork, InMove
    <3> QED BY <1>a, <2>1, <3>3, <3>4, Zenon
  <2> QED BY <1>2, <2>3, <2>4, Zenon DEF Stray
<1>3. CASE Restore
  <2>1. dst \in Node /\ cur \in Node /\ pc = "restore"
    BY <1>3, Zenon DEF Restore, AtWork
  <2>2. CASE /\ pc' = "stray" /\ cur' = None /\ UNCHANGED <<valkeyVars, batch, fails>>
             /\ UNCHANGED <<src, dst, view, todo, slot, rest>>
    <3>1. Tables' /\ Clients'
      BY <2>2, TypeFrames, Zenon DEF valkeyVars
    <3>2. Locals'
      BY <2>2, Zenon DEF TypeOK, Locals, PCs, NodeOrNone
    <3>3. AtWork'
      BY <2>1, <2>2, Zenon DEF AtWork, InMove
    <3> QED BY <1>a, <3>1, <3>2, <3>3, Zenon
  <2>3. ASSUME NEW k \in batch, batch' = batch \ {k},
               \/ Ignoring(RestoreOk(k), Transfer(cur, dst, {k}, {k}))
               \/ RestoreOk(k) /\ Transfer(cur, dst, {k}, {}) /\ Lose,
               UNCHANGED <<clientVars, pc, cur>>,
               UNCHANGED <<src, dst, view, todo, slot, rest>>
        PROVE  TypeOK' /\ AtWork'
    <3>1. k \in Key
      BY Zenon DEF TypeOK
    <3>2. fails' \in Nat
      BY <2>3, <1>b, TypeFrames, Zenon DEF Ignoring
    <3>3. \/ UNCHANGED nodeVars
          \/ RestoreOk(k) /\ \E d \in SUBSET {k} : Transfer(cur, dst, {k}, d)
      BY <2>3, Zenon DEF Ignoring
    <3>4. RestoreOk(k) => cur # dst
      BY Zenon DEF RestoreOk
    <3>5. ASSUME RestoreOk(k), NEW d \in SUBSET {k}, Transfer(cur, dst, {k}, d)
          PROVE  Tables'
      BY <1>0, <2>1, <3>1, <3>4, <3>5, TransferEffect, Zenon
    <3>6. Tables'
      BY <3>3, <3>5, TypeFrames, Zenon
    <3>7. Clients'
      BY <2>3, TypeFrames, Zenon
    <3>8. Locals'
      BY <2>3, <3>2, Zenon DEF TypeOK, Locals
    <3>9. AtWork'
      BY <2>1, <2>3, Zenon DEF AtWork, InMove
    <3> QED BY <1>a, <3>6, <3>7, <3>8, <3>9, Zenon
  <2> QED BY <1>3, <2>2, <2>3, Zenon DEF Restore
<1>4. CASE Stable
  <2>1. dst \in Node
    BY <1>4, Zenon DEF Stable, AtWork
  <2>2. PICK n \in rest : /\ Ignoring(TRUE, SetSlotStable(n, slot))
                          /\ cur' = n /\ rest' = rest \ {n} /\ pc' = "node"
    BY <1>4, Zenon DEF Stable
  <2>3. n \in Node
    BY Zenon DEF TypeOK
  <2>4. fails' \in Nat /\ (SetSlotStable(n, slot) \/ UNCHANGED nodeVars)
    BY <2>2, <1>b, TypeFrames, Zenon DEF Ignoring
  <2>5. Tables'
    BY <1>0, <1>b, <2>3, <2>4, StableEffect, TypeFrames, Zenon
  <2>6. Clients'
    BY <1>4, TypeFrames, Zenon DEF Stable
  <2>7. Locals'
    BY <1>4, <2>2, <2>3, <2>4, Zenon DEF Stable, TypeOK, Locals, PCs, NodeOrNone
  <2>8. AtWork'
    BY <1>4, <2>1, <2>2, <2>3, Zenon DEF Stable, AtWork, InMove
  <2> QED BY <1>a, <2>5, <2>6, <2>7, <2>8, Zenon
<1>5. CASE AssertOwner
  <2>1. dst \in Node /\ cur \in Node
    BY <1>5, Zenon DEF AssertOwner, AtWork
  <2>2. fails' \in Nat /\ (SetSlotNode(cur, slot, dst) \/ UNCHANGED nodeVars)
    BY <1>5, <1>b, TypeFrames, Zenon DEF AssertOwner, Ignoring
  <2>3. Tables'
    BY <1>0, <1>b, <2>1, <2>2, NodeEffect, TypeFrames, Zenon
  <2>4. Clients'
    BY <1>5, TypeFrames, Zenon DEF AssertOwner
  <2>5. CASE NextOpenSlot(todo)
    BY <1>a, <1>b, <1>c, <2>2, <2>3, <2>4, <2>5, Zenon
  <2>6. CASE /\ pc' = "stable" /\ cur' = None
             /\ UNCHANGED <<src, dst, view, todo, slot, batch, rest>>
    <3>1. Locals'
      BY <2>2, <2>6, Zenon DEF TypeOK, Locals, PCs, NodeOrNone
    <3>2. AtWork'
      BY <2>1, <2>6, Zenon DEF AtWork, InMove
    <3> QED BY <1>a, <2>3, <2>4, <3>1, <3>2, Zenon
  <2> QED BY <1>5, <2>5, <2>6, Zenon DEF AssertOwner
<1> QED BY <1>1, <1>2, <1>3, <1>4, <1>5, Zenon DEF RepairStep

\* Starting a call, a failure, a client and the bus keep the variables in their types.
LEMMA OtherTypes ==
    ASSUME TypeOK, AtWork
    PROVE  /\ \A f, t \in Node : \A n : MoveSlots(f, t, n) => TypeOK' /\ AtWork'
           /\ RepairSlots => TypeOK' /\ AtWork'
           /\ Fail => TypeOK' /\ AtWork'
           /\ \A n \in Node, k \in Key :
                (ClientWrite(n, k) \/ ClientDelete(n, k)) /\ UNCHANGED <<opVars, fails>>
                    => TypeOK' /\ AtWork'
           /\ \A m, n \in Node, s \in Slot :
                Gossip(m, n, s) /\ UNCHANGED <<opVars, fails>> => TypeOK' /\ AtWork'
<1> USE ValkeyAssumption, MoverAssumption
<1>0. Tables /\ Clients /\ Locals
  BY TypeParts, Zenon
<1>a. ASSUME Tables', Clients', Locals', AtWork' PROVE TypeOK' /\ AtWork'
  BY <1>a, Zenon DEF TypeOK, ValkeyTypeOK, Tables, Clients, Locals
<1>1. ASSUME NEW f \in Node, NEW t \in Node, NEW n, MoveSlots(f, t, n)
      PROVE  TypeOK' /\ AtWork'
  <2>1. Tables' /\ Clients'
    BY <1>1, TypeFrames, Zenon DEF MoveSlots, valkeyVars
  <2>2. Locals'
    BY <1>1, Zenon DEF MoveSlots, Booked, TypeOK, Locals, PCs, NodeOrNone
  <2>3. AtWork'
    BY <1>1, Zenon DEF MoveSlots, AtWork, InMove
  <2> QED BY <1>a, <2>1, <2>2, <2>3, Zenon
<1>2. ASSUME RepairSlots PROVE TypeOK' /\ AtWork'
  <2>1. Tables' /\ Clients'
    BY <1>2, TypeFrames, Zenon DEF RepairSlots, valkeyVars
  <2>2. fails' \in Nat
    BY <1>2, TypeFrames, Zenon DEF RepairSlots, TypeOK
  <2>3. view' \in [Slot -> NodeOrNone] /\ todo' \subseteq Slot
    BY <1>0, <1>2, Zenon DEF RepairSlots, Tables
  <2>4. Locals'
    BY <1>2, <2>2, <2>3, Zenon DEF RepairSlots, TypeOK, Locals, PCs
  <2>5. AtWork'
    BY <1>2, Zenon DEF RepairSlots, AtWork, InMove
  <2> QED BY <1>a, <2>1, <2>4, <2>5, Zenon
<1>3. ASSUME Fail PROVE TypeOK' /\ AtWork'
  BY <1>3, <1>a, TypeFrames, Zenon DEF Fail, valkeyVars
<1>4. ASSUME NEW n \in Node, NEW k \in Key, ClientWrite(n, k) \/ ClientDelete(n, k),
             UNCHANGED <<opVars, fails>>
      PROVE  TypeOK' /\ AtWork'
  <2>1. Tables' /\ Clients'
    BY <1>4, ClientEffect, Zenon DEF TypeOK, Clients
  <2> QED BY <1>4, <1>a, <2>1, TypeFrames, Zenon
<1>5. ASSUME NEW m \in Node, NEW n \in Node, NEW s \in Slot, Gossip(m, n, s),
             UNCHANGED <<opVars, fails>>
      PROVE  TypeOK' /\ AtWork'
  <2>1. Tables' /\ Clients'
    BY <1>0, <1>5, GossipEffect DEF Clients
  <2> QED BY <1>5, <1>a, <2>1, TypeFrames, Zenon
<1> QED BY <1>1, <1>2, <1>3, <1>4, <1>5, Zenon

\* A formed, covered cluster is well typed.
LEMMA InitialTypes == Init => TypeOK /\ AtWork
<1> SUFFICES ASSUME Init PROVE TypeOK /\ AtWork
  BY Zenon
<1> USE ValkeyAssumption, MoverAssumption
<1>1. PICK o \in [Slot -> Master], present \in SUBSET Key :
        /\ owner = [n \in Node |-> o]
        /\ store = [n \in Node |-> [k \in Key |->
               IF k \in present /\ o[SlotOf[k]] = n THEN 1 ELSE 0]]
        /\ acked = [k \in Key |-> IF k \in present THEN 1 ELSE 0]
        /\ writes = [k \in Key |-> IF k \in present THEN 1 ELSE 0]
  BY Zenon DEF Init
<1>2. owner \in [Node -> [Slot -> NodeOrNone]]
  BY <1>1, Zenon DEF NodeOrNone
<1>3. store \in [Node -> [Key -> Nat]]
  BY <1>1, Zenon
<1>4. Clients
  BY <1>1, Zenon DEF Clients
<1>5. currentEpoch \in Nat /\ epoch \in [Node -> Nat]
  BY MoverAssumption DEF Init
<1>6. Tables
  BY <1>2, <1>3, <1>5, Zenon DEF Init, Tables, NodeOrNone
<1>7. Locals /\ AtWork
  BY Zenon DEF Init, Locals, AtWork, InMove, PCs, NodeOrNone
<1> QED BY <1>4, <1>6, <1>7, TypeParts, Zenon
=============================================================================
