---------------------------- MODULE RepairProofs ----------------------------
(***************************************************************************)
(* RepairSlots after interrupted moves, for every number of nodes, slots   *)
(* and keys: the types, and what an undisturbed repair gathers.            *)
(***************************************************************************)
EXTENDS Repair, MoverProofs

\* Each step of Repair keeps the variables in their types.
LEMMA RepairTypeStep ==
    RepairTypeOK /\ AtWork /\ [RepairNext]_repairVars => RepairTypeOK' /\ AtWork'
<1> SUFFICES ASSUME RepairTypeOK, AtWork, [RepairNext]_repairVars
             PROVE  RepairTypeOK' /\ AtWork'
  BY Zenon
<1>0. TypeOK /\ AtWork /\ clean \in BOOLEAN /\ left \subseteq Key
  BY Zenon DEF RepairTypeOK
<1>1. TypeOK' /\ AtWork'
  <2>1. CASE MovePass
    BY <1>0, <2>1, MoveTypes, OtherTypes, RepairAssumption, MoverAssumption, Zenon DEF MovePass
  <2>2. CASE BeginRepair
    BY <1>0, <2>2, OtherTypes, Zenon DEF BeginRepair
  <2>3. CASE ContinueRepair
    BY <1>0, <2>3, RepairTypes, Zenon DEF ContinueRepair
  <2>4. CASE ClientStep
    BY <1>0, <2>4, OtherTypes, Zenon DEF ClientStep
  <2>5. CASE Fail
    BY <1>0, <2>5, OtherTypes, Zenon
  <2>6. CASE Bus
    BY <1>0, <2>6, OtherTypes, Zenon DEF Bus
  <2>7. CASE UNCHANGED repairVars
    <3>1. UNCHANGED <<nodeVars, clientVars, opVars, fails>>
      BY <2>7, Zenon DEF repairVars, vars, valkeyVars
    <3> QED BY <1>0, <3>1, TypeFrames, Zenon DEF TypeOK, ValkeyTypeOK, Tables, Clients, Locals
  <2> QED BY <2>1, <2>2, <2>3, <2>4, <2>5, <2>6, <2>7, Zenon DEF RepairNext
<1>2. clean' \in BOOLEAN /\ left' \subseteq Key
  BY <1>0, Zenon DEF RepairNext, MovePass, BeginRepair, ContinueRepair, ClientStep, repairVars
<1> QED BY <1>1, <1>2, Zenon DEF RepairTypeOK

\* RepairSlots after interrupted migrations: its variables and those of the nodes keep
\* their types, for any cluster and any number of failures; in particular every SETSLOT
\* NODE it sends names a node, also for a slot that the snapshot books on nobody.
THEOREM RepairTypeCorrect == RepairSpec => []RepairTypeOK
<1>1. RepairInit => RepairTypeOK /\ AtWork
  BY InitialTypes, Zenon DEF RepairInit, RepairTypeOK
<1>2. RepairTypeOK /\ AtWork /\ [RepairNext]_repairVars => (RepairTypeOK /\ AtWork)'
  BY RepairTypeStep, Zenon
<1> QED BY <1>1, <1>2, PTL DEF RepairSpec

-----------------------------------------------------------------------------
(***************************************************************************)
(* An undisturbed repair gathers the keys. Slots only ever move from From  *)
(* to To, which limits who can own a slot, have it open and hold keys of   *)
(* it (Routed, OneCopy), whatever fails; Undisturbed then follows one      *)
(* repair from the snapshot to its return.                                 *)
(***************************************************************************)
Ends == {From, To}

\* Who may own a slot, have it open and hold keys.
Routed ==
    /\ \A n \in Node, s \in Slot : owner[n][s] \in Ends
    /\ \A n \in Node, s \in Slot : importing[n][s] # None => n = To
    /\ \A n \in Node, s \in Slot :
        migrating[n][s] # None => n = From /\ migrating[n][s] = To
    /\ \A n \in Node \ Ends, k \in Key : store[n][k] = 0

\* From holds no key of a slot that it has given up, and beside the last acknowledged
\* write on a To that does not own the slot, From holds that write or nothing.
OneCopy ==
    /\ \A k \in Key : ~Claims(From, SlotOf[k]) => store[From][k] = 0
    /\ \A k \in Key : ~Claims(To, SlotOf[k]) /\ acked[k] # 0 /\ store[To][k] = acked[k]
            => store[From][k] \in {0, acked[k]}

\* RepairSlots is at work on one slot.
AtSlot == pc \in {"stray", "restore", "stable", "node"}

\* The arguments and the loops of the calls.
Loops ==
    /\ InMove => src = From /\ dst = To /\ (pc # "probe" => rest \subseteq Master)
    /\ Repairing => \A s \in Slot : view[s] \in Ends
    /\ AtSlot => slot \notin todo /\ dst = view[slot] /\ rest \subseteq Master
    /\ pc \in {"restore", "node"} => cur \in Master \ rest
    /\ pc = "stray" => dst \notin rest
    /\ pc = "restore" => /\ dst \notin rest /\ cur # dst
                         /\ \A k \in batch : SlotOf[k] = slot

\* The primaries agree with the snapshot about s.
Agreed(s) == \A n \in Master : owner[n][s] = view[s]

\* The stray copy of k on To will still be visited.
Due(k) ==
    \/ SlotOf[k] \in todo
    \/ /\ SlotOf[k] = slot /\ pc \in {"stray", "restore"}
       /\ To \in rest \/ (pc = "restore" /\ cur = To /\ k \in batch)

\* The owner of k's slot has its last acknowledged write, or To has it and will be visited.
Coming(k) ==
    \/ store[view[SlotOf[k]]][k] = acked[k]
    \/ /\ view[SlotOf[k]] = From /\ store[To][k] = acked[k]
       /\ importing[To][SlotOf[k]] # None /\ Due(k)

\* The slots that are open are still to be closed.
Closing ==
    \A n \in Node, s \in Slot : OpenOn(n, s) =>
        s \in todo \/ (AtSlot /\ s = slot /\ (pc \in {"stable", "node"} => n \in rest))

\* What an undisturbed repair keeps until it returns.
Undisturbed ==
    /\ Closing
    /\ \A s \in todo : Agreed(s)
    /\ AtSlot => Agreed(slot)
    /\ \A k \in left : acked[k] # 0 /\ Agreed(SlotOf[k]) /\ Coming(k)

Gathering ==
    /\ RepairTypeOK /\ AtWork
    /\ Routed /\ OneCopy /\ Loops
    /\ Repairing /\ clean => Undisturbed

\* What a step of Repair may do to the nodes.
NodeStep ==
    \/ UNCHANGED valkeyVars
    \/ SetSlotImporting(To, slot, From) /\ UNCHANGED clientVars
    \/ SetSlotMigrating(From, slot, To) /\ UNCHANGED clientVars
    \/ \E n \in Master : SetSlotStable(n, slot) /\ UNCHANGED clientVars
    \/ \E n \in Master, m \in Ends :
        SetSlotNodeOk(n, slot, m) /\ SetSlotNode(n, slot, m) /\ UNCHANGED clientVars
    \/ \E c \in SUBSET Key : \E d \in SUBSET c :
        Transfer(From, To, c, d) /\ UNCHANGED clientVars
    \/ \E c \in SUBSET Key : \E d \in SUBSET c :
        /\ \A k \in c : Claims(From, SlotOf[k]) /\ store[From][k] = 0
        /\ Transfer(To, From, c, d) /\ UNCHANGED clientVars
    \/ \E n \in Node, k \in Key : ClientWrite(n, k) \/ ClientDelete(n, k)
    \/ \E m, n \in Node, s \in Slot : Gossip(m, n, s)

\* Clients are served by From and To alone, and by a To that does not own the slot only
\* where From has given the key away.
LEMMA Served ==
    ASSUME Routed, NEW n \in Node, NEW k \in Key, Serves(n, k)
    PROVE  /\ n \in Ends
           /\ n = From => Claims(From, SlotOf[k])
           /\ n = To /\ ~Claims(To, SlotOf[k]) => store[From][k] = 0
<1> USE ValkeyAssumption, MoverAssumption, RepairAssumption
<1>0. SlotOf[k] \in Slot /\ None # From /\ None # To /\ From \in Node /\ To \in Node
  BY Zenon
<1>1. CASE ServesDirect(n, k)
  BY <1>0, <1>1, ZenonT(40) DEF ServesDirect, Claims, Routed, Ends
<1>2. CASE ServesAsking(n, k)
  BY <1>0, <1>2, ZenonT(40) DEF ServesAsking, Claims, Routed, Ends
<1> QED BY <1>1, <1>2, Zenon DEF Serves

\* Whatever a step does to the nodes, slots and keys stay between From and To, and From
\* holds no key of a slot it has given up.
LEMMA NodesKept == TypeOK /\ Routed /\ OneCopy /\ NodeStep => Routed' /\ OneCopy'
<1> SUFFICES ASSUME TypeOK, Routed, OneCopy, NodeStep PROVE Routed' /\ OneCopy'
  BY Zenon
<1> USE ValkeyAssumption, MoverAssumption, RepairAssumption
<1>0. /\ From \in Node /\ To \in Node /\ From # To /\ Master \subseteq Node /\ Ends \subseteq Node
      /\ Tables /\ slot \in Slot /\ None \notin Ends
      /\ \A k \in Key : SlotOf[k] \in Slot
  BY TypeParts, Zenon DEF Locals, Ends
<1>a. ASSUME owner' = owner, store' = store, acked' = acked PROVE OneCopy'
  BY <1>a, Zenon DEF OneCopy, Claims
<1>1. CASE UNCHANGED valkeyVars
  BY <1>1 DEF Routed, OneCopy, Claims, valkeyVars, nodeVars, markVars, epochVars, clientVars
<1>2. CASE SetSlotImporting(To, slot, From) /\ UNCHANGED clientVars
  <2>1. Routed'
    BY <1>0, <1>2, ImportingEffect, SMTT(30) DEF Routed
  <2> QED BY <1>0, <1>2, <1>a, <2>1, ImportingEffect, Zenon DEF clientVars
<1>3. CASE SetSlotMigrating(From, slot, To) /\ UNCHANGED clientVars
  <2>1. Routed'
    BY <1>0, <1>3, MigratingEffect, SMTT(30) DEF Routed
  <2> QED BY <1>0, <1>3, <1>a, <2>1, MigratingEffect, Zenon DEF clientVars
<1>4. ASSUME NEW n \in Master, SetSlotStable(n, slot), UNCHANGED clientVars
      PROVE  Routed' /\ OneCopy'
  <2>1. Routed'
    BY <1>0, <1>4, StableEffect DEF Routed
  <2> QED BY <1>0, <1>4, <1>a, <2>1, StableEffect, Zenon DEF clientVars
<1>5. ASSUME NEW n \in Master, NEW m \in Ends, SetSlotNodeOk(n, slot, m),
             SetSlotNode(n, slot, m), UNCHANGED clientVars
      PROVE  Routed' /\ OneCopy'
  <2>0. /\ n \in Node /\ m \in Node /\ store' = store /\ acked' = acked
        /\ \A x \in Node, y \in Slot :
             owner'[x][y] = IF x = n /\ y = slot THEN m ELSE owner[x][y]
        /\ \A x \in Node, y \in Slot : importing'[x][y] \in {None, importing[x][y]}
        /\ \A x \in Node, y \in Slot : migrating'[x][y] \in {None, migrating[x][y]}
    <3>1. n \in Node /\ m \in Node
      BY <1>0, Zenon
    <3>2. Assigned(n, slot, m)
      BY <1>0, <1>5, <3>1, NodeEffect, Zenon
    <3> QED BY <1>5, <3>1, <3>2 DEF Assigned, clientVars
  <2>1. Routed'
    <3>1. ASSUME NEW x \in Node, NEW y \in Slot PROVE owner'[x][y] \in Ends
      <4>1. owner'[x][y] = m \/ owner'[x][y] = owner[x][y]
        BY <2>0, ZenonT(40)
      <4> QED BY <4>1, Zenon DEF Routed
    <3>2. ASSUME NEW x \in Node, NEW y \in Slot, importing'[x][y] # None PROVE x = To
      <4>1. importing[x][y] # None
        BY <2>0, <3>2, Zenon
      <4> QED BY <1>0, <4>1, Zenon DEF Routed
    <3>3. ASSUME NEW x \in Node, NEW y \in Slot, migrating'[x][y] # None
          PROVE  x = From /\ migrating'[x][y] = To
      <4>1. migrating[x][y] # None /\ migrating'[x][y] = migrating[x][y]
        BY <2>0, <3>3, Zenon
      <4> QED BY <1>0, <4>1, Zenon DEF Routed
    <3>4. \A x \in Node \ Ends, k \in Key : store'[x][k] = 0
      <4>1. store' = store
        BY <2>0, Zenon
      <4> QED BY <4>1, Zenon DEF Routed
    <3> QED BY <3>1, <3>2, <3>3, <3>4, Zenon DEF Routed
  <2>2. ASSUME NEW x \in Ends, NEW k \in Key, Claims(x, SlotOf[k]), ~Claims(x, SlotOf[k])'
        PROVE  store[x][k] = 0
    <3>1. x = n /\ SlotOf[k] = slot /\ m # n
      <4>1. x \in Node /\ SlotOf[k] \in Slot
        BY <1>0, Zenon
      <4>2. owner[x][SlotOf[k]] = x /\ owner'[x][SlotOf[k]] # x
        BY <2>2, Zenon DEF Claims
      <4>3. owner'[x][SlotOf[k]] = IF x = n /\ SlotOf[k] = slot THEN m ELSE owner[x][SlotOf[k]]
        BY <2>0, <4>1, ZenonT(40)
      <4> QED BY <4>2, <4>3, Zenon
    <3>2. KeysIn(n, slot) = {}
      BY <1>5, <2>2, <3>1, Zenon DEF SetSlotNodeOk
    <3> QED BY <3>1, <3>2, Zenon DEF KeysIn
  <2>3. OneCopy'
    BY <2>0, <2>2, Zenon DEF OneCopy, Ends
  <2> QED BY <2>1, <2>3, Zenon
<1>6. ASSUME NEW c \in SUBSET Key, NEW d \in SUBSET c, Transfer(From, To, c, d),
             UNCHANGED clientVars
      PROVE  Routed' /\ OneCopy'
  <2>0. Moved(From, To, c, d) /\ acked' = acked
    <3>1. c \subseteq Key /\ d \subseteq c
      BY Zenon
    <3> QED BY <1>0, <1>6, <3>1, TransferMoves, Zenon DEF clientVars
  <2>1. Routed'
    BY <1>0, <2>0 DEF Routed, Ends, Moved
  <2>2. OneCopy'
    BY <1>0, <2>0 DEF OneCopy, Claims, Moved
  <2> QED BY <2>1, <2>2, Zenon
<1>7. ASSUME NEW c \in SUBSET Key, NEW d \in SUBSET c,
             \A k \in c : Claims(From, SlotOf[k]) /\ store[From][k] = 0,
             Transfer(To, From, c, d), UNCHANGED clientVars
      PROVE  Routed' /\ OneCopy'
  <2>0. Moved(To, From, c, d) /\ acked' = acked
    <3>1. c \subseteq Key /\ d \subseteq c
      BY Zenon
    <3> QED BY <1>0, <1>7, <3>1, TransferMoves, Zenon DEF clientVars
  <2>1. Routed'
    BY <1>0, <2>0 DEF Routed, Ends, Moved
  <2>2. OneCopy'
    BY <1>0, <1>7, <2>0 DEF OneCopy, Claims, Moved
  <2> QED BY <2>1, <2>2, Zenon
<1>8. ASSUME NEW n \in Node, NEW k \in Key, ClientWrite(n, k) \/ ClientDelete(n, k)
      PROVE  Routed' /\ OneCopy'
  <2>0. /\ owner' = owner /\ importing' = importing /\ migrating' = migrating
        /\ Serves(n, k) /\ store'[n][k] = acked'[k]
        /\ \A x \in Node, y \in Key : x # n \/ y # k => store'[x][y] = store[x][y]
        /\ \A y \in Key : y # k => acked'[y] = acked[y]
    BY <1>8, ClientEffect DEF TypeOK
  <2>1. /\ n \in Ends
        /\ n = From => Claims(From, SlotOf[k])
        /\ n = To /\ ~Claims(To, SlotOf[k]) => store[From][k] = 0
    BY <2>0, Served, Zenon
  <2>2. Routed'
    BY <1>0, <2>0, <2>1, SMTT(30) DEF Routed
  <2>3. OneCopy'
    BY <1>0, <2>0, <2>1 DEF OneCopy, Claims, Ends
  <2> QED BY <2>2, <2>3, Zenon
<1>9. ASSUME NEW m \in Node, NEW n \in Node, NEW s \in Slot, Gossip(m, n, s)
      PROVE  Routed' /\ OneCopy'
  <2>0. /\ importing' = importing /\ acked' = acked
        /\ \A x \in Node, y \in Slot :
             owner'[x][y] = IF x = n /\ y = s THEN m ELSE owner[x][y]
        /\ \A x \in Node, y \in Slot : migrating'[x][y] \in {None, migrating[x][y]}
        /\ \A x \in Node, k \in Key : store'[x][k] =
             IF x = n /\ owner[n][s] = n /\ SlotOf[k] = s THEN 0 ELSE store[x][k]
    BY <1>0, <1>9, GossipEffect
  <2>1. m \in Ends /\ m # n
    BY <1>9 DEF Gossip, Claims, Routed
  <2>2. Routed'
    BY <1>0, <2>0, <2>1, SMTT(30) DEF Routed
  <2>3. OneCopy'
    BY <1>0, <2>0, <2>1, SMTT(30) DEF OneCopy, Claims
  <2> QED BY <2>2, <2>3, Zenon
<1> QED BY <1>1, <1>2, <1>3, <1>4, <1>5, <1>6, <1>7, <1>8, <1>9, Zenon DEF NodeStep

\* The steps of Repair touch the nodes in these ways only.
LEMMA NodeSteps == Gathering /\ RepairNext => NodeStep
<1> SUFFICES ASSUME Gathering, RepairNext PROVE NodeStep
  BY Zenon
<1> USE ValkeyAssumption, MoverAssumption, RepairAssumption
<1>0. /\ RepairTypeOK /\ TypeOK /\ Routed /\ OneCopy /\ Loops
      /\ From \in Master /\ To \in Master /\ From # To /\ Master \subseteq Node
  BY Zenon DEF Gathering, RepairTypeOK
<1>a. Refused => NodeStep
  BY Zenon DEF Refused, NodeStep
<1>1. CASE MovePass
  <2>0. InMove => src = From /\ dst = To /\ (pc # "probe" => rest \subseteq Master)
    BY <1>0, Zenon DEF Loops
  <2>1. CASE MoveSlots(From, To, Cardinality(Slot)) \/ Probe \/ GetKeys
    BY <2>1, Zenon DEF MoveSlots, Probe, GetKeys, NodeStep
  <2>2. CASE SetImporting
    BY <1>a, <2>0, <2>2, ZenonT(40) DEF SetImporting, InMove, Goto, NodeStep
  <2>3. CASE SetMigrating
    BY <1>a, <2>0, <2>3, ZenonT(40) DEF SetMigrating, InMove, Goto, NodeStep
  <2>4. CASE Migrate
    <3>1. src = From /\ dst = To
      BY <2>0, <2>4, Zenon DEF Migrate, InMove
    <3>2. PICK keys : keys = batch \cap KeysIn(src, slot) /\ keys \in SUBSET Key
      BY Zenon DEF KeysIn
    <3>3. CASE Transfer(From, To, keys, keys) /\ UNCHANGED clientVars
      BY <3>2, <3>3 DEF NodeStep
    <3>4. ASSUME NEW c \in SUBSET keys, NEW d \in SUBSET c, Transfer(From, To, c, d),
                 UNCHANGED clientVars
          PROVE  NodeStep
      BY <3>2, <3>4, Zenon DEF NodeStep
    <3> QED BY <1>a, <2>4, <3>1, <3>2, <3>3, <3>4, Zenon DEF Migrate
  <2>5. CASE AssignOwner
    <3>1. dst = To /\ rest \subseteq Master
      BY <2>0, <2>5, Zenon DEF AssignOwner, InMove
    <3>2. PICK n \in rest :
            \/ Refused
            \/ /\ SetSlotNodeOk(n, slot, dst) /\ SetSlotNode(n, slot, dst)
               /\ UNCHANGED clientVars
      BY <2>5, Zenon DEF AssignOwner
    <3> QED BY <1>a, <3>1, <3>2, Zenon DEF NodeStep, Ends
  <2> QED BY <1>1, <2>1, <2>2, <2>3, <2>4, <2>5, Zenon DEF MovePass, MoveStep
<1>2. CASE BeginRepair
  BY <1>2, Zenon DEF BeginRepair, RepairSlots, NodeStep
<1>3. CASE ContinueRepair
  <2>1. CASE RepairOne \/ Stray
    BY <2>1, Zenon DEF RepairOne, Stray, NodeStep
  <2>2. CASE Restore
    <3>0. /\ pc = "restore" /\ cur \in Master /\ cur # dst /\ dst \in Ends /\ slot \in Slot
          /\ \A k \in batch : k \in Key /\ SlotOf[k] = slot
      BY <1>0, <2>2, Zenon DEF Restore, Loops, AtSlot, Repairing, TypeOK
    <3>1. CASE UNCHANGED valkeyVars
      BY <3>1, Zenon DEF NodeStep
    <3>2. ASSUME NEW k \in batch, RestoreOk(k), NEW d \in SUBSET {k},
                 Transfer(cur, dst, {k}, d), UNCHANGED clientVars
          PROVE  NodeStep
      <4>1. cur \in Ends
        BY <1>0, <3>0, <3>2, Zenon DEF RestoreOk, Routed
      <4>2. PICK c \in SUBSET Key : c = {k} /\ d \in SUBSET c /\ Transfer(cur, dst, c, d)
        BY <3>0, <3>2, Zenon
      <4>3. CASE cur = From /\ dst = To
        BY <3>2, <4>2, <4>3, Zenon DEF NodeStep
      <4>4. CASE cur = To /\ dst = From
        <5>1. Claims(From, slot) /\ store[From][k] = 0
          <6>1. importing[From][slot] = None
            BY <1>0, <3>0, Zenon DEF Routed
          <6> QED BY <3>0, <3>2, <4>4, <6>1, Zenon DEF RestoreOk, MigrateOk
        <5> QED BY <3>0, <3>2, <4>2, <4>4, <5>1 DEF NodeStep
      <4> QED BY <3>0, <4>1, <4>3, <4>4 DEF Ends
    <3>3. UNCHANGED <<nodeVars, clientVars>> => NodeStep
      BY <3>1, Zenon DEF valkeyVars
    <3>4. \/ UNCHANGED valkeyVars
          \/ \E k \in batch :
               /\ UNCHANGED clientVars
               /\ \/ UNCHANGED nodeVars
                  \/ RestoreOk(k) /\ \E d \in SUBSET {k} : Transfer(cur, dst, {k}, d)
      BY <2>2, Zenon DEF Restore, Ignoring
    <3> QED BY <3>1, <3>2, <3>3, <3>4, Zenon
  <2>3. CASE Stable
    <3>1. rest \subseteq Master
      BY <1>0, <2>3, Zenon DEF Stable, Loops, AtSlot
    <3>2. /\ UNCHANGED clientVars
          /\ UNCHANGED nodeVars \/ \E n \in rest : SetSlotStable(n, slot)
      BY <2>3, Zenon DEF Stable, Ignoring
    <3> QED BY <3>1, <3>2, Zenon DEF NodeStep, valkeyVars
  <2>4. CASE AssertOwner
    <3>1. cur \in Master /\ dst \in Ends
      BY <1>0, <2>4, Zenon DEF AssertOwner, Loops, AtSlot, Repairing, TypeOK
    <3>2. /\ UNCHANGED clientVars
          /\ \/ UNCHANGED nodeVars
             \/ SetSlotNodeOk(cur, slot, dst) /\ SetSlotNode(cur, slot, dst)
      BY <2>4, Zenon DEF AssertOwner, Ignoring
    <3> QED BY <3>1, <3>2, Zenon DEF NodeStep, valkeyVars
  <2> QED BY <1>3, <2>1, <2>2, <2>3, <2>4, Zenon DEF ContinueRepair, RepairStep
<1>4. CASE ClientStep
  BY <1>4, Zenon DEF ClientStep, NodeStep
<1>5. CASE Fail
  BY <1>5, Zenon DEF Fail, NodeStep
<1>6. CASE Bus
  BY <1>6, Zenon DEF Bus, NodeStep
<1> QED BY <1>1, <1>2, <1>3, <1>4, <1>5, <1>6, Zenon DEF RepairNext

\* A step of MoveSlots goes on with the call or returns; it does not begin a repair.
LEMMA LoopsKept == Gathering /\ RepairNext => Loops'
<1> SUFFICES ASSUME Gathering, RepairNext PROVE Loops'
  BY Zenon
<1> USE ValkeyAssumption, MoverAssumption, RepairAssumption
<1>0. /\ RepairTypeOK /\ TypeOK /\ Routed /\ Loops
      /\ From \in Master /\ To \in Master /\ From # To /\ Master \subseteq Node
  BY Zenon DEF Gathering, RepairTypeOK
<1>a. Return => Loops'
  BY Zenon DEF Return, Loops, InMove, Repairing, AtSlot
<1>b. UNCHANGED opVars => Loops'
  BY <1>0, Zenon DEF Loops, InMove, Repairing, AtSlot, opVars
<1>1. CASE MovePass
  <2>1. CASE MoveSlots(From, To, Cardinality(Slot))
    BY <2>1, Zenon DEF MoveSlots, Loops, InMove, Repairing, AtSlot
  <2>2. CASE Probe
    BY <1>0, <2>2, Zenon DEF Probe, Loops, InMove, Repairing, AtSlot
  <2>3. CASE SetImporting
    BY <1>0, <1>a, <2>3, Zenon DEF SetImporting, Goto, Refused, Loops, InMove, Repairing, AtSlot
  <2>4. CASE SetMigrating
    BY <1>0, <1>a, <2>4, Zenon DEF SetMigrating, Goto, Refused, Loops, InMove, Repairing, AtSlot
  <2>5. CASE GetKeys
    BY <1>0, <2>5, Zenon DEF GetKeys, Loops, InMove, Repairing, AtSlot
  <2>6. CASE Migrate
    <3>1. \/ Return
          \/ pc' = "getkeys" /\ pc = "migrate" /\ UNCHANGED <<src, dst, rest>>
      BY <2>6, Zenon DEF Migrate, Refused
    <3> QED BY <1>0, <1>a, <3>1, Zenon DEF Loops, InMove, Repairing, AtSlot
  <2>7. CASE AssignOwner
    <3>1. \/ Return
          \/ /\ pc = "assign" /\ pc' \in {"assign", "probe"} /\ rest' \subseteq rest
             /\ UNCHANGED <<src, dst>>
      BY <2>7, Zenon DEF AssignOwner, Refused
    <3> QED BY <1>0, <1>a, <3>1, Zenon DEF Loops, InMove, Repairing, AtSlot
  <2> QED BY <1>1, <2>1, <2>2, <2>3, <2>4, <2>5, <2>6, <2>7, Zenon DEF MovePass, MoveStep
<1>2. CASE BeginRepair
  BY <1>0, <1>2, Zenon DEF BeginRepair, RepairSlots, Routed, Loops, InMove, Repairing, AtSlot
<1>3. CASE ContinueRepair
  <2>a. ASSUME NEW l, NextOpenSlot(l), Repairing PROVE Loops'
    <3>1. CASE Return
      BY <1>a, <3>1, Zenon
    <3>2. CASE pc' = "repair" /\ UNCHANGED view
      BY <1>0, <2>a, <3>2, Zenon DEF Loops, InMove, Repairing, AtSlot
    <3> QED BY <2>a, <3>1, <3>2, Zenon DEF NextOpenSlot
  <2>1. CASE RepairOne
    <3>1. Repairing
      BY <2>1, Zenon DEF RepairOne, Repairing
    <3>2. PICK s \in todo :
            \/ NextOpenSlot(todo \ {s})
            \/ /\ slot' = s /\ dst' = view[s] /\ todo' = todo \ {s}
               /\ rest' = Master \ {view[s]} /\ pc' = "stray" /\ UNCHANGED view
      BY <2>1, Zenon DEF RepairOne
    <3> QED BY <1>0, <2>a, <3>1, <3>2, Zenon DEF Loops, InMove, Repairing, AtSlot
  <2>2. CASE Stray
    <3>1. CASE pc' = "stable" /\ rest' = Master
      BY <1>0, <2>2, <3>1, Zenon DEF Stray, Loops, InMove, Repairing, AtSlot
    <3>2. ASSUME NEW n \in rest, pc' = "restore", rest' = rest \ {n}, cur' = n,
                 batch' \subseteq KeysIn(n, slot)
          PROVE  Loops'
      <4>1. \A k \in batch' : SlotOf[k] = slot
        BY <3>2, Zenon DEF KeysIn
      <4> QED BY <1>0, <2>2, <3>2, <4>1, Zenon DEF Stray, Loops, InMove, Repairing, AtSlot
    <3> QED BY <2>2, <3>1, <3>2, Zenon DEF Stray, GetKeysInSlot
  <2>3. CASE Restore
    <3>1. /\ pc = "restore" /\ UNCHANGED <<dst, view, todo, slot, rest>>
          /\ \/ pc' = "stray"
             \/ pc' = "restore" /\ cur' = cur /\ batch' \subseteq batch
      BY <2>3, Zenon DEF Restore
    <3> QED BY <1>0, <3>1, Zenon DEF Loops, InMove, Repairing, AtSlot
  <2>4. CASE Stable
    BY <1>0, <2>4, Zenon DEF Stable, Loops, InMove, Repairing, AtSlot
  <2>5. CASE AssertOwner
    <3>1. CASE NextOpenSlot(todo)
      BY <2>5, <2>a, <3>1, Zenon DEF AssertOwner, Repairing
    <3>2. CASE pc' = "stable" /\ UNCHANGED <<dst, view, todo, slot, rest>>
      BY <1>0, <2>5, <3>2, Zenon DEF AssertOwner, Loops, InMove, Repairing, AtSlot
    <3> QED BY <2>5, <3>1, <3>2, Zenon DEF AssertOwner
  <2> QED BY <1>3, <2>1, <2>2, <2>3, <2>4, <2>5, Zenon DEF ContinueRepair, RepairStep
<1>4. CASE ClientStep
  BY <1>4, <1>b, Zenon DEF ClientStep
<1>5. CASE Fail
  BY <1>5, <1>a, Zenon DEF Fail
<1>6. CASE Bus
  BY <1>6, <1>b, Zenon DEF Bus
<1> QED BY <1>1, <1>2, <1>3, <1>4, <1>5, <1>6, Zenon DEF RepairNext

\* A repair that begins with the primaries agreed, having seen every node's markers: each
\* slot it is to close is known to it, and each key that was kept is on the owner of its
\* slot, or alone on the importing node.
LEMMA BeginsUndisturbed == Gathering /\ BeginRepair /\ clean' => Undisturbed'
<1> SUFFICES ASSUME Gathering, BeginRepair, clean' PROVE Undisturbed'
  BY Zenon
<1> USE ValkeyAssumption, MoverAssumption, RepairAssumption
<1>0. /\ TypeOK /\ Routed /\ OneCopy /\ fails \in Nat
      /\ From \in Master /\ To \in Master /\ From # To /\ Master \subseteq Node
      /\ From \in Node /\ To \in Node /\ None # From /\ None # To
      /\ \A k \in Key : SlotOf[k] \in Slot
  BY Zenon DEF Gathering, RepairTypeOK, TypeOK
<1>1. /\ owner' = owner /\ importing' = importing /\ migrating' = migrating
      /\ store' = store /\ acked' = acked /\ view' = owner[Seed] /\ pc' = "repair"
  BY Zenon DEF BeginRepair, RepairSlots, valkeyVars, nodeVars, markVars, clientVars
<1>2. fails' = fails /\ \A s \in todo' : Orderly(s)
  BY Zenon DEF BeginRepair
<1>3. ~Lose
  BY <1>0, <1>2 DEF Lose
<1>4. todo' = {s \in Slot : \E n \in Node : OpenOn(n, s)}
  <2>1. PICK skipped \in SUBSET Node :
          /\ IF skipped = {} THEN UNCHANGED fails ELSE Lose
          /\ todo' = {s \in Slot : \E n \in Node \ skipped : OpenOn(n, s)}
    BY Zenon DEF BeginRepair, RepairSlots
  <2>2. skipped = {}
    BY <1>3, <2>1, Zenon
  <2> QED BY <2>1, <2>2, Zenon
<1>5. Closing'
  BY <1>1, <1>4, Zenon DEF Closing, OpenOn
<1>6. \A s \in todo' : Agreed(s)'
  BY <1>1, <1>2, Zenon DEF Agreed, Orderly
<1>7. ASSUME NEW k \in left' PROVE (acked[k] # 0)' /\ Agreed(SlotOf[k])' /\ Coming(k)'
  <2>1. k \in Key /\ SlotOf[k] \in todo' /\ Kept(k)
    BY Zenon DEF BeginRepair
  <2>2. Agreed(SlotOf[k])'
    BY <1>6, <2>1, Zenon
  <2>3. PICK n \in Master : /\ store[n][k] = acked[k]
                            /\ Claims(n, SlotOf[k]) \/ OpenOn(n, SlotOf[k])
    BY <2>1, Zenon DEF Kept
  <2>4. acked[k] # 0 /\ owner[n][SlotOf[k]] = view'[SlotOf[k]]
    BY <1>1, <2>1, <2>2, Zenon DEF Kept, Agreed
  <2>5. CASE n = view'[SlotOf[k]]
    BY <1>1, <2>2, <2>3, <2>4, <2>5, Zenon DEF Coming
  <2>6. CASE n # view'[SlotOf[k]]
    <3>1. ~Claims(n, SlotOf[k]) /\ OpenOn(n, SlotOf[k])
      BY <2>3, <2>4, <2>6, Zenon DEF Claims
    <3>2. n # From
      BY <1>0, <2>1, <2>3, <2>4, <3>1, Zenon DEF OneCopy
    <3>3. n = To /\ importing[To][SlotOf[k]] # None
      <4>1. n \in Node /\ SlotOf[k] \in Slot
        BY <1>0, <2>1, Zenon
      <4>2. migrating[n][SlotOf[k]] = None
        BY <1>0, <3>2, <4>1, Zenon DEF Routed
      <4>3. importing[n][SlotOf[k]] # None
        BY <3>1, <4>2, Zenon DEF OpenOn
      <4> QED BY <1>0, <4>1, <4>3, ZenonT(40) DEF Routed
    <3>4. view'[SlotOf[k]] = From
      <4>1. owner[n][SlotOf[k]] \in Ends
        BY <1>0, <2>1, Zenon DEF Routed
      <4> QED BY <2>4, <2>6, <3>3, <4>1, Zenon DEF Ends
    <3>5. Due(k)'
      BY <2>1, Zenon DEF Due
    <3> QED BY <1>1, <2>2, <2>3, <2>4, <3>3, <3>4, <3>5, Zenon DEF Coming
  <2> QED BY <2>5, <2>6, Zenon
<1> QED BY <1>1, <1>5, <1>6, <1>7, Zenon DEF Undisturbed, AtSlot

\* Clients, and the bus, do not disturb a repair: the bus has nothing to tell the primaries
\* about a slot on which they agree.
LEMMA OthersDoNotDisturb ==
    Gathering /\ Undisturbed /\ (ClientStep \/ (Bus /\ UNCHANGED <<clean, left>>))
        /\ Repairing => Undisturbed'
<1> SUFFICES ASSUME Gathering, Undisturbed, Repairing,
                    ClientStep \/ (Bus /\ UNCHANGED <<clean, left>>)
             PROVE  Undisturbed'
  BY Zenon
<1> USE ValkeyAssumption, MoverAssumption, RepairAssumption
<1>0. /\ TypeOK /\ Routed /\ Tables /\ Loops /\ todo \subseteq Slot /\ slot \in Slot
      /\ From \in Master /\ To \in Master /\ From # To /\ Master \subseteq Node
      /\ left \subseteq Key /\ \A k \in Key : SlotOf[k] \in Slot
  BY TypeParts, Zenon DEF Gathering, RepairTypeOK, TypeOK
<1>1. \A s \in Slot : view[s] \in Master /\ view[s] \in Node
  BY <1>0, Zenon DEF Loops, Ends
<1>2. UNCHANGED <<pc, view, todo, slot, batch, rest, cur>>
  BY Zenon DEF ClientStep, Bus, opVars
<1>3. ASSUME \A n \in Node, s \in Slot : OpenOn(n, s)' => OpenOn(n, s),
             \A s \in Slot : Agreed(s) => Agreed(s)',
             importing' = importing, left' \subseteq left,
             \A k \in left' : /\ acked'[k] = acked[k] /\ store'[To][k] = store[To][k]
                              /\ Agreed(SlotOf[k]) =>
                                    store'[view[SlotOf[k]]][k] = store[view[SlotOf[k]]][k]
      PROVE  Undisturbed'
  <2>1. Closing'
    BY <1>2, <1>3, Zenon DEF Undisturbed, Closing, AtSlot
  <2>2. (\A s \in todo : Agreed(s))' /\ (AtSlot => Agreed(slot))'
    BY <1>0, <1>2, <1>3, Zenon DEF Undisturbed, AtSlot
  <2>3. ASSUME NEW k \in left' PROVE (acked[k] # 0 /\ Agreed(SlotOf[k]) /\ Coming(k))'
    <3>1. acked[k] # 0 /\ Agreed(SlotOf[k]) /\ Coming(k) /\ SlotOf[k] \in Slot
      BY <1>0, <1>3, Zenon DEF Undisturbed
    <3>2. Coming(k)'
      BY <1>2, <1>3, <3>1, Zenon DEF Coming, Due
    <3> QED BY <1>3, <3>1, <3>2, Zenon
  <2> QED BY <2>1, <2>2, <2>3, Zenon DEF Undisturbed
<1>4. CASE ClientStep
  <2>1. PICK n \in Node, k \in Key :
          (ClientWrite(n, k) \/ ClientDelete(n, k)) /\ left' = left \ {k}
    BY <1>4, Zenon DEF ClientStep
  <2>2. /\ owner' = owner /\ importing' = importing /\ migrating' = migrating
        /\ \A x \in Node, y \in Key : x # n \/ y # k => store'[x][y] = store[x][y]
        /\ \A y \in Key : y # k => acked'[y] = acked[y]
    BY <1>0, <2>1, ClientEffect DEF TypeOK
  <2>3. \A s \in Slot : Agreed(s) => Agreed(s)'
    BY <1>2, <2>2, Zenon DEF Agreed
  <2>4. \A x \in Node, s \in Slot : OpenOn(x, s)' => OpenOn(x, s)
    BY <2>2, Zenon DEF OpenOn
  <2>5. \A y \in left' : acked'[y] = acked[y] /\ \A x \in Node : store'[x][y] = store[x][y]
    BY <1>0, <2>1, <2>2, Zenon
  <2> QED BY <1>0, <1>1, <1>3, <2>1, <2>2, <2>3, <2>4, <2>5, Zenon
<1>5. CASE Bus /\ UNCHANGED <<clean, left>>
  <2>1. PICK m \in Node, n \in Node, s \in Slot : Gossip(m, n, s)
    BY <1>5, Zenon DEF Bus
  <2>2. /\ importing' = importing /\ acked' = acked
        /\ \A x \in Node, y \in Slot :
             owner'[x][y] = IF x = n /\ y = s THEN m ELSE owner[x][y]
        /\ \A x \in Node, y \in Slot : migrating'[x][y] \in {None, migrating[x][y]}
        /\ \A x \in Node, k \in Key : store'[x][k] =
             IF x = n /\ owner[n][s] = n /\ SlotOf[k] = s THEN 0 ELSE store[x][k]
    BY <1>0, <2>1, GossipEffect
  <2>3. Agreed(s) => n \notin Master
    <3>1. owner[m][s] = m /\ owner[n][s] # m
      BY <2>1, Zenon DEF Gossip, Claims
    <3>2. m \in Master
      <4>1. owner[m][s] \in Ends
        BY <1>0, <2>1, Zenon DEF Routed
      <4> QED BY <1>0, <3>1, <4>1, Zenon DEF Ends
    <3> QED BY <3>1, <3>2, Zenon DEF Agreed
  <2>4. \A y \in Slot : Agreed(y) => Agreed(y)'
    <3>1. ASSUME NEW y \in Slot, Agreed(y), NEW x \in Master PROVE owner'[x][y] = owner[x][y]
      BY <1>0, <2>2, <2>3, <3>1, ZenonT(40)
    <3> QED BY <1>2, <3>1, Zenon DEF Agreed
  <2>5. \A x \in Node, y \in Slot : OpenOn(x, y)' => OpenOn(x, y)
    BY <2>2, ZenonT(40) DEF OpenOn
  <2>6. ASSUME NEW k \in left', NEW x \in Master PROVE store'[x][k] = store[x][k]
    <3>1. k \in left /\ k \in Key /\ Agreed(SlotOf[k])
      BY <1>0, <1>5, Zenon DEF Undisturbed
    <3> QED BY <1>0, <2>2, <2>3, <3>1
  <2> QED BY <1>0, <1>1, <1>3, <1>5, <2>2, <2>4, <2>5, <2>6, ZenonT(40)
<1> QED BY <1>4, <1>5, Zenon

\* One command of an undisturbed repair that succeeds: the repair goes on undisturbed, or
\* it returns with every slot closed and every key on the owner of its slot.
LEMMA RepairGoesOn ==
    Gathering /\ Repairing /\ clean /\ ContinueRepair /\ clean'
        => IF pc' = "idle" THEN (AllClosed /\ \A k \in left : Gathered(k))' ELSE Undisturbed'
<1> SUFFICES ASSUME Gathering, Repairing, clean, ContinueRepair, clean'
             PROVE  IF pc' = "idle" THEN (AllClosed /\ \A k \in left : Gathered(k))'
                    ELSE Undisturbed'
  BY Zenon
<1> USE ValkeyAssumption, MoverAssumption, RepairAssumption
<1>0. /\ TypeOK /\ Tables /\ Routed /\ OneCopy /\ Loops /\ Undisturbed
      /\ fails \in Nat /\ todo \subseteq Slot /\ slot \in Slot /\ batch \subseteq Key
      /\ From \in Master /\ To \in Master /\ From # To /\ Master \subseteq Node
      /\ None # From /\ None # To
      /\ left \subseteq Key /\ \A k \in Key : SlotOf[k] \in Slot
  BY TypeParts, Zenon DEF Gathering, RepairTypeOK, TypeOK
<1>1. \A s \in Slot : view[s] \in Ends /\ view[s] \in Master /\ view[s] # None
  BY <1>0, Zenon DEF Loops, Ends
<1>2. left' = left /\ fails' = fails /\ Listed /\ ~Lose
  <2>1. left' = left /\ fails' = fails /\ Listed
    BY Zenon DEF ContinueRepair
  <2> QED BY <1>0, <2>1 DEF Lose
<1>3. \A k \in left : /\ k \in Key /\ SlotOf[k] \in Slot /\ acked[k] # 0
                      /\ Agreed(SlotOf[k]) /\ Coming(k)
  BY <1>0, Zenon DEF Undisturbed
\* Until the markers are touched, and while the view and the owners stay, only what is due
\* has to be followed.
<1>a. ASSUME UNCHANGED <<owner, importing, migrating, acked, view>>,
             \A s \in todo' : s \in todo, AtSlot', slot' \in todo \/ (AtSlot /\ slot' = slot),
             Closing', \A k \in left : Coming(k)'
      PROVE  Undisturbed'
  <2>1. \A s \in Slot : Agreed(s) => Agreed(s)'
    BY <1>a, Zenon DEF Agreed
  <2>2. \A s \in todo' : Agreed(s)'
    BY <1>0, <1>a, <2>1, Zenon DEF Undisturbed
  <2>3. Agreed(slot)'
    <3>1. Agreed(slot') /\ slot' \in Slot
      BY <1>0, <1>a, Zenon DEF Undisturbed
    <3> QED BY <1>a, <3>1, Zenon DEF Agreed
  <2>4. \A k \in left' : (acked[k] # 0)' /\ Agreed(SlotOf[k])' /\ Coming(k)'
    BY <1>2, <1>3, <1>a, <2>1, Zenon
  <2> QED BY <1>a, <2>2, <2>3, <2>4, Zenon DEF Undisturbed
<1>4. CASE RepairOne
  <2>1. PICK s \in todo :
          IF view[s] = None
          THEN NextOpenSlot(todo \ {s})
          ELSE /\ slot' = s /\ dst' = view[s] /\ todo' = todo \ {s}
               /\ rest' = Master \ {view[s]} /\ pc' = "stray"
               /\ UNCHANGED <<src, view, batch, cur>>
    BY <1>4, Zenon DEF RepairOne
  <2>2. /\ slot' = s /\ todo' = todo \ {s} /\ rest' = Master \ {view[s]} /\ pc' = "stray"
        /\ UNCHANGED view
    BY <1>0, <1>1, <2>1, Zenon
  <2>3. UNCHANGED <<owner, importing, migrating, store, acked>> /\ pc = "repair"
    BY <1>4, Zenon DEF RepairOne, valkeyVars, nodeVars, markVars, clientVars
  <2>4. Closing'
    BY <1>0, <2>2, <2>3, Zenon DEF Undisturbed, Closing, OpenOn, AtSlot
  <2>5. ASSUME NEW k \in left PROVE Coming(k)'
    <3>1. view[SlotOf[k]] = From /\ Due(k) => Due(k)'
      BY <1>0, <2>2, <2>3, Zenon DEF Due
    <3> QED BY <1>3, <2>2, <2>3, <3>1, Zenon DEF Coming
  <2> QED BY <1>a, <2>2, <2>3, <2>4, <2>5, Zenon DEF AtSlot
<1>5. CASE Stray
  <2>0. /\ UNCHANGED <<owner, importing, migrating, store, acked>>
        /\ pc = "stray" /\ AtSlot /\ UNCHANGED <<view, todo, slot>>
    BY <1>5, Zenon DEF Stray, AtSlot, valkeyVars, nodeVars, markVars, clientVars
  <2>1. CASE rest = {} /\ pc' = "stable" /\ rest' = Master
    <3>1. Closing'
      <4>1. \A n \in Node, s \in Slot : OpenOn(n, s) => n \in Master
        BY <1>0 DEF OpenOn, Routed
      <4> QED BY <1>0, <2>0, <2>1, <4>1, Zenon DEF Undisturbed, Closing, OpenOn, AtSlot
    <3>2. \A k \in left : Coming(k)'
      BY <1>3, <2>0, <2>1, Zenon DEF Coming, Due
    <3> QED BY <1>a, <2>0, <2>1, <3>1, <3>2, Zenon DEF AtSlot
  <2>2. ASSUME NEW n \in rest, pc' = "restore", rest' = rest \ {n}, cur' = n
        PROVE  Undisturbed'
    <3>1. batch' = KeysIn(n, slot)
      BY <1>2, <2>0, <2>2, Zenon DEF Listed
    <3>2. Closing'
      BY <1>0, <2>0, <2>2, Zenon DEF Undisturbed, Closing, OpenOn, AtSlot
    <3>3. ASSUME NEW k \in left PROVE Coming(k)'
      <4>1. store[To][k] = acked[k] /\ Due(k) => Due(k)'
        BY <1>3, <2>0, <2>2, <3>1, Zenon DEF Due, KeysIn
      <4> QED BY <1>3, <2>0, <4>1, Zenon DEF Coming
    <3> QED BY <1>a, <2>0, <2>2, <3>2, <3>3, Zenon DEF AtSlot
  <2>3. pc' # "idle"
    BY <1>5, Zenon DEF Stray
  <2> QED BY <1>5, <2>1, <2>2, <2>3, Zenon DEF Stray
<1>6. CASE Restore
  <2>0. /\ pc = "restore" /\ AtSlot /\ UNCHANGED <<view, todo, slot, rest>>
        /\ cur \in Master /\ cur # dst /\ dst = view[slot]
        /\ \A k \in batch : SlotOf[k] = slot
    BY <1>0, <1>6, Zenon DEF Restore, AtSlot, Loops
  <2>1. CASE batch = {} /\ pc' = "stray" /\ UNCHANGED valkeyVars
    <3>0. UNCHANGED <<owner, importing, migrating, store, acked>>
      BY <2>1, Zenon DEF valkeyVars, nodeVars, markVars, clientVars
    <3>1. Closing'
      BY <1>0, <2>0, <2>1, <3>0, Zenon DEF Undisturbed, Closing, OpenOn, AtSlot
    <3>2. \A k \in left : Coming(k)'
      BY <1>3, <2>0, <2>1, <3>0, Zenon DEF Coming, Due
    <3> QED BY <1>a, <2>0, <2>1, <3>0, <3>1, <3>2, Zenon DEF AtSlot
  <2>2. ASSUME NEW k \in batch, batch' = batch \ {k},
               Ignoring(RestoreOk(k), Transfer(cur, dst, {k}, {k})),
               UNCHANGED <<clientVars, pc, cur>>
        PROVE  Undisturbed' /\ pc' # "idle"
    <3>0. k \in Key /\ SlotOf[k] = slot /\ dst \in Node /\ cur \in Node /\ acked' = acked
      BY <1>0, <1>1, <2>0, <2>2, Zenon DEF clientVars
    <3>1. \/ RestoreOk(k) /\ Transfer(cur, dst, {k}, {k})
          \/ ~RestoreOk(k) /\ UNCHANGED nodeVars
      BY <1>2, <2>2, Zenon DEF Ignoring
    <3>2. /\ UNCHANGED <<owner, importing, migrating>>
          /\ \A x \in Node, y \in Key : y # k => store'[x][y] = store[x][y]
          /\ IF RestoreOk(k) THEN store'[dst][k] = store[cur][k]
             ELSE \A x \in Node : store'[x][k] = store[x][k]
      <4>1. CASE RestoreOk(k) /\ Transfer(cur, dst, {k}, {k})
        <5>1. {k} \subseteq Key /\ {k} \subseteq {k}
          BY <3>0, Zenon
        <5>2. Moved(cur, dst, {k}, {k})
          BY <1>0, <2>0, <3>0, <4>1, <5>1, TransferMoves, Zenon
        <5>3. ASSUME NEW x \in Node, NEW y \in Key, y # k PROVE store'[x][y] = store[x][y]
          <6>1. y \notin {k}
            BY <5>3, Zenon
          <6>2. x = cur \/ x = dst \/ x \in Node \ {cur, dst}
            BY Zenon
          <6> QED BY <5>2, <6>1, <6>2, Zenon DEF Moved
        <5>4. UNCHANGED <<owner, importing, migrating>> /\ store'[dst][k] = store[cur][k]
          BY <3>0, <5>2, Zenon DEF Moved
        <5> QED BY <4>1, <5>3, <5>4, Zenon
      <4>2. CASE ~RestoreOk(k) /\ UNCHANGED nodeVars
        BY <4>2, Zenon DEF nodeVars, markVars
      <4> QED BY <3>1, <4>1, <4>2, Zenon
    <3>3. Closing'
      <4>1. \A x \in Node, s \in Slot : OpenOn(x, s)' => OpenOn(x, s)
        BY <3>2, Zenon DEF OpenOn
      <4> QED BY <1>0, <2>0, <2>2, <4>1, Zenon DEF Undisturbed, Closing, AtSlot
    <3>4. ASSUME NEW y \in left, y # k PROVE Coming(y)'
      <4>1. Due(y) => Due(y)'
        BY <2>0, <2>2, <3>4, Zenon DEF Due
      <4>2. view[SlotOf[y]] \in Node /\ To \in Node /\ y \in Key
        BY <1>0, <1>1, <1>3, Zenon
      <4> QED BY <1>3, <2>0, <3>0, <3>2, <3>4, <4>1, <4>2, ZenonT(40) DEF Coming
    <3>5. ASSUME k \in left PROVE Coming(k)'
      <4>0. Coming(k) /\ acked[k] # 0 /\ Agreed(slot) /\ dst \in Ends
        BY <1>0, <1>1, <1>3, <2>0, <3>0, <3>5, Zenon
      <4>1. CASE store[dst][k] = acked[k]
        <5>1. ~RestoreOk(k)
          BY <4>0, <4>1, Zenon DEF RestoreOk
        <5> QED BY <2>0, <3>0, <3>2, <4>1, <5>1, Zenon DEF Coming
      <4>2. CASE store[dst][k] # acked[k]
        <5>1. /\ dst = From /\ store[To][k] = acked[k] /\ importing[To][slot] # None
              /\ Due(k)
          BY <2>0, <3>0, <4>0, <4>2, Zenon DEF Coming
        <5>2. CASE cur = To
          <6>1. Claims(From, slot) /\ ~Claims(To, slot)
            BY <1>0, <2>0, <4>0, <5>1, Zenon DEF Agreed, Claims
          <6>2. store[From][k] = 0
            BY <1>0, <3>0, <4>0, <4>2, <5>1, <6>1, Zenon DEF OneCopy
          <6>3. RestoreOk(k)
            BY <4>0, <5>1, <5>2, <6>1, <6>2, Zenon DEF RestoreOk, MigrateOk, OpenOn
          <6> QED BY <2>0, <3>0, <3>2, <5>1, <5>2, <6>3, Zenon DEF Coming
        <5>3. CASE cur # To
          <6>1. store[cur][k] = 0
            BY <1>0, <2>0, <3>0, <5>1, <5>3, ZenonT(40) DEF Routed, Ends
          <6>2. ~RestoreOk(k)
            BY <6>1, Zenon DEF RestoreOk
          <6>3. Due(k)'
            BY <1>0, <2>0, <2>2, <3>0, <5>1, <5>3, Zenon DEF Due, Loops
          <6> QED BY <1>0, <2>0, <3>0, <3>2, <5>1, <6>2, <6>3, Zenon DEF Coming
        <5> QED BY <5>2, <5>3, Zenon
      <4> QED BY <4>1, <4>2, Zenon
    <3>6. \A y \in left : Coming(y)'
      BY <3>4, <3>5, Zenon
    <3> QED BY <1>a, <2>0, <2>2, <3>0, <3>2, <3>3, <3>6, Zenon DEF AtSlot
  <2> QED BY <1>2, <1>6, <2>1, <2>2, Zenon DEF Restore
<1>7. CASE Stable
  <2>0. /\ pc = "stable" /\ AtSlot /\ UNCHANGED <<view, todo, slot>> /\ acked' = acked
        /\ slot \notin todo
    BY <1>0, <1>7, Zenon DEF Stable, AtSlot, Loops, clientVars
  <2>1. PICK n \in rest : /\ Ignoring(TRUE, SetSlotStable(n, slot))
                          /\ cur' = n /\ rest' = rest \ {n} /\ pc' = "node"
    BY <1>7, Zenon DEF Stable
  <2>2. n \in Node /\ SetSlotStable(n, slot)
    BY <1>0, <1>2, <2>0, <2>1, Zenon DEF Ignoring, Loops
  <2>3. /\ owner' = owner /\ store' = store
        /\ \A x \in Node, y \in Slot :
             importing'[x][y] = IF x = n /\ y = slot THEN None ELSE importing[x][y]
        /\ \A x \in Node, y \in Slot :
             migrating'[x][y] = IF x = n /\ y = slot THEN None ELSE migrating[x][y]
    BY <1>0, <2>2, StableEffect
  <2>4. Closing'
    <3> SUFFICES ASSUME NEW x \in Node, NEW y \in Slot, OpenOn(x, y)'
                 PROVE  \/ y \in todo'
                        \/ (AtSlot /\ y = slot /\ (pc \in {"stable", "node"} => x \in rest))'
      BY Zenon DEF Closing
    <3>1. OpenOn(x, y) /\ ~(x = n /\ y = slot)
      BY <2>3, ZenonT(40) DEF OpenOn
    <3> QED BY <1>0, <2>0, <2>1, <3>1, Zenon DEF Undisturbed, Closing, AtSlot
  <2>5. \A k \in left : Coming(k)'
    <3> SUFFICES ASSUME NEW k \in left PROVE Coming(k)'
      BY Zenon
    <3>1. Due(k) => SlotOf[k] \in todo
      BY <2>0, Zenon DEF Due
    <3>2. SlotOf[k] \in todo => importing'[To][SlotOf[k]] = importing[To][SlotOf[k]] /\ Due(k)'
      BY <1>0, <1>3, <2>0, <2>3, ZenonT(40) DEF Due
    <3> QED BY <1>3, <2>0, <2>3, <3>1, <3>2, Zenon DEF Coming
  <2>6. Undisturbed'
    <3>1. \A s \in Slot : Agreed(s) => Agreed(s)'
      BY <2>0, <2>3, Zenon DEF Agreed
    <3>2. (\A s \in todo : Agreed(s))' /\ Agreed(slot)'
      BY <1>0, <2>0, <3>1, Zenon DEF Undisturbed
    <3>3. \A k \in left' : (acked[k] # 0)' /\ Agreed(SlotOf[k])' /\ Coming(k)'
      BY <1>2, <1>3, <2>0, <2>5, <3>1, Zenon
    <3> QED BY <2>4, <3>2, <3>3, Zenon DEF Undisturbed
  <2> QED BY <2>1, <2>6, Zenon
<1>8. CASE AssertOwner
  <2>0. /\ pc = "node" /\ AtSlot /\ acked' = acked /\ slot \notin todo
        /\ cur \in Master /\ cur \notin rest /\ dst = view[slot] /\ Agreed(slot)
    BY <1>0, <1>8, Zenon DEF AssertOwner, AtSlot, Loops, clientVars, Undisturbed
  <2>1. UNCHANGED nodeVars \/ SetSlotNode(cur, slot, dst)
    BY <1>8, Zenon DEF AssertOwner, Ignoring
  <2>2. /\ store' = store
        /\ \A x \in Node, y \in Slot : owner'[x][y] = owner[x][y]
        /\ \A x \in Node, y \in Slot : importing'[x][y] \in {None, importing[x][y]}
        /\ \A x \in Node, y \in Slot : migrating'[x][y] \in {None, migrating[x][y]}
        /\ \A x \in Node, y \in Slot : y # slot => importing'[x][y] = importing[x][y]
    <3>1. CASE UNCHANGED nodeVars
      BY <3>1, Zenon DEF nodeVars, markVars
    <3>2. CASE SetSlotNode(cur, slot, dst)
      <4>1. cur \in Node /\ dst \in Node /\ owner[cur][slot] = dst
        BY <1>0, <1>1, <2>0, Zenon DEF Agreed
      <4>2. Tables /\ slot \in Slot
        BY <1>0, Zenon
      <4>3. Assigned(cur, slot, dst)
        BY <3>2, <4>1, <4>2, NodeEffect, Zenon
      <4>4. \A x \in Node, y \in Slot : owner'[x][y] = owner[x][y]
        BY <4>1, <4>3, ZenonT(40) DEF Assigned
      <4>5. ASSUME NEW x \in Node, NEW y \in Slot
            PROVE  /\ importing'[x][y] \in {None, importing[x][y]}
                   /\ migrating'[x][y] \in {None, migrating[x][y]}
                   /\ y # slot => importing'[x][y] = importing[x][y]
        <5>1. importing'[x][y] = IF x = cur /\ y = slot /\ dst = cur THEN None ELSE importing[x][y]
          BY <4>3, Zenon DEF Assigned
        <5>2. migrating'[x][y] =
                IF x = cur /\ y = slot /\ KeysIn(cur, slot) = {} THEN None ELSE migrating[x][y]
          BY <4>3, Zenon DEF Assigned
        <5> QED BY <5>1, <5>2, Zenon
      <4> QED BY <4>3, <4>4, <4>5, Zenon DEF Assigned
    <3> QED BY <2>1, <3>1, <3>2, Zenon
  <2>3. \A x \in Node, y \in Slot :
          OpenOn(x, y)' => OpenOn(x, y) /\ (y \in todo \/ (y = slot /\ x \in rest))
    <3>1. \A x \in Node, y \in Slot : OpenOn(x, y)' => OpenOn(x, y)
      BY <2>2, ZenonT(40) DEF OpenOn
    <3> QED BY <1>0, <2>0, <3>1, Zenon DEF Undisturbed, Closing
  <2>4. ASSUME NEW k \in left PROVE store[view[SlotOf[k]]][k] = acked[k] \/ SlotOf[k] \in todo
    BY <1>3, <2>0, Zenon DEF Coming, Due
  <2>5. CASE Return
    <3>1. todo = {} /\ rest = {}
      BY <1>8, <2>5, Zenon DEF AssertOwner, NextOpenSlot, Return
    <3>2. AllClosed'
      BY <1>0, <2>3, <3>1, Zenon DEF AllClosed
    <3>3. ASSUME NEW k \in left PROVE Gathered(k)'
      <4>1. PICK o \in Master : o = view[SlotOf[k]]
        BY <1>1, <1>3, Zenon
      <4>2. o \in Node /\ SlotOf[k] \in Slot /\ owner[o][SlotOf[k]] = o
        BY <1>0, <1>3, <4>1, Zenon DEF Agreed
      <4>3. owner'[o][SlotOf[k]] = o
        <5>1. owner'[o][SlotOf[k]] = owner[o][SlotOf[k]]
          BY <2>2, <4>2, ZenonT(40)
        <5> QED BY <4>2, <5>1, Zenon
      <4>4. store'[o][k] = acked'[k]
        BY <2>0, <2>2, <2>4, <3>1, <4>1, Zenon
      <4> QED BY <4>2, <4>3, <4>4, Zenon DEF Gathered, Claims
    <3> QED BY <1>2, <2>5, <3>2, <3>3, Zenon DEF Return
  <2>6. CASE /\ pc' \in {"repair", "stable"} /\ UNCHANGED <<view, slot, todo>>
             /\ IF pc' = "repair" THEN rest = {} ELSE rest' = rest
    <3>1. \A s \in Slot : Agreed(s) => Agreed(s)'
      BY <1>0, <2>2, <2>6, ZenonT(40) DEF Agreed
    <3>2. Closing'
      BY <2>3, <2>6, Zenon DEF Closing, AtSlot
    <3>3. (\A s \in todo : Agreed(s))' /\ Agreed(slot)'
      BY <1>0, <2>0, <2>6, <3>1, Zenon DEF Undisturbed
    <3>4. ASSUME NEW k \in left PROVE Coming(k)'
      <4>1. SlotOf[k] \in todo => importing'[To][SlotOf[k]] = importing[To][SlotOf[k]] /\ Due(k)'
        BY <1>0, <1>3, <2>0, <2>2, <2>6, ZenonT(40) DEF Due
      <4> QED BY <1>3, <2>0, <2>2, <2>4, <2>6, <4>1, Zenon DEF Coming
    <3>5. \A k \in left' : (acked[k] # 0)' /\ Agreed(SlotOf[k])' /\ Coming(k)'
      BY <1>2, <1>3, <2>0, <3>1, <3>4, Zenon
    <3> QED BY <2>6, <3>2, <3>3, <3>5, Zenon DEF Undisturbed
  <2> QED BY <1>8, <2>5, <2>6, Zenon DEF AssertOwner, NextOpenSlot
<1> QED BY <1>4, <1>5, <1>6, <1>7, <1>8, Zenon DEF ContinueRepair, RepairStep

\* The strengthened invariant holds at the start ...
LEMMA InitialGathering == RepairInit => Gathering
<1> SUFFICES ASSUME RepairInit PROVE Gathering
  BY Zenon
<1> USE ValkeyAssumption, MoverAssumption, RepairAssumption
<1>0. /\ From \in Node /\ To \in Node /\ From # To /\ \A k \in Key : SlotOf[k] \in Slot
      /\ Seed \in Node
  BY Zenon
<1>1. RepairTypeOK /\ AtWork
  BY InitialTypes, Zenon DEF RepairInit, RepairTypeOK
<1>2. PICK o \in [Slot -> Master], present \in SUBSET Key :
        /\ owner = [n \in Node |-> o]
        /\ store = [n \in Node |-> [k \in Key |->
               IF k \in present /\ o[SlotOf[k]] = n THEN 1 ELSE 0]]
  BY ZenonT(40) DEF RepairInit, Init
<1>3. \A s \in Slot : o[s] = From
  BY <1>0, <1>2, Zenon DEF RepairInit, Booked
<1>4. \A n \in Node : n # From => \A k \in Key : store[n][k] = 0
  BY <1>0, <1>2, <1>3, Zenon
<1>5. \A n \in Node, s \in Slot : owner[n][s] = From
  BY <1>2, <1>3, Zenon
<1>6. Routed
  BY <1>0, <1>4, <1>5, Zenon DEF RepairInit, Init, Routed, Ends
<1>7. OneCopy
  BY <1>0, <1>4, <1>5, Zenon DEF OneCopy, Claims
<1>8. Loops /\ ~Repairing
  BY Zenon DEF RepairInit, Init, Loops, InMove, Repairing, AtSlot
<1> QED BY <1>1, <1>6, <1>7, <1>8, Zenon DEF Gathering

\* ... and every step keeps it.
LEMMA GatheringStep == Gathering /\ [RepairNext]_repairVars => Gathering'
<1> SUFFICES ASSUME Gathering, [RepairNext]_repairVars PROVE Gathering'
  BY Zenon
<1>1. RepairTypeOK' /\ AtWork'
  BY RepairTypeStep, Zenon DEF Gathering
<1>2. CASE RepairNext
  <2>1. Routed' /\ OneCopy'
    BY <1>2, NodeSteps, NodesKept, Zenon DEF Gathering, RepairTypeOK
  <2>2. Loops'
    BY <1>2, LoopsKept, Zenon
  <2>3. ASSUME Repairing', clean' PROVE Undisturbed'
    <3>1. CASE MovePass
      <4>1. ~Repairing'
        BY <3>1, Zenon DEF MovePass, MoveSlots, MoveStep, Probe, SetImporting, SetMigrating,
          GetKeys,
           Migrate, AssignOwner, Goto, Refused, Return, Repairing
      <4> QED BY <2>3, <4>1, Zenon
    <3>2. CASE BeginRepair
      BY <2>3, <3>2, BeginsUndisturbed, Zenon
    <3>3. CASE ContinueRepair
      <4>1. clean /\ Repairing /\ pc' # "idle"
        BY <2>3, <3>3, Zenon DEF ContinueRepair, RepairStep, RepairOne, Stray, Restore, Stable,
           AssertOwner, Repairing, Gathering, RepairTypeOK
      <4> QED BY <2>3, <3>3, <4>1, RepairGoesOn, Zenon
    <3>4. CASE ClientStep
      <4>1. clean /\ Repairing
        BY <2>3, <3>4, Zenon DEF ClientStep, Repairing, opVars
      <4> QED BY <3>4, <4>1, OthersDoNotDisturb, Zenon DEF Gathering
    <3>5. CASE Fail /\ clean' = FALSE
      BY <2>3, <3>5, Zenon
    <3>6. CASE Bus /\ UNCHANGED <<clean, left>>
      <4>1. clean /\ Repairing
        BY <2>3, <3>6, Zenon DEF Bus, Repairing, opVars
      <4> QED BY <3>6, <4>1, OthersDoNotDisturb, Zenon DEF Gathering
    <3> QED BY <1>2, <3>1, <3>2, <3>3, <3>4, <3>5, <3>6, Zenon DEF RepairNext
  <2> QED BY <1>1, <2>1, <2>2, <2>3, Zenon DEF Gathering
<1>3. CASE UNCHANGED repairVars
  <2>1. UNCHANGED <<owner, importing, migrating, store, acked, pc, src, dst, view, todo, slot,
                    batch, rest, cur, clean, left>>
    BY <1>3, Zenon DEF repairVars, vars, valkeyVars, nodeVars, markVars, clientVars, opVars
  <2>2. Routed' /\ OneCopy' /\ Loops'
    BY <2>1, Zenon DEF Gathering, Routed, OneCopy, Loops, Claims, InMove, Repairing, AtSlot
  <2>3. Repairing' /\ clean' => Undisturbed'
    <3>1. \A s : Agreed(s)' <=> Agreed(s)
      BY <2>1, Zenon DEF Agreed
    <3>2. \A k : Coming(k)' <=> Coming(k)
      BY <2>1, Zenon DEF Coming, Due
    <3>3. Closing' <=> Closing
      BY <2>1, Zenon DEF Closing, OpenOn, AtSlot
    <3>4. Undisturbed => Undisturbed'
      BY <2>1, <3>1, <3>2, <3>3, Zenon DEF Undisturbed, AtSlot
    <3> QED BY <2>1, <3>4, Zenon DEF Gathering, Repairing
  <2> QED BY <1>1, <2>2, <2>3, Zenon DEF Gathering
<1> QED BY <1>2, <1>3, Zenon

\* RepairSlots, for any number of nodes, slots and keys and any history of interrupted moves
\* and repairs: one that runs undisturbed returns with no slot open on a primary and with every
\* write acknowledged before it began, and not overwritten since, on the owner of its slot.
THEOREM RepairGathersThm == RepairSpec => RepairGathers
<1>1. RepairInit => Gathering
  BY InitialGathering, Zenon
<1>2. Gathering /\ [RepairNext]_repairVars => Gathering'
  BY GatheringStep, Zenon
<1>3. Gathering /\ [RepairNext]_repairVars
        => [Repairing /\ pc' = "idle" /\ clean'
              => (AllClosed /\ \A k \in left : Gathered(k))']_repairVars
  <2> SUFFICES ASSUME Gathering, RepairNext, Repairing, pc' = "idle", clean'
               PROVE  (AllClosed /\ \A k \in left : Gathered(k))'
    BY Zenon
  <2>1. ContinueRepair
    BY Zenon DEF RepairNext, MovePass, MoveSlots, MoveStep, Probe, SetImporting, SetMigrating,
       GetKeys, Migrate, AssignOwner, BeginRepair, RepairSlots, ClientStep, Bus, opVars, Repairing
  <2>2. clean
    BY <2>1, Zenon DEF ContinueRepair, Gathering, RepairTypeOK
  <2> QED BY <2>1, <2>2, RepairGoesOn, Zenon
<1> QED BY <1>1, <1>2, <1>3, PTL DEF RepairSpec, RepairGathers
=============================================================================
