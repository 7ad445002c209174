---------------------------- MODULE DrainProofs -----------------------------
(***************************************************************************)
(* Proofs about Drain for every number of nodes, slots and keys: draining  *)
(* a shard and deleting it loses no acknowledged write of a slot that went *)
(* through the handshake, leaves no slot without an owner, and implements  *)
(* Handover.                                                               *)
(*                                                                         *)
(* The inductive invariant looks at one slot at a time. A slot the         *)
(* departing primary did not own at the start is Quiet: it never changes.  *)
(* Every other slot is Moving: all nodes book it on From or To, From alone *)
(* can be migrating it and To alone importing it. While a Moving slot has  *)
(* not been reassigned bare it is Safe: once any node books it on To,      *)
(* From has no key of it and cannot be given one.                          *)
(***************************************************************************)
EXTENDS Drain, MoverProofs

Quiet(s) ==
    /\ \E o \in Master \ {From} :
        /\ \A n \in Node \ {From} : owner[n][s] = o
        /\ \A k \in Key : SlotOf[k] = s /\ acked[k] # 0 => store[o][k] = acked[k]
    /\ owner[From][s] # From
    /\ \A n \in Node : importing[n][s] = None /\ migrating[n][s] = None

\* Who may own a moving slot and who may have it open.
Shape(s) ==
    /\ \A n \in Node : owner[n][s] \in {From, To, None}
    /\ ~gone => \A n \in Node : owner[n][s] # None
    /\ gone => Claims(To, s) /\ \A n \in Node : owner[n][s] # From
    /\ \A n \in Node : importing[n][s] # None => n = To /\ importing[n][s] = From
    /\ \A n \in Node : migrating[n][s] # None => n = From /\ migrating[n][s] = To

\* A replica books the slot on To only once To's claim can no longer be beaten.
Heard(s) ==
    \A n \in Node \ Master : owner[n][s] = To =>
        Claims(To, s) /\ (Claims(From, s) => epoch[From] < epoch[To])

\* To owns the slot or is importing it.
Awaited(s) == Claims(To, s) \/ importing[To][s] = From

\* From has no key of the slot, and clients cannot write one there.
Emptied(s) == KeysIn(From, s) = {} /\ Prepared(s)

Safe(s) ==
    /\ (\E n \in Node : owner[n][s] = To) => Emptied(s)
    /\ Claims(To, s) => \A n \in Node \ {To} : epoch[n] < epoch[To]
    /\ \A k \in Key : SlotOf[k] = s /\ store[From][k] # 0 => store[From][k] = acked[k]
    /\ \A k \in Key : SlotOf[k] = s /\ acked[k] # 0 =>
           store[From][k] = acked[k] \/ store[To][k] = acked[k]

Moving(s) == Shape(s) /\ Heard(s) /\ (s \notin bare => Safe(s))

Epochs ==
    /\ \A n \in Node : epoch[n] <= currentEpoch
    /\ \A m, n \in Node : m # n => epoch[m] # epoch[n]

MoverPCs == {"probe", "importing", "migrating", "getkeys", "migrate", "assign"}

\* What MoveSlots has established for the slot at hand when it sends a command.
AtHand ==
    /\ pc \in {"idle"} \cup MoverPCs
    /\ rest \subseteq Master
    /\ pc # "idle" =>
        /\ src = From /\ dst = To /\ ~gone
        /\ \A s \in todo : Moving(s)
        /\ pc # "probe" => Moving(slot)
    /\ slot \notin bare =>
        /\ pc = "migrating" => Awaited(slot)
        /\ pc \in {"getkeys", "migrate"} => Prepared(slot)
        /\ pc = "assign" => Emptied(slot)

DrainInv ==
    /\ DrainTypeOK
    /\ Epochs
    /\ AtHand
    /\ \A s \in Slot : Quiet(s) \/ Moving(s)

-----------------------------------------------------------------------------
\* What the assumptions say of the two primaries a drain is about.
LEMMA Names ==
    /\ From \in Node /\ To \in Node /\ From # To /\ Master \subseteq Node
    /\ From # None /\ To # None /\ None \notin Node
  BY ValkeyAssumption, MoverAssumption, DrainAssumption, Zenon

\* A step keeps what is known about slot s.
Keeps(s) ==
    /\ Quiet(s) => Quiet(s)'
    /\ Moving(s) => Moving(s)'
    /\ Moving(s) /\ s \notin bare =>
        /\ Awaited(s) => Awaited(s)'
        /\ Prepared(s) => Prepared(s)'
        /\ Emptied(s) => Emptied(s)'

\* A slot keeps its shape when nodes book it on To or close it.
LEMMA ShapeNarrows ==
    ASSUME NEW s \in Slot, Shape(s), To # None, To # From, gone' = gone,
           \A n \in Node : owner'[n][s] \in {owner[n][s], To},
           \A n \in Node : importing'[n][s] \in {importing[n][s], None},
           \A n \in Node : migrating'[n][s] \in {migrating[n][s], None}
    PROVE  Shape(s)'
<1>1. To \in Node
  BY Names, Zenon
<1>2. ASSUME NEW n \in Node PROVE owner'[n][s] \in {From, To, None}
  BY <1>2, Zenon DEF Shape
<1>3. ASSUME ~gone, NEW n \in Node PROVE owner'[n][s] # None
  BY <1>3, Zenon DEF Shape
<1>4. ASSUME gone PROVE owner'[To][s] = To
  BY <1>1, <1>4, Zenon DEF Shape, Claims
<1>5. ASSUME gone, NEW n \in Node PROVE owner'[n][s] # From
  BY <1>5, Zenon DEF Shape
<1>6. ASSUME NEW n \in Node, importing'[n][s] # None PROVE n = To /\ importing'[n][s] = From
  BY <1>6, Zenon DEF Shape
<1>7. ASSUME NEW n \in Node, migrating'[n][s] # None PROVE n = From /\ migrating'[n][s] = To
  BY <1>7, Zenon DEF Shape
<1> QED BY <1>2, <1>3, <1>4, <1>5, <1>6, <1>7, Zenon DEF Shape, Claims

\* A step that does not touch slot s keeps what is known about it, even if To's
\* config epoch grows.
LEMMA Frame ==
    ASSUME NEW s \in Slot, DrainTypeOK, epoch' \in [Node -> Nat],
           \A n \in Node : /\ owner'[n][s] = owner[n][s]
                           /\ importing'[n][s] = importing[n][s]
                           /\ migrating'[n][s] = migrating[n][s],
           \A n \in Node, k \in Key : SlotOf[k] = s => store'[n][k] = store[n][k],
           \A k \in Key : SlotOf[k] = s => acked'[k] = acked[k],
           \A n \in Node \ {To} : epoch'[n] = epoch[n],
           epoch[To] <= epoch'[To],
           gone' = gone, bare \subseteq bare'
    PROVE  Keeps(s)
<1>0. From \in Node /\ To \in Node /\ From # To /\ epoch \in [Node -> Nat]
      /\ Master \subseteq Node
  BY Names, Zenon DEF DrainTypeOK, TypeOK, ValkeyTypeOK
<1>1. KeysIn(From, s)' = KeysIn(From, s)
  BY <1>0, Zenon DEF KeysIn
<1>2. Prepared(s)' <=> Prepared(s)
  BY <1>0, Zenon DEF Prepared, Claims
<1>3. Emptied(s)' <=> Emptied(s)
  BY <1>1, <1>2, Zenon DEF Emptied
<1>4. Awaited(s)' <=> Awaited(s)
  BY <1>0, Zenon DEF Awaited, Claims
<1>5. Quiet(s) => Quiet(s)'
  <2> HAVE Quiet(s)
  <2>1. PICK o \in Master \ {From} :
        /\ \A n \in Node \ {From} : owner[n][s] = o
        /\ \A k \in Key : SlotOf[k] = s /\ acked[k] # 0 => store[o][k] = acked[k]
    BY Zenon DEF Quiet
  <2>2. /\ \A n \in Node \ {From} : owner'[n][s] = o
        /\ \A k \in Key : SlotOf[k] = s /\ acked'[k] # 0 => store'[o][k] = acked'[k]
    BY <1>0, <2>1, ZenonT(40)
  <2> QED BY <1>0, <2>2, ZenonT(40) DEF Quiet
<1>6. Shape(s) => Shape(s)'
  <2> HAVE Shape(s)
  <2>1. To # None
    BY Names, Zenon
  <2> QED BY <1>0, <2>1, ShapeNarrows, Zenon
<1>7. Heard(s) => Heard(s)'
  BY <1>0 DEF Heard, Claims
<1>8. Safe(s) => Safe(s)'
  <2> HAVE Safe(s)
  <2>1. (\E n \in Node : owner'[n][s] = To) => Emptied(s)'
    BY <1>3, Zenon DEF Safe
  <2>2. owner'[To][s] = To => \A n \in Node \ {To} : epoch'[n] < epoch'[To]
    BY <1>0 DEF Safe, Claims
  <2>3. /\ \A k \in Key : SlotOf[k] = s /\ store'[From][k] # 0 => store'[From][k] = acked'[k]
        /\ \A k \in Key : SlotOf[k] = s /\ acked'[k] # 0 =>
               store'[From][k] = acked'[k] \/ store'[To][k] = acked'[k]
    BY <1>0, ZenonT(40) DEF Safe
  <2> QED BY <2>1, <2>2, <2>3, Zenon DEF Safe, Claims
<1> QED BY <1>2, <1>3, <1>4, <1>5, <1>6, <1>7, <1>8, Zenon DEF Keeps, Moving

\* Hearing a claim on the bus keeps what is known about every slot: To's claim to a
\* slot that went through the handshake cannot be beaten, and From then has no keys
\* left to delete.
LEMMA BusKeeps ==
    ASSUME DrainTypeOK, NEW m \in Node, NEW n \in Node, NEW t \in Slot,
           gone => n # From, Gossip(m, n, t), UNCHANGED <<gone, bare>>, NEW s \in Slot
    PROVE  Keeps(s)
<1>0. From \in Node /\ To \in Node /\ From # To /\ epoch \in [Node -> Nat]
      /\ Master \subseteq Node /\ Tables
  BY Names, Zenon DEF DrainTypeOK, TypeOK, ValkeyTypeOK, Tables
<1>e. /\ Tables' /\ importing' = importing /\ epoch' = epoch /\ acked' = acked
      /\ \A x \in Node, y \in Slot :
           owner'[x][y] = IF x = n /\ y = t THEN m ELSE owner[x][y]
      /\ \A x \in Node, y \in Slot :
           \/ migrating'[x][y] = migrating[x][y]
           \/ x = n /\ y = t /\ migrating'[x][y] = None
      /\ \A x \in Node, k \in Key : store'[x][k] =
           IF x = n /\ owner[n][t] = n /\ SlotOf[k] = t THEN 0 ELSE store[x][k]
  BY <1>0, GossipEffect
<1>g. m # n /\ owner[m][t] = m /\ owner[n][t] # m /\ importing[n][t] = None /\ Yields(n, t, m)
  BY Zenon DEF Gossip, Claims
<1>1. CASE s # t
  <2>1. epoch[To] <= epoch'[To]
    BY <1>0, <1>e
  <2>2. \A x \in Node : /\ owner'[x][s] = owner[x][s]
                        /\ importing'[x][s] = importing[x][s]
                        /\ migrating'[x][s] = migrating[x][s]
    <3>1. ASSUME NEW x \in Node PROVE owner'[x][s] = owner[x][s]
      BY <1>1, <1>e, Zenon
    <3>2. ASSUME NEW x \in Node PROVE migrating'[x][s] = migrating[x][s]
      BY <1>1, <1>e, ZenonT(40)
    <3> QED BY <1>e, <3>1, <3>2, Zenon
  <2>3. \A x \in Node, k \in Key : SlotOf[k] = s => store'[x][k] = store[x][k]
    BY <1>1, <1>e, ZenonT(40)
  <2> QED BY <1>0, <1>e, <2>1, <2>2, <2>3, Frame, Zenon
<1>2. CASE s = t
  <2>1. Quiet(s) => Quiet(s)'
    <3> HAVE Quiet(s)
    <3>1. PICK o \in Master \ {From} :
          /\ \A x \in Node \ {From} : owner[x][s] = o
          /\ \A k \in Key : SlotOf[k] = s /\ acked[k] # 0 => store[o][k] = acked[k]
      BY Zenon DEF Quiet
    <3>2. m # From /\ m = o
      BY <1>2, <1>g, <3>1, Zenon DEF Quiet
    <3>3. n = From /\ owner[From][s] # From
      BY <1>2, <1>g, <3>1, <3>2, Zenon DEF Quiet
    <3>4. /\ \A x \in Node \ {From} : owner'[x][s] = o
          /\ \A k \in Key : SlotOf[k] = s /\ acked'[k] # 0 => store'[o][k] = acked'[k]
      BY <1>0, <1>e, <1>2, <3>1, <3>3
    <3>5. owner'[From][s] # From
      BY <1>0, <1>e, <1>2, <3>2, <3>3, Zenon
    <3>6. \A x \in Node : importing'[x][s] = None /\ migrating'[x][s] = None
      BY <1>e DEF Quiet
    <3> QED BY <3>4, <3>5, <3>6, Zenon DEF Quiet
  <2>2. ASSUME Moving(s)
        PROVE  /\ Moving(s)'
               /\ s \notin bare => /\ Awaited(s) => Awaited(s)'
                                   /\ Prepared(s) => Prepared(s)'
                                   /\ Emptied(s) => Emptied(s)'
    <3>0. Shape(s) /\ Heard(s) /\ (s \notin bare => Safe(s))
      BY <2>2, Zenon DEF Moving
    <3>1. m \in {From, To}
      BY <1>2, <1>g, <3>0, Names, Zenon DEF Shape
    <3>2. CASE m = From
      <4>1. ~gone /\ n # From /\ owner[n][s] = To /\ owner[From][s] = From
        BY <1>2, <1>g, <3>0, <3>2, <1>0, Zenon DEF Shape, Claims
      <4>2. n = To => epoch[To] < epoch[From]
        BY <1>2, <1>g, <3>2, <4>1, <1>0, Zenon DEF Yields, Claims
      <4>3. Shape(s)'
        BY <1>0, <1>e, <1>2, <3>0, <3>2, <4>1 DEF Shape, Claims
      <4>4. Heard(s)'
        <5> SUFFICES ASSUME NEW x \in Node \ Master, owner'[x][s] = To
                     PROVE  owner'[To][s] = To /\ epoch'[From] < epoch'[To]
          BY Zenon DEF Heard, Claims
        <5>1. owner[x][s] = To /\ x # n
          BY <1>0, <1>e, <1>2, <3>2, Zenon
        <5>2. owner[To][s] = To /\ epoch[From] < epoch[To]
          BY <5>1, <3>0, <4>1, Zenon DEF Heard, Claims
        <5>3. n # To
          BY <1>0, <4>2, <5>2
        <5> QED BY <1>0, <1>e, <5>2, <5>3, ZenonT(40)
      <4>5. ASSUME s \notin bare
            PROVE  Safe(s)' /\ (Awaited(s) => Awaited(s)') /\ (Prepared(s) => Prepared(s)')
                   /\ (Emptied(s) => Emptied(s)')
        <5>1. Safe(s)
          BY <3>0, <4>5, Zenon
        <5>2. n # To
          BY <1>0, <4>1, <4>2, <5>1 DEF Safe, Claims
        <5>3. owner'[To][s] = owner[To][s] /\ owner'[From][s] = owner[From][s]
              /\ migrating'[From][s] = migrating[From][s]
          <6>1. \A x \in Node : x # n => owner'[x][s] = owner[x][s]
            BY <1>e, Zenon
          <6>2. \A x \in Node : x # n => migrating'[x][s] = migrating[x][s]
            BY <1>e, Zenon
          <6> QED BY <1>0, <4>1, <5>2, <6>1, <6>2, Zenon
        <5>4. \A x \in Node, k \in Key : store'[x][k] = store[x][k]
          BY <1>0, <1>e, <1>2, <4>1, <5>2
        <5>5. KeysIn(From, s)' = KeysIn(From, s)
          BY <1>0, <5>4, Zenon DEF KeysIn
        <5>6. Prepared(s)' <=> Prepared(s)
          BY <1>e, <5>3, Zenon DEF Prepared, Claims
        <5>7. Awaited(s)' <=> Awaited(s)
          BY <1>e, <5>3, Zenon DEF Awaited, Claims
        <5>8. (\E x \in Node : owner'[x][s] = To) => Emptied(s)'
          <6>1. \A x \in Node : owner'[x][s] = To => owner[x][s] = To
            BY <1>0, <1>e, <3>2, ZenonT(40)
          <6> QED BY <6>1, <5>1, <5>5, <5>6, Zenon DEF Safe, Emptied
        <5>9. Safe(s)'
          BY <1>0, <1>e, <5>1, <5>3, <5>4, <5>8 DEF Safe, Claims
        <5> QED BY <5>5, <5>6, <5>7, <5>9, Zenon DEF Emptied
      <4> QED BY <4>3, <4>4, <4>5, Zenon DEF Moving
    <3>3. CASE m = To
      <4>1. n # To /\ owner[To][s] = To /\ owner[n][s] \in {From, None}
        BY <1>2, <1>g, <3>0, <3>3, <1>0, Zenon DEF Shape
      <4>2. owner'[To][s] = To /\ owner'[n][s] = To
        BY <1>0, <1>e, <1>2, <3>3, <4>1, Zenon
      <4>3. Shape(s)'
        <5>1. \A x \in Node : owner'[x][s] \in {owner[x][s], To}
          BY <1>0, <1>e, <1>2, <3>3, Zenon
        <5>2. \A x \in Node : importing'[x][s] = importing[x][s]
          BY <1>e, Zenon
        <5>3. \A x \in Node : migrating'[x][s] \in {migrating[x][s], None}
          BY <1>e, ZenonT(40)
        <5>4. Shape(s) /\ gone' = gone /\ To # None /\ To # From
          BY <3>0, Names, Zenon
        <5> QED BY <5>1, <5>2, <5>3, <5>4, ShapeNarrows, Zenon
      <4>4. owner'[From][s] = From => n # From /\ owner[From][s] = From
        BY <1>0, <1>e, <1>2, <3>3, Zenon
      <4>5. Heard(s)'
        <5> SUFFICES ASSUME NEW x \in Node \ Master, owner'[x][s] = To, owner'[From][s] = From
                     PROVE  epoch[From] < epoch[To]
          BY <1>e, <4>2, Zenon DEF Heard, Claims
        <5>1. CASE x = n
          <6>1. ~gone
            BY <3>0, <4>4, <1>0, Zenon DEF Shape
          <6>2. owner[n][s] = From
            BY <3>0, <4>1, <6>1, Zenon DEF Shape
          <6> QED BY <1>0, <1>2, <1>g, <3>3, <4>4, <6>2, Zenon DEF Yields, Claims
        <5>2. CASE x # n
          BY <1>e, <3>0, <4>4, <5>2 DEF Heard, Claims
        <5> QED BY <5>1, <5>2, Zenon
      <4>6. ASSUME s \notin bare
            PROVE  Safe(s)' /\ Awaited(s)' /\ Prepared(s)' /\ Emptied(s)'
        <5>1. Safe(s) /\ Emptied(s)
          BY <1>0, <3>0, <4>1, <4>6, Zenon DEF Safe
        <5>2. \A k \in Key : SlotOf[k] = s => store[From][k] = 0
          BY <5>1, Zenon DEF Emptied, KeysIn
        <5>3. \A k \in Key : SlotOf[k] = s => store'[From][k] = 0 /\ store'[To][k] = store[To][k]
          BY <1>0, <1>e, <1>2, <4>1, <5>2
        <5>4. Emptied(s)'
          <6>1. KeysIn(From, s)' = {}
            BY <5>3, Zenon DEF KeysIn
          <6>2. owner'[From][s] = From => migrating'[From][s] = To
            BY <1>0, <1>e, <4>4, <5>1, Zenon DEF Emptied, Prepared, Claims
          <6> QED BY <6>1, <6>2, <4>2, Zenon DEF Emptied, Prepared, Claims
        <5>5. \A x \in Node \ {To} : epoch'[x] < epoch'[To]
          BY <1>e, <4>1, <5>1, Zenon DEF Safe, Claims
        <5>6. \A k \in Key : SlotOf[k] = s /\ acked'[k] # 0 => store'[To][k] = acked'[k]
          BY <1>e, <5>1, <5>2, <5>3, Zenon DEF Safe
        <5> QED BY <4>2, <5>3, <5>4, <5>5, <5>6, Zenon DEF Safe, Awaited, Emptied, Claims
      <4> QED BY <4>3, <4>5, <4>6, Zenon DEF Moving
    <3> QED BY <3>1, <3>2, <3>3, Zenon
  <2> QED BY <2>1, <2>2, Zenon DEF Keeps
<1> QED BY <1>1, <1>2, Zenon

\* A client's write or delete keeps what is known about every slot: From accepts a
\* key it does not hold only while nobody has been told that To owns the slot.
LEMMA ClientKeeps ==
    ASSUME DrainTypeOK, NEW n \in Node, NEW k \in Key,
           ClientWrite(n, k) \/ ClientDelete(n, k), UNCHANGED <<gone, bare>>, NEW s \in Slot
    PROVE  Keeps(s)
<1>0. From \in Node /\ To \in Node /\ From # To /\ epoch \in [Node -> Nat]
      /\ Master \subseteq Node /\ From # None /\ To # None /\ n # None
  BY Names, Zenon DEF DrainTypeOK, TypeOK, ValkeyTypeOK
<1>e. /\ owner' = owner /\ importing' = importing /\ migrating' = migrating
      /\ epoch' = epoch /\ Serves(n, k)
      /\ store'[n][k] = acked'[k]
      /\ \A x \in Node, y \in Key : x # n \/ y # k => store'[x][y] = store[x][y]
      /\ \A y \in Key : y # k => acked'[y] = acked[y]
  BY ClientEffect, ZenonT(40) DEF DrainTypeOK, TypeOK
<1>1. CASE s # SlotOf[k]
  <2>1. \A x \in Node, y \in Key : SlotOf[y] = s => store'[x][y] = store[x][y]
    BY <1>1, <1>e, Zenon
  <2>2. \A y \in Key : SlotOf[y] = s => acked'[y] = acked[y]
    BY <1>1, <1>e, Zenon
  <2>3. epoch[To] <= epoch'[To]
    BY <1>0, <1>e
  <2> QED BY <1>0, <1>e, <2>1, <2>2, <2>3, Frame, Zenon
<1>2. CASE s = SlotOf[k]
  <2>1. Quiet(s) => Quiet(s)'
    <3> HAVE Quiet(s)
    <3>1. PICK o \in Master \ {From} :
          /\ \A x \in Node \ {From} : owner[x][s] = o
          /\ \A y \in Key : SlotOf[y] = s /\ acked[y] # 0 => store[o][y] = acked[y]
      BY Zenon DEF Quiet
    <3>2. \A x \in Node : owner[x][s] = x => x = o
      BY <3>1, <1>0, Zenon DEF Quiet
    <3>3. n = o
      BY <1>e, <1>2, <1>0, <3>2, Zenon DEF Serves, ServesDirect, ServesAsking, Claims, Quiet
    <3>4. \A y \in Key : SlotOf[y] = s /\ acked'[y] # 0 => store'[o][y] = acked'[y]
      BY <1>0, <1>e, <3>1, <3>3, Zenon
    <3> QED BY <1>e, <3>1, <3>4, Zenon DEF Quiet
  <2>2. ASSUME Moving(s)
        PROVE  /\ Moving(s)'
               /\ s \notin bare => /\ Awaited(s) => Awaited(s)'
                                   /\ Prepared(s) => Prepared(s)'
                                   /\ Emptied(s) => Emptied(s)'
    <3>0. Shape(s) /\ Heard(s) /\ (s \notin bare => Safe(s))
      BY <2>2, Zenon DEF Moving
    <3>1. Shape(s)' /\ Heard(s)'
      BY <1>e, <3>0, Zenon DEF Shape, Heard, Claims
    <3>2. (Awaited(s)' <=> Awaited(s)) /\ (Prepared(s)' <=> Prepared(s))
      BY <1>e, Zenon DEF Awaited, Prepared, Claims
    <3>3. ASSUME s \notin bare
          PROVE  Safe(s)' /\ (Emptied(s) => Emptied(s)')
      <4>0. Safe(s)
        BY <3>0, <3>3, Zenon
      <4>1. \/ n = From /\ owner[From][s] = From
               /\ (migrating[From][s] = None \/ store[From][k] # 0)
            \/ n = To /\ store[From][k] = 0
        <5>1. CASE ServesDirect(n, k)
          <6>1. owner[n][s] = n /\ n \in {From, To}
            BY <1>0, <1>2, <3>0, <5>1, Zenon DEF ServesDirect, Claims, Shape
          <6>2. n = To => KeysIn(From, s) = {}
            BY <4>0, <6>1, Zenon DEF Safe, Emptied
          <6>3. n = To => store[From][k] = 0
            BY <1>2, <6>2, Zenon DEF KeysIn
          <6> QED BY <1>2, <5>1, <6>1, <6>3, Zenon DEF ServesDirect
        <5>2. CASE ServesAsking(n, k)
          <6>1. PICK x \in Node \ {n} : migrating[x][s] = n /\ store[x][k] = 0
            BY <1>2, <5>2, Zenon DEF ServesAsking
          <6>2. x = From /\ n = To
            BY <1>0, <3>0, <6>1, Zenon DEF Shape
          <6> QED BY <6>1, <6>2, Zenon
        <5> QED BY <1>e, <5>1, <5>2, Zenon DEF Serves
      <4>2. Emptied(s) => n = To /\ store[From][k] = 0
        BY <1>0, <1>2, <4>1, Zenon DEF Emptied, Prepared, KeysIn, Claims
      <4>3. Emptied(s) => Emptied(s)'
        <5> HAVE Emptied(s)
        <5>1. \A y \in Key : SlotOf[y] = s => store'[From][y] = 0
          BY <1>0, <1>e, <4>2, Zenon DEF Emptied, KeysIn
        <5>2. KeysIn(From, s)' = {}
          BY <5>1, Zenon DEF KeysIn
        <5> QED BY <5>2, <3>2, Zenon DEF Emptied
      <4>4. \A y \in Key : SlotOf[y] = s /\ store'[From][y] # 0 => store'[From][y] = acked'[y]
        BY <1>0, <1>e, <4>0, <4>1 DEF Safe
      <4>5. \A y \in Key : SlotOf[y] = s /\ acked'[y] # 0 =>
               store'[From][y] = acked'[y] \/ store'[To][y] = acked'[y]
        BY <1>0, <1>e, <4>0, <4>1, ZenonT(40) DEF Safe
      <4>6. /\ (\E x \in Node : owner'[x][s] = To) => Emptied(s)'
            /\ owner'[To][s] = To => \A x \in Node \ {To} : epoch'[x] < epoch'[To]
        BY <1>e, <4>0, <4>3, Zenon DEF Safe, Claims
      <4> QED BY <4>3, <4>4, <4>5, <4>6, Zenon DEF Safe, Claims
    <3> QED BY <3>1, <3>2, <3>3, Zenon DEF Moving
  <2> QED BY <2>1, <2>2, Zenon DEF Keeps
<1> QED BY <1>1, <1>2, Zenon

\* Deleting the drained shard keeps what is known about every slot: the seed books
\* each slot on a survivor, which therefore owns it and, if the slot went through
\* the handshake, holds its keys.
LEMMA DeleteKeeps ==
    ASSUME DrainTypeOK, DeleteShard, NEW s \in Slot
    PROVE  Quiet(s) \/ Moving(s) => Quiet(s)' \/ Moving(s)'
<1>0. From \in Node /\ To \in Node /\ Seed \in Node /\ From # To /\ epoch \in [Node -> Nat]
      /\ Master \subseteq Node /\ From # None /\ To # None /\ store \in [Node -> [Key -> Nat]]
  BY Names, MoverAssumption, Zenon DEF DrainTypeOK, TypeOK, ValkeyTypeOK
<1>e. /\ \A x \in Node : owner'[x][s] = IF x = From THEN None ELSE Forgotten(owner[x][s])
      /\ \A x \in Node : importing'[x][s] = IF x = From THEN None ELSE Forgotten(importing[x][s])
      /\ \A x \in Node : migrating'[x][s] = IF x = From THEN None ELSE Forgotten(migrating[x][s])
      /\ gone' = TRUE /\ epoch' = epoch /\ acked' = acked /\ bare' = bare /\ ~gone
      /\ owner[Seed][s] # From
  BY Zenon DEF DeleteShard, epochVars, clientVars, Drained, Booked
<1>s. \A k \in Key : store'[From][k] = 0 /\ \A x \in Node \ {From} : store'[x][k] = store[x][k]
  BY <1>0, Zenon DEF DeleteShard
<1>1. Quiet(s) => Quiet(s)'
  <2> HAVE Quiet(s)
  <2>1. PICK o \in Master \ {From} :
        /\ \A x \in Node \ {From} : owner[x][s] = o
        /\ \A y \in Key : SlotOf[y] = s /\ acked[y] # 0 => store[o][y] = acked[y]
    BY Zenon DEF Quiet
  <2>2. /\ \A x \in Node \ {From} : owner'[x][s] = o
        /\ \A y \in Key : SlotOf[y] = s /\ acked'[y] # 0 => store'[o][y] = acked'[y]
    <3>1. ASSUME NEW x \in Node \ {From} PROVE owner'[x][s] = o
      BY <1>0, <1>e, <2>1, Zenon DEF Forgotten
    <3>2. ASSUME NEW y \in Key, SlotOf[y] = s, acked'[y] # 0 PROVE store'[o][y] = acked'[y]
      <4>1. o \in Node \ {From}
        BY <1>0, <2>1, Zenon
      <4>2. store'[o][y] = store[o][y] /\ acked' = acked
        BY <1>s, <1>e, <4>1, Zenon
      <4> QED BY <2>1, <3>2, <4>2, Zenon
    <3> QED BY <3>1, <3>2, Zenon
  <2>3. owner'[From][s] # From
        /\ \A x \in Node : importing'[x][s] = None /\ migrating'[x][s] = None
    BY <1>0, <1>e, Zenon DEF Quiet, Forgotten
  <2> QED BY <2>2, <2>3, Zenon DEF Quiet
<1>2. Moving(s) => Moving(s)'
  <2> HAVE Moving(s)
  <2>0. Shape(s) /\ Heard(s) /\ (s \notin bare => Safe(s))
    BY Zenon DEF Moving
  <2>1. owner[Seed][s] = To
    BY <1>0, <1>e, <2>0, Zenon DEF Shape
  <2>2. owner[To][s] = To
    BY <1>0, <2>0, <2>1, DrainAssumption, Zenon DEF Heard, Claims
  <2>3. owner'[To][s] = To /\ \A x \in Node : owner'[x][s] \in {To, None}
    BY <1>0, <1>e, <2>0, <2>2, ZenonT(40) DEF Shape, Forgotten
  <2>4. \A x \in Node : importing'[x][s] = None /\ migrating'[x][s] = None
    BY <1>0, <1>e, <2>0, SMTT(30) DEF Shape, Forgotten
  <2>5. Shape(s)'
    BY <1>0, <1>e, <2>3, <2>4, Zenon DEF Shape, Claims
  <2>6. Heard(s)'
    BY <1>0, <2>3, Zenon DEF Heard, Claims
  <2>7. ASSUME s \notin bare
        PROVE  Safe(s)'
    <3>1. Safe(s) /\ Emptied(s)
      BY <1>0, <2>0, <2>2, <2>7, Zenon DEF Safe
    <3>2. \A k \in Key : SlotOf[k] = s => store[From][k] = 0
      BY <3>1, Zenon DEF Emptied, KeysIn
    <3>3. \A k \in Key : SlotOf[k] = s /\ acked'[k] # 0 => store'[To][k] = acked'[k]
      <4>1. ASSUME NEW k \in Key, SlotOf[k] = s, acked[k] # 0 PROVE store[To][k] = acked[k]
        BY <3>1, <3>2, <4>1, Zenon DEF Safe
      <4> QED BY <1>0, <1>e, <1>s, <4>1, Zenon
    <3>4. Emptied(s)'
      <4>1. KeysIn(From, s)' = {}
        BY <1>s, Zenon DEF KeysIn
      <4>2. owner'[From][s] # From
        BY <1>0, <2>3, Zenon
      <4> QED BY <4>1, <4>2, <2>3, Zenon DEF Emptied, Prepared, Claims
    <3>5. \A x \in Node \ {To} : epoch'[x] < epoch'[To]
      BY <1>e, <2>2, <3>1, Zenon DEF Safe, Claims
    <3> QED BY <1>s, <3>3, <3>4, <3>5, Zenon DEF Safe
  <2> QED BY <1>e, <2>5, <2>6, <2>7, Zenon DEF Moving
<1> QED BY <1>1, <1>2, Zenon

-----------------------------------------------------------------------------
\* SETSLOT IMPORTING on To keeps what is known of every slot, and To awaits the slot.
LEMMA ImportingKeeps ==
    ASSUME DrainTypeOK, NEW t \in Slot, Moving(t), ~gone, SetSlotImporting(To, t, From),
           UNCHANGED <<acked, gone, bare>>
    PROVE  Moving(t)' /\ Awaited(t)' /\ \A s \in Slot \ {t} : Keeps(s)
<1>0. From \in Node /\ To \in Node /\ From # To /\ epoch \in [Node -> Nat]
      /\ Master \subseteq Node /\ From # None /\ To # None /\ Tables
  BY Names, Zenon DEF DrainTypeOK, TypeOK, ValkeyTypeOK, Tables
<1>e. /\ owner' = owner /\ migrating' = migrating /\ store' = store /\ epoch' = epoch
      /\ \A x \in Node, y \in Slot :
           importing'[x][y] = IF x = To /\ y = t THEN From ELSE importing[x][y]
  BY <1>0, ImportingEffect
<1>1. ASSUME NEW s \in Slot \ {t}
      PROVE  Keeps(s)
  BY <1>0, <1>e, Frame
<1>2. importing'[To][t] = From
  BY <1>0, <1>e, Zenon
<1>3. Shape(t) /\ Heard(t) /\ (t \notin bare => Safe(t))
  BY Zenon DEF Moving
<1>4. Shape(t)'
  BY <1>0, <1>e, <1>3 DEF Shape, Claims
<1>5. Heard(t)'
  BY <1>e, <1>3, Zenon DEF Heard, Claims
<1>6. Emptied(t) => Emptied(t)'
  BY <1>e, <1>2, Zenon DEF Emptied, Prepared, KeysIn, Claims
<1>7. Safe(t) => Safe(t)'
  BY <1>e, <1>6, Zenon DEF Safe, Claims
<1> QED BY <1>1, <1>2, <1>3, <1>4, <1>5, <1>7, Zenon DEF Moving, Awaited

\* SETSLOT MIGRATING on From keeps what is known of every slot, and both ends of the
\* move are then prepared.
LEMMA MigratingKeeps ==
    ASSUME DrainTypeOK, NEW t \in Slot, Moving(t), ~gone, SetSlotMigrating(From, t, To),
           UNCHANGED <<acked, gone, bare>>
    PROVE  /\ Moving(t)' /\ (Awaited(t) => Prepared(t)')
           /\ \A s \in Slot \ {t} : Keeps(s)
<1>0. From \in Node /\ To \in Node /\ From # To /\ epoch \in [Node -> Nat]
      /\ Master \subseteq Node /\ From # None /\ To # None /\ Tables
  BY Names, Zenon DEF DrainTypeOK, TypeOK, ValkeyTypeOK, Tables
<1>e. /\ owner' = owner /\ importing' = importing /\ store' = store /\ epoch' = epoch
      /\ \A x \in Node, y \in Slot :
           migrating'[x][y] = IF x = From /\ y = t THEN To ELSE migrating[x][y]
  BY <1>0, MigratingEffect
<1>1. ASSUME NEW s \in Slot \ {t}
      PROVE  Keeps(s)
  BY <1>0, <1>e, Frame
<1>2. migrating'[From][t] = To
  BY <1>0, <1>e, Zenon
<1>3. Shape(t) /\ Heard(t) /\ (t \notin bare => Safe(t))
  BY Zenon DEF Moving
<1>4. Shape(t)'
  BY <1>0, <1>e, <1>3 DEF Shape, Claims
<1>5. Heard(t)'
  BY <1>e, <1>3, Zenon DEF Heard, Claims
<1>6. (Awaited(t) => Prepared(t)') /\ (Emptied(t) => Emptied(t)')
  BY <1>e, <1>2, Zenon DEF Awaited, Emptied, Prepared, KeysIn, Claims
<1>7. Safe(t) => Safe(t)'
  BY <1>e, <1>6, Zenon DEF Safe, Claims
<1> QED BY <1>1, <1>3, <1>4, <1>5, <1>6, <1>7, Zenon DEF Moving

\* MIGRATE, also one that stops part-way, keeps what is known of every slot: From's
\* copies of the slot are the latest, so REPLACE never overwrites a newer one.
LEMMA TransferKeeps ==
    ASSUME DrainTypeOK, NEW t \in Slot, Moving(t),
           NEW c \in SUBSET KeysIn(From, t), NEW d \in SUBSET c, Transfer(From, To, c, d),
           UNCHANGED <<acked, gone, bare>>
    PROVE  Moving(t)' /\ (Prepared(t) => Prepared(t)') /\ \A s \in Slot \ {t} : Keeps(s)
<1>0. From \in Node /\ To \in Node /\ From # To /\ epoch \in [Node -> Nat]
      /\ Master \subseteq Node /\ From # None /\ To # None /\ Tables
  BY Names, Zenon DEF DrainTypeOK, TypeOK, ValkeyTypeOK, Tables
<1>c. c \in SUBSET Key /\ \A k \in c : SlotOf[k] = t /\ store[From][k] # 0
  BY Zenon DEF KeysIn
<1>t. Tables /\ c \subseteq Key /\ d \subseteq c
  BY <1>0, <1>c, Zenon
<1>e. /\ owner' = owner /\ importing' = importing /\ migrating' = migrating /\ epoch' = epoch
      /\ \A x \in Node, k \in Key : store'[x][k] =
           IF x = From /\ k \in d THEN 0
           ELSE IF x = To /\ k \in c THEN store[From][k] ELSE store[x][k]
  <2>1. From \in Node /\ To \in Node /\ From # To
    BY Names, Zenon
  <2>2. owner' = owner /\ importing' = importing /\ migrating' = migrating /\ epoch' = epoch
    BY Zenon DEF Transfer, markVars, epochVars
  <2>3. \A x \in Node, k \in Key : store'[x][k] =
           IF x = From /\ k \in d THEN 0
           ELSE IF x = To /\ k \in c THEN store[From][k] ELSE store[x][k]
    <3>1. Moved(From, To, c, d)
      BY <1>t, <2>1, TransferMoves, Zenon
    <3>2. ASSUME NEW x \in Node, NEW k \in Key
          PROVE  store'[x][k] = IF x = From /\ k \in d THEN 0
                                ELSE IF x = To /\ k \in c THEN store[From][k] ELSE store[x][k]
      BY <2>1, <3>1, Zenon DEF Moved
    <3> QED BY <3>2, Zenon
  <2> QED BY <2>2, <2>3, Zenon
<1>1. ASSUME NEW s \in Slot \ {t}
      PROVE  Keeps(s)
  <2>1. \A x \in Node, k \in Key : SlotOf[k] = s => store'[x][k] = store[x][k]
    BY <1>c, <1>e, Zenon
  <2> QED BY <1>0, <1>e, <2>1, Frame
<1>3. Shape(t) /\ Heard(t) /\ (t \notin bare => Safe(t))
  BY Zenon DEF Moving
<1>4. Shape(t)' /\ Heard(t)' /\ (Prepared(t)' <=> Prepared(t))
  BY <1>e, <1>3, Zenon DEF Shape, Heard, Prepared, Claims
<1>5. ASSUME Safe(t)
      PROVE  Safe(t)'
  <2>1. \A k \in Key : store'[From][k] # 0 => store'[From][k] = store[From][k]
    BY <1>0, <1>e, Zenon
  <2>2. Emptied(t) => Emptied(t)'
    BY <1>4, <2>1, Zenon DEF Emptied, KeysIn
  <2>3. \A k \in Key : SlotOf[k] = t /\ acked'[k] # 0 =>
           store'[From][k] = acked'[k] \/ store'[To][k] = acked'[k]
    <3> SUFFICES ASSUME NEW k \in Key, SlotOf[k] = t, acked[k] # 0
                 PROVE  store'[From][k] = acked[k] \/ store'[To][k] = acked[k]
      BY Zenon
    <3>1. CASE k \in c
      <4>1. store[From][k] = acked[k]
        BY <1>5, <1>c, <3>1, Zenon DEF Safe
      <4> QED BY <1>0, <1>e, <3>1, <4>1, Zenon
    <3>2. CASE k \notin c
      BY <1>0, <1>e, <1>5, <3>2, Zenon DEF Safe
    <3> QED BY <3>1, <3>2, Zenon
  <2>4. \A k \in Key : SlotOf[k] = t /\ store'[From][k] # 0 => store'[From][k] = acked'[k]
    BY <1>5, <2>1, Zenon DEF Safe
  <2>5. /\ (\E n \in Node : owner'[n][t] = To) => Emptied(t)'
        /\ owner'[To][t] = To => \A n \in Node \ {To} : epoch'[n] < epoch'[To]
    BY <1>e, <1>5, <2>2, Zenon DEF Safe, Claims
  <2> QED BY <2>3, <2>4, <2>5, Zenon DEF Safe, Claims
<1> QED BY <1>1, <1>3, <1>4, <1>5, Zenon DEF Moving

\* SETSLOT NODE To on a primary keeps what is known of every slot. If the slot went
\* through the handshake, To takes the highest config epoch with it.
LEMMA AssignKeeps ==
    ASSUME DrainTypeOK, Epochs, NEW t \in Slot, Moving(t), ~gone,
           t \notin bare => Emptied(t), NEW n \in Master, SetSlotNode(n, t, To),
           UNCHANGED <<acked, gone, bare>>
    PROVE  /\ Epochs' /\ Moving(t)' /\ (t \notin bare => Emptied(t)')
           /\ \A s \in Slot \ {t} : Keeps(s)
<1>0. From \in Node /\ To \in Node /\ From # To /\ epoch \in [Node -> Nat] /\ n \in Node
      /\ Master \subseteq Node /\ From # None /\ To # None /\ Tables /\ currentEpoch \in Nat
  BY Names, Zenon DEF DrainTypeOK, TypeOK, ValkeyTypeOK, Tables
<1>e. /\ Tables' /\ store' = store
      /\ \A x \in Node, y \in Slot :
           owner'[x][y] = IF x = n /\ y = t THEN To ELSE owner[x][y]
      /\ \A x \in Node, y \in Slot : importing'[x][y] =
           IF x = n /\ y = t /\ To = n THEN None ELSE importing[x][y]
      /\ \A x \in Node, y \in Slot : migrating'[x][y] =
           IF x = n /\ y = t /\ KeysIn(n, t) = {} THEN None ELSE migrating[x][y]
      /\ IF To = n /\ importing[n][t] # None /\ epoch[n] # currentEpoch
         THEN /\ currentEpoch' = currentEpoch + 1
              /\ \A x \in Node : epoch'[x] = IF x = n THEN currentEpoch + 1 ELSE epoch[x]
         ELSE epoch' = epoch /\ currentEpoch' = currentEpoch
  <2>1. Tables' /\ Assigned(n, t, To)
    BY <1>0, NodeEffect, Zenon
  <2> QED BY <2>1, Zenon DEF Assigned
<1>1. Epochs'
  BY <1>0, <1>e, SMTT(30) DEF Epochs
<1>2. epoch' \in [Node -> Nat] /\ epoch[To] <= epoch'[To]
      /\ \A x \in Node \ {To} : epoch'[x] = epoch[x]
  <2>1. epoch[To] <= currentEpoch
    BY <1>0, Zenon DEF Epochs
  <2> QED BY <1>0, <1>e, <2>1 DEF Tables
<1>3. ASSUME NEW s \in Slot \ {t}
      PROVE  Keeps(s)
  <2>1. \A x \in Node : /\ owner'[x][s] = owner[x][s]
                        /\ importing'[x][s] = importing[x][s]
                        /\ migrating'[x][s] = migrating[x][s]
    BY <1>e, ZenonT(40)
  <2> QED BY <1>0, <1>e, <1>2, <2>1, Frame, Zenon
<1>4. Shape(t) /\ Heard(t) /\ (t \notin bare => Safe(t))
  BY Zenon DEF Moving
<1>5. Shape(t)'
  <2>1. \A x \in Node : owner'[x][t] \in {owner[x][t], To}
    BY <1>e, Zenon
  <2>2. \A x \in Node : importing'[x][t] \in {importing[x][t], None}
    BY <1>e, Zenon
  <2>3. \A x \in Node : migrating'[x][t] \in {migrating[x][t], None}
    BY <1>e, Zenon
  <2> QED BY <1>0, <1>4, <2>1, <2>2, <2>3, ShapeNarrows, Zenon
<1>6. Heard(t)'
  <2> SUFFICES ASSUME NEW x \in Node \ Master, owner'[x][t] = To
               PROVE  owner'[To][t] = To
                      /\ (owner'[From][t] = From => epoch'[From] < epoch'[To])
    BY Zenon DEF Heard, Claims
  <2>1. owner[x][t] = To
    BY <1>e, Zenon
  <2>2. owner[To][t] = To /\ (owner[From][t] = From => epoch[From] < epoch[To])
    BY <1>4, <2>1, Zenon DEF Heard, Claims
  <2>3. owner'[To][t] = To /\ (owner'[From][t] = From => owner[From][t] = From)
    BY <1>0, <1>e, <2>2, Zenon
  <2> QED BY <1>0, <1>2, <2>2, <2>3
<1>7. ASSUME t \notin bare
      PROVE  Safe(t)' /\ Emptied(t)'
  <2>0. Safe(t) /\ Emptied(t)
    BY <1>4, <1>7, Zenon
  <2>1. Emptied(t)'
    <3>1. KeysIn(From, t)' = {}
      BY <1>e, <2>0, Zenon DEF Emptied, KeysIn
    <3>2. owner'[To][t] = To \/ importing'[To][t] = From
      BY <1>0, <1>e, <2>0, Zenon DEF Emptied, Prepared, Claims
    <3>3. owner'[From][t] = From => migrating'[From][t] = To
      BY <1>0, <1>e, <2>0, Zenon DEF Emptied, Prepared, Claims
    <3> QED BY <3>1, <3>2, <3>3, Zenon DEF Emptied, Prepared, Claims
  <2>2. owner'[To][t] = To => \A x \in Node \ {To} : epoch'[x] < epoch'[To]
    <3>1. CASE owner[To][t] = To
      <4>1. \A x \in Node \ {To} : epoch[x] < epoch[To]
        BY <2>0, <3>1, Zenon DEF Safe, Claims
      <4> QED BY <1>0, <1>2, <4>1
    <3>2. CASE owner[To][t] # To /\ n = To
      <4>1. importing[To][t] # None
        BY <1>0, <2>0, <3>2, Zenon DEF Emptied, Prepared, Claims
      <4>2. epoch'[To] = currentEpoch + 1 \/ (epoch[To] = currentEpoch /\ epoch' = epoch)
        BY <1>0, <1>e, <3>2, <4>1, Zenon
      <4>3. \A x \in Node \ {To} : epoch[x] <= currentEpoch /\ epoch[x] # epoch[To]
        BY <1>0, Zenon DEF Epochs
      <4> QED BY <1>0, <1>2, <4>2, <4>3
    <3>3. CASE owner[To][t] # To /\ n # To
      BY <1>0, <1>e, <3>3, Zenon
    <3> QED BY <3>1, <3>2, <3>3, Zenon
  <2>3. /\ \A k \in Key : SlotOf[k] = t /\ store'[From][k] # 0 => store'[From][k] = acked'[k]
        /\ \A k \in Key : SlotOf[k] = t /\ acked'[k] # 0 =>
               store'[From][k] = acked'[k] \/ store'[To][k] = acked'[k]
    BY <1>e, <2>0, Zenon DEF Safe
  <2> QED BY <2>1, <2>2, <2>3, Zenon DEF Safe, Claims
<1> QED BY <1>1, <1>3, <1>5, <1>6, <1>7, Zenon DEF Moving

-----------------------------------------------------------------------------
\* An empty answer of CLUSTER GETKEYSINSLOT counts no keys.
LEMMA EmptyCount == Cardinality({}) = 0
<1> DEFINE G(f) == [T \in SUBSET {} |->
                     IF T = {} THEN 0 ELSE 1 + f[T \ {CHOOSE x : x \in T}]]
           w == [T \in SUBSET {} |-> 0]
           CS == CHOOSE f : f = G(f)
<1>1. w = G(w)
  <2>1. \A T \in SUBSET {} : T = {}
    BY Zenon
  <2> QED BY <2>1, Zenon
<1>2. CS = G(CS)
  <2> HIDE DEF G
  <2>1. \E f : f = G(f)
    BY <1>1, Zenon
  <2> QED BY <2>1, Zenon
<1>3. CS[{}] = 0
  <2>1. G(CS)[{}] = 0
    <3> HIDE DEF CS
    <3> QED BY Zenon
  <2> HIDE DEF G, CS
  <2> QED BY <2>1, <1>2, Zenon
<1>4. Cardinality({}) = CS[{}]
  BY Zenon DEF Cardinality
<1> QED BY <1>3, <1>4, Zenon

\* Every step of a drain keeps the variables in their types: in particular a slot
\* is never booked on anything but a node of the cluster or nobody.
LEMMA TypeStep == DrainTypeOK /\ AtHand /\ [DrainNext]_drainVars => DrainTypeOK'
<1> SUFFICES ASSUME DrainTypeOK, AtHand, [DrainNext]_drainVars
             PROVE  DrainTypeOK'
  BY Zenon
<1> USE ValkeyAssumption, MoverAssumption, DrainAssumption
<1>0. /\ TypeOK /\ From \in Node /\ To \in Node /\ From # To
      /\ None \in NodeOrNone /\ Node \subseteq NodeOrNone
      /\ gone \in BOOLEAN /\ bare \subseteq Slot
  BY Zenon DEF NodeOrNone, DrainTypeOK
<1>1. AtWork
  BY <1>0, Zenon DEF AtHand, MoverPCs, AtWork, InMove
<1>2. CASE DrainBatch
  BY <1>0, <1>1, <1>2, OtherTypes, Zenon DEF DrainBatch, DrainTypeOK
<1>3. CASE DrainStep
  <2>1. TypeOK'
    BY <1>0, <1>1, <1>3, MoveTypes, ZenonT(40) DEF DrainStep
  <2> QED BY <1>0, <1>3, <2>1, Zenon DEF DrainStep, DrainTypeOK, TypeOK
<1>4. CASE DeleteShard
  BY <1>0, <1>4 DEF DeleteShard, Forgotten, DrainTypeOK, TypeOK, ValkeyTypeOK, epochVars,
     clientVars, opVars
<1>5. CASE DrainBus
  BY <1>0, <1>1, <1>5, OtherTypes, Zenon DEF DrainBus, Hear, DrainTypeOK
<1>6. CASE (Fail \/ Client) /\ UNCHANGED <<gone, bare>>
  BY <1>0, <1>1, <1>6, OtherTypes, Zenon DEF Client, DrainTypeOK
<1>7. CASE UNCHANGED drainVars
  <2>1. UNCHANGED <<nodeVars, clientVars, opVars, fails, gone, bare>>
    BY <1>7, Zenon DEF drainVars, vars, valkeyVars
  <2> QED BY <1>0, <2>1, TypeFrames, Zenon DEF DrainTypeOK, TypeOK, ValkeyTypeOK, Tables,
    Clients, Locals
<1> QED BY <1>2, <1>3, <1>4, <1>5, <1>6, <1>7, Zenon DEF DrainNext

\* What MoveSlots knows of the slot at hand survives any step of the others.
LEMMA HandKept ==
    ASSUME DrainTypeOK, AtHand, \A s \in Slot : Keeps(s), UNCHANGED <<opVars, gone, bare>>
    PROVE  AtHand'
<1>1. /\ pc' = pc /\ rest' = rest /\ src' = src /\ dst' = dst /\ todo' = todo /\ slot' = slot
      /\ gone' = gone /\ bare' = bare /\ slot \in Slot /\ todo \subseteq Slot
  BY Zenon DEF opVars, DrainTypeOK, TypeOK
<1>2. pc # "idle" => \A s \in todo : Moving(s)'
  BY <1>1, Zenon DEF AtHand, Keeps
<1>3. pc # "idle" /\ pc # "probe" => Moving(slot)'
  BY <1>1, Zenon DEF AtHand, Keeps
<1>4. ASSUME slot \notin bare
      PROVE  /\ pc = "migrating" => Awaited(slot)'
             /\ pc \in {"getkeys", "migrate"} => Prepared(slot)'
             /\ pc = "assign" => Emptied(slot)'
  BY <1>1, <1>4, Zenon DEF AtHand, Keeps
<1> QED BY <1>1, <1>2, <1>3, <1>4 DEF AtHand

\* Nothing is left at hand when a call returns.
LEMMA HandReturned == ASSUME Return PROVE AtHand'
  BY Zenon DEF Return, AtHand, MoverPCs

\* A step that changes no node keeps what is known of every slot.
LEMMA NodesIdle ==
    ASSUME DrainTypeOK, UNCHANGED <<valkeyVars, gone>>, bare \subseteq bare'
    PROVE  \A s \in Slot : Keeps(s)
<1> SUFFICES ASSUME NEW s \in Slot PROVE Keeps(s)
  BY Zenon
<1>1. /\ owner' = owner /\ importing' = importing /\ migrating' = migrating
      /\ epoch' = epoch /\ store' = store /\ acked' = acked
  BY Zenon DEF valkeyVars, nodeVars, markVars, epochVars, clientVars
<1>2. epoch \in [Node -> Nat] /\ To \in Node
  BY DrainAssumption, MoverAssumption, Zenon DEF DrainTypeOK, TypeOK, ValkeyTypeOK
<1>3. epoch[To] <= epoch'[To]
  BY <1>1, <1>2
<1> QED BY <1>1, <1>2, <1>3, Frame, Zenon

\* Every slot is quiet or moving.
Sorted == \A s \in Slot : Quiet(s) \/ Moving(s)

\* The steps of MoveSlots keep the invariant.
LEMMA MoverStep ==
    ASSUME DrainTypeOK, DrainTypeOK', Epochs, AtHand, Sorted, DrainStep
    PROVE  Epochs' /\ AtHand' /\ Sorted'
<1> USE ValkeyAssumption, MoverAssumption, DrainAssumption
<1>0. From \in Node /\ To \in Node /\ From # To /\ Master \subseteq Node
      /\ slot \in Slot /\ todo \subseteq Slot
  BY Zenon DEF DrainTypeOK, TypeOK
<1>b. gone' = gone /\ bare \subseteq bare' /\ (pc # "probe" => bare' = bare)
  BY Zenon DEF DrainStep
<1>q. \A s \in Slot : Keeps(s) /\ (Quiet(s) \/ Moving(s)) => Quiet(s)' \/ Moving(s)'
  BY Zenon DEF Keeps
<1>r. ASSUME Refused, pc # "probe"
      PROVE  Epochs' /\ AtHand' /\ Sorted'
  <2>1. UNCHANGED <<valkeyVars, gone>> /\ Return
    BY <1>r, <1>b, Zenon DEF Refused
  <2>2. Epochs'
    BY <2>1, Zenon DEF Epochs, valkeyVars, nodeVars, epochVars
  <2>3. \A s \in Slot : Keeps(s)
    BY <2>1, <1>b, NodesIdle, Zenon
  <2> QED BY <2>1, <2>2, <2>3, <1>q, HandReturned, Zenon DEF Sorted
<1>1. CASE Probe
  <2>1. PICK s \in todo : /\ slot' = s /\ todo' = todo \ {s}
                          /\ pc' = IF KeysIn(src, s) = {} THEN "assign" ELSE "importing"
    BY <1>1, Zenon DEF Probe
  <2>2. /\ pc = "probe" /\ UNCHANGED valkeyVars /\ rest' = Master /\ src' = src /\ dst' = dst
        /\ s \in Slot
    BY <1>0, <1>1, <2>1, Zenon DEF Probe
  <2>3. \A x \in Slot : Keeps(x)
    BY <2>2, <1>b, NodesIdle, Zenon
  <2>4. Epochs'
    BY <2>2, Zenon DEF Epochs, valkeyVars, nodeVars, epochVars
  <2>5. /\ src = From /\ dst = To /\ ~gone /\ \A x \in todo : Moving(x)
    BY <2>2, Zenon DEF AtHand
  <2>6. \A x \in todo : Moving(x)'
    BY <1>0, <2>3, <2>5, Zenon DEF Keeps
  <2>7. pc' = "assign" /\ s \notin bare' => Emptied(s)
    BY <2>1, <2>2, <2>5, Zenon DEF DrainStep, Emptied
  <2>8. pc' = "assign" /\ s \notin bare' => Emptied(s)'
    BY <2>2, <2>7, Zenon DEF Emptied, Prepared, KeysIn, Claims, valkeyVars, nodeVars, markVars
  <2>9. AtHand'
    BY <1>b, <2>1, <2>2, <2>5, <2>6, <2>8, Zenon DEF AtHand, MoverPCs
  <2> QED BY <2>3, <2>4, <2>9, <1>q, Zenon DEF Sorted
<1>h. ASSUME pc \in MoverPCs \ {"probe"}
      PROVE  /\ src = From /\ dst = To /\ ~gone /\ Moving(slot) /\ bare' = bare
             /\ \A s \in todo : Moving(s)
  BY <1>h, <1>b, Zenon DEF AtHand, MoverPCs
<1>2. CASE SetImporting
  <2>1. CASE SetSlotImporting(dst, slot, src) /\ Goto("migrating")
    <3>1. /\ src = From /\ dst = To /\ ~gone /\ Moving(slot) /\ bare' = bare
          /\ \A s \in todo : Moving(s)
      BY <1>2, <1>h, Zenon DEF SetImporting, MoverPCs
    <3>2. /\ pc' = "migrating" /\ slot' = slot /\ src' = src /\ dst' = dst /\ todo' = todo
          /\ rest' = rest /\ acked' = acked
      BY <2>1, Zenon DEF Goto, clientVars
    <3>3. SetSlotImporting(To, slot, From)
      BY <2>1, <3>1, Zenon
    <3>4. PICK t \in Slot : t = slot
      BY <1>0, Zenon
    <3>5. Moving(t)' /\ Awaited(t)' /\ \A s \in Slot \ {t} : Keeps(s)
      BY <1>b, <3>1, <3>2, <3>3, <3>4, ImportingKeeps, Zenon
    <3>6. Sorted' /\ \A s \in Slot : Moving(s) => Moving(s)'
      BY <3>4, <3>5, <1>q, Zenon DEF Sorted, Keeps
    <3>7. Moving(slot)' /\ Awaited(slot)'
      BY <3>2, <3>4, <3>5, Zenon
    <3>8. AtHand'
      BY <1>0, <1>b, <3>1, <3>2, <3>6, <3>7, Zenon DEF AtHand, MoverPCs
    <3>9. Epochs'
      BY <2>1, Zenon DEF SetSlotImporting, Epochs, epochVars
    <3> QED BY <3>6, <3>8, <3>9, Zenon
  <2> QED BY <1>2, <1>r, <2>1, Zenon DEF SetImporting
<1>3. CASE SetMigrating
  <2>1. CASE SetSlotMigrating(src, slot, dst) /\ Goto("getkeys")
    <3>1. /\ src = From /\ dst = To /\ ~gone /\ Moving(slot) /\ bare' = bare
          /\ \A s \in todo : Moving(s)
      BY <1>3, <1>h, Zenon DEF SetMigrating, MoverPCs
    <3>2. /\ pc' = "getkeys" /\ slot' = slot /\ src' = src /\ dst' = dst /\ todo' = todo
          /\ rest' = rest /\ acked' = acked
      BY <2>1, Zenon DEF Goto, clientVars
    <3>3. SetSlotMigrating(From, slot, To)
      BY <2>1, <3>1, Zenon
    <3>4. PICK t \in Slot : t = slot
      BY <1>0, Zenon
    <3>5. Moving(t)' /\ (Awaited(t) => Prepared(t)') /\ \A s \in Slot \ {t} : Keeps(s)
      BY <1>b, <3>1, <3>2, <3>3, <3>4, MigratingKeeps, Zenon
    <3>6. Sorted' /\ \A s \in Slot : Moving(s) => Moving(s)'
      BY <3>4, <3>5, <1>q, Zenon DEF Sorted, Keeps
    <3>7. Moving(slot)' /\ (slot \notin bare => Prepared(slot)')
      BY <1>3, <3>2, <3>4, <3>5, Zenon DEF SetMigrating, AtHand
    <3>8. AtHand'
      BY <1>0, <1>b, <3>1, <3>2, <3>6, <3>7, Zenon DEF AtHand, MoverPCs
    <3>9. Epochs'
      BY <2>1, Zenon DEF SetSlotMigrating, Epochs, epochVars
    <3> QED BY <3>6, <3>8, <3>9, Zenon
  <2> QED BY <1>3, <1>r, <2>1, Zenon DEF SetMigrating
<1>4. CASE GetKeys
  <2>1. /\ src = From /\ dst = To /\ ~gone /\ Moving(slot) /\ bare' = bare
        /\ \A s \in todo : Moving(s)
    BY <1>4, <1>h, Zenon DEF GetKeys, MoverPCs
  <2>2. /\ UNCHANGED valkeyVars /\ src' = src /\ dst' = dst /\ todo' = todo /\ slot' = slot
        /\ rest' = rest /\ pc' = IF batch' = {} THEN "assign" ELSE "migrate"
        /\ batch' \in GetKeysInSlot(From, slot, BatchSize) /\ pc = "getkeys"
    BY <1>4, <2>1, Zenon DEF GetKeys
  <2>3. \A s \in Slot : Keeps(s)
    BY <1>b, <2>2, NodesIdle, Zenon
  <2>4. batch' = {} => KeysIn(From, slot) = {}
    BY <2>2, EmptyCount, Zenon DEF GetKeysInSlot
  <2>5. slot \notin bare => Prepared(slot) /\ (batch' = {} => Emptied(slot))
    BY <2>2, <2>4, Zenon DEF AtHand, Emptied
  <2>6. PICK t \in Slot : t = slot
    BY <1>0, Zenon
  <2>7. Moving(t)' /\ (t \notin bare => Prepared(t)' /\ (batch' = {} => Emptied(t)'))
    BY <2>1, <2>3, <2>5, <2>6, Zenon DEF Keeps
  <2>8. \A s \in todo : Moving(s)'
    BY <1>0, <2>1, <2>3, Zenon DEF Keeps
  <2>9. AtHand'
    BY <1>b, <2>1, <2>2, <2>6, <2>7, <2>8, Zenon DEF AtHand, MoverPCs
  <2>10. Epochs'
    BY <2>2, Zenon DEF Epochs, valkeyVars, nodeVars, epochVars
  <2> QED BY <2>3, <2>9, <2>10, <1>q, Zenon DEF Sorted
<1>5. CASE Migrate
  <2>1. /\ src = From /\ dst = To /\ ~gone /\ Moving(slot) /\ bare' = bare
        /\ \A s \in todo : Moving(s)
    BY <1>5, <1>h, Zenon DEF Migrate, MoverPCs
  <2>2. PICK keys : keys = batch \cap KeysIn(src, slot)
    BY Zenon
  <2>3. PICK t \in Slot : t = slot
    BY <1>0, Zenon
  <2>4. ASSUME NEW c \in SUBSET keys, NEW d \in SUBSET c, Transfer(src, dst, c, d),
               acked' = acked
        PROVE  /\ Moving(t)' /\ (Prepared(t) => Prepared(t)') /\ Sorted' /\ Epochs'
               /\ \A s \in Slot : Moving(s) => Moving(s)'
    <3>1. c \in SUBSET KeysIn(From, t) /\ Transfer(From, To, c, d)
      BY <2>1, <2>2, <2>3, <2>4, Zenon
    <3>2. Moving(t)' /\ (Prepared(t) => Prepared(t)') /\ \A s \in Slot \ {t} : Keeps(s)
      BY <1>b, <2>1, <2>3, <2>4, <3>1, TransferKeeps, Zenon
    <3>3. Sorted' /\ \A s \in Slot : Moving(s) => Moving(s)'
      BY <3>2, <1>q, Zenon DEF Sorted, Keeps
    <3>4. Epochs'
      BY <2>4, Zenon DEF Transfer, Epochs, epochVars
    <3> QED BY <3>2, <3>3, <3>4, Zenon
  <2>5. CASE /\ Transfer(src, dst, keys, keys) /\ pc' = "getkeys"
             /\ UNCHANGED <<src, dst, todo, slot, rest, clientVars>>
    <3>1. acked' = acked
      BY <2>5, Zenon DEF clientVars
    <3>2. /\ Moving(t)' /\ (Prepared(t) => Prepared(t)') /\ Sorted' /\ Epochs'
          /\ \A s \in Slot : Moving(s) => Moving(s)'
      BY <2>4, <2>5, <3>1, Zenon
    <3>3. slot \notin bare => Prepared(slot)
      BY <1>5, Zenon DEF Migrate, AtHand
    <3>4. AtHand'
      BY <1>0, <1>b, <2>1, <2>3, <2>5, <3>2, <3>3, Zenon DEF AtHand, MoverPCs
    <3> QED BY <3>2, <3>4, Zenon
  <2>6. CASE /\ \E copied \in SUBSET keys : \E deleted \in SUBSET copied :
                   Transfer(src, dst, copied, deleted)
             /\ Return /\ UNCHANGED clientVars
    <3>1. acked' = acked
      BY <2>6, Zenon DEF clientVars
    <3>2. Sorted' /\ Epochs'
      BY <2>4, <2>6, <3>1, Zenon
    <3> QED BY <2>6, <3>2, HandReturned, Zenon
  <2>7. CASE Refused
    BY <1>5, <1>r, <2>7, Zenon DEF Migrate
  <2> QED BY <1>5, <2>2, <2>5, <2>6, <2>7, Zenon DEF Migrate
<1>6. CASE AssignOwner
  <2>1. /\ src = From /\ dst = To /\ ~gone /\ Moving(slot) /\ bare' = bare
        /\ \A s \in todo : Moving(s)
    BY <1>6, <1>h, Zenon DEF AssignOwner, MoverPCs
  <2>2. PICK n \in rest :
           \/ Refused
           \/ /\ SetSlotNode(n, slot, dst) /\ UNCHANGED clientVars
              /\ \/ Return
                 \/ /\ rest' \subseteq rest /\ pc' \in {pc, "probe"}
                    /\ UNCHANGED <<src, dst, todo, slot>>
    BY <1>6, Zenon DEF AssignOwner
  <2>3. CASE Refused
    BY <1>6, <1>r, <2>3, Zenon DEF AssignOwner
  <2>4. CASE /\ SetSlotNode(n, slot, dst) /\ UNCHANGED clientVars
             /\ \/ Return
                \/ /\ rest' \subseteq rest /\ pc' \in {pc, "probe"}
                   /\ UNCHANGED <<src, dst, todo, slot>>
    <3>1. PICK t \in Slot : t = slot
      BY <1>0, Zenon
    <3>2. n \in Master /\ acked' = acked /\ SetSlotNode(n, t, To) /\ pc = "assign"
          /\ (t \notin bare => Emptied(t))
      BY <1>6, <2>1, <2>4, <3>1, Zenon DEF AtHand, clientVars, AssignOwner
    <3>3. /\ Epochs' /\ Moving(t)' /\ (t \notin bare => Emptied(t)')
          /\ \A s \in Slot \ {t} : Keeps(s)
      BY <1>b, <2>1, <3>1, <3>2, AssignKeeps, Zenon
    <3>4. Sorted' /\ \A s \in Slot : Moving(s) => Moving(s)'
      BY <3>3, <1>q, Zenon DEF Sorted, Keeps
    <3>5. CASE Return
      BY <3>3, <3>4, <3>5, HandReturned, Zenon
    <3>6. CASE /\ rest' \subseteq rest /\ pc' \in {pc, "probe"}
               /\ UNCHANGED <<src, dst, todo, slot>>
      <4>1. \A s \in todo : Moving(s)'
        BY <1>0, <2>1, <3>4, Zenon
      <4>2. rest' \subseteq Master
        BY <3>6, Zenon DEF AtHand
      <4>3. AtHand'
        BY <1>b, <2>1, <3>1, <3>2, <3>3, <3>6, <4>1, <4>2, Zenon DEF AtHand, MoverPCs
      <4> QED BY <3>3, <3>4, <4>3, Zenon
    <3> QED BY <2>4, <3>5, <3>6, Zenon
  <2> QED BY <2>2, <2>3, <2>4, Zenon
<1> QED BY <1>1, <1>2, <1>3, <1>4, <1>5, <1>6, Zenon DEF DrainStep, MoveStep

\* The initial states: a formed cluster in which all nodes agree.
LEMMA InitOK == DrainInit => DrainInv
<1> SUFFICES ASSUME DrainInit PROVE DrainInv
  BY Zenon
<1> USE ValkeyAssumption, MoverAssumption, DrainAssumption
<1>0. From \in Node /\ To \in Node /\ From # To /\ Master \subseteq Node /\ None \notin Node
      /\ None \in NodeOrNone /\ Node \subseteq NodeOrNone
  BY Zenon DEF NodeOrNone
<1>1. PICK o \in [Slot -> Master], present \in SUBSET Key :
        /\ owner = [n \in Node |-> o]
        /\ store = [n \in Node |-> [k \in Key |->
               IF k \in present /\ o[SlotOf[k]] = n THEN 1 ELSE 0]]
        /\ acked = [k \in Key |-> IF k \in present THEN 1 ELSE 0]
        /\ writes = [k \in Key |-> IF k \in present THEN 1 ELSE 0]
  BY Zenon DEF DrainInit, Init
<1>2. /\ importing = [n \in Node |-> [s \in Slot |-> None]]
      /\ migrating = [n \in Node |-> [s \in Slot |-> None]]
      /\ currentEpoch = StartEpoch /\ epoch \in [Node -> 1..StartEpoch]
      /\ \A m, n \in Node : m # n => epoch[m] # epoch[n]
      /\ pc = "idle" /\ rest = {} /\ gone = FALSE /\ bare = {}
  BY Zenon DEF DrainInit, Init
<1>3. DrainTypeOK
  <2>1. owner \in [Node -> [Slot -> NodeOrNone]]
    BY <1>0, <1>1, Zenon
  <2>2. /\ importing \in [Node -> [Slot -> NodeOrNone]]
        /\ migrating \in [Node -> [Slot -> NodeOrNone]]
    BY <1>0, <1>2, Zenon
  <2>3. epoch \in [Node -> Nat] /\ currentEpoch \in Nat
    BY <1>0, <1>2
  <2>4. store \in [Node -> [Key -> Nat]] /\ acked \in [Key -> Nat] /\ writes \in [Key -> Nat]
    BY <1>1, Zenon
  <2>5. ValkeyTypeOK
    BY <2>1, <2>2, <2>3, <2>4, Zenon DEF ValkeyTypeOK
  <2> QED BY <1>0, <1>2, <2>5, Zenon DEF DrainInit, Init, DrainTypeOK, TypeOK, PCs
<1>4. Epochs
  BY <1>0, <1>2 DEF Epochs
<1>5. AtHand
  BY <1>2, Zenon DEF AtHand
<1>6. ASSUME NEW s \in Slot
      PROVE  Quiet(s) \/ Moving(s)
  <2>0. /\ \A n \in Node : /\ owner[n][s] = o[s] /\ importing[n][s] = None
                           /\ migrating[n][s] = None
        /\ o[s] \in Master
        /\ \A n \in Node, k \in Key :
             store[n][k] = IF k \in present /\ o[SlotOf[k]] = n THEN 1 ELSE 0
        /\ \A k \in Key : acked[k] = IF k \in present THEN 1 ELSE 0
    BY <1>1, <1>2, Zenon
  <2>1. CASE o[s] # From
    <3>1. \A k \in Key : SlotOf[k] = s /\ acked[k] # 0 => store[o[s]][k] = acked[k]
      BY <1>0, <2>0, Zenon
    <3>2. PICK p \in Master \ {From} : p = o[s]
      BY <2>0, <2>1, Zenon
    <3>3. \A n \in Node : owner[n][s] = p /\ importing[n][s] = None /\ migrating[n][s] = None
      BY <2>0, <3>2, Zenon
    <3>4. \A k \in Key : SlotOf[k] = s /\ acked[k] # 0 => store[p][k] = acked[k]
      BY <3>1, <3>2, Zenon
    <3> QED BY <1>0, <3>2, <3>3, <3>4, ZenonT(40) DEF Quiet
  <2>2. CASE o[s] = From
    <3>1. Shape(s) /\ Heard(s)
      BY <1>0, <1>2, <2>0, <2>2, ZenonT(40) DEF Shape, Heard, Claims
    <3>2. \A n \in Node : owner[n][s] # To
      BY <1>0, <2>0, <2>2, Zenon
    <3>3. \A k \in Key : SlotOf[k] = s => store[From][k] = acked[k]
      BY <1>0, <2>0, <2>2
    <3> QED BY <1>0, <3>1, <3>2, <3>3, Zenon DEF Moving, Safe, Claims
  <2> QED BY <2>1, <2>2, Zenon
<1> QED BY <1>3, <1>4, <1>5, <1>6, Zenon DEF DrainInv

\* Every step keeps the invariant.
LEMMA StepOK == DrainInv /\ [DrainNext]_drainVars => DrainInv'
<1> SUFFICES ASSUME DrainInv, [DrainNext]_drainVars PROVE DrainInv'
  BY Zenon
<1> USE ValkeyAssumption, MoverAssumption, DrainAssumption
<1>0. DrainTypeOK /\ Epochs /\ AtHand /\ Sorted
  BY Zenon DEF DrainInv, Sorted
<1>t. DrainTypeOK'
  BY <1>0, TypeStep, Zenon
<1>q. (\A s \in Slot : Keeps(s)) => Sorted'
  BY <1>0, Zenon DEF Sorted, Keeps
<1>s. Epochs' /\ AtHand' /\ Sorted' => DrainInv'
  BY <1>t, Zenon DEF DrainInv, Sorted
<1>1. CASE DrainBatch
  <2>0. PICK n : MoveSlots(From, To, n) /\ UNCHANGED <<gone, bare>>
    BY <1>1, Zenon DEF DrainBatch
  <2>1. /\ pc' = "probe" /\ src' = From /\ dst' = To /\ rest' = rest /\ UNCHANGED valkeyVars
        /\ Booked(From) # {} /\ todo' \subseteq Booked(From)
    BY <2>0, Zenon DEF MoveSlots
  <2>2. \A s \in Slot : Keeps(s)
    BY <1>0, <2>0, <2>1, NodesIdle, Zenon
  <2>3. \A s \in Booked(From) : Moving(s) /\ s \in Slot /\ owner[Seed][s] = From
    BY <1>0, Zenon DEF Sorted, Quiet, Booked
  <2>4. \A s \in todo' : Moving(s)'
    BY <2>1, <2>2, <2>3, Zenon DEF Keeps
  <2>5. ~gone
    BY <2>1, <2>3, Zenon DEF Moving, Shape
  <2>6. AtHand'
    BY <1>0, <2>0, <2>1, <2>4, <2>5, Zenon DEF AtHand, MoverPCs
  <2>7. Epochs'
    BY <1>0, <2>1, Zenon DEF Epochs, valkeyVars, nodeVars, epochVars
  <2> QED BY <2>2, <2>6, <2>7, <1>q, <1>s, Zenon
<1>2. CASE DrainStep
  BY <1>0, <1>t, <1>2, <1>s, MoverStep, Zenon
<1>3. CASE DeleteShard
  <2>1. Sorted'
    BY <1>0, <1>3, DeleteKeeps, Zenon DEF Sorted
  <2>2. Epochs'
    BY <1>0, <1>3, Zenon DEF DeleteShard, Epochs, epochVars
  <2>3. AtHand'
    BY <1>0, <1>3, Zenon DEF DeleteShard, AtHand, opVars
  <2> QED BY <2>1, <2>2, <2>3, <1>s, Zenon
<1>4. CASE DrainBus
  <2>1. PICK m \in Node, n \in Node, t \in Slot : (gone => n # From) /\ Gossip(m, n, t)
    BY <1>4, Zenon DEF DrainBus, Hear
  <2>2. UNCHANGED <<opVars, gone, bare>>
    BY <1>4, Zenon DEF DrainBus, Hear
  <2>3. \A s \in Slot : Keeps(s)
    BY <1>0, <2>1, <2>2, BusKeeps, Zenon
  <2>4. Epochs'
    BY <1>0, <2>1, Zenon DEF Gossip, Epochs, epochVars
  <2> QED BY <1>0, <2>2, <2>3, <2>4, <1>q, <1>s, HandKept, Zenon
<1>5. CASE Fail /\ UNCHANGED <<gone, bare>>
  <2>1. Return /\ UNCHANGED valkeyVars
    BY <1>5, Zenon DEF Fail
  <2>2. \A s \in Slot : Keeps(s)
    BY <1>0, <1>5, <2>1, NodesIdle, Zenon
  <2>3. Epochs'
    BY <1>0, <2>1, Zenon DEF Epochs, valkeyVars, nodeVars, epochVars
  <2> QED BY <2>1, <2>2, <2>3, <1>q, <1>s, HandReturned, Zenon
<1>6. CASE Client /\ UNCHANGED <<gone, bare>>
  <2>1. PICK n \in Node, k \in Key : ClientWrite(n, k) \/ ClientDelete(n, k)
    BY <1>6, Zenon DEF Client
  <2>2. UNCHANGED <<opVars, gone, bare>>
    BY <1>6, Zenon DEF Client
  <2>3. \A s \in Slot : Keeps(s)
    BY <1>0, <2>1, <2>2, ClientKeeps, Zenon
  <2>4. Epochs'
    BY <1>0, <2>1, Zenon DEF ClientWrite, ClientDelete, Epochs, epochVars
  <2> QED BY <1>0, <2>2, <2>3, <2>4, <1>q, <1>s, HandKept, Zenon
<1>7. CASE UNCHANGED drainVars
  <2>1. UNCHANGED <<valkeyVars, opVars, gone, bare>>
    BY <1>7, Zenon DEF drainVars, vars
  <2>2. \A s \in Slot : Keeps(s)
    BY <1>0, <2>1, NodesIdle, Zenon
  <2>3. Epochs'
    BY <1>0, <2>1, Zenon DEF Epochs, valkeyVars, nodeVars, epochVars
  <2> QED BY <1>0, <2>1, <2>2, <2>3, <1>q, <1>s, HandKept, Zenon
<1> QED BY <1>1, <1>2, <1>3, <1>4, <1>5, <1>6, <1>7, Zenon DEF DrainNext

-----------------------------------------------------------------------------
\* The drain never leaves its types.
THEOREM DrainTypeCorrect == DrainSpec => []DrainTypeOK
<1>1. DrainInv => DrainTypeOK
  BY Zenon DEF DrainInv
<1> QED BY <1>1, InitOK, StepOK, PTL DEF DrainSpec

\* For every cluster, a slot that MoveSlots moves with the handshake loses no
\* acknowledged write, however often the move is interrupted and retried and
\* whatever clients and the bus do meanwhile, up to and after the deletion of the
\* departing shard.
THEOREM HandshakeKeepsWritesThm == DrainSpec => []HandshakeKeepsWrites
<1>1. DrainInv => HandshakeKeepsWrites
  <2> SUFFICES ASSUME DrainInv, NEW k \in Key, SlotOf[k] \notin bare, acked[k] # 0
               PROVE  \E n \in Node : store[n][k] = acked[k]
    BY Zenon DEF HandshakeKeepsWrites, Held
  <2>1. SlotOf[k] \in Slot /\ From \in Node /\ To \in Node /\ Master \subseteq Node
    BY ValkeyAssumption, MoverAssumption, DrainAssumption, Zenon
  <2>2. CASE Quiet(SlotOf[k])
    BY <2>1, <2>2, Zenon DEF Quiet
  <2>3. CASE Moving(SlotOf[k])
    BY <2>1, <2>3, Zenon DEF Moving, Safe
  <2> QED BY <2>1, <2>2, <2>3, Zenon DEF DrainInv
<1> QED BY <1>1, InitOK, StepOK, PTL DEF DrainSpec

\* For every cluster, once scaleIn has deleted the departing shard every slot is
\* owned by a surviving node, whichever path the slot took.
THEOREM SlotsOutliveShardThm == DrainSpec => []SlotsOutliveShard
<1>1. DrainInv => SlotsOutliveShard
  <2> SUFFICES ASSUME DrainInv, gone, NEW s \in Slot
               PROVE  \E n \in Node \ {From} : owner[n][s] = n
    BY Zenon DEF SlotsOutliveShard, Claims
  <2>1. From \in Node /\ To \in Node /\ From # To /\ Master \subseteq Node
    BY MoverAssumption, DrainAssumption, Zenon
  <2>2. CASE Quiet(s)
    BY <2>1, <2>2, Zenon DEF Quiet
  <2>3. CASE Moving(s)
    BY <2>1, <2>3, Zenon DEF Moving, Shape, Claims
  <2> QED BY <2>2, <2>3, Zenon DEF DrainInv
<1> QED BY <1>1, InitOK, StepOK, PTL DEF DrainSpec

-----------------------------------------------------------------------------
(***************************************************************************)
(* Drain implements Handover: every step of a drain changes the claims to  *)
(* one slot in a way Handover allows, or deletes the shard when a survivor *)
(* claims every slot, or leaves the claims alone. The invariant of         *)
(* DrainSlots says in which states the steps happen.                       *)
(***************************************************************************)

\* One changed booking changes the claims to one slot, by one node at most.
LEMMA OneBooking ==
    ASSUME NEW n \in Node, NEW t \in Slot, NEW v,
           \A x \in Node, y \in Slot : owner'[x][y] = IF x = n /\ y = t THEN v ELSE owner[x][y]
    PROVE  Claimants' = [Claimants EXCEPT ![t] = IF v = n THEN @ \cup {n} ELSE @ \ {n}]
<1> DEFINE C == [Claimants EXCEPT ![t] = IF v = n THEN @ \cup {n} ELSE @ \ {n}]
<1>1. ASSUME NEW s \in Slot
      PROVE  {x \in Node : owner'[x][s] = x} = C[s]
  <2>1. CASE s = t
    <3>1. C[s] = IF v = n THEN {x \in Node : owner[x][t] = x} \cup {n}
                 ELSE {x \in Node : owner[x][t] = x} \ {n}
      BY <2>1, Zenon DEF Claimants, Claims
    <3>2. \A x \in Node : owner'[x][s] = IF x = n THEN v ELSE owner[x][t]
      BY <2>1, Zenon
    <3> HIDE DEF C
    <3> QED BY <3>1, <3>2
  <2>2. CASE s # t
    <3>1. C[s] = {x \in Node : owner[x][s] = x}
      BY <2>2, Zenon DEF Claimants, Claims
    <3>2. \A x \in Node : owner'[x][s] = owner[x][s]
      BY <2>2, Zenon
    <3> HIDE DEF C
    <3> QED BY <3>1, <3>2, Zenon
  <2> QED BY <2>1, <2>2, Zenon
<1>2. Claimants' = [s \in Slot |-> {x \in Node : owner'[x][s] = x}]
  BY Zenon DEF Claimants, Claims
<1>3. C = [s \in Slot |-> C[s]]
  BY Zenon DEF Claimants
<1> HIDE DEF C
<1>4. Claimants' = C
  BY <1>1, <1>2, <1>3, Zenon
<1> QED BY <1>4, Zenon DEF C

\* The claims do not change when no booking does.
LEMMA NoBooking == owner' = owner => Claimants' = Claimants
  BY Zenon DEF Claimants, Claims

\* Only the departing primary and the survivor claim a slot that is being moved.
LEMMA TwoClaims ==
    ASSUME NEW s \in Slot, Moving(s)
    PROVE  Claimants[s] \subseteq {From, To}
  BY ValkeyAssumption DEF Moving, Shape, Claimants, Claims

\* A booking on the survivor is the survivor taking the slot, the departing primary
\* releasing it, or no change of the claims.
LEMMA AssignHands ==
    ASSUME ~gone, NEW t \in Slot, Moving(t), NEW n \in Node, UNCHANGED <<gone, bare>>,
           \A x \in Node, y \in Slot : owner'[x][y] = IF x = n /\ y = t THEN To ELSE owner[x][y]
    PROVE  [HO!Next]_(HO!handoverVars)
<1>0. Claimants[t] \subseteq {From, To} /\ From # To /\ Claimants = [s \in Slot |-> Claimants[s]]
  BY TwoClaims, Names, Zenon DEF Claimants
<1>1. Claimants' = [Claimants EXCEPT ![t] = IF To = n THEN @ \cup {n} ELSE @ \ {n}]
  BY OneBooking, Zenon
<1>2. CASE n = To /\ To \notin Claimants[t]
  <2>1. HO!Take(t)
    BY <1>0, <1>1, <1>2, Zenon DEF HO!Take
  <2> QED BY <2>1, Zenon DEF HO!Next
<1>3. CASE n = From /\ From \in Claimants[t]
  <2>1. HO!Release(t)
    BY <1>0, <1>1, <1>3, Zenon DEF HO!Release
  <2> QED BY <2>1, Zenon DEF HO!Next
<1>4. CASE (n = To /\ To \in Claimants[t]) \/ (n # To /\ n \notin Claimants[t])
  <2>1. Claimants' = Claimants
    BY <1>0, <1>1, <1>4
  <2> QED BY <2>1, Zenon DEF HO!handoverVars
<1> QED BY <1>0, <1>2, <1>3, <1>4, Zenon

\* Hearing a claim on the bus takes a claim away from the node that hears it, if it had
\* one: the departing primary releases the slot, or the survivor withdraws from a slot
\* that was moved bare.
LEMMA BusHands ==
    ASSUME DrainInv, NEW m \in Node, NEW n \in Node, NEW t \in Slot,
           gone => n # From, Gossip(m, n, t), UNCHANGED <<gone, bare>>
    PROVE  [HO!Next]_(HO!handoverVars)
<1>0. /\ From \in Node /\ To \in Node /\ From # To /\ Tables
      /\ Claimants = [s \in Slot |-> Claimants[s]] /\ (Quiet(t) \/ Moving(t))
      /\ \A x \in Node : x \in Claimants[t] <=> owner[x][t] = x
  BY Names, Zenon DEF DrainInv, DrainTypeOK, TypeOK, ValkeyTypeOK, Tables, Claimants, Claims
<1>1. /\ m # n /\ owner[m][t] = m /\ Yields(n, t, m)
      /\ \A x \in Node, y \in Slot : owner'[x][y] = IF x = n /\ y = t THEN m ELSE owner[x][y]
  <2>1. m # n /\ owner[m][t] = m /\ Yields(n, t, m)
    BY Zenon DEF Gossip, Claims
  <2>2. \A x \in Node, y \in Slot : owner'[x][y] = IF x = n /\ y = t THEN m ELSE owner[x][y]
    BY <1>0, GossipEffect
  <2> QED BY <2>1, <2>2, Zenon
<1>2. Claimants' = [Claimants EXCEPT ![t] = @ \ {n}]
  BY <1>1, OneBooking, Zenon
<1>3. CASE n \notin Claimants[t]
  <2>1. Claimants' = Claimants
    BY <1>0, <1>2, <1>3, Zenon
  <2> QED BY <2>1, Zenon DEF HO!handoverVars
<1>4. CASE n \in Claimants[t]
  <2>1. Moving(t)
    BY <1>0, <1>1, <1>4, ZenonT(40) DEF Quiet
  <2>2. Claimants[t] \subseteq {From, To} /\ Shape(t)
    BY <2>1, TwoClaims, Zenon DEF Moving
  <2>3. {m, n} = {From, To} /\ Claimants[t] = {From, To}
    BY <1>0, <1>1, <1>4, <2>2
  <2>4. ~gone
    BY <1>0, <2>2, <2>3, Zenon DEF Shape
  <2>5. CASE n = From
    <3>1. HO!Release(t)
      BY <1>2, <1>4, <2>5, Zenon DEF HO!Release
    <3> QED BY <2>4, <3>1, Zenon DEF HO!Next
  <2>6. CASE n = To /\ m = From
    <3>1. epoch[To] < epoch[From]
      BY <1>0, <1>1, <1>4, <2>6, Zenon DEF Yields, Claims
    <3>2. t \in bare
      <4>1. epoch[To] \in Nat /\ epoch[From] \in Nat
        BY <1>0, Zenon DEF Tables
      <4>2. Claims(To, t)
        BY <1>0, <1>4, <2>6, Zenon DEF Claims
      <4> QED BY <1>0, <2>1, <3>1, <4>1, <4>2 DEF Moving, Safe
    <3>3. {From, To} \ {To} = {From}
      BY <1>0, Zenon
    <3>4. HO!Withdraw(t)
      BY <1>2, <2>3, <2>6, <3>2, <3>3, Zenon DEF HO!Withdraw
    <3> QED BY <2>4, <3>4, Zenon DEF HO!Next
  <2> QED BY <1>1, <2>3, <2>5, <2>6, Zenon
<1> QED BY <1>3, <1>4, Zenon

\* When the seed books no slot on the departing primary, a survivor claims every slot.
LEMMA DeleteHands ==
    ASSUME DrainInv, DeleteShard
    PROVE  [HO!Next]_(HO!handoverVars)
<1>0. /\ From \in Node /\ To \in Node /\ Seed \in Node /\ From # To /\ Master \subseteq Node
      /\ From # None /\ None \notin Node
  BY Names, MoverAssumption, Zenon
<1>1. ASSUME NEW s \in Slot
      PROVE  \E n \in Node \ {From} : n \in Claimants[s]
  <2>1. owner[Seed][s] # From /\ ~gone /\ (Quiet(s) \/ Moving(s))
    BY Zenon DEF DeleteShard, Drained, Booked, DrainInv
  <2>2. CASE Quiet(s)
    BY <1>0, <2>2, Zenon DEF Quiet, Claimants, Claims
  <2>3. CASE Moving(s)
    <3>1. owner[Seed][s] = To
      BY <1>0, <2>1, <2>3, Zenon DEF Moving, Shape
    <3>2. Claims(To, s)
      BY <1>0, <2>3, <3>1, DrainAssumption, Zenon DEF Moving, Heard, Claims
    <3> QED BY <1>0, <3>2, Zenon DEF Claimants
  <2> QED BY <2>1, <2>2, <2>3, Zenon
<1>2. Claimants' = [s \in Slot |-> Claimants[s] \ {From}]
  <2>1. ASSUME NEW s \in Slot
        PROVE  {n \in Node : owner'[n][s] = n} = Claimants[s] \ {From}
    <3>1. \A n \in Node : owner'[n][s] = n <=> n # From /\ owner[n][s] = n
      BY <1>0, Zenon DEF DeleteShard, Forgotten
    <3> QED BY <3>1, Zenon DEF Claimants, Claims
  <2> QED BY <2>1, Zenon DEF Claimants, Claims
<1>3. HO!Delete /\ ~gone
  BY <1>1, <1>2, Zenon DEF DeleteShard, HO!Delete
<1> QED BY <1>3, Zenon DEF HO!Next

\* The steps of MoveSlots: the probe may loosen a slot, SETSLOT NODE changes claims, the
\* other commands do not.
LEMMA MoveHands ==
    ASSUME DrainInv, DrainStep
    PROVE  [HO!Next]_(HO!handoverVars)
<1>0. /\ From \in Node /\ To \in Node /\ From # To /\ Master \subseteq Node /\ Tables
      /\ slot \in Slot /\ todo \subseteq Slot
  BY Names, Zenon DEF DrainInv, DrainTypeOK, TypeOK, ValkeyTypeOK, Tables
<1>1. ASSUME owner' = owner, pc # "probe"
      PROVE  [HO!Next]_(HO!handoverVars)
  <2>1. UNCHANGED <<Claimants, gone, bare>>
    BY <1>1, NoBooking, Zenon DEF DrainStep
  <2> QED BY <2>1, Zenon DEF HO!handoverVars
<1>2. CASE Probe
  <2>1. PICK s \in todo : slot' = s
    BY <1>2, Zenon DEF Probe
  <2>2. s \in Slot /\ ~gone /\ Moving(s) /\ UNCHANGED <<owner, gone>>
    BY <1>0, <1>2, <2>1, Zenon DEF Probe, DrainStep, DrainInv, AtHand, valkeyVars, nodeVars
  <2>3. Claimants' = Claimants
    BY <2>2, NoBooking, Zenon
  <2>4. CASE bare' = bare
    BY <2>2, <2>3, <2>4, Zenon DEF HO!handoverVars
  <2>5. CASE bare' = bare \cup {s} /\ ~Prepared(s)
    <3>1. Claimants[s] # {To}
      BY <1>0, <2>2, <2>5, Zenon DEF Prepared, Claimants, Claims
    <3>2. HO!Loosen(s)
      BY <2>2, <2>3, <2>5, <3>1, TwoClaims, Zenon DEF HO!Loosen
    <3> QED BY <2>2, <3>2, Zenon DEF HO!Next
  <2> QED BY <2>1, <2>4, <2>5, Zenon DEF DrainStep
<1>3. CASE SetImporting \/ SetMigrating \/ GetKeys \/ Migrate
  BY <1>1, <1>3, Zenon DEF SetImporting, SetMigrating, GetKeys, Migrate, Refused,
    SetSlotImporting,
     SetSlotMigrating, Transfer, valkeyVars, nodeVars
<1>4. CASE AssignOwner
  <2>1. /\ dst = To /\ ~gone /\ Moving(slot) /\ rest \subseteq Node /\ UNCHANGED <<gone, bare>>
        /\ pc = "assign"
    BY <1>0, <1>4, Zenon DEF AssignOwner, DrainStep, DrainInv, AtHand
  <2>2. PICK n \in rest : Refused \/ SetSlotNode(n, slot, dst)
    BY <1>4, Zenon DEF AssignOwner
  <2>3. CASE Refused
    BY <1>1, <2>1, <2>3, Zenon DEF Refused, valkeyVars, nodeVars
  <2>4. CASE SetSlotNode(n, slot, dst)
    <3>1. PICK t \in Slot : t = slot
      BY <1>0, Zenon
    <3>2. \A x \in Node, y \in Slot :
             owner'[x][y] = IF x = n /\ y = t THEN To ELSE owner[x][y]
      <4>1. n \in Node /\ To \in Node /\ Tables
        BY <1>0, <2>1, Zenon DEF TypeOK, ValkeyTypeOK, Tables
      <4>2. Assigned(n, t, To)
        BY <2>1, <2>4, <3>1, <4>1, NodeEffect, Zenon
      <4> QED BY <4>2, Zenon DEF Assigned
    <3> QED BY <2>1, <3>1, <3>2, AssignHands, Zenon
  <2> QED BY <2>2, <2>3, <2>4, Zenon
<1> QED BY <1>2, <1>3, <1>4, Zenon DEF DrainStep, MoveStep

\* Every step of a drain is a step of a handover.
LEMMA StepHands == DrainInv /\ [DrainNext]_drainVars => [HO!Next]_(HO!handoverVars)
<1> SUFFICES ASSUME DrainInv, [DrainNext]_drainVars PROVE [HO!Next]_(HO!handoverVars)
  BY Zenon
<1>1. ASSUME UNCHANGED <<owner, gone, bare>>
      PROVE  [HO!Next]_(HO!handoverVars)
  BY <1>1, NoBooking, Zenon DEF HO!handoverVars
<1>2. CASE DrainBatch
  BY <1>1, <1>2, Zenon DEF DrainBatch, MoveSlots, valkeyVars, nodeVars
<1>3. CASE DrainStep
  BY <1>3, MoveHands, Zenon
<1>4. CASE DeleteShard
  BY <1>4, DeleteHands, Zenon
<1>5. CASE DrainBus
  <2>1. PICK m \in Node, n \in Node, t \in Slot : Hear(m, n, t)
    BY <1>5, Zenon DEF DrainBus
  <2> QED BY <2>1, BusHands, Zenon DEF Hear
<1>6. CASE (Fail \/ Client) /\ UNCHANGED <<gone, bare>>
  BY <1>1, <1>6, Zenon DEF Fail, Client, ClientWrite, ClientDelete, valkeyVars, nodeVars
<1>7. CASE UNCHANGED drainVars
  BY <1>1, <1>7, Zenon DEF drainVars, vars, valkeyVars, nodeVars
<1> QED BY <1>2, <1>3, <1>4, <1>5, <1>6, <1>7, Zenon DEF DrainNext

\* A drain starts as a handover: one node claims each slot.
LEMMA InitHands == DrainInit => HO!Init
<1> SUFFICES ASSUME DrainInit PROVE HO!Init
  BY Zenon
<1>1. PICK o \in [Slot -> Master] : owner = [n \in Node |-> o]
  BY Zenon DEF DrainInit, Init
<1>2. \A s \in Slot : o[s] \in Node /\ {n \in Node : owner[n][s] = n} = {o[s]}
  BY <1>1, MoverAssumption, Zenon
<1>3. \A s \in Slot : {n \in Node : owner[n][s] = n} \in {{n} : n \in Node}
  BY <1>2, Zenon
<1> QED BY <1>3, Zenon DEF HO!Init, Claimants, Claims, DrainInit

-----------------------------------------------------------------------------
\* For every cluster, draining a shard is a handover of its slots, whatever clients, the
\* bus and failures do: scaleIn never gives the departing primary a slot back, takes
\* none from the survivor once the handshake has given it, and deletes the shard only
\* when a survivor claims every slot.
THEOREM DrainIsHandover == DrainSpec => ImplementsHandover
  BY InitOK, StepOK, InitHands, StepHands, PTL DEF DrainSpec, ImplementsHandover, HO!Spec
=============================================================================
