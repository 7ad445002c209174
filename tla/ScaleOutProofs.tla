--------------------------- MODULE ScaleOutProofs ---------------------------
(***************************************************************************)
(* The fill loop of scaleOut counts right, for any number of shards and    *)
(* slots.                                                                  *)
(***************************************************************************)
EXTENDS ScaleOut, MoverProofs, FiniteSetTheorems

\* The first n of a finite set of numbers are n at most: what MoveSlots takes of the
\* slots that the seed shows for a primary.
LEMMA FirstFew ==
    ASSUME NEW B, B \subseteq Nat, IsFiniteSet(B), NEW n \in Nat
    PROVE  LET S == {s \in B : Cardinality({r \in B : r < s}) < n}
           IN  Cardinality(S) \in Nat /\ Cardinality(S) <= n
<1> DEFINE S == {s \in B : Cardinality({r \in B : r < s}) < n}
           below(s) == {r \in B : r < s}
           rank == [s \in S |-> Cardinality(below(s))]
<1>1. \A s \in B : IsFiniteSet(below(s)) /\ Cardinality(below(s)) \in Nat
  BY FS_Subset, FS_CardinalityType, Zenon
<1>2. ASSUME NEW s \in B, NEW t \in B, s < t
      PROVE  Cardinality(below(s)) < Cardinality(below(t))
  <2>1. below(s) \cup {s} \subseteq below(t)
    <3>1. s \in Nat /\ t \in Nat /\ \A r \in B : r \in Nat
      BY Zenon
    <3>2. ASSUME NEW r \in below(s) \cup {s} PROVE r \in B /\ r < t
      <4>1. CASE r = s
        BY <1>2, <4>1, Zenon
      <4>2. CASE r \in B /\ r < s
        BY <1>2, <3>1, <4>2
      <4> QED BY <4>1, <4>2, Zenon
    <3> QED BY <3>2, Zenon
  <2>2. Cardinality(below(s) \cup {s}) = Cardinality(below(s)) + 1
    <3>1. s \notin below(s)
      OBVIOUS
    <3> HIDE DEF below
    <3> QED BY <1>1, <3>1, FS_AddElement, Zenon
  <2>3. Cardinality(below(s) \cup {s}) <= Cardinality(below(t))
    <3> HIDE DEF below
    <3> QED BY <1>1, <2>1, FS_Subset, Zenon
  <2> HIDE DEF below
  <2> QED BY <1>1, <2>2, <2>3
<1>3. rank \in [S -> 0..n - 1]
  <2>1. \A s \in S : Cardinality(below(s)) \in 0..n - 1
    <3>1. \A s \in S : s \in B /\ Cardinality(below(s)) < n
      BY Zenon
    <3> HIDE DEF below, S
    <3>2. ASSUME NEW s \in S PROVE Cardinality(below(s)) \in 0..n - 1
      <4>1. Cardinality(below(s)) \in Nat /\ Cardinality(below(s)) < n
        BY <1>1, <3>1, Zenon
      <4> QED BY <4>1
    <3> QED BY <3>2, Zenon
  <2> HIDE DEF below, S
  <2> QED BY <2>1, Zenon
<1>4. \A s, t \in S : rank[s] = rank[t] => s = t
  <2> SUFFICES ASSUME NEW s \in S, NEW t \in S, s # t PROVE rank[s] # rank[t]
    BY Zenon
  <2>1. s \in B /\ t \in B /\ s \in Nat /\ t \in Nat
    BY Zenon
  <2>2. rank[s] = Cardinality(below(s)) /\ rank[t] = Cardinality(below(t))
    BY Zenon
  <2>3. s < t \/ t < s
    BY <2>1
  <2> HIDE DEF below, S, rank
  <2> QED BY <1>1, <1>2, <2>1, <2>2, <2>3, SMTT(30)
<1>5. rank \in Injection(S, 0..n - 1)
  BY <1>3, <1>4, Zenon DEF Injection, IsInjective
<1>6. IsFiniteSet(0..n - 1) /\ Cardinality(0..n - 1) = n
  <2>1. IsFiniteSet(0..n - 1) /\ Cardinality(0..n - 1) = IF 0 > n - 1 THEN 0 ELSE n - 1 - 0 + 1
    BY FS_Interval
  <2> QED BY <2>1
<1>7. IsFiniteSet(S) /\ Cardinality(S) <= n
  <2> HIDE DEF S, rank
  <2> QED BY <1>5, <1>6, FS_Injection, SMTT(30)
<1>8. Cardinality(S) \in Nat
  BY <1>7, FS_CardinalityType, Zenon
<1> QED BY <1>7, <1>8, Zenon

\* What is taken off the need is added to the slots: a shard with a slots that takes b of
\* the n it still needs has u of them, and needs m.
LEMMA TakenIsBooked ==
    ASSUME NEW a \in Nat, NEW b \in Nat, NEW u \in Nat, NEW n \in Nat, NEW p \in Nat, NEW m,
           a + n <= p, u <= a + b, m = n - b
    PROVE  u + m <= p
OBVIOUS

\* The numbers scaleOut works with.
LEMMA ScaleNumbers ==
    /\ Desired \in Nat \ {0} /\ PerShard \in Nat
    /\ \A n : SlotCount(n) \in Nat
    /\ PrimaryCount \in Nat
<1> USE ValkeyAssumption, MoverAssumption, ScaleOutAssumption
<1>1. IsFiniteSet(Master)
  BY FS_Subset, Zenon
<1>2. Desired \in Nat \ {0}
  BY <1>1, FS_CardinalityType, FS_EmptySet, Zenon DEF Desired
<1>3. PerShard \in Nat
  <2>1. Cardinality(Slot) \in Nat
    BY FS_CardinalityType, Zenon
  <2> QED BY <1>2, <2>1, SMTT(30) DEF PerShard
<1>4. ASSUME NEW n PROVE SlotCount(n) \in Nat
  <2>1. IsFiniteSet(Booked(n))
    BY FS_Subset, Zenon DEF Booked
  <2> QED BY <2>1, FS_CardinalityType, Zenon DEF SlotCount
<1>5. PrimaryCount \in Nat
  <2>1. IsFiniteSet({n \in Master : SlotCount(n) > 0})
    BY <1>1, FS_Subset, Zenon
  <2> QED BY <2>1, FS_CardinalityType, Zenon DEF PrimaryCount
<1> QED BY <1>2, <1>3, <1>4, <1>5, Zenon

\* MoveSlots takes no more slots than it is asked for.
LEMMA TakesWhatIsNeeded ==
    ASSUME NEW f, NEW t, NEW n \in Nat, MoveSlots(f, t, n)
    PROVE  IsFiniteSet(todo') /\ Cardinality(todo') \in Nat /\ Cardinality(todo') <= n
<1>1. IsFiniteSet(Booked(f)) /\ Booked(f) \subseteq Nat
  BY ValkeyAssumption, FS_Subset, Zenon DEF Booked
<1>2. todo' = {s \in Booked(f) : Cardinality({r \in Booked(f) : r < s}) < n}
  BY Zenon DEF MoveSlots
<1>3. LET S == {s \in Booked(f) : Cardinality({r \in Booked(f) : r < s}) < n}
      IN  Cardinality(S) \in Nat /\ Cardinality(S) <= n
  BY <1>1, FirstFew, Zenon
<1>4. IsFiniteSet(todo')
  <2>1. todo' \subseteq Booked(f)
    BY <1>2, Zenon
  <2> QED BY <1>1, <2>1, FS_Subset, Zenon
<1> QED BY <1>2, <1>3, <1>4, Zenon

PassOK ==
    /\ stage \in {"decide", "measure", "fill"}
    /\ filling \in 0..Desired - 1 /\ need \in Nat
    /\ old \in 1..Desired - 1

ScaleInv == TypeOK /\ AtWork /\ PassOK /\ current \in BOOLEAN

\* A formed cluster is a start.
LEMMA ScaleStarts == ScaleInit => ScaleInv
<1>1. ScaleInit => PassOK
  BY ScaleNumbers DEF ScaleInit, PassOK
<1> QED BY <1>1, InitialTypes, Zenon DEF ScaleInit, ScaleInv

\* Every step of a scale-out keeps the types.
LEMMA ScaleTypes == ScaleInv /\ [ScaleNext]_scaleVars => ScaleInv'
<1> USE ValkeyAssumption, MoverAssumption, ScaleOutAssumption DEF ScaleInv
<1>z. ScaleInv /\ [ScaleNext]_scaleVars => current' \in BOOLEAN
  BY Zenon DEF ScaleNext, ScaleOperator, BeginScaleOut, Measure, Fill, FillStep, NextShard,
    RepairPass, Abandon, scaleVars, passVars
<1> SUFFICES ASSUME ScaleInv, [ScaleNext]_scaleVars PROVE TypeOK' /\ AtWork' /\ PassOK'
  BY <1>z, Zenon
<1>0. /\ TypeOK /\ AtWork /\ filling \in 0..Desired - 1 /\ need \in Nat
      /\ ShardPrimary[filling] \in Node
  BY Zenon DEF PassOK
<1>a. ASSUME UNCHANGED vars PROVE TypeOK' /\ AtWork'
  <2>1. UNCHANGED <<nodeVars, clientVars, opVars, fails>>
    BY <1>a, Zenon DEF vars, valkeyVars
  <2> QED BY <1>0, <2>1, TypeFrames, Zenon DEF TypeOK, ValkeyTypeOK, Tables, Clients, Locals
<1>b. Abandon /\ UNCHANGED old => PassOK'
  BY ScaleNumbers DEF Abandon, PassOK
<1>c. UNCHANGED <<passVars, old>> => PassOK'
  BY Zenon DEF passVars, PassOK
<1>1. CASE ScaleOperator
  <2>1. CASE BeginScaleOut
    <3>1. UNCHANGED <<nodeVars, clientVars, opVars>>
      BY <2>1, Zenon DEF BeginScaleOut, valkeyVars
    <3>2. fails' \in Nat
      BY <1>0, <2>1, TypeFrames, Zenon DEF BeginScaleOut, TypeOK
    <3>3. TypeOK' /\ AtWork'
      <4>1. Tables' /\ Clients'
        BY <1>0, <3>1, TypeFrames, Zenon
      <4>2. Locals' /\ AtWork'
        BY <1>0, <3>1, <3>2, Zenon DEF TypeOK, Locals, AtWork, InMove, opVars
      <4> QED BY <4>1, <4>2, Zenon DEF TypeOK, ValkeyTypeOK, Tables, Clients, Locals
    <3>4. PassOK'
      BY <1>1, <2>1, ScaleNumbers, SMTT(30) DEF BeginScaleOut, ScaleOperator, PassOK
    <3> QED BY <3>3, <3>4, Zenon
  <2>2. CASE Measure
    <3>1. need' \in Nat
      BY <2>2, ScaleNumbers DEF Measure
    <3>2. PassOK'
      BY <1>1, <2>2, <3>1, Zenon DEF Measure, ScaleOperator, PassOK
    <3> QED BY <1>a, <2>2, <3>2, Zenon DEF Measure
  <2>3. CASE Fill
    <3>1. PICK f \in FattestPrimaries(ShardPrimary[filling]) :
            MoveSlots(f, ShardPrimary[filling], need)
      BY <2>3, Zenon DEF Fill
    <3>2. f \in Node
      BY Zenon DEF FattestPrimaries
    <3>3. TypeOK' /\ AtWork'
      BY <1>0, <3>1, <3>2, OtherTypes, Zenon
    <3>4. Cardinality(todo') \in Nat /\ Cardinality(todo') <= need
      BY <1>0, <3>1, TakesWhatIsNeeded, Zenon
    <3>5. need' \in Nat
      BY <1>0, <2>3, <3>4, SMTT(30) DEF Fill
    <3>6. PassOK'
      BY <1>1, <2>3, <3>5, Zenon DEF Fill, ScaleOperator, PassOK
    <3> QED BY <3>3, <3>6, Zenon
  <2>4. CASE FillStep
    <3>1. TypeOK' /\ AtWork'
      BY <1>0, <2>4, MoveTypes, Zenon DEF FillStep
    <3> QED BY <1>1, <1>b, <1>c, <2>4, <3>1, Zenon DEF FillStep, ScaleOperator
  <2>5. CASE NextShard
    <3>1. PassOK'
      BY <1>1, <2>5, ScaleNumbers, SMTT(30) DEF NextShard, ScaleOperator, PassOK
    <3> QED BY <1>a, <2>5, <3>1, Zenon DEF NextShard
  <2>6. CASE RepairPass
    <3>1. TypeOK' /\ AtWork'
      BY <1>0, <2>6, OtherTypes, RepairTypes, Zenon DEF RepairPass
    <3> QED BY <1>1, <1>c, <2>6, <3>1, Zenon DEF RepairPass, ScaleOperator
  <2> QED BY <1>1, <2>1, <2>2, <2>3, <2>4, <2>5, <2>6, Zenon DEF ScaleOperator
<1>2. CASE Fail /\ Abandon /\ UNCHANGED old
  BY <1>0, <1>2, <1>b, OtherTypes, Zenon
<1>3. CASE (Client \/ Bus) /\ UNCHANGED <<passVars, old>>
  <2>1. TypeOK' /\ AtWork'
    BY <1>0, <1>3, OtherTypes, Zenon DEF Client, Bus
  <2> QED BY <1>3, <1>c, <2>1, Zenon
<1>4. CASE UNCHANGED scaleVars
  BY <1>4, <1>a, <1>c, Zenon DEF scaleVars
<1> QED BY <1>1, <1>2, <1>3, <1>4, Zenon DEF ScaleNext

\* scaleOut: its variables keep their types, for any number of shards and slots. The
\* shard being filled is one of the declared ones, and the count of slots it still
\* needs never falls below zero: MoveSlots takes no more than it is asked for.
THEOREM ScaleTypeCorrect == ScaleSpec => []ScaleTypeOK
<1>1. ScaleInit => ScaleInv
  BY ScaleStarts, Zenon
<1>2. ScaleInv /\ [ScaleNext]_scaleVars => ScaleInv'
  BY ScaleTypes, Zenon
<1>3. ScaleInv => ScaleTypeOK
  BY Zenon DEF ScaleInv, PassOK, ScaleTypeOK
<1> QED BY <1>1, <1>2, <1>3, PTL DEF ScaleSpec

-----------------------------------------------------------------------------
\* The slots that the call of MoveSlots under way may still give to its target.
Pending == CASE pc = "idle" -> {} [] pc = "probe" -> todo [] OTHER -> todo \cup {slot}

\* What the shard being filled has and is about to get, and what it will ask for after
\* that, are its share at most.
Share ==
    /\ stage = "measure" => pc = "idle"
    /\ stage = "fill" => pc = "idle" \/ (InMove /\ dst = ShardPrimary[filling])
    /\ stage = "fill" /\ current
        => \/ pc = "idle" /\ need = 0
           \/ Cardinality(Own(ShardPrimary[filling]) \cup Pending) + need <= PerShard

\* A command of MoveSlots gives nothing to anybody but the target, and to that only the
\* slot at hand.
LEMMA MoveClaims ==
    ASSUME TypeOK, AtWork, MoveStep
    PROVE  /\ InMove
           /\ pc' = "idle" \/ (InMove' /\ dst' = dst)
           /\ Pending' \subseteq Pending
           /\ \A n \in Node : Own(n)' \subseteq Own(n) \cup (IF n = dst THEN Pending ELSE {})
<1> USE ValkeyAssumption, MoverAssumption
<1>0. Tables /\ slot \in Slot /\ todo \subseteq Slot /\ rest \subseteq Node
  BY Zenon DEF TypeOK, ValkeyTypeOK, Tables
<1>a. ASSUME owner' = owner PROVE \A n : Own(n)' = Own(n)
  BY <1>a, Zenon DEF Own, Claims
<1>b. Return => pc' = "idle" /\ Pending' = {}
  BY Zenon DEF Return, Pending
<1>c. Refused => owner' = owner /\ Return
  BY Zenon DEF Refused, valkeyVars, nodeVars
<1>1. CASE Probe
  <2>1. PICK s \in todo : slot' = s /\ todo' = todo \ {s} /\ pc' \in {"assign", "importing"}
    BY <1>1, Zenon DEF Probe
  <2>2. pc = "probe" /\ dst' = dst /\ owner' = owner
    BY <1>1, Zenon DEF Probe, valkeyVars, nodeVars
  <2>3. Pending = todo /\ Pending' = todo' \cup {slot'}
    BY <2>1, <2>2, Zenon DEF Pending
  <2> QED BY <1>a, <2>1, <2>2, <2>3, Zenon DEF InMove
<1>2. CASE SetImporting
  <2>1. pc = "importing" /\ owner' = owner
    BY <1>2, <1>c, Zenon DEF SetImporting, SetSlotImporting
  <2>2. Return \/ (pc' = "migrating" /\ UNCHANGED <<dst, todo, slot>>)
    BY <1>2, <1>c, Zenon DEF SetImporting, Goto
  <2>3. Pending' \subseteq Pending
    BY <1>b, <2>1, <2>2, Zenon DEF Pending
  <2> QED BY <1>a, <1>b, <2>1, <2>2, <2>3, Zenon DEF InMove
<1>3. CASE SetMigrating
  <2>1. pc = "migrating" /\ owner' = owner
    BY <1>3, <1>c, Zenon DEF SetMigrating, SetSlotMigrating
  <2>2. Return \/ (pc' = "getkeys" /\ UNCHANGED <<dst, todo, slot>>)
    BY <1>3, <1>c, Zenon DEF SetMigrating, Goto
  <2>3. Pending' \subseteq Pending
    BY <1>b, <2>1, <2>2, Zenon DEF Pending
  <2> QED BY <1>a, <1>b, <2>1, <2>2, <2>3, Zenon DEF InMove
<1>4. CASE GetKeys
  <2>1. /\ pc = "getkeys" /\ owner' = owner /\ pc' \in {"assign", "migrate"}
        /\ UNCHANGED <<dst, todo, slot>>
    BY <1>4, Zenon DEF GetKeys, valkeyVars, nodeVars
  <2>2. Pending' \subseteq Pending
    BY <2>1, Zenon DEF Pending
  <2> QED BY <1>a, <2>1, <2>2, Zenon DEF InMove
<1>5. CASE Migrate
  <2>1. pc = "migrate" /\ owner' = owner
    BY <1>5, <1>c, Zenon DEF Migrate, Transfer
  <2>2. Return \/ (pc' = "getkeys" /\ UNCHANGED <<dst, todo, slot>>)
    BY <1>5, <1>c, Zenon DEF Migrate
  <2>3. Pending' \subseteq Pending
    BY <1>b, <2>1, <2>2, Zenon DEF Pending
  <2> QED BY <1>a, <1>b, <2>1, <2>2, <2>3, Zenon DEF InMove
<1>6. CASE AssignOwner
  <2>1. pc = "assign" /\ InMove /\ dst \in Node
    BY <1>6, Zenon DEF AssignOwner, InMove, AtWork
  <2>2. CASE Refused
    BY <1>a, <1>b, <1>c, <2>1, <2>2, Zenon
  <2>3. CASE ~Refused
    <3>1. PICK n \in rest :
            /\ SetSlotNode(n, slot, dst)
            /\ \/ Return
               \/ pc' \in {"assign", "probe"} /\ UNCHANGED <<dst, todo, slot>>
      BY <1>6, <2>1, <2>3, Zenon DEF AssignOwner
    <3>2. \A x \in Node, y \in Slot :
            owner'[x][y] = IF x = n /\ y = slot THEN dst ELSE owner[x][y]
      <4>1. n \in Node
        BY <1>0, Zenon
      <4>2. Assigned(n, slot, dst)
        BY <1>0, <2>1, <3>1, <4>1, NodeEffect, Zenon
      <4> QED BY <4>2, Zenon DEF Assigned
    <3>3. slot \in Pending /\ Pending' \subseteq Pending
      BY <1>b, <2>1, <3>1, Zenon DEF Pending
    <3>4. ASSUME NEW x \in Node, NEW y \in Slot, owner'[x][y] = x
          PROVE  owner[x][y] = x \/ (x = dst /\ y = slot)
      BY <3>2, <3>4, Zenon
    <3>5. \A x \in Node : Own(x)' \subseteq Own(x) \cup (IF x = dst THEN Pending ELSE {})
      BY <3>3, <3>4, ZenonT(40) DEF Own, Claims
    <3> QED BY <1>b, <2>1, <3>1, <3>3, <3>5, Zenon DEF InMove
  <2> QED BY <2>2, <2>3, Zenon
<1> QED BY <1>1, <1>2, <1>3, <1>4, <1>5, <1>6, Zenon DEF MoveStep

\* The bus takes slots away and gives none; clients change no owner.
LEMMA OthersClaims ==
    ASSUME TypeOK, Client \/ Bus
    PROVE  UNCHANGED opVars /\ \A n \in Node : Own(n)' \subseteq Own(n)
<1>1. CASE Client
  BY <1>1, Zenon DEF Client, ClientWrite, ClientDelete, Own, Claims
<1>2. CASE Bus
  <2>1. UNCHANGED opVars /\ \E m, n \in Node, s \in Slot : Gossip(m, n, s)
    BY <1>2, Zenon DEF Bus
  <2>2. PICK m \in Node, n \in Node, s \in Slot : Gossip(m, n, s)
    BY <2>1, Zenon
  <2>3. /\ m # n
        /\ \A x \in Node, y \in Slot :
             owner'[x][y] = IF x = n /\ y = s THEN m ELSE owner[x][y]
    <3>1. Tables
      BY Zenon DEF TypeOK, ValkeyTypeOK, Tables
    <3>2. m # n
      BY <2>2, Zenon DEF Gossip
    <3>3. \A x \in Node, y \in Slot :
            owner'[x][y] = IF x = n /\ y = s THEN m ELSE owner[x][y]
      BY <2>2, <3>1, GossipEffect, SMTT(30)
    <3> QED BY <3>2, <3>3, Zenon
  <2>4. ASSUME NEW x \in Node, NEW y \in Slot, owner'[x][y] = x PROVE owner[x][y] = x
    <3>1. CASE x = n /\ y = s
      BY <2>3, <2>4, <3>1, Zenon
    <3>2. CASE ~(x = n /\ y = s)
      <4>1. owner'[x][y] = owner[x][y]
        BY <2>3, <3>2, Zenon
      <4> QED BY <2>4, <4>1, Zenon
    <3> QED BY <3>1, <3>2, Zenon
  <2> QED BY <2>1, <2>4, Zenon DEF Own, Claims
<1> QED BY <1>1, <1>2, Zenon

\* A shard being filled: what it has and is about to get does not grow by a step that gives
\* it no new slot to ask for.
LEMMA ShareShrinks ==
    ASSUME ScaleInv, Share, UNCHANGED passVars, stage = "fill",
           pc' = "idle" \/ (InMove' /\ dst' = ShardPrimary[filling]),
           pc = "idle" => pc' = "idle",
           Own(ShardPrimary[filling])' \cup Pending' \subseteq Own(ShardPrimary[filling]) \cup Pending
    PROVE  Share'
<1> DEFINE T == ShardPrimary[filling]
           A == Own(T) \cup Pending
<1> USE ValkeyAssumption, MoverAssumption
<1>0. stage' = "fill" /\ need' = need /\ current' = current /\ ShardPrimary[filling'] = T
  BY Zenon DEF passVars
<1>1. IsFiniteSet(A) /\ Cardinality(A) \in Nat
  <2>1. A \subseteq Slot
    BY Zenon DEF ScaleInv, TypeOK, Own, Pending
  <2> HIDE DEF A
  <2> QED BY <2>1, FS_Subset, FS_CardinalityType, Zenon
<1>3. /\ IsFiniteSet((Own(T) \cup Pending)') /\ Cardinality((Own(T) \cup Pending)') \in Nat
      /\ Cardinality((Own(T) \cup Pending)') <= Cardinality(A)
  <2>1. (Own(T) \cup Pending)' \subseteq A
    BY <1>0, Zenon
  <2> HIDE DEF A, T
  <2> QED BY <1>1, <2>1, FS_Subset, FS_CardinalityType, Zenon
<1>4. ASSUME current PROVE (pc' = "idle" /\ need' = 0)
                           \/ Cardinality((Own(T) \cup Pending)') + need' <= PerShard
  <2>1. (pc = "idle" /\ need = 0) \/ Cardinality(A) + need <= PerShard
    BY <1>4, Zenon DEF Share
  <2>2. need \in Nat /\ PerShard \in Nat
    BY ScaleNumbers, Zenon DEF ScaleInv, PassOK
  <2> HIDE DEF A, T
  <2> QED BY <1>0, <1>1, <1>3, <2>1, <2>2, SMTT(30)
<1>5. PerShard' = PerShard
  BY Zenon DEF PerShard, Desired
<1> QED BY <1>0, <1>4, <1>5, Zenon DEF Share

\* Every step keeps the shares.
LEMMA SharesKept == ScaleInv /\ Share /\ [ScaleNext]_scaleVars => Share'
<1> USE ValkeyAssumption, MoverAssumption, ScaleOutAssumption
<1> SUFFICES ASSUME ScaleInv, Share, [ScaleNext]_scaleVars PROVE Share'
  BY Zenon
<1> DEFINE T == ShardPrimary[filling]
<1>0. /\ TypeOK /\ AtWork /\ need \in Nat /\ PerShard \in Nat /\ filling \in 0..Desired - 1
      /\ T \in Node /\ stage \in {"decide", "measure", "fill"}
  BY ScaleNumbers, Zenon DEF ScaleInv, PassOK
<1>a. stage' = "decide" => Share'
  BY Zenon DEF Share
<1>b. stage' = "measure" /\ pc' = "idle" => Share'
  BY Zenon DEF Share
<1>1. CASE BeginScaleOut
  BY <1>1, <1>b, Zenon DEF BeginScaleOut, opVars
<1>2. CASE Measure
  <2>1. /\ stage = "measure" /\ stage' = "fill" /\ filling' = filling
        /\ UNCHANGED vars
        /\ need' = IF PerShard > SlotCount(T) THEN PerShard - SlotCount(T) ELSE 0
        /\ current' = (Own(T) \subseteq Booked(T))
    BY <1>2, Zenon DEF Measure
  <2>2. pc = "idle" /\ pc' = "idle" /\ owner' = owner
    BY <2>1, Zenon DEF Share, vars, opVars, valkeyVars, nodeVars
  <2>3. Own(ShardPrimary[filling])' = Own(T) /\ Pending' = {}
    BY <2>1, <2>2, Zenon DEF Own, Claims, Pending
  <2>4. ASSUME current', need' # 0 PROVE Cardinality((Own(T) \cup Pending)') + need' <= PerShard
    <3>1. IsFiniteSet(Booked(T)) /\ Own(T) \subseteq Booked(T)
      BY <2>1, <2>4, FS_Subset, Zenon DEF Booked
    <3>2. Cardinality(Own(T)) \in Nat /\ Cardinality(Own(T)) <= SlotCount(T)
      BY <3>1, FS_Subset, FS_CardinalityType, Zenon DEF SlotCount
    <3>3. (Own(T) \cup Pending)' = Own(T)
      BY <2>1, <2>3, Zenon
    <3>4. SlotCount(T) \in Nat
      BY ScaleNumbers, Zenon
    <3>5. Cardinality(Own(T)) + need' <= PerShard
      <4> HIDE DEF T
      <4> QED BY <1>0, <2>1, <2>4, <3>2, <3>4, SMTT(30)
    <3> QED BY <3>3, <3>5, Zenon
  <2>5. PerShard' = PerShard
    BY Zenon DEF PerShard, Desired
  <2> QED BY <2>1, <2>2, <2>4, <2>5, Zenon DEF Share
<1>3. CASE Fill
  <2>1. PICK f \in FattestPrimaries(T) : MoveSlots(f, T, need)
    BY <1>3, Zenon DEF Fill
  <2>2. /\ stage = "fill" /\ stage' = "fill" /\ filling' = filling /\ current' = current
        /\ need > 0 /\ need' = need - Cardinality(todo')
    BY <1>3, Zenon DEF Fill
  <2>3. pc = "idle" /\ pc' = "probe" /\ dst' = T /\ owner' = owner
    BY <2>1, Zenon DEF MoveSlots, valkeyVars, nodeVars
  <2>4. IsFiniteSet(todo') /\ Cardinality(todo') \in Nat /\ Cardinality(todo') <= need
    BY <1>0, <2>1, TakesWhatIsNeeded, Zenon
  <2>5. /\ Own(T)' = Own(T) /\ Pending' = todo' /\ Own(T) \cup Pending = Own(T)
    BY <2>2, <2>3, Zenon DEF Own, Claims, Pending
  <2>6. ASSUME current PROVE Cardinality((Own(T) \cup Pending)') + need' <= PerShard
    <3>1. Cardinality(Own(T)) + need <= PerShard
      <4>1. need # 0
        BY <1>0, <2>2
      <4>2. Cardinality(Own(T) \cup Pending) + need <= PerShard
        BY <2>2, <2>6, <4>1, Zenon DEF Share
      <4> QED BY <2>5, <4>2, Zenon
    <3>2. IsFiniteSet(Own(T)) /\ Cardinality(Own(T)) \in Nat
      BY FS_Subset, FS_CardinalityType, Zenon DEF Own
    <3>3. /\ Cardinality(Own(T) \cup todo') \in Nat
          /\ Cardinality(Own(T) \cup todo') <= Cardinality(Own(T)) + Cardinality(todo')
      <4>1. IsFiniteSet(Own(T) \cap todo') /\ Cardinality(Own(T) \cap todo') \in Nat
        BY <3>2, FS_Intersection, FS_CardinalityType, Zenon
      <4>2. /\ IsFiniteSet(Own(T) \cup todo')
            /\ Cardinality(Own(T) \cup todo') =
                 Cardinality(Own(T)) + Cardinality(todo') - Cardinality(Own(T) \cap todo')
        BY <2>4, <3>2, FS_Union, Zenon
      <4>3. Cardinality(Own(T) \cup todo') \in Nat
        BY <4>2, FS_CardinalityType, Zenon
      <4> HIDE DEF T
      <4> QED BY <2>4, <3>2, <4>1, <4>2, <4>3, SMTT(30)
    <3>4. (Own(T) \cup Pending)' = Own(T) \cup todo'
      BY <2>2, <2>5, Zenon
    <3>5. Cardinality(Own(T) \cup todo') + need' <= PerShard
      <4> HIDE DEF T
      <4>1. need \in Nat /\ PerShard \in Nat
        BY <1>0, Zenon
      <4> QED BY <2>2, <2>4, <3>1, <3>2, <3>3, <4>1, TakenIsBooked, Zenon
    <3> QED BY <3>4, <3>5, Zenon
  <2>7. PerShard' = PerShard
    BY Zenon DEF PerShard, Desired
  <2>8. InMove'
    BY <2>3, Zenon DEF InMove
  <2> QED BY <2>2, <2>3, <2>6, <2>7, <2>8, Zenon DEF Share
<1>4. CASE FillStep
  <2>1. CASE Abandon
    BY <1>a, <2>1, Zenon DEF Abandon
  <2>2. CASE UNCHANGED passVars
    <3>1. /\ InMove /\ pc # "idle" /\ (pc' = "idle" \/ (InMove' /\ dst' = dst))
          /\ Pending' \subseteq Pending /\ Own(T)' \subseteq Own(T) \cup Pending
      <4>1. /\ InMove /\ (pc' = "idle" \/ (InMove' /\ dst' = dst))
            /\ Pending' \subseteq Pending
            /\ \A n \in Node : Own(n)' \subseteq Own(n) \cup (IF n = dst THEN Pending ELSE {})
        BY <1>0, <1>4, MoveClaims, Zenon DEF FillStep
      <4>2. Own(T)' \subseteq Own(T) \cup Pending
        <5>1. UNCHANGED filling
          BY <2>2, Zenon DEF passVars
        <5> QED BY <1>0, <4>1, <5>1, Zenon
      <4>3. pc # "idle"
        BY <4>1, Zenon DEF InMove
      <4> QED BY <4>1, <4>2, <4>3, Zenon
    <3>2. CASE stage = "fill"
      <4>1. dst = T
        BY <3>1, <3>2, Zenon DEF Share
      <4> QED BY <2>2, <3>1, <3>2, <4>1, ShareShrinks, Zenon
    <3>3. CASE stage = "decide"
      BY <1>a, <2>2, <3>3, Zenon DEF passVars
    <3>4. stage # "measure"
      BY <3>1, Zenon DEF Share
    <3> QED BY <1>0, <3>2, <3>3, <3>4, Zenon
  <2> QED BY <1>4, <2>1, <2>2, Zenon DEF FillStep
<1>5. CASE NextShard
  <2>1. pc' = "idle"
    BY <1>5, Zenon DEF NextShard, vars, opVars
  <2> QED BY <1>5, <1>a, <1>b, <2>1, Zenon DEF NextShard
<1>6. CASE RepairPass
  <2>1. stage = "decide"
    <3>1. CASE RepairStep
      <4>1. pc \in {"repair", "stray", "restore", "stable", "node"}
        BY <3>1, Zenon DEF RepairStep, RepairOne, Stray, Restore, Stable, AssertOwner
      <4>2. pc # "idle" /\ ~InMove
        BY <4>1, Zenon DEF InMove
      <4> QED BY <1>0, <4>2, Zenon DEF Share
    <3> QED BY <1>6, <3>1, Zenon DEF RepairPass
  <2> QED BY <1>6, <1>a, <2>1, Zenon DEF RepairPass, passVars
<1>7. CASE Abandon
  BY <1>7, <1>a, Zenon DEF Abandon
<1>8. ASSUME UNCHANGED <<passVars, opVars>>, \A n \in Node : Own(n)' \subseteq Own(n)
      PROVE  Share'
  <2>1. /\ UNCHANGED <<stage, filling, pc, dst>> /\ Pending' = Pending /\ (InMove' <=> InMove)
    BY <1>8, Zenon DEF passVars, opVars, Pending, InMove
  <2>2. CASE stage = "fill"
    <3>1. pc' = "idle" \/ (InMove' /\ dst' = T)
      BY <2>1, <2>2, Zenon DEF Share
    <3>2. (Own(T) \cup Pending)' \subseteq Own(T) \cup Pending
      BY <1>0, <1>8, <2>1, Zenon
    <3> QED BY <1>8, <2>1, <2>2, <3>1, <3>2, ShareShrinks, Zenon
  <2>3. CASE stage = "measure"
    BY <1>b, <2>1, <2>3, Zenon DEF Share
  <2>4. CASE stage = "decide"
    BY <1>a, <2>1, <2>4, Zenon
  <2> QED BY <1>0, <2>2, <2>3, <2>4, Zenon
<1>9. CASE (Client \/ Bus) /\ UNCHANGED <<passVars, old>>
  BY <1>0, <1>8, <1>9, OthersClaims, Zenon
<1>10. CASE UNCHANGED scaleVars
  <2>1. UNCHANGED <<passVars, opVars>> /\ owner' = owner
    BY <1>10, Zenon DEF scaleVars, vars, valkeyVars, nodeVars
  <2>2. \A n \in Node : Own(n)' \subseteq Own(n)
    BY <2>1, Zenon DEF Own, Claims
  <2> QED BY <1>8, <2>1, <2>2, Zenon
<1> QED BY <1>1, <1>2, <1>3, <1>4, <1>5, <1>6, <1>7, <1>9, <1>10, Zenon DEF ScaleNext, ScaleOperator

\* scaleOut never gives a shard more than its share: for any cluster, any slots, any history
\* of failed passes, repairs and moves, and any lag of the bus, as long as the seed knew of the
\* shard's slots when they were counted.
THEOREM NeverOverAssignsThm == ScaleSpec => NeverOverAssigns
<1> USE ValkeyAssumption, MoverAssumption, ScaleOutAssumption
<1> DEFINE Ok == stage = "fill" /\ current
               => \A n \in Master : Own(n)' \subseteq Own(n) \/ Cardinality(Own(n)') <= PerShard
<1>1. ScaleInit => ScaleInv /\ Share
  BY ScaleStarts, Zenon DEF ScaleInit, Share
<1>2. ScaleInv /\ Share /\ [ScaleNext]_scaleVars => (ScaleInv /\ Share)'
  BY ScaleTypes, SharesKept, Zenon
<1>3. ScaleInv /\ Share /\ [ScaleNext]_scaleVars => [Ok]_scaleVars
  <2> SUFFICES ASSUME ScaleInv, Share, ScaleNext, stage = "fill", current, NEW n \in Master,
                      ~(Own(n)' \subseteq Own(n))
               PROVE  Cardinality(Own(n)') <= PerShard
    BY Zenon
  <2> DEFINE T == ShardPrimary[filling]
  <2>0. TypeOK /\ AtWork /\ n \in Node /\ need \in Nat /\ PerShard \in Nat
    BY ScaleNumbers, Zenon DEF ScaleInv, PassOK
  <2>1. owner' # owner
    BY Zenon DEF Own, Claims
  <2>2. MoveStep
    <3>1. ~(Client \/ Bus)
      BY <2>0, OthersClaims, Zenon
    <3>2. ~RepairPass
      <4>1. pc \in {"repair", "stray", "restore", "stable", "node"} \/ ~RepairStep
        BY Zenon DEF RepairStep, RepairOne, Stray, Restore, Stable, AssertOwner
      <4>2. pc \notin {"repair", "stray", "restore", "stable", "node"}
        BY Zenon DEF Share, InMove
      <4> QED BY <4>1, <4>2, Zenon DEF RepairPass
    <3>3. ~BeginScaleOut /\ ~Measure /\ ~Fill /\ ~NextShard /\ ~Fail
      BY <2>1, Zenon DEF BeginScaleOut, Measure, Fill, MoveSlots, NextShard, Fail, vars,
        valkeyVars, nodeVars
    <3> QED BY <3>1, <3>2, <3>3, Zenon DEF ScaleNext, ScaleOperator, FillStep
  <2>3. InMove /\ Own(n)' \subseteq Own(n) \cup (IF n = dst THEN Pending ELSE {})
    BY <2>0, <2>2, MoveClaims, Zenon
  <2>4. n = dst /\ dst = T /\ pc # "idle"
    <3>1. pc # "idle" /\ n = dst
      BY <2>3, Zenon DEF InMove
    <3> QED BY <3>1, Zenon DEF Share
  <2>5. Own(n)' \subseteq Own(T) \cup Pending /\ Cardinality(Own(T) \cup Pending) + need <= PerShard
    BY <2>3, <2>4, Zenon DEF Share
  <2>6. IsFiniteSet(Own(T) \cup Pending)
    <3>1. Own(T) \cup Pending \subseteq Slot
      BY <2>0, Zenon DEF TypeOK, Own, Pending
    <3> QED BY <3>1, FS_Subset, Zenon
  <2> DEFINE A == Own(T) \cup Pending
  <2>7. /\ Cardinality(A) \in Nat /\ Cardinality(Own(n)') \in Nat
        /\ Cardinality(Own(n)') <= Cardinality(A) /\ Cardinality(A) + need <= PerShard
    BY <2>5, <2>6, FS_Subset, FS_CardinalityType, Zenon
  <2> HIDE DEF A
  <2> QED BY <2>0, <2>7
<1> QED BY <1>1, <1>2, <1>3, PTL DEF ScaleSpec, NeverOverAssigns
=============================================================================
