------------------------------- MODULE Drain --------------------------------
(***************************************************************************)
(* Draining a departing shard, internal/controller/scaling.go: scaleIn     *)
(* calls MoveSlots(departing primary, first surviving primary, batch) once *)
(* per pass and is called again on the next pass, whatever happened to     *)
(* the previous one, until the seed shows no slot for the departing        *)
(* primary; then the shard's StatefulSet and volumes are deleted. While a  *)
(* StatefulSet is in excess reconcileCluster replaces every repair by this *)
(* path, so no RepairSlots runs in between.                                *)
(***************************************************************************)
EXTENDS SlotMover

CONSTANTS
    From,   \* the departing shard's primary
    To      \* the first surviving primary

\* The seed is pod 0 of shard 0, and firstSurvivorPrimary tries shard 0 first: the
\* seed is the target itself, or a replica after a failover in shard 0.
ASSUME DrainAssumption ==
    /\ From \in Master /\ To \in Master /\ From # To
    /\ Seed = To \/ Seed \notin Master

VARIABLES
    gone,   \* the departing shard has been deleted
    bare    \* history: slots reassigned without the IMPORTING/MIGRATING handshake,
            \* because the probe found them empty (the fast path of MoveSlots)

drainVars == <<vars, gone, bare>>

DrainTypeOK == TypeOK /\ gone \in BOOLEAN /\ bare \subseteq Slot

DrainInit == Init /\ gone = FALSE /\ bare = {}

\* Both ends have been told of the move of s: a source that still owns it is
\* migrating it, and the target is importing it or owns it already.
Prepared(s) ==
    /\ Claims(From, s) => migrating[From][s] = To
    /\ Claims(To, s) \/ importing[To][s] = From

\* scaleIn moves a bounded batch of slots per pass.
DrainBatch ==
    /\ \E n \in 1..Cardinality(Slot) : MoveSlots(From, To, n)
    /\ UNCHANGED <<gone, bare>>

DrainStep ==
    /\ MoveStep
    /\ bare' = IF pc = "probe" /\ pc' = "assign" /\ ~Prepared(slot')
               THEN bare \cup {slot'} ELSE bare
    /\ UNCHANGED gone

\* Mutant of Drained: the departing primary itself is asked.
DrainedOwnView == \A s \in Slot : owner[From][s] # From

\* The departing primary owns no slot in the seed's reply.
Drained == Booked(From) = {}

\* What CLUSTER FORGET of the departing primary leaves of a node's entry for a slot.
Forgotten(m) == IF m = From THEN None ELSE m

\* The departing shard is drained: the survivors forget its primary, with the slots
\* and markers they still book on it, and its pods and volumes are deleted.
DeleteShard ==
    /\ pc = "idle" /\ ~gone /\ Drained
    /\ gone' = TRUE
    /\ owner' = [n \in Node |-> [s \in Slot |->
           IF n = From THEN None ELSE Forgotten(owner[n][s])]]
    /\ importing' = [n \in Node |-> [s \in Slot |->
           IF n = From THEN None ELSE Forgotten(importing[n][s])]]
    /\ migrating' = [n \in Node |-> [s \in Slot |->
           IF n = From THEN None ELSE Forgotten(migrating[n][s])]]
    /\ store' = [store EXCEPT ![From] = [k \in Key |-> 0]]
    /\ UNCHANGED <<epochVars, clientVars, opVars, fails, bare>>

\* The deleted node takes no further part in the bus.
Hear(m, n, s) ==
    /\ gone => n # From
    /\ Gossip(m, n, s)
    /\ UNCHANGED <<opVars, fails, gone, bare>>

DrainBus == \E m, n \in Node, s \in Slot : Hear(m, n, s)

DrainNext ==
    \/ DrainBatch
    \/ DrainStep
    \/ DeleteShard
    \/ DrainBus
    \/ (Fail \/ Client) /\ UNCHANGED <<gone, bare>>

DrainSpec == DrainInit /\ [][DrainNext]_drainVars

\* A pass that ended is requeued, MoveSlots goes on to its next command, and every
\* claim on the bus is heard in the end.
DrainOperator == DrainBatch \/ DrainStep \/ DeleteShard

FairDrainSpec ==
    /\ DrainSpec
    /\ WF_drainVars(DrainOperator)
    /\ \A m, n \in Node, s \in Slot : WF_drainVars(Hear(m, n, s))

-----------------------------------------------------------------------------
\* The last acknowledged write of k is still on some node.
Held(k) == acked[k] = 0 \/ \E n \in Node : store[n][k] = acked[k]

\* No acknowledged write disappears from the cluster while a shard is drained and
\* when it is then deleted, wherever a MoveSlots call is cut short and retried and
\* however clients and the bus interleave, if its slot went through the handshake.
HandshakeKeepsWrites == \A k \in Key : SlotOf[k] \notin bare => Held(k)

\* Once the departing shard is deleted, every slot is owned by a node that remains:
\* the operator's only evidence, the seed's view, was enough.
SlotsOutliveShard == gone => \A s \in Slot : \E n \in Node \ {From} : Claims(n, s)

Claimants == [s \in Slot |-> {n \in Node : Claims(n, s)}]

\* A drain is a handover: claims pass from the departing primary to the survivor and
\* never back unless the slot was moved without the handshake, and the shard is deleted
\* only when a survivor claims every slot.
HO == INSTANCE Handover WITH claim <- Claimants, loose <- bare

ImplementsHandover == HO!Spec

\* scaleIn: however a batch is cut short, and with slots left open that nothing repairs
\* while the drain goes on, the passes drain the shard and delete it.
DrainCompletes == <>gone

\* No acknowledged write is lost by scaling in, whichever path its slot takes.
NoAckedWriteLost == \A k \in Key : Held(k)

=============================================================================
