------------------------------- MODULE Repair -------------------------------
(***************************************************************************)
(* RepairSlots after migrations that were cut short: MoveSlots takes slots *)
(* from one primary to another, fails at any command, is tried again, and  *)
(* at some point the stability gate of topology.Decide sends the pass to   *)
(* RepairSlots instead. Clients and the cluster bus go on meanwhile.       *)
(***************************************************************************)
EXTENDS SlotMover

CONSTANTS From, To  \* the primaries between which slots were being moved

ASSUME RepairAssumption == {From, To} \subseteq Master /\ From # To

VARIABLES
    clean,  \* history: this repair began with the nodes agreed on the owners, no command
            \* of it has failed and none of its listings of keys was cut at RepairCap
    left    \* history: the keys of its slots that no client has touched since it began

repairVars == <<vars, clean, left>>

RepairTypeOK == TypeOK /\ clean \in BOOLEAN /\ left \subseteq Key

RepairInit ==
    /\ Init /\ Booked(From) = Slot
    /\ clean = FALSE /\ left = {}

-----------------------------------------------------------------------------
\* A pass that sees no open slot moves some slots.
MovePass ==
    /\ MoveSlots(From, To, Cardinality(Slot)) \/ MoveStep
    /\ UNCHANGED <<clean, left>>

\* Every primary believes what the seed does about s.
Orderly(s) == \A n \in Master : owner[n][s] = owner[Seed][s]

\* The last acknowledged write of k is on a primary that owns its slot or has it open.
Kept(k) ==
    acked[k] # 0 /\ \E n \in Master : /\ store[n][k] = acked[k]
                                      /\ Claims(n, SlotOf[k]) \/ OpenOn(n, SlotOf[k])

BeginRepair ==
    /\ RepairSlots
    /\ clean' = (fails' = fails /\ \A s \in todo' : Orderly(s))
    /\ left' = {k \in Key : SlotOf[k] \in todo' /\ Kept(k)}

\* A listing of the keys of the slot on a primary is complete.
Listed == pc = "stray" /\ pc' = "restore" => batch' = KeysIn(cur', slot)

ContinueRepair ==
    /\ RepairStep
    /\ clean' = (clean /\ fails' = fails /\ Listed)
    /\ UNCHANGED left

ClientStep ==
    /\ \E n \in Node, k \in Key :
        (ClientWrite(n, k) \/ ClientDelete(n, k)) /\ left' = left \ {k}
    /\ UNCHANGED <<opVars, fails, clean>>

RepairNext ==
    \/ MovePass \/ BeginRepair \/ ContinueRepair \/ ClientStep
    \/ Fail /\ clean' = FALSE /\ UNCHANGED left
    \/ Bus /\ UNCHANGED <<clean, left>>

RepairSpec == RepairInit /\ [][RepairNext]_repairVars

-----------------------------------------------------------------------------
Repairing == pc \in {"repair", "stray", "restore", "stable", "node"}

AllClosed == \A n \in Master, s \in Slot : ~OpenOn(n, s)

\* The owner of k's slot has the last acknowledged write of k.
Gathered(k) == \E n \in Node : Claims(n, SlotOf[k]) /\ store[n][k] = acked[k]

\* RepairSlots, if it runs undisturbed: when it returns, no primary has a slot open, and
\* a write acknowledged before it began is on the owner of its slot, on whatever node the
\* interrupted calls had left it.
RepairGathers ==
    [][Repairing /\ pc' = "idle" /\ clean' => (AllClosed /\ \A k \in left : Gathered(k))']_repairVars
=============================================================================
