------------------------------ MODULE Handover ------------------------------
(***************************************************************************)
(* What draining a shard promises, in terms of who claims each slot and    *)
(* nothing else: a slot of the departing primary passes to the survivor,   *)
(* the departing primary never takes one back, and the shard is deleted    *)
(* only when someone else claims every slot. Markers, keys, epochs, views  *)
(* and the order of commands are left to Drain, which implements this.     *)
(***************************************************************************)
CONSTANTS
    Node,   \* nodes of the cluster
    Slot,   \* hash slots
    From,   \* the departing shard's primary
    To      \* the survivor that receives its slots

VARIABLES
    claim,  \* claim[s]: the nodes that claim slot s
    gone,   \* the departing shard has been deleted
    loose   \* slots handed over without telling both ends first

handoverVars == <<claim, gone, loose>>

Init ==
    /\ claim \in [Slot -> {{n} : n \in Node}]
    /\ gone = FALSE /\ loose = {}

\* The survivor is told that it owns a slot of the departing primary.
Take(s) ==
    /\ claim[s] \subseteq {From}
    /\ claim' = [claim EXCEPT ![s] = @ \cup {To}]
    /\ UNCHANGED <<gone, loose>>

\* The departing primary is told, or hears, that it no longer owns the slot.
Release(s) ==
    /\ From \in claim[s]
    /\ claim' = [claim EXCEPT ![s] = @ \ {From}]
    /\ UNCHANGED <<gone, loose>>

\* Of two claims to a loose slot the departing primary's may win on the bus.
Withdraw(s) ==
    /\ s \in loose /\ claim[s] = {From, To}
    /\ claim' = [claim EXCEPT ![s] = {From}]
    /\ UNCHANGED <<gone, loose>>

\* A slot that looks empty is handed over without preparing its two ends.
Loosen(s) ==
    /\ claim[s] \subseteq {From, To} /\ claim[s] # {To}
    /\ loose' = loose \cup {s}
    /\ UNCHANGED <<claim, gone>>

\* The departing shard is deleted, and its claims with it.
Delete ==
    /\ \A s \in Slot : \E n \in Node \ {From} : n \in claim[s]
    /\ claim' = [s \in Slot |-> claim[s] \ {From}]
    /\ gone' = TRUE
    /\ UNCHANGED loose

Next ==
    /\ ~gone
    /\ Delete \/ \E s \in Slot : Take(s) \/ Release(s) \/ Withdraw(s) \/ Loosen(s)

Spec == Init /\ [][Next]_handoverVars
=============================================================================
