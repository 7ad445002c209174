------------------------------ MODULE Topology ------------------------------
(***************************************************************************)
(* internal/topology/topology.go: the single next action a pass takes,     *)
(* decided from the declared topology and a summary of the live cluster.   *)
(***************************************************************************)
EXTENDS Naturals

Kinds == {"Form", "Repair", "ScaleOutShards", "ScaleInShards", "ScaleReplicas", "None"}

\* d: [shards, replicas]; o: [formed, covered, primaries, replicaCounts], the last a set.
Decide(d, o) ==
    IF ~o.formed THEN "Form"
    ELSE IF ~o.covered THEN "Repair"
    ELSE IF d.shards > o.primaries THEN "ScaleOutShards"
    ELSE IF d.shards < o.primaries THEN "ScaleInShards"
    ELSE IF \E rc \in o.replicaCounts : rc # d.replicas THEN "ScaleReplicas"
    ELSE "None"
=============================================================================
