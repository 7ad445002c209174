---------------------------- MODULE MCReconciler ----------------------------
(***************************************************************************)
(* Instances of Reconciler for TLC. FormedInit is where a resource ends up *)
(* that was formed without incident: runs about a later change of the      *)
(* topology start there. It is not in its first generation: a resource     *)
(* without replicas is one that was edited to have none after the          *)
(* finalizer was added, here before the first StatefulSet was.             *)
(***************************************************************************)
EXTENDS Reconciler

\* A formed cluster of n shards with r replicas each.
Formed(n, r, generation) ==
    LET pods == {p \in Pod : p[1] < n /\ p[2] <= r}
    IN  /\ \E m \in 0..r : spec = [shards |-> n, replicas |-> r, minReplicas |-> m,
                                   generation |-> generation]
        /\ object = "live"
        /\ sts = [i \in Shard |-> IF i < n THEN r + 1 ELSE 0]
        /\ volumes = pods /\ up = pods /\ member = pods /\ doomed = {} /\ late = {}
        /\ masterOf = [p \in Pod |-> IF p \in pods /\ p[2] > 0 THEN <<p[1], 0>> ELSE NoPod]
        /\ count = [p \in Pod |-> IF p \in pods /\ p[2] = 0 THEN TargetCounts(n)[p[1]] ELSE 0]
        /\ open = {}
        /\ status = UpdateStatus(NoStatus, [ready |-> n, actual |-> n, desired |-> n, covered |-> TRUE,
                                            open |-> FALSE, generation |-> generation], generation)
        /\ stage = "idle" /\ cr = NoSpec /\ at = 0 /\ report = NoReport

FormedInit ==
    /\ \E n \in Sizes, r \in ReplicaChoices : Formed(n, r, MaxEdits)
    /\ crashes = 0 /\ outages = 0

\* Three lives of a resource. A budget that a story has no use for is spent from the start:
\* it is created, and edited once while it is being formed or later (the update that adds
\* the finalizer to a resource without replicas makes a generation, too);
Created ==
    /\ InitResource
    /\ spec.generation = IF spec.replicas = 0 THEN MaxEdits - 1 ELSE MaxEdits
    /\ crashes = MaxCrashes /\ outages = MaxOutages

\* it is in use, and is edited while the operator may fail;
Edited ==
    /\ \E n \in Sizes, r \in ReplicaChoices : Formed(n, r, MaxEdits)
    /\ crashes = 0 /\ outages = MaxOutages

\* it is in use, and loses pods while the operator may fail. No slot moves then.
Battered ==
    /\ \E n \in Sizes, r \in ReplicaChoices : Formed(n, r, MaxEdits + 1)
    /\ spec.minReplicas = 0
    /\ crashes = 0 /\ outages = 0

FreshSpec == Init /\ [][Next]_vars /\ Fairness
FormedSpec == FormedInit /\ [][Next]_vars /\ Fairness
LivesSpec == (Created \/ Edited \/ Battered) /\ [][Next]_vars /\ Fairness
=============================================================================
