------------------------------- MODULE Status -------------------------------
(***************************************************************************)
(* What internal/controller/status.go writes into the status of a          *)
(* ValkeyCluster: the phase, the number of ready shards, the observed      *)
(* generation and the three conditions.                                    *)
(***************************************************************************)
EXTENDS Naturals

Phases == {"", "Provisioning", "Forming", "ScalingReplicas", "Resharding", "Ready", "Degraded"}
ConditionStatus == {"", "True", "False"}    \* "": the condition has not been set yet

\* The status of a resource no pass has written to yet. computedFrom is a history
\* field: the generation of the spec that the last full status was computed from.
NoStatus == [phase |-> "", readyShards |-> 0, observedGeneration |-> 0, computedFrom |-> 0,
             available |-> "", progressing |-> "", degraded |-> ""]

Statuses == [phase : Phases, readyShards : Nat, observedGeneration : Nat, computedFrom : Nat,
             available : ConditionStatus, progressing : ConditionStatus,
             degraded : ConditionStatus]

\* What a pass sees when it computes the status.
Reports == [ready : Nat, actual : Nat, desired : Nat, covered : BOOLEAN, open : BOOLEAN,
            generation : Nat]

\* Mutant of AllReady: only the declared shards are looked at.
AllReadyOfDeclared(rep) == rep.ready = rep.desired /\ rep.covered /\ ~rep.open

AllReady(rep) ==
    /\ rep.ready = rep.desired /\ rep.actual = rep.desired
    /\ rep.covered /\ ~rep.open

\* setPhase: the other conditions keep what an earlier pass wrote.
SetPhase(status, phase) == [status EXCEPT !.phase = phase, !.progressing = "True"]

\* updateStatus: generation is that of the object just read for the update.
UpdateStatus(status, rep, generation) ==
    LET counted == [status EXCEPT !.readyShards = rep.ready,
                                  !.observedGeneration = generation,
                                  !.computedFrom = rep.generation]
        resharding == [counted EXCEPT !.phase = "Resharding", !.progressing = "True",
                                      !.available = "True"]
    IN  IF AllReady(rep)
        THEN [counted EXCEPT !.phase = "Ready", !.available = "True",
                             !.progressing = "False", !.degraded = "False"]
        ELSE IF rep.ready > 0 /\ (rep.actual > rep.desired \/ rep.open)
        THEN resharding
        ELSE [counted EXCEPT !.phase = "Degraded", !.available = "False", !.degraded = "True"]
=============================================================================
