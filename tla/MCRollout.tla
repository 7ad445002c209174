----------------------------- MODULE MCRollout ------------------------------
(***************************************************************************)
(* Two shards of two pods. Two of the settings give the same configuration *)
(* and differ in the image.                                                *)
(***************************************************************************)
EXTENDS Rollout

Bare ==
    [requireFullCoverage |-> Unset, clusterNodeTimeoutMillis |-> 0, minReplicasToWrite |-> 0,
     mode |-> Unset, appendFsync |-> Unset, ioThreads |-> 0, maxmemoryPolicy |-> Unset,
     memoryLimit |-> 0, image |-> "valkey:8"]

Cache == [Bare EXCEPT !.mode = "None", !.ioThreads = 4]

MCChoices ==
    {Bare, Cache, [Cache EXCEPT !.appendFsync = "always", !.image = "valkey:9"]}
=============================================================================
