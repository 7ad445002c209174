------------------------------- MODULE Config -------------------------------
(***************************************************************************)
(* The configuration of a node, as internal/resources/builders.go renders  *)
(* it from the policy fields of a ValkeyCluster. A field that is not set   *)
(* has the zero value of its type; api/v1alpha1 has defaults of its own,   *)
(* which the API server fills in where the enclosing object is given.      *)
(***************************************************************************)
EXTENDS Naturals

Unset == "unset"

Or(value, zero, default) == IF value = zero THEN default ELSE value

\* The fields of a spec that reach the pods, and the values the validation rules of the API types let
\* through. RequireFullCoverage is a pointer, so it can be unset too; 0 is a number unset.
Settings ==
    [requireFullCoverage : {"true", "false", Unset}, clusterNodeTimeoutMillis : {0} \cup (Nat \ 0..999),
     minReplicasToWrite : Nat,
     mode : {"AOF", "RDB", "AOFAndRDB", "None", Unset}, appendFsync : {"always", "everysec", "no", Unset},
     ioThreads : 0..128,
     maxmemoryPolicy : {"noeviction", "allkeys-lru", "allkeys-lfu", "allkeys-random", "volatile-lru",
                        "volatile-lfu", "volatile-random", "volatile-ttl", Unset},
     memoryLimit : Nat, image : STRING]

\* The defaults of the API types, which the API server fills in. It does so only in the
\* objects that the user gives: one without a persistence, say, keeps its fields unset.
Defaulted(s) ==
    [s EXCEPT !.requireFullCoverage = Or(@, Unset, "true"), !.clusterNodeTimeoutMillis = Or(@, 0, 5000),
              !.mode = Or(@, Unset, "AOF"), !.appendFsync = Or(@, Unset, "everysec"),
              !.ioThreads = Or(@, 0, 1), !.maxmemoryPolicy = Or(@, Unset, "noeviction")]

\* Mutant of PersistenceConf: a mode that is not set turns neither mechanism on.
PersistenceUndefaulted(s) ==
    LET aofOn == s.mode \in {"AOF", "AOFAndRDB"}
    IN  [appendonly |-> aofOn,
         appendfsync |-> IF aofOn THEN Or(s.appendFsync, Unset, "everysec") ELSE Unset,
         save |-> s.mode \in {"RDB", "AOFAndRDB"}]

\* The directives for the append-only file and for the snapshots.
PersistenceConf(s) ==
    LET mode == Or(s.mode, Unset, "AOF")
        aofOn == mode \in {"AOF", "AOFAndRDB"}
        rdbOn == mode \in {"RDB", "AOFAndRDB"}
    IN  [appendonly |-> aofOn,
         appendfsync |-> IF aofOn THEN Or(s.appendFsync, Unset, "everysec") ELSE Unset,
         save |-> rdbOn]

\* RenderValkeyConf: the directives of valkey.conf that depend on the spec. Those that are
\* left out of the file are Unset here, or 0.
RenderValkeyConf(s) ==
    [clusterNodeTimeout |-> Or(s.clusterNodeTimeoutMillis, 0, 5000),
     requireFullCoverage |-> s.requireFullCoverage # "false",
     minReplicasToWrite |-> s.minReplicasToWrite,
     ioThreads |-> IF s.ioThreads < 1 THEN 1 ELSE s.ioThreads,
     maxmemoryPolicy |-> Or(s.maxmemoryPolicy, Unset, "noeviction"),
     persistence |-> PersistenceConf(s),
     maxmemory |-> (s.memoryLimit * 70) \div 100]
=============================================================================
