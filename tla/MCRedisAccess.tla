--------------------------- MODULE MCRedisAccess ---------------------------
(* An instance of RedisAccess: a process with two threads and one with one.    *)
EXTENDS RedisAccess, TLC

CONSTANTS a, b, t1, t2, t3

TwoProcesses == t1 :> a @@ t2 :> a @@ t3 :> b

Threads == Permutations({t1, t2})
=============================================================================
