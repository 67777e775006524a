---------------------------- MODULE RedisAccess ----------------------------
(* The traffic diet of redis_bandwidth.py: every bot reads and writes its      *)
(* documents through redis_get and redis_set, which keep, per process, a       *)
(* cache of the last value and a digest of the last value seen under a key.    *)
(* A read may be answered by the cache; a write of the value last seen is      *)
(* skipped and still answered True.  Keys do not influence each other, so the  *)
(* model has one key.  The metrics and the TTL of daily flags are left out.    *)
(*                                                                             *)
(* A call of the client is two steps, the server's and the recording of its    *)
(* answer under _lock, because _lock is not held across client.get and         *)
(* client.set.  A cached read and a skipped write change nothing; what they    *)
(* answer is what the properties are about.                                    *)
EXTENDS Naturals

CONSTANTS
  Process,     \* worker processes
  Thread,      \* their threads
  ProcOf,      \* the process of each thread
  Value,       \* documents
  Initial,     \* the document under the key when the processes start
  Unknown,     \* no entry
  Serialised,  \* whether the bot holds its redis_lock around every call
  Cached,      \* whether safe_cache_seconds_for_key allows a cache for the key
  MaxWrites    \* bound on the writes the server executes

ASSUME ConstantsAssumption ==
  /\ ProcOf \in [Thread -> Process]
  /\ Initial \in Value
  /\ Serialised \in BOOLEAN /\ Cached \in BOOLEAN
  /\ MaxWrites \in Nat

\* A document with the number of the write that stored it; the number is not in
\* the code, the properties use it to compare ages.
Version == [val : Value, ver : 0 .. MaxWrites]

ASSUME UnknownAssumption == Unknown \notin Value /\ Unknown \notin Version

VARIABLES
  stored,   \* the document in Redis
  seen,     \* per process: _last_values, by its digest
  cache,    \* per process: _cache
  written,  \* per process: the last write a redis_set of it has answered
  pc,       \* per thread: where its call is
  arg,      \* per thread: what it writes, or what the server answered
  overtaken \* history: the processes for which another process wrote, or whose
            \* own write landed and raised

local == <<seen, cache, written>>
vars == <<stored, local, pc, arg, overtaken>>

TypeOK ==
  /\ stored \in Version
  /\ seen \in [Process -> Value \union {Unknown}]
  /\ cache \in [Process -> Version \union {Unknown}]
  /\ written \in [Process -> 0 .. MaxWrites]
  /\ pc \in [Thread -> {"idle", "get", "recordGet", "set", "recordSet"}]
  /\ arg \in [Thread -> Version]
  /\ overtaken \subseteq Process

Init ==
  /\ stored = [val |-> Initial, ver |-> 0]
  /\ seen = [p \in Process |-> Unknown]
  /\ cache = [p \in Process |-> Unknown]
  /\ written = [p \in Process |-> 0]
  /\ pc = [t \in Thread |-> "idle"]
  /\ arg = [t \in Thread |-> [val |-> Initial, ver |-> 0]]
  /\ overtaken = {}

-----------------------------------------------------------------------------
\* Calls.

Goto(t, label) == pc' = [pc EXCEPT ![t] = label]

\* redis_lock, where the bot has one, lets one thread of the process in.
MayCall(t) ==
  /\ pc[t] = "idle"
  /\ Serialised => \A u \in Thread : ProcOf[u] = ProcOf[t] => pc[u] = "idle"

\* A redis_get that asks the server: nothing cached, the entry expired, the key
\* is never cached, or no_cache.
BeginGet(t) ==
  /\ MayCall(t)
  /\ Goto(t, "get")
  /\ UNCHANGED <<stored, local, arg, overtaken>>

ServerGet(t) ==
  /\ pc[t] = "get"
  /\ arg' = [arg EXCEPT ![t] = stored]
  /\ Goto(t, "recordGet")
  /\ UNCHANGED <<stored, local, overtaken>>

RecordGet(t) ==
  /\ pc[t] = "recordGet"
  /\ seen' = [seen EXCEPT ![ProcOf[t]] = arg[t].val]
  /\ cache' = IF Cached THEN [cache EXCEPT ![ProcOf[t]] = arg[t]] ELSE cache
  /\ Goto(t, "idle")
  /\ UNCHANGED <<stored, written, arg, overtaken>>

\* A redis_set that is not skipped.
BeginSet(t, v) ==
  /\ MayCall(t)
  /\ seen[ProcOf[t]] # v
  /\ arg' = [arg EXCEPT ![t] = [val |-> v, ver |-> 0]]
  /\ Goto(t, "set")
  /\ UNCHANGED <<stored, local, overtaken>>

ServerSet(t) ==
  /\ pc[t] = "set"
  /\ stored.ver < MaxWrites
  /\ stored' = [val |-> arg[t].val, ver |-> stored.ver + 1]
  /\ arg' = [arg EXCEPT ![t] = stored']
  /\ Goto(t, "recordSet")
  /\ overtaken' = overtaken \union (Process \ {ProcOf[t]})
  /\ UNCHANGED local

\* The write is answered; it is the process's latest if no later one was.
Answer(t) ==
  written' = [written EXCEPT ![ProcOf[t]] = IF @ < arg[t].ver THEN arg[t].ver ELSE @]

\* Slip: the digest of the write is not recorded.
RecordSetWithoutDigest(t) ==
  /\ pc[t] = "recordSet"
  /\ cache' = [cache EXCEPT ![ProcOf[t]] = IF Cached THEN arg[t] ELSE Unknown]
  /\ Answer(t)
  /\ Goto(t, "idle")
  /\ UNCHANGED <<stored, seen, arg, overtaken>>

\* Slip: the cached value survives a write.
RecordSetKeepingCache(t) ==
  /\ pc[t] = "recordSet"
  /\ seen' = [seen EXCEPT ![ProcOf[t]] = arg[t].val]
  /\ Answer(t)
  /\ Goto(t, "idle")
  /\ UNCHANGED <<stored, cache, arg, overtaken>>

RecordSet(t) ==
  /\ pc[t] = "recordSet"
  /\ seen' = [seen EXCEPT ![ProcOf[t]] = arg[t].val]
  /\ cache' = [cache EXCEPT ![ProcOf[t]] = IF Cached THEN arg[t] ELSE Unknown]
  /\ Answer(t)
  /\ Goto(t, "idle")
  /\ UNCHANGED <<stored, arg, overtaken>>

\* client.get or client.set raises, before or after the server executed it;
\* neither function forgets what it had seen.
Raise(t) ==
  /\ pc[t] # "idle"
  /\ overtaken' = IF pc[t] = "recordSet" THEN overtaken \union {ProcOf[t]}
                                         ELSE overtaken
  /\ Goto(t, "idle")
  /\ UNCHANGED <<stored, local, arg>>

\* Entries of other keys push this one out.
TrimRuntimeMaps(p) ==
  /\ \/ seen' = [seen EXCEPT ![p] = Unknown] /\ UNCHANGED cache
     \/ cache' = [cache EXCEPT ![p] = Unknown] /\ UNCHANGED seen
  /\ UNCHANGED <<stored, written, pc, arg, overtaken>>

Next ==
  \/ \E t \in Thread :
       \/ BeginGet(t) \/ ServerGet(t) \/ RecordGet(t)
       \/ \E v \in Value : BeginSet(t, v)
       \/ ServerSet(t) \/ RecordSet(t)
       \/ Raise(t)
  \/ \E p \in Process : TrimRuntimeMaps(p)

Spec == Init /\ [][Next]_vars

-----------------------------------------------------------------------------
\* Properties.

\* A redis_set answers True without writing only when the key already holds the
\* value: the rewrite it avoids is an identical one (redis_set, 487-491), as long
\* as no other process wrote and no own write landed and raised.
SkippedSetIsIdentical ==
  \A t \in Thread :
    MayCall(t) /\ seen[ProcOf[t]] # Unknown /\ ProcOf[t] \notin overtaken
      => seen[ProcOf[t]] = stored.val

\* A cached read is never older than a write the same process has been told is
\* done, although it may be older than the writes of other processes.
OwnWritesVisible ==
  \A t \in Thread : MayCall(t) /\ cache[ProcOf[t]] # Unknown
                      => cache[ProcOf[t]].ver >= written[ProcOf[t]]
=============================================================================
