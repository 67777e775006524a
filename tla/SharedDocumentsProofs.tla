------------------------- MODULE SharedDocumentsProofs -------------------------
(* Proofs about two components that read and write whole documents shared by   *)
(* threads and processes: redis_bandwidth.py, whose redis_lock covers one call *)
(* of one process, and the files of PAPER trades, which no lock covers.  Both  *)
(* hold for any threads, keys, values and bounds.                              *)
EXTENDS RedisAccess, PaperTrading, FiniteSetTheorems, TLAPS

USE DEF local

\* The threads and processes of a step.
LEMMA ProcOfThread == ASSUME NEW t \in Thread PROVE ProcOf[t] \in Process
BY ConstantsAssumption

\* A version is a record of a value and a number.
LEMMA VersionFields ==
  /\ \A x \in Version : x.val \in Value /\ x.ver \in Nat /\ x.ver \in 0 .. MaxWrites
  /\ \A v \in Value, n \in 0 .. MaxWrites : [val |-> v, ver |-> n] \in Version
  /\ 0 \in 0 .. MaxWrites
BY ConstantsAssumption DEF Version

-----------------------------------------------------------------------------
\* The documents, entries and calls of redis_bandwidth.py stay within their types.
THEOREM TypeCorrect == Spec => []TypeOK
<1>1. Init => TypeOK
  BY VersionFields, ConstantsAssumption DEF Init, TypeOK
<1>2. TypeOK /\ [Next]_vars => TypeOK'
  <2> SUFFICES ASSUME TypeOK, [Next]_vars PROVE TypeOK'
    OBVIOUS
  <2> USE DEF TypeOK, Goto
  <2>1. ASSUME NEW t \in Thread, BeginGet(t) PROVE TypeOK'
    BY <2>1 DEF BeginGet
  <2>2. ASSUME NEW t \in Thread, ServerGet(t) PROVE TypeOK'
    BY <2>2 DEF ServerGet
  <2>3. ASSUME NEW t \in Thread, RecordGet(t) PROVE TypeOK'
    BY <2>3, ProcOfThread, VersionFields DEF RecordGet
  <2>4. ASSUME NEW t \in Thread, NEW v \in Value, BeginSet(t, v) PROVE TypeOK'
    BY <2>4, VersionFields DEF BeginSet
  <2>5. ASSUME NEW t \in Thread, ServerSet(t) PROVE TypeOK'
    <3>1. stored.ver + 1 \in 0 .. MaxWrites
      BY <2>5, VersionFields, ConstantsAssumption DEF ServerSet
    <3>2. stored' \in Version
      BY <2>5, <3>1, VersionFields DEF ServerSet
    <3> QED
      BY <2>5, <3>2 DEF ServerSet
  <2>6. ASSUME NEW t \in Thread, RecordSet(t) PROVE TypeOK'
    BY <2>6, ProcOfThread, VersionFields DEF RecordSet, Answer
  <2>7. ASSUME NEW t \in Thread, Raise(t) PROVE TypeOK'
    BY <2>7, ProcOfThread DEF Raise
  <2>8. ASSUME NEW p \in Process, TrimRuntimeMaps(p) PROVE TypeOK'
    BY <2>8 DEF TrimRuntimeMaps
  <2>9. CASE UNCHANGED vars
    BY <2>9 DEF vars
  <2> QED
    BY <2>1, <2>2, <2>3, <2>4, <2>5, <2>6, <2>7, <2>8, <2>9 DEF Next
<1> QED
  BY <1>1, <1>2, PTL DEF Spec

-----------------------------------------------------------------------------
\* redis_lock lets one call of a process run at a time.
OneCallPerProcess ==
  Serialised =>
    \A t, u \in Thread :
      ProcOf[t] = ProcOf[u] /\ pc[t] # "idle" /\ pc[u] # "idle" => t = u

\* A step moves at most one thread, and one that starts a call was let in.
LEMMA Moves ==
  ASSUME TypeOK, [Next]_vars
  PROVE  \/ pc' = pc
         \/ \E t \in Thread :
              /\ \A u \in Thread \ {t} : pc'[u] = pc[u]
              /\ pc[t] = "idle" => MayCall(t)
  <1> USE DEF TypeOK, Goto
  <1>1. ASSUME NEW t \in Thread,
               \/ BeginGet(t) \/ ServerGet(t) \/ RecordGet(t)
               \/ \E v \in Value : BeginSet(t, v)
               \/ ServerSet(t) \/ RecordSet(t) \/ Raise(t)
        PROVE  /\ \A u \in Thread \ {t} : pc'[u] = pc[u]
               /\ pc[t] = "idle" => MayCall(t)
    BY <1>1 DEF BeginGet, ServerGet, RecordGet, BeginSet, ServerSet, RecordSet, Raise
  <1>2. ASSUME NEW p \in Process, TrimRuntimeMaps(p) PROVE pc' = pc
    BY <1>2 DEF TrimRuntimeMaps
  <1>3. CASE UNCHANGED vars
    BY <1>3 DEF vars
  <1> QED
    BY <1>1, <1>2, <1>3 DEF Next

LEMMA OneCallInductive ==
  ASSUME TypeOK, OneCallPerProcess, [Next]_vars
  PROVE  OneCallPerProcess'
BY Moves DEF OneCallPerProcess, MayCall

-----------------------------------------------------------------------------
\* No entry and no answer on its way is older than the process's answered writes.
NothingOlder ==
  /\ \A p \in Process :
       /\ written[p] <= stored.ver
       /\ cache[p] # Unknown => cache[p].ver >= written[p]
  /\ \A t \in Thread :
       pc[t] \in {"recordGet", "recordSet"}
         => arg[t].ver >= written[ProcOf[t]] /\ arg[t].ver <= stored.ver

LEMMA NothingOlderInductive ==
  ASSUME Serialised, TypeOK, OneCallPerProcess, NothingOlder, [Next]_vars
  PROVE  NothingOlder'
<1> USE DEF TypeOK, NothingOlder, Goto
<1>a. /\ stored.ver \in Nat
      /\ \A p \in Process : written[p] \in Nat
      /\ \A t \in Thread : arg[t] \in Version /\ arg[t].ver \in Nat /\ ProcOf[t] \in Process
      /\ \A p \in Process : cache[p] # Unknown => cache[p].ver \in Nat
  BY VersionFields, ProcOfThread, ConstantsAssumption
<1>1. ASSUME NEW t \in Thread, BeginGet(t) PROVE NothingOlder'
  BY <1>1, <1>a DEF BeginGet
<1>2. ASSUME NEW t \in Thread, ServerGet(t) PROVE NothingOlder'
  BY <1>2, <1>a DEF ServerGet
<1>3. ASSUME NEW t \in Thread, RecordGet(t) PROVE NothingOlder'
  <2>1. \A p \in Process : cache'[p] = cache[p] \/ (p = ProcOf[t] /\ cache'[p] = arg[t])
    BY <1>3 DEF RecordGet
  <2>2. arg[t].ver >= written[ProcOf[t]]
    BY <1>3 DEF RecordGet
  <2>3. \A p \in Process : cache'[p] # Unknown => cache'[p].ver >= written[p]
    BY <2>1, <2>2
  <2>4. stored' = stored /\ written' = written /\ arg' = arg
    BY <1>3 DEF RecordGet
  <2>5. \A u \in Thread : pc'[u] \in {"recordGet", "recordSet"} => pc[u] = pc'[u]
    BY <1>3 DEF RecordGet
  <2> QED
    BY <2>3, <2>4, <2>5
<1>4. ASSUME NEW t \in Thread, NEW v \in Value, BeginSet(t, v) PROVE NothingOlder'
  BY <1>4, <1>a DEF BeginSet
<1>5. ASSUME NEW t \in Thread, ServerSet(t) PROVE NothingOlder'
  <2>1. stored'.ver = stored.ver + 1 /\ arg' = [arg EXCEPT ![t] = stored']
    BY <1>5 DEF ServerSet
  <2> QED
    BY <1>5, <1>a, <2>1 DEF ServerSet
<1>6. ASSUME NEW t \in Thread, RecordSet(t) PROVE NothingOlder'
  <2>1. /\ written'[ProcOf[t]] = arg[t].ver
        /\ \A p \in Process \ {ProcOf[t]} : written'[p] = written[p]
    <3>1. written[ProcOf[t]] <= arg[t].ver
      BY <1>6 DEF RecordSet
    <3>2. written' = [written EXCEPT ![ProcOf[t]] =
                        IF written[ProcOf[t]] < arg[t].ver THEN arg[t].ver ELSE written[ProcOf[t]]]
      BY <1>6 DEF RecordSet, Answer
    <3>3. /\ written'[ProcOf[t]] = IF written[ProcOf[t]] < arg[t].ver
                                    THEN arg[t].ver ELSE written[ProcOf[t]]
          /\ \A p \in Process \ {ProcOf[t]} : written'[p] = written[p]
      BY <3>2, ProcOfThread
    <3> QED
      BY <3>1, <3>3, <1>a
  <2>2. \A p \in Process :
          /\ written'[p] <= stored'.ver
          /\ cache'[p] # Unknown => cache'[p].ver >= written'[p]
    BY <1>6, <1>a, <2>1 DEF RecordSet
  <2>3. \A u \in Thread :
          pc'[u] \in {"recordGet", "recordSet"}
            => arg'[u].ver >= written'[ProcOf[u]] /\ arg'[u].ver <= stored'.ver
    <3> SUFFICES ASSUME NEW u \in Thread, pc'[u] \in {"recordGet", "recordSet"}
                 PROVE  arg'[u].ver >= written'[ProcOf[u]] /\ arg'[u].ver <= stored'.ver
      OBVIOUS
    <3>1. u # t /\ pc[u] = pc'[u] /\ arg'[u] = arg[u] /\ stored' = stored
      BY <1>6 DEF RecordSet
    <3>2. ProcOf[u] # ProcOf[t]
      BY <1>6, <3>1 DEF RecordSet, OneCallPerProcess
    <3> QED
      BY <3>1, <3>2, <2>1, <1>a
  <2> QED
    BY <2>2, <2>3
<1>7. ASSUME NEW t \in Thread, Raise(t) PROVE NothingOlder'
  BY <1>7 DEF Raise
<1>8. ASSUME NEW p \in Process, TrimRuntimeMaps(p) PROVE NothingOlder'
  BY <1>8 DEF TrimRuntimeMaps
<1>9. CASE UNCHANGED vars
  BY <1>9 DEF vars
<1> QED
  BY <1>1, <1>2, <1>3, <1>4, <1>5, <1>6, <1>7, <1>8, <1>9 DEF Next

\* Where redis_lock is held around each call of redis_bandwidth.py, a cached read
\* is never older than a write its process has been told is done, whatever the
\* other workers write and whichever calls raise.
THEOREM OwnWritesStayVisible ==
  ASSUME Serialised
  PROVE  Spec => []OwnWritesVisible
<1>1. Init => OneCallPerProcess /\ NothingOlder
  BY ConstantsAssumption DEF Init, OneCallPerProcess, NothingOlder
<1>2. TypeOK /\ OneCallPerProcess /\ NothingOlder /\ [Next]_vars
        => (OneCallPerProcess /\ NothingOlder)'
  BY OneCallInductive, NothingOlderInductive
<1>3. NothingOlder => OwnWritesVisible
  BY ProcOfThread DEF NothingOlder, OwnWritesVisible
<1> QED
  BY <1>1, <1>2, <1>3, TypeCorrect, PTL DEF Spec

-----------------------------------------------------------------------------
\* What a process that was not overtaken has seen is what Redis holds, but for a
\* write of its own that landed and is about to be recorded.
SeenIsStored ==
  \A p \in Process \ overtaken :
    /\ \A t \in Thread : ProcOf[t] = p /\ pc[t] \in {"recordGet", "recordSet"}
                            => arg[t] = stored
    /\ (\A t \in Thread : ProcOf[t] = p => pc[t] # "recordSet") /\ seen[p] # Unknown
         => seen[p] = stored.val

LEMMA SeenIsStoredInductive ==
  ASSUME Serialised, TypeOK, OneCallPerProcess, SeenIsStored, [Next]_vars
  PROVE  SeenIsStored'
<1> USE DEF TypeOK, Goto
<1>a. \A t, u \in Thread :
        ProcOf[t] = ProcOf[u] /\ pc[t] # "idle" /\ pc[u] # "idle" => t = u
  BY DEF OneCallPerProcess
<1>b. \A t, u \in Thread : MayCall(t) /\ ProcOf[t] = ProcOf[u] => pc[u] = "idle"
  BY DEF MayCall
<1>1. ASSUME NEW t \in Thread, BeginGet(t) PROVE SeenIsStored'
  BY <1>1, <1>b DEF BeginGet, SeenIsStored
<1>2. ASSUME NEW t \in Thread, ServerGet(t) PROVE SeenIsStored'
  BY <1>2, <1>a DEF ServerGet, SeenIsStored
<1>3. ASSUME NEW t \in Thread, RecordGet(t) PROVE SeenIsStored'
  BY <1>3, <1>a, ProcOfThread DEF RecordGet, SeenIsStored
<1>4. ASSUME NEW t \in Thread, NEW v \in Value, BeginSet(t, v) PROVE SeenIsStored'
  BY <1>4, <1>b DEF BeginSet, SeenIsStored
<1>5. ASSUME NEW t \in Thread, ServerSet(t) PROVE SeenIsStored'
  <2>1. \A u \in Thread : ProcOf[u] = ProcOf[t] /\ u # t => pc'[u] = "idle"
    BY <1>5, <1>a DEF ServerSet
  <2>2. pc'[t] = "recordSet" /\ arg'[t] = stored'
    BY <1>5 DEF ServerSet
  <2>3. Process \ overtaken' \subseteq {ProcOf[t]}
    BY <1>5 DEF ServerSet
  <2> QED
    BY <2>1, <2>2, <2>3 DEF SeenIsStored
<1>6. ASSUME NEW t \in Thread, RecordSet(t) PROVE SeenIsStored'
  BY <1>6, <1>a, ProcOfThread DEF RecordSet, SeenIsStored
<1>7. ASSUME NEW t \in Thread, Raise(t) PROVE SeenIsStored'
  BY <1>7 DEF Raise, SeenIsStored
<1>8. ASSUME NEW p \in Process, TrimRuntimeMaps(p) PROVE SeenIsStored'
  BY <1>8 DEF TrimRuntimeMaps, SeenIsStored
<1>9. CASE UNCHANGED vars
  BY <1>9 DEF vars, SeenIsStored
<1> QED
  BY <1>1, <1>2, <1>3, <1>4, <1>5, <1>6, <1>7, <1>8, <1>9 DEF Next

\* In a worker that holds redis_lock around its calls, redis_set skips a write
\* only when Redis already holds the document, until another worker writes it or
\* a write of its own lands and raises.
THEOREM SkipsStayIdentical ==
  ASSUME Serialised
  PROVE  Spec => []SkippedSetIsIdentical
<1>1. Init => OneCallPerProcess /\ SeenIsStored
  BY DEF Init, OneCallPerProcess, SeenIsStored
<1>2. TypeOK /\ OneCallPerProcess /\ SeenIsStored /\ [Next]_vars
        => (OneCallPerProcess /\ SeenIsStored)'
  BY OneCallInductive, SeenIsStoredInductive
<1>3. OneCallPerProcess /\ SeenIsStored => SkippedSetIsIdentical
  BY ProcOfThread DEF OneCallPerProcess, SeenIsStored, SkippedSetIsIdentical, MayCall
<1> QED
  BY <1>1, <1>2, <1>3, TypeCorrect, PTL DEF Spec

-----------------------------------------------------------------------------
(* PAPER trades.  The statistics of outcome_evaluator.py are written by one    *)
(* thread only, after the positions; stale copies of the positions, which the  *)
(* executor and the lifecycle write back whole, may lose marks but never show  *)
(* one the statistics lack, and what a stop leaves behind reads as empty.      *)

\* The executions that count as evaluated: those of the statistics, or those the
\* evaluation that is about to write them has added.
Marks == IF eval.at \in {"fill", "openStats", "fillStats"} THEN eval.stats.marked ELSE stats.marked

Opened(copy) == {o \in Opening : copy[o].status # "absent"}

\* A copy of the positions, in the file or in a thread, names finitely many
\* openings that took place; only closed ones are marked, and they are counted.
Sound(copy) ==
  /\ IsFiniteSet(Opened(copy))
  /\ \A o \in Opened(copy) : o[2] <= opened[o[1]]
  /\ \A o \in Opening : copy[o].evaluated => copy[o].status = "closed"
  /\ \A o \in Opening : copy[o].status = "closed" => copy[o].closing # 0
  /\ crashes = 0 => \A o \in Opening : copy[o].evaluated => <<o, copy[o].closing>> \in Marks

Counted(s) == IsFiniteSet(s.marked) /\ s.trades = Cardinality(s.marked)

\* Nobody else writes the statistics, so they are torn only while they are written.
Unshared ==
  /\ stats = Torn => eval.at = "fillStats"
  /\ eval.at = "fillStats" => stats = Torn
  /\ eval.at = "evaluate" => eval.stats = stats

PaperInv ==
  /\ PaperTypeOK
  /\ positions # Torn => Sound(positions)
  /\ \A e \in Executor : Sound(exec[e].copy)
  /\ Sound(life.copy) /\ Sound(eval.copy)
  /\ stats # Torn => Counted(stats)
  /\ Counted(eval.stats)
  /\ crashes = 0 => Unshared

LEMMA PaperTypes ==
  /\ NoPositions \in Positions
  /\ \A c \in Positions : \A o \in Opening :
       /\ c[o] \in Position /\ c[o].closing \in 0..MaxClosings /\ c[o].evaluated \in BOOLEAN
       /\ \A p \in Position : [c EXCEPT ![o] = p] \in Positions
  /\ NoStatistics \in Statistics
  /\ \A o \in Opening : o[1] \in Key /\ o[2] \in 1..MaxOpenings
  /\ \A k \in Key, n \in 1..MaxOpenings : <<k, n>> \in Opening
<1>1. {MaxOpenings, MaxClosings, MaxCrashes} \subseteq Nat
  BY PaperAssumption
<1>2. NoPositions \in Positions
  BY <1>1 DEF NoPositions, Positions, Position, Absent
<1>3. NoStatistics \in Statistics
  BY DEF NoStatistics, Statistics
<1>4. \A o \in Opening : o[1] \in Key /\ o[2] \in 1..MaxOpenings
  BY DEF Opening
<1>5. \A k \in Key, n \in 1..MaxOpenings : <<k, n>> \in Opening
  BY DEF Opening
<1>6. \A c \in Positions : \A o \in Opening :
        /\ c[o] \in Position /\ c[o].closing \in 0..MaxClosings /\ c[o].evaluated \in BOOLEAN
        /\ \A p \in Position : [c EXCEPT ![o] = p] \in Positions
  BY DEF Positions, Position
<1> QED
  BY <1>2, <1>3, <1>4, <1>5, <1>6

\* The results counted are those of the executions that get their mark.
LEMMA Counting ==
  ASSUME eval.copy \in Positions, Sound(eval.copy), Counted(eval.stats), eval.stats \in Statistics
  PROVE  Counted([marked |-> Marked,
                  trades |-> eval.stats.trades + Cardinality(PendingOutcomes)])
<1> DEFINE P == PendingOutcomes
           Q == {ExecutionOf(o) : o \in P}
           M == eval.stats.marked
<1>1. P \subseteq Opened(eval.copy)
  BY DEF PendingOutcomes, ClosedIn, Opened
<1>2. IsFiniteSet(P)
  BY <1>1, FS_Subset DEF Sound
<1>3. IsFiniteSet(Q) /\ Cardinality(Q) = Cardinality(P)
  <2> DEFINE f == [o \in P |-> ExecutionOf(o)]
  <2>1. f \in Surjection(P, Q)
    BY DEF Surjection
  <2>2. f \in Injection(P, Q)
    BY DEF Injection, IsInjective, ExecutionOf
  <2>3. ExistsBijection(P, Q)
    BY <2>1, <2>2 DEF ExistsBijection, Bijection
  <2> QED
    BY <1>2, <2>3, FS_Bijection
<1>4. M \intersect Q = {}
  BY DEF PendingOutcomes
<1>5. IsFiniteSet(M) /\ eval.stats.trades = Cardinality(M)
  BY DEF Counted
<1>6. Marked = M \union Q
  BY DEF Marked
<1> HIDE DEF P, Q, M
<1>7. IsFiniteSet(M \union Q)
      /\ Cardinality(M \union Q) = Cardinality(M) + Cardinality(Q) - Cardinality(M \intersect Q)
  BY <1>3, <1>5, FS_Union
<1>8. Cardinality(M \union Q) = Cardinality(M) + Cardinality(P)
  <2>1. Cardinality(M) \in Nat /\ Cardinality(P) \in Nat
    BY <1>2, <1>5, FS_CardinalityType
  <2>2. Cardinality(M \intersect Q) = 0
    BY <1>4, FS_EmptySet
  <2> QED
    BY <1>3, <1>7, <2>1, <2>2
<1> QED
  BY <1>5, <1>6, <1>7, <1>8 DEF Counted, P


LEMMA ReadTypes ==
  ASSUME PaperTypeOK
  PROVE  /\ Read(positions, NoPositions) \in Positions
         /\ Read(seenKeys, {}) \subseteq Key
         /\ Read(stats, NoStatistics) \in Statistics
<1>1. /\ positions \in Positions \union {Torn}
      /\ seenKeys \in (SUBSET Key) \union {Torn}
      /\ stats \in Statistics \union {Torn}
  BY DEF PaperTypeOK
<1>2. Read(positions, NoPositions) \in Positions
  BY <1>1, PaperTypes DEF Read
<1>3. Read(stats, NoStatistics) \in Statistics
  BY <1>1, PaperTypes DEF Read
<1>4. Read(seenKeys, {}) \subseteq Key
  BY <1>1 DEF Read
<1> QED
  BY <1>2, <1>3, <1>4

LEMMA PositionFields ==
  ASSUME NEW p \in Position
  PROVE  /\ [p EXCEPT !.status = "open"] \in Position
         /\ [p EXCEPT !.status = "tp50"] \in Position
         /\ [p EXCEPT !.evaluated = TRUE] \in Position
         /\ \A n \in 0..MaxClosings : [p EXCEPT !.status = "closed", !.closing = n] \in Position
BY DEF Position

ExecRecord ==
  [at: {"idle", "read", "open", "fill", "openSeen", "fillSeen"},
   key: Key \union {None}, seen: SUBSET Key, copy: Positions]

\* What an executor's step has to establish.
LEMMA ExecutorFrame ==
  ASSUME PaperTypeOK, NEW e \in Executor, NEW r \in ExecRecord, exec' = [exec EXCEPT ![e] = r],
         r.at = "idle" <=> r.key = None,
         UNCHANGED <<stats, life, eval, closings, crashes>>,
         opened' \in [Key -> 0..MaxOpenings],
         positions' \in Positions \union {Torn}, seenKeys' \in (SUBSET Key) \union {Torn}
  PROVE  PaperTypeOK' /\ exec'[e] = r
<1>1. /\ exec \in [Executor -> ExecRecord]
      /\ \A d \in Executor : exec[d].at = "idle" <=> exec[d].key = None
  BY DEF PaperTypeOK, ExecRecord
<1>2. exec' \in [Executor -> ExecRecord] /\ exec'[e] = r
  BY <1>1
<1>3. \A d \in Executor : exec'[d].at = "idle" <=> exec'[d].key = None
  BY <1>1
<1> QED
  BY <1>2, <1>3 DEF PaperTypeOK, ExecRecord

LEMMA ReadSeenTyped ==
  ASSUME PaperTypeOK, NEW e \in Executor, NEW k \in Key, ReadSeen(e, k)
  PROVE  PaperTypeOK' /\ exec'[e].copy = NoPositions
<1> PICK s \in SUBSET Key : s = Read(seenKeys, {})
  BY ReadTypes
<1> PICK r : r = [ExecIdle EXCEPT !.at = "read", !.key = k, !.seen = s]
  OBVIOUS
<1>1. r \in ExecRecord /\ r.at = "read" /\ r.key = k /\ r.copy = NoPositions
  BY PaperTypes DEF ExecRecord, ExecIdle
<1>2. exec' = [exec EXCEPT ![e] = r]
  BY DEF ReadSeen
<1>3. r.at # "idle" /\ r.key # None
  BY <1>1, PaperAssumption
<1>4. UNCHANGED <<positions, seenKeys, stats, life, eval, opened, closings, crashes>>
  BY DEF ReadSeen, files, counters
<1>5. opened' \in [Key -> 0..MaxOpenings] /\ positions' \in Positions \union {Torn}
      /\ seenKeys' \in (SUBSET Key) \union {Torn}
  BY <1>4 DEF PaperTypeOK
<1> QED
  BY <1>1, <1>2, <1>3, <1>4, <1>5, ExecutorFrame

LEMMA ReadPositionsTyped ==
  ASSUME PaperTypeOK, NEW e \in Executor, ReadPositions(e)
  PROVE  /\ PaperTypeOK'
         /\ \E k \in Key :
              /\ opened' = [opened EXCEPT ![k] = opened[k] + 1]
              /\ opened[k] \in Nat /\ <<k, opened[k] + 1>> \in Opening
              /\ exec'[e].copy = [Read(positions, NoPositions) EXCEPT
                                    ![<<k, opened[k] + 1>>].status = "open"]
<1>1. exec \in [Executor -> ExecRecord] /\ opened \in [Key -> 0..MaxOpenings]
      /\ exec[e].at = "read" /\ exec[e].key # None
  BY DEF PaperTypeOK, ExecRecord, ReadPositions, Exec
<1> PICK k \in Key : k = exec[e].key
  BY <1>1 DEF ExecRecord
<1>2. opened[k] \in 0..MaxOpenings /\ opened[k] < MaxOpenings
      /\ opened' = [opened EXCEPT ![k] = opened[k] + 1]
  BY <1>1 DEF ReadPositions
<1>3. opened' \in [Key -> 0..MaxOpenings] /\ opened[k] + 1 \in 1..MaxOpenings
  BY <1>1, <1>2, PaperAssumption
<1> PICK new \in Opening : new = <<k, opened[k] + 1>>
  BY <1>3, PaperTypes
<1> PICK d \in Positions : d = Read(positions, NoPositions)
  BY ReadTypes
<1>4. d \in [Opening -> Position] /\ d[new] \in Position
  BY DEF Positions
<1> PICK p \in Position : p = [d[new] EXCEPT !.status = "open"]
  BY <1>4, PositionFields
<1> PICK c : c = [d EXCEPT ![new] = p]
  OBVIOUS
<1>5. c \in Positions /\ c = [d EXCEPT ![new].status = "open"]
  BY <1>4 DEF Positions
<1> PICK r : r = [exec[e] EXCEPT !.at = "open", !.copy = c]
  OBVIOUS
<1>6. exec' = [exec EXCEPT ![e] = r]
  BY <1>1, <1>5 DEF ReadPositions
<1>7. r \in ExecRecord /\ r.at # "idle" /\ r.key # None /\ r.copy = c
  <2> PICK x \in ExecRecord : x = exec[e] /\ x.key # None
    BY <1>1
  <2>1. r = [x EXCEPT !.at = "open", !.copy = c] /\ c \in Positions
    BY <1>5
  <2> QED
    BY <2>1 DEF ExecRecord
<1>9. UNCHANGED <<positions, seenKeys, stats, life, eval, closings, crashes>>
  BY DEF ReadPositions, files
<1>10. positions' \in Positions \union {Torn} /\ seenKeys' \in (SUBSET Key) \union {Torn}
  BY <1>9 DEF PaperTypeOK
<1>8. PaperTypeOK' /\ exec'[e] = r
  BY <1>3, <1>6, <1>7, <1>9, <1>10, ExecutorFrame
<1>11. exec'[e].copy = [Read(positions, NoPositions) EXCEPT ![<<k, opened[k] + 1>>].status = "open"]
  BY <1>5, <1>7, <1>8
<1>12. opened[k] \in Nat /\ <<k, opened[k] + 1>> \in Opening
  BY <1>2
<1> QED
  BY <1>2, <1>8, <1>11, <1>12

LEMMA WritesTyped ==
  ASSUME PaperTypeOK, NEW e \in Executor,
         OpenPositions(e) \/ FillPositions(e) \/ OpenSeen(e) \/ FillSeen(e)
  PROVE  /\ PaperTypeOK'
         /\ exec'[e].copy \in {exec[e].copy, NoPositions}
         /\ positions' \in {positions, Torn, exec[e].copy}
<1>1. /\ exec \in [Executor -> ExecRecord] /\ opened \in [Key -> 0..MaxOpenings]
      /\ positions \in Positions \union {Torn} /\ seenKeys \in (SUBSET Key) \union {Torn}
      /\ exec[e].at # "idle" /\ exec[e].key # None
  BY DEF PaperTypeOK, ExecRecord, OpenPositions, FillPositions, OpenSeen, FillSeen, Exec
<1> PICK k \in Key, s \in SUBSET Key, c \in Positions :
         exec[e].key = k /\ exec[e].seen = s /\ exec[e].copy = c
  BY <1>1 DEF ExecRecord
<1>2. ASSUME NEW next \in {"fill", "openSeen", "fillSeen"}, ExecGoto(e, next),
             UNCHANGED <<stats, life, eval, counters>>,
             positions' \in {positions, Torn, c}, seenKeys' \in (SUBSET Key) \union {Torn}
      PROVE  PaperTypeOK' /\ exec'[e].copy = c
  <2> PICK r : r = [exec[e] EXCEPT !.at = next]
    OBVIOUS
  <2>1. r \in ExecRecord /\ r.at # "idle" /\ r.key # None /\ r.copy = c
    BY <1>1, <1>2 DEF ExecRecord
  <2>3. exec' = [exec EXCEPT ![e] = r]
    BY <1>1, <1>2 DEF ExecGoto
  <2>2. positions' \in Positions \union {Torn}
    BY <1>1, <1>2
  <2> QED
    BY <1>1, <1>2, <2>1, <2>2, <2>3, ExecutorFrame DEF counters
<1>3. CASE OpenPositions(e)
  BY <1>1, <1>2, <1>3 DEF OpenPositions
<1>4. CASE FillPositions(e)
  BY <1>1, <1>2, <1>4 DEF FillPositions, Written
<1>5. CASE OpenSeen(e)
  BY <1>1, <1>2, <1>5 DEF OpenSeen
<1>6. CASE FillSeen(e)
  <2>1. seenKeys' \in {s \union {k}, Torn}
    BY <1>6 DEF FillSeen, Written
  <2>2. seenKeys' \in (SUBSET Key) \union {Torn}
    BY <2>1
  <2>3. ExecIdle \in ExecRecord /\ ExecIdle.at = "idle" /\ ExecIdle.key = None
        /\ ExecIdle.copy = NoPositions
    BY PaperTypes DEF ExecIdle, ExecRecord
  <2>4. exec' = [exec EXCEPT ![e] = ExecIdle] /\ UNCHANGED <<positions, stats, life, eval, counters>>
    BY <1>6 DEF FillSeen
  <2> QED
    BY <1>1, <2>2, <2>3, <2>4, ExecutorFrame DEF counters
<1> QED
  BY <1>3, <1>4, <1>5, <1>6

LEMMA LifecycleTyped ==
  ASSUME PaperTypeOK, LoadPositions \/ OpenUpdated \/ FillUpdated
  PROVE  /\ PaperTypeOK'
         /\ life'.copy \in {life.copy, NoPositions, Read(positions, NoPositions)}
         /\ positions' \in {positions, Torn, life.copy}
<1>1. /\ life.copy \in Positions /\ positions \in Positions \union {Torn}
      /\ Read(positions, NoPositions) \in Positions
  BY ReadTypes DEF PaperTypeOK
<1>2. ASSUME UNCHANGED <<seenKeys, stats, exec, eval, opened, closings, crashes>>,
             positions' \in {positions, Torn, life.copy},
             NEW at \in {"idle", "update", "fill"},
             NEW c \in {life.copy, NoPositions, Read(positions, NoPositions)},
             life' = [at |-> at, copy |-> c]
      PROVE  PaperTypeOK' /\ life'.copy = c
  <2>1. c \in Positions /\ positions' \in Positions \union {Torn}
    BY <1>1, <1>2, PaperTypes
  <2>2. life' \in [at: {"idle", "update", "fill"}, copy: Positions] /\ life'.copy = c
    BY <1>2, <2>1
  <2> QED
    BY <1>2, <2>1, <2>2 DEF PaperTypeOK
<1>3. CASE LoadPositions
  BY <1>2, <1>3 DEF LoadPositions, files, counters
<1>4. CASE OpenUpdated
  <2>1. life' = [at |-> "fill", copy |-> life.copy]
    BY <1>4 DEF OpenUpdated, PaperTypeOK
  <2> QED
    BY <1>2, <1>4, <2>1 DEF OpenUpdated, counters
<1>5. CASE FillUpdated
  BY <1>2, <1>5 DEF FillUpdated, Written, LifeIdle, counters
<1> QED
  BY <1>3, <1>4, <1>5

\* An update changes the entry of an opening that is not closed.
LEMMA UpdateTyped ==
  ASSUME PaperTypeOK, NEW o \in Opening, Update(o)
  PROVE  /\ PaperTypeOK'
         /\ \E p \in Position :
              /\ life'.copy = [life.copy EXCEPT ![o] = p]
              /\ life.copy[o].status \in {"open", "tp50"} /\ p.status # "absent"
              /\ p.evaluated = life.copy[o].evaluated
              /\ p.status = "closed" => p.closing # 0
         /\ UNCHANGED <<positions, stats, exec, eval, opened, crashes>>
<1> PICK c \in Positions : c = life.copy
  BY DEF PaperTypeOK
<1>1. c[o] \in Position /\ life \in [at: {"idle", "update", "fill"}, copy: Positions]
      /\ closings \in 0..MaxClosings
  BY DEF Positions, PaperTypeOK
<1> PICK tp, cl : /\ tp = [c[o] EXCEPT !.status = "tp50"]
                  /\ cl = [c[o] EXCEPT !.status = "closed", !.closing = closings + 1]
  OBVIOUS
<1>2. \/ closings' = closings /\ life' = [life EXCEPT !.copy = [c EXCEPT ![o] = tp]]
      \/ /\ closings < MaxClosings /\ closings' = closings + 1
         /\ life' = [life EXCEPT !.copy = [c EXCEPT ![o] = cl]]
  <2>1. CASE c[o].status = "open" /\ closings' = closings
             /\ life' = [life EXCEPT !.copy[o].status = "tp50"]
    BY <2>1
  <2>2. CASE /\ closings < MaxClosings /\ closings' = closings + 1
             /\ life' = [life EXCEPT !.copy[o] = [@ EXCEPT !.status = "closed",
                                                         !.closing = closings + 1]]
    BY <2>2
  <2> QED
    BY <2>1, <2>2 DEF Update
<1> PICK p : /\ p = tp \/ (p = cl /\ closings < MaxClosings)
             /\ life' = [life EXCEPT !.copy = [c EXCEPT ![o] = p]]
  BY <1>2
<1>3. /\ p \in Position /\ p.status # "absent" /\ p.evaluated = c[o].evaluated
      /\ p.status = "closed" => p.closing # 0
  <2>1. closings < MaxClosings => closings + 1 \in 0..MaxClosings
    BY <1>1, PaperAssumption
  <2>2. p \in Position
    BY <1>1, <2>1, PositionFields
  <2> QED
    <3>1. tp.status = "tp50" /\ tp.evaluated = c[o].evaluated
      BY <1>1 DEF Position
    <3>2. cl.status = "closed" /\ cl.evaluated = c[o].evaluated /\ cl.closing = closings + 1
      BY <1>1 DEF Position
    <3>3. closings + 1 # 0
      BY <1>1, PaperAssumption
    <3> QED
      BY <2>2, <3>1, <3>2, <3>3
<1>4. [c EXCEPT ![o] = p] \in Positions
  BY <1>3, PaperTypes
<1>5. life' \in [at: {"idle", "update", "fill"}, copy: Positions]
      /\ life'.copy = [c EXCEPT ![o] = p]
  BY <1>1, <1>4
<1>6. closings' \in 0..MaxClosings
  BY <1>1, <1>2, PaperAssumption
<1>7. UNCHANGED <<positions, seenKeys, stats, exec, eval, opened, crashes>>
      /\ c[o].status \in {"open", "tp50"}
  BY DEF Update, files
<1>8. PaperTypeOK'
  BY <1>5, <1>6, <1>7 DEF PaperTypeOK
<1> QED
  BY <1>3, <1>5, <1>7, <1>8

EvaluatedCopy ==
  [o \in Opening |-> IF o \in PendingOutcomes THEN [eval.copy[o] EXCEPT !.evaluated = TRUE]
                                              ELSE eval.copy[o]]

EvaluatedStats ==
  [marked |-> Marked, trades |-> eval.stats.trades + Cardinality(PendingOutcomes)]

LEMMA EvaluateTyped ==
  ASSUME PaperTypeOK, Sound(eval.copy), Evaluate
  PROVE  /\ PaperTypeOK'
         /\ eval'.at = "fill" /\ eval'.copy = EvaluatedCopy /\ eval'.stats = EvaluatedStats
         /\ positions' = Torn /\ UNCHANGED <<stats, exec, life, opened, crashes>>
<1>1. eval.copy \in Positions /\ eval.stats \in Statistics
  BY DEF PaperTypeOK
<1>2. EvaluatedCopy \in Positions
  <2>1. \A o \in Opening : /\ eval.copy[o] \in Position
                           /\ [eval.copy[o] EXCEPT !.evaluated = TRUE] \in Position
    BY <1>1, PositionFields DEF Positions
  <2> QED
    BY <2>1 DEF EvaluatedCopy, Positions
<1>3. Cardinality(PendingOutcomes) \in Nat
  <2>1. PendingOutcomes \subseteq Opened(eval.copy)
    BY DEF PendingOutcomes, ClosedIn, Opened
  <2> QED
    BY <2>1, FS_Subset, FS_CardinalityType DEF Sound
<1>4. Marked \subseteq Execution
  <2>1. \A o \in PendingOutcomes : ExecutionOf(o) \in Execution
    <3> TAKE o \in PendingOutcomes
    <3>1. o \in Opening /\ eval.copy[o].closing \in 0..MaxClosings /\ eval.copy[o].closing # 0
      BY <1>1, PaperTypes DEF PendingOutcomes, ClosedIn, Sound
    <3>2. eval.copy[o].closing \in 1..MaxClosings
      BY <3>1, PaperAssumption
    <3> QED
      BY <3>1, <3>2 DEF ExecutionOf, Execution
  <2> QED
    BY <1>1, <2>1 DEF Marked, Statistics
<1>5. EvaluatedStats \in Statistics
  BY <1>1, <1>3, <1>4 DEF EvaluatedStats, Statistics
<1>6. eval' = [at |-> "fill", copy |-> EvaluatedCopy, stats |-> EvaluatedStats]
      /\ positions' = Torn /\ UNCHANGED <<seenKeys, stats, exec, life, opened, closings, crashes>>
  BY DEF Evaluate, EvaluatedCopy, EvaluatedStats, counters
<1>7. PaperTypeOK'
  BY <1>2, <1>5, <1>6 DEF PaperTypeOK
<1> QED
  BY <1>6, <1>7

LEMMA EvaluatorTyped ==
  ASSUME PaperTypeOK, LoadClosed \/ LoadStatistics \/ FillEvaluated \/ OpenStatistics \/ FillStatistics
  PROVE  /\ PaperTypeOK'
         /\ eval'.copy \in {eval.copy, NoPositions, Read(positions, NoPositions)}
         /\ eval'.stats \in {eval.stats, NoStatistics, Read(stats, NoStatistics)}
         /\ positions' \in {positions, Torn, eval.copy}
         /\ stats' \in {stats, Torn, eval.stats}
<1> DEFINE EvalRecord == [at: {"idle", "read", "evaluate", "fill", "openStats", "fillStats"},
                          copy: Positions, stats: Statistics]
<1>1. /\ eval \in EvalRecord /\ eval.copy \in Positions /\ eval.stats \in Statistics
      /\ positions \in Positions \union {Torn} /\ stats \in Statistics \union {Torn}
      /\ Read(positions, NoPositions) \in Positions /\ Read(stats, NoStatistics) \in Statistics
  BY ReadTypes DEF PaperTypeOK
<1>2. ASSUME UNCHANGED <<seenKeys, exec, life, opened, closings, crashes>>,
             positions' \in {positions, Torn, eval.copy}, stats' \in {stats, Torn, eval.stats},
             eval' \in EvalRecord
      PROVE  PaperTypeOK'
  BY <1>1, <1>2 DEF PaperTypeOK
<1>3. CASE LoadClosed
  <2> PICK c \in Positions : c = Read(positions, NoPositions)
    BY <1>1
  <2>1. eval' = [EvalIdle EXCEPT !.at = "read", !.copy = c]
    BY <1>3 DEF LoadClosed
  <2>2. eval' \in EvalRecord /\ eval'.copy = c /\ eval'.stats = NoStatistics
    BY <2>1, PaperTypes DEF EvalIdle
  <2> QED
    BY <1>2, <1>3, <2>2 DEF LoadClosed, files, counters
<1>4. CASE LoadStatistics
  <2> PICK s \in Statistics : s = Read(stats, NoStatistics)
    BY <1>1
  <2>1. eval' = [eval EXCEPT !.at = "evaluate", !.stats = s]
    BY <1>4 DEF LoadStatistics
  <2>2. eval' \in EvalRecord /\ eval'.copy = eval.copy /\ eval'.stats = s
    BY <1>1, <2>1
  <2> QED
    BY <1>2, <1>4, <2>2 DEF LoadStatistics, files, counters
<1>5. CASE FillEvaluated
  <2>1. eval' \in EvalRecord /\ eval'.copy = eval.copy /\ eval'.stats = eval.stats
    BY <1>1, <1>5 DEF FillEvaluated
  <2> QED
    BY <1>2, <1>5, <2>1 DEF FillEvaluated, Written, counters
<1>6. CASE OpenStatistics
  <2>1. eval' \in EvalRecord /\ eval'.copy = eval.copy /\ eval'.stats = eval.stats
    BY <1>1, <1>6 DEF OpenStatistics
  <2> QED
    BY <1>2, <1>6, <2>1 DEF OpenStatistics, counters
<1>7. CASE FillStatistics
  <2>1. eval' \in EvalRecord /\ eval'.copy = NoPositions /\ eval'.stats = NoStatistics
    BY <1>7, PaperTypes DEF FillStatistics, EvalIdle
  <2> QED
    BY <1>2, <1>7, <2>1 DEF FillStatistics, Written, counters
<1> QED
  BY <1>3, <1>4, <1>5, <1>6, <1>7

LEMMA StopTyped ==
  ASSUME PaperTypeOK, Stop
  PROVE  /\ PaperTypeOK' /\ crashes' # 0 /\ UNCHANGED <<positions, stats, opened>>
         /\ \A e \in Executor : exec'[e].copy = NoPositions
         /\ life'.copy = NoPositions /\ eval'.copy = NoPositions /\ eval'.stats = NoStatistics
<1>1. /\ exec' = [e \in Executor |-> ExecIdle] /\ life' = LifeIdle /\ eval' = EvalIdle
      /\ UNCHANGED <<positions, seenKeys, stats, opened, closings>>
  BY DEF Stop, files
<1>2. crashes' \in 0..MaxCrashes /\ crashes' # 0
  BY PaperAssumption DEF Stop, PaperTypeOK
<1>3. /\ exec' \in [Executor -> ExecRecord]
      /\ \A e \in Executor : /\ exec'[e].at = "idle" /\ exec'[e].key = None
                             /\ exec'[e].copy = NoPositions
  BY <1>1, PaperTypes DEF ExecIdle, ExecRecord
<1>4. /\ life' \in [at: {"idle", "update", "fill"}, copy: Positions]
      /\ eval' \in [at: {"idle", "read", "evaluate", "fill", "openStats", "fillStats"},
                    copy: Positions, stats: Statistics]
      /\ life'.copy = NoPositions /\ eval'.copy = NoPositions /\ eval'.stats = NoStatistics
  BY <1>1, PaperTypes DEF LifeIdle, EvalIdle
<1>5. PaperTypeOK'
  BY <1>1, <1>2, <1>3, <1>4 DEF PaperTypeOK, ExecRecord
<1> QED
  BY <1>1, <1>2, <1>3, <1>4, <1>5

LEMMA NothingSound == Sound(NoPositions)
<1>1. Opened(NoPositions) = {}
  BY DEF Opened, NoPositions, Absent
<1>2. \A o \in Opening : ~NoPositions[o].evaluated /\ NoPositions[o].status = "absent"
  BY DEF NoPositions, Absent
<1> QED
  BY <1>1, <1>2, FS_EmptySet DEF Sound

\* Nothing that counted as evaluated ceases to while the process runs.
LEMMA MarksGrow ==
  ASSUME PaperInv, [PaperNext]_paperVars
  PROVE  /\ crashes' = 0 => crashes = 0 /\ Marks \subseteq Marks' /\ Unshared'
         /\ \A k \in Key : opened[k] <= opened'[k]
         /\ opened' \in [Key -> Nat]
<1>1. /\ crashes \in Nat /\ PaperTypeOK /\ opened \in [Key -> Nat]
      /\ eval.at \in {"idle", "read", "evaluate", "fill", "openStats", "fillStats"}
      /\ crashes = 0 => Unshared
  BY PaperAssumption DEF PaperInv, PaperTypeOK
<1>2. ASSUME UNCHANGED <<stats, eval, crashes>>
      PROVE  crashes' = 0 => crashes = 0 /\ Marks \subseteq Marks' /\ Unshared'
  BY <1>1, <1>2 DEF Marks, Unshared
<1>3. ASSUME UNCHANGED opened
      PROVE  opened' \in [Key -> Nat] /\ \A k \in Key : opened[k] <= opened'[k]
  BY <1>1, <1>3
<1>4. ASSUME NEW e \in Executor, ReadPositions(e) PROVE UNCHANGED <<stats, eval, crashes>>
      /\ opened' \in [Key -> Nat] /\ \A k \in Key : opened[k] <= opened'[k]
  <2> PICK k \in Key : opened' = [opened EXCEPT ![k] = opened[k] + 1]
    BY <1>1, <1>4, ReadPositionsTyped
  <2> QED
    BY <1>1, <1>4 DEF ReadPositions, files
<1>5. ASSUME NEW e \in Executor,
             \/ \E k \in Key : ReadSeen(e, k)
             \/ OpenPositions(e) \/ FillPositions(e) \/ OpenSeen(e) \/ FillSeen(e)
      PROVE  UNCHANGED <<stats, eval, crashes, opened>>
  BY <1>5 DEF ReadSeen, OpenPositions, FillPositions, OpenSeen, FillSeen, files, counters
<1>6. CASE \/ LoadPositions \/ OpenUpdated \/ FillUpdated \/ (\E o \in Opening : Update(o))
           \/ UNCHANGED paperVars
  <2>1. UNCHANGED <<stats, eval, crashes, opened>>
    BY <1>6 DEF LoadPositions, OpenUpdated, FillUpdated, Update, files, counters, paperVars
  <2> QED
    BY <1>2, <1>3, <2>1
<1>7. ASSUME LoadClosed \/ LoadStatistics \/ FillEvaluated \/ OpenStatistics \/ FillStatistics \/ Evaluate
      PROVE  UNCHANGED <<crashes, opened>>
  BY <1>7 DEF LoadClosed, LoadStatistics, FillEvaluated, OpenStatistics, FillStatistics, Evaluate,
     counters
<1>8. CASE LoadClosed
  <2>1. eval.at = "idle" /\ eval'.at = "read" /\ UNCHANGED stats
    BY <1>8 DEF LoadClosed, EvalIdle, files
  <2> QED
    BY <1>1, <1>3, <1>7, <1>8, <2>1 DEF Marks, Unshared
<1>9. CASE LoadStatistics
  <2>1. /\ eval.at = "read" /\ eval'.at = "evaluate" /\ UNCHANGED stats
        /\ eval'.stats = Read(stats, NoStatistics)
    BY <1>1, <1>9 DEF LoadStatistics, PaperTypeOK, files
  <2> QED
    BY <1>1, <1>3, <1>7, <1>9, <2>1 DEF Marks, Unshared, Read
<1>10. CASE Evaluate
  <2>1. /\ eval.at = "evaluate" /\ eval'.at = "fill" /\ UNCHANGED stats
        /\ eval'.stats.marked = Marked
    BY <1>10 DEF Evaluate
  <2>2. eval.stats.marked \subseteq Marked
    BY DEF Marked
  <2> QED
    BY <1>1, <1>3, <1>7, <1>10, <2>1, <2>2 DEF Marks, Unshared
<1>11. CASE FillEvaluated \/ OpenStatistics
  <2>1. /\ eval'.stats = eval.stats
        /\ \/ eval.at = "fill" /\ eval'.at = "openStats" /\ UNCHANGED stats
           \/ eval.at = "openStats" /\ eval'.at = "fillStats" /\ stats' = Torn
    BY <1>1, <1>11 DEF FillEvaluated, OpenStatistics, PaperTypeOK
  <2> QED
    BY <1>1, <1>3, <1>7, <1>11, <2>1 DEF Marks, Unshared
<1>12. CASE FillStatistics
  <2>1. eval.at = "fillStats" /\ eval'.at = "idle" /\ stats' \in Written(stats, eval.stats)
    BY <1>12 DEF FillStatistics, EvalIdle
  <2>2. eval.stats # Torn
    BY <1>1, PaperAssumption DEF PaperTypeOK
  <2>3. crashes = 0 => stats' = eval.stats /\ stats' # Torn
    BY <1>1, <2>1, <2>2 DEF Written, Unshared
  <2> QED
    BY <1>3, <1>7, <1>12, <2>1, <2>3 DEF Marks, Unshared
<1>13. CASE Stop
  BY <1>1, <1>3, <1>13, StopTyped
<1> QED
  BY <1>2, <1>3, <1>4, <1>5, <1>6, <1>8, <1>9, <1>10, <1>11, <1>12, <1>13 DEF PaperNext

LEMMA SoundKept ==
  ASSUME PaperInv, [PaperNext]_paperVars, NEW c \in Positions, Sound(c)
  PROVE  Sound(c)'
<1>1. \A o \in Opened(c) : o[1] \in Key /\ o[2] \in Nat /\ o[2] <= opened[o[1]]
  BY PaperTypes, PaperAssumption DEF Opened, Sound
<1>2. opened \in [Key -> Nat]
  BY PaperAssumption DEF PaperInv, PaperTypeOK
<1>3. \A o \in Opened(c) : o[2] <= opened'[o[1]]
  BY <1>1, <1>2, MarksGrow
<1>4. crashes' = 0 => \A o \in Opening : c[o].evaluated => <<o, c[o].closing>> \in Marks'
  BY MarksGrow DEF Sound
<1> QED
  BY <1>3, <1>4 DEF Sound, Opened

\* The copies of a step are sound when each of them is among sound ones.
LEMMA CopiesSound ==
  ASSUME NEW G, \A c \in G : Sound(c)', positions' \in G \union {Torn},
         \A e \in Executor : exec'[e].copy \in G, life'.copy \in G, eval'.copy \in G
  PROVE  /\ positions' # Torn => Sound(positions)'
         /\ \A e \in Executor : Sound(exec[e].copy)'
         /\ Sound(life.copy)' /\ Sound(eval.copy)'
<1>1. ASSUME NEW e \in Executor PROVE Sound(exec[e].copy)'
  <2> PICK c \in G : c = exec'[e].copy
    OBVIOUS
  <2>1. Sound(c)'
    OBVIOUS
  <2> QED
    BY <2>1 DEF Sound, Opened
<1>2. Sound(life.copy)'
  <2> PICK c \in G : c = life'.copy
    OBVIOUS
  <2>1. Sound(c)'
    OBVIOUS
  <2> QED
    BY <2>1 DEF Sound, Opened
<1>3. Sound(eval.copy)'
  <2> PICK c \in G : c = eval'.copy
    OBVIOUS
  <2>1. Sound(c)'
    OBVIOUS
  <2> QED
    BY <2>1 DEF Sound, Opened
<1>4. ASSUME positions' # Torn PROVE Sound(positions)'
  <2> PICK c \in G : c = positions'
    BY <1>4
  <2>1. Sound(c)'
    OBVIOUS
  <2> QED
    BY <2>1 DEF Sound, Opened
<1> QED
  BY <1>1, <1>2, <1>3, <1>4

LEMMA EvaluatedSound ==
  ASSUME PaperInv, Evaluate, NEW c \in Positions, c = EvaluatedCopy
  PROVE  Sound(c)'
<1>1. /\ Sound(eval.copy) /\ eval.copy \in Positions /\ eval'.stats.marked = Marked
      /\ eval'.at = "fill" /\ eval.at = "evaluate" /\ UNCHANGED <<stats, opened, crashes>>
  BY DEF PaperInv, PaperTypeOK, Evaluate, counters
<1>2. \A o \in Opening :
        /\ c[o].status = eval.copy[o].status /\ c[o].closing = eval.copy[o].closing
        /\ c[o].evaluated => eval.copy[o].evaluated \/ o \in PendingOutcomes
  <2> TAKE o \in Opening
  <2>1. eval.copy[o] \in Position
    BY <1>1, PaperTypes
  <2>2. c[o] = IF o \in PendingOutcomes THEN [eval.copy[o] EXCEPT !.evaluated = TRUE]
                                        ELSE eval.copy[o]
    BY DEF EvaluatedCopy
  <2> QED
    BY <2>1, <2>2 DEF Position
<1>3. Opened(c) = Opened(eval.copy)
  BY <1>2 DEF Opened
<1>4. \A o \in PendingOutcomes : o \in Opening /\ eval.copy[o].status = "closed"
  BY DEF PendingOutcomes, ClosedIn
<1>5. \A o \in Opening : /\ c[o].evaluated => c[o].status = "closed"
                         /\ c[o].status = "closed" => c[o].closing # 0
  BY <1>1, <1>2, <1>4 DEF Sound
<1>6. crashes = 0 => \A o \in Opening : c[o].evaluated => <<o, c[o].closing>> \in Marked
  <2> SUFFICES ASSUME crashes = 0, NEW o \in Opening, c[o].evaluated
               PROVE  <<o, c[o].closing>> \in Marked
    OBVIOUS
  <2>1. CASE eval.copy[o].evaluated
    BY <1>1, <1>2, <2>1 DEF PaperInv, Sound, Marks, Unshared, Marked
  <2>2. CASE o \in PendingOutcomes
    BY <1>2, <2>2 DEF Marked, ExecutionOf
  <2> QED
    BY <1>2, <2>1, <2>2
<1>7. Marks' = Marked
  BY <1>1 DEF Marks
<1>8. Opened(c)' = Opened(c)
  BY DEF Opened
<1>9. IsFiniteSet(Opened(c)) /\ \A o \in Opened(c) : o[2] <= opened[o[1]]
  BY <1>1, <1>3 DEF Sound
<1>10. Sound(c)'
  BY <1>1, <1>5, <1>6, <1>7, <1>8, <1>9 DEF Sound
<1> QED
  BY <1>10

LEMMA OpenedSound ==
  ASSUME PaperInv, [PaperNext]_paperVars, NEW c \in Positions, Sound(c), NEW k \in Key,
         opened' = [opened EXCEPT ![k] = opened[k] + 1], opened[k] \in Nat,
         <<k, opened[k] + 1>> \in Opening,
         NEW d \in Positions, d = [c EXCEPT ![<<k, opened[k] + 1>>].status = "open"]
  PROVE  Sound(d)'
<1> PICK new \in Opening : new = <<k, opened[k] + 1>>
  OBVIOUS
<1>1. opened \in [Key -> Nat]
  BY PaperAssumption DEF PaperInv, PaperTypeOK
<1>2. c[new].status = "absent"
  <2>1. new \notin Opened(c)
    BY <1>1 DEF Sound
  <2> QED
    BY <2>1 DEF Opened
<1>3. c[new] \in Position /\ c \in [Opening -> Position]
  BY PaperTypes DEF Positions
<1>4. ~c[new].evaluated
  BY <1>2, <1>3 DEF Sound, Position
<1>5. /\ d[new].status = "open" /\ ~d[new].evaluated
      /\ \A o \in Opening : o # new => d[o] = c[o]
  BY <1>3, <1>4 DEF Position
<1>6. Opened(d) \subseteq Opened(c) \union {new} /\ Opened(d)' = Opened(d)
  BY <1>5 DEF Opened
<1>7. IsFiniteSet(Opened(d))
  <2>1. IsFiniteSet(Opened(c) \union {new})
    BY FS_AddElement DEF Sound
  <2> QED
    BY <1>6, <2>1, FS_Subset
<1>8. Sound(c)'
  BY SoundKept
<1>9. \A o \in Opened(d) : o[2] <= opened'[o[1]]
  <2> TAKE o \in Opened(d)
  <2>1. CASE o = new
    BY <1>1, <2>1
  <2>2. CASE o # new
    BY <1>6, <1>8, <2>2 DEF Sound, Opened
  <2> QED
    BY <2>1, <2>2
<1>10. \A o \in Opening : /\ d[o].evaluated => d[o].status = "closed"
                          /\ d[o].status = "closed" => d[o].closing # 0
  BY <1>5 DEF Sound
<1>11. crashes' = 0 => \A o \in Opening : d[o].evaluated => <<o, d[o].closing>> \in Marks'
  BY <1>5, <1>8 DEF Sound
<1> QED
  BY <1>6, <1>7, <1>9, <1>10, <1>11 DEF Sound

LEMMA UpdatedSound ==
  ASSUME PaperInv, [PaperNext]_paperVars, NEW c \in Positions, Sound(c), NEW o \in Opening,
         NEW p \in Position, NEW d \in Positions, d = [c EXCEPT ![o] = p],
         c[o].status \in {"open", "tp50"}, p.status # "absent", p.evaluated = c[o].evaluated,
         p.status = "closed" => p.closing # 0
  PROVE  Sound(d)'
<1>1. d[o] = p /\ \A q \in Opening : q # o => d[q] = c[q]
  BY DEF Positions
<1>2. ~d[o].evaluated
  <2>1. c[o].evaluated \in BOOLEAN /\ ~c[o].evaluated
    BY PaperTypes DEF Sound
  <2> QED
    BY <1>1, <2>1
<1>3. Opened(d) = Opened(c)
  BY <1>1 DEF Opened
<1>4. Sound(c)'
  BY SoundKept
<1>5. Opened(d)' = Opened(d) /\ Opened(c)' = Opened(c)
  BY DEF Opened
<1>6. \A q \in Opening : /\ d[q].evaluated => d[q].status = "closed"
                         /\ d[q].status = "closed" => d[q].closing # 0
  BY <1>1, <1>2 DEF Sound
<1>7. crashes' = 0 => \A q \in Opening : d[q].evaluated => <<q, d[q].closing>> \in Marks'
  BY <1>1, <1>2, <1>4 DEF Sound
<1> QED
  BY <1>3, <1>4, <1>5, <1>6, <1>7 DEF Sound

LEMMA PaperInductive ==
  ASSUME PaperInv, [PaperNext]_paperVars
  PROVE  PaperInv'
<1> PICK G : G = {c \in Positions : Sound(c)'}
  OBVIOUS
<1>1. PaperTypeOK /\ Counted(eval.stats) /\ (stats # Torn => Counted(stats))
      /\ exec \in [Executor -> ExecRecord]
  BY DEF PaperInv, PaperTypeOK, ExecRecord
<1>2. \A c \in Positions : Sound(c) => c \in G
  BY SoundKept
<1>3. NoPositions \in G /\ NoStatistics \in Statistics /\ Counted(NoStatistics)
  BY <1>2, PaperTypes, NothingSound, FS_EmptySet DEF Counted, NoStatistics
<1>4. /\ positions # Torn => positions \in G
      /\ \A e \in Executor : exec[e].copy \in G
      /\ life.copy \in G /\ eval.copy \in G
  BY <1>1, <1>2 DEF PaperInv, PaperTypeOK, ExecRecord
<1>5. Read(positions, NoPositions) \in G
  BY <1>3, <1>4 DEF Read
<1>6. Counted(Read(stats, NoStatistics))
  BY <1>1, <1>3 DEF Read
<1>7. ASSUME PaperTypeOK', positions' \in G \union {Torn},
             \A e \in Executor : exec'[e].copy \in G, life'.copy \in G, eval'.copy \in G,
             stats' # Torn => Counted(stats'), Counted(eval'.stats)
      PROVE  PaperInv'
  <2>1. /\ positions' # Torn => Sound(positions)'
        /\ \A e \in Executor : Sound(exec[e].copy)'
        /\ Sound(life.copy)' /\ Sound(eval.copy)'
    BY <1>7, CopiesSound
  <2>2. crashes' = 0 => Unshared'
    BY MarksGrow
  <2> QED
    BY <1>7, <2>1, <2>2 DEF PaperInv, Counted
<1>8. ASSUME NEW e \in Executor, \/ \E k \in Key : ReadSeen(e, k)
                                 \/ ReadPositions(e) \/ OpenPositions(e) \/ FillPositions(e)
                                 \/ OpenSeen(e) \/ FillSeen(e)
      PROVE  /\ UNCHANGED <<stats, life, eval>>
             /\ \A d \in Executor : d # e => exec'[d] = exec[d]
  BY <1>1, <1>8 DEF ReadSeen, ReadPositions, OpenPositions, FillPositions, OpenSeen, FillSeen,
     ExecGoto, files, counters
<1>9. ASSUME NEW e \in Executor, NEW k \in Key, ReadSeen(e, k) PROVE PaperInv'
  <2>1. positions' = positions
    BY <1>9 DEF ReadSeen, files
  <2> QED
    BY <1>1, <1>3, <1>4, <1>7, <1>8, <1>9, <2>1, ReadSeenTyped
<1>10. ASSUME NEW e \in Executor, ReadPositions(e) PROVE PaperInv'
  <2> PICK k \in Key :
         /\ opened' = [opened EXCEPT ![k] = opened[k] + 1]
         /\ opened[k] \in Nat /\ <<k, opened[k] + 1>> \in Opening
         /\ exec'[e].copy = [Read(positions, NoPositions) EXCEPT
                               ![<<k, opened[k] + 1>>].status = "open"]
    BY <1>1, <1>10, ReadPositionsTyped
  <2>1. PaperTypeOK' /\ positions' = positions
    BY <1>1, <1>10, ReadPositionsTyped DEF ReadPositions, files
  <2> PICK c \in Positions : c = Read(positions, NoPositions)
    BY <1>1, ReadTypes
  <2> PICK d \in Positions : d = exec'[e].copy
    BY <2>1 DEF PaperTypeOK
  <2>2. Sound(c)
    BY <1>1, NothingSound DEF Read, PaperInv
  <2>3. Sound(d)'
    BY <2>2, OpenedSound
  <2>4. d \in G
    BY <2>3
  <2> QED
    BY <1>1, <1>4, <1>7, <1>8, <1>10, <2>1, <2>4
<1>11. ASSUME NEW e \in Executor,
              OpenPositions(e) \/ FillPositions(e) \/ OpenSeen(e) \/ FillSeen(e)
       PROVE  PaperInv'
  BY <1>1, <1>3, <1>4, <1>7, <1>8, <1>11, WritesTyped
<1>12. CASE LoadPositions \/ OpenUpdated \/ FillUpdated
  <2>1. UNCHANGED <<stats, exec, eval>>
    BY <1>12 DEF LoadPositions, OpenUpdated, FillUpdated, files
  <2> QED
    BY <1>1, <1>3, <1>4, <1>5, <1>7, <1>12, <2>1, LifecycleTyped
<1>13. ASSUME NEW o \in Opening, Update(o) PROVE PaperInv'
  <2> PICK p \in Position :
         /\ life'.copy = [life.copy EXCEPT ![o] = p]
         /\ life.copy[o].status \in {"open", "tp50"} /\ p.status # "absent"
         /\ p.evaluated = life.copy[o].evaluated
         /\ p.status = "closed" => p.closing # 0
    BY <1>1, <1>13, UpdateTyped
  <2>1. PaperTypeOK' /\ UNCHANGED <<positions, stats, exec, eval, opened, crashes>>
    BY <1>1, <1>13, UpdateTyped
  <2> PICK d \in Positions : d = life'.copy
    BY <2>1 DEF PaperTypeOK
  <2> PICK c \in Positions : c = life.copy
    BY <1>1 DEF PaperTypeOK
  <2>2. Sound(c)
    BY DEF PaperInv
  <2>3. Sound(d)'
    BY <2>2, UpdatedSound
  <2>4. d \in G
    BY <2>3
  <2> QED
    BY <1>1, <1>4, <1>7, <2>1, <2>4
<1>14. CASE Evaluate
  <2>1. /\ PaperTypeOK' /\ positions' = Torn /\ UNCHANGED <<stats, exec, life, opened, crashes>>
        /\ eval'.copy = EvaluatedCopy /\ eval'.stats = EvaluatedStats
    BY <1>1, <1>14, EvaluateTyped DEF PaperInv
  <2> PICK d \in Positions : d = eval'.copy
    BY <2>1 DEF PaperTypeOK
  <2>2. d \in G
    BY <1>14, <2>1, EvaluatedSound
  <2>3. Counted(EvaluatedStats)
    BY <1>1, Counting DEF PaperInv, PaperTypeOK, EvaluatedStats
  <2> QED
    BY <1>1, <1>4, <1>7, <2>1, <2>2, <2>3
<1>15. CASE LoadClosed \/ LoadStatistics \/ FillEvaluated \/ OpenStatistics \/ FillStatistics
  <2>1. UNCHANGED <<exec, life>>
    BY <1>15 DEF LoadClosed, LoadStatistics, FillEvaluated, OpenStatistics, FillStatistics
  <2> QED
    BY <1>1, <1>3, <1>4, <1>5, <1>6, <1>7, <1>15, <2>1, EvaluatorTyped
<1>16. CASE Stop
  BY <1>1, <1>3, <1>4, <1>7, <1>16, StopTyped
<1>17. CASE UNCHANGED paperVars
  <2>1. UNCHANGED <<positions, seenKeys, stats, exec, life, eval, opened, closings, crashes>>
    BY <1>17 DEF paperVars, files, counters
  <2>2. PaperTypeOK'
    BY <1>1, <2>1 DEF PaperTypeOK
  <2> QED
    BY <1>1, <1>4, <1>7, <2>1, <2>2
<1> QED
  BY <1>9, <1>10, <1>11, <1>12, <1>13, <1>14, <1>15, <1>16, <1>17 DEF PaperNext

LEMMA PaperInitial == PaperInit => PaperInv
<1> SUFFICES ASSUME PaperInit PROVE PaperInv
  OBVIOUS
<1>1. PaperTypeOK
  BY PaperAssumption, PaperTypes DEF PaperInit, PaperTypeOK, ExecIdle, LifeIdle, EvalIdle
<1>2. Counted(NoStatistics) /\ NoStatistics # Torn
  BY PaperTypes, PaperAssumption, FS_EmptySet DEF Counted, NoStatistics
<1>3. Unshared
  BY <1>2 DEF PaperInit, Unshared, EvalIdle
<1> QED
  BY <1>1, <1>2, <1>3, NothingSound DEF PaperInit, PaperInv, ExecIdle, LifeIdle, EvalIdle

\* The files, copies and counters stay within their types, whatever is torn.
THEOREM PaperTyping == PaperSpec => []PaperTypeOK
<1>1. PaperInv => PaperTypeOK
  BY DEF PaperInv
<1> QED
  BY <1>1, PaperInitial, PaperInductive, PTL DEF PaperSpec

\* outcome_evaluator.py: a stale write of the positions takes back the mark of a
\* closed execution, and still the statistics count it once.
THEOREM PaperCountsOnce == PaperSpec => []CountedOnce
<1>1. PaperInv => CountedOnce
  BY DEF PaperInv, CountedOnce, Counted
<1> QED
  BY <1>1, PaperInitial, PaperInductive, PTL DEF PaperSpec

\* Without a stop of the process what is marked as evaluated is in the statistics.
THEOREM PaperCountsMarked == PaperSpec => []EvaluatedIsCounted
<1>1. PaperInv => EvaluatedIsCounted
  BY DEF PaperInv, EvaluatedIsCounted, Sound, Marks
<1> QED
  BY <1>1, PaperInitial, PaperInductive, PTL DEF PaperSpec
=============================================================================
