----------------------------- MODULE RegistryV2Wal -----------------------------
(***************************************************************************)
(* The write-ahead log of Registry V2 (registry_v2_wal.py): a JSON-lines   *)
(* journal of PREPARED and COMMITTED events and a snapshot file that is    *)
(* replaced atomically.  apply_temp_wal_mutation appends PREPARED, replaces *)
(* the snapshot and appends COMMITTED; recover_temp_wal finishes what a    *)
(* crash interrupted.                                                      *)
(*                                                                         *)
(* The callers (registry_v2_core.py, registry_v2_paper_runtime_adapter.py, *)
(* the closure projection ledger) hold one interprocess lock around a whole *)
(* call, so that a call interleaves with crashes and not with other calls. *)
(* Two things go wrong: a process stops (it is killed, or a write raises)  *)
(* and leaves what it wrote in the files; or the machine loses power, and  *)
(* what was not synced may be gone.                                        *)
(***************************************************************************)
EXTENDS Naturals, Sequences

CONSTANTS
  Proc,      \* processes that use one storage
  Key,       \* operation, execution_id and idempotency_key of a request
  Payload,   \* mutation payloads
  MaxGen,    \* bound on the expected_generation of a request
  Failures,  \* combinations of FailureKinds: what may go wrong together
  Nil        \* an absent file or value

FailureKinds == {"stop", "power", "directory"}

\* What compute_request_digest covers.
Request == [key: Key, payload: Payload, gen: 0..MaxGen]

\* A snapshot, with the requests it is the result of and the event that
\* materialized it.  Its digest is the snapshot itself.
Snapshot == [generation: Nat, applied: Seq(Request), seq: Nat,
             request: Request \union {Nil}]
EmptySnapshot == [generation |-> 0, applied |-> <<>>, seq |-> 0, request |-> Nil]

ASSUME WalAssumption ==
  /\ MaxGen \in Nat
  /\ Failures \subseteq SUBSET FailureKinds
  /\ Nil \notin Request
  /\ Nil \notin Snapshot

\* A journal line.  event_id is a function of seq, target_generation is
\* request.gen + 1; timestamps and the chain pointer are left out.
Event == [state: {"PREPARED", "COMMITTED"}, seq: Nat \ {0}, request: Request,
          before: Snapshot, after: Snapshot \union {Nil}]

\* What follows the last newline of the journal: nothing, a piece of a line, or
\* a whole line without its newline.
TailKinds == {"none", "torn", "unterminated"}

Label == {"idle", "prepare", "syncPrepared", "replace", "syncDirectory",
          "commit", "syncCommitted", "recover"}

VARIABLES
  journal,   \* the complete lines of the journal file
  synced,    \* how many of them are known to be on disk
  tail,      \* what follows them
  snapshot,  \* the snapshot file
  stable,    \* the snapshot that a power loss cannot take away
  pc,        \* where each process stands; all but "idle" hold the lock
  event,     \* the event a process is working on
  answered,  \* requests some caller was told are committed
  failing    \* what may go wrong in this behaviour: never changes

files == <<journal, synced, tail, snapshot, stable>>
vars == <<files, pc, event, answered, failing>>

TypeOK ==
  /\ journal \in Seq(Event)
  /\ synced \in 0..Len(journal)
  /\ tail \in TailKinds
  /\ snapshot \in Snapshot \union {Nil}
  /\ stable \in Snapshot \union {Nil}
  /\ pc \in [Proc -> Label]
  /\ event \in [Proc -> Event \union {Nil}]
  /\ answered \subseteq Request
  /\ failing \in Failures

\* write_initial_snapshot has run, or the storage directory is still empty.
Init ==
  /\ journal = <<>>
  /\ synced = 0
  /\ tail = "none"
  /\ snapshot \in {EmptySnapshot, Nil}
  /\ stable = snapshot
  /\ pc = [p \in Proc |-> "idle"]
  /\ event = [p \in Proc |-> Nil]
  /\ answered = {}
  /\ failing \in Failures

-----------------------------------------------------------------------------
\* Reading the journal and the snapshot.

Lines == {journal[n] : n \in DOMAIN journal}
CommittedEvents == {e \in Lines : e.state = "COMMITTED"}
PendingEvents == {e \in Lines : \A c \in CommittedEvents : c.seq # e.seq}

\* _base_matches_pending
BaseMatches(e) ==
  /\ snapshot.generation = e.request.gen
  /\ snapshot = e.before

\* _witness_status(...) = "valid"
Witness(e) ==
  /\ snapshot.seq = e.seq
  /\ snapshot.request = e.request
  /\ snapshot.generation = e.request.gen + 1
  /\ e.state = "COMMITTED" => e.after = snapshot

\* The outcomes of inspect_wal_recovery_state.  A journal without a snapshot is
\* SNAPSHOT_INVALID, a tail is JOURNAL_CORRUPT.
SnapshotInvalid == snapshot = Nil /\ journal # <<>>

Divergent ==
  /\ snapshot # Nil
  /\ \/ /\ PendingEvents = {}
        /\ \E e \in CommittedEvents :
             /\ \A c \in CommittedEvents : c.seq <= e.seq
             /\ ~ Witness(e)
     \/ /\ snapshot.seq # 0
        /\ \E e \in PendingEvents : ~ BaseMatches(e) /\ ~ Witness(e)

Clean ==
  /\ tail = "none"
  /\ PendingEvents = {}
  /\ ~ SnapshotInvalid
  /\ ~ Divergent

\* PREPARED_PENDING: the snapshot is still the one the event starts from.
PreparedPending(e) ==
  /\ tail = "none"
  /\ snapshot # Nil
  /\ e \in PendingEvents
  /\ BaseMatches(e)

\* SNAPSHOT_COMMITTED_PENDING_EVENT_COMMIT: only the last line is missing.
WitnessPending(e) ==
  /\ tail = "none"
  /\ snapshot # Nil
  /\ e \in PendingEvents
  /\ ~ BaseMatches(e)
  /\ Witness(e)

\* _load_snapshot_or_empty: where the next mutation starts.
Base == IF snapshot = Nil THEN EmptySnapshot ELSE snapshot

NextSeq == 1 + (IF journal = <<>> THEN 0 ELSE journal[Len(journal)].seq)

\* _materialize_snapshot of what the mutation function makes of the base.
Materialize(e) ==
  [generation |-> e.request.gen + 1, applied |-> Append(e.before.applied, e.request),
   seq |-> e.seq, request |-> e.request]

Prepared(r) == [state |-> "PREPARED", seq |-> NextSeq, request |-> r,
                before |-> Base, after |-> Nil]
Committed(e) == [e EXCEPT !.state = "COMMITTED", !.after = snapshot]

-----------------------------------------------------------------------------
\* apply_temp_wal_mutation.

\* The runtime lock: whoever is inside a call holds it.
LockFree == \A p \in Proc : pc[p] = "idle"

Goto(p, label) == pc' = [pc EXCEPT ![p] = label] /\ UNCHANGED failing

\* find_committed_operation: the same request was committed before.
Replay(r) ==
  /\ LockFree
  /\ tail = "none"
  /\ \E e \in CommittedEvents : e.request = r
  /\ \A e \in CommittedEvents : e.request.key = r.key => e.request = r
  /\ answered' = answered \union {r}
  /\ UNCHANGED <<files, pc, event, failing>>

\* Slip: the call runs with the no-op TempWalLock.
BeginApplyUnlocked(p, r) ==
  /\ pc[p] = "idle"
  /\ \A e \in Lines : e.request.key # r.key
  /\ Clean
  /\ Base.generation = r.gen
  /\ Goto(p, "prepare")
  /\ event' = [event EXCEPT ![p] = Prepared(r)]
  /\ UNCHANGED <<files, answered>>

\* Slip: a pending event does not stop the next mutation.
BeginApplyOverPending(p, r) ==
  /\ LockFree
  /\ tail = "none"
  /\ \A e \in Lines : e.request.key # r.key
  /\ Base.generation = r.gen
  /\ Goto(p, "prepare")
  /\ event' = [event EXCEPT ![p] = Prepared(r)]
  /\ UNCHANGED <<files, answered>>

\* Slip: the snapshot is replaced before the event is prepared in the journal.
BeginApplySnapshotFirst(p, r) ==
  /\ LockFree
  /\ \A e \in Lines : e.request.key # r.key
  /\ Clean
  /\ Base.generation = r.gen
  /\ Goto(p, "replace")
  /\ event' = [event EXCEPT ![p] = Prepared(r)]
  /\ UNCHANGED <<files, answered>>

\* The key is new, nothing is pending and the generation is the expected one.
BeginApply(p, r) ==
  /\ LockFree
  /\ \A e \in Lines : e.request.key # r.key
  /\ Clean
  /\ Base.generation = r.gen
  /\ Goto(p, "prepare")
  /\ event' = [event EXCEPT ![p] = Prepared(r)]
  /\ UNCHANGED <<files, answered>>

AppendPrepared(p) ==
  /\ pc[p] = "prepare"
  /\ journal' = Append(journal, event[p])
  /\ Goto(p, "syncPrepared")
  /\ UNCHANGED <<synced, tail, snapshot, stable, event, answered>>

SyncPrepared(p) ==
  /\ pc[p] = "syncPrepared"
  /\ synced' = Len(journal)
  /\ Goto(p, "replace")
  /\ UNCHANGED <<journal, tail, snapshot, stable, event, answered>>

\* Slip: the directory is not synced after the rename.
ReplaceSnapshotUnsynced(p) ==
  /\ pc[p] = "replace"
  /\ snapshot' = Materialize(event[p])
  /\ Goto(p, "commit")
  /\ UNCHANGED <<journal, synced, tail, stable, event, answered>>

\* _atomic_write_snapshot: a synced temporary file takes the place of the
\* snapshot, then the directory is synced.
ReplaceSnapshot(p) ==
  /\ pc[p] = "replace"
  /\ snapshot' = Materialize(event[p])
  /\ Goto(p, "syncDirectory")
  /\ UNCHANGED <<journal, synced, tail, stable, event, answered>>

\* _fsync_directory swallows the error when the directory cannot be synced.
SyncDirectory(p) ==
  /\ pc[p] = "syncDirectory"
  /\ stable' \in IF "directory" \in failing THEN {snapshot, stable} ELSE {snapshot}
  /\ Goto(p, "commit")
  /\ UNCHANGED <<journal, synced, tail, snapshot, event, answered>>

AppendCommitted(p) ==
  /\ pc[p] = "commit"
  /\ journal' = Append(journal, Committed(event[p]))
  /\ Goto(p, "syncCommitted")
  /\ UNCHANGED <<synced, tail, snapshot, stable, event, answered>>

SyncCommitted(p) ==
  /\ pc[p] = "syncCommitted"
  /\ synced' = Len(journal)
  /\ answered' = answered \union {event[p].request}
  /\ Goto(p, "idle")
  /\ event' = [event EXCEPT ![p] = Nil]
  /\ UNCHANGED <<journal, tail, snapshot, stable>>

-----------------------------------------------------------------------------
\* recover_temp_wal.

BeginRecover(p) ==
  /\ LockFree
  /\ ~ Clean
  /\ Goto(p, "recover")
  /\ UNCHANGED <<files, event, answered>>

\* repair_truncated_journal_tail_for_recovery
RepairTail(p) ==
  /\ pc[p] = "recover"
  /\ tail = "torn"
  /\ journal # <<>>
  /\ ~ SnapshotInvalid
  /\ ~ Divergent
  /\ tail' = "none"
  /\ synced' = Len(journal)
  /\ UNCHANGED <<journal, snapshot, stable, pc, event, answered, failing>>

\* Slip: the generation and the before-digest are not compared.
RedoUnchecked(p) ==
  /\ pc[p] = "recover"
  /\ tail = "none"
  /\ snapshot # Nil
  /\ \E e \in PendingEvents : event' = [event EXCEPT ![p] = [e EXCEPT !.before = snapshot]]
  /\ Goto(p, "replace")
  /\ UNCHANGED <<files, answered>>

\* The mutation is applied again to the snapshot the event starts from.
Redo(p) ==
  /\ pc[p] = "recover"
  /\ \E e \in PendingEvents :
       /\ PreparedPending(e)
       /\ event' = [event EXCEPT ![p] = e]
  /\ Goto(p, "replace")
  /\ UNCHANGED <<files, answered>>

\* Slip: the witness is taken for the commit.
FinalizeSilently(p) ==
  /\ pc[p] = "recover"
  /\ \E e \in PendingEvents : WitnessPending(e)
  /\ Goto(p, "idle")
  /\ UNCHANGED <<files, event, answered>>

\* _finalize_pending_commit
Finalize(p) ==
  /\ pc[p] = "recover"
  /\ \E e \in PendingEvents :
       /\ WitnessPending(e)
       /\ event' = [event EXCEPT ![p] = e]
  /\ Goto(p, "commit")
  /\ UNCHANGED <<files, answered>>

\* recover_temp_wal fails closed: WAL_INVALID.
Unrepairable ==
  \/ tail = "unterminated"
  \/ tail = "torn" /\ journal = <<>>
  \/ SnapshotInvalid
  \/ Divergent

RecoverReturns(p) ==
  /\ pc[p] = "recover"
  /\ Clean \/ Unrepairable
  /\ Goto(p, "idle")
  /\ UNCHANGED <<files, event, answered>>

-----------------------------------------------------------------------------
\* Failures.

\* The process dies or an OSError leaves the call; the lock is released.  A
\* line that was being written may be there in part.
Stop(p) ==
  /\ "stop" \in failing
  /\ pc[p] # "idle"
  /\ tail' \in IF pc[p] \in {"prepare", "commit"} THEN TailKinds ELSE {tail}
  /\ Goto(p, "idle")
  /\ event' = [event EXCEPT ![p] = Nil]
  /\ UNCHANGED <<journal, synced, snapshot, stable, answered>>

\* Lines that were not synced, and a rename that was not, may be lost.
PowerLoss ==
  /\ "power" \in failing
  /\ \E n \in synced..Len(journal) :
       /\ journal' = SubSeq(journal, 1, n)
       /\ synced' = n
       /\ tail' \in IF \/ n < Len(journal)
                       \/ tail # "none"
                       \/ \E p \in Proc : pc[p] \in {"prepare", "commit"}
                      THEN TailKinds ELSE {"none"}
  /\ \E s \in {snapshot, stable} : snapshot' = s /\ stable' = s
  /\ pc' = [p \in Proc |-> "idle"]
  /\ event' = [p \in Proc |-> Nil]
  /\ UNCHANGED <<answered, failing>>

Failure == PowerLoss \/ \E p \in Proc : Stop(p)

Apply(p) ==
  \/ AppendPrepared(p)
  \/ SyncPrepared(p)
  \/ ReplaceSnapshot(p)
  \/ SyncDirectory(p)
  \/ AppendCommitted(p)
  \/ SyncCommitted(p)

Recover(p) ==
  \/ RepairTail(p)
  \/ Redo(p)
  \/ Finalize(p)
  \/ RecoverReturns(p)

Step ==
  \/ \E r \in Request : Replay(r)
  \/ \E p \in Proc : \/ \E r \in Request : BeginApply(p, r)
                     \/ Apply(p)
                     \/ BeginRecover(p)
                     \/ Recover(p)

Next == Step \/ Failure

\* A call that was started goes on, and whoever is told RECOVERY_REQUIRED
\* (an operator, through recover_offline) calls recover_temp_wal.
Fairness ==
  /\ \A p \in Proc : WF_vars(Apply(p) \/ Recover(p))
  /\ WF_vars(\E p \in Proc : BeginRecover(p))

Spec == Init /\ [][Next]_vars
FairSpec == Spec /\ Fairness

-----------------------------------------------------------------------------
\* Correctness.

AppliedRequests(s) == IF s = Nil THEN <<>> ELSE s.applied
InSeq(s) == {s[n] : n \in DOMAIN s}

\* No retry, replay or recovery ever applies an operation twice
\* (find_committed_operation, _base_matches_pending, _witness_status).
AppliedOnce ==
  LET applied == AppliedRequests(snapshot) IN
  \A m, n \in DOMAIN applied : applied[m].key = applied[n].key => m = n

\* What a caller was told is committed survives every later failure: it is in
\* the snapshot, and also in the one that a power loss leaves.
AnsweredIsDurable ==
  /\ answered \subseteq InSeq(AppliedRequests(snapshot))
  /\ "power" \in failing => answered \subseteq InSeq(AppliedRequests(stable))

\* Crashes never make the journal and the snapshot contradict each other, so
\* that recover_temp_wal is never refused with SNAPSHOT_JOURNAL_DIVERGENCE.
NeverDivergent == ~ Divergent

\* "the durable authority is an EVENT_COMMITTED journal line, while the snapshot
\* is only a witness" (docstring of registry_v2_wal.py): a clean snapshot holds
\* the committed operations, and whatever a snapshot holds has a journal line.
JournalIsAuthority ==
  LET applied == AppliedRequests(snapshot) IN
  /\ Clean => InSeq(applied) = {e.request : e \in CommittedEvents}
  /\ InSeq(applied) \subseteq {e.request : e \in Lines}

\* registry_execution_identity_v2_final_spec_v2_3.txt, 11.4 row B: after a crash
\* a PREPARED event can be replayed or finalized; manual recovery is needed
\* "so se base divergir" (only if the base diverges).
PreparedIsReplayable ==
  LockFree /\ tail = "none" =>
    \A e \in PendingEvents : PreparedPending(e) \/ WitnessPending(e)

\* _validate_journal_events never refuses what the program wrote: events are
\* numbered from 1, each PREPARED once, then COMMITTED with the same identity.
JournalWellFormed ==
  \A n \in DOMAIN journal :
    LET e == journal[n] IN
    /\ e.seq = (n + 1) \div 2
    /\ e.state = IF n % 2 = 1 THEN "PREPARED" ELSE "COMMITTED"
    /\ n % 2 = 0 => [e EXCEPT !.state = "PREPARED", !.after = Nil] = journal[n - 1]

\* Once failures stop, recovery brings the storage back to CLEAN again and
\* again, unless a tail or a missing snapshot makes it fail closed.
RecoveryCompletes == <>[][Step]_vars => []<>(Clean \/ Unrepairable)

\* The log implements the abstract registry of MutationLog.
Lasting == IF "power" \in failing THEN stable ELSE snapshot
Log == INSTANCE MutationLog WITH history <- AppliedRequests(Lasting)
MutationLogSpec == Log!Spec
=============================================================================
