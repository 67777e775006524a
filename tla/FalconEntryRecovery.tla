-------------------------- MODULE FalconEntryRecovery --------------------------
(***************************************************************************)
(* Falcon's LIVE entries above the engine (bots/falcon.py): the gates a    *)
(* signal passes before falcon_execute_live_via_canonical_engine calls the *)
(* engine, the incident kept for a call whose outcome is unknown, and      *)
(* falcon_reconcile_engine_send_outcome_unknown, which ends it.            *)
(*                                                                         *)
(* One thread of LiveExecution scans for signals; another reconciles, in   *)
(* the same process.  A step is one access to Redis (entry lock,           *)
(* acknowledgement gate, incident document), to the ledger file, or to the *)
(* process flag HEALTH["falcon_live_entries_locked"].  The containment of  *)
(* a naked entry is external here: it takes the entry lock for itself.     *)
(***************************************************************************)
EXTENDS LiveExecution

CONSTANTS
  Scanner,        \* the thread that scans
  FalconPayload,  \* its entries
  MaxFaults,      \* bound: restarts, and writes that fail
  Free            \* nobody holds the lock

VARIABLES
  stage, signal, subject,  \* the scanner: its step, entry and incident
  op,                      \* the reconciliation: its step and its copy of a document
  health,                  \* HEALTH["falcon_live_entries_locked"]
  lock, gate, docs,        \* Redis
  armed, closed,           \* the exchange: stops that work, legs that are gone
  tracked,                 \* entries in the Registry and the positions document
  faults

scan == <<stage, signal, subject>>
redis == <<lock, gate, docs>>
facts == <<armed, closed, tracked>>
recoveryVars == <<scan, op, health, redis, facts, faults>>
vars == <<liveVars, recoveryVars>>

\* An incident is identified by what is known of the call: the engine's result
\* or its ledger entry names it in full; after an exception of the engine only
\* the signal is known.  "stop" is the containment's own incident.
Incident == FalconPayload \X {"full", "partial", "stop"}
Phase == {"open", "fact", "ledger", "released", "acked"}
Verdict == {"none", "notSent", "protected", "closed"}

ASSUME RecoveryAssumption ==
  /\ Scanner \in Thread
  /\ FalconPayload \subseteq Payload
  /\ \A p \in FalconPayload : KeyOf[p] \in FalconKey
  /\ MaxFaults \in Nat
  /\ Free \notin Incident

\* A full incident's document; a partial one is never changed after it is filed.
Document ==
  [phase: Phase,
   verdict: Verdict,
   stopKnown: BOOLEAN,   \* it names the disaster stop of the entry
   contained: BOOLEAN]   \* initial_stop_containment_confirmed
NoDocument == [phase |-> "open", verdict |-> "none", stopKnown |-> FALSE,
               contained |-> FALSE]

OpLabel == {"idle", "identify", "look", "contain", "track", "gate", "fact",
            "ledger", "ledgerPhase", "unlock", "unlockPhase", "ack", "ungate", "regate"}
Stage == {"idle", "preflight", "gates", "entryLock", "engine", "secure", "file",
          "refile", "track", "contain"}

TypeOK ==
  /\ LiveTypeOK
  /\ stage \in Stage
  /\ signal \in FalconPayload \union {Nobody}
  /\ subject \in [of: Incident, stopKnown: BOOLEAN] \union {Free}
  /\ op \in [at: OpLabel, of: FalconPayload \union {Nobody}, doc: Document,
             call: Entry]
  /\ health \in BOOLEAN
  /\ lock \in Incident \union {Free}
  /\ gate \in BOOLEAN
  /\ docs \in [FalconPayload -> Document \union {Free}]
  /\ armed \union closed \union tracked \subseteq FalconPayload
  /\ armed \union closed \subseteq orders
  /\ stage = "engine" <=> pc[Scanner] # "idle"
  /\ faults \in 0..MaxFaults

NoOp == [at |-> "idle", of |-> Nobody, doc |-> NoDocument, call |-> "absent"]

Init ==
  /\ LiveInit
  /\ stage = "idle" /\ signal = Nobody /\ subject = Free
  /\ op = NoOp
  /\ health = FALSE
  /\ lock = Free /\ gate = FALSE
  /\ docs = [p \in FalconPayload |-> Free]
  /\ armed = {} /\ closed = {} /\ tracked = {}
  /\ faults = 0

-----------------------------------------------------------------------------
\* A write of Redis or of the ledger file that fails, and is not applied.
Fault == faults < MaxFaults /\ faults' = faults + 1
NoFault == UNCHANGED faults

Scans(label) == stage = label
Proceed(label) == stage' = label /\ UNCHANGED <<signal, subject>>
Rest == stage' = "idle" /\ signal' = Nobody /\ subject' = Free
HandleIncident(p, kind, known) ==
  /\ stage' = "secure"
  /\ subject' = [of |-> <<p, kind>>, stopKnown |-> known]
  /\ UNCHANGED signal

NewSignal(p) ==
  /\ Scans("idle")
  /\ stage' = "preflight" /\ signal' = p /\ UNCHANGED subject
  /\ UNCHANGED <<liveVars, op, health, redis, facts, faults>>

\* _falcon_engine_pending_ledger_preflight: an unresolved call refuses the entry
\* and files an incident for it under the identity the ledger keeps.
Preflight ==
  /\ Scans("preflight")
  /\ \/ LedgerClear /\ Proceed("gates")
     \/ (~readable \/ Oversized) /\ Rest
     \/ /\ readable /\ ~Oversized
        /\ \E p \in FalconPayload :
             KeyOf[p] \in PendingCalls /\ HandleIncident(p, "full", FALSE)
  /\ UNCHANGED <<liveVars, op, health, redis, facts, faults>>

\* HEALTH and the acknowledgement gate.
Gates ==
  /\ Scans("gates")
  /\ IF health \/ gate THEN Rest ELSE Proceed("entryLock")
  /\ UNCHANGED <<liveVars, op, health, redis, facts, faults>>

\* The entry lock, last; then the engine is called.
EntryLock ==
  /\ Scans("entryLock")
  /\ \/ lock # Free /\ Rest /\ UNCHANGED liveVars
     \/ lock = Free /\ Proceed("engine") /\ Begin(Scanner, signal)
  /\ UNCHANGED <<op, health, redis, facts, faults>>

\* The broker places the disaster stop once the exchange returned the order.
ArmStop ==
  /\ At(Scanner, "await")
  /\ signal \in orders \ (armed \union closed)
  /\ armed' = armed \union {signal}
  /\ UNCHANGED <<liveVars, scan, op, health, redis, closed, tracked, faults>>

\* A result is "sent" only with a stop that was seen working.
EngineRuns ==
  /\ Scans("engine")
  /\ EngineStep(Scanner)
  /\ reply'[Scanner] = "sent" /\ reply[Scanner] # "sent" => signal \in armed
  /\ UNCHANGED recoveryVars

EngineAnswers ==
  LET r == reply[Scanner] IN
  /\ Scans("engine")
  /\ At(Scanner, "returned")
  /\ Return(Scanner)
  /\ CASE r = "unknown" -> HandleIncident(signal, "full", FALSE)
       [] r = "raised" -> HandleIncident(signal, "partial", FALSE)
       [] r = "sent" -> Proceed("track")
       \* Armed, though its acknowledgement is not on file, or not.
       [] r = "naked" -> Proceed(IF signal \in armed THEN "track" ELSE "contain")
       [] OTHER -> Rest
  /\ UNCHANGED <<op, health, redis, facts, faults>>

\* An exception while the result is read: the outcome counts as unknown, but
\* what the result says of the stop is kept.
ResultRaises ==
  /\ Scans("engine")
  /\ At(Scanner, "returned") /\ reply[Scanner] \in {"sent", "refused"}
  /\ Fault
  /\ Return(Scanner)
  /\ HandleIncident(signal, "full", reply[Scanner] = "sent")
  /\ UNCHANGED <<op, health, redis, facts>>

-----------------------------------------------------------------------------
\* falcon_handle_engine_send_outcome_unknown.

\* SET NX: an incident that holds the lock enters again, another one keeps it.
\* The handler goes on whatever the answer.
Secure ==
  /\ Scans("secure")
  /\ \/ /\ lock' = IF lock = Free THEN subject.of ELSE lock
        /\ NoFault
     \/ Fault /\ UNCHANGED lock
  /\ Proceed("file")
  /\ UNCHANGED <<liveVars, op, health, gate, docs, facts>>

\* The document is written as a new one, whatever it said before: once before
\* the alert and once after it, which also sets HEALTH.
FileIncident ==
  /\ stage \in {"file", "refile"}
  /\ \/ /\ docs' = IF subject.of[2] = "full"
                   THEN [docs EXCEPT ![subject.of[1]] =
                           [NoDocument EXCEPT !.stopKnown = subject.stopKnown]]
                   ELSE docs
        /\ NoFault
     \/ Fault /\ UNCHANGED docs
  /\ IF Scans("file") THEN Proceed("refile") /\ UNCHANGED health
                      ELSE Rest /\ health' = TRUE
  /\ UNCHANGED <<liveVars, op, lock, gate, facts>>

\* falcon_handle_initial_stop_failure_containment, as far as it concerns entries:
\* it blocks them in this process, then by the lock.
Contain ==
  /\ Scans("contain")
  /\ health' = TRUE
  /\ \/ /\ lock' = IF lock = Free THEN <<signal, "stop">> ELSE lock
        /\ NoFault
     \/ Fault /\ UNCHANGED lock
  /\ Rest
  /\ UNCHANGED <<liveVars, op, gate, docs, facts>>

\* falcon_persist_accepted_signal: its failure is a warning.
Track ==
  /\ Scans("track")
  /\ \/ tracked' = tracked \union {signal} /\ NoFault
     \/ Fault /\ UNCHANGED tracked
  /\ Rest
  /\ UNCHANGED <<liveVars, op, health, redis, armed, closed>>

-----------------------------------------------------------------------------
\* falcon_reconcile_engine_send_outcome_unknown.

OpAt(label) == op.at = label
OpGoto(label) == op' = [op EXCEPT !.at = label]

\* A step that fails leaves the entries locked.
GiveUp == op' = NoOp /\ health' = TRUE

SaveDoc(doc) == docs' = [docs EXCEPT ![op.of] = doc]

\* Where a document says the recovery stands.
Resume(phase) ==
  CASE phase = "open" -> "identify" [] phase = "fact" -> "ledger"
    [] phase = "ledger" -> "unlock" [] phase = "released" -> "ack"
    [] phase = "acked" -> "regate"

LoadIncident(p) ==
  /\ OpAt("idle")
  /\ docs[p] # Free
  /\ op' = [at |-> Resume(docs[p].phase), of |-> p, doc |-> docs[p], call |-> "absent"]
  /\ UNCHANGED <<liveVars, scan, health, redis, facts, faults>>

\* _falcon_engine_unknown_ledger_identity_validation: a call without a state, or
\* with a terminal one, is a conflict.
IdentityOf(k) ==
  IF readable /\ seen[k] \in {Pending, SendUnknown, Confirmed} THEN seen[k] ELSE "absent"

Identify ==
  /\ OpAt("identify")
  /\ LET state == IdentityOf(KeyOf[op.of]) IN
     \/ /\ state # "absent"
        /\ op' = [op EXCEPT !.at = "look", !.call = state]
        /\ UNCHANGED <<docs, health>>
     \/ state = "absent" /\ SaveDoc(op.doc) /\ GiveUp
  /\ UNCHANGED <<liveVars, scan, lock, gate, facts, faults>>

\* Slip: an order that is not found was not sent
VerdictsBySilence(p, state, doc) ==
  {v \in Verdict :
     \/ v = "notSent" /\ p \notin orders
     \/ v = "protected" /\ doc.stopKnown /\ p \in armed \ closed
     \/ v = "closed" /\ doc.contained /\ p \in closed}

\* _falcon_engine_unknown_read_only_evidence.  The authority is asked only when
\* there is no order and the call is not unresolved, and must not have let the
\* send through.  A stop is looked up only by the ids the document has.
Verdicts(p, state, doc) ==
  {v \in Verdict :
     \/ /\ v = "notSent"
        /\ p \notin orders
        /\ state \notin Unresolved
        /\ attempt[AttemptOf[p]] = "reserved"
     \/ v = "protected" /\ doc.stopKnown /\ p \in armed \ closed
     \/ v = "closed" /\ doc.contained /\ p \in closed}

StopAbsent(p, doc) == doc.stopKnown /\ p \in orders \ (armed \union closed)

\* What to do about the evidence, unless it is inconclusive or cannot be read.
Decide ==
  /\ OpAt("look")
  /\ \/ \E v \in Verdicts(op.of, op.call, op.doc) :
          /\ op' = [op EXCEPT !.at = IF v = "protected" THEN "track" ELSE "gate",
                              !.doc.verdict = v]
          /\ UNCHANGED health
     \/ StopAbsent(op.of, op.doc) /\ OpGoto("contain") /\ UNCHANGED health
     \/ GiveUp
  /\ UNCHANGED <<liveVars, scan, redis, facts, faults>>

\* The containment closes the leg and can prove it, or not.
CloseNaked ==
  /\ OpAt("contain")
  /\ \/ /\ closed' = closed \union {op.of}
        /\ \E proven \in BOOLEAN : SaveDoc([op.doc EXCEPT !.contained = proven])
     \/ SaveDoc(op.doc) /\ UNCHANGED closed
  /\ GiveUp
  /\ UNCHANGED <<liveVars, scan, lock, gate, armed, tracked, faults>>

\* Slip: a protected entry is reconciled though it could not be tracked
RestoreAtBest ==
  /\ OpAt("track")
  /\ \/ tracked' = tracked \union {op.of} /\ NoFault
     \/ Fault /\ UNCHANGED tracked
  /\ OpGoto("gate")
  /\ UNCHANGED <<liveVars, scan, health, redis, armed, closed>>

\* _falcon_engine_unknown_restore_protected_lifecycle.
Restore ==
  /\ OpAt("track")
  /\ \/ /\ tracked' = tracked \union {op.of}
        /\ OpGoto("gate")
        /\ NoFault
        /\ UNCHANGED <<docs, health>>
     \/ /\ Fault
        /\ SaveDoc([op.doc EXCEPT !.verdict = "none"])
        /\ GiveUp
        /\ UNCHANGED tracked
  /\ UNCHANGED <<liveVars, scan, lock, gate, armed, closed>>

-----------------------------------------------------------------------------
\* _falcon_engine_unknown_finalize_terminal: each phase is saved before the
\* next begins.

CloseGate ==
  /\ OpAt("gate")
  /\ \/ gate' = TRUE /\ OpGoto("fact") /\ NoFault /\ UNCHANGED health
     \/ Fault /\ UNCHANGED gate /\ GiveUp
  /\ UNCHANGED <<liveVars, scan, lock, docs, facts>>

\* A phase of the document, and the step after it.
SavePhase(at, phase, next) ==
  LET doc == [op.doc EXCEPT !.phase = phase] IN
  /\ OpAt(at)
  /\ \/ /\ SaveDoc(doc)
        /\ op' = [op EXCEPT !.at = next, !.doc = doc]
        /\ NoFault
        /\ UNCHANGED health
     \/ Fault /\ UNCHANGED docs /\ GiveUp
  /\ UNCHANGED <<liveVars, scan, lock, gate, facts>>

SaveFact == SavePhase("fact", "fact", "ledger")

\* Slip: the lock is released though the ledger could not be closed
CloseLedgerAtBest ==
  /\ OpAt("ledger")
  /\ \/ RecordBrokerState(KeyOf[op.of], Reconciled) /\ NoFault
     \/ Fault /\ UNCHANGED ledger
  /\ OpGoto("ledgerPhase")
  /\ UNCHANGED <<authority, log, exchange, threads, scan, health, redis, facts>>

CloseLedger ==
  /\ OpAt("ledger")
  /\ \/ /\ RecordBrokerState(KeyOf[op.of], Reconciled)
        /\ OpGoto("ledgerPhase")
        /\ NoFault
        /\ UNCHANGED <<docs, health>>
     \/ /\ Fault \/ (~Has(KeyOf[op.of]) /\ NoFault)
        /\ SaveDoc(op.doc) /\ GiveUp
        /\ UNCHANGED ledger
  /\ UNCHANGED <<authority, log, exchange, threads, scan, lock, gate, facts>>

SaveLedgerPhase == SavePhase("ledgerPhase", "ledger", "unlock")

\* Compare-and-delete of the incident's own lock, read back.
Unlock ==
  /\ OpAt("unlock")
  /\ \/ /\ lock \in {Free, <<op.of, "full">>}
        /\ lock' = Free
        /\ OpGoto("unlockPhase")
        /\ NoFault
        /\ UNCHANGED <<docs, health>>
     \/ /\ (lock \notin {Free, <<op.of, "full">>} /\ NoFault) \/ Fault
        /\ SaveDoc(op.doc)
        /\ GiveUp
        /\ UNCHANGED lock
  /\ UNCHANGED <<liveVars, scan, gate, facts>>

SaveUnlockPhase == SavePhase("unlockPhase", "released", "ack")

\* _falcon_engine_unknown_complete_terminal_acknowledgement.
Acknowledge ==
  \/ lock = Free /\ SavePhase("ack", "acked", "ungate")
  \/ /\ OpAt("ack")
     /\ lock # Free
     /\ GiveUp
     /\ UNCHANGED <<liveVars, scan, redis, facts, faults>>

\* The gate is cleared whoever set it.  For a document that was acknowledged
\* before this call that is all; otherwise the process is unlocked.
ClearGate ==
  /\ op.at \in {"ungate", "regate"}
  /\ \/ /\ gate' = FALSE
        /\ health' = (health /\ OpAt("regate"))
        /\ op' = NoOp
        /\ NoFault
     \/ Fault /\ UNCHANGED gate /\ GiveUp
  /\ UNCHANGED <<liveVars, scan, lock, docs, facts>>

-----------------------------------------------------------------------------
\* The exchange: the stop of an entry is lost, or closes it.
StopLost(p) ==
  /\ p \in armed \ closed
  /\ armed' = armed \ {p}
  /\ UNCHANGED <<liveVars, scan, op, health, redis, closed, tracked, faults>>

StopFills(p) ==
  /\ p \in armed \ closed
  /\ closed' = closed \union {p}
  /\ UNCHANGED <<liveVars, scan, op, health, redis, armed, tracked, faults>>

\* The process restarts; after a power loss the ledger file may not parse.
Restart ==
  /\ Fault
  /\ StopThreads
  /\ stage' = "idle" /\ signal' = Nobody /\ subject' = Free
  /\ op' = NoOp
  /\ health' = FALSE
  /\ LoseFile \/ UNCHANGED ledger
  /\ UNCHANGED <<authority, log, exchange, redis, facts>>

ScannerStep ==
  \/ \E p \in FalconPayload : NewSignal(p)
  \/ Preflight \/ Gates \/ EntryLock \/ ArmStop \/ EngineRuns \/ EngineAnswers
  \/ ResultRaises \/ Secure \/ FileIncident \/ Contain \/ Track

Finalize ==
  \/ CloseGate \/ SaveFact \/ CloseLedger \/ SaveLedgerPhase
  \/ Unlock \/ SaveUnlockPhase \/ Acknowledge \/ ClearGate

ReconcileStep ==
  \/ \E p \in FalconPayload : LoadIncident(p)
  \/ Identify \/ Decide \/ CloseNaked \/ Restore \/ Finalize

\* Another bot reserves an intention in the same ledger file.  Its calls concern
\* no entry of Falcon's.
OtherBotReserves(k) ==
  /\ ~Has(k)
  /\ ReserveKey(k)
  /\ UNCHANGED <<authority, log, exchange, threads, recoveryVars>>

Next ==
  \/ ScannerStep
  \/ ReconcileStep
  \/ \E k \in Key \ FalconKey : OtherBotReserves(k)
  \/ ExchangeStep /\ UNCHANGED recoveryVars
  \/ \E p \in FalconPayload : StopLost(p) \/ StopFills(p)
  \/ Restart

Spec == Init /\ [][Next]_vars

-----------------------------------------------------------------------------
\* falcon.py:3965, "Fail closed for any unresolved Falcon broker call across
\* restarts": the engine is not called for an entry while an earlier request is
\* on its way, or became an order after its caller was gone, for as long as the
\* ledger file survives.
FailClosed ==
  [][Scans("entryLock") /\ stage' = "engine" /\ ~lost =>
       \A p \in FalconPayload : p \notin inflight \union late]_vars

\* A full incident lets go of the entry lock only when its call is closed in the
\* ledger, so that the preflight and the lock never contradict each other while
\* the ledger survives.
UnlockAfterLedger ==
  [][\A p \in FalconPayload :
       lock = <<p, "full">> /\ lock' # lock /\ ~lost
         => seen[KeyOf[p]] = Reconciled]_vars

Terminal(p, v) == docs[p] # Free /\ docs[p].phase # "open" /\ docs[p].verdict = v

\* A call that was reconciled as an entry with a working stop is managed: it is
\* in the Registry and in the positions document.
ProtectedIsTracked ==
  \A p \in FalconPayload : Terminal(p, "protected") => p \in tracked

\* A call that was reconciled as not sent neither is an order nor becomes one.
NotSentIsFact ==
  \A p \in FalconPayload : Terminal(p, "notSent") => p \notin inflight \union orders

\* falcon.py:3241, "Resume terminal recovery from its last durably confirmed
\* phase": a phase that was saved is not taken back.
PhasesAdvance ==
  [][\A p \in FalconPayload :
       docs[p] # Free /\ docs[p].phase # "open" => docs'[p].phase # "open"]_vars

\* docs/04-Execution-Flow.md, O: after a restart an entry that is confirmed and
\* has no stop comes before new entries.
ProtectionFirst ==
  [][Scans("entryLock") /\ stage' = "engine" =>
       \A p \in FalconPayload : p \in orders => p \in armed \union closed]_vars
=============================================================================
