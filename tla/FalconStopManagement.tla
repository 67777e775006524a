------------------------ MODULE FalconStopManagement ------------------------
(***************************************************************************)
(* Management of one LIVE position by bots/falcon.py: every worker runs    *)
(* management_loop over the same positions document, verifies the disaster *)
(* stop, moves it (break-even, trailing), closes the leg when the stop     *)
(* price is crossed, and closes it in an emergency when the stop is        *)
(* terminal.  broker.replace_position_stop_order and                       *)
(* broker.managed_close_position_market talk to the exchange.              *)
(*                                                                         *)
(* One step is one access to shared state: Redis (the positions document,  *)
(* the lifecycle lock, the incident record, the clientOrderID authority) or*)
(* the exchange.  Quantities are left out, and with them TP50 and manual   *)
(* positions; stop prices are levels that grow as they tighten.            *)
(***************************************************************************)
EXTENDS Naturals, FiniteSets

CONSTANTS
  Worker,
  MaxLevel,       \* levels a stop can be moved to
  MaxRevision,    \* bound: revisions of the stop's clientOrderID
  MaxAttempt,     \* bound: closes refused before they were sent
  Faults,         \* what may go wrong
  Nil,
  Orphan          \* a lifecycle lock whose nonce nobody holds any more

FaultKinds == {"crash",   \* a worker stops or its handler raises
               "lost",    \* a reply is lost or ambiguous
               "refuse"}  \* a read fails or a check refuses before a send

ASSUME ConstantsAssumption ==
  /\ MaxLevel \in Nat /\ MaxRevision \in Nat /\ MaxAttempt \in Nat
  /\ Faults \subseteq FaultKinds
  /\ Nil \notin Worker /\ Orphan \notin Worker /\ Nil # Orphan
  /\ Nil \notin Nat \X Nat              \* nothing pending is no target

Level == 0..MaxLevel
Revision == 0..MaxRevision
Attempt == 0..MaxAttempt

\* Stop orders by clientOrderID: the disaster stop of the entry, then a
\* replacement and a rollback for each revision.
InitialStop == 0
\* Slip: the revision is counted up once more when the id is built
NewStopNextRevision(r) == 2 * r + 1

NewStop(r) == 2 * r - 1
RollbackStop(r) == 2 * r
StopId == 0..RollbackStop(MaxRevision)

\* The position's entry in the positions document.
Position ==
  [stop: StopId,                              \* broker_stop_order_id
   level: Level,                              \* stop, broker_stop_price
   revision: Revision,                        \* stop_client_order_id_revision
   pending: (StopId \X Level) \union {Nil},   \* ..._pending.logical_fingerprint
   crossed: BOOLEAN]                          \* live_stop_crossed_epoch is set

StopState == {"none", "sent", "live", "cancelled", "failed", "filled", "rejected"}
Terminal == {"cancelled", "failed"}           \* FALCON_TERMINAL_STOP_STATUSES

\* attempt_state: FALCON_TERMINAL_STOP_UNRESOLVED_STATES are one, NOT_SENT is
\* another, and the states that decide nothing are "open".
IncidentState == {"open", "not_sent", "unresolved"}

Label ==
  {"idle", "verify", "manage", "save", "remove",
   "reserveStop", "cancelStop", "recheck",
   "createStop", "awaitStop", "rollback", "awaitRollback",
   "incident", "judge", "revalidate", "reserveClose", "sendClose", "awaitClose",
   "cancelCrossed", "recheckCrossed", "reserveCrossed", "sendCrossed", "awaitCrossed"}

VARIABLES
  doc,            \* the saved entry, Nil once the position was removed
  lock,           \* the lifecycle lock
  incident,       \* terminal_stop_recovery records, by stop
  reserved,       \* stop clientOrderIDs reserved
  closeReserved,  \* attempts of the emergency close reserved
  told,           \* stops about whose loss a critical alert was attempted
  pc, mem,        \* where a worker stands and its copy of the entry
  attempt,        \* the close attempt it is about to reserve
  stops,          \* the exchange: stop orders
  close,          \* the exchange: market closes, by attempt
  position        \* the exchange: is the leg open?

redis == <<doc, lock, incident, reserved, closeReserved>>
workers == <<pc, mem, attempt>>
exchange == <<stops, close, position>>
vars == <<redis, told, workers, exchange>>

TypeOK ==
  /\ doc \in Position \union {Nil}
  /\ lock \in Worker \union {Nil, Orphan}
  /\ incident \in [StopId -> [state: IncidentState, attempt: Attempt]]
  /\ reserved \subseteq StopId
  /\ closeReserved \subseteq Attempt
  /\ told \subseteq StopId
  /\ pc \in [Worker -> Label]
  /\ mem \in [Worker -> Position \union {Nil}]
  /\ attempt \in [Worker -> 0..MaxAttempt + 1]
  /\ stops \in [StopId -> [state: StopState, level: Level]]
  /\ close \in [Attempt -> {"none", "sent", "filled", "refused"}]
  /\ position \in {"open", "flat"}

Init ==
  /\ doc = [stop |-> InitialStop, level |-> 0, revision |-> 0, pending |-> Nil,
            crossed |-> FALSE]
  /\ lock = Nil
  /\ incident = [i \in StopId |-> [state |-> "open", attempt |-> 0]]
  /\ reserved = {InitialStop}
  /\ closeReserved = {}
  /\ told = {}
  /\ pc = [w \in Worker |-> "idle"]
  /\ mem = [w \in Worker |-> Nil]
  /\ attempt = [w \in Worker |-> 0]
  /\ stops = [i \in StopId |-> [state |-> IF i = InitialStop THEN "live" ELSE "none",
                                level |-> 0]]
  /\ close = [a \in Attempt |-> "none"]
  /\ position = "open"

Live == {i \in StopId : stops[i].state = "live"}
Sent == {i \in StopId : stops[i].state = "sent"}

-----------------------------------------------------------------------------
\* Control flow and the lifecycle lock.

At(w, label) == pc[w] = label
Goto(w, label) == pc' = [pc EXCEPT ![w] = label]
EndCycle(w) == Goto(w, "save")

\* falcon_terminal_stop_acquire_lifecycle_lock: SET-NX of a fresh nonce.  One
\* that raises may have landed, and then nobody knows the nonce.
AcquireOrEnd(w, label) ==
  \/ lock = Nil /\ lock' = w /\ Goto(w, label)
  \/ lock # Nil /\ UNCHANGED lock /\ EndCycle(w)
  \/ "lost" \in Faults /\ lock = Nil /\ lock' \in {Nil, Orphan} /\ EndCycle(w)

\* falcon_terminal_stop_release_lifecycle_lock: compare-and-delete, which the
\* code tries once, and not at all when the incident's save failed before it.
Release == lock' \in IF "lost" \in Faults THEN {Nil, Orphan} ELSE {Nil}

\* The handler returns without releasing; no code releases the lock later.
Retain == lock' = Orphan

\* falcon_terminal_stop_critical_alert: once per incident.
Alert(w) == told' = told \union {mem[w].stop}

MyStop(w) == stops[mem[w].stop].state

\* management_loop: get_positions.
Load(w) ==
  /\ At(w, "idle")
  /\ doc # Nil
  /\ mem' = [mem EXCEPT ![w] = doc]
  /\ Goto(w, "verify")
  /\ UNCHANGED <<redis, told, attempt, exchange>>

\* management_loop: save_positions, of the whole document; close_position took
\* the entry out of it.
Save(w) ==
  /\ pc[w] \in {"save", "remove"}
  /\ doc' = IF At(w, "remove") THEN Nil ELSE mem[w]
  /\ mem' = [mem EXCEPT ![w] = Nil]
  /\ attempt' = [attempt EXCEPT ![w] = 0]
  /\ Goto(w, "idle")
  /\ UNCHANGED <<lock, incident, reserved, closeReserved, told, exchange>>

\* falcon_verify_live_disaster_stop, when the reads succeed: only a live stop
\* allows management, a terminal one is an incident, a flat leg is left to an
\* explicit reconciliation.
Verify(w) ==
  /\ At(w, "verify")
  /\ Goto(w, IF position = "flat" THEN "save"
             ELSE IF MyStop(w) \in Terminal THEN "incident"
             ELSE "manage")
  /\ UNCHANGED <<redis, told, mem, attempt, exchange>>

\* ... and when they do not: management is blocked for this cycle.
VerifyFails(w) ==
  /\ "refuse" \in Faults
  /\ At(w, "verify")
  /\ EndCycle(w)
  /\ UNCHANGED <<redis, told, mem, attempt, exchange>>

\* No price, nothing to move, or the evidence a handler asks for is missing.
NothingToDo(w) ==
  /\ At(w, "manage")
  /\ EndCycle(w)
  /\ UNCHANGED <<redis, told, mem, attempt, exchange>>


-----------------------------------------------------------------------------
\* falcon_apply_live_stop_update: _falcon_resize_runner_stop and
\* broker.replace_position_stop_order.

\* A target that was pending keeps its revision, another one takes the next.
RevisionFor(p, level) ==
  IF p.pending = <<p.stop, level>> THEN p.revision ELSE p.revision + 1

Targets(p) == {l \in Level : l > p.level /\ RevisionFor(p, l) \in Revision}

BeginReplace(w) ==
  /\ At(w, "manage")
  /\ Targets(mem[w]) # {}
  /\ AcquireOrEnd(w, "reserveStop")
  /\ UNCHANGED <<doc, incident, reserved, closeReserved, told, mem, attempt, exchange>>

\* No authorization token: nothing was touched.
ReplaceUnauthorised(w) ==
  /\ "refuse" \in Faults
  /\ At(w, "reserveStop")
  /\ Release
  /\ EndCycle(w)
  /\ UNCHANGED <<doc, incident, reserved, closeReserved, told, mem, attempt, exchange>>

\* Reserve the clientOrderIDs of the stop and of its rollback, which the
\* authority lets through once, and read the position.
ReserveStops(w) ==
  /\ At(w, "reserveStop")
  /\ \E level \in Targets(mem[w]) :
       LET r == RevisionFor(mem[w], level)
           ids == {NewStop(r), RollbackStop(r)}
       IN  /\ mem' = [mem EXCEPT ![w].revision = r,
                                 ![w].pending = <<mem[w].stop, level>>]
           /\ reserved' = reserved \union ids
           /\ \/ /\ ids \intersect reserved = {} /\ position = "open"
                 /\ UNCHANGED lock
                 /\ Goto(w, "cancelStop")
              \/ /\ ids \intersect reserved = {}
                 /\ position = "flat" \/ "refuse" \in Faults
                 /\ Release
                 /\ EndCycle(w)
              \/ /\ ids \intersect reserved # {} \/ Faults \intersect {"lost", "refuse"} # {}
                 /\ Retain
                 /\ EndCycle(w)
  /\ UNCHANGED <<doc, incident, closeReserved, told, attempt, exchange>>

\* Slip: an unconfirmed cancellation goes on
CancelStopUnconfirmed(w) ==
  /\ At(w, "cancelStop")
  /\ \/ /\ MyStop(w) = "live"
        /\ stops' = [stops EXCEPT ![mem[w].stop].state = "cancelled"]
     \/ /\ MyStop(w) # "live" \/ "lost" \in Faults
        /\ UNCHANGED stops
  /\ Goto(w, "recheck")
  /\ UNCHANGED <<redis, told, mem, attempt, close, position>>

\* Only a confirmed cancellation goes on.
CancelStop(w) ==
  /\ At(w, "cancelStop")
  /\ \/ /\ MyStop(w) = "live"
        /\ stops' = [stops EXCEPT ![mem[w].stop].state = "cancelled"]
        /\ \/ UNCHANGED lock /\ Goto(w, "recheck")
           \/ "lost" \in Faults /\ Retain /\ EndCycle(w)
     \/ /\ MyStop(w) # "live" \/ "lost" \in Faults
        /\ UNCHANGED stops
        /\ Retain
        /\ EndCycle(w)
  /\ UNCHANGED <<doc, incident, reserved, closeReserved, told, mem, attempt, close, position>>

\* The position is read again after the cancellation.
Recheck(w) ==
  /\ At(w, "recheck")
  /\ \/ position = "open" /\ UNCHANGED lock /\ Goto(w, "createStop")
     \/ position = "flat" /\ Release /\ EndCycle(w)
     \/ "refuse" \in Faults /\ Retain /\ EndCycle(w)
  /\ UNCHANGED <<doc, incident, reserved, closeReserved, told, mem, attempt, exchange>>

Creating(w) == IF pc[w] \in {"createStop", "awaitStop"}
               THEN NewStop(mem[w].revision) ELSE RollbackStop(mem[w].revision)

\* _rpm_create_stop_live: the order is on its way.
CreateStop(w) ==
  /\ pc[w] \in {"createStop", "rollback"}
  /\ stops' = [stops EXCEPT ![Creating(w)] =
                 [state |-> "sent",
                  level |-> IF At(w, "createStop") THEN mem[w].pending[2] ELSE mem[w].level]]
  /\ Goto(w, IF At(w, "createStop") THEN "awaitStop" ELSE "awaitRollback")
  /\ UNCHANGED <<redis, told, mem, attempt, close, position>>

\* It fails before anything is sent: the old stop is put back, once.
CreateFails(w) ==
  /\ "refuse" \in Faults
  /\ \/ At(w, "createStop") /\ UNCHANGED lock /\ Goto(w, "rollback")
     \/ At(w, "rollback") /\ Retain /\ EndCycle(w)
  /\ UNCHANGED <<doc, incident, reserved, closeReserved, told, mem, attempt, exchange>>

Awaiting(w) == pc[w] \in {"awaitStop", "awaitRollback"}
Answer(w) == stops[Creating(w)].state

\* The exchange returned the order and it is armed.
StopArmed(w) ==
  /\ Awaiting(w)
  /\ Answer(w) \notin {"sent", "rejected"}
  /\ mem' = [mem EXCEPT ![w].stop = Creating(w),
                        ![w].level = stops[Creating(w)].level,
                        ![w].pending = Nil]
  /\ Release
  /\ EndCycle(w)
  /\ UNCHANGED <<doc, incident, reserved, closeReserved, told, attempt, exchange>>

\* It returned the order and does not show it armed.
StopNotArmed(w) ==
  /\ "lost" \in Faults
  /\ Awaiting(w)
  /\ Answer(w) # "sent"
  /\ IF At(w, "awaitStop") THEN Release ELSE Retain
  /\ EndCycle(w)
  /\ UNCHANGED <<doc, incident, reserved, closeReserved, told, mem, attempt, exchange>>

\* Slip: a create_order that raised is rolled back
StopRaisedRollsBack(w) ==
  /\ Awaiting(w)
  /\ Answer(w) = "rejected" \/ "lost" \in Faults
  /\ \/ At(w, "awaitStop") /\ UNCHANGED lock /\ Goto(w, "rollback")
     \/ At(w, "awaitRollback") /\ Retain /\ EndCycle(w)
  /\ UNCHANGED <<doc, incident, reserved, closeReserved, told, mem, attempt, exchange>>

\* create_order raised, whatever became of the order: no rollback.
StopRaised(w) ==
  /\ Awaiting(w)
  /\ Answer(w) = "rejected" \/ "lost" \in Faults
  /\ Retain
  /\ EndCycle(w)
  /\ UNCHANGED <<doc, incident, reserved, closeReserved, told, mem, attempt, exchange>>

-----------------------------------------------------------------------------
\* falcon_handle_terminal_stop_emergency.

\* The incident's record cannot be read: alert, nothing else.
IncidentUnreadable(w) ==
  /\ "refuse" \in Faults
  /\ At(w, "incident")
  /\ Alert(w)
  /\ EndCycle(w)
  /\ UNCHANGED <<redis, mem, attempt, exchange>>

TakeIncident(w) ==
  /\ At(w, "incident")
  /\ AcquireOrEnd(w, "judge")
  /\ UNCHANGED <<doc, incident, reserved, closeReserved, told, mem, attempt, exchange>>

\* The record is read again under the lock.
JudgeUnreadable(w) ==
  /\ "refuse" \in Faults
  /\ At(w, "judge")
  /\ Retain
  /\ EndCycle(w)
  /\ UNCHANGED <<doc, incident, reserved, closeReserved, told, mem, attempt, exchange>>

\* Slip: a blocked incident is saved without an alert
JudgeBlockedSilently(w) ==
  /\ At(w, "judge")
  /\ incident[mem[w].stop].state = "unresolved" \/ "refuse" \in Faults
  /\ Release
  /\ EndCycle(w)
  /\ UNCHANGED <<doc, incident, reserved, closeReserved, told, mem, attempt, exchange>>

\* A close was sent or may have been, or the evidence is not complete.
JudgeBlocked(w) ==
  /\ At(w, "judge")
  /\ incident[mem[w].stop].state = "unresolved" \/ "refuse" \in Faults
  /\ Alert(w)
  /\ Release
  /\ EndCycle(w)
  /\ UNCHANGED <<doc, incident, reserved, closeReserved, mem, attempt, exchange>>

\* READY_TO_SEND; only a close proven not sent has a next attempt.
JudgeEligible(w) ==
  LET i == mem[w].stop IN
  /\ At(w, "judge")
  /\ incident[i].state # "unresolved"
  /\ attempt' = [attempt EXCEPT ![w] = IF incident[i].state = "not_sent"
                                       THEN incident[i].attempt + 1 ELSE 0]
  /\ \/ /\ incident' = [incident EXCEPT ![i].state = "open"]
        /\ Goto(w, "revalidate")
        /\ UNCHANGED <<lock, told>>
     \/ /\ "lost" \in Faults
        /\ UNCHANGED incident
        /\ Alert(w)
        /\ Retain
        /\ EndCycle(w)
  /\ UNCHANGED <<doc, reserved, closeReserved, mem, exchange>>

\* Slip: open orders are not scanned
SafeToCloseWithoutScan(w) == position = "open" /\ MyStop(w) \in Terminal

\* Fresh facts: the leg is open, the stop terminal and, if it was cancelled,
\* no other stop is working.
SafeToClose(w) ==
  /\ position = "open"
  /\ MyStop(w) \in Terminal
  /\ MyStop(w) = "cancelled" => Live = {}

Revalidate(w) ==
  /\ At(w, "revalidate")
  /\ \/ SafeToClose(w) /\ UNCHANGED <<lock, told>> /\ Goto(w, "reserveClose")
     \/ /\ ~SafeToClose(w) \/ "refuse" \in Faults
        /\ Alert(w)
        /\ Release
        /\ EndCycle(w)
  /\ UNCHANGED <<doc, incident, reserved, closeReserved, mem, attempt, exchange>>

\* The close's clientOrderID is reserved and BROKER_CALL_PENDING saved; an
\* attempt number is never reserved twice.
ReserveClose(w) ==
  LET a == attempt[w]
      i == mem[w].stop IN
  /\ At(w, "reserveClose")
  /\ \/ /\ a \notin closeReserved
        /\ closeReserved' = closeReserved \union {a}
        /\ incident' = [incident EXCEPT ![i] = [state |-> "unresolved", attempt |-> a]]
        /\ \/ UNCHANGED <<lock, told>> /\ Goto(w, "sendClose")
           \/ "lost" \in Faults /\ Alert(w) /\ Retain /\ EndCycle(w)
     \/ /\ a \in closeReserved \/ "refuse" \in Faults
        /\ UNCHANGED <<incident, closeReserved>>
        /\ Alert(w)
        /\ Retain
        /\ EndCycle(w)
  /\ UNCHANGED <<doc, reserved, mem, attempt, exchange>>

\* broker.managed_close_position_market: a last look at the leg, and the order.
SendClose(w) ==
  /\ At(w, "sendClose")
  /\ position = "open"
  /\ close' = [close EXCEPT ![attempt[w]] = "sent"]
  /\ Goto(w, "awaitClose")
  /\ UNCHANGED <<redis, told, mem, attempt, stops, position>>

\* Nothing left the process: NOT_SENT, and the next attempt may be made, unless
\* saving that fails.
CloseNotSent(w) ==
  /\ At(w, "sendClose")
  /\ position = "flat" \/ ("refuse" \in Faults /\ attempt[w] < MaxAttempt)
  /\ \/ /\ incident' = [incident EXCEPT ![mem[w].stop].state = "not_sent"]
        /\ Release
     \/ /\ "lost" \in Faults
        /\ UNCHANGED incident
        /\ Retain
  /\ Alert(w)
  /\ EndCycle(w)
  /\ UNCHANGED <<doc, reserved, closeReserved, mem, attempt, exchange>>

\* Slip: an unconfirmed close is taken for one that was not sent
AwaitCloseRetries(w) ==
  /\ At(w, "awaitClose")
  /\ incident' = IF position = "flat" \/ attempt[w] = MaxAttempt THEN incident
                 ELSE [incident EXCEPT ![mem[w].stop].state = "not_sent"]
  /\ Alert(w)
  /\ Release
  /\ EndCycle(w)
  /\ UNCHANGED <<doc, reserved, closeReserved, mem, attempt, exchange>>

\* CONFIRMED, SENT_UNCONFIRMED or SEND_OUTCOME_UNKNOWN.
AwaitClose(w) ==
  /\ At(w, "awaitClose")
  /\ Alert(w)
  /\ Retain
  /\ EndCycle(w)
  /\ UNCHANGED <<doc, incident, reserved, closeReserved, mem, attempt, exchange>>

-----------------------------------------------------------------------------
\* falcon_handle_live_stop_cross: the price is beyond the stop.

FlatLeg(w) == Goto(w, IF MyStop(w) = "filled" THEN "remove" ELSE "save")

CrossFlat(w) ==
  /\ At(w, "manage")
  /\ position = "flat"
  /\ FlatLeg(w)
  /\ UNCHANGED <<redis, told, mem, attempt, exchange>>

\* The exchange is given time to execute a stop that works.
CrossWait(w) ==
  /\ At(w, "manage")
  /\ position = "open"
  /\ MyStop(w) = "live" \/ "refuse" \in Faults
  /\ mem' = [mem EXCEPT ![w].crossed = TRUE]
  /\ EndCycle(w)
  /\ UNCHANGED <<redis, told, attempt, exchange>>

CrossStart(w) ==
  /\ At(w, "manage")
  /\ position = "open"
  /\ MyStop(w) # "live" \/ mem[w].crossed
  /\ mem' = [mem EXCEPT ![w].crossed = TRUE]
  /\ AcquireOrEnd(w, "cancelCrossed")
  /\ UNCHANGED <<doc, incident, reserved, closeReserved, told, attempt, exchange>>

\* The stop is cancelled so that it cannot fire after the close; nothing looks
\* at the answer.
CancelCrossed(w) ==
  /\ At(w, "cancelCrossed")
  /\ \/ /\ MyStop(w) = "live"
        /\ stops' = [stops EXCEPT ![mem[w].stop].state = "cancelled"]
     \/ /\ MyStop(w) # "live" \/ Faults \intersect {"lost", "refuse"} # {}
        /\ UNCHANGED stops
  /\ Goto(w, "recheckCrossed")
  /\ UNCHANGED <<redis, told, mem, attempt, close, position>>

RecheckCrossed(w) ==
  /\ At(w, "recheckCrossed")
  /\ \/ position = "open" /\ UNCHANGED lock /\ Goto(w, "reserveCrossed")
     \/ position = "flat" /\ Release /\ FlatLeg(w)
     \/ "refuse" \in Faults /\ Release /\ EndCycle(w)
  /\ UNCHANGED <<doc, incident, reserved, closeReserved, told, mem, attempt, exchange>>

\* The same clientOrderID as the first emergency close.
ReserveCrossed(w) ==
  /\ At(w, "reserveCrossed")
  /\ \/ /\ 0 \notin closeReserved
        /\ closeReserved' = closeReserved \union {0}
        /\ UNCHANGED lock
        /\ Goto(w, "sendCrossed")
     \/ /\ 0 \in closeReserved \/ "refuse" \in Faults
        /\ UNCHANGED closeReserved
        /\ Retain
        /\ EndCycle(w)
  /\ UNCHANGED <<doc, incident, reserved, told, mem, attempt, exchange>>

SendCrossed(w) ==
  /\ At(w, "sendCrossed")
  /\ position = "open"
  /\ close' = [close EXCEPT ![0] = "sent"]
  /\ Goto(w, "awaitCrossed")
  /\ UNCHANGED <<redis, told, mem, attempt, stops, position>>

CrossedNotSent(w) ==
  /\ At(w, "sendCrossed")
  /\ position = "flat" \/ "refuse" \in Faults
  /\ Alert(w)
  /\ Release
  /\ EndCycle(w)
  /\ UNCHANGED <<doc, incident, reserved, closeReserved, mem, attempt, exchange>>

\* Slip: the lock is released after an unconfirmed close
AwaitCrossedReleases(w) ==
  /\ At(w, "awaitCrossed")
  /\ Release
  /\ \/ position = "flat" /\ UNCHANGED told /\ Goto(w, "remove")
     \/ (position = "open" \/ "lost" \in Faults) /\ Alert(w) /\ EndCycle(w)
  /\ UNCHANGED <<doc, incident, reserved, closeReserved, mem, attempt, exchange>>

\* Only a close confirmed by a flat leg ends the lifecycle.
AwaitCrossed(w) ==
  /\ At(w, "awaitCrossed")
  /\ Retain
  /\ \/ position = "flat" /\ UNCHANGED told /\ Goto(w, "remove")
     \/ (position = "open" \/ "lost" \in Faults) /\ Alert(w) /\ EndCycle(w)
  /\ UNCHANGED <<doc, incident, reserved, closeReserved, mem, attempt, exchange>>

-----------------------------------------------------------------------------
\* A worker stops, or an exception leaves the cycle: nothing is saved and a
\* lock it holds stays behind.
Crash(w) ==
  /\ "crash" \in Faults
  /\ ~At(w, "idle")
  /\ lock' = IF lock = w THEN Orphan ELSE lock
  /\ mem' = [mem EXCEPT ![w] = Nil]
  /\ attempt' = [attempt EXCEPT ![w] = 0]
  /\ Goto(w, "idle")
  /\ UNCHANGED <<doc, incident, reserved, closeReserved, told, exchange>>

\* The exchange, and whoever else uses the account.

SettleStop(i) ==
  /\ stops[i].state = "sent"
  /\ \/ position = "open" /\ stops' = [stops EXCEPT ![i].state = "live"]
     \/ stops' = [stops EXCEPT ![i].state = "rejected"]
  /\ UNCHANGED <<redis, told, workers, close, position>>

StopTriggers(i) ==
  /\ stops[i].state = "live"
  /\ \/ /\ position = "open"
        /\ stops' = [stops EXCEPT ![i].state = "filled"]
        /\ position' = "flat"
     \/ /\ stops' = [stops EXCEPT ![i].state = "failed"]
        /\ UNCHANGED position
  /\ UNCHANGED <<redis, told, workers, close>>

StopCancelledElsewhere(i) ==
  /\ stops[i].state = "live"
  /\ stops' = [stops EXCEPT ![i].state = "cancelled"]
  /\ UNCHANGED <<redis, told, workers, close, position>>

SettleClose(a) ==
  /\ close[a] = "sent"
  /\ \/ /\ position = "open"
        /\ close' = [close EXCEPT ![a] = "filled"]
        /\ position' = "flat"
     \/ /\ close' = [close EXCEPT ![a] = "refused"]
        /\ UNCHANGED position
  /\ UNCHANGED <<redis, told, workers, stops>>

-----------------------------------------------------------------------------
Replacing(w) ==
  \/ BeginReplace(w) \/ ReplaceUnauthorised(w) \/ ReserveStops(w)
  \/ CancelStop(w) \/ Recheck(w) \/ CreateStop(w) \/ CreateFails(w)
  \/ StopArmed(w) \/ StopNotArmed(w) \/ StopRaised(w)

Recovering(w) ==
  \/ IncidentUnreadable(w) \/ TakeIncident(w)
  \/ JudgeUnreadable(w) \/ JudgeBlocked(w) \/ JudgeEligible(w) \/ Revalidate(w)
  \/ ReserveClose(w) \/ SendClose(w) \/ CloseNotSent(w) \/ AwaitClose(w)

Crossing(w) ==
  \/ CrossFlat(w) \/ CrossWait(w) \/ CrossStart(w) \/ CancelCrossed(w)
  \/ RecheckCrossed(w) \/ ReserveCrossed(w)
  \/ SendCrossed(w) \/ CrossedNotSent(w) \/ AwaitCrossed(w)

WorkerStep(w) ==
  \/ Load(w) \/ Save(w) \/ Verify(w) \/ VerifyFails(w) \/ NothingToDo(w)
  \/ Replacing(w) \/ Recovering(w) \/ Crossing(w)

Next ==
  \/ \E w \in Worker : WorkerStep(w) \/ Crash(w)
  \/ \E i \in StopId : SettleStop(i) \/ StopTriggers(i) \/ StopCancelledElsewhere(i)
  \/ \E a \in Attempt : SettleClose(a)

Spec == Init /\ [][Next]_vars

\* Threads are scheduled and the exchange settles what it was sent; reads of the
\* stop and the lock's SET-NX do not fail every time.
Fairness ==
  /\ \A w \in Worker : /\ WF_vars(WorkerStep(w))
                       /\ SF_vars(Verify(w))
                       /\ SF_vars(TakeIncident(w) /\ lock' = w)
  /\ \A i \in StopId : WF_vars(SettleStop(i))
  /\ \A a \in Attempt : WF_vars(SettleClose(a))

FairSpec == Spec /\ Fairness

-----------------------------------------------------------------------------
\* At most one stop works, or is about to, for the leg, however workers with
\* different copies of the entry replace it (broker.py cancels before it creates).
OneStop == Cardinality(Live \union Sent) <= 1

\* A stop that works is never looser than any stop that was armed before it:
\* neither a worker with an old copy nor a rollback moves protection back.
NeverLoosened ==
  \A i \in Live, j \in StopId :
    stops[j].state \in {"live", "cancelled", "failed"} /\ j <= i
      => stops[j].level <= stops[i].level

\* The leg is closed by a market order at most once, whichever path, worker or
\* attempt sends it (falcon_terminal_stop_acquire_lifecycle_lock).
OneClose == Cardinality({a \in Attempt : close[a] # "none"}) <= 1

\* The emergency closes a leg only while nothing protects it: no stop works or
\* is on its way when the market order leaves.
EmergencyOnlyUnprotected ==
  [][\A w \in Worker : SendClose(w) => Live \union Sent = {}]_vars

\* Once a close was sent no stop is created for the leg any more: it could only
\* fire on a leg that is gone (the lock is kept when a close was sent).
NoStopAfterClose ==
  [][\A i \in StopId : stops[i].state = "none" /\ stops'[i].state = "sent"
                         => \A a \in Attempt : close[a] = "none"]_vars

\* The leg is open, still managed, and neither a stop nor a close is working.
Exposed ==
  /\ doc # Nil
  /\ position = "open"
  /\ Live \union Sent = {}
  /\ \A a \in Attempt : close[a] = "none"

\* A leg that lost its protection is protected or closed again, or somebody is
\* told, or an orphaned lifecycle lock holds everything back.
LossIsHandled ==
  Exposed ~> (~Exposed \/ (doc # Nil /\ doc.stop \in told) \/ lock = Orphan)

\* docs/04-Execution-Flow.md, I and K: after a failed cancellation or creation a
\* rollback or a fail-safe is attempted, and a leg without protection is critical.
\* Refuted: the lock that the failed replacement keeps stops the emergency too.
LossIsContained ==
  Exposed ~> (~Exposed \/ (doc # Nil /\ doc.stop \in told))
=============================================================================
