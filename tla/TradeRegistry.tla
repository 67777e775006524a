------------------------------ MODULE TradeRegistry ------------------------------
(***************************************************************************)
(* The records of one trade_id in the Trade Registry (trade_registry.py),  *)
(* and the processes that read and write them.  A trade_id is made of bot, *)
(* symbol, side and setup: execution after execution uses it again, so     *)
(* only lifecycle, order and client order ids tell a record's execution.   *)
(*                                                                         *)
(* Falcon's scanner registers an entry and its manager closes it           *)
(* (bots/falcon.py); the autosync threads register what a bot has and the  *)
(* registry lacks, and mark what the bot no longer has; an operator closes *)
(* what the exchange no longer has, records the outcome of such a close,   *)
(* and restores a lost CLOSED record (main.py).                            *)
(*                                                                         *)
(* Every writer loads the document, changes it and saves it whole under    *)
(* the lock of the registry: one step, which leaves other keys alone.      *)
(***************************************************************************)
EXTENDS Naturals, Sequences, FiniteSets

CONSTANTS
  Execution,   \* lifecycles that use the trade_id
  Event,       \* close_event_id of manual outcomes
  Thread,      \* autosync threads
  MaxFaults,   \* bound: reads and saves that fail, and restarts of the process
  None         \* no record, no identity

Position == [life: Execution, flat: BOOLEAN]   \* flat: with evidence that it is gone

ASSUME RegistryAssumption ==
  /\ MaxFaults \in Nat
  /\ None \notin Execution /\ None \notin Position
  /\ {"unknown", "factual"} \intersect Event = {}

VARIABLES
  open,     \* open_trades[trade_id]
  closed,   \* the records of the trade_id in closed_trades
  pos,      \* the slot of the symbol in Falcon's positions document
  tombs,    \* lifecycles reconciled away
  live,     \* lifecycles the exchange has a position of
  entered,  \* executions sent so far
  scan, manage, sync,               \* threads: where they are, what they read
  missing, flat, manual,            \* requests of the operator: the same
  faults

registry == <<open, closed>>
falcon == <<pos, tombs>>
exchange == <<live, entered>>
routes == <<missing, flat, manual>>
vars == <<registry, falcon, exchange, scan, manage, sync, routes, faults>>

\* life: the execution that all identity fields of a record agree on, if any.
Open == [life: Execution \union {None}, missing: BOOLEAN]
Closed ==
  [life: Execution \union {None},
   reason: {"bot", "missing", "flat", "recovered"},
   outcome: {"unknown", "factual"} \union Event]

OfExecution(x) == {i \in DOMAIN closed : closed[i].life = x}
OpenIs(x) == open # None /\ open.life = x

SyncIdle == [at |-> "idle", known |-> FALSE, map |-> None]
ScanIdle == [at |-> "idle", copy |-> None, life |-> None]
ManageIdle == [at |-> "idle", copy |-> None]
RouteIdle == [at |-> "idle", life |-> None]
ManualIdle == [at |-> "idle", life |-> None, event |-> None]

Scan == [at: {"idle", "look", "register", "save"},
         copy: Position \union {None}, life: Execution \union {None}]
Manage == [at: {"idle", "verify", "act", "close", "end"}, copy: Position \union {None}]
Sync == [at: {"idle", "map", "positions", "register", "mark"},
         known: BOOLEAN, map: Open \union {None}]
Missing == [at: {"idle", "close"}, life: Execution \union {None}]
Flat == [at: {"idle", "match", "close", "remove"}, life: Execution \union {None}]
Manual == [at: {"idle", "positions", "record"}, life: Execution \union {None},
           event: Event \union {None}]

TypeOK ==
  /\ open \in Open \union {None}
  /\ closed \in Seq(Closed)
  /\ pos \in Position \union {None}
  /\ tombs \subseteq entered /\ live \subseteq entered /\ entered \subseteq Execution
  /\ scan \in Scan /\ manage \in Manage /\ sync \in [Thread -> Sync]
  /\ missing \in Missing /\ flat \in Flat /\ manual \in Manual
  /\ faults \in 0..MaxFaults

Init ==
  /\ open = None /\ closed = <<>>
  /\ pos = None /\ tombs = {}
  /\ live = {} /\ entered = {}
  /\ scan = ScanIdle /\ manage = ManageIdle
  /\ sync = [t \in Thread |-> SyncIdle]
  /\ missing = RouteIdle /\ flat = RouteIdle /\ manual = ManualIdle
  /\ faults = 0

-----------------------------------------------------------------------------
NoFault == UNCHANGED faults
Fault == faults < MaxFaults /\ faults' = faults + 1

\* redis_get_json: a read that fails yields an empty document.
ReadPosition(found) ==
  \/ found = pos /\ NoFault
  \/ found = None /\ Fault

\* save_registry: false when it fails, and the file is as it was.
Save(o, c) ==
  \/ open' = o /\ closed' = c /\ NoFault
  \/ UNCHANGED registry /\ Fault

Record(x, reason, outcome) == [life |-> x, reason |-> reason, outcome |-> outcome]

\* close_trade of the OPEN record, whoever it belongs to.
Pop(record) == Save(None, Append(closed, record))

-----------------------------------------------------------------------------
\* scanner_loop: one entry, from the positions it starts with to the copy it saves.
\* When every execution is entered, a scan has nothing left to do.

ScanStart ==
  /\ scan.at = "idle" /\ entered # Execution
  /\ \E found \in {pos, None} :
       ReadPosition(found) /\ scan' = [ScanIdle EXCEPT !.at = "look", !.copy = found]
  /\ UNCHANGED <<registry, falcon, exchange, manage, sync, routes>>

ScanEnd ==
  /\ scan.at = "look"
  /\ scan' = ScanIdle
  /\ UNCHANGED <<registry, falcon, exchange, manage, sync, routes, faults>>

Enter(x) ==
  /\ scan.at = "look" /\ scan.copy = None
  /\ x \notin entered
  /\ live' = live \union {x} /\ entered' = entered \union {x}
  /\ scan' = [scan EXCEPT !.at = "register", !.life = x]
  /\ UNCHANGED <<registry, falcon, manage, sync, routes, faults>>

\* register_falcon_trade_registry_open: a save that fails is only logged.
Register ==
  /\ scan.at = "register"
  /\ Save([life |-> scan.life, missing |-> FALSE], closed)
  /\ scan' = [scan EXCEPT !.at = "save"]
  /\ UNCHANGED <<falcon, exchange, manage, sync, routes>>

SavePosition ==
  /\ scan.at = "save"
  /\ \/ pos' = [life |-> scan.life, flat |-> FALSE] /\ NoFault
     \/ UNCHANGED pos /\ Fault
  /\ scan' = ScanIdle
  /\ UNCHANGED <<registry, tombs, exchange, manage, sync, routes>>

-----------------------------------------------------------------------------
\* management_loop: one cycle over its copy of the positions.

ManageStart ==
  /\ manage.at = "idle"
  /\ \E found \in {pos, None} :
       /\ ReadPosition(found)
       /\ manage' = [at |-> IF found = None THEN "end" ELSE "verify", copy |-> found]
  /\ UNCHANGED <<registry, falcon, exchange, scan, sync, routes>>

\* falcon_verify_live_disaster_stop: flat, managed, or blocked until the next cycle.
Verify ==
  /\ manage.at = "verify"
  /\ \/ live = {} /\ manage' = [at |-> "end", copy |-> [manage.copy EXCEPT !.flat = TRUE]]
     \/ manage.copy.life \in live
        /\ manage' = [at |-> "act", copy |-> [manage.copy EXCEPT !.flat = FALSE]]
     \/ live # {}
        /\ manage' = [at |-> "end", copy |-> [manage.copy EXCEPT !.flat = FALSE]]
  /\ UNCHANGED <<registry, falcon, exchange, scan, sync, routes, faults>>

Hold ==
  /\ manage.at = "act"
  /\ manage' = [manage EXCEPT !.at = "end"]
  /\ UNCHANGED <<registry, falcon, exchange, scan, sync, routes, faults>>

\* The broker confirms a close of the whole leg.
CloseLeg ==
  /\ manage.at = "act" /\ manage.copy.life \in live
  /\ live' = live \ {manage.copy.life}
  /\ manage' = [manage EXCEPT !.at = "close"]
  /\ UNCHANGED <<registry, falcon, entered, scan, sync, routes, faults>>

\* Without an expected identity close_trade takes whatever record is OPEN; the
\* order ids of the position go into it, beside those it has.
CloseTrade ==
  LET x == manage.copy.life
      agreed == IF open # None /\ open.life = x THEN x ELSE None IN
  /\ manage.at = "close"
  /\ IF open # None THEN Pop(Record(agreed, "bot", "factual"))
                    ELSE UNCHANGED registry /\ NoFault
  /\ manage' = [at |-> "end", copy |-> None]
  /\ UNCHANGED <<falcon, exchange, scan, sync, routes>>

\* save_positions, which leaves out what is reconciled away.
ManageEnd ==
  /\ manage.at = "end"
  /\ \/ /\ pos' = IF manage.copy # None /\ manage.copy.life \in tombs
                    THEN None ELSE manage.copy
        /\ NoFault
     \/ UNCHANGED pos /\ Fault
  /\ manage' = ManageIdle
  /\ UNCHANGED <<registry, tombs, exchange, scan, sync, routes>>

-----------------------------------------------------------------------------
\* sync_central_trade_registry_from_loaded_bots, by every autosync thread.

At(t, step) == sync[t].at = step
Goto(t, step) == sync' = [sync EXCEPT ![t].at = step, ![t].known = FALSE]
SyncEnds(t) == sync' = [sync EXCEPT ![t] = SyncIdle]

SyncIds(t) ==
  /\ At(t, "idle")
  /\ sync' = [sync EXCEPT ![t] = [at |-> "map", known |-> open # None, map |-> None]]
  /\ UNCHANGED <<registry, falcon, exchange, scan, manage, routes, faults>>

SyncMap(t) ==
  /\ At(t, "map")
  /\ sync' = [sync EXCEPT ![t].at = "positions", ![t].map = open]
  /\ UNCHANGED <<registry, falcon, exchange, scan, manage, routes, faults>>

SyncPositions(t) ==
  /\ At(t, "positions")
  /\ \E found \in {pos, None} :
       /\ ReadPosition(found)
       /\ \/ /\ found # None /\ ~sync[t].known /\ sync[t].map = None
             /\ Goto(t, "register")
          \/ /\ found = None /\ sync[t].map # None
             /\ Goto(t, "mark")
          \/ /\ IF found = None THEN sync[t].map = None
                                ELSE sync[t].known \/ sync[t].map # None
             /\ SyncEnds(t)
  /\ UNCHANGED <<registry, falcon, exchange, scan, manage, routes>>

\* A record without lifecycle, order or client order id.
SyncRegister(t) ==
  /\ At(t, "register")
  /\ Save([life |-> None, missing |-> FALSE], closed)
  /\ SyncEnds(t)
  /\ UNCHANGED <<falcon, exchange, scan, manage, routes>>

\* Slip: the record of the map is marked and written
SyncMarkOfMap(t) ==
  /\ At(t, "mark")
  /\ Save([sync[t].map EXCEPT !.missing = TRUE], closed)
  /\ SyncEnds(t)
  /\ UNCHANGED <<falcon, exchange, scan, manage, routes>>

\* mark_registry_missing_trades: the record is read again under the lock.
SyncMark(t) ==
  /\ At(t, "mark")
  /\ IF open # None /\ ~open.missing
       THEN Save([open EXCEPT !.missing = TRUE], closed)
       ELSE UNCHANGED registry /\ NoFault
  /\ SyncEnds(t)
  /\ UNCHANGED <<falcon, exchange, scan, manage, routes>>

-----------------------------------------------------------------------------
\* The operator closes an execution that is missing, by its exact ids.  What
\* _rtlm_v14_resolve_missing_from_bots_close finds in the registry between the
\* two steps only refuses early what close_trade refuses under the lock.

MissingRead(x) ==
  /\ missing.at = "idle" /\ x \in entered
  /\ live = {}
  /\ missing' = [at |-> "close", life |-> x]
  /\ UNCHANGED <<registry, falcon, exchange, scan, manage, sync,
                 flat, manual, faults>>

\* Slip: whatever is OPEN and missing under the trade_id
MissingCloseByTradeId ==
  /\ missing.at = "close"
  /\ IF open # None /\ open.missing THEN Pop(Record(open.life, "missing", "unknown"))
                                    ELSE UNCHANGED registry /\ NoFault
  /\ missing' = RouteIdle
  /\ UNCHANGED <<falcon, exchange, scan, manage, sync, flat, manual>>

MissingClose ==
  LET x == missing.life IN
  /\ missing.at = "close"
  /\ IF OpenIs(x) /\ open.missing THEN Pop(Record(x, "missing", "unknown"))
                                  ELSE UNCHANGED registry /\ NoFault
  /\ missing' = RouteIdle
  /\ UNCHANGED <<falcon, exchange, scan, manage, sync, flat, manual>>

-----------------------------------------------------------------------------
\* The operator reconciles a position the manager has found flat: its record is
\* closed, and then the position removed.  _FCOR_V1_LOCK: one at a time.

FlatRead ==
  /\ flat.at = "idle"
  /\ pos # None /\ pos.flat
  /\ flat' = [at |-> "match", life |-> pos.life]
  /\ UNCHANGED <<registry, falcon, exchange, scan, manage, sync,
                 missing, manual, faults>>

\* Exactly one record, OPEN or CLOSED, with all ids of the position.
FlatMatch ==
  LET x == flat.life
      found == Cardinality(OfExecution(x)) IN
  /\ flat.at = "match"
  /\ flat' = IF OpenIs(x) /\ found = 0 THEN [flat EXCEPT !.at = "close"]
             ELSE IF ~OpenIs(x) /\ found = 1 THEN [flat EXCEPT !.at = "remove"]
             ELSE RouteIdle
  /\ UNCHANGED <<registry, falcon, exchange, scan, manage, sync,
                 missing, manual, faults>>

FlatClose ==
  LET x == flat.life
      done == [flat EXCEPT !.at = "remove"] IN
  /\ flat.at = "close"
  /\ \/ /\ OpenIs(x)
        /\ Pop(Record(x, "flat", "unknown"))
        /\ flat' = IF registry' = registry THEN RouteIdle ELSE done
     \/ /\ ~OpenIs(x)
        /\ flat' = IF open = None /\ Cardinality(OfExecution(x)) = 1
                     THEN done ELSE RouteIdle
        /\ UNCHANGED registry /\ NoFault
  /\ UNCHANGED <<falcon, exchange, scan, manage, sync, missing, manual>>

\* falcon_reconcile_remove_position.
FlatRemove ==
  LET found == pos # None /\ pos.life = flat.life /\ pos.flat IN
  /\ flat.at = "remove"
  /\ pos' = IF found THEN None ELSE pos
  /\ tombs' = IF found THEN tombs \union {flat.life} ELSE tombs
  /\ flat' = RouteIdle
  /\ UNCHANGED <<registry, exchange, scan, manage, sync, missing, manual, faults>>

-----------------------------------------------------------------------------
\* The operator records what a close that was only observed has brought.
\* _FMCOR_V1_LOCK: one at a time.

\* Slip: any CLOSED record without an outcome of its own
ManualReadAny(x, e) ==
  /\ manual.at = "idle"
  /\ ~OpenIs(x)
  /\ \E i \in DOMAIN closed :
       OfExecution(x) = {i} /\ closed[i].outcome \notin Event \ {e}
  /\ manual' = [at |-> "positions", life |-> x, event |-> e]
  /\ UNCHANGED <<registry, falcon, exchange, scan, manage, sync,
                 missing, flat, faults>>

\* _fmcor_v1_build_candidate, the registry.
ManualRead(x, e) ==
  /\ manual.at = "idle"
  /\ ~OpenIs(x)
  /\ \E i \in DOMAIN closed :
       /\ OfExecution(x) = {i}
       /\ closed[i].reason \in {"missing", "flat"}
       /\ closed[i].outcome \notin Event \ {e}
  /\ manual' = [at |-> "positions", life |-> x, event |-> e]
  /\ UNCHANGED <<registry, falcon, exchange, scan, manage, sync,
                 missing, flat, faults>>

\* _fmcor_v1_build_candidate, the positions.
ManualPositions ==
  /\ manual.at = "positions"
  /\ \E found \in {pos, None} :
       /\ ReadPosition(found)
       /\ manual' = IF found # None /\ found.life = manual.life
                      THEN ManualIdle ELSE [manual EXCEPT !.at = "record"]
  /\ UNCHANGED <<registry, falcon, exchange, scan, manage, sync,
                 missing, flat>>

\* record_manual_close_outcome.
ManualRecord ==
  LET x == manual.life
      mine == OfExecution(x) IN
  /\ manual.at = "record"
  /\ \/ /\ ~OpenIs(x)
        /\ \E i \in mine :
             /\ mine = {i} /\ closed[i].outcome \notin Event
             /\ Save(open, [closed EXCEPT ![i].outcome = manual.event])
     \/ /\ OpenIs(x) \/ Cardinality(mine) # 1
           \/ \E i \in mine : closed[i].outcome \in Event
        /\ UNCHANGED registry /\ NoFault
  /\ manual' = ManualIdle
  /\ UNCHANGED <<falcon, exchange, scan, manage, sync, missing, flat>>

-----------------------------------------------------------------------------
\* registry_persistence_v12_recover_closed_trade_from_params.  The exchange is asked
\* before the lock is taken, and an answer that fails counts as no position: what
\* it has when the record is written is not known.
Recover ==
  /\ closed = <<>>
  /\ Pop(Record(None, "recovered", "factual"))
  /\ UNCHANGED <<falcon, exchange, scan, manage, sync, routes>>

-----------------------------------------------------------------------------
\* A stop is filled, or somebody closes the leg by hand.
LegGone(x) ==
  /\ x \in live
  /\ live' = live \ {x}
  /\ UNCHANGED <<registry, falcon, entered, scan, manage, sync, routes, faults>>

Restart ==
  /\ Fault
  /\ scan' = ScanIdle /\ manage' = ManageIdle
  /\ sync' = [t \in Thread |-> SyncIdle]
  /\ missing' = RouteIdle /\ flat' = RouteIdle /\ manual' = ManualIdle
  /\ UNCHANGED <<registry, falcon, exchange>>

Next ==
  \/ ScanStart \/ ScanEnd \/ Register \/ SavePosition
  \/ ManageStart \/ Verify \/ Hold \/ CloseLeg \/ CloseTrade \/ ManageEnd
  \/ \E t \in Thread : \/ SyncIds(t) \/ SyncMap(t) \/ SyncPositions(t)
                       \/ SyncRegister(t) \/ SyncMark(t)
  \/ MissingClose
  \/ FlatRead \/ FlatMatch \/ FlatClose \/ FlatRemove
  \/ ManualPositions \/ ManualRecord
  \/ Recover
  \/ \E x \in Execution :
       \/ Enter(x) \/ MissingRead(x) \/ LegGone(x)
       \/ \E e \in Event : ManualRead(x, e)
  \/ Restart

Spec == Init /\ [][Next]_vars

-----------------------------------------------------------------------------
\* A record closed because the exchange has nothing any more (by an operator, on a
\* read that other threads may have overtaken) is of an execution that really has
\* nothing there: the trade_id it shares with a live one never decides.
FlatWhenReconciled ==
  \A i \in DOMAIN closed : closed[i].reason \in {"missing", "flat"} => closed[i].life \notin live

\* No execution has two records with its identity, whatever saves fail and however
\* the threads that read before they write overtake each other: an older writer
\* does not bring back what is closed.
LifecycleOnce ==
  \A i \in DOMAIN closed :
    closed[i].life # None =>
      /\ ~OpenIs(closed[i].life)
      /\ \A j \in DOMAIN closed : closed[j].life = closed[i].life => j = i

OutcomeKept ==
  \A i \in DOMAIN closed :
    /\ i \in DOMAIN closed'
    /\ \/ closed'[i] = closed[i]
       \/ /\ closed[i].outcome = "unknown"
          /\ \E e \in Event : closed'[i] = [closed[i] EXCEPT !.outcome = e]

\* What is CLOSED stays, and only an outcome nobody knew is ever filled in, once.
OutcomeStands == [][OutcomeKept]_vars

\* Refuted: the only execution there ever was has a CLOSED record, and so no OPEN
\* one.  A copy of the positions that is older than the close makes the autosync
\* register the position again, without ids.
ClosedStaysClosed ==
  \A x \in Execution : entered = {x} /\ OfExecution(x) # {} => open = None
=============================================================================
