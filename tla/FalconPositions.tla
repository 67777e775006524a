---------------------------- MODULE FalconPositions ----------------------------
(***************************************************************************)
(* The positions document of Falcon (bots/falcon.py): one JSON value in    *)
(* Redis that two threads and an HTTP handler read whole and write whole.  *)
(* scanner_loop loads it when a scan begins and saves its copy with every  *)
(* entry; management_loop loads it, manages each position of its copy and  *)
(* saves the copy; falcon_reconcile_remove_position takes a position out   *)
(* that the exchange no longer has, and leaves a tombstone.                *)
(*                                                                         *)
(* position_mutation_lock covers one access, and a whole reconciliation:   *)
(* each is one step.  The document is keyed by position_id; the day is     *)
(* fixed, and with the default settings a symbol has one key a day.        *)
(***************************************************************************)
EXTENDS Naturals, FiniteSets

CONSTANTS
  Symbol,
  MaxOpenPositions,  \* FALCON_MAX_OPEN_POSITIONS
  MaxStop,           \* bound: how often a stop is improved
  MaxEntries,        \* bound: entries of a symbol
  MaxFaults,         \* bound: accesses to Redis that fail
  MaxRestarts,       \* bound: restarts of the process
  None               \* no position

VARIABLES
  doc,         \* falcon:positions
  tombstones,  \* lifecycles reconciled away, in Redis
  memory,      \* _central_only_tombstones_memory
  signals,     \* symbols in the list of accepted signals
  trades,      \* lifecycles in the list of closed trades
  scan,        \* scanner_loop: its copy, the symbols to look at, its step
  manage,      \* management_loop: its copy, the positions to manage, those closed
  entered,     \* entries executed, by symbol
  legs,        \* lifecycles the exchange has a position of
  removed,     \* lifecycles reported CENTRAL_ONLY_POSITION_REMOVED
  faults, restarts,
  misread      \* whether a read of the tombstones failed: a history variable

central == <<tombstones, memory, removed>>
lists == <<signals, trades>>
exchange == <<entered, legs>>
budget == <<faults, restarts, misread>>
vars == <<doc, central, lists, scan, manage, exchange, budget>>

Life == Symbol \X (1..MaxEntries)
Position ==
  [life: Life,
   stop: 0..MaxStop,
   flat: BOOLEAN]     \* central_only_reconcile_required, with its evidence

ASSUME PositionsAssumption ==
  /\ {MaxOpenPositions, MaxStop, MaxEntries, MaxFaults, MaxRestarts} \subseteq Nat
  /\ None \notin Position

Document == [Symbol -> Position \union {None}]
NoPositions == [s \in Symbol |-> None]
Keys(d) == {s \in Symbol : d[s] # None}

ScanIdle == [at |-> "idle", copy |-> NoPositions, todo |-> {}, sig |-> None]
ManageIdle == [at |-> "idle", copy |-> NoPositions, todo |-> {}, closed |-> {}]

TypeOK ==
  /\ doc \in Document
  /\ tombstones \union memory \union trades \union legs \union removed \subseteq Life
  /\ signals \subseteq Symbol
  /\ scan \in [at: {"idle", "look", "persist", "signal"}, copy: Document,
               todo: SUBSET Symbol, sig: Symbol \union {None}]
  /\ manage \in [at: {"idle", "manage"}, copy: Document, todo: SUBSET Symbol,
                 closed: SUBSET Symbol]
  /\ entered \in [Symbol -> 0..MaxEntries]
  /\ faults \in 0..MaxFaults
  /\ restarts \in 0..MaxRestarts
  /\ misread \in BOOLEAN
  /\ \A s \in Keys(doc) : doc[s].life[1] = s /\ doc[s].life[2] <= entered[s]
  /\ manage.closed \subseteq Keys(manage.copy)

Init ==
  /\ doc = NoPositions
  /\ tombstones = {} /\ memory = {} /\ removed = {}
  /\ signals = {} /\ trades = {}
  /\ scan = ScanIdle /\ manage = ManageIdle
  /\ entered = [s \in Symbol |-> 0] /\ legs = {}
  /\ faults = 0 /\ restarts = 0 /\ misread = FALSE

-----------------------------------------------------------------------------
NoFault == UNCHANGED faults
Fault == faults < MaxFaults /\ faults' = faults + 1

\* redis_get_json: a read that fails yields the default.
Read(value, default, result) ==
  \/ result = value /\ NoFault
  \/ result = default /\ Fault

ReadTombstones(found) ==
  \/ found = tombstones /\ NoFault /\ UNCHANGED misread
  \/ found = {} /\ Fault /\ misread' = TRUE

Without(d, gone) == [s \in Symbol |-> IF s \in gone THEN None ELSE d[s]]

\* falcon_filter_reconciled_positions, given what was read of the tombstones.
Filter(d, found) ==
  Without(d, {s \in Keys(d) : d[s].life \in found \union memory})

\* save_positions.
SavePositions(d) ==
  \/ \E found \in {tombstones, {}} : ReadTombstones(found) /\ doc' = Filter(d, found)
  \/ Fault /\ UNCHANGED <<doc, misread>>

-----------------------------------------------------------------------------
\* scanner_loop.

ScanStart ==
  /\ scan.at = "idle"
  /\ \E d \in {doc, NoPositions} :
       /\ Read(doc, NoPositions, d)
       /\ scan' = [ScanIdle EXCEPT !.at = "look", !.copy = d, !.todo = Symbol]
  /\ UNCHANGED <<doc, central, lists, manage, exchange, restarts, misread>>

\* Slip: only what was closed today counts
TradedAmongClosed(s, listed, closed) == \E t \in closed : t[1] = s

\* had_trade_today, given what was read of the two lists.
HadTradeToday(s, listed, closed) == s \in listed \/ \E t \in closed : t[1] = s

Pass(s) ==
  /\ scan.at = "look" /\ s \in scan.todo
  /\ scan' = [scan EXCEPT !.todo = @ \ {s}]
  /\ UNCHANGED <<doc, central, lists, manage, exchange, budget>>

\* A signal that is let through is executed: the exchange has a new position.
Execute(s) ==
  LET copy == scan.copy IN
  /\ scan.at = "look" /\ s \in scan.todo
  /\ Cardinality(Keys(copy)) < MaxOpenPositions
  /\ copy[s] = None
  /\ \E listed \in {signals, {}} : \E closed \in {trades, {}} :
       /\ Read(<<signals, trades>>, <<{}, {}>>, <<listed, closed>>)
       /\ ~HadTradeToday(s, listed, closed)
  /\ entered[s] < MaxEntries
  /\ entered' = [entered EXCEPT ![s] = @ + 1]
  /\ legs' = legs \union {<<s, entered[s] + 1>>}
  /\ scan' = [scan EXCEPT !.at = "persist", !.todo = @ \ {s}, !.sig = s]
  /\ UNCHANGED <<doc, central, lists, manage, restarts, misread>>

\* falcon_persist_accepted_signal: the copy of this scan is saved, with the entry.
PersistAccepted ==
  LET s == scan.sig
      copy == [scan.copy EXCEPT ![s] =
                 [life |-> <<s, entered[s]>>, stop |-> 0, flat |-> FALSE]] IN
  /\ scan.at = "persist"
  /\ scan' = [scan EXCEPT !.at = "signal", !.copy = copy]
  /\ SavePositions(copy)
  /\ UNCHANGED <<central, lists, manage, exchange, restarts>>

\* redis_list_append reads the list and writes it.
AppendSignal ==
  /\ scan.at = "signal"
  /\ \/ \E listed \in {signals, {}} :
          Read(signals, {}, listed) /\ signals' = listed \union {scan.sig}
     \/ Fault /\ UNCHANGED signals
  /\ scan' = [scan EXCEPT !.at = "look", !.sig = None]
  /\ UNCHANGED <<doc, central, trades, manage, exchange, restarts, misread>>

ScanEnd ==
  /\ scan.at = "look"
  /\ scan' = ScanIdle
  /\ UNCHANGED <<doc, central, lists, manage, exchange, budget>>

-----------------------------------------------------------------------------
\* management_loop.

ManageStart ==
  /\ manage.at = "idle"
  /\ \E d \in {doc, NoPositions} :
       /\ Read(doc, NoPositions, d)
       /\ manage' = [ManageIdle EXCEPT !.at = "manage", !.copy = d, !.todo = Keys(d)]
  /\ UNCHANGED <<doc, central, lists, scan, exchange, restarts, misread>>

Managed(s) == manage.at = "manage" /\ s \in manage.todo

\* The leg is gone, and it is not known by which fill.
FindFlat(s) ==
  /\ Managed(s)
  /\ manage.copy[s].life \notin legs
  /\ manage' = [manage EXCEPT !.todo = @ \ {s}, !.copy[s].flat = TRUE]
  /\ UNCHANGED <<doc, central, lists, scan, exchange, budget>>

\* Break even and trailing; or nothing is done.
Hold(s) ==
  /\ Managed(s)
  /\ manage.copy[s].life \in legs
  /\ \E stop \in {manage.copy[s].stop, manage.copy[s].stop + 1} :
       /\ stop <= MaxStop
       /\ manage' = [manage EXCEPT !.todo = @ \ {s}, !.copy[s].stop = stop,
                                   !.copy[s].flat = FALSE]
  /\ UNCHANGED <<doc, central, lists, scan, exchange, budget>>

\* The stop was crossed, or its fill is confirmed: close_position.
ClosePosition(s) ==
  LET life == manage.copy[s].life IN
  /\ Managed(s)
  /\ legs' = legs \ {life}
  /\ \/ \E closed \in {trades, {}} :
          Read(trades, {}, closed) /\ trades' = closed \union {life}
     \/ Fault /\ UNCHANGED trades
  /\ manage' = [manage EXCEPT !.todo = @ \ {s}, !.closed = @ \union {s}]
  /\ UNCHANGED <<doc, central, signals, scan, entered, restarts, misread>>

ManageEnd ==
  /\ manage.at = "manage" /\ manage.todo = {}
  /\ SavePositions(Without(manage.copy, manage.closed))
  /\ manage' = ManageIdle
  /\ UNCHANGED <<central, lists, scan, exchange, restarts>>

\* An exception ends the cycle, and what it did is not saved.
ManageRaises ==
  /\ manage.at = "manage"
  /\ manage' = ManageIdle
  /\ UNCHANGED <<doc, central, lists, scan, exchange, budget>>

-----------------------------------------------------------------------------
\* Slip: the tombstone is written after the position was taken out
ReconcileRemoveFirst(s) ==
  /\ doc[s] # None /\ doc[s].flat
  /\ doc' = Without(doc, {s})
  /\ removed' = removed \union {doc[s].life}
  /\ \/ tombstones' = tombstones \union {doc[s].life} /\ NoFault
     \/ Fault /\ UNCHANGED tombstones
  /\ memory' = tombstones'
  /\ UNCHANGED <<lists, scan, manage, exchange, restarts, misread>>

\* falcon_reconcile_remove_position, for a position seen flat.  The tombstone is
\* written first; the memory becomes what was read with the new one.
ReconcileRemove(s) ==
  LET life == doc[s].life
      Entomb(found) == tombstones' = found \union {life} /\ memory' = tombstones' IN
  /\ doc[s] # None /\ doc[s].flat
  /\ \/ /\ \E found \in {tombstones, {}} : ReadTombstones(found) /\ Entomb(found)
        /\ doc' = Filter(doc, tombstones')
        /\ removed' = removed \union {life}
     \/ Fault /\ Entomb(tombstones) /\ UNCHANGED <<doc, removed, misread>>
     \/ Fault /\ UNCHANGED <<doc, central, misread>>
  /\ UNCHANGED <<lists, scan, manage, exchange, restarts>>

\* The leg is closed by its stop, or by hand.
LegGone(life) ==
  /\ life \in legs
  /\ legs' = legs \ {life}
  /\ UNCHANGED <<doc, central, lists, scan, manage, entered, budget>>

Restart ==
  /\ restarts < MaxRestarts
  /\ restarts' = restarts + 1
  /\ scan' = ScanIdle /\ manage' = ManageIdle /\ memory' = {}
  /\ UNCHANGED <<doc, tombstones, removed, lists, exchange, faults, misread>>

Next ==
  \/ ScanStart \/ PersistAccepted \/ AppendSignal \/ ScanEnd
  \/ \E s \in Symbol : Pass(s) \/ Execute(s)
  \/ ManageStart \/ ManageEnd \/ ManageRaises
  \/ \E s \in Symbol : FindFlat(s) \/ Hold(s) \/ ClosePosition(s)
  \/ \E s \in Symbol : ReconcileRemove(s)
  \/ \E life \in Life : LegGone(life)
  \/ Restart

Spec == Init /\ [][Next]_vars

-----------------------------------------------------------------------------
\* falcon_filter_reconciled_positions, "Drop exact tombstoned identities before
\* any Redis save, including stale saves": a lifecycle that was reconciled away
\* is not in the document again, as long as the tombstones can be read.
TombstonesHold == misread \/ \A s \in Keys(doc) : doc[s].life \notin removed

\* A symbol is entered once a day, whatever the threads overwrite of each other,
\* unless Redis failed or the process restarted that day.
OneEntryPerDay == faults + restarts = 0 => \A s \in Symbol : entered[s] <= 1

\* falcon_persist_accepted_signal, "consume that fact exactly once": a position
\* leaves the document only when its leg is gone.
AcceptedStaysManaged ==
  [][\A s \in Keys(doc) :
       doc[s].life \in legs => doc'[s] # None /\ doc'[s].life = doc[s].life]_vars

\* docs/04-Execution-Flow.md, TRAILING_ACTIVE must not loosen the risk: the stop
\* in force for a position is not taken back.
StopNeverLoosens ==
  [][\A s \in Keys(doc) \intersect Keys(doc') :
       doc'[s].life = doc[s].life => doc'[s].stop >= doc[s].stop]_vars
=============================================================================
