------------------------------ MODULE PaperTrading ------------------------------
(***************************************************************************)
(* PAPER trades: execute_paper_from_engine (paper_executor_integrated.py)  *)
(* opens them, update_paper_position_price (paper_lifecycle.py) closes     *)
(* them, evaluate_closed_paper_trades (outcome_evaluator.py) counts their  *)
(* results.  The three share one JSON file of positions; the executor also *)
(* keeps the idempotency keys it has seen, the evaluator its statistics.   *)
(*                                                                         *)
(* Nothing is locked and nothing is replaced atomically: a call reads      *)
(* whole files and writes whole files, and a write first truncates.  Calls *)
(* come from the threads of one process (bots and HTTP handlers), which    *)
(* may stop at any point.  A file that does not parse reads as empty.      *)
(***************************************************************************)
EXTENDS Naturals, FiniteSets

CONSTANTS
  Executor,     \* threads that execute PAPER plans
  Key,          \* idempotency keys
  MaxOpenings,  \* bound: openings under one key
  MaxClosings,  \* bound: closings
  MaxCrashes,   \* bound: stops of the process
  None,
  Torn          \* a file that does not parse

VARIABLES
  positions, seenKeys, stats,  \* the files
  exec,                    \* by executor: its step, its key and its copies
  life,                    \* paper_lifecycle: its step and its copy
  eval,                    \* outcome_evaluator: its step and its copies
  opened,                  \* openings so far, by key
  closings,                \* closings so far
  crashes

files == <<positions, seenKeys, stats>>
counters == <<opened, closings, crashes>>
paperVars == <<files, exec, life, eval, counters>>

\* An opening is known by its opened_at; a closed execution also by its
\* closed_at, which is part of closed_trade_identity_state.
Opening == Key \X (1..MaxOpenings)
Execution == Opening \X (1..MaxClosings)

Position ==
  [status: {"absent", "open", "tp50", "closed"},
   closing: 0..MaxClosings,
   evaluated: BOOLEAN]      \* outcome_evaluated
Absent == [status |-> "absent", closing |-> 0, evaluated |-> FALSE]
Positions == [Opening -> Position]
NoPositions == [o \in Opening |-> Absent]

\* The executions marked as evaluated, and the trades of the global bucket.
Statistics == [marked: SUBSET Execution, trades: Nat]
NoStatistics == [marked |-> {}, trades |-> 0]

ASSUME PaperAssumption ==
  /\ {MaxOpenings, MaxClosings, MaxCrashes} \subseteq Nat
  /\ None \notin Key
  /\ Torn \notin Statistics

ExecIdle == [at |-> "idle", key |-> None, seen |-> {}, copy |-> NoPositions]
LifeIdle == [at |-> "idle", copy |-> NoPositions]
EvalIdle == [at |-> "idle", copy |-> NoPositions, stats |-> NoStatistics]

PaperTypeOK ==
  /\ positions \in Positions \union {Torn}
  /\ seenKeys \in (SUBSET Key) \union {Torn}
  /\ stats \in Statistics \union {Torn}
  /\ exec \in [Executor -> [at: {"idle", "read", "open", "fill", "openSeen", "fillSeen"},
                            key: Key \union {None}, seen: SUBSET Key, copy: Positions]]
  /\ life \in [at: {"idle", "update", "fill"}, copy: Positions]
  /\ eval \in [at: {"idle", "read", "evaluate", "fill", "openStats", "fillStats"},
               copy: Positions, stats: Statistics]
  /\ opened \in [Key -> 0..MaxOpenings]
  /\ closings \in 0..MaxClosings
  /\ crashes \in 0..MaxCrashes
  /\ \A e \in Executor : exec[e].at = "idle" <=> exec[e].key = None

PaperInit ==
  /\ positions = NoPositions /\ seenKeys = {} /\ stats = NoStatistics
  /\ exec = [e \in Executor |-> ExecIdle]
  /\ life = LifeIdle /\ eval = EvalIdle
  /\ opened = [k \in Key |-> 0] /\ closings = 0 /\ crashes = 0

-----------------------------------------------------------------------------
\* _read_json and _write_json.  A write over another one that was truncated with
\* it may leave the end of the longer text.
Read(file, default) == IF file = Torn THEN default ELSE file
Written(file, value) == IF file = Torn THEN {value} ELSE {value, Torn}

Exec(e, at) == exec[e].at = at
ExecGoto(e, at) == exec' = [exec EXCEPT ![e].at = at]

\* A key that was seen is blocked; nothing else keeps a plan out, a plan the
\* orchestrator blocked as a duplicate included.
ReadSeen(e, k) ==
  /\ Exec(e, "idle")
  /\ k \notin Read(seenKeys, {})
  /\ exec' = [exec EXCEPT ![e] =
                [ExecIdle EXCEPT !.at = "read", !.key = k, !.seen = Read(seenKeys, {})]]
  /\ UNCHANGED <<files, life, eval, counters>>

ReadPositions(e) ==
  LET k == exec[e].key
      new == <<k, opened[k] + 1>> IN
  /\ Exec(e, "read")
  /\ opened[k] < MaxOpenings
  /\ opened' = [opened EXCEPT ![k] = @ + 1]
  /\ exec' = [exec EXCEPT ![e].at = "open",
                          ![e].copy = [Read(positions, NoPositions) EXCEPT
                                         ![new].status = "open"]]
  /\ UNCHANGED <<files, life, eval, closings, crashes>>

OpenPositions(e) ==
  /\ Exec(e, "open")
  /\ positions' = Torn
  /\ ExecGoto(e, "fill")
  /\ UNCHANGED <<seenKeys, stats, life, eval, counters>>

FillPositions(e) ==
  /\ Exec(e, "fill")
  /\ positions' \in Written(positions, exec[e].copy)
  /\ ExecGoto(e, "openSeen")
  /\ UNCHANGED <<seenKeys, stats, life, eval, counters>>

OpenSeen(e) ==
  /\ Exec(e, "openSeen")
  /\ seenKeys' = Torn
  /\ ExecGoto(e, "fillSeen")
  /\ UNCHANGED <<positions, stats, life, eval, counters>>

FillSeen(e) ==
  /\ Exec(e, "fillSeen")
  /\ seenKeys' \in Written(seenKeys, exec[e].seen \union {exec[e].key})
  /\ exec' = [exec EXCEPT ![e] = ExecIdle]
  /\ UNCHANGED <<positions, stats, life, eval, counters>>

-----------------------------------------------------------------------------
\* update_paper_position_price.

LoadPositions ==
  /\ life.at = "idle"
  /\ life' = [at |-> "update", copy |-> Read(positions, NoPositions)]
  /\ UNCHANGED <<files, exec, eval, counters>>

\* TP50 moves the stop to break even; the stop, or the caller, closes.
Update(o) ==
  LET status == life.copy[o].status IN
  /\ life.at = "update"
  /\ \/ /\ status = "open"
        /\ life' = [life EXCEPT !.copy[o].status = "tp50"]
        /\ UNCHANGED closings
     \/ /\ status \in {"open", "tp50"} /\ closings < MaxClosings
        /\ closings' = closings + 1
        /\ life' = [life EXCEPT !.copy[o] = [@ EXCEPT !.status = "closed",
                                                      !.closing = closings + 1]]
  /\ UNCHANGED <<files, exec, eval, opened, crashes>>

OpenUpdated ==
  /\ life.at = "update"
  /\ positions' = Torn
  /\ life' = [life EXCEPT !.at = "fill"]
  /\ UNCHANGED <<seenKeys, stats, exec, eval, counters>>

FillUpdated ==
  /\ life.at = "fill"
  /\ positions' \in Written(positions, life.copy)
  /\ life' = LifeIdle
  /\ UNCHANGED <<seenKeys, stats, exec, eval, counters>>

-----------------------------------------------------------------------------
\* evaluate_closed_paper_trades.

LoadClosed ==
  /\ eval.at = "idle"
  /\ eval' = [EvalIdle EXCEPT !.at = "read", !.copy = Read(positions, NoPositions)]
  /\ UNCHANGED <<files, exec, life, counters>>

LoadStatistics ==
  /\ eval.at = "read"
  /\ eval' = [eval EXCEPT !.at = "evaluate", !.stats = Read(stats, NoStatistics)]
  /\ UNCHANGED <<files, exec, life, counters>>

ExecutionOf(o) == <<o, eval.copy[o].closing>>
ClosedIn(copy) == {o \in Opening : copy[o].status = "closed"}

\* Slip: the mark on the position is enough.
PendingByFlag == {o \in ClosedIn(eval.copy) : ~eval.copy[o].evaluated}

\* Neither the position nor the statistics say that it was evaluated.
PendingOutcomes ==
  {o \in ClosedIn(eval.copy) :
     ~eval.copy[o].evaluated /\ ExecutionOf(o) \notin eval.stats.marked}

\* Slip: the statistics keep the marks of this evaluation only.
MarkedNow == {ExecutionOf(o) : o \in PendingOutcomes}

\* evaluated_trade_ids grows by what is evaluated now.
Marked == eval.stats.marked \union {ExecutionOf(o) : o \in PendingOutcomes}

\* The copies are evaluated, and the positions are written first.
Evaluate ==
  /\ eval.at = "evaluate"
  /\ eval' = [at |-> "fill",
              copy |-> [o \in Opening |->
                          IF o \in PendingOutcomes
                          THEN [eval.copy[o] EXCEPT !.evaluated = TRUE]
                          ELSE eval.copy[o]],
              stats |-> [marked |-> Marked,
                         trades |-> eval.stats.trades + Cardinality(PendingOutcomes)]]
  /\ positions' = Torn
  /\ UNCHANGED <<seenKeys, stats, exec, life, counters>>

FillEvaluated ==
  /\ eval.at = "fill"
  /\ positions' \in Written(positions, eval.copy)
  /\ eval' = [eval EXCEPT !.at = "openStats"]
  /\ UNCHANGED <<seenKeys, stats, exec, life, counters>>

OpenStatistics ==
  /\ eval.at = "openStats"
  /\ stats' = Torn
  /\ eval' = [eval EXCEPT !.at = "fillStats"]
  /\ UNCHANGED <<positions, seenKeys, exec, life, counters>>

FillStatistics ==
  /\ eval.at = "fillStats"
  /\ stats' \in Written(stats, eval.stats)
  /\ eval' = EvalIdle
  /\ UNCHANGED <<positions, seenKeys, exec, life, counters>>

-----------------------------------------------------------------------------
\* The process stops; what was truncated stays so.
Stop ==
  /\ crashes < MaxCrashes
  /\ crashes' = crashes + 1
  /\ exec' = [e \in Executor |-> ExecIdle]
  /\ life' = LifeIdle /\ eval' = EvalIdle
  /\ UNCHANGED <<files, opened, closings>>

PaperNext ==
  \/ \E e \in Executor :
       \/ \E k \in Key : ReadSeen(e, k)
       \/ ReadPositions(e) \/ OpenPositions(e) \/ FillPositions(e)
       \/ OpenSeen(e) \/ FillSeen(e)
  \/ LoadPositions \/ OpenUpdated \/ FillUpdated
  \/ \E o \in Opening : Update(o)
  \/ LoadClosed \/ LoadStatistics \/ Evaluate \/ FillEvaluated
  \/ OpenStatistics \/ FillStatistics
  \/ Stop

PaperSpec == PaperInit /\ [][PaperNext]_paperVars

-----------------------------------------------------------------------------
\* The statistics count a closed execution once, though a stale write of the
\* positions takes back the mark it got.
CountedOnce ==
  stats # Torn => stats.trades = Cardinality(stats.marked)

\* paper_executor_integrated.py:10, "Impede duplicidade por idempotency_key".
\* Refuted: by two executors at once, or by a stop between the two files.
OnePositionPerKey ==
  positions # Torn =>
    \A p, q \in Opening :
      (p[1] = q[1] /\ positions[p] # Absent /\ positions[q] # Absent) => p = q

\* outcome_evaluator.py:6, "Avaliar trades PAPER fechados": as long as the process
\* is not stopped, a position marked as evaluated is in the statistics, whatever
\* the price updates write back meanwhile, or its evaluation still runs.
EvaluatedIsCounted ==
  (crashes = 0 /\ positions # Torn /\ stats # Torn /\ eval.at = "idle") =>
    \A o \in Opening :
      positions[o].evaluated => <<o, positions[o].closing>> \in stats.marked
=============================================================================
