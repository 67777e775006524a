----------------------------- MODULE LiveExecution -----------------------------
(***************************************************************************)
(* One LIVE entry from the engine down to the exchange:                    *)
(* run_execution_engine (execution_engine.py) with orchestrate_execution   *)
(* (execution_orchestrator.py) and place_market_order (broker.py), called  *)
(* by several threads of one process (bots and HTTP handlers).             *)
(*                                                                         *)
(* A step is one locked section of the ledger, one look at the account,    *)
(* one operation of the order authority (modelled in detail by             *)
(* AccountClientOrder; here an attempt is taken once and claimed once), or *)
(* one event at the exchange.  Previews (dry_run) change no state and are  *)
(* left out; the arithmetic of sizes, margins and stops is a guard that    *)
(* may always refuse.                                                      *)
(***************************************************************************)
EXTENDS ExecutionLedger

CONSTANTS
  Thread,      \* callers of the engine
  Payload,     \* the requests they may make
  Attempt,     \* order attempts of the account authority
  Leg,         \* what the guards compare: bot, symbol and side
  KeyOf,       \* build_idempotency_key, by payload
  LegacyOf,    \* _legacy_idempotency_key, by payload
  AttemptOf,   \* canonical attempt, by payload
  LegOf,       \* by payload
  MaxOpen,     \* REAL_PILOT_MAX_OPEN_POSITIONS
  Nobody       \* no payload

\* The attempt and its clientOrderID are part of the key.
ASSUME LiveAssumption ==
  /\ FalconKey \subseteq Key
  /\ ScanLimit \in Nat
  /\ MaxOpen \in Nat
  /\ KeyOf \in [Payload -> Key]
  /\ LegacyOf \in [Payload -> Key]
  /\ AttemptOf \in [Payload -> Attempt]
  /\ LegOf \in [Payload -> Leg]
  /\ \A p, q \in Payload : KeyOf[p] = KeyOf[q] => AttemptOf[p] = AttemptOf[q]
  /\ Nobody \notin Payload

VARIABLES
  attempt,   \* the account authority, by attempt
  log,       \* engine and audit lines of executions, within the window
  inflight,  \* create_order requests on their way, as payloads
  orders,    \* requests the exchange made orders of
  late,      \* those of them whose caller had given up
  sends,     \* create_order calls, by attempt
  pc,        \* where each thread stands
  call,      \* the payload it executes
  reply      \* what the broker, or a guard, answered

authority == <<attempt>>
exchange == <<inflight, orders, late, sends>>
threads == <<pc, call, reply>>
liveVars == <<ledger, authority, log, exchange, threads>>

\* "sent": status SENT.  "naked": sent, but without an armed stop or without
\* a durable acknowledgement.  "unknown": sent is None.  "refused": not sent,
\* by a guard that does not say whether a send was attempted.  "notSent": sent
\* and send_attempted are both false.  "raised": an exception left the engine.
Reply == {"none", "blocked", "sent", "naked", "unknown", "refused", "notSent",
          "raised"}
LiveLabel == {"idle", "check", "append", "reserve", "guard", "confirm", "take",
              "pending", "broker", "claim", "create", "await", "record",
              "outcome", "report", "returned"}
LogLine == Leg \X {"LIVE_SENT", "LIVE_SENT_DEGRADED"}

LiveTypeOK ==
  /\ LedgerTypeOK
  /\ attempt \in [Attempt -> {"free", "reserved", "claimed", "consumed"}]
  /\ log \subseteq LogLine
  /\ inflight \subseteq Payload
  /\ orders \subseteq Payload
  /\ late \subseteq orders
  /\ sends \in [Attempt -> Nat]
  /\ pc \in [Thread -> LiveLabel]
  /\ call \in [Thread -> Payload \union {Nobody}]
  /\ reply \in [Thread -> Reply]
  /\ \A t \in Thread : pc[t] # "idle" => call[t] \in Payload

LiveInit ==
  /\ LedgerInit
  /\ attempt = [a \in Attempt |-> "free"]
  /\ log = {}
  /\ inflight = {}
  /\ orders = {}
  /\ late = {}
  /\ sends = [a \in Attempt |-> 0]
  /\ pc = [t \in Thread |-> "idle"]
  /\ call = [t \in Thread |-> Nobody]
  /\ reply = [t \in Thread |-> "none"]

-----------------------------------------------------------------------------
At(t, label) == pc[t] = label
Goto(t, label) ==
  /\ pc' = [pc EXCEPT ![t] = label]
  /\ UNCHANGED <<call, reply>>
Answer(t, r, label) ==
  /\ pc' = [pc EXCEPT ![t] = label]
  /\ reply' = [reply EXCEPT ![t] = r]
  /\ UNCHANGED call

MyAttempt(t) == AttemptOf[call[t]]
MyKey(t) == KeyOf[call[t]]
SeenBefore(t) == Has(MyKey(t)) \/ Has(LegacyOf[call[t]])
OpenLegs == {LegOf[p] : p \in orders}

Begin(t, p) ==
  /\ At(t, "idle")
  /\ pc' = [pc EXCEPT ![t] = "check"]
  /\ call' = [call EXCEPT ![t] = p]
  /\ reply' = [reply EXCEPT ![t] = "none"]
  /\ UNCHANGED <<ledger, authority, log, exchange>>

-----------------------------------------------------------------------------
\* orchestrate_execution.

\* First locked section: a duplicate is blocked, whoever the caller is.
Check(t) ==
  /\ At(t, "check")
  /\ Answer(t, IF SeenBefore(t) THEN "blocked" ELSE "none", "append")
  /\ UNCHANGED <<ledger, authority, log, exchange>>

\* The plan is logged outside the lock; a failing append raises to the caller.
AppendPlan(t) ==
  /\ At(t, "append")
  /\ \/ Goto(t, IF reply[t] = "blocked" THEN "report" ELSE "reserve")
     \/ Answer(t, "raised", "returned")
  /\ UNCHANGED <<ledger, authority, log, exchange>>

\* Second locked section: look again, then write the key.  A failing write
\* raises, with the old file in place.
Reserve(t) ==
  /\ At(t, "reserve")
  /\ \/ /\ SeenBefore(t)
        /\ Answer(t, "blocked", "report")
        /\ UNCHANGED ledger
     \/ /\ ~SeenBefore(t)
        /\ ReserveKey(MyKey(t))
        /\ Goto(t, "guard")
     \/ /\ ~SeenBefore(t)
        /\ Answer(t, "raised", "returned")
        /\ UNCHANGED ledger
  /\ UNCHANGED <<authority, log, exchange>>

-----------------------------------------------------------------------------
\* run_execution_engine, before the broker.

Refuse(t) ==
  /\ Answer(t, "blocked", "report")
  /\ UNCHANGED <<ledger, authority, log, exchange>>

\* validate_real_pilot_guard counts the positions of the payload's symbol.
PilotGuard(t) ==
  /\ At(t, "guard")
  /\ \/ Refuse(t)
     \/ /\ Cardinality(OpenLegs \intersect {LegOf[call[t]]}) < MaxOpen
        /\ Goto(t, "confirm")
        /\ UNCHANGED <<ledger, authority, log, exchange>>

\* _recent_duplicate_execution recognises a line by its status only.
RecentDuplicate(t) == <<LegOf[call[t]], "LIVE_SENT">> \in log

\* A payload that names no lifecycle has the legacy key and no order identity.
Identified(p) == KeyOf[p] # LegacyOf[p]

Confirm(t) ==
  /\ At(t, "confirm")
  /\ \/ Refuse(t)
     \/ /\ Identified(call[t])
        /\ ~RecentDuplicate(t)
        /\ Goto(t, "take")
        /\ UNCHANGED <<ledger, authority, log, exchange>>

\* Only RESERVED_UNIQUE goes on: a reservation whose reply is lost, or that an
\* earlier call made, does not.
TakeAttempt(t) ==
  /\ At(t, "take")
  /\ \/ /\ attempt[MyAttempt(t)] = "free"
        /\ attempt' = [attempt EXCEPT ![MyAttempt(t)] = "reserved"]
        /\ Goto(t, "pending") \/ Answer(t, "blocked", "report")
     \/ Answer(t, "blocked", "report") /\ UNCHANGED attempt
  /\ UNCHANGED <<ledger, log, exchange>>

\* Slip: the broker is called even when the call could not be put on file.
RecordPendingAtBest(t) ==
  /\ At(t, "pending")
  /\ RecordBrokerState(MyKey(t), Pending) \/ UNCHANGED ledger
  /\ Goto(t, "broker")
  /\ UNCHANGED <<authority, log, exchange>>

\* ENGINE_BROKER_CALL_PENDING is on file before the broker is called; when it
\* cannot be written the broker is not called.
RecordPending(t) ==
  /\ At(t, "pending")
  /\ \/ RecordBrokerState(MyKey(t), Pending) /\ Goto(t, "broker")
     \/ UNCHANGED ledger /\ Answer(t, "notSent", "outcome")
  /\ UNCHANGED <<authority, log, exchange>>

-----------------------------------------------------------------------------
\* place_market_order and the exchange.

\* Slip: the broker trusts the engine's look at the positions.
BrokerGuardsUncounted(t) ==
  /\ At(t, "broker")
  /\ Answer(t, "refused", "record") \/ Goto(t, "claim")
  /\ UNCHANGED <<ledger, authority, log, exchange>>

\* The broker's own guards: constraints, its pilot guard (every open position
\* of the account counts), the token, the stop, readiness.
BrokerGuards(t) ==
  /\ At(t, "broker")
  /\ \/ Answer(t, "refused", "record")
     \/ Cardinality(OpenLegs) < MaxOpen /\ Goto(t, "claim")
  /\ UNCHANGED <<ledger, authority, log, exchange>>

\* The send is claimed once; a claim whose reply is lost is not used.
ClaimSend(t) ==
  /\ At(t, "claim")
  /\ \/ /\ attempt[MyAttempt(t)] = "reserved"
        /\ attempt' = [attempt EXCEPT ![MyAttempt(t)] = "claimed"]
        /\ Goto(t, "create") \/ Answer(t, "notSent", "record")
     \/ Answer(t, "notSent", "record") /\ UNCHANGED attempt
  /\ UNCHANGED <<ledger, log, exchange>>

CreateOrder(t) ==
  /\ At(t, "create")
  /\ inflight' = inflight \union {call[t]}
  /\ sends' = [sends EXCEPT ![MyAttempt(t)] = @ + 1]
  /\ Goto(t, "await")
  /\ UNCHANGED <<ledger, authority, log, orders, late>>

\* create_order returns an order; the disaster stop is then armed or not.
OrderReturned(t) ==
  /\ At(t, "await")
  /\ call[t] \in orders
  /\ \E r \in {"sent", "naked"} : Answer(t, r, "record")
  /\ UNCHANGED <<ledger, authority, log, exchange>>

\* Slip: a timeout is answered by calling again.
OrderRaisedRetrying(t) ==
  /\ At(t, "await")
  /\ Answer(t, "unknown", "record") \/ Goto(t, "create")
  /\ UNCHANGED <<ledger, authority, log, exchange>>

\* create_order raises: a timeout, a lost reply or a rejection look the same.
OrderRaised(t) ==
  /\ At(t, "await")
  /\ Answer(t, "unknown", "record")
  /\ UNCHANGED <<ledger, authority, log, exchange>>

Awaited(p) == \E t \in Thread : pc[t] = "await" /\ call[t] = p

\* The exchange accepts a request, awaited or not, or it never arrives.
Accept(p) ==
  /\ p \in inflight
  /\ inflight' = inflight \ {p}
  /\ orders' = orders \union {p}
  /\ late' = IF Awaited(p) THEN late ELSE late \union {p}
  /\ UNCHANGED <<ledger, authority, log, sends, threads>>

Drop(p) ==
  /\ p \in inflight
  /\ inflight' = inflight \ {p}
  /\ UNCHANGED <<ledger, authority, log, orders, late, sends, threads>>

-----------------------------------------------------------------------------
\* run_execution_engine, after the broker.

\* Slip: a send that is not known to have happened counts as not sent.
ResultStateOfSent(r) == Confirmed

ResultState(r) == IF r = "unknown" THEN SendUnknown ELSE Confirmed

\* A result that cannot be written is reported, and the call stays PENDING.
RecordResult(t) ==
  /\ At(t, "record")
  /\ RecordBrokerState(MyKey(t), ResultState(reply[t])) \/ UNCHANGED ledger
  /\ Goto(t, "outcome")
  /\ UNCHANGED <<authority, log, exchange>>

\* The attempt's outcome: a call that was certainly not attempted consumes it,
\* unless the send was claimed.
RecordOutcome(t) ==
  /\ At(t, "outcome")
  /\ \/ /\ reply[t] = "notSent" /\ attempt[MyAttempt(t)] = "reserved"
        /\ attempt' = [attempt EXCEPT ![MyAttempt(t)] = "consumed"]
     \/ UNCHANGED attempt
  /\ Goto(t, "report")
  /\ UNCHANGED <<ledger, log, exchange>>

LineOf(t) ==
  CASE reply[t] = "sent" -> {<<LegOf[call[t]], "LIVE_SENT">>}
    [] reply[t] = "naked" -> {<<LegOf[call[t]], "LIVE_SENT_DEGRADED">>}
    [] OTHER -> {}

\* Both logs swallow their errors.
Report(t) ==
  /\ At(t, "report")
  /\ \E lines \in SUBSET LineOf(t) : log' = log \union lines
  /\ Goto(t, "returned")
  /\ UNCHANGED <<ledger, authority, exchange>>

Return(t) ==
  /\ At(t, "returned")
  /\ pc' = [pc EXCEPT ![t] = "idle"]
  /\ call' = [call EXCEPT ![t] = Nobody]
  /\ reply' = [reply EXCEPT ![t] = "none"]
  /\ UNCHANGED <<ledger, authority, log, exchange>>

\* The duplicate window (300 seconds) passes.
Age ==
  /\ log # {}
  /\ log' = {}
  /\ UNCHANGED <<ledger, authority, exchange, threads>>

\* All threads of the process are gone.
StopThreads ==
  /\ pc' = [t \in Thread |-> "idle"]
  /\ call' = [t \in Thread |-> Nobody]
  /\ reply' = [t \in Thread |-> "none"]

\* The process stops; when the power fails too, the ledger may not parse.
Stop ==
  /\ \E t \in Thread : pc[t] # "idle"
  /\ StopThreads
  /\ LoseFile \/ UNCHANGED ledger
  /\ UNCHANGED <<authority, log, exchange>>

EngineStep(t) ==
  \/ Check(t) \/ AppendPlan(t) \/ Reserve(t)
  \/ PilotGuard(t) \/ Confirm(t) \/ TakeAttempt(t) \/ RecordPending(t)
  \/ BrokerGuards(t) \/ ClaimSend(t) \/ CreateOrder(t)
  \/ OrderReturned(t) \/ OrderRaised(t)
  \/ RecordResult(t) \/ RecordOutcome(t) \/ Report(t)

ExchangeStep == \E p \in Payload : Accept(p) \/ Drop(p)

LiveNext ==
  \/ \E t \in Thread : \/ \E p \in Payload : Begin(t, p)
                       \/ EngineStep(t)
                       \/ Return(t)
  \/ ExchangeStep
  \/ Age
  \/ Stop

LiveSpec == LiveInit /\ [][LiveNext]_liveVars

-----------------------------------------------------------------------------
\* An order attempt is sent at most once, by whatever threads, retries and
\* restarts, even when the ledger of seen intentions is lost.
AttemptOnce == \A a \in Attempt : sends[a] <= 1

\* A request that left the process is on file: the ledger names a broker call
\* for its key at every moment after it, across stops.
CallOnRecord ==
  ~lost => \A p \in inflight \union orders : seen[KeyOf[p]] \in BrokerState

\* While a request may still become an order its call is PENDING or UNKNOWN.
\* CONFIRMED says that the outcome is a fact, which no later event changes.
ConfirmedIsFinal ==
  ~lost => \A p \in inflight \union late : seen[KeyOf[p]] \in Unresolved

\* The position limit is a check long before the send.  Threads that pass it
\* together overshoot it, by at most one position each.
Overshoot ==
  Cardinality({LegOf[p] : p \in orders \ late})
    <= MaxOpen + Cardinality(Thread) - 1

\* A retry never sends while the logs hold a sent execution of its bot, symbol
\* and side.
NoLoggedRepeat ==
  [][\A t \in Thread :
       At(t, "create") /\ At(t, "await")' =>
         \A s \in {"LIVE_SENT", "LIVE_SENT_DEGRADED"} :
           <<LegOf[call[t]], s>> \notin log]_liveVars
=============================================================================
