-------------------------- MODULE LiveExecutionProofs --------------------------
(***************************************************************************)
(* The path of a LIVE entry, for any threads, payloads, keys, attempts and *)
(* legs: its typing; an attempt is sent once, whatever is lost; and, as    *)
(* long as the ledger file survives, a request that left the process is on *)
(* file and a confirmed outcome is final.                                  *)
(*                                                                         *)
(* The second half is about Falcon's gates above the engine and the        *)
(* reconciliation of a call whose outcome is unknown: they hold because    *)
(* one thread enters, so that the engine's invariants carry over, and      *)
(* because a document never says more than the ledger and the exchange.    *)
(***************************************************************************)
EXTENDS FalconEntryRecovery, FiniteSetTheorems, TLAPS

(***************************************************************************)
(* The ledger's operations keep its type.                                  *)
(***************************************************************************)
LEMMA LedgerTyping ==
    ASSUME LedgerTypeOK
    PROVE  /\ Load \in [Key -> Entry]
           /\ \A k \in Key : ReserveKey(k) => LedgerTypeOK'
           /\ \A k \in Key, state \in BrokerState :
                RecordBrokerState(k, state) => LedgerTypeOK'
           /\ LoseFile => LedgerTypeOK'
           /\ UNCHANGED ledger => LedgerTypeOK'
<1>1. NothingSeen \in [Key -> Entry]
  BY DEF NothingSeen, Entry
<1>2. Load \in [Key -> Entry]
  BY <1>1 DEF LedgerTypeOK, Load
<1>3. ASSUME NEW k \in Key, ReserveKey(k) PROVE LedgerTypeOK'
  BY <1>2, <1>3 DEF ReserveKey, Save, LedgerTypeOK, Entry
<1>4. ASSUME NEW k \in Key, NEW state \in BrokerState, RecordBrokerState(k, state)
      PROVE  LedgerTypeOK'
  BY <1>2, <1>4 DEF RecordBrokerState, Save, LedgerTypeOK, Entry
<1>5. LoseFile => LedgerTypeOK'
  BY <1>1 DEF LoseFile, LedgerTypeOK
<1>6. UNCHANGED ledger => LedgerTypeOK'
  BY DEF ledger, LedgerTypeOK
<1> QED
  BY <1>2, <1>3, <1>4, <1>5, <1>6

(***************************************************************************)
(* A thread at work has a payload, with its key, its attempt and its leg.  *)
(***************************************************************************)
LEMMA PayloadTyping ==
    ASSUME LiveTypeOK, NEW t \in Thread, pc[t] # "idle"
    PROVE  /\ call[t] \in Payload
           /\ MyKey(t) \in Key
           /\ MyAttempt(t) \in Attempt
BY LiveAssumption DEF LiveTypeOK, MyKey, MyAttempt

(***************************************************************************)
(* A step of one thread moves that thread only.                            *)
(***************************************************************************)
ThreadTypeOK ==
    /\ pc \in [Thread -> LiveLabel]
    /\ call \in [Thread -> Payload \union {Nobody}]
    /\ reply \in [Thread -> Reply]
    /\ \A t \in Thread : pc[t] # "idle" => call[t] \in Payload

LEMMA ThreadTyping ==
    ASSUME LiveTypeOK, NEW t \in Thread, pc[t] # "idle"
    PROVE  /\ \A label \in LiveLabel : Goto(t, label) => ThreadTypeOK'
           /\ \A label \in LiveLabel, r \in Reply : Answer(t, r, label) => ThreadTypeOK'
           /\ UNCHANGED threads => ThreadTypeOK'
BY DEF LiveTypeOK, ThreadTypeOK, Goto, Answer, threads

LEMMA EngineTyping ==
    ASSUME LiveTypeOK, NEW t \in Thread, EngineStep(t)
    PROVE  LiveTypeOK'
<1>1. pc[t] # "idle"
  BY DEF EngineStep, At, Check, AppendPlan, Reserve, PilotGuard, Confirm, TakeAttempt,
         RecordPending, BrokerGuards, ClaimSend, CreateOrder, OrderReturned,
         OrderRaised, RecordResult, RecordOutcome, Report
<1>2. /\ call[t] \in Payload /\ MyKey(t) \in Key /\ MyAttempt(t) \in Attempt
      /\ LegOf[call[t]] \in Leg
  BY <1>1, PayloadTyping, LiveAssumption
<1>3. ThreadTypeOK'
  BY <1>1, ThreadTyping
     DEF EngineStep, Check, AppendPlan, Reserve, PilotGuard, Confirm, TakeAttempt,
         RecordPending, BrokerGuards, ClaimSend, CreateOrder, OrderReturned,
         OrderRaised, RecordResult, RecordOutcome, Report, Refuse, LiveLabel, Reply
<1>4. LedgerTypeOK'
  BY <1>2, LedgerTyping
     DEF EngineStep, Check, AppendPlan, Reserve, PilotGuard, Confirm, TakeAttempt,
         RecordPending, BrokerGuards, ClaimSend, CreateOrder, OrderReturned,
         OrderRaised, RecordResult, RecordOutcome, Report, Refuse, LiveTypeOK,
         BrokerState, ResultState
<1>5. attempt' \in [Attempt -> {"free", "reserved", "claimed", "consumed"}]
  BY <1>2
     DEF EngineStep, Check, AppendPlan, Reserve, PilotGuard, Confirm, TakeAttempt,
         RecordPending, BrokerGuards, ClaimSend, CreateOrder, OrderReturned,
         OrderRaised, RecordResult, RecordOutcome, Report, Refuse, LiveTypeOK, authority
<1>6. log' \subseteq LogLine
  <2>1. LineOf(t) \subseteq LogLine
    BY <1>2 DEF LineOf, LogLine
  <2> QED
    BY <2>1
     DEF EngineStep, Check, AppendPlan, Reserve, PilotGuard, Confirm, TakeAttempt,
         RecordPending, BrokerGuards, ClaimSend, CreateOrder, OrderReturned,
         OrderRaised, RecordResult, RecordOutcome, Report, Refuse, LiveTypeOK
<1>7. /\ inflight' \subseteq Payload /\ orders' \subseteq Payload /\ late' \subseteq orders'
      /\ sends' \in [Attempt -> Nat]
  BY <1>2
     DEF EngineStep, Check, AppendPlan, Reserve, PilotGuard, Confirm, TakeAttempt,
         RecordPending, BrokerGuards, ClaimSend, CreateOrder, OrderReturned,
         OrderRaised, RecordResult, RecordOutcome, Report, Refuse, LiveTypeOK, exchange
<1> QED
  BY <1>3, <1>4, <1>5, <1>6, <1>7 DEF LiveTypeOK, ThreadTypeOK

LEMMA LiveStepTyping == LiveTypeOK /\ [LiveNext]_liveVars => LiveTypeOK'
<1> SUFFICES ASSUME LiveTypeOK, [LiveNext]_liveVars PROVE LiveTypeOK'
  OBVIOUS
<1>1. ASSUME NEW t \in Thread, EngineStep(t) PROVE LiveTypeOK'
  BY <1>1, EngineTyping
<1>2. ASSUME NEW t \in Thread, NEW p \in Payload, Begin(t, p) PROVE LiveTypeOK'
  BY <1>2 DEF Begin, LiveTypeOK, ledger, LedgerTypeOK, authority, exchange, LiveLabel, Reply
<1>3. ASSUME NEW t \in Thread, Return(t) PROVE LiveTypeOK'
  BY <1>3 DEF Return, LiveTypeOK, ledger, LedgerTypeOK, authority, exchange, LiveLabel, Reply
<1>4. ASSUME NEW p \in Payload, Accept(p) \/ Drop(p) PROVE LiveTypeOK'
  BY <1>4 DEF Accept, Drop, LiveTypeOK, ledger, LedgerTypeOK, authority, threads
<1>5. CASE Age
  BY <1>5 DEF Age, LiveTypeOK, ledger, LedgerTypeOK, authority, exchange, threads
<1>6. CASE Stop
  <2>1. LedgerTypeOK'
    BY <1>6, LedgerTyping DEF Stop, LiveTypeOK
  <2> QED
    BY <1>6, <2>1 DEF Stop, StopThreads, LiveTypeOK, authority, exchange, LiveLabel, Reply
<1>7. CASE UNCHANGED liveVars
  BY <1>7 DEF liveVars, LiveTypeOK, ledger, LedgerTypeOK, authority, exchange, threads
<1> QED
  BY <1>1, <1>2, <1>3, <1>4, <1>5, <1>6, <1>7 DEF LiveNext, ExchangeStep

(***************************************************************************)
(* The state is always well typed.                                         *)
(***************************************************************************)
THEOREM LiveTyping == LiveSpec => []LiveTypeOK
<1>1. LiveInit => LiveTypeOK
  <2>1. LedgerInit => LedgerTypeOK
    BY DEF LedgerInit, LedgerTypeOK, NothingSeen, Entry
  <2> QED
    BY <2>1, LiveAssumption DEF LiveInit, LiveTypeOK, LiveLabel, Reply
<1>2. LiveTypeOK /\ [LiveNext]_liveVars => LiveTypeOK'
  BY LiveStepTyping
<1> QED
  BY <1>1, <1>2, PTL DEF LiveSpec

(***************************************************************************)
(* An attempt is claimed by one thread, which alone may send it, once.     *)
(***************************************************************************)
SoleClaim ==
    /\ \A a \in Attempt : sends[a] <= 1 /\ (attempt[a] # "claimed" => sends[a] = 0)
    /\ \A t \in Thread : pc[t] = "create" =>
         attempt[MyAttempt(t)] = "claimed" /\ sends[MyAttempt(t)] = 0
    /\ \A t, u \in Thread :
         pc[t] = "create" /\ pc[u] = "create" /\ MyAttempt(t) = MyAttempt(u) => t = u

LEMMA EngineSoleClaim ==
    ASSUME LiveTypeOK, SoleClaim, NEW t \in Thread, EngineStep(t)
    PROVE  SoleClaim'
<1>1. pc[t] # "idle"
  BY DEF EngineStep, At, Check, AppendPlan, Reserve, PilotGuard, Confirm, TakeAttempt,
         RecordPending, BrokerGuards, ClaimSend, CreateOrder, OrderReturned,
         OrderRaised, RecordResult, RecordOutcome, Report
<1>2. PICK a \in Attempt : a = MyAttempt(t)
  BY <1>1, PayloadTyping
<1>3. \A u \in Thread : pc[u] # "idle" => MyAttempt(u) \in Attempt
  BY PayloadTyping
<1>4. UNCHANGED call
  BY DEF EngineStep, Check, AppendPlan, Reserve, PilotGuard, Confirm, TakeAttempt,
         RecordPending, BrokerGuards, ClaimSend, CreateOrder, OrderReturned,
         OrderRaised, RecordResult, RecordOutcome, Report, Refuse, Goto, Answer
<1>5. \A u \in Thread : u # t => pc'[u] = pc[u]
  BY DEF EngineStep, Check, AppendPlan, Reserve, PilotGuard, Confirm, TakeAttempt,
         RecordPending, BrokerGuards, ClaimSend, CreateOrder, OrderReturned,
         OrderRaised, RecordResult, RecordOutcome, Report, Refuse, Goto, Answer,
         LiveTypeOK
<1>6. ASSUME pc'[t] # "create", UNCHANGED sends,
             \/ UNCHANGED attempt
             \/ \E state \in {"reserved", "claimed", "consumed"} :
                  attempt[a] # "claimed" /\ attempt' = [attempt EXCEPT ![a] = state]
      PROVE  SoleClaim'
  BY <1>3, <1>4, <1>5, <1>6 DEF SoleClaim, MyAttempt, LiveTypeOK
<1>7. CASE ClaimSend(t)
  <2>1. CASE /\ attempt[a] = "reserved"
             /\ attempt' = [attempt EXCEPT ![a] = "claimed"]
             /\ Goto(t, "create")
    <3>1. sends' = sends /\ pc'[t] = "create"
      BY <1>7, <2>1 DEF ClaimSend, Goto, exchange, LiveTypeOK
    <3>2. \A u \in Thread : pc[u] = "create" => MyAttempt(u) # a
      BY <2>1 DEF SoleClaim
    <3> QED
      BY <1>2, <1>3, <1>4, <1>5, <2>1, <3>1, <3>2 DEF SoleClaim, MyAttempt, LiveTypeOK
  <2>2. CASE /\ attempt[a] = "reserved"
             /\ attempt' = [attempt EXCEPT ![a] = "claimed"]
             /\ Answer(t, "notSent", "record")
    <3>1. sends' = sends /\ pc'[t] = "record"
      BY <1>7, <2>2 DEF ClaimSend, Answer, exchange, LiveTypeOK
    <3> QED
      BY <1>6, <2>2, <3>1
  <2>3. CASE Answer(t, "notSent", "record") /\ UNCHANGED attempt
    <3>1. sends' = sends /\ pc'[t] = "record"
      BY <1>7, <2>3 DEF ClaimSend, Answer, exchange, LiveTypeOK
    <3> QED
      BY <1>6, <2>3, <3>1
  <2> QED
    BY <1>2, <1>7, <2>1, <2>2, <2>3 DEF ClaimSend
<1>8. CASE CreateOrder(t)
  <2>1. /\ pc[t] = "create" /\ pc'[t] = "await" /\ attempt' = attempt
        /\ sends' = [sends EXCEPT ![a] = @ + 1]
    BY <1>2, <1>8 DEF CreateOrder, At, Goto, authority, LiveTypeOK
  <2>2. attempt[a] = "claimed" /\ sends[a] = 0
    BY <1>2, <2>1 DEF SoleClaim
  <2>3. \A u \in Thread : u # t /\ pc[u] = "create" => MyAttempt(u) # a
    BY <1>2, <2>1 DEF SoleClaim
  <2> QED
    BY <1>3, <1>4, <1>5, <2>1, <2>2, <2>3 DEF SoleClaim, MyAttempt, LiveTypeOK
<1>9. CASE TakeAttempt(t)
  BY <1>2, <1>6, <1>9 DEF TakeAttempt, Goto, Answer, exchange, LiveTypeOK
<1>10. CASE RecordOutcome(t)
  BY <1>2, <1>6, <1>10 DEF RecordOutcome, Goto, exchange, LiveTypeOK
<1>11. CASE \/ Check(t) \/ AppendPlan(t) \/ Reserve(t) \/ PilotGuard(t) \/ Confirm(t)
            \/ RecordPending(t) \/ BrokerGuards(t) \/ OrderReturned(t)
            \/ OrderRaised(t) \/ RecordResult(t) \/ Report(t)
  <2>1. UNCHANGED <<attempt, sends>> /\ pc'[t] # "create"
    BY <1>11
       DEF Check, AppendPlan, Reserve, PilotGuard, Confirm, RecordPending, BrokerGuards,
           OrderReturned, OrderRaised, RecordResult, Report, Refuse, Goto, Answer,
           authority, exchange, LiveTypeOK
  <2> QED
    BY <1>6, <2>1
<1> QED
  BY <1>7, <1>8, <1>9, <1>10, <1>11 DEF EngineStep
LEMMA StepSoleClaim == LiveTypeOK /\ SoleClaim /\ [LiveNext]_liveVars => SoleClaim'
<1> SUFFICES ASSUME LiveTypeOK, SoleClaim, [LiveNext]_liveVars PROVE SoleClaim'
  OBVIOUS
<1>1. ASSUME NEW t \in Thread, EngineStep(t) PROVE SoleClaim'
  BY <1>1, EngineSoleClaim
<1>2. ASSUME UNCHANGED <<attempt, sends>>, NEW t \in Thread,
             \A u \in Thread : u # t => pc'[u] = pc[u] /\ call'[u] = call[u],
             pc'[t] # "create"
      PROVE  SoleClaim'
  BY <1>2 DEF SoleClaim, MyAttempt
<1>3. ASSUME NEW t \in Thread, NEW p \in Payload, Begin(t, p) PROVE SoleClaim'
  BY <1>2, <1>3 DEF Begin, authority, exchange, LiveTypeOK
<1>4. ASSUME NEW t \in Thread, Return(t) PROVE SoleClaim'
  BY <1>2, <1>4 DEF Return, authority, exchange, LiveTypeOK
<1>5. ASSUME UNCHANGED <<attempt, sends, pc, call>> PROVE SoleClaim'
  BY <1>5 DEF SoleClaim, MyAttempt
<1>6. ASSUME NEW p \in Payload, Accept(p) \/ Drop(p) PROVE SoleClaim'
  BY <1>5, <1>6 DEF Accept, Drop, authority, threads
<1>7. CASE Age \/ UNCHANGED liveVars
  BY <1>5, <1>7 DEF Age, liveVars, authority, exchange, threads
<1>8. CASE Stop
  BY <1>8 DEF Stop, StopThreads, authority, exchange, SoleClaim
<1> QED
  BY <1>1, <1>3, <1>4, <1>6, <1>7, <1>8 DEF LiveNext, ExchangeStep


LEMMA ClaimSole == LiveSpec => []SoleClaim
<1>1. LiveInit => SoleClaim
  BY DEF LiveInit, SoleClaim
<1>2. LiveTypeOK /\ SoleClaim /\ [LiveNext]_liveVars => SoleClaim'
  BY StepSoleClaim
<1> QED
  BY <1>1, <1>2, LiveTyping, PTL DEF LiveSpec

(***************************************************************************)
(* An order attempt is sent at most once, even if the ledger is lost.      *)
(***************************************************************************)
THEOREM AttemptSentOnce == LiveSpec => []AttemptOnce
<1>1. SoleClaim => AttemptOnce
  BY DEF SoleClaim, AttemptOnce
<1> QED
  BY <1>1, ClaimSole, PTL

(***************************************************************************)
(* The ledger and the exchange, as long as the file survives.  One thread  *)
(* at most works under a key between its reservation and the record of its *)
(* result; nothing is sent under the key before that thread's call, and    *)
(* the key stays PENDING from before the call until its result is a fact.  *)
(***************************************************************************)
Unsent == {"guard", "confirm", "take", "pending", "broker", "claim", "create"}
Working == Unsent \union {"await", "record"}
Placed == {"broker", "claim", "create", "await", "record"}

SentUnder(k) == {p \in inflight \union orders : KeyOf[p] = k}
OpenUnder(k) == {p \in inflight \union late : KeyOf[p] = k}

ThreadOnFile(t) ==
    /\ pc[t] \in Working => seen[MyKey(t)] # "absent"
    /\ pc[t] \in Placed => seen[MyKey(t)] = Pending
    /\ pc[t] \in Unsent => SentUnder(MyKey(t)) = {}
    /\ pc[t] = "await" => /\ SentUnder(MyKey(t)) \subseteq {call[t]}
                          /\ ~(call[t] \in inflight /\ call[t] \in orders)
                          /\ call[t] \notin late
    /\ pc[t] = "record" /\ reply[t] # "unknown" => OpenUnder(MyKey(t)) = {}

KeyOnFile(k) ==
    /\ SentUnder(k) # {} => seen[k] \in BrokerState
    /\ OpenUnder(k) # {} => seen[k] \in Unresolved

SoleWorker ==
    \A t, u \in Thread :
      pc[t] \in Working /\ pc[u] \in Working /\ MyKey(t) = MyKey(u) => t = u

OnFile ==
    /\ readable
    /\ SoleWorker
    /\ \A t \in Thread : ThreadOnFile(t)
    /\ \A k \in Key : KeyOnFile(k)

(***************************************************************************)
(* What the ledger's operations do to a readable file.                     *)
(***************************************************************************)
LEMMA ReadableLedger ==
    ASSUME LedgerTypeOK, readable
    PROVE  /\ \A k \in Key : Has(k) <=> seen[k] # "absent"
           /\ \A k \in Key : ReserveKey(k) =>
                readable' /\ seen' = [seen EXCEPT ![k] = "reserved"]
           /\ \A k \in Key, state \in BrokerState : RecordBrokerState(k, state) =>
                readable' /\ seen' = [seen EXCEPT ![k] = state]
BY DEF LedgerTypeOK, Load, Has, ReserveKey, RecordBrokerState, Save

(***************************************************************************)
(* A step of a thread that changes neither the file nor the exchange.      *)
(***************************************************************************)
LEMMA ThreadMoves ==
    ASSUME LiveTypeOK, OnFile, NEW t \in Thread,
           UNCHANGED <<ledger, exchange, call>>,
           \A u \in Thread : u # t => pc'[u] = pc[u] /\ reply'[u] = reply[u],
           pc'[t] \in Working => pc[t] \in Working,
           pc'[t] \in Placed => pc[t] \in Placed,
           pc'[t] \in Unsent => pc[t] \in Unsent,
           pc'[t] # "await",
           pc'[t] = "record" /\ reply'[t] # "unknown" => OpenUnder(MyKey(t)) = {}
    PROVE  OnFile'
<1>1. /\ seen' = seen /\ readable' = readable
      /\ inflight' = inflight /\ orders' = orders /\ late' = late /\ call' = call
  BY DEF ledger, exchange
<1>2. \A k \in Key : KeyOnFile(k)'
  BY <1>1 DEF OnFile, KeyOnFile, SentUnder, OpenUnder
<1>3. SoleWorker'
  BY <1>1 DEF OnFile, SoleWorker, MyKey
<1>4. ASSUME NEW u \in Thread, u # t PROVE ThreadOnFile(u)'
  BY <1>1, <1>4 DEF OnFile, ThreadOnFile, SentUnder, OpenUnder, MyKey
<1>5. ThreadOnFile(t)'
  BY <1>1 DEF OnFile, ThreadOnFile, SentUnder, OpenUnder, MyKey
<1> QED
  BY <1>1, <1>2, <1>3, <1>4, <1>5 DEF OnFile

(***************************************************************************)
(* The steps of the engine that write the file or reach the exchange.      *)
(***************************************************************************)
LEMMA ReserveOnFile ==
    ASSUME LiveTypeOK, OnFile, NEW t \in Thread, Reserve(t)
    PROVE  OnFile'
<1> PICK k \in Key : k = MyKey(t)
  BY PayloadTyping DEF Reserve, At
<1>1. CASE SeenBefore(t) \/ Answer(t, "raised", "returned")
  BY <1>1, ThreadMoves
     DEF Reserve, Answer, Goto, Working, Unsent, Placed, LiveTypeOK, ledger, exchange
<1>2. CASE ~SeenBefore(t) /\ ReserveKey(MyKey(t)) /\ Goto(t, "guard")
  <2>1. LedgerTypeOK /\ readable
    BY DEF LiveTypeOK, OnFile
  <2>2. ~Has(k) /\ ReserveKey(k)
    BY <1>2 DEF SeenBefore
  <2>3. seen[k] = "absent" /\ readable' /\ seen' = [seen EXCEPT ![k] = "reserved"]
    BY <2>1, <2>2, ReadableLedger
  <2>4. /\ call' = call /\ inflight' = inflight /\ orders' = orders /\ late' = late
        /\ pc' = [pc EXCEPT ![t] = "guard"] /\ reply' = reply
    BY <1>2 DEF Reserve, Goto, exchange
  <2>5. SentUnder(k) = {} /\ OpenUnder(k) = {}
    BY <2>3 DEF OnFile, KeyOnFile, BrokerState, Unresolved,
       Pending, SendUnknown, Confirmed, Reconciled
  <2>6. \A u \in Thread : pc[u] \in Working => MyKey(u) # k
    BY <2>3 DEF OnFile, ThreadOnFile
  <2>7. SoleWorker'
    BY <2>4, <2>6 DEF OnFile, SoleWorker, MyKey, LiveTypeOK
  <2>8. \A q \in Key : KeyOnFile(q)'
    BY <2>1, <2>3, <2>4, <2>5 DEF OnFile, KeyOnFile, SentUnder, OpenUnder, LedgerTypeOK
  <2>9. ASSUME NEW u \in Thread, u # t PROVE ThreadOnFile(u)'
    <3>1. pc'[u] = pc[u]
      BY <2>4, <2>9 DEF LiveTypeOK
    <3>2. pc[u] \in Working => MyKey(u) # k
      BY <2>6
    <3> QED
      BY <2>1, <2>3, <2>4, <3>1, <3>2
         DEF OnFile, ThreadOnFile, SentUnder, OpenUnder, MyKey, LedgerTypeOK,
             Working, Unsent, Placed
  <2>10. ThreadOnFile(t)'
    BY <2>1, <2>3, <2>4, <2>5
       DEF ThreadOnFile, SentUnder, MyKey, LiveTypeOK, LedgerTypeOK, Placed
  <2> QED
    BY <2>3, <2>7, <2>8, <2>9, <2>10 DEF OnFile
<1> QED
  BY <1>1, <1>2 DEF Reserve

LEMMA PendingOnFile ==
    ASSUME LiveTypeOK, OnFile, NEW t \in Thread, RecordPending(t)
    PROVE  OnFile'
<1> PICK k \in Key : k = MyKey(t)
  BY PayloadTyping DEF RecordPending, At
<1>1. CASE UNCHANGED ledger /\ Answer(t, "notSent", "outcome")
  BY <1>1, ThreadMoves
     DEF RecordPending, Answer, Working, Unsent, Placed, LiveTypeOK, ledger, exchange
<1>2. CASE RecordBrokerState(MyKey(t), Pending) /\ Goto(t, "broker")
  <2>1. LedgerTypeOK /\ readable /\ pc[t] = "pending"
    BY DEF LiveTypeOK, OnFile, RecordPending, At
  <2>2. readable' /\ seen' = [seen EXCEPT ![k] = Pending]
    BY <1>2, <2>1, ReadableLedger DEF BrokerState
  <2>3. /\ call' = call /\ inflight' = inflight /\ orders' = orders /\ late' = late
        /\ pc' = [pc EXCEPT ![t] = "broker"] /\ reply' = reply
    BY <1>2 DEF RecordPending, Goto, exchange
  <2>4. \A u \in Thread : u # t /\ pc[u] \in Working => MyKey(u) # k
    BY <2>1 DEF OnFile, SoleWorker, Working, Unsent
  <2>5. SoleWorker'
    BY <2>1, <2>3 DEF OnFile, SoleWorker, MyKey, LiveTypeOK, Working, Unsent
  <2>6. \A q \in Key : KeyOnFile(q)'
    BY <2>1, <2>2, <2>3
       DEF OnFile, KeyOnFile, SentUnder, OpenUnder, LedgerTypeOK, BrokerState, Unresolved
  <2>7. ASSUME NEW u \in Thread, u # t PROVE ThreadOnFile(u)'
    <3>1. pc'[u] = pc[u]
      BY <2>3, <2>7 DEF LiveTypeOK
    <3>2. pc[u] \in Working => MyKey(u) # k
      BY <2>4, <2>7
    <3> QED
      BY <2>1, <2>2, <2>3, <3>1, <3>2
         DEF OnFile, ThreadOnFile, SentUnder, OpenUnder, MyKey, LedgerTypeOK,
             Working, Unsent, Placed
  <2>8. ThreadOnFile(t)'
    BY <2>1, <2>2, <2>3
       DEF OnFile, ThreadOnFile, SentUnder, MyKey, LiveTypeOK, LedgerTypeOK, Placed,
           Unsent, Pending
  <2> QED
    BY <2>2, <2>5, <2>6, <2>7, <2>8 DEF OnFile
<1> QED
  BY <1>1, <1>2 DEF RecordPending

LEMMA CreateOnFile ==
    ASSUME LiveTypeOK, OnFile, NEW t \in Thread, CreateOrder(t)
    PROVE  OnFile'
<1> PICK p \in Payload, k \in Key : p = call[t] /\ k = KeyOf[p]
  BY PayloadTyping DEF CreateOrder, At, MyKey
<1>1. /\ pc[t] = "create" /\ call' = call /\ reply' = reply
      /\ pc' = [pc EXCEPT ![t] = "await"]
      /\ inflight' = inflight \union {p} /\ orders' = orders /\ late' = late
      /\ seen' = seen /\ readable' = readable
  BY DEF CreateOrder, At, Goto, ledger
<1>2. /\ k = MyKey(t) /\ seen[k] = Pending /\ SentUnder(k) = {}
  BY <1>1 DEF OnFile, ThreadOnFile, Placed, Unsent, MyKey
<1>3. \A u \in Thread : u # t /\ pc[u] \in Working => MyKey(u) # k
  BY <1>1, <1>2 DEF OnFile, SoleWorker, Working, Unsent
<1>4. \A q \in Key : q # k => SentUnder(q)' = SentUnder(q) /\ OpenUnder(q)' = OpenUnder(q)
  BY <1>1 DEF SentUnder, OpenUnder
<1>5. SoleWorker'
  BY <1>1 DEF OnFile, SoleWorker, MyKey, LiveTypeOK, Working, Unsent
<1>6. \A q \in Key : KeyOnFile(q)'
  BY <1>1, <1>2, <1>4 DEF OnFile, KeyOnFile, BrokerState, Unresolved
<1>7. ASSUME NEW u \in Thread, u # t PROVE ThreadOnFile(u)'
  <2>1. pc'[u] = pc[u] /\ MyKey(u)' = MyKey(u)
    BY <1>1, <1>7 DEF LiveTypeOK, MyKey
  <2>2. pc[u] \in Working => MyKey(u) # k /\ MyKey(u) \in Key /\ call[u] # p
    BY <1>3, <1>7, PayloadTyping DEF MyKey, Working, Unsent
  <2> QED
    BY <1>1, <1>4, <2>1, <2>2
       DEF OnFile, ThreadOnFile, SentUnder, OpenUnder, MyKey, Working, Unsent, Placed
<1>8. ThreadOnFile(t)'
  <2>1. p \notin orders /\ late \subseteq orders
    BY <1>2 DEF SentUnder, LiveTypeOK
  <2> QED
    BY <1>1, <1>2, <2>1
       DEF ThreadOnFile, SentUnder, MyKey, LiveTypeOK, Working, Unsent, Placed, Pending
<1> QED
  BY <1>1, <1>5, <1>6, <1>7, <1>8 DEF OnFile

LEMMA ResultOnFile ==
    ASSUME LiveTypeOK, OnFile, NEW t \in Thread, RecordResult(t)
    PROVE  OnFile'
<1> PICK k \in Key, state \in BrokerState : k = MyKey(t) /\ state = ResultState(reply[t])
  BY PayloadTyping DEF RecordResult, At, ResultState, BrokerState
<1>1. CASE UNCHANGED ledger
  BY <1>1, ThreadMoves
     DEF RecordResult, Goto, Working, Unsent, Placed, LiveTypeOK, ledger, exchange
<1>2. CASE RecordBrokerState(MyKey(t), ResultState(reply[t]))
  <2>1. LedgerTypeOK /\ readable /\ pc[t] = "record"
    BY DEF LiveTypeOK, OnFile, RecordResult, At
  <2>2. readable' /\ seen' = [seen EXCEPT ![k] = state]
    BY <1>2, <2>1, ReadableLedger
  <2>3. /\ call' = call /\ inflight' = inflight /\ orders' = orders /\ late' = late
        /\ pc' = [pc EXCEPT ![t] = "outcome"] /\ reply' = reply
    BY DEF RecordResult, Goto, exchange
  <2>4. \A u \in Thread : u # t /\ pc[u] \in Working => MyKey(u) # k
    BY <2>1 DEF OnFile, SoleWorker, Working
  <2>5. OpenUnder(k) # {} => state \in Unresolved
    BY <2>1 DEF OnFile, ThreadOnFile, ResultState, Unresolved
  <2>6. SoleWorker'
    BY <2>3 DEF OnFile, SoleWorker, MyKey, LiveTypeOK, Working, Unsent
  <2>7. \A q \in Key : KeyOnFile(q)'
    BY <2>1, <2>2, <2>3, <2>5 DEF OnFile, KeyOnFile, SentUnder, OpenUnder, LedgerTypeOK
  <2>8. ASSUME NEW u \in Thread, u # t PROVE ThreadOnFile(u)'
    <3>1. pc'[u] = pc[u]
      BY <2>3, <2>8 DEF LiveTypeOK
    <3>2. pc[u] \in Working => MyKey(u) # k
      BY <2>4, <2>8
    <3> QED
      BY <2>1, <2>2, <2>3, <3>1, <3>2
         DEF OnFile, ThreadOnFile, SentUnder, OpenUnder, MyKey, LedgerTypeOK,
             Working, Unsent, Placed
  <2>9. ThreadOnFile(t)'
    BY <2>3 DEF ThreadOnFile, LiveTypeOK, Working, Unsent, Placed
  <2> QED
    BY <2>2, <2>6, <2>7, <2>8, <2>9 DEF OnFile
<1> QED
  BY <1>1, <1>2 DEF RecordResult

LEMMA EngineOnFile ==
    ASSUME LiveTypeOK, OnFile, NEW t \in Thread, EngineStep(t)
    PROVE  OnFile'
<1>1. CASE Reserve(t) \/ RecordPending(t) \/ CreateOrder(t) \/ RecordResult(t)
  BY <1>1, ReserveOnFile, PendingOnFile, CreateOnFile, ResultOnFile
<1>2. OpenUnder(MyKey(t)) \subseteq SentUnder(MyKey(t))
  BY DEF OpenUnder, SentUnder, LiveTypeOK
<1>3. CASE Check(t) \/ AppendPlan(t) \/ PilotGuard(t) \/ Confirm(t) \/ TakeAttempt(t)
  BY <1>3, ThreadMoves
     DEF Check, AppendPlan, PilotGuard, Confirm, TakeAttempt, Refuse, At, Goto, Answer,
         Working, Unsent, Placed, LiveTypeOK, exchange
<1>4. CASE BrokerGuards(t) \/ ClaimSend(t)
  <2>1. OpenUnder(MyKey(t)) = {}
    BY <1>2, <1>4 DEF BrokerGuards, ClaimSend, At, OnFile, ThreadOnFile, Unsent
  <2> QED
    BY <1>4, <2>1, ThreadMoves
       DEF BrokerGuards, ClaimSend, Refuse, At, Goto, Answer,
           Working, Unsent, Placed, LiveTypeOK, exchange
<1>5. CASE OrderReturned(t)
  <2>1. OpenUnder(MyKey(t)) = {}
    BY <1>2, <1>5 DEF OrderReturned, At, OnFile, ThreadOnFile, OpenUnder
  <2> QED
    BY <1>5, <2>1, ThreadMoves
       DEF OrderReturned, At, Answer, Working, Unsent, Placed, LiveTypeOK, exchange
<1>6. CASE OrderRaised(t)
  BY <1>6, ThreadMoves
     DEF OrderRaised, At, Answer, Working, Unsent, Placed, LiveTypeOK, exchange
<1>7. CASE RecordOutcome(t) \/ Report(t)
  BY <1>7, ThreadMoves
     DEF RecordOutcome, Report, At, Goto, Working, Unsent, Placed, LiveTypeOK, exchange
<1> QED
  BY <1>1, <1>3, <1>4, <1>5, <1>6, <1>7 DEF EngineStep

(***************************************************************************)
(* An order that arrives is late unless its caller still waits for it.     *)
(***************************************************************************)
LEMMA AcceptOnFile ==
    ASSUME LiveTypeOK, OnFile, NEW p \in Payload, Accept(p)
    PROVE  OnFile'
<1>1. /\ call' = call /\ reply' = reply /\ pc' = pc /\ seen' = seen /\ readable' = readable
      /\ p \in inflight /\ inflight' = inflight \ {p} /\ orders' = orders \union {p}
      /\ late' = IF Awaited(p) THEN late ELSE late \union {p}
  BY DEF Accept, ledger, threads
<1>2. \A q \in Key : SentUnder(q)' = SentUnder(q) /\ OpenUnder(q)' \subseteq OpenUnder(q)
  BY <1>1 DEF SentUnder, OpenUnder
<1>3. SoleWorker' /\ \A q \in Key : KeyOnFile(q)'
  BY <1>1, <1>2 DEF OnFile, SoleWorker, MyKey, KeyOnFile
<1>4. ASSUME NEW t \in Thread PROVE ThreadOnFile(t)'
  <2>1. CASE pc[t] = "await"
    <3>1. MyKey(t) \in Key /\ MyKey(t)' = MyKey(t)
      BY <1>1, <2>1, PayloadTyping DEF MyKey
    <3>2. SentUnder(MyKey(t))' = SentUnder(MyKey(t))
      BY <1>1 DEF SentUnder, MyKey
    <3>3. call[t] = p => Awaited(p)
      BY <2>1 DEF Awaited
    <3> QED
      BY <1>1, <2>1, <3>1, <3>2, <3>3
         DEF OnFile, ThreadOnFile, Working, Unsent, Placed
  <2>2. CASE pc[t] # "await"
    <3>1. /\ SentUnder(MyKey(t))' = SentUnder(MyKey(t))
          /\ OpenUnder(MyKey(t))' \subseteq OpenUnder(MyKey(t))
      BY <1>1 DEF SentUnder, OpenUnder, MyKey
    <3>2. MyKey(t)' = MyKey(t)
      BY <1>1 DEF MyKey
    <3> QED
      BY <1>1, <2>2, <3>1, <3>2 DEF OnFile, ThreadOnFile
  <2> QED
    BY <2>1, <2>2
<1> QED
  BY <1>1, <1>3, <1>4 DEF OnFile

LEMMA DropOnFile ==
    ASSUME LiveTypeOK, OnFile, NEW p \in Payload, Drop(p)
    PROVE  OnFile'
<1>1. /\ call' = call /\ reply' = reply /\ pc' = pc /\ seen' = seen /\ readable' = readable
      /\ inflight' \subseteq inflight /\ orders' = orders /\ late' = late
  BY DEF Drop, ledger, threads
<1>2. \A q \in Key : /\ SentUnder(q)' \subseteq SentUnder(q)
                     /\ OpenUnder(q)' \subseteq OpenUnder(q)
  BY <1>1 DEF SentUnder, OpenUnder
<1>3. SoleWorker' /\ \A q \in Key : KeyOnFile(q)'
  BY <1>1, <1>2 DEF OnFile, SoleWorker, MyKey, KeyOnFile
<1>4. ASSUME NEW t \in Thread PROVE ThreadOnFile(t)'
  <2>1. /\ SentUnder(MyKey(t))' \subseteq SentUnder(MyKey(t))
        /\ OpenUnder(MyKey(t))' \subseteq OpenUnder(MyKey(t))
        /\ MyKey(t)' = MyKey(t)
    BY <1>1 DEF SentUnder, OpenUnder, MyKey
  <2> QED
    BY <1>1, <2>1 DEF OnFile, ThreadOnFile
<1> QED
  BY <1>1, <1>3, <1>4 DEF OnFile

(***************************************************************************)
(* A ledger that was lost stays on record as such.                         *)
(***************************************************************************)
LEMMA LossKept ==
    ASSUME [LiveNext]_liveVars, ~lost'
    PROVE  ~lost
BY DEF LiveNext, liveVars, ledger, Begin, EngineStep, Return, ExchangeStep, Accept, Drop,
       Age, Stop, LoseFile, Save, ReserveKey, RecordBrokerState, Check, AppendPlan,
       Reserve, PilotGuard, Refuse, Confirm, TakeAttempt, RecordPending, BrokerGuards,
       ClaimSend, CreateOrder, OrderReturned, OrderRaised, RecordResult, RecordOutcome,
       Report

LEMMA StepOnFile == LiveTypeOK /\ (lost \/ OnFile) /\ [LiveNext]_liveVars => (lost \/ OnFile)'
<1> SUFFICES ASSUME LiveTypeOK, ~lost', lost \/ OnFile, [LiveNext]_liveVars
             PROVE  OnFile'
  OBVIOUS
<1>0. OnFile
  BY LossKept
<1>1. ASSUME NEW t \in Thread, EngineStep(t) PROVE OnFile'
  BY <1>0, <1>1, EngineOnFile
<1>2. ASSUME UNCHANGED <<ledger, exchange>>, NEW t \in Thread,
             \A u \in Thread : u # t => /\ pc'[u] = pc[u] /\ call'[u] = call[u]
                                        /\ reply'[u] = reply[u],
             pc'[t] \in {"idle", "check"}
      PROVE  OnFile'
  <2>1. /\ seen' = seen /\ readable' = readable
        /\ inflight' = inflight /\ orders' = orders /\ late' = late
    BY <1>2 DEF ledger, exchange
  <2>2. \A k \in Key : KeyOnFile(k)'
    BY <1>0, <2>1 DEF OnFile, KeyOnFile, SentUnder, OpenUnder
  <2>3. SoleWorker'
    BY <1>0, <1>2 DEF OnFile, SoleWorker, MyKey, Working, Unsent
  <2>4. ASSUME NEW u \in Thread PROVE ThreadOnFile(u)'
    BY <1>0, <1>2, <2>1
       DEF OnFile, ThreadOnFile, SentUnder, OpenUnder, MyKey, Working, Unsent, Placed
  <2> QED
    BY <1>0, <2>1, <2>2, <2>3, <2>4 DEF OnFile
<1>3. ASSUME NEW t \in Thread, NEW p \in Payload, Begin(t, p) PROVE OnFile'
  BY <1>2, <1>3 DEF Begin, LiveTypeOK
<1>4. ASSUME NEW t \in Thread, Return(t) PROVE OnFile'
  BY <1>2, <1>4 DEF Return, LiveTypeOK
<1>5. ASSUME NEW p \in Payload, Accept(p) \/ Drop(p) PROVE OnFile'
  BY <1>0, <1>5, AcceptOnFile, DropOnFile
<1>6. CASE Age \/ UNCHANGED liveVars
  <2>1. /\ seen' = seen /\ readable' = readable
        /\ inflight' = inflight /\ orders' = orders /\ late' = late
        /\ pc' = pc /\ call' = call /\ reply' = reply
    BY <1>6 DEF Age, liveVars, ledger, exchange, threads
  <2>2. SoleWorker' /\ \A k \in Key : KeyOnFile(k)'
    BY <1>0, <2>1 DEF OnFile, SoleWorker, KeyOnFile, SentUnder, OpenUnder, MyKey
  <2>3. ASSUME NEW t \in Thread PROVE ThreadOnFile(t)'
    BY <1>0, <2>1 DEF OnFile, ThreadOnFile, SentUnder, OpenUnder, MyKey
  <2> QED
    BY <1>0, <2>1, <2>2, <2>3 DEF OnFile
<1>7. CASE Stop
  <2>1. /\ seen' = seen /\ readable' = readable
        /\ inflight' = inflight /\ orders' = orders /\ late' = late
        /\ \A t \in Thread : pc'[t] = "idle"
    BY <1>7 DEF Stop, StopThreads, LoseFile, ledger, exchange
  <2> QED
    BY <1>0, <2>1 DEF OnFile, SoleWorker, ThreadOnFile, KeyOnFile, SentUnder, OpenUnder,
       Working, Unsent, Placed
<1> QED
  BY <1>1, <1>3, <1>4, <1>5, <1>6, <1>7 DEF LiveNext, ExchangeStep

(***************************************************************************)
(* The file is on terms with the exchange until it is lost.                *)
(***************************************************************************)
LEMMA FileKept == LiveSpec => [](lost \/ OnFile)
<1>1. LiveInit => lost \/ OnFile
  BY DEF LiveInit, LedgerInit, OnFile, SoleWorker, ThreadOnFile, KeyOnFile, SentUnder,
     OpenUnder, Working, Unsent, Placed
<1>2. LiveTypeOK /\ (lost \/ OnFile) /\ [LiveNext]_liveVars => (lost \/ OnFile)'
  BY StepOnFile
<1> QED
  BY <1>1, <1>2, LiveTyping, PTL DEF LiveSpec

(***************************************************************************)
(* A request that left the process is on file.                             *)
(***************************************************************************)
THEOREM SentCallOnRecord == LiveSpec => []CallOnRecord
<1>1. LiveTypeOK /\ OnFile => CallOnRecord
  BY LiveAssumption DEF LiveTypeOK, OnFile, KeyOnFile, SentUnder, CallOnRecord
<1>2. lost => CallOnRecord
  BY DEF CallOnRecord
<1> QED
  BY <1>1, <1>2, FileKept, LiveTyping, PTL

(***************************************************************************)
(* A confirmed outcome is final.                                           *)
(***************************************************************************)
THEOREM ConfirmedOutcomeIsFinal == LiveSpec => []ConfirmedIsFinal
<1>1. LiveTypeOK /\ OnFile => ConfirmedIsFinal
  BY LiveAssumption DEF LiveTypeOK, OnFile, KeyOnFile, OpenUnder, ConfirmedIsFinal
<1>2. lost => ConfirmedIsFinal
  BY DEF ConfirmedIsFinal
<1> QED
  BY <1>1, <1>2, FileKept, LiveTyping, PTL

(***************************************************************************)
(* The position limit.  A thread that passed the broker's guard may still  *)
(* add a leg, unless its request became an order already; every leg that   *)
(* arrives in time uses up such a thread.                                  *)
(***************************************************************************)
Sending == {t \in Thread : pc[t] \in {"claim", "create", "await"} /\ call[t] \notin orders}
Timely == {LegOf[p] : p \in orders \ late}

SentApart ==
    /\ \A p \in inflight \union orders : sends[AttemptOf[p]] # 0
    /\ inflight \intersect orders = {}

WithinLimit ==
    /\ IsFiniteSet(OpenLegs)
    /\ Cardinality(Timely) + Cardinality(Sending) <= MaxOpen + Cardinality(Thread) - 1

LEMMA ApartKept ==
    ASSUME LiveTypeOK, SoleClaim, SentApart, [LiveNext]_liveVars
    PROVE  SentApart'
<1>1. ASSUME UNCHANGED <<inflight, orders, sends>> PROVE SentApart'
  BY <1>1 DEF SentApart
<1>2. ASSUME NEW t \in Thread, CreateOrder(t) PROVE SentApart'
  <2>1. PICK a \in Attempt : a = MyAttempt(t)
    BY <1>2, PayloadTyping DEF CreateOrder, At
  <2>2. sends[a] = 0
    BY <1>2, <2>1 DEF CreateOrder, At, SoleClaim
  <2>3. /\ sends' = [sends EXCEPT ![a] = sends[a] + 1]
         /\ inflight' = inflight \union {call[t]} /\ orders' = orders
    BY <1>2, <2>1 DEF CreateOrder
  <2>4. /\ sends[a] = 0 /\ sends' = [sends EXCEPT ![a] = 1]
        /\ inflight' = inflight \union {call[t]} /\ orders' = orders
    BY <2>2, <2>3
  <2>5. /\ call[t] \in Payload /\ AttemptOf[call[t]] = a
        /\ \A p \in inflight \union orders : AttemptOf[p] # a
    BY <1>2, <2>1, <2>4, PayloadTyping DEF CreateOrder, At, MyAttempt, SentApart
  <2>6. \A p \in inflight \union orders : AttemptOf[p] \in Attempt
    BY LiveAssumption DEF LiveTypeOK
  <2>7. \A p \in inflight' \union orders' : sends'[AttemptOf[p]] # 0
    BY <2>4, <2>5, <2>6 DEF SentApart, LiveTypeOK
  <2>8. inflight' \intersect orders' = {}
    BY <2>4, <2>5 DEF SentApart
  <2> QED
    BY <2>7, <2>8 DEF SentApart
<1>3. ASSUME NEW t \in Thread, EngineStep(t), ~CreateOrder(t) PROVE SentApart'
  <2>1. UNCHANGED exchange
    BY <1>3 DEF EngineStep, Check, AppendPlan, Reserve, PilotGuard, Confirm, TakeAttempt,
         RecordPending, BrokerGuards, ClaimSend, OrderReturned, OrderRaised, RecordResult,
         RecordOutcome, Report, Refuse
  <2> QED
    BY <1>1, <2>1 DEF exchange
<1>4. ASSUME NEW p \in Payload, Accept(p) \/ Drop(p) PROVE SentApart'
  BY <1>4 DEF Accept, Drop, SentApart
<1>5. ASSUME UNCHANGED exchange PROVE SentApart'
  BY <1>1, <1>5 DEF exchange
<1> QED
  BY <1>2, <1>3, <1>4, <1>5 DEF LiveNext, Begin, Return, ExchangeStep, Age, Stop, liveVars

LEMMA TimelyFinite ==
    ASSUME IsFiniteSet(OpenLegs)
    PROVE  /\ IsFiniteSet(Timely) /\ Cardinality(Timely) \in Nat
           /\ Cardinality(OpenLegs) \in Nat /\ Cardinality(Timely) <= Cardinality(OpenLegs)
<1>1. Timely \in SUBSET OpenLegs
  BY DEF Timely, OpenLegs
<1> QED
  BY <1>1, FS_Subset, FS_CardinalityType

LEMMA SendingFinite ==
    ASSUME IsFiniteSet(Thread), NEW S \in SUBSET Thread
    PROVE  /\ IsFiniteSet(S) /\ Cardinality(S) \in Nat
           /\ Cardinality(Thread) \in Nat /\ Cardinality(S) <= Cardinality(Thread)
BY FS_Subset, FS_CardinalityType

(***************************************************************************)
(* Nobody starts sending and no leg arrives.                               *)
(***************************************************************************)
LEMMA LimitKept ==
    ASSUME IsFiniteSet(Thread), WithinLimit, UNCHANGED <<orders, late>>,
           Sending' \subseteq Sending
    PROVE  WithinLimit'
<1>1. OpenLegs' = OpenLegs /\ Timely' = Timely
  BY DEF OpenLegs, Timely
<1>2. Sending \in SUBSET Thread /\ Sending' \in SUBSET Sending
  BY DEF Sending
<1>3. /\ Cardinality(Sending) \in Nat /\ IsFiniteSet(Sending) /\ Cardinality(Thread) \in Nat
      /\ Cardinality(Timely) \in Nat
  BY <1>2, SendingFinite, TimelyFinite DEF WithinLimit
<1>4. Cardinality(Sending') <= Cardinality(Sending) /\ Cardinality(Sending') \in Nat
  BY <1>2, <1>3, FS_Subset, FS_CardinalityType
<1> QED
  BY <1>1, <1>3, <1>4, LiveAssumption DEF WithinLimit

LEMMA GuardWithinLimit ==
    ASSUME IsFiniteSet(Thread), LiveTypeOK, WithinLimit, NEW t \in Thread, BrokerGuards(t)
    PROVE  WithinLimit'
<1>1. UNCHANGED <<orders, late, call>>
  BY DEF BrokerGuards, Answer, Goto, exchange
<1>2. OpenLegs' = OpenLegs /\ Timely' = Timely
  BY <1>1 DEF OpenLegs, Timely
<1>3. CASE Answer(t, "refused", "record")
  <2>1. Sending' \subseteq Sending
    BY <1>1, <1>3 DEF Answer, Sending, LiveTypeOK
  <2> QED
    BY <1>1, <2>1, LimitKept
<1>4. CASE Cardinality(OpenLegs) < MaxOpen
  <2>1. Sending' \in SUBSET Thread
    BY DEF Sending
  <2>2. /\ Cardinality(Sending') \in Nat /\ Cardinality(Thread) \in Nat
        /\ Cardinality(Sending') <= Cardinality(Thread)
    BY <2>1, SendingFinite
  <2>3. /\ Cardinality(Timely) \in Nat /\ Cardinality(OpenLegs) \in Nat
        /\ Cardinality(Timely) <= Cardinality(OpenLegs)
    BY TimelyFinite DEF WithinLimit
  <2> QED
    BY <1>2, <1>4, <2>2, <2>3, LiveAssumption DEF WithinLimit
<1> QED
  BY <1>3, <1>4 DEF BrokerGuards

LEMMA AcceptWithinLimit ==
    ASSUME IsFiniteSet(Thread), LiveTypeOK, SentApart, WithinLimit, NEW p \in Payload, Accept(p)
    PROVE  WithinLimit'
<1>1. /\ p \in inflight /\ orders' = orders \union {p} /\ UNCHANGED <<pc, call>>
      /\ late' = IF Awaited(p) THEN late ELSE late \union {p}
  BY DEF Accept, threads
<1>2. p \notin orders /\ p \notin late
  BY <1>1 DEF SentApart, LiveTypeOK
<1>3. IsFiniteSet(OpenLegs')
  <2>1. OpenLegs' = OpenLegs \union {LegOf[p]}
    BY <1>1 DEF OpenLegs
  <2> QED
    BY <2>1, FS_AddElement DEF WithinLimit
<1>4. /\ Sending \in SUBSET Thread /\ IsFiniteSet(Sending) /\ Cardinality(Sending) \in Nat
      /\ Cardinality(Thread) \in Nat /\ Cardinality(Timely) \in Nat /\ IsFiniteSet(Timely)
  <2>1. Sending \in SUBSET Thread
    BY DEF Sending
  <2> QED
    BY <2>1, SendingFinite, TimelyFinite DEF WithinLimit
<1>5. CASE ~Awaited(p)
  <2>1. Timely' = Timely
    BY <1>1, <1>2, <1>5 DEF Timely
  <2>2. Sending' \in SUBSET Sending
    BY <1>1 DEF Sending
  <2>3. Cardinality(Sending') <= Cardinality(Sending) /\ Cardinality(Sending') \in Nat
    BY <1>4, <2>2, FS_Subset, FS_CardinalityType
  <2> QED
    BY <1>3, <1>4, <2>1, <2>3, LiveAssumption DEF WithinLimit
<1>6. CASE Awaited(p)
  <2>1. PICK t \in Thread : pc[t] = "await" /\ call[t] = p
    BY <1>6 DEF Awaited
  <2>2. Timely' = Timely \union {LegOf[p]}
    BY <1>1, <1>2, <1>6 DEF Timely, LiveTypeOK
  <2>3. Cardinality(Timely') \in Nat /\ Cardinality(Timely') <= Cardinality(Timely) + 1
    <3>1. IsFiniteSet(Timely \union {LegOf[p]})
      BY <1>4, FS_AddElement
    <3>2. Cardinality(Timely \union {LegOf[p]}) \in {Cardinality(Timely), Cardinality(Timely) + 1}
      BY <1>4, FS_AddElement
    <3> QED
      BY <1>4, <2>2, <3>1, <3>2
  <2>4. t \in Sending /\ Sending' \in SUBSET (Sending \ {t})
    BY <1>1, <1>2, <2>1 DEF Sending
  <2>5. /\ IsFiniteSet(Sending \ {t})
        /\ Cardinality(Sending \ {t}) = Cardinality(Sending) - 1
    BY <1>4, <2>4, FS_RemoveElement
  <2>6. Cardinality(Sending') \in Nat /\ Cardinality(Sending') <= Cardinality(Sending) - 1
    BY <2>4, <2>5, FS_Subset, FS_CardinalityType
  <2> QED
    BY <1>3, <1>4, <2>3, <2>6, LiveAssumption DEF WithinLimit
<1> QED
  BY <1>5, <1>6

(***************************************************************************)
(* The engine's other steps.                                               *)
(***************************************************************************)
LEMMA EngineWithinLimit ==
    ASSUME IsFiniteSet(Thread), LiveTypeOK, WithinLimit, NEW t \in Thread, EngineStep(t)
    PROVE  WithinLimit'
<1>1. CASE BrokerGuards(t)
  BY <1>1, GuardWithinLimit
<1>2. CASE ~BrokerGuards(t)
  <2>1. UNCHANGED <<orders, late, call>>
    BY <1>2 DEF EngineStep, Check, AppendPlan, Reserve, PilotGuard, Confirm, TakeAttempt,
         RecordPending, ClaimSend, CreateOrder, OrderReturned, OrderRaised, RecordResult,
         RecordOutcome, Report, Refuse, Goto, Answer, exchange
  <2>2. /\ \A u \in Thread : u # t => pc'[u] = pc[u]
        /\ pc'[t] \in {"claim", "create", "await"} => pc[t] \in {"claim", "create", "await"}
    BY <1>2 DEF EngineStep, At, Check, AppendPlan, Reserve, PilotGuard, Confirm, TakeAttempt,
         RecordPending, ClaimSend, CreateOrder, OrderReturned, OrderRaised, RecordResult,
         RecordOutcome, Report, Refuse, Goto, Answer, LiveTypeOK
  <2>3. Sending' \subseteq Sending
    BY <2>1, <2>2 DEF Sending
  <2> QED
    BY <2>1, <2>3, LimitKept
<1> QED
  BY <1>1, <1>2

(***************************************************************************)
(* Threads that pass the position guard together overshoot the limit, by   *)
(* at most one leg each, however their calls, the exchange's answers and   *)
(* restarts interleave.                                                    *)
(***************************************************************************)
THEOREM OvershootBounded ==
    ASSUME IsFiniteSet(Thread), Thread # {}
    PROVE  LiveSpec => []Overshoot
<1>1. LiveInit => SoleClaim /\ SentApart /\ WithinLimit
  <2> SUFFICES ASSUME LiveInit PROVE SoleClaim /\ SentApart /\ WithinLimit
    OBVIOUS
  <2>1. OpenLegs = {} /\ Timely = {} /\ Sending = {}
    BY DEF LiveInit, OpenLegs, Timely, Sending
  <2>2. Cardinality(Thread) \in Nat /\ Cardinality(Thread) # 0
    BY FS_CardinalityType, FS_EmptySet
  <2>3. WithinLimit
    BY <2>1, <2>2, FS_EmptySet, LiveAssumption DEF WithinLimit
  <2> QED
    BY <2>3 DEF LiveInit, SoleClaim, SentApart
<1>2. LiveTypeOK /\ SentApart /\ WithinLimit /\ [LiveNext]_liveVars => WithinLimit'
  <2> SUFFICES ASSUME LiveTypeOK, SentApart, WithinLimit, [LiveNext]_liveVars
               PROVE  WithinLimit'
    OBVIOUS
  <2>1. ASSUME NEW t \in Thread, EngineStep(t) PROVE WithinLimit'
    BY <2>1, EngineWithinLimit
  <2>2. ASSUME UNCHANGED <<orders, late>>, Sending' \subseteq Sending PROVE WithinLimit'
    BY <2>2, LimitKept
  <2>3. ASSUME NEW t \in Thread, (\E p \in Payload : Begin(t, p)) \/ Return(t)
        PROVE  WithinLimit'
    <3>1. UNCHANGED <<orders, late>>
      BY <2>3 DEF Begin, Return, exchange
    <3>2. Sending' \subseteq Sending
      BY <2>3, <3>1 DEF Begin, Return, Sending, LiveTypeOK
    <3> QED
      BY <2>2, <3>1, <3>2
  <2>4. ASSUME NEW p \in Payload, Accept(p) PROVE WithinLimit'
    BY <2>4, AcceptWithinLimit
  <2>5. CASE \/ Age \/ Stop \/ UNCHANGED liveVars
             \/ \E p \in Payload : Drop(p)
    <3>1. UNCHANGED <<orders, late>>
      BY <2>5 DEF Age, Stop, Drop, liveVars, exchange
    <3>2. Sending' \subseteq Sending
      BY <2>5, <3>1 DEF Age, Stop, StopThreads, Drop, liveVars, threads, Sending
    <3> QED
      BY <2>2, <3>1, <3>2
  <2> QED
    BY <2>1, <2>3, <2>4, <2>5 DEF LiveNext, ExchangeStep
<1>3. WithinLimit => Overshoot
  <2> SUFFICES ASSUME WithinLimit PROVE Overshoot
    OBVIOUS
  <2>1. Sending \in SUBSET Thread
    BY DEF Sending
  <2>2. Cardinality(Sending) \in Nat /\ Cardinality(Thread) \in Nat /\ Cardinality(Timely) \in Nat
    BY <2>1, SendingFinite, TimelyFinite DEF WithinLimit
  <2> QED
    BY <2>2, LiveAssumption DEF WithinLimit, Overshoot, Timely
<1>4. LiveTypeOK /\ SoleClaim /\ SentApart /\ [LiveNext]_liveVars => SentApart'
  BY ApartKept
<1> QED
  BY <1>1, <1>2, <1>3, <1>4, LiveTyping, ClaimSole, PTL DEF LiveSpec


(***************************************************************************)
(* What a step does to the engine, the ledger and the exchange.            *)
(***************************************************************************)
LedgerMove(k, state) ==
    /\ \/ state = "reserved" /\ ~Has(k) /\ ReserveKey(k)
       \/ state = Reconciled /\ RecordBrokerState(k, state)
    /\ UNCHANGED <<authority, log, exchange, threads>>

RestartMove ==
    /\ StopThreads
    /\ LoseFile \/ UNCHANGED ledger
    /\ UNCHANGED <<authority, log, exchange>>

LiveMove ==
    \/ EngineStep(Scanner)
    \/ \E p \in FalconPayload : Begin(Scanner, p)
    \/ Return(Scanner)
    \/ ExchangeStep
    \/ \E k \in Key, state \in {"reserved", Reconciled} : LedgerMove(k, state)
    \/ RestartMove
    \/ UNCHANGED liveVars

LEMMA StepMoves ==
    ASSUME stage # "idle" => signal \in FalconPayload,
           op.at # "idle" => op.of \in FalconPayload,
           [Next]_vars
    PROVE  LiveMove
<1>1. CASE ScannerStep
  BY <1>1
     DEF ScannerStep, LiveMove, NewSignal, Preflight, Gates, EntryLock, ArmStop, EngineRuns,
         EngineAnswers, ResultRaises, Secure, FileIncident, Contain, Track, Scans
<1>2. CASE ReconcileStep /\ ~CloseLedger
  BY <1>2
     DEF ReconcileStep, Finalize, LiveMove, LoadIncident, Identify, Decide, CloseNaked, Restore,
         CloseGate, SaveFact, SavePhase, SaveLedgerPhase, Unlock, SaveUnlockPhase, Acknowledge,
         ClearGate
<1>3. CASE CloseLedger
  <2>1. KeyOf[op.of] \in Key
    BY <1>3, LiveAssumption, RecoveryAssumption DEF CloseLedger, OpAt
  <2> QED
    BY <1>3, <2>1 DEF CloseLedger, LiveMove, LedgerMove, liveVars
<1>4. ASSUME NEW k \in Key \ FalconKey, OtherBotReserves(k) PROVE LiveMove
  BY <1>4 DEF OtherBotReserves, LiveMove, LedgerMove
<1>5. CASE ExchangeStep
  BY <1>5 DEF LiveMove
<1>6. ASSUME NEW p \in FalconPayload, StopLost(p) \/ StopFills(p) PROVE LiveMove
  BY <1>6 DEF StopLost, StopFills, LiveMove
<1>7. CASE Restart
  BY <1>7 DEF Restart, LiveMove, RestartMove
<1>8. CASE UNCHANGED vars
  BY <1>8 DEF vars, LiveMove
<1> QED
  BY <1>1, <1>2, <1>3, <1>4, <1>5, <1>6, <1>7, <1>8 DEF Next

(***************************************************************************)
(* The engine's invariants, in a process whose other threads do not enter. *)
(***************************************************************************)
Alone == \A t \in Thread \ {Scanner} : pc[t] = "idle"

Held == {"pending", "broker", "claim", "create"}

\* No thread will send the attempt.
Gone(a) ==
    /\ attempt[a] # "free"
    /\ \A t \in Thread : pc[t] \in Held => MyAttempt(t) # a

Taken ==
    /\ pc[Scanner] \in Held \union {"await", "record"} => attempt[MyAttempt(Scanner)] # "free"
    /\ \A p \in Payload : seen[KeyOf[p]] = Confirmed => Gone(AttemptOf[p])

Engine == LiveTypeOK /\ SoleClaim /\ SentApart /\ Alone /\ Taken

LEMMA MoveIsLive ==
    ASSUME LiveMove
    PROVE  \/ [LiveNext]_liveVars
           \/ \E k \in Key, state \in {"reserved", Reconciled} : LedgerMove(k, state)
           \/ RestartMove
BY RecoveryAssumption DEF LiveMove, LiveNext

LEMMA MoveTyping ==
    ASSUME Engine, LiveMove
    PROVE  LiveTypeOK' /\ SoleClaim' /\ SentApart'
<1> USE DEF Engine
<1>1. CASE [LiveNext]_liveVars
  BY <1>1, LiveStepTyping, StepSoleClaim, ApartKept
<1>2. ASSUME NEW k \in Key, NEW state \in {"reserved", Reconciled}, LedgerMove(k, state)
      PROVE  LiveTypeOK' /\ SoleClaim' /\ SentApart'
  <2>1. LedgerTypeOK'
    BY <1>2, LedgerTyping DEF LedgerMove, LiveTypeOK, BrokerState
  <2> QED
    BY <1>2, <2>1
       DEF LedgerMove, LiveTypeOK, SoleClaim, SentApart, MyAttempt, authority, exchange, threads
<1>3. CASE RestartMove
  <2>1. LedgerTypeOK'
    BY <1>3, LedgerTyping DEF RestartMove, LiveTypeOK
  <2>2. LiveTypeOK'
    BY <1>3, <2>1
       DEF RestartMove, StopThreads, LiveTypeOK, authority, exchange, LiveLabel, Reply
  <2>3. SoleClaim' /\ SentApart'
    BY <1>3 DEF RestartMove, StopThreads, SoleClaim, SentApart, authority, exchange
  <2> QED
    BY <2>2, <2>3
<1> QED
  BY <1>1, <1>2, <1>3, MoveIsLive

LEMMA EngineMovesOne ==
    ASSUME LiveTypeOK, NEW t \in Thread, EngineStep(t)
    PROVE  UNCHANGED call /\ \A u \in Thread : u # t => pc'[u] = pc[u]
<1>1. UNCHANGED call
  BY DEF EngineStep, Check, AppendPlan, Reserve, PilotGuard, Confirm, TakeAttempt,
         RecordPending, BrokerGuards, ClaimSend, CreateOrder, OrderReturned,
         OrderRaised, RecordResult, RecordOutcome, Report, Refuse, Goto, Answer
<1>2. \A u \in Thread : u # t => pc'[u] = pc[u]
  BY DEF EngineStep, Check, AppendPlan, Reserve, PilotGuard, Confirm, TakeAttempt,
         RecordPending, BrokerGuards, ClaimSend, CreateOrder, OrderReturned,
         OrderRaised, RecordResult, RecordOutcome, Report, Refuse, Goto, Answer,
         LiveTypeOK
<1> QED
  BY <1>1, <1>2

LEMMA MoveAlone ==
    ASSUME Engine, LiveMove
    PROVE  Alone'
<1> USE RecoveryAssumption DEF Engine
<1>1. CASE EngineStep(Scanner)
  BY <1>1, EngineMovesOne DEF Alone
<1>2. CASE Return(Scanner) \/ \E p \in FalconPayload : Begin(Scanner, p)
  BY <1>2 DEF Return, Begin, Alone, LiveTypeOK
<1>3. CASE \/ ExchangeStep \/ UNCHANGED liveVars
           \/ \E k \in Key, state \in {"reserved", Reconciled} : LedgerMove(k, state)
  BY <1>3 DEF ExchangeStep, Accept, Drop, LedgerMove, threads, liveVars, Alone
<1>4. CASE RestartMove
  BY <1>4 DEF RestartMove, StopThreads, Alone
<1> QED
  BY <1>1, <1>2, <1>3, <1>4 DEF LiveMove

(***************************************************************************)
(* An attempt that nobody will send any more stays so.                     *)
(***************************************************************************)
LEMMA GoneKept ==
    ASSUME Engine, LiveMove, NEW a \in Attempt, Gone(a)
    PROVE  /\ Gone(a)'
           /\ attempt[a] # "claimed" => attempt'[a] # "claimed"
<1> USE RecoveryAssumption DEF Engine
<1>1. CASE EngineStep(Scanner)
  <2> DEFINE b == MyAttempt(Scanner)
  <2>1. /\ UNCHANGED call
        /\ \A u \in Thread : u # Scanner => pc'[u] = pc[u]
    BY <1>1, EngineMovesOne
  <2>2. \/ UNCHANGED attempt /\ (pc'[Scanner] \in Held => pc[Scanner] \in Held)
        \/ attempt[b] = "free" /\ attempt' = [attempt EXCEPT ![b] = "reserved"]
        \/ /\ pc[Scanner] \in Held
           /\ \E state \in {"claimed", "consumed"} : attempt' = [attempt EXCEPT ![b] = state]
        \/ /\ attempt' = [attempt EXCEPT ![b] = "consumed"] /\ pc'[Scanner] \notin Held
    BY <1>1
       DEF EngineStep, At, Check, AppendPlan, Reserve, PilotGuard, Confirm, TakeAttempt,
           RecordPending, BrokerGuards, ClaimSend, CreateOrder, OrderReturned, OrderRaised,
           RecordResult, RecordOutcome, Report, Refuse, Goto, Answer, authority, Held, LiveTypeOK
  <2>3. MyAttempt(Scanner)' = b /\ \A u \in Thread : MyAttempt(u)' = MyAttempt(u)
    BY <2>1 DEF MyAttempt
  <2> HIDE DEF b
  <2> QED
    BY <2>1, <2>2, <2>3 DEF Gone, LiveTypeOK
<1>2. CASE Return(Scanner) \/ \E p \in FalconPayload : Begin(Scanner, p)
  BY <1>2 DEF Return, Begin, Gone, MyAttempt, LiveTypeOK, Held, authority
<1>3. CASE \/ ExchangeStep \/ UNCHANGED liveVars
           \/ \E k \in Key, state \in {"reserved", Reconciled} : LedgerMove(k, state)
  BY <1>3 DEF ExchangeStep, Accept, Drop, LedgerMove, threads, liveVars, Gone, MyAttempt, authority
<1>4. CASE RestartMove
  BY <1>4 DEF RestartMove, StopThreads, Gone, Held, authority
<1> QED
  BY <1>1, <1>2, <1>3, <1>4 DEF LiveMove

LEMMA MoveTaken ==
    ASSUME Engine, LiveMove
    PROVE  Taken'
<1> USE RecoveryAssumption, LiveAssumption DEF Engine
<1> DEFINE a == MyAttempt(Scanner)
<1>1. LiveTypeOK'
  BY MoveTyping
<1>2. \A p \in Payload : Gone(AttemptOf[p]) => Gone(AttemptOf[p])'
  BY GoneKept
<1>3. CASE EngineStep(Scanner)
  <2>1. pc[Scanner] # "idle" /\ a \in Attempt
    <3>1. pc[Scanner] # "idle"
      BY <1>3 DEF EngineStep, At, Check, AppendPlan, Reserve, PilotGuard, Confirm, TakeAttempt,
         RecordPending, BrokerGuards, ClaimSend, CreateOrder, OrderReturned, OrderRaised,
         RecordResult, RecordOutcome, Report
    <3> QED
      BY <3>1, PayloadTyping
  <2>2. MyAttempt(Scanner)' = a /\ MyKey(Scanner)' = MyKey(Scanner)
    BY <1>3, EngineMovesOne DEF MyAttempt, MyKey
  <2>3. \/ attempt'[a] # "free"
        \/ /\ pc'[Scanner] \in Held \union {"await", "record"} =>
                pc[Scanner] \in Held \union {"await", "record"}
           /\ UNCHANGED attempt
    BY <1>3, <2>1
       DEF EngineStep, At, Check, AppendPlan, Reserve, PilotGuard, Confirm, TakeAttempt,
           RecordPending, BrokerGuards, ClaimSend, CreateOrder, OrderReturned, OrderRaised,
           RecordResult, RecordOutcome, Report, Refuse, Goto, Answer, authority, Held, LiveTypeOK
  <2>4. pc'[Scanner] \in Held \union {"await", "record"} => attempt'[a] # "free"
    BY <2>3 DEF Taken
  <2>5. ASSUME NEW p \in Payload, seen'[KeyOf[p]] = Confirmed PROVE Gone(AttemptOf[p])'
    <3>1. CASE seen[KeyOf[p]] = Confirmed
      BY <1>2, <3>1 DEF Taken
    <3>2. CASE RecordResult(Scanner) /\ KeyOf[p] = MyKey(Scanner)
      <4>1. AttemptOf[p] = a
        BY <2>1, <3>2, PayloadTyping DEF MyKey, MyAttempt
      <4>2. /\ pc[Scanner] = "record" /\ pc'[Scanner] = "outcome" /\ UNCHANGED attempt
        BY <3>2 DEF RecordResult, At, Goto, authority, LiveTypeOK
      <4>3. \A t \in Thread : pc'[t] \notin Held
        BY <1>3, <4>2, EngineMovesOne DEF Alone, Held
      <4> QED
        BY <4>1, <4>2, <4>3 DEF Gone, Taken
    <3>3. CASE seen[KeyOf[p]] # Confirmed /\ ~(RecordResult(Scanner) /\ KeyOf[p] = MyKey(Scanner))
      <4>1. KeyOf[p] \in Key /\ MyKey(Scanner) \in Key
        BY <2>1, PayloadTyping
      <4>2. \A k \in Key : Load[k] \in {seen[k], "absent"}
        BY DEF Load, NothingSeen
      <4>3. Load \in [Key -> Entry]
        BY LedgerTyping DEF LiveTypeOK
      <4>4. seen'[KeyOf[p]] # Confirmed
        BY <1>3, <3>3, <4>1, <4>2, <4>3
           DEF EngineStep, Check, AppendPlan, Reserve, PilotGuard, Confirm, TakeAttempt,
               RecordPending, BrokerGuards, ClaimSend, CreateOrder, OrderReturned, OrderRaised,
               RecordResult, RecordOutcome, Report, Refuse, ledger, ReserveKey,
               RecordBrokerState, Save, Pending, Confirmed
      <4> QED
        BY <2>5, <4>4
    <3> QED
      BY <3>1, <3>2, <3>3
  <2> QED
    BY <2>2, <2>4, <2>5 DEF Taken
<1>4. ASSUME UNCHANGED seen, UNCHANGED attempt,
             \/ UNCHANGED <<pc, call>>
             \/ pc'[Scanner] \in {"idle", "check"}
      PROVE  Taken'
  BY <1>2, <1>4 DEF Taken, MyAttempt, Held
<1>5. CASE Return(Scanner) \/ \E p \in FalconPayload : Begin(Scanner, p)
  BY <1>4, <1>5 DEF Return, Begin, LiveTypeOK, authority, ledger
<1>6. CASE ExchangeStep \/ UNCHANGED liveVars
  BY <1>4, <1>6 DEF ExchangeStep, Accept, Drop, threads, liveVars, authority, ledger
<1>7. ASSUME NEW k \in Key, NEW state \in {"reserved", Reconciled}, LedgerMove(k, state)
      PROVE  Taken'
  <2>1. \A j \in Key : Load[j] \in {seen[j], "absent"}
    BY DEF Load, NothingSeen
  <2>2. Load \in [Key -> Entry]
    BY LedgerTyping DEF LiveTypeOK
  <2>3. \A j \in Key : seen'[j] = Confirmed => seen[j] = Confirmed
    BY <1>7, <2>1, <2>2
       DEF LedgerMove, ReserveKey, RecordBrokerState, Save, Reconciled, Confirmed
  <2>4. UNCHANGED <<pc, call, attempt>>
    BY <1>7 DEF LedgerMove, threads, authority
  <2> QED
    BY <1>2, <2>3, <2>4 DEF Taken, MyAttempt
<1>8. CASE RestartMove
  <2>1. \A j \in Key : seen'[j] = Confirmed => seen[j] = Confirmed
    BY <1>8 DEF RestartMove, LoseFile, NothingSeen, ledger, Confirmed
  <2>2. pc'[Scanner] = "idle" /\ UNCHANGED attempt
    BY <1>8 DEF RestartMove, StopThreads, authority
  <2> QED
    BY <1>2, <2>1, <2>2 DEF Taken, Held
<1> QED
  BY <1>3, <1>5, <1>6, <1>7, <1>8 DEF LiveMove

LEMMA EngineKept ==
    ASSUME Engine, LiveMove
    PROVE  Engine'
BY MoveTyping, MoveAlone, MoveTaken DEF Engine

(***************************************************************************)
(* While the ledger survives: a key on record that no thread works under   *)
(* stays on record, and one under which nothing is open and nothing will   *)
(* be sent stays quiet.                                                    *)
(***************************************************************************)
OnRecord(k) ==
    /\ seen[k] # "absent"
    /\ \A t \in Thread : pc[t] \in Working => MyKey(t) # k

Quiet(k) ==
    /\ seen[k] # "absent"
    /\ \A t \in Thread : pc[t] \in Unsent => MyKey(t) # k
    /\ OpenUnder(k) = {}

LEMMA MoveLoss ==
    ASSUME LiveMove, ~lost'
    PROVE  ~lost
<1>1. CASE [LiveNext]_liveVars
  BY <1>1, LossKept
<1>2. CASE \E k \in Key, state \in {"reserved", Reconciled} : LedgerMove(k, state)
  BY <1>2 DEF LedgerMove, ReserveKey, RecordBrokerState, Save
<1>3. CASE RestartMove
  BY <1>3 DEF RestartMove, LoseFile, ledger
<1> QED
  BY <1>1, <1>2, <1>3, MoveIsLive

LEMMA KeyMoves ==
    ASSUME Engine, LiveMove, readable, ~lost', NEW k \in Key, seen[k] # "absent"
    PROVE  /\ seen'[k] # "absent"
           /\ \A t \in Thread : pc'[t] \in Working /\ MyKey(t)' = k =>
                                  pc[t] \in Working /\ MyKey(t) = k
           /\ \A t \in Thread : pc'[t] \in Unsent /\ MyKey(t)' = k =>
                                  pc[t] \in Unsent /\ MyKey(t) = k
           /\ (\A t \in Thread : pc[t] \in Unsent => MyKey(t) # k) =>
                OpenUnder(k)' \subseteq OpenUnder(k)
           /\ seen[k] = Reconciled /\ (\A t \in Thread : pc[t] \in Working => MyKey(t) # k) =>
                seen'[k] = Reconciled
<1> USE RecoveryAssumption, LiveAssumption DEF Engine
<1> DEFINE t == Scanner
<1>1. LedgerTypeOK /\ LiveTypeOK
  BY DEF LiveTypeOK
<1>2. CASE EngineStep(t)
  <2>1. pc[t] # "idle" /\ MyKey(t) \in Key
    <3>1. pc[t] # "idle"
      BY <1>2 DEF EngineStep, At, Check, AppendPlan, Reserve, PilotGuard, Confirm, TakeAttempt,
         RecordPending, BrokerGuards, ClaimSend, CreateOrder, OrderReturned, OrderRaised,
         RecordResult, RecordOutcome, Report
    <3> QED
      BY <3>1, PayloadTyping
  <2>2. /\ UNCHANGED call
        /\ \A u \in Thread : u # t => pc'[u] = pc[u]
    BY <1>2, EngineMovesOne
  <2>3. \A u \in Thread : MyKey(u)' = MyKey(u)
    BY <2>2 DEF MyKey
  <2>4. MyKey(t) = k => /\ pc'[t] \in Working => pc[t] \in Working
                        /\ pc'[t] \in Unsent => pc[t] \in Unsent
    <3>1. Has(k)
      BY <1>1, ReadableLedger
    <3> QED
      BY <1>2, <2>1, <3>1
         DEF EngineStep, At, Check, AppendPlan, Reserve, PilotGuard, Confirm, TakeAttempt,
             RecordPending, BrokerGuards, ClaimSend, CreateOrder, OrderReturned, OrderRaised,
             RecordResult, RecordOutcome, Report, Refuse, Goto, Answer, SeenBefore,
             Working, Unsent, LiveTypeOK
  <2>5. \/ seen'[k] = seen[k]
        \/ seen'[k] \in BrokerState /\ pc[t] \in Working /\ MyKey(t) = k
    <3>1. CASE Reserve(t)
      <4>1. Has(k)
        BY <1>1, ReadableLedger
      <4>2. \/ UNCHANGED ledger
            \/ ~Has(MyKey(t)) /\ ReserveKey(MyKey(t))
        BY <3>1 DEF Reserve, SeenBefore
      <4>3. ~Has(MyKey(t)) /\ ReserveKey(MyKey(t)) =>
              MyKey(t) # k /\ seen' = [seen EXCEPT ![MyKey(t)] = "reserved"]
        BY <1>1, <2>1, <4>1, ReadableLedger
      <4> QED
        BY <1>1, <2>1, <4>2, <4>3 DEF ledger, LedgerTypeOK
    <3>2. CASE RecordPending(t) \/ RecordResult(t)
      <4>1. PICK state \in BrokerState : UNCHANGED ledger \/ RecordBrokerState(MyKey(t), state)
        BY <3>2 DEF RecordPending, RecordResult, ResultState, BrokerState
      <4>2. RecordBrokerState(MyKey(t), state) => seen' = [seen EXCEPT ![MyKey(t)] = state]
        BY <1>1, <2>1, ReadableLedger
      <4>3. pc[t] \in Working
        BY <3>2 DEF RecordPending, RecordResult, At, Working, Unsent
      <4> QED
        BY <1>1, <2>1, <4>1, <4>2, <4>3 DEF ledger, LedgerTypeOK
    <3>3. CASE ~Reserve(t) /\ ~RecordPending(t) /\ ~RecordResult(t)
      BY <1>2, <3>3
         DEF EngineStep, Check, AppendPlan, PilotGuard, Confirm, TakeAttempt, BrokerGuards,
             ClaimSend, CreateOrder, OrderReturned, OrderRaised, RecordOutcome, Report, Refuse,
             ledger
    <3> QED
      BY <3>1, <3>2, <3>3
  <2>6. (\A u \in Thread : pc[u] \in Unsent => MyKey(u) # k) =>
          OpenUnder(k)' \subseteq OpenUnder(k)
    <3>1. CASE CreateOrder(t)
      BY <3>1 DEF CreateOrder, At, Unsent, OpenUnder, MyKey
    <3>2. CASE ~CreateOrder(t)
      BY <1>2, <3>2
         DEF EngineStep, Check, AppendPlan, Reserve, PilotGuard, Confirm, TakeAttempt,
             RecordPending, BrokerGuards, ClaimSend, OrderReturned, OrderRaised, RecordResult,
             RecordOutcome, Report, Refuse, exchange, OpenUnder
    <3> QED
      BY <3>1, <3>2
  <2>7. seen'[k] # "absent"
    BY <2>5 DEF BrokerState, Pending, SendUnknown, Confirmed, Reconciled
  <2> QED
    BY <2>2, <2>3, <2>4, <2>5, <2>6, <2>7
<1>3. ASSUME UNCHANGED <<seen, inflight, late>>,
             \A u \in Thread : \/ pc'[u] = pc[u] /\ call'[u] = call[u]
                               \/ pc'[u] \in {"idle", "check"}
      PROVE  /\ seen'[k] = seen[k]
             /\ \A u \in Thread : pc'[u] \in Working => pc[u] = pc'[u] /\ MyKey(u)' = MyKey(u)
             /\ OpenUnder(k)' = OpenUnder(k)
  BY <1>3 DEF Working, Unsent, MyKey, OpenUnder
<1>4. CASE Return(t) \/ \E p \in FalconPayload : Begin(t, p)
  <2>1. UNCHANGED <<seen, inflight, late>>
    BY <1>4 DEF Return, Begin, ledger, exchange
  <2>2. \A u \in Thread : \/ pc'[u] = pc[u] /\ call'[u] = call[u]
                          \/ pc'[u] \in {"idle", "check"}
    BY <1>4 DEF Return, Begin, LiveTypeOK
  <2> QED
    BY <1>3, <2>1, <2>2 DEF Working
<1>5. CASE UNCHANGED liveVars
  BY <1>5 DEF liveVars, ledger, exchange, threads, MyKey, OpenUnder
<1>6. CASE ExchangeStep
  <2>1. UNCHANGED <<seen, pc, call>>
    BY <1>6 DEF ExchangeStep, Accept, Drop, ledger, threads
  <2>2. OpenUnder(k)' \subseteq OpenUnder(k)
    BY <1>6 DEF ExchangeStep, Accept, Drop, OpenUnder
  <2> QED
    BY <2>1, <2>2 DEF MyKey
<1>7. ASSUME NEW j \in Key, NEW state \in {"reserved", Reconciled}, LedgerMove(j, state)
      PROVE  /\ UNCHANGED <<pc, call, inflight, late>>
             /\ seen'[k] # "absent"
             /\ seen[k] = Reconciled => seen'[k] = Reconciled
  <2>1. UNCHANGED <<pc, call, inflight, late>>
    BY <1>7 DEF LedgerMove, exchange, threads
  <2>2. \/ state = "reserved" /\ j # k /\ seen' = [seen EXCEPT ![j] = "reserved"]
        \/ state = Reconciled /\ seen' = [seen EXCEPT ![j] = Reconciled]
    BY <1>1, <1>7, ReadableLedger DEF LedgerMove, BrokerState
  <2> QED
    BY <1>1, <2>1, <2>2 DEF LedgerTypeOK, Reconciled
<1>8. CASE RestartMove
  <2>1. UNCHANGED <<seen, inflight, late>>
    BY <1>8 DEF RestartMove, LoseFile, ledger, exchange
  <2>2. \A u \in Thread : pc'[u] = "idle"
    BY <1>8 DEF RestartMove, StopThreads
  <2> QED
    BY <1>3, <2>1, <2>2 DEF Working
<1> QED
  BY <1>2, <1>4, <1>5, <1>6, <1>7, <1>8 DEF LiveMove, MyKey, OpenUnder

LEMMA RecordKept ==
    ASSUME Engine, LiveMove, readable, ~lost', NEW k \in Key
    PROVE  /\ OnRecord(k) => OnRecord(k)'
           /\ OnRecord(k) /\ seen[k] = Reconciled => seen'[k] = Reconciled
           /\ Quiet(k) => Quiet(k)'
           /\ OnRecord(k) /\ OpenUnder(k) = {} => OpenUnder(k)' = {}
<1>1. OnRecord(k) /\ OpenUnder(k) = {} => Quiet(k)
  BY DEF OnRecord, Quiet, Working
<1>2. OnRecord(k) => OnRecord(k)'
  BY KeyMoves DEF OnRecord
<1>3. OnRecord(k) /\ seen[k] = Reconciled => seen'[k] = Reconciled
  BY KeyMoves DEF OnRecord
<1>4. Quiet(k) => Quiet(k)'
  <2> SUFFICES ASSUME Quiet(k) PROVE Quiet(k)'
    OBVIOUS
  <2>1. /\ seen'[k] # "absent"
        /\ \A t \in Thread : pc'[t] \in Unsent => MyKey(t)' # k
        /\ OpenUnder(k)' \subseteq OpenUnder(k)
    BY KeyMoves DEF Quiet
  <2> QED
    BY <2>1 DEF Quiet
<1> QED
  BY <1>1, <1>2, <1>3, <1>4 DEF Quiet

(***************************************************************************)
(* The file stays on terms with the exchange, also when a call is closed   *)
(* in it, provided nothing can come of the call any more.                  *)
(***************************************************************************)
LEMMA MoveOnFile ==
    ASSUME Engine, LiveMove, ~lost => OnFile, ~lost',
           \/ [LiveNext]_liveVars
           \/ \E k \in Key : LedgerMove(k, "reserved")
           \/ \E k \in Key : LedgerMove(k, Reconciled) /\ OnRecord(k) /\ OpenUnder(k) = {}
           \/ RestartMove
    PROVE  OnFile'
<1> USE DEF Engine
<1>0. OnFile /\ readable /\ LedgerTypeOK
  BY MoveLoss DEF OnFile, LiveTypeOK
<1>1. CASE [LiveNext]_liveVars
  BY <1>0, <1>1, StepOnFile
<1>2. ASSUME NEW k \in Key, NEW state \in {"reserved", Reconciled}, LedgerMove(k, state),
             state = Reconciled => OnRecord(k) /\ OpenUnder(k) = {}
      PROVE  OnFile'
  <2>1. UNCHANGED <<pc, call, reply, inflight, orders, late>>
    BY <1>2 DEF LedgerMove, exchange, threads
  <2>2. readable' /\ seen' = [seen EXCEPT ![k] = state]
    BY <1>0, <1>2, ReadableLedger DEF LedgerMove, BrokerState
  <2>3. /\ \A t \in Thread : pc[t] \in Working => MyKey(t) # k
        /\ OpenUnder(k) = {}
        /\ SentUnder(k) # {} => state \in BrokerState
    <3>1. CASE state = "reserved"
      <4>1. seen[k] = "absent"
        BY <1>0, <1>2, <3>1, ReadableLedger DEF LedgerMove, Reconciled
      <4>2. SentUnder(k) = {} /\ OpenUnder(k) = {}
        BY <1>0, <4>1 DEF OnFile, KeyOnFile, BrokerState, Unresolved,
           Pending, SendUnknown, Confirmed, Reconciled
      <4> QED
        BY <1>0, <4>1, <4>2 DEF OnFile, ThreadOnFile
    <3>2. CASE state = Reconciled
      BY <1>2, <3>2 DEF OnRecord, BrokerState
    <3> QED
      BY <3>1, <3>2
  <2>4. SoleWorker'
    BY <1>0, <2>1 DEF OnFile, SoleWorker, MyKey
  <2>5. \A q \in Key : KeyOnFile(q)'
    BY <1>0, <2>1, <2>2, <2>3 DEF OnFile, KeyOnFile, SentUnder, OpenUnder, LedgerTypeOK
  <2>6. ASSUME NEW t \in Thread PROVE ThreadOnFile(t)'
    <3>1. pc[t] \in Working => MyKey(t) # k
      BY <2>3
    <3>2. \A q \in Key : q # k => seen'[q] = seen[q]
      BY <1>0, <2>2 DEF LedgerTypeOK
    <3>3. pc[t] \in Working => MyKey(t) \in Key
      BY PayloadTyping DEF Working, Unsent
    <3> QED
      BY <1>0, <2>1, <3>1, <3>2, <3>3
         DEF OnFile, ThreadOnFile, SentUnder, OpenUnder, MyKey, Working, Unsent, Placed
  <2> QED
    BY <2>2, <2>4, <2>5, <2>6 DEF OnFile
<1>3. CASE RestartMove
  <2>1. UNCHANGED <<seen, readable, inflight, orders, late>> /\ \A t \in Thread : pc'[t] = "idle"
    BY <1>3 DEF RestartMove, StopThreads, LoseFile, ledger, exchange
  <2> QED
    BY <1>0, <2>1 DEF OnFile, SoleWorker, ThreadOnFile, KeyOnFile, SentUnder, OpenUnder,
       Working, Unsent, Placed
<1>4. "reserved" # Reconciled
  BY DEF Reconciled
<1> QED
  BY <1>1, <1>2, <1>3, <1>4

(***************************************************************************)
(* What a document may say of an entry, and where the recovery may stand   *)
(* with what it read.                                                      *)
(***************************************************************************)
NotSent(p) == Gone(AttemptOf[p]) /\ attempt[AttemptOf[p]] # "claimed"

Sound(p, d) ==
    /\ d.phase # "open" => d.verdict # "none"
    /\ d.verdict = "notSent" => NotSent(p)
    /\ ~lost => /\ OnRecord(KeyOf[p])
                /\ d.stopKnown \/ d.verdict # "none" => OpenUnder(KeyOf[p]) = {}
                /\ d.phase \in {"ledger", "released", "acked"} => seen[KeyOf[p]] = Reconciled

DocFacts(p, d) ==
    Sound(p, d) /\ (d.verdict = "protected" => p \in tracked)

AfterLedger == {"ledgerPhase", "unlock", "unlockPhase", "ack", "ungate", "regate"}

OpFacts(at, p, d, c) ==
    /\ Sound(p, d)
    /\ at # "track" /\ d.verdict = "protected" => p \in tracked
    /\ at = "look" => c \in Unresolved \/ Gone(AttemptOf[p])
    /\ at \in {"track", "gate", "fact", "ledger"} \union AfterLedger => d.verdict # "none"
    /\ at \in {"identify", "look", "contain", "track"} => d.phase = "open"
    /\ at = "contain" => d.stopKnown /\ p \in orders
    /\ at \in AfterLedger /\ ~lost => seen[KeyOf[p]] = Reconciled

LEMMA SoundKept ==
    ASSUME Engine, LiveMove, ~lost => OnFile, NEW p \in FalconPayload, NEW d \in Document,
           Sound(p, d)
    PROVE  Sound(p, d)'
<1>1. p \in Payload /\ AttemptOf[p] \in Attempt /\ KeyOf[p] \in Key
  BY RecoveryAssumption, LiveAssumption
<1>2. NotSent(p) => NotSent(p)'
  BY <1>1, GoneKept DEF NotSent
<1>3. ASSUME ~lost'
      PROVE  /\ OnRecord(KeyOf[p])'
             /\ d.stopKnown \/ d.verdict # "none" => OpenUnder(KeyOf[p])' = {}
             /\ d.phase \in {"ledger", "released", "acked"} => seen'[KeyOf[p]] = Reconciled
  <2>1. ~lost /\ readable
    BY <1>3, MoveLoss DEF OnFile
  <2> QED
    BY <1>1, <1>3, <2>1, RecordKept DEF Sound
<1> QED
  BY <1>2, <1>3 DEF Sound

LEMMA OpFactsKept ==
    ASSUME Engine, LiveMove, ~lost => OnFile, tracked \subseteq tracked',
           NEW at, NEW p \in FalconPayload, NEW d \in Document, NEW c, OpFacts(at, p, d, c)
    PROVE  OpFacts(at, p, d, c)'
<1>1. p \in Payload /\ AttemptOf[p] \in Attempt /\ KeyOf[p] \in Key
  BY RecoveryAssumption, LiveAssumption
<1>2. Sound(p, d)'
  BY SoundKept DEF OpFacts
<1>3. Gone(AttemptOf[p]) => Gone(AttemptOf[p])'
  BY <1>1, GoneKept
<1>4. orders \subseteq orders'
  BY DEF LiveMove, EngineStep, Check, AppendPlan, Reserve, PilotGuard, Confirm, TakeAttempt,
     RecordPending, BrokerGuards, ClaimSend, CreateOrder, OrderReturned, OrderRaised,
     RecordResult, RecordOutcome, Report, Refuse, exchange, Begin, Return, ExchangeStep,
     Accept, Drop, LedgerMove, RestartMove, liveVars
<1>5. at \in AfterLedger /\ ~lost' => seen'[KeyOf[p]] = Reconciled
  <2> SUFFICES ASSUME at \in AfterLedger, ~lost' PROVE seen'[KeyOf[p]] = Reconciled
    OBVIOUS
  <2>1. ~lost /\ readable
    BY MoveLoss DEF OnFile
  <2> QED
    BY <1>1, <2>1, RecordKept DEF OpFacts, Sound
<1> QED
  BY <1>2, <1>3, <1>4, <1>5 DEF OpFacts

(***************************************************************************)
(* The shape of the state, by the parts of it.                             *)
(***************************************************************************)
Securing == {"secure", "file", "refile"}

Shape ==
    /\ TypeOK
    /\ stage # "idle" => signal \in FalconPayload
    /\ stage = "engine" => call[Scanner] = signal
    /\ stage \in Securing => subject \in [of: Incident, stopKnown: BOOLEAN]
    /\ op.at # "idle" => op.of \in FalconPayload
    /\ op.at = "contain" => op.of \in orders

LEMMA FlagsTyped ==
    ASSUME TypeOK, [Next]_vars
    PROVE  health' \in BOOLEAN /\ gate' \in BOOLEAN
<1>1. health \in BOOLEAN /\ gate \in BOOLEAN
  BY DEF TypeOK
<1>2. CASE ScannerStep
  BY <1>1, <1>2, Zenon
     DEF ScannerStep, NewSignal, Preflight, Gates, EntryLock, ArmStop, EngineRuns,
         EngineAnswers, ResultRaises, Secure, FileIncident, Contain, Track, redis, recoveryVars
<1>3. CASE ReconcileStep
  <2>1. GiveUp => health' \in BOOLEAN
    BY Zenon DEF GiveUp
  <2>2. ASSUME NEW at, NEW phase, NEW next, SavePhase(at, phase, next)
        PROVE  health' \in BOOLEAN /\ gate' \in BOOLEAN
    BY <1>1, <2>1, <2>2, Zenon DEF SavePhase
  <2>3. CASE SaveFact \/ SaveLedgerPhase \/ SaveUnlockPhase
    BY <2>2, <2>3, Zenon DEF SaveFact, SaveLedgerPhase, SaveUnlockPhase
  <2>4. CASE Acknowledge
    BY <1>1, <2>1, <2>2, <2>4, Zenon DEF Acknowledge, redis
  <2>5. CASE ClearGate
    BY <1>1, <2>1, <2>5, Zenon DEF ClearGate
  <2>6. CASE CloseGate \/ CloseLedger \/ Unlock
    BY <1>1, <2>1, <2>6, Zenon DEF CloseGate, CloseLedger, Unlock
  <2>7. CASE \/ \E p \in FalconPayload : LoadIncident(p)
             \/ Identify \/ Decide \/ CloseNaked \/ Restore
    BY <1>1, <2>1, <2>7, Zenon DEF LoadIncident, Identify, Decide, CloseNaked, Restore, redis
  <2> QED
    BY <1>3, <2>3, <2>4, <2>5, <2>6, <2>7, Zenon DEF ReconcileStep, Finalize
<1>4. CASE Restart \/ UNCHANGED vars
  BY <1>1, <1>4, Zenon DEF Restart, vars, recoveryVars, redis
<1>5. CASE \/ \E k \in Key \ FalconKey : OtherBotReserves(k)
           \/ ExchangeStep /\ UNCHANGED recoveryVars
           \/ \E p \in FalconPayload : StopLost(p) \/ StopFills(p)
  BY <1>1, <1>5, Zenon DEF OtherBotReserves, StopLost, StopFills, recoveryVars, redis
<1> QED
  BY <1>2, <1>3, <1>4, <1>5, Zenon DEF Next

LEMMA FaultsTyped ==
    ASSUME TypeOK, [Next]_vars
    PROVE  faults' \in 0..MaxFaults
<1>1. faults \in 0..MaxFaults
  BY DEF TypeOK
<1>2. (faults' = faults \/ Fault) => faults' \in 0..MaxFaults
  BY <1>1, RecoveryAssumption DEF Fault
<1>3. faults' = faults \/ Fault
  BY DEF Next, ScannerStep, ReconcileStep, Finalize, vars, recoveryVars, NoFault,
     NewSignal, Preflight, Gates, EntryLock, ArmStop, EngineRuns,
     EngineAnswers, ResultRaises, Secure, FileIncident, Contain, Track,
     LoadIncident, Identify, Decide, CloseNaked, Restore, CloseGate, SaveFact, SavePhase,
     CloseLedger, SaveLedgerPhase, Unlock, SaveUnlockPhase, Acknowledge, ClearGate,
     OtherBotReserves, StopLost, StopFills, Restart
<1> QED
  BY <1>2, <1>3

\* The steps that leave the scanner alone.
ScanRests ==
    UNCHANGED <<stage, signal, subject>> /\ UNCHANGED <<pc, call, reply>>

LEMMA OtherStepsRest ==
    ASSUME [Next]_vars, ~ScannerStep, ~Restart
    PROVE  ScanRests
BY DEF Next, ReconcileStep, Finalize, vars, recoveryVars, scan, ScanRests, threads, liveVars,
     LoadIncident, Identify, Decide, CloseNaked, Restore, CloseGate, SaveFact, SavePhase,
     CloseLedger, SaveLedgerPhase, Unlock, SaveUnlockPhase, Acknowledge, ClearGate,
     OtherBotReserves, StopLost, StopFills, ExchangeStep, Accept, Drop

LEMMA EngineStays ==
    ASSUME LiveTypeOK, NEW t \in Thread, EngineStep(t)
    PROVE  pc[t] # "idle" /\ pc'[t] # "idle" /\ UNCHANGED call
BY DEF EngineStep, At, Check, AppendPlan, Reserve, PilotGuard, Confirm, TakeAttempt,
     RecordPending, BrokerGuards, ClaimSend, CreateOrder, OrderReturned, OrderRaised,
     RecordResult, RecordOutcome, Report, Refuse, Goto, Answer, LiveTypeOK

LEMMA ScanTyped ==
    ASSUME Shape, [Next]_vars
    PROVE  /\ stage' \in Stage
           /\ signal' \in FalconPayload \union {Nobody}
           /\ subject' \in [of: Incident, stopKnown: BOOLEAN] \union {Free}
           /\ (stage = "engine" <=> pc[Scanner] # "idle")'
           /\ stage' # "idle" => signal' \in FalconPayload
           /\ stage' = "engine" => call'[Scanner] = signal'
           /\ stage' \in Securing => subject' \in [of: Incident, stopKnown: BOOLEAN]
<1> USE RecoveryAssumption DEF Shape, TypeOK, Stage, Securing
<1>1. CASE ScanRests
  BY <1>1 DEF ScanRests
<1>2. CASE Restart
  BY <1>2 DEF Restart, StopThreads
<1>3. ASSUME NEW p \in FalconPayload, NewSignal(p)
      PROVE  /\ stage' = "preflight" /\ signal' = p /\ UNCHANGED <<subject, pc, call>>
             /\ stage = "idle"
  BY <1>3 DEF NewSignal, Scans, liveVars, threads
<1>4. ASSUME NEW p \in FalconPayload, NEW kind \in {"full", "partial", "stop"},
             NEW known \in BOOLEAN
      PROVE  [of |-> <<p, kind>>, stopKnown |-> known] \in [of: Incident, stopKnown: BOOLEAN]
  BY DEF Incident
<1>5. CASE Preflight \/ Gates
  BY <1>4, <1>5 DEF Preflight, Gates, Scans, Proceed, Rest, HandleIncident, liveVars, threads
<1>6. CASE EntryLock
  BY <1>6 DEF EntryLock, Scans, Proceed, Rest, Begin, liveVars, threads, LiveTypeOK
<1>7. CASE ArmStop
  BY <1>7 DEF ArmStop, scan, liveVars, threads
<1>8. CASE EngineRuns
  <2>1. stage' = stage /\ signal' = signal /\ subject' = subject /\ stage = "engine"
    BY <1>8 DEF EngineRuns, recoveryVars, scan, Scans
  <2>2. pc'[Scanner] # "idle" /\ call' = call
    BY <1>8, EngineStays DEF EngineRuns
  <2> QED
    BY <2>1, <2>2
<1>9. CASE EngineAnswers \/ ResultRaises
  <2>1. /\ stage = "engine" /\ pc'[Scanner] = "idle"
    BY <1>9 DEF EngineAnswers, ResultRaises, Return, Scans, LiveTypeOK
  <2>2. \/ Rest
        \/ Proceed("track") \/ Proceed("contain")
        \/ \E kind \in {"full", "partial"}, known \in BOOLEAN : HandleIncident(signal, kind, known)
    BY <1>9 DEF EngineAnswers, ResultRaises
  <2> QED
    BY <1>4, <2>1, <2>2 DEF Rest, Proceed, HandleIncident
<1>10. CASE Secure \/ FileIncident \/ Contain \/ Track
  BY <1>10 DEF Secure, FileIncident, Contain, Track, Scans, Proceed, Rest, liveVars, threads
<1> QED
  BY <1>1, <1>2, <1>3, <1>5, <1>6, <1>7, <1>8, <1>9, <1>10, OtherStepsRest DEF ScannerStep

OpType == [at: OpLabel, of: FalconPayload \union {Nobody}, doc: Document, call: Entry]

LEMMA NoOpTyped == NoOp \in OpType /\ NoDocument \in Document /\ NoOp.at = "idle"
BY DEF NoOp, NoDocument, OpType, OpLabel, Document, Phase, Verdict, Entry

LEMMA OrdersGrow ==
    ASSUME LiveMove
    PROVE  orders \subseteq orders'
BY DEF LiveMove, EngineStep, Check, AppendPlan, Reserve, PilotGuard, Confirm, TakeAttempt,
     RecordPending, BrokerGuards, ClaimSend, CreateOrder, OrderReturned, OrderRaised,
     RecordResult, RecordOutcome, Report, Refuse, exchange, Begin, Return, ExchangeStep,
     Accept, Drop, LedgerMove, RestartMove, liveVars

\* The steps of the reconciliation that rest on its document.
OpRests == UNCHANGED op

LEMMA OtherStepsKeepOp ==
    ASSUME [Next]_vars, ~ReconcileStep, ~Restart
    PROVE  OpRests
BY DEF Next, ScannerStep, vars, recoveryVars, OpRests,
     NewSignal, Preflight, Gates, EntryLock, ArmStop, EngineRuns,
     EngineAnswers, ResultRaises, Secure, FileIncident, Contain, Track,
     OtherBotReserves, StopLost, StopFills

LEMMA OpTyped ==
    ASSUME Shape, LiveMove, [Next]_vars
    PROVE  /\ op' \in OpType
           /\ op'.at # "idle" => op'.of \in FalconPayload
           /\ op'.at = "contain" => op'.of \in orders'
<1> USE DEF Shape
<1>1. /\ op \in OpType /\ docs \in [FalconPayload -> Document \union {Free}]
      /\ orders \subseteq orders' /\ NoOp \in OpType /\ NoOp.at = "idle"
  BY OrdersGrow, NoOpTyped DEF TypeOK, OpType
<1>2. CASE OpRests \/ op' = NoOp
  BY <1>1, <1>2 DEF OpRests
<1>3. ASSUME NEW label \in OpLabel \ {"contain"}, OpGoto(label), op.at # "idle"
      PROVE  /\ op' \in OpType
             /\ op'.at # "idle" => op'.of \in FalconPayload
             /\ op'.at = "contain" => op'.of \in orders'
  BY <1>1, <1>3 DEF OpGoto, OpType
<1>4. ASSUME NEW p \in FalconPayload, LoadIncident(p)
      PROVE  /\ op' \in OpType
             /\ op'.at # "idle" => op'.of \in FalconPayload
             /\ op'.at = "contain" => op'.of \in orders'
  <2>1. docs[p] \in Document
    BY <1>1, <1>4 DEF LoadIncident
  <2>2. docs[p].phase \in Phase
    BY <2>1 DEF Document
  <2>3. Resume(docs[p].phase) \in OpLabel \ {"contain"}
    BY <2>2 DEF Resume, Phase, OpLabel
  <2>4. op' = [at |-> Resume(docs[p].phase), of |-> p, doc |-> docs[p], call |-> "absent"]
    BY <1>4 DEF LoadIncident
  <2> HIDE DEF Resume
  <2> QED
    BY <2>1, <2>3, <2>4 DEF OpType, Entry
<1>5. CASE Identify
  <2>1. IdentityOf(KeyOf[op.of]) \in Entry
    BY DEF IdentityOf, Entry, BrokerState
  <2> QED
    BY <1>1, <1>2, <1>5, <2>1 DEF Identify, OpAt, GiveUp, OpType, OpLabel
<1>6. CASE Decide
  <2>1. op.at = "look"
    BY <1>6 DEF Decide, OpAt
  <2>2. ASSUME NEW v \in Verdicts(op.of, op.call, op.doc), NEW at \in {"track", "gate"},
               op' = [op EXCEPT !.at = at, !.doc.verdict = v]
        PROVE  /\ op' \in OpType /\ op'.at = at /\ op'.of = op.of
    <3>1. v \in Verdict /\ op.doc \in Document
      BY <1>1 DEF Verdicts, OpType
    <3>2. [op.doc EXCEPT !.verdict = v] \in Document
      BY <3>1 DEF Document
    <3>3. op' = [op EXCEPT !.at = at, !.doc = [op.doc EXCEPT !.verdict = v]]
      BY <1>1, <2>2 DEF OpType
    <3> QED
      BY <1>1, <3>2, <3>3 DEF OpType, OpLabel
  <2>3. CASE \E v \in Verdicts(op.of, op.call, op.doc) :
               op' = [op EXCEPT !.at = IF v = "protected" THEN "track" ELSE "gate",
                                !.doc.verdict = v]
    BY <2>1, <2>2, <2>3
  <2>4. CASE StopAbsent(op.of, op.doc) /\ OpGoto("contain")
    BY <1>1, <2>1, <2>4 DEF StopAbsent, OpGoto, OpType, OpLabel
  <2>5. CASE op' = NoOp
    BY <1>2, <2>5
  <2> QED
    BY <1>6, <2>3, <2>4, <2>5 DEF Decide, GiveUp
<1>7. ASSUME NEW at \in OpLabel \ {"idle"}, NEW phase \in Phase, NEW next \in OpLabel \ {"contain"},
             SavePhase(at, phase, next)
      PROVE  /\ op' \in OpType
             /\ op'.at # "idle" => op'.of \in FalconPayload
             /\ op'.at = "contain" => op'.of \in orders'
  <2> DEFINE doc == [op.doc EXCEPT !.phase = phase]
  <2>1. op.at = at /\ (op' = NoOp \/ op' = [op EXCEPT !.at = next, !.doc = doc])
    BY <1>7 DEF SavePhase, OpAt, GiveUp
  <2>2. doc \in Document
    BY <1>1 DEF OpType, Document
  <2> HIDE DEF doc
  <2>3. op' = [op EXCEPT !.at = next, !.doc = doc] =>
          op' \in OpType /\ op'.at = next /\ op'.of = op.of
    BY <1>1, <2>2 DEF OpType
  <2> QED
    BY <1>2, <2>1, <2>3
<1>8. CASE SaveFact \/ SaveLedgerPhase \/ SaveUnlockPhase \/ Acknowledge
  <2>1. \/ SavePhase("fact", "fact", "ledger") \/ SavePhase("ledgerPhase", "ledger", "unlock")
        \/ SavePhase("unlockPhase", "released", "ack") \/ SavePhase("ack", "acked", "ungate")
        \/ op' = NoOp
    BY <1>8 DEF SaveFact, SaveLedgerPhase, SaveUnlockPhase, Acknowledge, GiveUp
  <2>2. {"fact", "ledger", "ledgerPhase", "unlock", "unlockPhase", "ack", "ungate"} \subseteq
          OpLabel \ {"idle", "contain"}
    BY DEF OpLabel
  <2>3. {"fact", "ledger", "released", "acked"} \subseteq Phase
    BY DEF Phase
  <2> HIDE DEF OpLabel
  <2> QED
    BY <1>2, <1>7, <2>1, <2>2, <2>3
<1>9. CASE CloseNaked \/ Restore \/ CloseGate \/ CloseLedger \/ Unlock \/ ClearGate
  <2>1. \/ op' = NoOp
        \/ op.at # "idle" /\ (OpGoto("gate") \/ OpGoto("fact") \/ OpGoto("ledgerPhase") \/ OpGoto("unlockPhase"))
    BY <1>9 DEF CloseNaked, Restore, CloseGate, CloseLedger, Unlock, ClearGate, GiveUp, OpAt
  <2> QED
    BY <1>2, <1>3, <2>1 DEF OpLabel
<1>10. CASE Restart
  BY <1>2, <1>10 DEF Restart
<1> QED
  BY <1>2, <1>4, <1>5, <1>6, <1>8, <1>9, <1>10, OtherStepsKeepOp DEF ReconcileStep, Finalize

(***************************************************************************)
(* What may be written into a document.                                    *)
(***************************************************************************)
Saved(d) ==
    \/ d = op.doc /\ op.at \in {"identify", "contain", "ledger", "unlock"}
    \/ op.at = "contain" /\ \E proven \in BOOLEAN : d = [op.doc EXCEPT !.contained = proven]
    \/ op.at = "track" /\ d = [op.doc EXCEPT !.verdict = "none"]
    \/ op.at = "fact" /\ d = [op.doc EXCEPT !.phase = "fact"]
    \/ op.at \in AfterLedger /\ \E phase \in {"ledger", "released", "acked"} :
                                  d = [op.doc EXCEPT !.phase = phase]

FiledDoc == [NoDocument EXCEPT !.stopKnown = subject.stopKnown]

LEMMA DocsMove ==
    ASSUME Shape, [Next]_vars
    PROVE  \/ docs' = docs
           \/ /\ stage \in Securing /\ subject.of[2] = "full"
              /\ docs' = [docs EXCEPT ![subject.of[1]] = FiledDoc]
           \/ \E d : Saved(d) /\ docs' = [docs EXCEPT ![op.of] = d]
<1>1. CASE FileIncident
  BY <1>1 DEF FileIncident, FiledDoc, Securing
<1>2. CASE ScannerStep /\ ~FileIncident
  BY <1>2
     DEF ScannerStep, NewSignal, Preflight, Gates, EntryLock, ArmStop, EngineRuns,
         EngineAnswers, ResultRaises, Secure, Contain, Track, redis, recoveryVars
<1>3. CASE \/ Identify \/ CloseNaked \/ CloseLedger \/ Unlock
  BY <1>3 DEF Identify, CloseNaked, CloseLedger, Unlock, SaveDoc, OpAt, Saved
<1>4. CASE Restore
  BY <1>4 DEF Restore, SaveDoc, OpAt, Saved
<1>5. CASE SaveFact
  BY <1>5 DEF SaveFact, SavePhase, SaveDoc, OpAt, Saved
<1>6. CASE SaveLedgerPhase \/ SaveUnlockPhase \/ Acknowledge
  BY <1>6 DEF SaveLedgerPhase, SaveUnlockPhase, Acknowledge, SavePhase, SaveDoc, OpAt, Saved,
     AfterLedger, redis
<1>7. CASE Decide \/ CloseGate \/ ClearGate \/ \E p \in FalconPayload : LoadIncident(p)
  BY <1>7 DEF Decide, CloseGate, ClearGate, LoadIncident, redis
<1>8. CASE Restart \/ UNCHANGED vars
  BY <1>8 DEF Restart, vars, recoveryVars, redis
<1>9. CASE \/ \E k \in Key \ FalconKey : OtherBotReserves(k)
           \/ ExchangeStep /\ UNCHANGED recoveryVars
           \/ \E p \in FalconPayload : StopLost(p) \/ StopFills(p)
  BY <1>9 DEF OtherBotReserves, StopLost, StopFills, recoveryVars, redis
<1> QED
  BY <1>1, <1>2, <1>3, <1>4, <1>5, <1>6, <1>7, <1>8, <1>9 DEF Next, ReconcileStep, Finalize

LEMMA SavedSound ==
    ASSUME op \in OpType, op.at # "idle" => OpFacts(op.at, op.of, op.doc, op.call),
           NEW d, Saved(d)
    PROVE  d \in Document /\ DocFacts(op.of, d) /\ op.at # "idle"
<1>1. op.at # "idle"
  BY DEF Saved, AfterLedger
<1>2. OpFacts(op.at, op.of, op.doc, op.call)
  BY <1>1
<1>3. op.doc \in Document
  BY DEF OpType
<1>4. d \in Document
  BY <1>3 DEF Saved, Document, Verdict, Phase
<1>5. Sound(op.of, d)
  <2>1. CASE d = op.doc
    BY <1>2, <2>1 DEF OpFacts
  <2>2. ASSUME NEW proven \in BOOLEAN, d = [op.doc EXCEPT !.contained = proven]
        PROVE  Sound(op.of, d)
    <3>1. d.phase = op.doc.phase /\ d.verdict = op.doc.verdict /\ d.stopKnown = op.doc.stopKnown
      BY <1>3, <2>2 DEF Document
    <3> QED
      BY <1>2, <3>1 DEF OpFacts, Sound
  <2>3. CASE op.at = "track" /\ d = [op.doc EXCEPT !.verdict = "none"]
    <3>1. d.phase = op.doc.phase /\ d.verdict = "none" /\ d.stopKnown = op.doc.stopKnown
      BY <1>3, <2>3 DEF Document
    <3> QED
      BY <1>2, <2>3, <3>1 DEF OpFacts, Sound
  <2>4. CASE op.at = "fact" /\ d = [op.doc EXCEPT !.phase = "fact"]
    <3>1. d.phase = "fact" /\ d.verdict = op.doc.verdict /\ d.stopKnown = op.doc.stopKnown
      BY <1>3, <2>4 DEF Document
    <3> QED
      BY <1>2, <2>4, <3>1 DEF OpFacts, Sound
  <2>5. ASSUME op.at \in AfterLedger, NEW phase \in {"ledger", "released", "acked"},
               d = [op.doc EXCEPT !.phase = phase]
        PROVE  Sound(op.of, d)
    <3>1. d.phase = phase /\ d.verdict = op.doc.verdict /\ d.stopKnown = op.doc.stopKnown
      BY <1>3, <2>5 DEF Document
    <3> QED
      BY <1>2, <2>5, <3>1 DEF OpFacts, Sound
  <2> QED
    BY <2>1, <2>2, <2>3, <2>4, <2>5 DEF Saved
<1>6. d.verdict = "protected" => op.of \in tracked
  <2>1. d.verdict = "protected" => op.at # "track" /\ op.doc.verdict = "protected"
    BY <1>3 DEF Saved, Document, AfterLedger
  <2> QED
    BY <1>2, <2>1 DEF OpFacts
<1> QED
  BY <1>1, <1>4, <1>5, <1>6 DEF DocFacts

LEMMA DocsTyped ==
    ASSUME Shape, op.at # "idle" => OpFacts(op.at, op.of, op.doc, op.call), [Next]_vars
    PROVE  docs' \in [FalconPayload -> Document \union {Free}]
<1>1. docs \in [FalconPayload -> Document \union {Free}] /\ op \in OpType
  BY DEF Shape, TypeOK, OpType
<1>2. stage \in Securing => FiledDoc \in Document
  <2>1. NoDocument \in Document
    BY NoOpTyped
  <2> QED
    BY <2>1 DEF Shape, FiledDoc, Document
<1>3. \A d : Saved(d) => d \in Document
  BY <1>1, SavedSound
<1> QED
  BY <1>1, <1>2, <1>3, DocsMove

LEMMA TrackedGrows ==
    ASSUME [Next]_vars
    PROVE  tracked \subseteq tracked'
BY DEF Next, ScannerStep, ReconcileStep, Finalize, vars, recoveryVars, facts,
     NewSignal, Preflight, Gates, EntryLock, ArmStop, EngineRuns,
     EngineAnswers, ResultRaises, Secure, FileIncident, Contain, Track,
     LoadIncident, Identify, Decide, CloseNaked, Restore, CloseGate, SaveFact, SavePhase,
     CloseLedger, SaveLedgerPhase, Unlock, SaveUnlockPhase, Acknowledge, ClearGate,
     OtherBotReserves, StopLost, StopFills, Restart

LEMMA LockTyped ==
    ASSUME Shape, [Next]_vars
    PROVE  lock' \in Incident \union {Free}
<1>1. lock \in Incident \union {Free}
  BY DEF Shape, TypeOK
<1>2. CASE Secure \/ Contain
  BY <1>1, <1>2 DEF Secure, Contain, Shape, Securing, Incident, Scans
<1>3. CASE Unlock
  BY <1>1, <1>3 DEF Unlock
<1>4. CASE ~Secure /\ ~Contain /\ ~Unlock
  BY <1>1, <1>4 DEF Next, ScannerStep, ReconcileStep, Finalize, vars, recoveryVars, redis,
     NewSignal, Preflight, Gates, EntryLock, ArmStop, EngineRuns,
     EngineAnswers, ResultRaises, FileIncident, Track,
     LoadIncident, Identify, Decide, CloseNaked, Restore, CloseGate, SaveFact, SavePhase,
     CloseLedger, SaveLedgerPhase, SaveUnlockPhase, Acknowledge, ClearGate,
     OtherBotReserves, StopLost, StopFills, Restart
<1> QED
  BY <1>2, <1>3, <1>4

LEMMA FactsTyped ==
    ASSUME Shape, LiveMove, [Next]_vars
    PROVE  armed' \union closed' \union tracked' \subseteq FalconPayload
           /\ armed' \union closed' \subseteq orders'
<1> USE DEF Shape
<1>1. /\ armed \union closed \union tracked \subseteq FalconPayload
      /\ armed \union closed \subseteq orders /\ orders \subseteq orders'
  BY OrdersGrow DEF TypeOK
<1>2. CASE ArmStop
  <2>1. stage = "engine"
    BY <1>2, RecoveryAssumption DEF ArmStop, At, TypeOK
  <2> QED
    BY <1>1, <1>2, <2>1 DEF ArmStop
<1>3. CASE CloseNaked
  BY <1>1, <1>3 DEF CloseNaked, OpAt
<1>4. CASE Track
  BY <1>1, <1>4 DEF Track, Scans
<1>5. CASE Restore
  BY <1>1, <1>5 DEF Restore, OpAt
<1>6. CASE \E p \in FalconPayload : StopLost(p) \/ StopFills(p)
  BY <1>1, <1>6 DEF StopLost, StopFills
<1>7. CASE /\ ~ArmStop /\ ~CloseNaked /\ ~Track /\ ~Restore
           /\ ~\E p \in FalconPayload : StopLost(p) \/ StopFills(p)
  <2>1. UNCHANGED <<armed, closed, tracked>>
    BY <1>7 DEF Next, ScannerStep, ReconcileStep, Finalize, vars, recoveryVars, facts,
     NewSignal, Preflight, Gates, EntryLock, EngineRuns,
     EngineAnswers, ResultRaises, Secure, FileIncident, Contain,
     LoadIncident, Identify, Decide, CloseGate, SaveFact, SavePhase,
     CloseLedger, SaveLedgerPhase, Unlock, SaveUnlockPhase, Acknowledge, ClearGate,
     OtherBotReserves, Restart
  <2> QED
    BY <1>1, <2>1
<1> QED
  BY <1>2, <1>3, <1>4, <1>5, <1>6, <1>7

(***************************************************************************)
(* The invariant of the recovery.                                          *)
(***************************************************************************)
Documented == \A p \in FalconPayload : docs[p] # Free => DocFacts(p, docs[p])

OpSound == op.at # "idle" => OpFacts(op.at, op.of, op.doc, op.call)

Filed == stage \in Securing /\ subject.of[2] = "full" => Sound(subject.of[1], FiledDoc)

Answered == {"sent", "refused", "unknown"}

OnTerms ==
    /\ OnFile
    /\ \A p \in armed \union closed : Quiet(KeyOf[p])
    /\ stage = "engine" /\ reply[Scanner] = "sent" => Quiet(KeyOf[signal])
    /\ pc[Scanner] \in {"outcome", "report", "returned"} /\ reply[Scanner] \in Answered =>
         seen[MyKey(Scanner)] # "absent"
    /\ stage \in {"gates", "entryLock"} => FalconPayload \intersect (inflight \union late) = {}

RecoveryInv ==
    /\ Shape
    /\ Engine
    /\ Documented
    /\ OpSound
    /\ Filed
    /\ ~lost => OnTerms

LEMMA RecoveryMoves ==
    ASSUME RecoveryInv, [Next]_vars
    PROVE  LiveMove
BY StepMoves DEF RecoveryInv, Shape

LEMMA KeepsOnFile ==
    ASSUME RecoveryInv, [Next]_vars, ~lost'
    PROVE  OnFile'
<1> USE DEF RecoveryInv
<1>1. LiveMove /\ (~lost => OnFile) /\ ~lost
  BY RecoveryMoves, MoveLoss DEF OnTerms
<1>2. CASE CloseLedger
  <2> DEFINE k == KeyOf[op.of]
  <2>1. op.at = "ledger" /\ k \in Key
    BY <1>2, LiveAssumption, RecoveryAssumption DEF CloseLedger, OpAt, Shape
  <2>2. OnRecord(k) /\ OpenUnder(k) = {}
    BY <1>1, <2>1 DEF OpSound, OpFacts, Sound
  <2>3. LedgerMove(k, Reconciled) \/ UNCHANGED liveVars
    BY <1>2 DEF CloseLedger, LedgerMove, liveVars
  <2> HIDE DEF k
  <2> QED
    BY <1>1, <2>1, <2>2, <2>3, MoveOnFile
<1>3. CASE ~CloseLedger
  <2>1. \/ [LiveNext]_liveVars
        \/ \E k \in Key : LedgerMove(k, "reserved")
        \/ RestartMove
    <3>1. CASE ScannerStep
      BY <3>1, RecoveryAssumption
         DEF ScannerStep, LiveNext, NewSignal, Preflight, Gates, EntryLock, ArmStop, EngineRuns,
             EngineAnswers, ResultRaises, Secure, FileIncident, Contain, Track, Scans, Shape
    <3>2. CASE ReconcileStep
      BY <1>3, <3>2
         DEF ReconcileStep, Finalize, LoadIncident, Identify, Decide, CloseNaked, Restore,
             CloseGate, SaveFact, SavePhase, SaveLedgerPhase, Unlock, SaveUnlockPhase,
             Acknowledge, ClearGate
    <3>3. ASSUME NEW k \in Key \ FalconKey, OtherBotReserves(k) PROVE LedgerMove(k, "reserved")
      BY <3>3 DEF OtherBotReserves, LedgerMove
    <3>4. CASE ExchangeStep \/ UNCHANGED vars
      BY <3>4 DEF LiveNext, vars
    <3>5. CASE \E p \in FalconPayload : StopLost(p) \/ StopFills(p)
      BY <3>5 DEF StopLost, StopFills
    <3>6. CASE Restart
      BY <3>6 DEF Restart, RestartMove
    <3> QED
      BY <3>1, <3>2, <3>3, <3>4, <3>5, <3>6 DEF Next
  <2> QED
    BY <1>1, <2>1, MoveOnFile
<1> QED
  BY <1>2, <1>3

LEMMA KeepsShape ==
    ASSUME RecoveryInv, [Next]_vars
    PROVE  Shape' /\ Engine'
<1> USE DEF RecoveryInv
<1>1. LiveMove /\ TypeOK
  BY RecoveryMoves DEF Shape
<1>2. Engine' /\ LiveTypeOK'
  BY <1>1, EngineKept DEF Engine
<1>3. docs' \in [FalconPayload -> Document \union {Free}]
  BY DocsTyped DEF OpSound
<1>4. health' \in BOOLEAN /\ gate' \in BOOLEAN
  BY <1>1, FlagsTyped
<1>5. op' \in OpType /\ lock' \in Incident \union {Free} /\ faults' \in 0..MaxFaults
  BY <1>1, OpTyped, LockTyped, FaultsTyped
<1>6. TypeOK'
  BY <1>1, <1>2, <1>3, <1>4, <1>5, ScanTyped, FactsTyped DEF TypeOK, OpType
<1> QED
  BY <1>1, <1>2, <1>6, ScanTyped, OpTyped DEF Shape

LEMMA KeepsDocuments ==
    ASSUME RecoveryInv, [Next]_vars
    PROVE  Documented'
<1> USE DEF RecoveryInv
<1>1. LiveMove /\ (~lost => OnFile) /\ tracked \subseteq tracked'
  BY RecoveryMoves, TrackedGrows DEF OnTerms
<1>2. ASSUME NEW p \in FalconPayload, NEW d \in Document, DocFacts(p, d) PROVE DocFacts(p, d)'
  BY <1>1, <1>2, SoundKept DEF DocFacts
<1>3. docs \in [FalconPayload -> Document \union {Free}] /\ op \in OpType
  BY DEF Shape, TypeOK, OpType
<1>4. CASE docs' = docs
  <2> SUFFICES ASSUME NEW p \in FalconPayload, docs[p] # Free PROVE DocFacts(p, docs[p])'
    BY <1>4 DEF Documented, DocFacts, Sound
  <2> PICK d \in Document : d = docs[p]
    BY <1>3
  <2>1. DocFacts(p, d)'
    BY <1>2 DEF Documented
  <2> QED
    BY <1>4, <2>1 DEF DocFacts, Sound
<1>5. ASSUME NEW q \in FalconPayload, NEW e \in Document,
             DocFacts(q, e), docs' = [docs EXCEPT ![q] = e]
      PROVE  Documented'
  <2> SUFFICES ASSUME NEW p \in FalconPayload, docs'[p] # Free PROVE DocFacts(p, docs[p])'
    BY DEF Documented
  <2>1. CASE p = q
    <3>1. docs'[p] = e
      BY <1>3, <1>5, <2>1
    <3>2. DocFacts(p, e)'
      BY <1>2, <1>5, <2>1
    <3> QED
      BY <3>1, <3>2 DEF DocFacts, Sound
  <2>2. CASE p # q
    <3>1. docs'[p] = docs[p]
      BY <1>3, <1>5, <2>2
    <3> PICK d \in Document : d = docs[p]
      BY <1>3, <3>1
    <3>2. DocFacts(p, d)'
      BY <1>2, <3>1 DEF Documented
    <3> QED
      BY <3>1, <3>2 DEF DocFacts, Sound
  <2> QED
    BY <2>1, <2>2
<1>6. CASE /\ stage \in Securing /\ subject.of[2] = "full"
           /\ docs' = [docs EXCEPT ![subject.of[1]] = FiledDoc]
  <2>1. subject.of[1] \in FalconPayload /\ FiledDoc \in Document /\ FiledDoc.verdict = "none"
    <3>1. subject \in [of: Incident, stopKnown: BOOLEAN]
      BY <1>6 DEF Shape
    <3> QED
      BY <3>1, NoOpTyped DEF FiledDoc, Document, Incident, NoDocument
  <2>2. DocFacts(subject.of[1], FiledDoc)
    BY <1>6, <2>1 DEF DocFacts, Filed
  <2> HIDE DEF FiledDoc
  <2> QED
    BY <1>5, <1>6, <2>1, <2>2
<1>7. ASSUME NEW d, Saved(d), docs' = [docs EXCEPT ![op.of] = d]
      PROVE  Documented'
  <2>1. d \in Document /\ DocFacts(op.of, d) /\ op.at # "idle"
    BY <1>3, <1>7, SavedSound DEF OpSound
  <2> QED
    BY <1>5, <1>7, <2>1 DEF Shape
<1> QED
  BY <1>4, <1>6, <1>7, DocsMove

LEMMA EntersSecuring ==
    ASSUME Shape, [Next]_vars, stage' \in Securing
    PROVE  \/ stage \in Securing /\ subject' = subject
           \/ /\ stage = "preflight" /\ readable /\ UNCHANGED liveVars
              /\ \E p \in FalconPayload :
                   KeyOf[p] \in PendingCalls /\ subject' = [of |-> <<p, "full">>, stopKnown |-> FALSE]
           \/ /\ stage = "engine" /\ pc[Scanner] = "returned" /\ Return(Scanner)
              /\ \E kind \in {"full", "partial"}, known \in BOOLEAN :
                   /\ subject' = [of |-> <<signal, kind>>, stopKnown |-> known]
                   /\ kind = "full" => reply[Scanner] \in Answered
                   /\ known => reply[Scanner] = "sent"
<1> USE DEF Securing
<1>1. CASE ScanRests
  BY <1>1 DEF ScanRests
<1>2. CASE Restart
  BY <1>2 DEF Restart
<1>3. CASE Preflight
  BY <1>3 DEF Preflight, Scans, Proceed, Rest, HandleIncident
<1>4. CASE EngineAnswers
  BY <1>4 DEF EngineAnswers, Scans, At, Proceed, Rest, HandleIncident, Answered
<1>5. CASE ResultRaises
  <2>1. /\ stage = "engine" /\ pc[Scanner] = "returned" /\ Return(Scanner)
        /\ reply[Scanner] \in Answered
        /\ HandleIncident(signal, "full", reply[Scanner] = "sent")
    BY <1>5 DEF ResultRaises, Scans, At, Answered
  <2> PICK known \in BOOLEAN : known <=> reply[Scanner] = "sent"
    OBVIOUS
  <2>2. subject' = [of |-> <<signal, "full">>, stopKnown |-> known]
    BY <2>1, Zenon DEF HandleIncident
  <2> QED
    BY <2>1, <2>2
<1>6. CASE \/ \E p \in FalconPayload : NewSignal(p)
           \/ Gates \/ EntryLock \/ Contain \/ Track
  BY <1>6 DEF NewSignal, Gates, EntryLock, Contain, Track, Proceed, Rest
<1>7. CASE ArmStop \/ EngineRuns
  BY <1>7 DEF ArmStop, EngineRuns, scan, recoveryVars
<1>8. CASE Secure \/ FileIncident
  BY <1>8 DEF Secure, FileIncident, Scans, Proceed, Rest
<1> QED
  BY <1>1, <1>2, <1>3, <1>4, <1>5, <1>6, <1>7, <1>8, OtherStepsRest DEF ScannerStep

LEMMA KeepsFiled ==
    ASSUME RecoveryInv, [Next]_vars
    PROVE  Filed'
<1> USE DEF RecoveryInv
<1>1. LiveMove /\ (~lost => OnFile) /\ (lost \/ ~lost) /\ (~lost' => ~lost)
  BY RecoveryMoves, MoveLoss DEF OnTerms
<1> SUFFICES ASSUME stage' \in Securing, subject'.of[2] = "full"
             PROVE  Sound(subject.of[1], FiledDoc)'
  BY DEF Filed
<1>2. subject' \in [of: Incident, stopKnown: BOOLEAN]
  BY ScanTyped
<1> PICK p \in FalconPayload, known \in BOOLEAN : p = subject'.of[1] /\ known = subject'.stopKnown
  BY <1>2 DEF Incident
<1> PICK d : d = [NoDocument EXCEPT !.stopKnown = known]
  OBVIOUS
<1>3. d \in Document /\ d.phase = "open" /\ d.verdict = "none" /\ d.stopKnown = known
  BY NoOpTyped DEF Document, NoDocument
<1>4. d = FiledDoc'
  BY DEF FiledDoc, NoDocument
<1> SUFFICES Sound(p, d)'
  BY <1>4 DEF Sound, NotSent
<1>5. CASE stage \in Securing /\ subject' = subject
  <2>1. Sound(p, d)
    BY <1>5 DEF Filed, FiledDoc
  <2> QED
    BY <1>1, <1>3, <2>1, SoundKept
<1>6. ASSUME ~lost' => OnRecord(KeyOf[p])' /\ (known => OpenUnder(KeyOf[p])' = {})
      PROVE  Sound(p, d)'
  BY <1>3, <1>6 DEF Sound
<1>7. CASE /\ stage = "preflight" /\ readable /\ UNCHANGED liveVars
           /\ \E q \in FalconPayload :
                KeyOf[q] \in PendingCalls /\ subject' = [of |-> <<q, "full">>, stopKnown |-> FALSE]
  <2>1. KeyOf[p] \in PendingCalls /\ ~known
    BY <1>7
  <2>2. seen[KeyOf[p]] # "absent"
    BY <2>1 DEF PendingCalls, Unresolved, Pending, SendUnknown
  <2>3. \A t \in Thread : pc[t] = "idle"
    BY <1>7 DEF Shape, TypeOK, Engine, Alone
  <2> QED
    BY <1>6, <1>7, <2>1, <2>2, <2>3 DEF OnRecord, liveVars, ledger, threads, Working, Unsent
<1>8. CASE /\ stage = "engine" /\ pc[Scanner] = "returned" /\ Return(Scanner)
           /\ \E kind \in {"full", "partial"}, k \in BOOLEAN :
                /\ subject' = [of |-> <<signal, kind>>, stopKnown |-> k]
                /\ kind = "full" => reply[Scanner] \in Answered
                /\ k => reply[Scanner] = "sent"
  <2>1. /\ p = signal /\ reply[Scanner] \in Answered
        /\ known => reply[Scanner] = "sent"
    BY <1>8
  <2>2. /\ UNCHANGED <<seen, lost, inflight, late>> /\ pc'[Scanner] = "idle"
        /\ \A t \in Thread \ {Scanner} : pc'[t] = "idle"
    BY <1>8, RecoveryAssumption DEF Return, ledger, exchange, Engine, LiveTypeOK, Alone
  <2>3. \A t \in Thread : pc'[t] = "idle"
    BY <2>2
  <2>4. MyKey(Scanner) = KeyOf[p]
    BY <1>8, <2>1 DEF Shape, MyKey
  <2>5. ~lost' => seen[KeyOf[p]] # "absent" /\ (known => OpenUnder(KeyOf[p]) = {})
    BY <1>1, <1>8, <2>1, <2>4 DEF OnTerms, Quiet
  <2> QED
    BY <1>6, <2>2, <2>3, <2>5 DEF OnRecord, OpenUnder, Working, Unsent
<1> QED
  BY <1>5, <1>7, <1>8, EntersSecuring

LEMMA QuietArmed ==
    ASSUME RecoveryInv, [Next]_vars, ~lost', NEW p, p \in armed' \union closed'
    PROVE  Quiet(KeyOf[p])'
<1> USE DEF RecoveryInv
<1>1. LiveMove /\ ~lost /\ OnTerms /\ readable
  BY RecoveryMoves, MoveLoss DEF OnTerms, OnFile
<1>2. p \in FalconPayload /\ KeyOf[p] \in Key
  BY <1>1, FactsTyped, RecoveryAssumption, LiveAssumption
<1>3. Quiet(KeyOf[p]) => Quiet(KeyOf[p])'
  BY <1>1, <1>2, RecordKept
<1>4. CASE p \in armed \union closed
  BY <1>1, <1>3, <1>4 DEF OnTerms
<1>5. CASE ArmStop /\ p = signal
  <2>1. /\ pc[Scanner] = "await" /\ stage = "engine" /\ call[Scanner] = p /\ p \in orders
        /\ Scanner \in Thread
    BY <1>5, RecoveryAssumption DEF ArmStop, At, Shape, TypeOK
  <2>2. ThreadOnFile(Scanner) /\ MyKey(Scanner) = KeyOf[p]
    BY <1>1, <2>1 DEF OnTerms, OnFile, MyKey
  <2>3. seen[KeyOf[p]] # "absent" /\ OpenUnder(KeyOf[p]) = {}
    BY <2>1, <2>2 DEF ThreadOnFile, Placed, Pending, OpenUnder, SentUnder, Shape, TypeOK, LiveTypeOK
  <2>4. \A t \in Thread : pc[t] \notin Unsent
    BY <2>1 DEF Unsent, Engine, Alone
  <2> QED
    BY <1>3, <2>3, <2>4 DEF Quiet
<1>6. CASE CloseNaked /\ p = op.of
  <2>1. op.at = "contain"
    BY <1>6 DEF CloseNaked, OpAt
  <2>2. OnRecord(KeyOf[p]) /\ OpenUnder(KeyOf[p]) = {}
    BY <1>1, <1>6, <2>1 DEF OpSound, OpFacts, Sound
  <2> QED
    BY <1>3, <2>2 DEF OnRecord, Quiet, Working
<1>7. \/ p \in armed \union closed
      \/ ArmStop /\ p = signal
      \/ CloseNaked /\ p = op.of
  <2>1. CASE ArmStop
    BY <2>1 DEF ArmStop
  <2>2. CASE CloseNaked
    BY <2>2 DEF CloseNaked
  <2>3. CASE \E q \in FalconPayload : StopLost(q) \/ StopFills(q)
    BY <2>3 DEF StopLost, StopFills
  <2>4. CASE ~ArmStop /\ ~CloseNaked /\ ~\E q \in FalconPayload : StopLost(q) \/ StopFills(q)
    <3>1. UNCHANGED <<armed, closed>>
      BY <2>4 DEF Next, ScannerStep, ReconcileStep, Finalize, vars, recoveryVars, facts,
         NewSignal, Preflight, Gates, EntryLock, EngineRuns, EngineAnswers, ResultRaises,
         Secure, FileIncident, Contain, Track, Restore, LoadIncident, Identify, Decide,
         CloseGate, SaveFact, SavePhase, CloseLedger, SaveLedgerPhase, Unlock,
         SaveUnlockPhase, Acknowledge, ClearGate, OtherBotReserves, Restart
    <3> QED
      BY <3>1
  <2> QED
    BY <2>1, <2>2, <2>3, <2>4
<1> QED
  BY <1>4, <1>5, <1>6, <1>7

\* A result is "sent" only for an entry whose stop was armed.
LEMMA QuietSent ==
    ASSUME RecoveryInv, [Next]_vars, ~lost', stage' = "engine", reply'[Scanner] = "sent"
    PROVE  Quiet(KeyOf[signal])'
<1> USE DEF RecoveryInv
<1>1. LiveMove /\ ~lost /\ OnTerms /\ readable /\ TypeOK
  BY RecoveryMoves, MoveLoss DEF OnTerms, OnFile, Shape
<1>2. \A p \in FalconPayload : Quiet(KeyOf[p]) => Quiet(KeyOf[p])'
  BY <1>1, RecordKept, RecoveryAssumption, LiveAssumption
<1>3. stage = "engine" => signal \in FalconPayload
  BY DEF Shape
<1>4. CASE ScannerStep
  <2>1. CASE EngineRuns
    <3>1. UNCHANGED <<stage, signal>> /\ stage = "engine"
      BY <2>1 DEF EngineRuns, recoveryVars, scan, Scans
    <3>2. reply[Scanner] = "sent" \/ signal \in armed
      BY <2>1 DEF EngineRuns
    <3>3. Quiet(KeyOf[signal])
      BY <1>1, <3>1, <3>2 DEF OnTerms
    <3> QED
      BY <1>2, <1>3, <3>1, <3>3 DEF Quiet, OpenUnder
  <2>2. CASE ArmStop
    <3>1. UNCHANGED <<stage, signal, reply>>
      BY <2>2 DEF ArmStop, scan, liveVars, threads
    <3>2. Quiet(KeyOf[signal])
      BY <1>1, <3>1 DEF OnTerms
    <3> QED
      BY <1>2, <1>3, <3>1, <3>2 DEF Quiet, OpenUnder
  <2>3. CASE EntryLock
    <3>1. Begin(Scanner, signal)
      BY <2>3 DEF EntryLock, Rest
    <3> QED
      BY <1>1, <3>1, RecoveryAssumption DEF Begin, TypeOK, LiveTypeOK
  <2>4. CASE ~EngineRuns /\ ~ArmStop /\ ~EntryLock
    BY <1>4, <2>4
       DEF ScannerStep, NewSignal, Preflight, Gates, EngineAnswers, ResultRaises, Secure,
           FileIncident, Contain, Track, Scans, Proceed, Rest, HandleIncident
  <2> QED
    BY <1>4, <2>1, <2>2, <2>3, <2>4
<1>5. CASE ~ScannerStep
  <2>1. UNCHANGED <<stage, signal, reply>>
    BY <1>5, OtherStepsRest DEF ScanRests, Restart
  <2>2. Quiet(KeyOf[signal])
    BY <1>1, <2>1 DEF OnTerms
  <2> QED
    BY <1>2, <1>3, <2>1, <2>2 DEF Quiet, OpenUnder
<1> QED
  BY <1>4, <1>5

LEMMA AnsweredOnFile ==
    ASSUME RecoveryInv, [Next]_vars, ~lost',
           pc'[Scanner] \in {"outcome", "report", "returned"}, reply'[Scanner] \in Answered
    PROVE  seen'[MyKey(Scanner)'] # "absent"
<1> USE DEF RecoveryInv
<1>1. LiveMove /\ ~lost /\ OnTerms /\ readable /\ TypeOK /\ LiveTypeOK /\ Scanner \in Thread
  BY RecoveryMoves, MoveLoss, RecoveryAssumption DEF OnTerms, OnFile, Shape, TypeOK
<1>2. ASSUME NEW k \in Key, seen[k] # "absent" PROVE seen'[k] # "absent"
  BY <1>1, <1>2, KeyMoves
<1>3. pc[Scanner] # "idle" => MyKey(Scanner) \in Key
  BY <1>1, PayloadTyping
<1>4. CASE EngineStep(Scanner)
  <2>1. pc[Scanner] # "idle" /\ UNCHANGED call
    BY <1>1, <1>4, EngineStays
  <2>2. MyKey(Scanner)' = MyKey(Scanner)
    BY <2>1 DEF MyKey
  <2>3. \/ pc[Scanner] \in {"outcome", "report"} /\ reply'[Scanner] = reply[Scanner]
        \/ RecordResult(Scanner)
    BY <1>1, <1>4
       DEF EngineStep, At, Check, AppendPlan, Reserve, PilotGuard, Confirm, TakeAttempt,
           RecordPending, BrokerGuards, ClaimSend, CreateOrder, OrderReturned, OrderRaised,
           RecordResult, RecordOutcome, Report, Refuse, Goto, Answer, Answered, LiveTypeOK
  <2>4. CASE pc[Scanner] \in {"outcome", "report"} /\ reply'[Scanner] = reply[Scanner]
    BY <1>1, <1>2, <1>3, <2>1, <2>2, <2>4 DEF OnTerms
  <2>5. CASE RecordResult(Scanner)
    <3>1. seen[MyKey(Scanner)] # "absent"
      BY <1>1, <2>5 DEF RecordResult, At, OnTerms, OnFile, ThreadOnFile, Working
    <3> QED
      BY <1>2, <1>3, <2>1, <2>2, <3>1
  <2> QED
    BY <2>3, <2>4, <2>5
<1>5. CASE UNCHANGED threads
  <2>1. MyKey(Scanner)' = MyKey(Scanner) /\ UNCHANGED <<pc, reply>>
    BY <1>5 DEF threads, MyKey
  <2> QED
    BY <1>1, <1>2, <1>3, <2>1 DEF OnTerms
<1>6. CASE Return(Scanner) \/ \E p \in FalconPayload : Begin(Scanner, p)
  BY <1>1, <1>6 DEF Return, Begin, LiveTypeOK
<1>7. CASE RestartMove
  BY <1>1, <1>7 DEF RestartMove, StopThreads
<1> QED
  BY <1>1, <1>4, <1>5, <1>6, <1>7 DEF LiveMove, ExchangeStep, Accept, Drop, LedgerMove, liveVars

\* The preflight lets an entry pass only when no request is open, and none is
\* made before the engine is called.
LEMMA GatesShut ==
    ASSUME RecoveryInv, [Next]_vars, ~lost', stage' \in {"gates", "entryLock"}
    PROVE  FalconPayload \intersect (inflight' \union late') = {}
<1> USE DEF RecoveryInv
<1>1. LiveMove /\ ~lost /\ OnTerms /\ OnFile /\ readable /\ TypeOK /\ LiveTypeOK
  BY RecoveryMoves, MoveLoss DEF OnTerms, OnFile, Shape, TypeOK
<1>2. CASE Preflight
  <2>1. LedgerClear /\ UNCHANGED liveVars
    BY <1>2 DEF Preflight, Proceed, Rest, HandleIncident
  <2>2. ASSUME NEW p \in FalconPayload PROVE p \notin inflight \union late
    <3>1. KeyOf[p] \in FalconKey /\ KeyOf[p] \in Key /\ p \in Payload
      BY RecoveryAssumption, LiveAssumption
    <3>2. seen[KeyOf[p]] \notin Unresolved
      BY <2>1, <3>1 DEF LedgerClear, PendingCalls
    <3>3. OpenUnder(KeyOf[p]) = {}
      BY <1>1, <3>1, <3>2 DEF OnFile, KeyOnFile
    <3> QED
      BY <3>3 DEF OpenUnder
  <2> QED
    BY <2>1, <2>2 DEF liveVars, exchange
<1>3. ASSUME stage \in {"gates", "entryLock"} PROVE inflight' \union late' \subseteq inflight \union late
  <2>1. pc[Scanner] = "idle"
    BY <1>1, <1>3 DEF TypeOK
  <2>2. ~EngineStep(Scanner)
    BY <1>1, <2>1, EngineStays, RecoveryAssumption
  <2> QED
    BY <1>1, <2>2 DEF LiveMove, Begin, Return, ExchangeStep, Accept, Drop, LedgerMove, RestartMove,
       exchange, liveVars
<1>4. stage \in {"gates", "entryLock"} \/ Preflight
  <2>1. CASE ScannerStep
    BY <2>1 DEF ScannerStep, NewSignal, Gates, EntryLock, ArmStop, EngineRuns, EngineAnswers,
       ResultRaises, Secure, FileIncident, Contain, Track, Scans, Proceed, Rest, HandleIncident,
       scan, recoveryVars
  <2>2. CASE ~ScannerStep
    BY <2>2, OtherStepsRest DEF ScanRests, Restart
  <2> QED
    BY <2>1, <2>2
<1> QED
  BY <1>1, <1>2, <1>3, <1>4 DEF OnTerms

LEMMA KeepsOnTerms ==
    ASSUME RecoveryInv, [Next]_vars, ~lost'
    PROVE  OnTerms'
BY KeepsOnFile, QuietArmed, QuietSent, AnsweredOnFile, GatesShut DEF OnTerms

(***************************************************************************)
(* Every step of the reconciliation rests on what the incident's document  *)
(* and the evidence say.                                                   *)
(***************************************************************************)
LEMMA DecisionSound ==
    ASSUME RecoveryInv, op.at = "look", NEW v \in Verdicts(op.of, op.call, op.doc),
           NEW d, d = [op.doc EXCEPT !.verdict = v],
           NEW at, at = IF v = "protected" THEN "track" ELSE "gate"
    PROVE  d \in Document /\ OpFacts(at, op.of, d, op.call)
<1> USE DEF RecoveryInv
<1>1. /\ OpFacts("look", op.of, op.doc, op.call)
      /\ op.of \in FalconPayload /\ op.doc \in Document
  BY DEF OpSound, Shape, TypeOK
<1> PICK p \in FalconPayload : p = op.of
  BY <1>1
<1>2. /\ p \in Payload /\ AttemptOf[p] \in Attempt /\ KeyOf[p] \in Key
      /\ \A q \in Payload : KeyOf[q] = KeyOf[p] => AttemptOf[q] = AttemptOf[p]
  BY RecoveryAssumption, LiveAssumption
<1>3. /\ d \in Document /\ d.verdict = v /\ d.phase = "open" /\ d.stopKnown = op.doc.stopKnown
      /\ v \in {"notSent", "protected", "closed"}
  BY <1>1 DEF OpFacts, Document, Verdicts
<1>4. v = "notSent" => NotSent(p) /\ attempt[AttemptOf[p]] = "reserved"
  BY <1>1 DEF OpFacts, Verdicts, NotSent
<1>5. ~lost => OpenUnder(KeyOf[p]) = {}
  <2>1. CASE v = "notSent"
    <3>1. sends[AttemptOf[p]] = 0
      BY <1>2, <1>4, <2>1 DEF Engine, SoleClaim
    <3> QED
      BY <1>2, <3>1 DEF Engine, SentApart, OpenUnder, LiveTypeOK
  <2>2. CASE v \in {"protected", "closed"}
    <3>1. p \in armed \union closed
      BY <2>2 DEF Verdicts
    <3> QED
      BY <3>1 DEF OnTerms, Quiet
  <2> QED
    BY <1>3, <2>1, <2>2
<1>6. Sound(p, d)
  BY <1>1, <1>3, <1>4, <1>5 DEF Sound, OpFacts
<1> QED
  BY <1>1, <1>3, <1>6 DEF OpFacts, AfterLedger

LEMMA KeepsOp ==
    ASSUME RecoveryInv, [Next]_vars
    PROVE  OpSound'
<1> USE DEF RecoveryInv
<1>1. LiveMove /\ (~lost => OnFile) /\ tracked \subseteq tracked' /\ LiveTypeOK
  BY RecoveryMoves, TrackedGrows DEF OnTerms, Engine
<1>2. op \in OpType /\ docs \in [FalconPayload -> Document \union {Free}]
  BY DEF Shape, TypeOK, OpType
<1>3. ASSUME NEW at, NEW p \in FalconPayload, NEW d \in Document, NEW c,
             op'.at = at, op'.of = p, op'.doc = d, op'.call = c, OpFacts(at, p, d, c)
      PROVE  OpSound'
  <2>1. OpFacts(at, p, d, c)'
    BY <1>1, <1>3, OpFactsKept
  <2> QED
    BY <1>3, <2>1 DEF OpSound, OpFacts, Sound, NotSent
<1>4. CASE OpRests \/ op' = NoOp
  <2>1. CASE op'.at = "idle"
    BY <2>1 DEF OpSound
  <2>2. CASE op' = op /\ op.at # "idle"
    <3> PICK at \in OpLabel, p \in FalconPayload, d \in Document, c \in Entry :
               at = op.at /\ p = op.of /\ d = op.doc /\ c = op.call
      BY <1>2, <2>2 DEF Shape, OpType
    <3>1. OpFacts(at, p, d, c)
      BY <2>2 DEF OpSound
    <3> QED
      BY <1>3, <2>2, <3>1
  <2> QED
    BY <1>4, <2>1, <2>2, NoOpTyped DEF OpRests
<1>5. ASSUME NEW p \in FalconPayload, LoadIncident(p) PROVE OpSound'
  <2> PICK d \in Document : d = docs[p]
    BY <1>2, <1>5 DEF LoadIncident
  <2> PICK at : at = Resume(d.phase)
    OBVIOUS
  <2>1. op'.at = at /\ op'.of = p /\ op'.doc = d /\ op'.call = "absent"
    BY <1>5 DEF LoadIncident
  <2>2. DocFacts(p, d) /\ d.phase \in Phase
    BY <1>5 DEF LoadIncident, Documented, Document
  <2>3. OpFacts(at, p, d, "absent")
    <3>1. \/ d.phase = "open" /\ at = "identify"
          \/ d.phase = "fact" /\ at = "ledger"
          \/ d.phase \in {"ledger", "released", "acked"} /\ at \in {"unlock", "ack", "regate"}
      BY <2>2 DEF Phase, Resume
    <3> QED
      BY <2>2, <3>1 DEF DocFacts, OpFacts, Sound, AfterLedger
  <2> QED
    BY <1>3, <2>1, <2>3
<1>6. ASSUME op.at # "idle", NEW at, OpGoto(at),
             OpFacts(at, op.of, op.doc, op.call)
      PROVE  OpSound'
  <2> PICK p \in FalconPayload, d \in Document, c \in Entry :
             p = op.of /\ d = op.doc /\ c = op.call
    BY <1>2, <1>6 DEF Shape, OpType
  <2>1. op'.at = at /\ op'.of = p /\ op'.doc = d /\ op'.call = c
    BY <1>2, <1>6 DEF OpGoto, OpType
  <2> QED
    BY <1>3, <1>6, <2>1
<1>7. CASE Identify
  <2> PICK p \in FalconPayload, d \in Document, c \in Entry :
             p = op.of /\ d = op.doc /\ c = IdentityOf(KeyOf[p])
    <3>1. IdentityOf(KeyOf[op.of]) \in Entry
      BY DEF IdentityOf, Entry, BrokerState
    <3> QED
      BY <1>2, <1>7, <3>1 DEF Identify, OpAt, Shape, OpType
  <2>1. CASE op' = [op EXCEPT !.at = "look", !.call = IdentityOf(KeyOf[op.of])] /\ c # "absent"
    <3>1. op'.at = "look" /\ op'.of = p /\ op'.doc = d /\ op'.call = c
      BY <1>2, <2>1 DEF OpType
    <3>2. OpFacts("identify", p, d, op.call)
      BY <1>7 DEF Identify, OpAt, OpSound
    <3>3. c \in Unresolved \/ seen[KeyOf[p]] = Confirmed
      BY <2>1 DEF IdentityOf, Unresolved
    <3>4. c \in Unresolved \/ Gone(AttemptOf[p])
      BY <3>3, RecoveryAssumption DEF Engine, Taken
    <3>5. OpFacts("look", p, d, c)
      BY <3>2, <3>4 DEF OpFacts, AfterLedger
    <3> QED
      BY <1>3, <3>1, <3>5
  <2>2. CASE op' = NoOp
    BY <1>4, <2>2
  <2> QED
    BY <1>7, <2>1, <2>2 DEF Identify, GiveUp
<1>8. CASE Decide
  <2>1. op.at = "look" /\ op.of \in FalconPayload /\ OpFacts("look", op.of, op.doc, op.call)
    BY <1>8 DEF Decide, OpAt, Shape, OpSound
  <2>2. ASSUME NEW v \in Verdicts(op.of, op.call, op.doc),
               op' = [op EXCEPT !.at = IF v = "protected" THEN "track" ELSE "gate",
                                !.doc.verdict = v]
        PROVE  OpSound'
    <3> PICK p \in FalconPayload : p = op.of
      BY <2>1
    <3> PICK at, d, c :
               /\ at = IF v = "protected" THEN "track" ELSE "gate"
               /\ d = [op.doc EXCEPT !.verdict = v] /\ c = op.call
      OBVIOUS
    <3>1. d \in Document /\ OpFacts(at, p, d, c)
      BY <2>1, DecisionSound
    <3>2. op'.at = at /\ op'.of = p /\ op'.doc = d /\ op'.call = c
      BY <1>2, <2>2 DEF OpType
    <3> QED
      BY <1>3, <3>1, <3>2
  <2>3. CASE StopAbsent(op.of, op.doc) /\ OpGoto("contain")
    <3>1. OpFacts("contain", op.of, op.doc, op.call)
      BY <2>1, <2>3 DEF StopAbsent, OpFacts, AfterLedger
    <3> QED
      BY <1>6, <2>1, <2>3, <3>1
  <2>4. CASE op' = NoOp
    BY <1>4, <2>4
  <2> QED
    BY <1>8, <2>2, <2>3, <2>4 DEF Decide, GiveUp
<1>9. CASE Restore
  <2>1. op.at = "track"
    BY <1>9 DEF Restore, OpAt
  <2> PICK p \in FalconPayload, d \in Document, c \in Entry :
             p = op.of /\ d = op.doc /\ c = op.call
    BY <1>2, <2>1 DEF Shape, OpType
  <2>2. OpFacts("track", p, d, c)
    BY <2>1 DEF OpSound
  <2>3. OpFacts("track", p, d, c)'
    BY <1>1, <2>2, OpFactsKept
  <2>4. CASE tracked' = tracked \union {op.of} /\ OpGoto("gate")
    <3>1. op'.at = "gate" /\ op'.of = p /\ op'.doc = d /\ op'.call = c
      BY <1>2, <2>4 DEF OpGoto, OpType
    <3>2. OpFacts("gate", p, d, c)'
      BY <2>3, <2>4 DEF OpFacts, AfterLedger
    <3> QED
      BY <3>1, <3>2 DEF OpSound, OpFacts, Sound, NotSent
  <2> QED
    BY <1>4, <1>9, <2>4 DEF Restore, GiveUp
<1>10. CASE CloseLedger
  <2>1. op.at = "ledger"
    BY <1>10 DEF CloseLedger, OpAt
  <2> PICK p \in FalconPayload, d \in Document, c \in Entry :
             p = op.of /\ d = op.doc /\ c = op.call
    BY <1>2, <2>1 DEF Shape, OpType
  <2>2. OpFacts("ledger", p, d, c)
    BY <2>1 DEF OpSound
  <2>3. OpFacts("ledger", p, d, c)'
    BY <1>1, <2>2, OpFactsKept
  <2>4. CASE RecordBrokerState(KeyOf[op.of], Reconciled) /\ OpGoto("ledgerPhase")
    <3>1. op'.at = "ledgerPhase" /\ op'.of = p /\ op'.doc = d /\ op'.call = c
      BY <1>2, <2>4 DEF OpGoto, OpType
    <3>2. seen'[KeyOf[p]] = Reconciled
      <4>1. KeyOf[p] \in Key
        BY RecoveryAssumption, LiveAssumption
      <4>2. Load \in [Key -> Entry]
        BY <1>1, LedgerTyping DEF LiveTypeOK
      <4> QED
        BY <2>4, <4>1, <4>2 DEF RecordBrokerState, Save
    <3>3. OpFacts("ledgerPhase", p, d, c)'
      BY <2>3, <3>2 DEF OpFacts, AfterLedger
    <3> QED
      BY <3>1, <3>3 DEF OpSound, OpFacts, Sound, NotSent
  <2> QED
    BY <1>4, <1>10, <2>4 DEF CloseLedger, GiveUp
<1>11. CASE CloseGate \/ Unlock
  <2>1. CASE op.at = "gate" /\ OpGoto("fact")
    <3>1. OpFacts("fact", op.of, op.doc, op.call)
      BY <2>1 DEF OpSound, OpFacts, AfterLedger
    <3> QED
      BY <1>6, <2>1, <3>1
  <2>2. CASE op.at = "unlock" /\ OpGoto("unlockPhase")
    <3>1. OpFacts("unlockPhase", op.of, op.doc, op.call)
      BY <2>2 DEF OpSound, OpFacts, AfterLedger
    <3> QED
      BY <1>6, <2>2, <3>1
  <2> QED
    BY <1>4, <1>11, <2>1, <2>2 DEF CloseGate, Unlock, OpAt, GiveUp
<1>12. ASSUME NEW at, NEW phase, NEW next, SavePhase(at, phase, next),
              \/ at = "fact" /\ phase = "fact" /\ next = "ledger"
              \/ /\ at \in AfterLedger /\ next \in AfterLedger
                 /\ phase \in {"ledger", "released", "acked"}
       PROVE  OpSound'
  <2>1. op.at = at /\ at # "idle"
    BY <1>12 DEF SavePhase, OpAt, AfterLedger
  <2>2. CASE op' = [op EXCEPT !.at = next, !.doc = [op.doc EXCEPT !.phase = phase]]
    <3> PICK p \in FalconPayload, c \in Entry : p = op.of /\ c = op.call
      BY <1>2, <2>1 DEF Shape, OpType
    <3> PICK d : d = [op.doc EXCEPT !.phase = phase]
      OBVIOUS
    <3>1. Saved(d)
      BY <1>12, <2>1 DEF Saved
    <3>2. d \in Document /\ DocFacts(p, d)
      BY <1>2, <3>1, SavedSound DEF OpSound
    <3>3. OpFacts(at, p, op.doc, c) /\ d.verdict = op.doc.verdict
      BY <1>2, <2>1 DEF OpSound, OpType, Document
    <3>4. OpFacts(next, p, d, c)
      BY <1>12, <3>2, <3>3 DEF OpFacts, DocFacts, AfterLedger
    <3>5. op'.at = next /\ op'.of = p /\ op'.doc = d /\ op'.call = c
      BY <1>2, <2>2 DEF OpType
    <3> QED
      BY <1>3, <3>2, <3>4, <3>5
  <2> QED
    BY <1>4, <1>12, <2>2 DEF SavePhase, GiveUp
<1>13. CASE SaveFact \/ SaveLedgerPhase \/ SaveUnlockPhase \/ Acknowledge
  <2>1. \/ SavePhase("fact", "fact", "ledger") \/ SavePhase("ledgerPhase", "ledger", "unlock")
        \/ SavePhase("unlockPhase", "released", "ack") \/ SavePhase("ack", "acked", "ungate")
        \/ op' = NoOp
    BY <1>13 DEF SaveFact, SaveLedgerPhase, SaveUnlockPhase, Acknowledge, GiveUp
  <2> QED
    BY <1>4, <1>12, <2>1 DEF AfterLedger
<1>14. CASE CloseNaked \/ ClearGate \/ Restart
  BY <1>4, <1>14 DEF CloseNaked, ClearGate, Restart, GiveUp
<1> QED
  BY <1>4, <1>5, <1>7, <1>8, <1>9, <1>10, <1>11, <1>13, <1>14, OtherStepsKeepOp
     DEF ReconcileStep, Finalize

LEMMA RecoveryStarts == Init => RecoveryInv
<1> SUFFICES ASSUME Init PROVE RecoveryInv
  OBVIOUS
<1> USE RecoveryAssumption, LiveAssumption DEF Init, LiveInit
<1>1. LedgerTypeOK
  BY DEF LedgerInit, LedgerTypeOK, NothingSeen, Entry
<1>2. LiveTypeOK
  BY <1>1 DEF LiveTypeOK, LiveLabel, Reply
<1>3. op \in OpType /\ op.at = "idle"
  BY NoOpTyped
<1>4. Shape
  <2>1. health \in BOOLEAN /\ gate \in BOOLEAN
    BY Zenon
  <2>2. docs \in [FalconPayload -> Document \union {Free}]
    OBVIOUS
  <2>3. faults \in 0..MaxFaults /\ armed \union closed \union tracked \subseteq FalconPayload
    OBVIOUS
  <2>4. stage = "engine" <=> pc[Scanner] # "idle"
    OBVIOUS
  <2>5. TypeOK
    BY <1>2, <1>3, <2>1, <2>2, <2>3, <2>4 DEF TypeOK, OpType, Stage
  <2> QED
    BY <1>3, <2>5 DEF Shape, Securing
<1>5. Engine
  <2>1. \A k \in Key : seen[k] = "absent"
    BY DEF LedgerInit, NothingSeen
  <2>2. SoleClaim /\ SentApart /\ Alone
    BY DEF SoleClaim, SentApart, Alone
  <2>3. Taken
    BY <2>1 DEF Taken, Held, Confirmed
  <2> QED
    BY <1>2, <2>2, <2>3 DEF Engine
<1>6. Documented /\ OpSound /\ Filed
  BY <1>3 DEF Documented, OpSound, Filed, Securing
<1>7. OnTerms
  <2>1. OnFile
    BY DEF OnFile, LedgerInit, SoleWorker, ThreadOnFile, KeyOnFile, SentUnder, OpenUnder,
       Working, Unsent, Placed
  <2> QED
    BY <2>1 DEF OnTerms
<1> QED
  BY <1>4, <1>5, <1>6, <1>7 DEF RecoveryInv

(***************************************************************************)
(* The invariant of the entry recovery: it holds whatever fails, restarts  *)
(* or is lost between the scan and the reconciliation.                     *)
(***************************************************************************)
THEOREM RecoveryHolds == Spec => []RecoveryInv
<1>1. RecoveryInv /\ [Next]_vars => RecoveryInv'
  BY KeepsShape, KeepsDocuments, KeepsOp, KeepsFiled, KeepsOnTerms DEF RecoveryInv
<1> QED
  BY <1>1, RecoveryStarts, PTL DEF Spec

(***************************************************************************)
(* The types.                                                              *)
(***************************************************************************)
THEOREM RecoveryTyping == Spec => []TypeOK
<1>1. RecoveryInv => TypeOK
  BY DEF RecoveryInv, Shape
<1> QED
  BY <1>1, RecoveryHolds, PTL

(***************************************************************************)
(* An entry that was reconciled as protected is in the Registry and in the *)
(* positions document, whatever failed or restarted on the way.            *)
(***************************************************************************)
THEOREM ProtectedTracked == Spec => []ProtectedIsTracked
<1>1. RecoveryInv => ProtectedIsTracked
  BY DEF RecoveryInv, Documented, DocFacts, ProtectedIsTracked, Terminal
<1> QED
  BY <1>1, RecoveryHolds, PTL

(***************************************************************************)
(* An entry that was reconciled as not sent neither is an order nor        *)
(* becomes one, even after the ledger is lost.                             *)
(***************************************************************************)
THEOREM NotSentHolds == Spec => []NotSentIsFact
<1>1. RecoveryInv => NotSentIsFact
  <2> SUFFICES ASSUME RecoveryInv, NEW p \in FalconPayload, Terminal(p, "notSent")
               PROVE  p \notin inflight \union orders
    BY DEF NotSentIsFact
  <2>1. AttemptOf[p] \in Attempt
    BY RecoveryAssumption, LiveAssumption
  <2>2. attempt[AttemptOf[p]] # "claimed"
    BY DEF RecoveryInv, Documented, DocFacts, Sound, NotSent, Terminal
  <2>3. sends[AttemptOf[p]] = 0
    BY <2>1, <2>2 DEF RecoveryInv, Engine, SoleClaim
  <2> QED
    BY <2>3 DEF RecoveryInv, Engine, SentApart
<1> QED
  BY <1>1, RecoveryHolds, PTL

(***************************************************************************)
(* falcon.py:3965: no entry is sent while an earlier one may still become  *)
(* an order nobody waits for, as long as the ledger survives.              *)
(***************************************************************************)
THEOREM EntriesFailClosed == Spec => FailClosed
<1>1. RecoveryInv /\ [Next]_vars =>
        [Scans("entryLock") /\ stage' = "engine" /\ ~lost =>
           \A p \in FalconPayload : p \notin inflight \union late]_vars
  BY DEF RecoveryInv, OnTerms, Scans
<1> QED
  BY <1>1, RecoveryHolds, PTL DEF Spec, FailClosed

(***************************************************************************)
(* The entry lock of an unresolved call is released only after the call is *)
(* closed in the ledger.                                                   *)
(***************************************************************************)
THEOREM LockOutlivesCall == Spec => UnlockAfterLedger
<1>1. ASSUME RecoveryInv, [Next]_vars, NEW p \in FalconPayload,
             lock = <<p, "full">>, lock' # lock, ~lost
      PROVE  seen[KeyOf[p]] = Reconciled
  <2>1. lock # Free
    BY <1>1, RecoveryAssumption DEF Incident
  <2>2. CASE Unlock
    <3>1. op.at = "unlock" /\ op.of = p
      BY <1>1, <2>1, <2>2 DEF Unlock, OpAt
    <3> QED
      BY <1>1, <3>1 DEF RecoveryInv, OpSound, OpFacts, AfterLedger
  <2>3. CASE ~Unlock
    <3>1. UNCHANGED lock
      BY <1>1, <2>1, <2>3
         DEF Next, ScannerStep, ReconcileStep, Finalize, vars, recoveryVars, redis,
             NewSignal, Preflight, Gates, EntryLock, ArmStop, EngineRuns, EngineAnswers,
             ResultRaises, Secure, FileIncident, Contain, Track, LoadIncident, Identify,
             Decide, CloseNaked, Restore, CloseGate, SaveFact, SavePhase, CloseLedger,
             SaveLedgerPhase, SaveUnlockPhase, Acknowledge, ClearGate, OtherBotReserves,
             StopLost, StopFills, Restart
    <3> QED
      BY <1>1, <3>1
  <2> QED
    BY <2>2, <2>3
<1>2. RecoveryInv /\ [Next]_vars =>
        [\A p \in FalconPayload :
           lock = <<p, "full">> /\ lock' # lock /\ ~lost => seen[KeyOf[p]] = Reconciled]_vars
  BY <1>1
<1> QED
  BY <1>2, RecoveryHolds, PTL DEF Spec, UnlockAfterLedger
=============================================================================
