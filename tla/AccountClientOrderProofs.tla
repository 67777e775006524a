----------------------- MODULE AccountClientOrderProofs -----------------------
(***************************************************************************)
(* Proofs about AccountClientOrder for any number of callers, operations,  *)
(* attempts and retries and for any, also colliding, identity hash: its    *)
(* types; the inductive invariant and the safety properties that follow    *)
(* from it; and that it implements OrderAttempts, where receipts are       *)
(* reservations and the disposition slot is the fate of an attempt.        *)
(***************************************************************************)
EXTENDS AccountClientOrder, TLAPS

\* The steps of one process, spelled out.
LEMMA NextCases ==
  ASSUME Next
  PROVE  \/ \E p \in Proc, i \in Ident : BeginReserve(p, i) \/ BeginSend(p, i)
         \/ \E p \in Proc : \/ ReserveSequence(p) \/ ReserveId(p)
                            \/ ReserveAttempt(p) \/ ReserveOperation(p)
                            \/ ReserveReadback(p)
         \/ \E p \in Proc : \/ RejectContext(p) \/ VerifyForClaim(p) \/ Claim(p)
                            \/ CreateOrder(p) \/ OrderReturned(p)
                            \/ OrderRaised(p) \/ RecordOutcome(p)
         \/ \E p \in Proc, i \in Ident, r \in Reason : BeginConsume(p, i, r)
         \/ \E p \in Proc : Consume(p) \/ RecordConsumed(p)
         \/ \E p \in Proc, j \in Ident, i \in Ident : BeginAuthorize(p, j, i)
         \/ \E p \in Proc : Reconcile(p) \/ Authorize(p) \/ Quit(p)
         \/ \E i \in Ident : RecordTerminal(i) \/ AcceptOrder(i) \/ RefuseOrder(i)
BY DEF Next, Reserve, Send, ConsumePreSend, AuthorizeNext

LEMMA InitTyped == Init => TypeOK /\ CallsTyped
BY ConstantsAssumption DEF Init, TypeOK, CallsTyped, Label, Authorizing, Seqs

LEMMA CallTypes ==
  ASSUME NEW p \in Proc, CallsTyped, pc[p] # "idle"
  PROVE  /\ arg[p] \in Ident
         /\ SeqKey(arg[p]) \in Op \X Seqs
         /\ AttKey(arg[p]) \in Op \X Att
         /\ arg[p].op \in Op /\ arg[p].att \in Att /\ arg[p].seq \in Seqs
         /\ CoidOf[arg[p]] \in ClientOrderId
BY ConstantsAssumption DEF CallsTyped, Ident, SeqKey, AttKey


-----------------------------------------------------------------------------
\* The parts of the typing invariant.

LedgerTyped ==
  /\ sequenceSlot \in [Op \X Seqs -> Ident \union {Nil}]
  /\ idLedger \in [ClientOrderId -> Ident \union {Nil}]
  /\ attemptRecord \in [Op \X Att -> Ident \union {Nil}]
  /\ operationRecord \in [Op -> Att \union {Nil}]
  /\ authorization \in [Op \X Seqs -> Authorization \union {Nil}]
  /\ disposition \in [Op \X Att -> Disposition \union {Nil}]
  /\ outcomes \in [Op \X Att -> SUBSET OutcomeState]

CallsOK ==
  /\ pc \in [Proc -> Label]
  /\ arg \in [Proc -> Ident \union {Nil}]
  /\ prior \in [Proc -> Ident \union {Nil}]
  /\ note \in [Proc -> Reason \union OutcomeState \union {Nil}]
  /\ CallsTyped

ExchangeTyped ==
  /\ inflight \subseteq Ident
  /\ orders \subseteq Ident
  /\ sends \in [Ident -> Nat]

LEMMA TypedParts == (TypeOK /\ CallsTyped)
                    <=> (LedgerTyped /\ CallsOK /\ ExchangeTyped /\ receipts \subseteq Ident)
BY DEF TypeOK, LedgerTyped, CallsOK, ExchangeTyped

\* SET-NX writes a free slot, keeps a taken one and touches no other.
LEMMA SetNxFacts ==
  ASSUME NEW D, NEW R, NEW f \in [D -> R \union {Nil}], NEW k \in D, NEW v \in R
  PROVE  /\ SetNx(f, k, v) \in [D -> R \union {Nil}]
         /\ SetNx(f, k, v)[k] = IF f[k] = Nil THEN v ELSE f[k]
         /\ \A x \in D : x # k \/ f[x] # Nil => SetNx(f, k, v)[x] = f[x]
BY DEF SetNx

LEMMA StartTyped ==
  ASSUME NEW p \in Proc, NEW label \in Label, NEW i \in Ident,
         NEW j \in Ident \union {Nil}, NEW n \in Reason \union OutcomeState \union {Nil},
         CallsOK, Start(p, label, i, j, n),
         label \in Authorizing => j \in Ident,
         label # "recordOutcome",
         label = "consume" => n \in Reason
  PROVE  CallsOK'
BY DEF CallsOK, CallsTyped, Start

LEMMA GotoTyped ==
  ASSUME NEW p \in Proc, NEW label \in Label, CallsOK, Goto(p, label), pc[p] # "idle",
         label \in Authorizing => pc[p] \in Authorizing,
         label \notin {"recordOutcome", "consume"}
  PROVE  CallsOK'
BY DEF CallsOK, CallsTyped, Goto

LEMMA ReturnTyped ==
  ASSUME NEW p \in Proc, CallsOK, Return(p)
  PROVE  CallsOK'
BY DEF CallsOK, CallsTyped, Return, Label, Authorizing

\* Which action writes which record: every other action leaves it alone.
LEMMA Writers ==
  ASSUME [Next]_vars
  PROVE  /\ sequenceSlot' = sequenceSlot \/ \E p \in Proc : ReserveSequence(p)
         /\ idLedger' = idLedger \/ \E p \in Proc : ReserveId(p)
         /\ attemptRecord' = attemptRecord \/ \E p \in Proc : ReserveAttempt(p)
         /\ operationRecord' = operationRecord \/ \E p \in Proc : ReserveOperation(p)
         /\ authorization' = authorization \/ \E p \in Proc : Authorize(p)
         /\ disposition' = disposition \/ \E p \in Proc : Claim(p) \/ Consume(p)
         /\ outcomes' = outcomes \/ \/ \E p \in Proc : RecordOutcome(p) \/ RecordConsumed(p)
                                    \/ \E i \in Ident : RecordTerminal(i)
         /\ receipts' = receipts \/ \E p \in Proc : ReserveReadback(p)
         /\ sends' = sends \/ \E p \in Proc : CreateOrder(p)
         /\ orders' = orders \/ \E i \in Ident : AcceptOrder(i)
         /\ inflight' = inflight \/ \/ \E p \in Proc : CreateOrder(p)
                                    \/ \E i \in Ident : AcceptOrder(i) \/ RefuseOrder(i)
<1> DEFINE Goal ==
         /\ sequenceSlot' = sequenceSlot \/ \E p \in Proc : ReserveSequence(p)
         /\ idLedger' = idLedger \/ \E p \in Proc : ReserveId(p)
         /\ attemptRecord' = attemptRecord \/ \E p \in Proc : ReserveAttempt(p)
         /\ operationRecord' = operationRecord \/ \E p \in Proc : ReserveOperation(p)
         /\ authorization' = authorization \/ \E p \in Proc : Authorize(p)
         /\ disposition' = disposition \/ \E p \in Proc : Claim(p) \/ Consume(p)
         /\ outcomes' = outcomes \/ \/ \E p \in Proc : RecordOutcome(p) \/ RecordConsumed(p)
                                    \/ \E i \in Ident : RecordTerminal(i)
         /\ receipts' = receipts \/ \E p \in Proc : ReserveReadback(p)
         /\ sends' = sends \/ \E p \in Proc : CreateOrder(p)
         /\ orders' = orders \/ \E i \in Ident : AcceptOrder(i)
         /\ inflight' = inflight \/ \/ \E p \in Proc : CreateOrder(p)
                                    \/ \E i \in Ident : AcceptOrder(i) \/ RefuseOrder(i)
<1> USE DEF ledger, exchange
<1>1. ASSUME NEW p \in Proc, NEW i \in Ident, BeginReserve(p, i) \/ BeginSend(p, i)
      PROVE  Goal
  BY <1>1 DEF BeginReserve, BeginSend
<1>2. ASSUME NEW p \in Proc, ReserveSequence(p) PROVE Goal
  BY <1>2 DEF ReserveSequence
<1>3. ASSUME NEW p \in Proc, ReserveId(p) PROVE Goal
  BY <1>3 DEF ReserveId
<1>4. ASSUME NEW p \in Proc, ReserveAttempt(p) PROVE Goal
  BY <1>4 DEF ReserveAttempt
<1>5. ASSUME NEW p \in Proc, ReserveOperation(p) PROVE Goal
  BY <1>5 DEF ReserveOperation
<1>6. ASSUME NEW p \in Proc, ReserveReadback(p) PROVE Goal
  BY <1>6 DEF ReserveReadback
<1>7. ASSUME NEW p \in Proc, \/ RejectContext(p) \/ VerifyForClaim(p)
                             \/ OrderReturned(p) \/ OrderRaised(p)
                             \/ Reconcile(p) \/ Quit(p)
      PROVE  Goal
  BY <1>7 DEF RejectContext, VerifyForClaim, OrderReturned, OrderRaised, Reconcile, Quit
<1>8. ASSUME NEW p \in Proc, Claim(p) \/ Consume(p) PROVE Goal
  BY <1>8 DEF Claim, Consume
<1>9. ASSUME NEW p \in Proc, CreateOrder(p) PROVE Goal
  BY <1>9 DEF CreateOrder
<1>10. ASSUME NEW p \in Proc, RecordOutcome(p) \/ RecordConsumed(p) PROVE Goal
  BY <1>10 DEF RecordOutcome, RecordConsumed
<1>11. ASSUME NEW p \in Proc, NEW i \in Ident, NEW r \in Reason, BeginConsume(p, i, r)
       PROVE  Goal
  BY <1>11 DEF BeginConsume
<1>12. ASSUME NEW p \in Proc, NEW j \in Ident, NEW i \in Ident, BeginAuthorize(p, j, i)
       PROVE  Goal
  BY <1>12 DEF BeginAuthorize
<1>13. ASSUME NEW p \in Proc, Authorize(p) PROVE Goal
  BY <1>13 DEF Authorize
<1>14. ASSUME NEW i \in Ident, RecordTerminal(i) PROVE Goal
  BY <1>14 DEF RecordTerminal
<1>15. ASSUME NEW i \in Ident, AcceptOrder(i) \/ RefuseOrder(i) PROVE Goal
  BY <1>15 DEF AcceptOrder, RefuseOrder
<1>16. CASE UNCHANGED vars
  BY <1>16 DEF vars
<1> QED
  BY NextCases, <1>1, <1>2, <1>3, <1>4, <1>5, <1>6, <1>7, <1>8, <1>9, <1>10,
     <1>11, <1>12, <1>13, <1>14, <1>15, <1>16

LEMMA NextTyped == TypeOK /\ CallsTyped /\ [Next]_vars => TypeOK' /\ CallsTyped'
<1> SUFFICES ASSUME LedgerTyped, CallsOK, ExchangeTyped, receipts \subseteq Ident,
                    [Next]_vars
             PROVE  LedgerTyped' /\ CallsOK' /\ ExchangeTyped' /\ (receipts \subseteq Ident)'
  BY TypedParts, PTL
<1> CallsTyped
  BY DEF CallsOK
<1>1. CallsOK'
  <2>1. ASSUME NEW p \in Proc, NEW i \in Ident, BeginReserve(p, i) \/ BeginSend(p, i)
        PROVE  CallsOK'
    BY <2>1, StartTyped DEF BeginReserve, BeginSend, Label, Authorizing
  <2>2. ASSUME NEW p \in Proc,
               \/ ReserveSequence(p) \/ ReserveId(p) \/ ReserveAttempt(p)
               \/ ReserveOperation(p) \/ ReserveReadback(p)
        PROVE  CallsOK'
    BY <2>2, GotoTyped, ReturnTyped
    DEF ReserveSequence, ReserveId, ReserveAttempt, ReserveOperation, ReserveReadback,
        AcquireOrReturn, Label, Authorizing
  <2>3. ASSUME NEW p \in Proc,
               VerifyForClaim(p) \/ Claim(p) \/ CreateOrder(p) \/ RecordOutcome(p)
        PROVE  CallsOK'
    BY <2>3, GotoTyped, ReturnTyped
    DEF VerifyForClaim, Claim, CreateOrder, RecordOutcome, AcquireOrReturn, Label, Authorizing
  <2>4. ASSUME NEW p \in Proc, RejectContext(p) \/ OrderReturned(p) \/ OrderRaised(p)
        PROVE  CallsOK'
    BY <2>4
    DEF RejectContext, OrderReturned, OrderRaised, CallsOK, CallsTyped, Label, Authorizing,
        OutcomeState
  <2>5. ASSUME NEW p \in Proc, NEW i \in Ident, NEW r \in Reason, BeginConsume(p, i, r)
        PROVE  CallsOK'
    BY <2>5, StartTyped DEF BeginConsume, Label, Authorizing
  <2>6. ASSUME NEW p \in Proc, Consume(p) \/ RecordConsumed(p) \/ Authorize(p) \/ Reconcile(p)
        PROVE  CallsOK'
    BY <2>6, GotoTyped, ReturnTyped
    DEF Consume, RecordConsumed, Authorize, Reconcile, Label, Authorizing
  <2>7. ASSUME NEW p \in Proc, NEW j \in Ident, NEW i \in Ident, BeginAuthorize(p, j, i)
        PROVE  CallsOK'
    BY <2>7, StartTyped DEF BeginAuthorize, Label, Authorizing
  <2>8. ASSUME NEW p \in Proc, Quit(p)
        PROVE  CallsOK'
    BY <2>8, ReturnTyped DEF Quit
  <2>9. ASSUME NEW i \in Ident, RecordTerminal(i) \/ AcceptOrder(i) \/ RefuseOrder(i)
        PROVE  CallsOK'
    BY <2>9 DEF RecordTerminal, AcceptOrder, RefuseOrder, CallsOK, CallsTyped, local
  <2>10. CASE UNCHANGED vars
    BY <2>10 DEF vars, local, CallsOK, CallsTyped
  <2> QED
    BY NextCases, <2>1, <2>2, <2>3, <2>4, <2>5, <2>6, <2>7, <2>8, <2>9, <2>10
<1>2. LedgerTyped'
  <2>1. sequenceSlot' \in [Op \X Seqs -> Ident \union {Nil}]
    <3>1. ASSUME NEW p \in Proc, ReserveSequence(p)
          PROVE  sequenceSlot' \in [Op \X Seqs -> Ident \union {Nil}]
      <4>1. arg[p] \in Ident /\ SeqKey(arg[p]) \in Op \X Seqs
        BY <3>1, CallTypes DEF ReserveSequence
      <4>2. sequenceSlot' = SetNx(sequenceSlot, SeqKey(arg[p]), arg[p])
        BY <3>1 DEF ReserveSequence
      <4> QED
        BY <4>1, <4>2, SetNxFacts DEF LedgerTyped
    <3> QED
      BY <3>1, Writers DEF LedgerTyped
  <2>2. idLedger' \in [ClientOrderId -> Ident \union {Nil}]
    <3>1. ASSUME NEW p \in Proc, ReserveId(p)
          PROVE  idLedger' \in [ClientOrderId -> Ident \union {Nil}]
      <4>1. arg[p] \in Ident /\ CoidOf[arg[p]] \in ClientOrderId
        BY <3>1, CallTypes DEF ReserveId
      <4>2. idLedger' = SetNx(idLedger, CoidOf[arg[p]], arg[p])
        BY <3>1 DEF ReserveId
      <4> QED
        BY <4>1, <4>2, SetNxFacts DEF LedgerTyped
    <3> QED
      BY <3>1, Writers DEF LedgerTyped
  <2>3. attemptRecord' \in [Op \X Att -> Ident \union {Nil}]
    <3>1. ASSUME NEW p \in Proc, ReserveAttempt(p)
          PROVE  attemptRecord' \in [Op \X Att -> Ident \union {Nil}]
      <4>1. arg[p] \in Ident /\ AttKey(arg[p]) \in Op \X Att
        BY <3>1, CallTypes DEF ReserveAttempt
      <4>2. attemptRecord' = SetNx(attemptRecord, AttKey(arg[p]), arg[p])
        BY <3>1 DEF ReserveAttempt
      <4> QED
        BY <4>1, <4>2, SetNxFacts DEF LedgerTyped
    <3> QED
      BY <3>1, Writers DEF LedgerTyped
  <2>4. operationRecord' \in [Op -> Att \union {Nil}]
    <3>1. ASSUME NEW p \in Proc, ReserveOperation(p)
          PROVE  operationRecord' \in [Op -> Att \union {Nil}]
      <4>1. arg[p].op \in Op /\ arg[p].att \in Att
        BY <3>1, CallTypes DEF ReserveOperation
      <4>2. \/ operationRecord' = SetNx(operationRecord, arg[p].op, arg[p].att)
            \/ UNCHANGED operationRecord
        BY <3>1 DEF ReserveOperation
      <4> QED
        BY <4>1, <4>2, SetNxFacts DEF LedgerTyped
    <3> QED
      BY <3>1, Writers DEF LedgerTyped
  <2>5. authorization' \in [Op \X Seqs -> Authorization \union {Nil}]
    <3>1. ASSUME NEW p \in Proc, Authorize(p)
          PROVE  authorization' \in [Op \X Seqs -> Authorization \union {Nil}]
      <4> DEFINE v == [att |-> arg[p].att, prior |-> prior[p]]
      <4>1. v \in Authorization /\ SeqKey(arg[p]) \in Op \X Seqs
        BY <3>1, CallTypes DEF Authorize, CallsTyped, Authorizing, Authorization
      <4>2. authorization' = SetNx(authorization, SeqKey(arg[p]), v)
        BY <3>1 DEF Authorize
      <4> HIDE DEF v
      <4> QED
        BY <4>1, <4>2, SetNxFacts DEF LedgerTyped
    <3> QED
      BY <3>1, Writers DEF LedgerTyped
  <2>6. disposition' \in [Op \X Att -> Disposition \union {Nil}]
    <3>1. ASSUME NEW p \in Proc, Claim(p)
          PROVE  disposition' \in [Op \X Att -> Disposition \union {Nil}]
      <4>1. Claimed(arg[p]) \in Disposition
        BY <3>1, CallTypes DEF Claim, Disposition
      <4>2. AttKey(arg[p]) \in Op \X Att
        BY <3>1, CallTypes DEF Claim
      <4>3. disposition' = SetNx(disposition, AttKey(arg[p]), Claimed(arg[p]))
        BY <3>1 DEF Claim
      <4> QED
        BY <4>1, <4>2, <4>3, SetNxFacts DEF LedgerTyped
    <3>2. ASSUME NEW p \in Proc, Consume(p)
          PROVE  disposition' \in [Op \X Att -> Disposition \union {Nil}]
      <4>1. Consumed(arg[p], note[p]) \in Disposition
        BY <3>2, CallTypes DEF Consume, Disposition, CallsTyped
      <4>2. AttKey(arg[p]) \in Op \X Att
        BY <3>2, CallTypes DEF Consume
      <4>3. disposition' = SetNx(disposition, AttKey(arg[p]), Consumed(arg[p], note[p]))
        BY <3>2 DEF Consume
      <4> QED
        BY <4>1, <4>2, <4>3, SetNxFacts DEF LedgerTyped
    <3> QED
      BY <3>1, <3>2, Writers DEF LedgerTyped
  <2>7. outcomes' \in [Op \X Att -> SUBSET OutcomeState]
    <3>1. ASSUME NEW p \in Proc, RecordOutcome(p) \/ RecordConsumed(p)
          PROVE  outcomes' \in [Op \X Att -> SUBSET OutcomeState]
      <4>1. AttKey(arg[p]) \in Op \X Att
        BY <3>1, CallTypes DEF RecordOutcome, RecordConsumed
      <4>2. CASE RecordOutcome(p)
        BY <4>1, <4>2 DEF RecordOutcome, CallsTyped, LedgerTyped, OutcomeState
      <4>3. CASE RecordConsumed(p)
        BY <4>1, <4>3 DEF RecordConsumed, LedgerTyped, OutcomeState
      <4> QED
        BY <3>1, <4>2, <4>3
    <3>2. ASSUME NEW i \in Ident, RecordTerminal(i)
          PROVE  outcomes' \in [Op \X Att -> SUBSET OutcomeState]
      BY <3>2 DEF RecordTerminal, LedgerTyped, OutcomeState
    <3> QED
      BY <3>1, <3>2, Writers DEF LedgerTyped
  <2> QED
    BY <2>1, <2>2, <2>3, <2>4, <2>5, <2>6, <2>7 DEF LedgerTyped
<1>3. (receipts \subseteq Ident)'
  BY Writers, CallTypes DEF ReserveReadback
<1>4. ExchangeTyped'
  <2>1. inflight' \subseteq Ident /\ orders' \subseteq Ident
    BY Writers, CallTypes DEF CreateOrder, AcceptOrder, RefuseOrder, ExchangeTyped
  <2>2. sends' \in [Ident -> Nat]
    BY Writers, CallTypes DEF CreateOrder, ExchangeTyped
  <2> QED
    BY <2>1, <2>2 DEF ExchangeTyped
<1> QED
  BY <1>1, <1>2, <1>3, <1>4

\* The ledger, the calls and the exchange stay within their types.
THEOREM TypeCorrect == Spec => []TypeOK
<1>1. Init => TypeOK /\ CallsTyped
  BY InitTyped
<1>2. TypeOK /\ CallsTyped /\ [Next]_vars => TypeOK' /\ CallsTyped'
  BY NextTyped
<1> QED
  BY <1>1, <1>2, PTL DEF Spec

-----------------------------------------------------------------------------
\* Data.

LEMMA IdentTypes ==
  ASSUME NEW i \in Ident
  PROVE  /\ SeqKey(i) \in Op \X Seqs /\ AttKey(i) \in Op \X Att
         /\ i.op \in Op /\ i.att \in Att /\ i.seq \in Seqs
         /\ CoidOf[i] \in ClientOrderId
         /\ i # Nil
         /\ Claimed(i) \in Disposition /\ Claimed(i) # Nil
         /\ Claimed(i).kind = "SEND_CLAIMED" /\ Claimed(i).attempt = i
         /\ \A r \in Reason : /\ Consumed(i, r) \in Disposition /\ Consumed(i, r) # Nil
                              /\ Consumed(i, r).kind = "PRE_SEND_CONSUMED"
                              /\ Consumed(i, r).attempt = i
<1>1. /\ SeqKey(i) \in Op \X Seqs /\ AttKey(i) \in Op \X Att
      /\ i.op \in Op /\ i.att \in Att /\ i.seq \in Seqs
      /\ CoidOf[i] \in ClientOrderId
      /\ i # Nil
  BY ConstantsAssumption DEF Ident, SeqKey, AttKey
<1>2. /\ Claimed(i) \in Disposition /\ Claimed(i) # Nil
      /\ \A r \in Reason : Consumed(i, r) \in Disposition /\ Consumed(i, r) # Nil
  BY ConstantsAssumption DEF Disposition
<1>3. /\ Claimed(i).kind = "SEND_CLAIMED" /\ Claimed(i).attempt = i
      /\ \A r \in Reason : /\ Consumed(i, r).kind = "PRE_SEND_CONSUMED"
                           /\ Consumed(i, r).attempt = i
  BY DEF Claimed, Consumed
<1> QED
  BY <1>1, <1>2, <1>3

\* An identity is its operation, attempt id and sequence number.
LEMMA IdentExtensional ==
  ASSUME NEW i \in Ident, NEW j \in Ident, i.op = j.op, i.att = j.att, i.seq = j.seq
  PROVE  i = j
BY DEF Ident

LEMMA DispositionCases ==
  ASSUME NEW d \in Disposition
  PROVE  \/ \E i \in Ident : d = Claimed(i)
         \/ \E i \in Ident, r \in Reason : d = Consumed(i, r)
BY DEF Disposition

\* Claimed and consumed exclude each other.
LEMMA OneFate ==
  ASSUME NEW i \in Ident, SendClaimed(i), PreSendConsumed(i)
  PROVE  FALSE
<1>1. PICK r \in Reason : Claimed(i) = Consumed(i, r)
  BY DEF SendClaimed, PreSendConsumed
<1>2. Claimed(i).kind = "SEND_CLAIMED" /\ Consumed(i, r).kind = "PRE_SEND_CONSUMED"
  BY IdentTypes
<1> QED
  BY <1>1, <1>2

-----------------------------------------------------------------------------
\* Records are write-once and facts accumulate.

LEMMA Monotone ==
  ASSUME TypeOK, CallsTyped, [Next]_vars
  PROVE  /\ \A k \in Op \X Seqs : sequenceSlot[k] # Nil => sequenceSlot'[k] = sequenceSlot[k]
         /\ \A c \in ClientOrderId : idLedger[c] # Nil => idLedger'[c] = idLedger[c]
         /\ \A k \in Op \X Att : attemptRecord[k] # Nil => attemptRecord'[k] = attemptRecord[k]
         /\ \A o \in Op : operationRecord[o] # Nil => operationRecord'[o] = operationRecord[o]
         /\ \A k \in Op \X Seqs : authorization[k] # Nil => authorization'[k] = authorization[k]
         /\ \A k \in Op \X Att : disposition[k] # Nil => disposition'[k] = disposition[k]
         /\ receipts \subseteq receipts'
         /\ orders \subseteq orders'
<1>1. \A k \in Op \X Seqs : sequenceSlot[k] # Nil => sequenceSlot'[k] = sequenceSlot[k]
  <2>1. ASSUME NEW p \in Proc, ReserveSequence(p)
        PROVE  \A k \in Op \X Seqs : sequenceSlot[k] # Nil => sequenceSlot'[k] = sequenceSlot[k]
    BY <2>1, CallTypes DEF ReserveSequence, TypeOK, SetNx
  <2> QED
    BY <2>1, Writers
<1>2. \A c \in ClientOrderId : idLedger[c] # Nil => idLedger'[c] = idLedger[c]
  <2>1. ASSUME NEW p \in Proc, ReserveId(p)
        PROVE  \A c \in ClientOrderId : idLedger[c] # Nil => idLedger'[c] = idLedger[c]
    BY <2>1, CallTypes DEF ReserveId, TypeOK, SetNx
  <2> QED
    BY <2>1, Writers
<1>3. \A k \in Op \X Att : attemptRecord[k] # Nil => attemptRecord'[k] = attemptRecord[k]
  <2>1. ASSUME NEW p \in Proc, ReserveAttempt(p)
        PROVE  \A k \in Op \X Att : attemptRecord[k] # Nil => attemptRecord'[k] = attemptRecord[k]
    BY <2>1, CallTypes DEF ReserveAttempt, TypeOK, SetNx
  <2> QED
    BY <2>1, Writers
<1>4. \A o \in Op : operationRecord[o] # Nil => operationRecord'[o] = operationRecord[o]
  <2>1. ASSUME NEW p \in Proc, ReserveOperation(p)
        PROVE  \A o \in Op : operationRecord[o] # Nil => operationRecord'[o] = operationRecord[o]
    BY <2>1, CallTypes DEF ReserveOperation, TypeOK, SetNx
  <2> QED
    BY <2>1, Writers
<1>5. \A k \in Op \X Seqs : authorization[k] # Nil => authorization'[k] = authorization[k]
  <2>1. ASSUME NEW p \in Proc, Authorize(p)
        PROVE  \A k \in Op \X Seqs : authorization[k] # Nil => authorization'[k] = authorization[k]
    BY <2>1, CallTypes DEF Authorize, TypeOK, SetNx
  <2> QED
    BY <2>1, Writers
<1>6. \A k \in Op \X Att : disposition[k] # Nil => disposition'[k] = disposition[k]
  <2>1. ASSUME NEW p \in Proc, Claim(p) \/ Consume(p)
        PROVE  \A k \in Op \X Att : disposition[k] # Nil => disposition'[k] = disposition[k]
    BY <2>1, CallTypes DEF Claim, Consume, TypeOK, SetNx
  <2> QED
    BY <2>1, Writers
<1>7. receipts \subseteq receipts' /\ orders \subseteq orders'
  BY Writers DEF ReserveReadback, AcceptOrder
<1> QED
  BY <1>1, <1>2, <1>3, <1>4, <1>5, <1>6, <1>7

\* What a reader of write-once records has found out stays true.
LEMMA StaysTrue ==
  ASSUME NEW i \in Ident, TypeOK, CallsTyped, [Next]_vars
  PROVE  /\ Integral(i) => Integral(i)'
         /\ Decided(i) => Decided(i)'
         /\ SendClaimed(i) => SendClaimed(i)'
         /\ PreSendConsumed(i) => PreSendConsumed(i)'
<1>1. SendClaimed(i) => SendClaimed(i)'
  BY IdentTypes, Monotone DEF SendClaimed
<1>2. PreSendConsumed(i) => PreSendConsumed(i)'
  BY IdentTypes, Monotone DEF PreSendConsumed
<1>3. Decided(i) => Decided(i)'
  BY IdentTypes, Monotone DEF Decided
<1>4. ASSUME Integral(i) PROVE Integral(i)'
  <2>1. sequenceSlot'[SeqKey(i)] = i /\ idLedger'[CoidOf[i]] = i /\ attemptRecord'[AttKey(i)] = i
    BY <1>4, IdentTypes, Monotone DEF Integral
  <2>2. ASSUME AuthorizedByReconciliation(i) PROVE AuthorizedByReconciliation(i)'
    <3> DEFINE a == authorization[SeqKey(i)]
    <3>1. a # Nil /\ a \in Authorization /\ authorization'[SeqKey(i)] = a
      BY <2>2, IdentTypes, Monotone DEF AuthorizedByReconciliation, TypeOK
    <3>2. a.prior \in Ident /\ AttKey(a.prior) \in Op \X Att
      BY <3>1, IdentTypes DEF Authorization
    <3>3. attemptRecord[AttKey(a.prior)] = a.prior
      BY <2>2 DEF AuthorizedByReconciliation
    <3>4. attemptRecord'[AttKey(a.prior)] = a.prior
      BY <3>2, <3>3, IdentTypes, Monotone
    <3> QED
      BY <2>2, <3>1, <3>4 DEF AuthorizedByReconciliation
  <2>3. operationRecord[i.op] # Nil => operationRecord'[i.op] = operationRecord[i.op]
    BY IdentTypes, Monotone
  <2>4. i.seq = 0 => operationRecord[i.op] # Nil
    BY <1>4, IdentTypes, ConstantsAssumption DEF Integral
  <2> QED
    BY <1>4, <2>1, <2>2, <2>3, <2>4 DEF Integral
<1> QED
  BY <1>1, <1>2, <1>3, <1>4

-----------------------------------------------------------------------------
\* Who moves.

Step(q) == Reserve(q) \/ Send(q) \/ ConsumePreSend(q) \/ AuthorizeNext(q) \/ Quit(q)
Stays(q) == /\ pc'[q] = pc[q] /\ arg'[q] = arg[q]
            /\ prior'[q] = prior[q] /\ note'[q] = note[q]

\* A call's control state is changed by its own steps only.
LEMMA Mover ==
  ASSUME TypeOK, [Next]_vars, NEW q \in Proc
  PROVE  Stays(q) \/ Step(q)
<1>1. CASE UNCHANGED vars
  BY <1>1 DEF vars, local, Stays
<1>2. ASSUME NEW i \in Ident, RecordTerminal(i) \/ AcceptOrder(i) \/ RefuseOrder(i)
      PROVE  Stays(q)
  BY <1>2 DEF RecordTerminal, AcceptOrder, RefuseOrder, local, Stays
<1>3. ASSUME NEW p \in Proc, Step(p), p # q PROVE Stays(q)
  <2> USE <1>3 DEF TypeOK, Stays
  <2>1. CASE Reserve(p)
    BY <2>1 DEF Reserve, BeginReserve, ReserveSequence, ReserveId, ReserveAttempt,
       ReserveOperation, ReserveReadback, Start, AcquireOrReturn, Goto, Return
  <2>2. CASE Send(p)
    BY <2>2 DEF Send, BeginSend, RejectContext, VerifyForClaim, Claim, CreateOrder,
       OrderReturned, OrderRaised, RecordOutcome, Start, AcquireOrReturn, Goto, Return
  <2>3. CASE ConsumePreSend(p)
    BY <2>3 DEF ConsumePreSend, BeginConsume, Consume, RecordConsumed, Start, Goto, Return
  <2>4. CASE AuthorizeNext(p)
    BY <2>4 DEF AuthorizeNext, BeginAuthorize, Reconcile, Authorize, Start, Goto, Return
  <2>5. CASE Quit(p)
    BY <2>5 DEF Quit, Return
  <2> QED
    BY <2>1, <2>2, <2>3, <2>4, <2>5 DEF Step
<1> QED
  BY <1>1, <1>2, <1>3 DEF Next, Step

\* Sending starts with a claim that took the free disposition slot.
LEMMA SendingEntry ==
  ASSUME TypeOK, CallsTyped, [Next]_vars, NEW q \in Proc, pc'[q] \in Sending
  PROVE  /\ arg'[q] = arg[q]
         /\ \/ pc[q] \in Sending
            \/ pc[q] = "claim" /\ Claim(q) /\ disposition[AttKey(arg[q])] = Nil
         /\ pc'[q] = "createOrder" => Stays(q) \/ Claim(q)
<1> USE DEF TypeOK, Sending
<1>1. CASE Stays(q)
  BY <1>1 DEF Stays
<1>2. CASE Reserve(q)
  BY <1>2 DEF Reserve, BeginReserve, ReserveSequence, ReserveId, ReserveAttempt,
     ReserveOperation, ReserveReadback, Start, AcquireOrReturn, Goto, Return
<1>3. CASE Send(q)
  BY <1>3 DEF Send, BeginSend, RejectContext, VerifyForClaim, Claim, CreateOrder,
     OrderReturned, OrderRaised, RecordOutcome, Start, AcquireOrReturn, Goto, Return
<1>4. CASE ConsumePreSend(q)
  BY <1>4 DEF ConsumePreSend, BeginConsume, Consume, RecordConsumed, Start, Goto, Return
<1>5. CASE AuthorizeNext(q)
  BY <1>5 DEF AuthorizeNext, BeginAuthorize, Reconcile, Authorize, Start, Goto, Return
<1>6. CASE Quit(q)
  BY <1>6 DEF Quit, Return
<1> QED
  BY <1>1, <1>2, <1>3, <1>4, <1>5, <1>6, Mover DEF Step

\* What was decided and retired stays retired: no late send, no late order.
LEMMA RetiredForever ==
  ASSUME TypeOK, CallsTyped, [Next]_vars, NEW j \in Ident, Decided(j), Retired(j)
  PROVE  Retired(j)'
<1>1. j \notin orders'
  BY Writers DEF AcceptOrder, Retired, Settled
<1>2. j \notin inflight'
  BY Writers DEF CreateOrder, AcceptOrder, RefuseOrder, Retired, Settled
<1>3. ASSUME NEW q \in Proc, arg'[q] = j, pc'[q] \in Sending PROVE FALSE
  BY <1>3, SendingEntry DEF Retired, Settled, Decided, Sending
<1> QED
  BY <1>1, <1>2, <1>3 DEF Retired, Settled, Sending

-----------------------------------------------------------------------------
\* Receipts and fates.

LEMMA ReceiptUnique ==
  ASSUME ReceiptsSound, NEW i \in receipts, NEW j \in receipts, AttKey(i) = AttKey(j)
  PROVE  i = j
BY DEF ReceiptsSound, Integral

\* A fate is only ever given to a reserved attempt.
LEMMA FatedReserved ==
  ASSUME NEW i \in Ident, DispositionsSound, SendClaimed(i) \/ PreSendConsumed(i)
  PROVE  i \in receipts
BY IdentTypes DEF DispositionsSound, SendClaimed, PreSendConsumed

LEMMA DecidedReserved ==
  ASSUME NEW j \in Ident, TypeOK, ReceiptsSound, DispositionsSound, Decided(j)
  PROVE  j \in receipts /\ disposition[AttKey(j)].attempt = j
<1> DEFINE i == disposition[AttKey(j)].attempt
<1>1. i \in receipts /\ AttKey(i) = AttKey(j)
  BY IdentTypes DEF Decided, DispositionsSound
<1>2. attemptRecord[AttKey(i)] = i
  BY <1>1 DEF ReceiptsSound, Integral
<1> QED
  BY <1>1, <1>2 DEF Decided

\* The authorization of sequence number s + 1 names the decided holder of s.
LEMMA PriorOf ==
  ASSUME TypeOK, AuthorizationsSound, NEW o \in Op, NEW s \in Nat, s + 1 \in Seqs,
         authorization[<<o, s + 1>>] # Nil
  PROVE  LET j == authorization[<<o, s + 1>>].prior IN
         /\ j \in Ident /\ j.op = o /\ j.seq = s
         /\ SeqKey(j) = <<o, s>>
         /\ Decided(j)
         /\ Reconciler # "point_in_time" => Retired(j)
<1> DEFINE k == <<o, s + 1>>
           j == authorization[k].prior
<1>1. k \in Op \X Seqs
  OBVIOUS
<1>2. authorization[k] \in Authorization
  BY <1>1 DEF TypeOK
<1>3. j \in Ident
  BY <1>2 DEF Authorization
<1>4. k = <<j.op, j.seq + 1>> /\ Decided(j) /\ (Reconciler # "point_in_time" => Retired(j))
  BY <1>1 DEF AuthorizationsSound
<1>5. j.seq \in Nat
  BY <1>3, IdentTypes, ConstantsAssumption DEF Seqs
<1>6. j.op = o /\ j.seq = s
  BY <1>4, <1>5
<1> QED
  BY <1>3, <1>4, <1>6 DEF SeqKey

-----------------------------------------------------------------------------
\* Each part of the invariant is kept.

LEMMA ReceiptsStep ==
  ASSUME IInv, [Next]_vars
  PROVE  ReceiptsSound'
<1> SUFFICES ASSUME NEW i \in receipts'
             PROVE  /\ Integral(i)'
                    /\ \A s \in 1..i.seq : authorization'[<<i.op, s>>] # Nil
  BY DEF ReceiptsSound
<1> USE DEF IInv
<1>1. i \in Ident /\ Integral(i)
  <2>1. CASE i \in receipts
    BY <2>1 DEF ReceiptsSound, TypeOK
  <2>2. ASSUME NEW p \in Proc, ReserveReadback(p), i \notin receipts
        PROVE  i \in Ident /\ Integral(i)
    BY <2>2, CallTypes DEF ReserveReadback
  <2> QED
    BY <2>1, <2>2, Writers
<1>2. i.seq \in Nat /\ i.op \in Op /\ i.seq \in Seqs
  BY <1>1, IdentTypes, ConstantsAssumption DEF Seqs
<1>3. ASSUME NEW s \in 1..i.seq PROVE authorization[<<i.op, s>>] # Nil
  <2>1. authorization[<<i.op, i.seq>>] # Nil
    BY <1>1, <1>2, <1>3 DEF Integral, AuthorizedByReconciliation, SeqKey
  <2>2. PICK t \in Nat : t + 1 = i.seq
    <3> i.seq - 1 \in Nat /\ (i.seq - 1) + 1 = i.seq
      BY <1>2, <1>3
    <3> QED
      OBVIOUS
  <2> DEFINE j == authorization[<<i.op, t + 1>>].prior
  <2>3. j \in Ident /\ j.op = i.op /\ j.seq = t /\ Decided(j)
    BY <1>2, <2>1, <2>2, PriorOf
  <2>4. j \in receipts
    BY <2>3, DecidedReserved
  <2>5. s = i.seq \/ s \in 1..t
    BY <1>2, <1>3, <2>2
  <2> QED
    BY <2>1, <2>3, <2>4, <2>5 DEF ReceiptsSound
<1>4. \A s \in 1..i.seq : <<i.op, s>> \in Op \X Seqs
  BY <1>2, ConstantsAssumption DEF Seqs
<1> QED
  BY <1>1, <1>3, <1>4, StaysTrue, Monotone

LEMMA DispositionsStep ==
  ASSUME IInv, [Next]_vars
  PROVE  DispositionsSound'
<1> SUFFICES ASSUME NEW k \in Op \X Att, disposition'[k] # Nil
             PROVE  /\ disposition'[k].attempt \in receipts'
                    /\ AttKey(disposition'[k].attempt) = k
  BY DEF DispositionsSound
<1> USE DEF IInv
<1>1. CASE disposition[k] # Nil
  BY <1>1, Monotone DEF DispositionsSound
<1>2. ASSUME NEW p \in Proc, Claim(p) \/ Consume(p), disposition[k] = Nil
      PROVE  /\ disposition'[k].attempt \in receipts
             /\ AttKey(disposition'[k].attempt) = k
  <2> DEFINE i == arg[p]
  <2>1. i \in Ident /\ i \in receipts /\ (pc[p] = "consume" => note[p] \in Reason)
    BY <1>2, CallTypes DEF CallsSound, CallSound, CallsTyped, Claim, Consume, HoldsReceipt
  <2>2. AttKey(i) = k
    BY <1>2, <2>1, IdentTypes DEF Claim, Consume, SetNx, TypeOK
  <2>3. disposition'[k] = Claimed(i) \/ (pc[p] = "consume" /\ disposition'[k] = Consumed(i, note[p]))
    BY <1>2, <2>1, <2>2, IdentTypes DEF Claim, Consume, SetNx, TypeOK
  <2> QED
    BY <2>1, <2>2, <2>3, IdentTypes
<1> QED
  BY <1>1, <1>2, Writers, Monotone

LEMMA AuthorizationsStep ==
  ASSUME IInv, [Next]_vars
  PROVE  AuthorizationsSound'
<1> USE DEF IInv
<1> SUFFICES ASSUME NEW k \in Op \X Seqs, authorization'[k] # Nil,
                    NEW j, j = authorization'[k].prior
             PROVE  /\ k = <<j.op, j.seq + 1>>
                    /\ Decided(j)'
                    /\ Reconciler # "point_in_time" => Retired(j)'
  BY DEF AuthorizationsSound, Decided, Retired, Settled
<1>1. /\ j \in Ident /\ k = <<j.op, j.seq + 1>> /\ Decided(j)
      /\ Reconciler # "point_in_time" => Retired(j)
  <2>1. CASE authorization[k] # Nil
    <3>1. authorization'[k] = authorization[k] /\ authorization[k] \in Authorization
      BY <2>1, Monotone DEF TypeOK
    <3> QED
      BY <2>1, <3>1 DEF AuthorizationsSound, Authorization
  <2>2. ASSUME NEW p \in Proc, Authorize(p), authorization[k] = Nil
        PROVE  /\ j \in Ident /\ k = <<j.op, j.seq + 1>> /\ Decided(j)
               /\ Reconciler # "point_in_time" => Retired(j)
    <3>1. pc[p] = "authorize" /\ arg[p] \in Ident /\ prior[p] \in Ident
      BY <2>2 DEF Authorize, CallsTyped, Authorizing
    <3>2. SeqKey(arg[p]) = k /\ authorization'[k] = [att |-> arg[p].att, prior |-> prior[p]]
      BY <2>2, <3>1, IdentTypes DEF Authorize, SetNx, TypeOK
    <3>3. j = prior[p]
      BY <3>2
    <3> QED
      BY <3>1, <3>2, <3>3 DEF CallsSound, CallSound, Authorizing, SeqKey
  <2> QED
    BY <2>1, <2>2, Writers
<1> QED
  BY <1>1, StaysTrue, RetiredForever

LEMMA OneSenderStep ==
  ASSUME IInv, [Next]_vars
  PROVE  OneSender'
<1> USE DEF IInv
<1> SUFFICES ASSUME NEW p \in Proc, NEW q \in Proc, p # q, arg'[p] = arg'[q],
                    pc'[p] = "createOrder", pc'[q] = "createOrder"
             PROVE  FALSE
  BY DEF OneSender
<1>1. arg[p] = arg[q] /\ (Stays(p) \/ Claim(p)) /\ (Stays(q) \/ Claim(q))
  BY SendingEntry DEF Sending
<1>2. ASSUME NEW x \in Proc, NEW y \in Proc, Claim(x), x # y, arg[x] = arg[y],
             pc'[x] = "createOrder", pc'[y] = "createOrder"
      PROVE  FALSE
  <2>1. disposition[AttKey(arg[x])] = Nil
    BY <1>2 DEF Claim, AcquireOrReturn, Goto, Return, TypeOK
  <2>2. pc[y] = "createOrder"
    BY <1>2 DEF Claim, AcquireOrReturn, Goto, Return, TypeOK
  <2>3. SendClaimed(arg[y]) /\ arg[y] \in Ident
    BY <2>2 DEF CallsSound, CallSound, Sending, CallsTyped
  <2> QED
    BY <1>2, <2>1, <2>3, IdentTypes DEF SendClaimed
<1> QED
  BY <1>1, <1>2 DEF OneSender, Stays

LEMMA SendsStep ==
  ASSUME IInv, [Next]_vars
  PROVE  SendsSound'
<1> USE DEF IInv
<1> SUFFICES ASSUME NEW i \in Ident
             PROVE  /\ sends'[i] <= 1
                    /\ sends'[i] > 0 => SendClaimed(i)'
                    /\ i \in inflight' \union orders' => sends'[i] > 0
  BY DEF SendsSound
<1>1. /\ sends[i] <= 1 /\ sends[i] \in Nat
      /\ sends[i] > 0 => SendClaimed(i)
      /\ i \in inflight \union orders => sends[i] > 0
  BY DEF SendsSound, TypeOK
<1>2. SendClaimed(i) => SendClaimed(i)'
  BY StaysTrue
<1>3. ASSUME NEW p \in Proc, CreateOrder(p)
      PROVE  \/ /\ arg[p] = i /\ sends[i] = 0 /\ sends'[i] = 1 /\ SendClaimed(i)
             \/ /\ arg[p] # i /\ sends'[i] = sends[i]
                /\ inflight' = inflight \union {arg[p]} /\ orders' = orders
  BY <1>1, <1>3, CallTypes
  DEF CreateOrder, CallsSound, CallSound, Sending, TypeOK
<1>4. CASE sends' = sends
  <2>1. inflight' \subseteq inflight \/ \E p \in Proc : CreateOrder(p)
    BY Writers DEF AcceptOrder, RefuseOrder
  <2>2. orders' = orders \/ \E x \in inflight : orders' = orders \union {x}
    BY Writers DEF AcceptOrder
  <2> QED
    BY <1>1, <1>2, <1>3, <1>4, <2>1, <2>2
<1> QED
  BY <1>1, <1>2, <1>3, <1>4, Writers

LEMMA OutcomesStep ==
  ASSUME IInv, [Next]_vars
  PROVE  OutcomesSound'
<1> USE DEF IInv
<1> DEFINE Sound(k, d, found, made) ==
      /\ d # Nil
      /\ IF d.kind = "SEND_CLAIMED"
           THEN PreSend \notin found /\ (Acknowledged \in found => d.attempt \in made)
           ELSE found = {PreSend}
<1> SUFFICES ASSUME NEW k \in Op \X Att, outcomes'[k] # {}
             PROVE  Sound(k, disposition'[k], outcomes'[k], orders')
  BY DEF OutcomesSound
<1>1. outcomes[k] # {} => Sound(k, disposition[k], outcomes[k], orders)
  BY DEF OutcomesSound
<1>2. disposition[k] # Nil => disposition'[k] = disposition[k]
  BY Monotone
<1>3. orders \subseteq orders'
  BY Monotone
<1>4. CASE outcomes'[k] = outcomes[k]
  BY <1>1, <1>2, <1>3, <1>4
<1>5. ASSUME NEW i \in Ident, NEW n \in OutcomeState, AttKey(i) = k, SendClaimed(i),
             n # PreSend, n = Acknowledged => i \in orders,
             outcomes'[k] = outcomes[k] \union {n}
      PROVE  Sound(k, disposition'[k], outcomes'[k], orders')
  <2>1. disposition[k] = Claimed(i) /\ disposition[k] # Nil
        /\ disposition[k].kind = "SEND_CLAIMED" /\ disposition[k].attempt = i
    BY <1>5, IdentTypes DEF SendClaimed
  <2>2. PreSend \notin outcomes'[k]
    BY <1>1, <1>5, <2>1
  <2>3. Acknowledged \in outcomes'[k] => i \in orders
    BY <1>1, <1>5, <2>1
  <2> QED
    BY <1>2, <1>3, <2>1, <2>2, <2>3
<1>6. ASSUME NEW p \in Proc, RecordOutcome(p), outcomes'[k] # outcomes[k]
      PROVE  Sound(k, disposition'[k], outcomes'[k], orders')
  <2>1. arg[p] \in Ident /\ SendClaimed(arg[p]) /\ note[p] \in {Acknowledged, Unknown}
        /\ (note[p] = Acknowledged => arg[p] \in orders)
    BY <1>6 DEF RecordOutcome, CallsTyped, CallsSound, CallSound
  <2>2. AttKey(arg[p]) = k /\ outcomes'[k] = outcomes[k] \union {note[p]}
    BY <1>6, <2>1, IdentTypes DEF RecordOutcome, TypeOK
  <2>3. note[p] \in OutcomeState /\ note[p] # PreSend
    BY <2>1 DEF OutcomeState, Acknowledged, Unknown, PreSend
  <2> HIDE DEF Sound
  <2> QED
    BY <1>5, <2>1, <2>2, <2>3
<1>7. ASSUME NEW i \in Ident, RecordTerminal(i), outcomes'[k] # outcomes[k]
      PROVE  Sound(k, disposition'[k], outcomes'[k], orders')
  <2>1. AttKey(i) = k /\ outcomes'[k] = outcomes[k] \union {Terminal} /\ SendClaimed(i)
    BY <1>7, IdentTypes DEF RecordTerminal, TypeOK
  <2>2. Terminal \in OutcomeState /\ Terminal # PreSend /\ Terminal # Acknowledged
    BY DEF OutcomeState, Terminal, PreSend, Acknowledged
  <2> HIDE DEF Sound
  <2> QED
    BY <1>5, <2>1, <2>2
<1>8. ASSUME NEW p \in Proc, RecordConsumed(p), outcomes'[k] # outcomes[k]
      PROVE  Sound(k, disposition'[k], outcomes'[k], orders')
  <2>1. arg[p] \in Ident /\ PreSendConsumed(arg[p])
    BY <1>8 DEF RecordConsumed, CallsTyped, CallsSound, CallSound
  <2>2. AttKey(arg[p]) = k /\ outcomes'[k] = outcomes[k] \union {PreSend}
    BY <1>8, <2>1, IdentTypes DEF RecordConsumed, TypeOK
  <2>3. disposition[k] # Nil /\ disposition[k].kind = "PRE_SEND_CONSUMED"
    BY <2>1, <2>2, IdentTypes DEF PreSendConsumed
  <2>4. disposition[k].kind # "SEND_CLAIMED"
    BY <2>3
  <2> QED
    BY <1>1, <1>2, <2>2, <2>3, <2>4
<1> HIDE DEF Sound
<1> QED
  BY <1>4, <1>6, <1>7, <1>8, Writers

\* A call that does not move keeps what it knows.
LEMMA CallStays ==
  ASSUME IInv, [Next]_vars, NEW q \in Proc, Stays(q)
  PROVE  CallSound(q)'
<1> USE DEF IInv
<1>1. CallSound(q) /\ pc'[q] = pc[q] /\ arg'[q] = arg[q] /\ prior'[q] = prior[q]
      /\ note'[q] = note[q]
  BY DEF CallsSound, Stays
<1>2. (pc[q] # "idle" => arg[q] \in Ident) /\ (pc[q] \in Authorizing => prior[q] \in Ident)
  BY DEF CallsTyped
<1>3. /\ pc'[q] \in HoldsReceipt => arg'[q] \in receipts'
      /\ pc'[q] = "recordOutcome" /\ note'[q] = Acknowledged => arg'[q] \in orders'
      /\ pc'[q] = "reconcile" => Reconciler # "absent"
  BY <1>1, Monotone DEF CallSound
<1>4. pc'[q] \in Sending \union {"recordOutcome"} => SendClaimed(arg[q])'
  BY <1>1, <1>2, StaysTrue DEF CallSound, Sending
<1>5. pc'[q] = "recordConsumed" => PreSendConsumed(arg[q])'
  BY <1>1, <1>2, StaysTrue DEF CallSound
<1>6. pc'[q] = "createOrder" => sends'[arg[q]] = 0
  <2>1. ASSUME NEW p \in Proc, CreateOrder(p), pc[q] = "createOrder"
        PROVE  arg[p] # arg[q]
    <3>1. p # q
      BY <1>1, <2>1 DEF CreateOrder, Goto, TypeOK
    <3> QED
      BY <2>1, <3>1 DEF OneSender, CreateOrder
  <2>2. ASSUME NEW p \in Proc, CreateOrder(p), pc[q] = "createOrder"
        PROVE  sends'[arg[q]] = sends[arg[q]]
    BY <1>2, <2>1, <2>2 DEF CreateOrder, TypeOK
  <2> QED
    BY <1>1, <2>2, Writers DEF CallSound
<1>7. pc'[q] \in Authorizing =>
        /\ arg'[q].op = prior'[q].op /\ arg'[q].seq = prior'[q].seq + 1
        /\ Decided(prior[q])'
  BY <1>1, <1>2, StaysTrue DEF CallSound
<1>8. pc'[q] = "authorize" /\ Reconciler # "point_in_time" => Retired(prior[q])'
  BY <1>1, <1>2, RetiredForever DEF CallSound, Authorizing
<1> QED
  BY <1>1, <1>3, <1>4, <1>5, <1>6, <1>7, <1>8 DEF CallSound

\* A settled fate is the only basis for a retry.
LEMMA ConsumedRetired ==
  ASSUME IInv, NEW j \in Ident, PreSendConsumed(j)
  PROVE  Retired(j)
<1> USE DEF IInv
<1>1. ~ SendClaimed(j)
  BY OneFate
<1>2. j \notin inflight \union orders
  BY <1>1 DEF SendsSound
<1>3. ASSUME NEW p \in Proc, arg[p] = j, pc[p] \in Sending PROVE FALSE
  BY <1>1, <1>3 DEF CallsSound, CallSound
<1> QED
  BY <1>2, <1>3 DEF Retired, Settled, Sending

LEMMA CallMoves ==
  ASSUME IInv, [Next]_vars, NEW q \in Proc, Step(q)
  PROVE  CallSound(q)'
<1> USE DEF IInv
<1> DEFINE i == arg[q]
<1>0. CallSound(q) /\ (pc[q] # "idle" => i \in Ident)
      /\ (pc[q] \in Authorizing => prior[q] \in Ident)
      /\ (pc[q] = "consume" => note[q] \in Reason)
  BY DEF CallsSound, CallsTyped
<1>1. ASSUME pc'[q] \in {"idle", "reserveSequence", "reserveId", "reserveAttempt",
                         "reserveOperation", "reserveReadback"}
      PROVE  CallSound(q)'
  BY <1>1 DEF CallSound, HoldsReceipt, Sending, Authorizing
<1>2. ASSUME pc'[q] \in {"verified", "claim", "consume"}, arg'[q] \in receipts
      PROVE  CallSound(q)'
  BY <1>2, Monotone DEF CallSound, HoldsReceipt, Sending, Authorizing
<1>3. CASE Reserve(q)
  <2>1. pc'[q] \in {"idle", "reserveSequence", "reserveId", "reserveAttempt",
                    "reserveOperation", "reserveReadback"}
    BY <1>3 DEF Reserve, BeginReserve, ReserveSequence, ReserveId, ReserveAttempt,
       ReserveOperation, ReserveReadback, Start, AcquireOrReturn, Goto, Return, TypeOK
  <2> QED
    BY <1>1, <2>1
<1>4. CASE \E x \in Ident : BeginSend(q, x)
  BY <1>2, <1>4 DEF BeginSend, Verified, Start, TypeOK
<1>5. CASE RejectContext(q) \/ VerifyForClaim(q)
  BY <1>0, <1>2, <1>5 DEF RejectContext, VerifyForClaim, Goto, TypeOK, CallSound, HoldsReceipt
<1>6. CASE Claim(q)
  <2>1. CASE pc'[q] = "idle"
    BY <1>1, <2>1
  <2>2. CASE disposition[AttKey(i)] = Nil /\ Goto(q, "createOrder")
    <3>1. i \in Ident /\ i \in receipts /\ arg' = arg /\ pc'[q] = "createOrder"
      BY <1>0, <1>6, <2>2 DEF Claim, CallSound, HoldsReceipt, Goto, TypeOK
    <3>2. SendClaimed(i)'
      BY <1>6, <2>2, <3>1, IdentTypes DEF Claim, SendClaimed, SetNx, TypeOK
    <3>3. ~ SendClaimed(i)
      BY <2>2, <3>1, IdentTypes DEF SendClaimed
    <3>4. sends'[i] = 0
      BY <1>6, <3>1, <3>3 DEF SendsSound, TypeOK, Claim, exchange
    <3>5. i \in receipts'
      BY <3>1, Monotone
    <3> QED
      BY <3>1, <3>2, <3>4, <3>5 DEF CallSound, HoldsReceipt, Sending, Authorizing
  <2> QED
    BY <1>6, <2>1, <2>2 DEF Claim, AcquireOrReturn, Return, TypeOK
<1>7. CASE CreateOrder(q) \/ OrderReturned(q) \/ OrderRaised(q)
  <2>1. /\ i \in Ident /\ arg'[q] = i /\ pc'[q] \in {"awaitOrder", "recordOutcome"}
        /\ (pc'[q] = "recordOutcome" /\ note'[q] = Acknowledged => i \in orders)
    BY <1>0, <1>7
    DEF CreateOrder, OrderReturned, OrderRaised, Goto, TypeOK, Acknowledged, Unknown
  <2>2. i \in receipts' /\ i \in receipts /\ SendClaimed(i)
    BY <1>0, <1>7, Monotone
    DEF CreateOrder, OrderReturned, OrderRaised, CallSound, HoldsReceipt, Sending
  <2>3. SendClaimed(i)'
    BY <2>1, <2>2, StaysTrue
  <2> QED
    BY <2>1, <2>2, <2>3, Monotone DEF CallSound, HoldsReceipt, Sending, Authorizing
<1>8. CASE RecordOutcome(q) \/ RecordConsumed(q) \/ Authorize(q) \/ Quit(q)
  BY <1>1, <1>8 DEF RecordOutcome, RecordConsumed, Authorize, Quit, Return, TypeOK
<1>9. CASE \E x \in Ident, r \in Reason : BeginConsume(q, x, r)
  BY <1>2, <1>9 DEF BeginConsume, Consumable, Start, TypeOK
<1>10. CASE Consume(q)
  <2>1. CASE pc'[q] = "idle"
    BY <1>1, <2>1
  <2>2. CASE disposition'[AttKey(i)] = Consumed(i, note[q]) /\ Goto(q, "recordConsumed")
    <3>1. i \in Ident /\ i \in receipts /\ note[q] \in Reason /\ arg' = arg
          /\ pc'[q] = "recordConsumed"
      BY <1>0, <1>10, <2>2 DEF Consume, CallSound, HoldsReceipt, Goto, TypeOK
    <3>2. PreSendConsumed(i)'
      BY <2>2, <3>1 DEF PreSendConsumed
    <3>3. i \in receipts'
      BY <3>1, Monotone
    <3> QED
      BY <3>1, <3>2, <3>3 DEF CallSound, HoldsReceipt, Sending, Authorizing
  <2> QED
    BY <1>10, <2>1, <2>2 DEF Consume, Return, TypeOK
<1>11. ASSUME NEW j \in Ident, NEW x \in Ident, BeginAuthorize(q, j, x)
       PROVE  CallSound(q)'
  <2>1. /\ arg'[q] = x /\ prior'[q] = j /\ x.op = j.op /\ x.seq = j.seq + 1
        /\ \/ PreSendConsumed(j) /\ pc'[q] = "authorize"
           \/ SendClaimed(j) /\ pc'[q] = "reconcile" /\ Reconciler # "absent"
    BY <1>11 DEF BeginAuthorize, Start, TypeOK
  <2>2. disposition[AttKey(j)] # Nil
    BY <2>1, IdentTypes DEF PreSendConsumed, SendClaimed
  <2>3. Decided(j)
    BY <1>11, <2>2 DEF BeginAuthorize, Decided
  <2>4. PreSendConsumed(j) => Retired(j)
    BY ConsumedRetired
  <2>5. Decided(j)' /\ (Retired(j) => Retired(j)')
    BY <2>3, StaysTrue, RetiredForever
  <2> QED
    BY <2>1, <2>4, <2>5
    DEF CallSound, HoldsReceipt, Sending, Authorizing, Decided, Retired, Settled
<1>12. CASE Reconcile(q)
  <2>1. /\ prior[q] \in Ident /\ prior' = prior /\ arg' = arg /\ pc'[q] = "authorize"
        /\ Decided(prior[q]) /\ i.op = prior[q].op /\ i.seq = prior[q].seq + 1
        /\ Reconciler # "absent" /\ NotCreated(prior[q])
    BY <1>0, <1>12 DEF Reconcile, Goto, CallSound, Authorizing, TypeOK
  <2>2. Reconciler # "point_in_time" => Retired(prior[q])
    BY <2>1, ConstantsAssumption DEF NotCreated, Retired, ReconcilerModes
  <2>3. Decided(prior[q])' /\ (Reconciler # "point_in_time" => Retired(prior[q])')
    BY <2>1, <2>2, StaysTrue, RetiredForever
  <2> QED
    BY <2>1, <2>3 DEF CallSound, HoldsReceipt, Sending, Authorizing
<1> QED
  BY <1>3, <1>4, <1>5, <1>6, <1>7, <1>8, <1>9, <1>10, <1>11, <1>12
  DEF Step, Send, ConsumePreSend, AuthorizeNext

LEMMA CallsStep ==
  ASSUME IInv, [Next]_vars
  PROVE  CallsSound'
BY CallStays, CallMoves, Mover DEF CallsSound, IInv

-----------------------------------------------------------------------------
\* The theorems.

LEMMA InitInvariant == Init => IInv
<1> SUFFICES ASSUME Init PROVE IInv
  OBVIOUS
<1>1. TypeOK /\ CallsTyped
  BY InitTyped
<1>2. ReceiptsSound /\ OneSender /\ DispositionsSound /\ AuthorizationsSound /\ OutcomesSound
  BY DEF Init, ReceiptsSound, OneSender, DispositionsSound, AuthorizationsSound, OutcomesSound
<1>3. CallsSound
  BY DEF Init, CallsSound, CallSound, HoldsReceipt, Sending, Authorizing
<1>4. SendsSound
  BY DEF Init, SendsSound
<1> QED
  BY <1>1, <1>2, <1>3, <1>4 DEF IInv

LEMMA NextInvariant == IInv /\ [Next]_vars => IInv'
<1> SUFFICES ASSUME IInv, [Next]_vars PROVE IInv'
  OBVIOUS
<1>1. TypeOK' /\ CallsTyped'
  BY NextTyped DEF IInv
<1> QED
  BY <1>1, ReceiptsStep, DispositionsStep, AuthorizationsStep, CallsStep, OneSenderStep,
     SendsStep, OutcomesStep DEF IInv

\* The strengthened invariant of the authority holds in every reachable state.
THEOREM InvariantHolds == Spec => []IInv
BY InitInvariant, NextInvariant, PTL DEF Spec

\* No receipt, replayed or not, sends an attempt twice
\* (claim_account_client_order_send_authorization).
THEOREM SendOnce == Spec => []AtMostOneSend
<1>1. IInv => AtMostOneSend
  BY DEF IInv, SendsSound, AtMostOneSend
<1> QED
  BY <1>1, InvariantHolds, PTL

LEMMA SentReserved ==
  ASSUME IInv, NEW i \in Ident, sends[i] > 0 \/ i \in orders
  PROVE  SendClaimed(i) /\ i \in receipts /\ Integral(i)
BY FatedReserved DEF IInv, SendsSound, ReceiptsSound

\* Whatever identity hashes collide, the two attempts are not both sent
\* (the lifetime ledger of reserve_account_client_order_attempt).
THEOREM ClientOrderIdsUnshared == Spec => []NoSharedClientOrderId
<1>1. IInv => NoSharedClientOrderId
  BY SentReserved DEF NoSharedClientOrderId, Integral
<1> QED
  BY <1>1, InvariantHolds, PTL

\* Before a retry is sent, every attempt before it holds its place and has
\* its fate on record (authorize_account_client_order_next_attempt).
THEOREM RetriesFollowHistory == Spec => []RetryHistoryComplete
<1>1. ASSUME IInv PROVE RetryHistoryComplete
  <2> SUFFICES ASSUME NEW i \in Ident, sends[i] > 0, NEW s \in 0..(i.seq - 1)
               PROVE  LET j == sequenceSlot[<<i.op, s>>] IN
                      j # Nil /\ idLedger[CoidOf[j]] = j /\ disposition[AttKey(j)] # Nil
    BY DEF RetryHistoryComplete
  <2>1. i.op \in Op /\ i.seq \in Nat /\ i.seq \in Seqs
    BY IdentTypes, ConstantsAssumption DEF Seqs
  <2>2. s \in Nat /\ s + 1 \in 1..i.seq /\ s + 1 \in Seqs
    BY <2>1, ConstantsAssumption DEF Seqs
  <2>3. i \in receipts
    BY <1>1, SentReserved
  <2>4. authorization[<<i.op, s + 1>>] # Nil
    BY <1>1, <2>2, <2>3 DEF IInv, ReceiptsSound
  <2> DEFINE j == authorization[<<i.op, s + 1>>].prior
  <2>5. j \in Ident /\ SeqKey(j) = <<i.op, s>> /\ Decided(j)
    BY <1>1, <2>1, <2>2, <2>4, PriorOf DEF IInv
  <2> QED
    BY <2>5, IdentTypes DEF Decided
<1> QED
  BY <1>1, InvariantHolds, PTL

\* An attempt with a reserved retry can no longer become an order.
LEMMA EarlierRetired ==
  ASSUME IInv, Reconciler # "point_in_time", NEW i \in receipts, NEW j \in receipts,
         i.op = j.op, i.seq < j.seq
  PROVE  Retired(i)
<1>1. i \in Ident /\ j \in Ident /\ Integral(i)
  BY DEF IInv, TypeOK, ReceiptsSound
<1>2. i.op \in Op /\ i.seq \in Nat /\ j.seq \in Nat /\ j.seq \in Seqs
  BY <1>1, IdentTypes, ConstantsAssumption DEF Seqs
<1>3. i.seq + 1 \in 1..j.seq /\ i.seq + 1 \in Seqs
  BY <1>2, ConstantsAssumption DEF Seqs
<1>4. authorization[<<i.op, i.seq + 1>>] # Nil
  BY <1>3 DEF IInv, ReceiptsSound
<1> DEFINE b == authorization[<<i.op, i.seq + 1>>].prior
<1>5. b \in Ident /\ SeqKey(b) = <<i.op, i.seq>> /\ Decided(b) /\ Retired(b)
  BY <1>2, <1>3, <1>4, PriorOf DEF IInv
<1>6. b = i
  BY <1>1, <1>5 DEF Decided, Integral, SeqKey
<1> QED
  BY <1>5, <1>6

\* A logical order is never two orders at the exchange, provided that no
\* reconciler answers NOT_CREATED for a send that can still create one.
THEOREM OrderOnce ==
  ASSUME Reconciler # "point_in_time"
  PROVE  Spec => []OneOrderPerOperation
<1>1. ASSUME IInv, NEW i \in orders, NEW j \in orders, i.op = j.op, i.seq < j.seq
      PROVE  FALSE
  <2>1. i \in receipts /\ j \in receipts
    BY <1>1, SentReserved DEF IInv, TypeOK
  <2> QED
    BY <1>1, <2>1, EarlierRetired DEF Retired
<1>2. ASSUME IInv PROVE OneOrderPerOperation
  <2> SUFFICES ASSUME NEW i \in orders, NEW j \in orders, i.op = j.op
               PROVE  i = j
    BY DEF OneOrderPerOperation
  <2>1. i \in Ident /\ j \in Ident
    BY <1>2 DEF IInv, TypeOK
  <2>2. i.seq \in Nat /\ j.seq \in Nat
    BY <2>1, IdentTypes, ConstantsAssumption DEF Seqs
  <2>3. i.seq = j.seq
    BY <1>1, <1>2, <2>2
  <2>4. Integral(i) /\ Integral(j)
    BY <1>2, <2>1, SentReserved
  <2> QED
    BY <2>3, <2>4 DEF Integral, SeqKey
<1> QED
  BY <1>2, InvariantHolds, PTL

\* Outcome records never contradict the exchange
\* (record_account_client_order_attempt_outcome).
THEOREM OutcomesTellTheTruth == Spec => []OutcomesFactual
<1>1. ASSUME IInv PROVE OutcomesFactual
  <2> SUFFICES ASSUME NEW i \in receipts
               PROVE  /\ Acknowledged \in outcomes[AttKey(i)] => i \in orders
                      /\ PreSend \in outcomes[AttKey(i)] =>
                           sends[i] = 0 /\ i \notin inflight \union orders
    BY DEF OutcomesFactual
  <2> DEFINE d == disposition[AttKey(i)]
  <2>1. i \in Ident /\ AttKey(i) \in Op \X Att
    BY <1>1, IdentTypes DEF IInv, TypeOK
  <2>2. d # Nil => d.attempt = i
    BY <1>1, <2>1, ReceiptUnique DEF IInv, DispositionsSound
  <2>3. Acknowledged \in outcomes[AttKey(i)] => i \in orders
    BY <1>1, <2>1, <2>2 DEF IInv, OutcomesSound, Acknowledged, PreSend
  <2>4. ASSUME PreSend \in outcomes[AttKey(i)]
        PROVE  sends[i] = 0 /\ i \notin inflight \union orders
    <3>1. d.kind # "SEND_CLAIMED"
      BY <1>1, <2>1, <2>4 DEF IInv, OutcomesSound
    <3>2. ~ SendClaimed(i)
      BY <2>1, <3>1, IdentTypes DEF SendClaimed
    <3> QED
      BY <1>1, <2>1, <3>2 DEF IInv, SendsSound, TypeOK
  <2> QED
    BY <2>3, <2>4
<1> QED
  BY <1>1, InvariantHolds, PTL

\* A reconciled NOT_CREATED is final under the same proviso.
THEOREM NotCreatedStays ==
  ASSUME Reconciler # "point_in_time"
  PROVE  Spec => NotCreatedIsFinal
<1> DEFINE Final == \A k \in DOMAIN authorization : authorization[k] # Nil =>
                      (authorization[k].prior \in orders' => authorization[k].prior \in orders)
<1>1. ASSUME IInv, [Next]_vars PROVE Final
  <2> SUFFICES ASSUME NEW k \in Op \X Seqs, authorization[k] # Nil
               PROVE  authorization[k].prior \notin orders'
    BY <1>1 DEF IInv, TypeOK
  <2> DEFINE j == authorization[k].prior
  <2>1. Retired(j)
    BY <1>1 DEF IInv, AuthorizationsSound
  <2> QED
    BY <1>1, <2>1, Writers DEF Retired, Settled, AcceptOrder
<1>2. IInv /\ [Next]_vars => [Final]_vars
  BY <1>1
<1> QED
  BY <1>2, InvariantHolds, PTL DEF Spec, NotCreatedIsFinal

-----------------------------------------------------------------------------
\* The refinement.

LEMMA SameIdent == Attempts!Ident = Ident
BY DEF Attempts!Ident, Ident, Seqs

\* A free slot that is taken gives its attempt, and no other, a fate.
LEMMA FateStep ==
  ASSUME TypeOK, CallsTyped, [Next]_vars, NEW i \in Ident, disposition[AttKey(i)] = Nil,
         NEW d, d = Claimed(i) \/ \E r \in Reason : d = Consumed(i, r),
         disposition' = [disposition EXCEPT ![AttKey(i)] = d]
  PROVE  /\ fateBar[i] = "open"
         /\ fateBar' = [fateBar EXCEPT ![i] = IF d = Claimed(i) THEN "claimed" ELSE "consumed"]
<1>1. ASSUME NEW x \in Ident, x # i
      PROVE  (SendClaimed(x)' <=> SendClaimed(x)) /\ (PreSendConsumed(x)' <=> PreSendConsumed(x))
  <2>1. CASE AttKey(x) = AttKey(i)
    <3>1. disposition'[AttKey(x)].attempt = i /\ disposition[AttKey(x)] = Nil
      BY <2>1, IdentTypes DEF TypeOK
    <3> QED
      BY <1>1, <3>1, IdentTypes DEF SendClaimed, PreSendConsumed
  <2>2. CASE AttKey(x) # AttKey(i)
    BY <2>2, IdentTypes DEF TypeOK, SendClaimed, PreSendConsumed
  <2> QED
    BY <2>1, <2>2
<1>2. ~ SendClaimed(i) /\ ~ PreSendConsumed(i)
  BY IdentTypes DEF SendClaimed, PreSendConsumed
<1>3. disposition'[AttKey(i)] = d
  BY IdentTypes DEF TypeOK
<1>4. SendClaimed(i)' <=> d = Claimed(i)
  BY <1>3 DEF SendClaimed
<1>5. d # Claimed(i) => PreSendConsumed(i)'
  BY <1>3 DEF PreSendConsumed
<1> QED
  BY <1>1, <1>2, <1>4, <1>5 DEF fateBar

LEMMA FateKept ==
  ASSUME disposition' = disposition
  PROVE  fateBar' = fateBar
BY DEF fateBar, SendClaimed, PreSendConsumed

\* A receipt is new only if its place, its id and its clientOrderID are.
LEMMA ReserveStep ==
  ASSUME IInv, [Next]_vars, NEW p \in Proc, ReserveReadback(p)
  PROVE  Attempts!Reserve(arg[p]) \/ UNCHANGED <<receipts, fateBar, sends, orders>>
<1> USE DEF IInv
<1> DEFINE i == arg[p]
<1>1. i \in Ident /\ Integral(i) /\ receipts' = receipts \union {i}
      /\ UNCHANGED <<disposition, sends, orders>>
  BY CallTypes DEF ReserveReadback, ledger, exchange
<1>2. CASE i \in receipts
  BY <1>1, <1>2, FateKept
<1>3. CASE i \notin receipts
  <2>1. \A j \in receipts : /\ <<j.op, j.seq>> # <<i.op, i.seq>>
                            /\ <<j.op, j.att>> # <<i.op, i.att>>
                            /\ CoidOf[j] # CoidOf[i]
    <3> SUFFICES ASSUME NEW j \in receipts
                 PROVE  /\ <<j.op, j.seq>> # <<i.op, i.seq>>
                        /\ <<j.op, j.att>> # <<i.op, i.att>>
                        /\ CoidOf[j] # CoidOf[i]
      OBVIOUS
    <3>1. Integral(j) /\ j # i
      BY <1>3 DEF ReceiptsSound
    <3>2. CoidOf[j] # CoidOf[i] /\ SeqKey(j) # SeqKey(i) /\ AttKey(j) # AttKey(i)
      BY <1>1, <3>1 DEF Integral
    <3> QED
      BY <3>2 DEF SeqKey, AttKey
  <2>2. ASSUME i.seq > 0
        PROVE  \E j \in receipts : j.op = i.op /\ j.seq + 1 = i.seq /\ fateBar[j] # "open"
    <3>1. i.op \in Op /\ i.seq \in Nat /\ i.seq \in Seqs
      BY <1>1, IdentTypes, ConstantsAssumption DEF Seqs
    <3>2. authorization[<<i.op, i.seq>>] # Nil
      BY <1>1, <2>2, <3>1 DEF Integral, AuthorizedByReconciliation, SeqKey
    <3>3. PICK s \in Nat : s + 1 = i.seq
      <4> i.seq - 1 \in Nat /\ (i.seq - 1) + 1 = i.seq
        BY <2>2, <3>1
      <4> QED
        OBVIOUS
    <3> DEFINE j == authorization[<<i.op, s + 1>>].prior
    <3>4. j \in Ident /\ j.op = i.op /\ j.seq = s /\ Decided(j)
      BY <3>1, <3>2, <3>3, PriorOf
    <3>5. j \in receipts /\ disposition[AttKey(j)].attempt = j
      BY <3>4, DecidedReserved
    <3>6. disposition[AttKey(j)] \in Disposition
      BY <3>4, IdentTypes DEF Decided, TypeOK
    <3>7. SendClaimed(j) \/ PreSendConsumed(j)
      BY <3>5, <3>6, DispositionCases, IdentTypes DEF SendClaimed, PreSendConsumed
    <3> QED
      BY <3>3, <3>4, <3>5, <3>7 DEF fateBar
  <2> QED
    BY <1>1, <1>3, <2>1, <2>2, FateKept DEF Attempts!Reserve
<1> QED
  BY <1>2, <1>3

LEMMA DecideStep ==
  ASSUME IInv, [Next]_vars, NEW p \in Proc, Claim(p) \/ Consume(p)
  PROVE  \/ \E i \in Ident : Attempts!Decide(i, "claimed") \/ Attempts!Decide(i, "consumed")
         \/ UNCHANGED <<receipts, fateBar, sends, orders>>
<1> USE DEF IInv
<1> DEFINE i == arg[p]
           d == IF pc[p] = "claim" THEN Claimed(i) ELSE Consumed(i, note[p])
<1>1. i \in Ident /\ i \in receipts /\ (pc[p] = "consume" => note[p] \in Reason)
      /\ UNCHANGED <<receipts, sends, orders>>
  BY CallTypes DEF Claim, Consume, CallsSound, CallSound, CallsTyped, HoldsReceipt, exchange
<1>2. disposition' = SetNx(disposition, AttKey(i), d)
  BY DEF Claim, Consume
<1>3. d = Claimed(i) \/ \E r \in Reason : d = Consumed(i, r)
  BY <1>1 DEF Claim, Consume
<1> HIDE DEF d
<1>4. CASE disposition[AttKey(i)] # Nil
  BY <1>1, <1>2, <1>4, FateKept DEF SetNx, TypeOK
<1>5. CASE disposition[AttKey(i)] = Nil
  <2>1. disposition' = [disposition EXCEPT ![AttKey(i)] = d]
    BY <1>2, <1>5 DEF SetNx
  <2>2. /\ fateBar[i] = "open"
        /\ fateBar' = [fateBar EXCEPT ![i] = IF d = Claimed(i) THEN "claimed" ELSE "consumed"]
    BY <1>1, <1>3, <1>5, <2>1, FateStep
  <2> QED
    BY <1>1, <2>2 DEF Attempts!Decide
<1> QED
  BY <1>4, <1>5

LEMMA SendStep ==
  ASSUME IInv, [Next]_vars, NEW p \in Proc, CreateOrder(p)
  PROVE  arg[p] \in Ident /\ Attempts!Send(arg[p])
<1> USE DEF IInv
<1>1. arg[p] \in Ident /\ SendClaimed(arg[p]) /\ sends[arg[p]] = 0
  BY CallTypes DEF CreateOrder, CallsSound, CallSound, Sending
<1>2. fateBar[arg[p]] = "claimed"
  BY <1>1 DEF fateBar
<1>3. sends' = [sends EXCEPT ![arg[p]] = 1]
  BY <1>1 DEF CreateOrder
<1>4. UNCHANGED <<receipts, disposition, orders>>
  BY DEF CreateOrder, ledger
<1> QED
  BY <1>1, <1>2, <1>3, <1>4, FateKept DEF Attempts!Send

LEMMA CreateStep ==
  ASSUME IInv, [Next]_vars, Reconciler # "point_in_time", NEW i \in Ident, AcceptOrder(i)
  PROVE  Attempts!Create(i)
<1> USE DEF IInv
<1>1. i \in inflight /\ (\A j \in orders : CoidOf[j] # CoidOf[i])
      /\ UNCHANGED <<disposition, receipts, sends>> /\ orders' = orders \union {i}
  BY DEF AcceptOrder, ledger
<1>2. sends[i] = 1
  BY <1>1 DEF SendsSound, TypeOK
<1>3. i \in receipts /\ Integral(i)
  BY <1>2, SentReserved
<1>4. ASSUME NEW j \in orders, j.op = i.op PROVE FALSE
  <2>1. j \in Ident /\ j \in receipts /\ Integral(j) /\ j # i
    BY <1>1, <1>4, SentReserved DEF TypeOK
  <2>2. i.seq \in Nat /\ j.seq \in Nat
    BY <2>1, IdentTypes, ConstantsAssumption DEF Seqs
  <2>3. i.seq # j.seq
    BY <1>3, <1>4, <2>1 DEF Integral, SeqKey
  <2>4. CASE i.seq < j.seq
    BY <1>1, <1>3, <1>4, <2>1, <2>4, EarlierRetired DEF Retired, Settled
  <2>5. CASE j.seq < i.seq
    BY <1>3, <1>4, <2>1, <2>5, EarlierRetired DEF Retired
  <2> QED
    BY <2>2, <2>3, <2>4, <2>5
<1> QED
  BY <1>1, <1>2, <1>4, FateKept DEF Attempts!Create

\* The authority and the create_order boundary keep the promise of
\* OrderAttempts, provided that no reconciler answers NOT_CREATED for a send
\* that can still create an order.
THEOREM ImplementsAttempts ==
  ASSUME Reconciler # "point_in_time"
  PROVE  Spec => AttemptsSpec
<1>1. Init => Attempts!Init
  <2> SUFFICES ASSUME Init PROVE Attempts!Init
    OBVIOUS
  <2>1. \A i \in Ident : ~ SendClaimed(i) /\ ~ PreSendConsumed(i)
    BY IdentTypes DEF Init, SendClaimed, PreSendConsumed
  <2> QED
    BY <2>1, SameIdent DEF Init, Attempts!Init, fateBar
<1>2. ASSUME IInv, [Next]_vars PROVE [Attempts!Next]_(Attempts!vars)
  <2> DEFINE Mapped == UNCHANGED <<receipts, fateBar, sends, orders>>
  <2>1. ASSUME NEW p \in Proc, ReserveReadback(p)
        PROVE  [Attempts!Next]_(Attempts!vars)
    BY <1>2, <2>1, ReserveStep, CallTypes, SameIdent
    DEF ReserveReadback, IInv, Attempts!Next, Attempts!vars
  <2>2. ASSUME NEW p \in Proc, Claim(p) \/ Consume(p)
        PROVE  [Attempts!Next]_(Attempts!vars)
    BY <1>2, <2>2, DecideStep, SameIdent DEF Attempts!Next, Attempts!vars
  <2>3. ASSUME NEW p \in Proc, CreateOrder(p)
        PROVE  [Attempts!Next]_(Attempts!vars)
    BY <1>2, <2>3, SendStep, SameIdent DEF Attempts!Next
  <2>4. ASSUME NEW i \in Ident, AcceptOrder(i)
        PROVE  [Attempts!Next]_(Attempts!vars)
    BY <1>2, <2>4, CreateStep, SameIdent DEF Attempts!Next
  <2>5. CASE UNCHANGED <<receipts, disposition, sends, orders>>
    BY <2>5, FateKept DEF Attempts!vars
  <2> QED
    BY <1>2, <2>1, <2>2, <2>3, <2>4, <2>5, Writers
<1> QED
  BY <1>1, <1>2, InvariantHolds, PTL DEF Spec, AttemptsSpec, Attempts!Spec
===============================================================================
