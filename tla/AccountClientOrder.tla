-------------------------- MODULE AccountClientOrder --------------------------
(***************************************************************************)
(* The account-wide authority for exchange clientOrderIDs                  *)
(* (account_client_order_id.py) together with its only consumer, the raw   *)
(* create_order boundary of the broker (_create_order_with_reserved_attempt *)
(* in broker.py).                                                          *)
(*                                                                         *)
(* The authority lives in Redis: records that are written with SET-NX and  *)
(* never changed or deleted.  Callers (bots, the execution engine, the     *)
(* broker, in several threads and processes) run the authority's functions *)
(* concurrently; one step below is one Redis write, one group of reads of  *)
(* write-once records, or one event at the exchange.                       *)
(*                                                                         *)
(* A SET-NX may be applied without its caller learning that it acquired    *)
(* the key (lost reply, client-library retry), and a caller may stop       *)
(* between any two steps.  A request that is applied long after its caller *)
(* gave up is a process of its own that has not taken its step yet.        *)
(***************************************************************************)
EXTENDS Naturals

CONSTANTS
  Proc,           \* concurrent callers of the authority
  Op,             \* canonical_operation_ids: one logical order each
  Att,            \* attempt_ids
  MaxSeq,         \* bound on attempt_sequence
  ClientOrderId,  \* normalized clientOrderIDs
  CoidOf,         \* the truncated identity hash: not assumed injective
  Reason,         \* safe evidence codes of a pre-send failure
  Reconciler,     \* which factual_reconciler the callers inject
  Nil             \* an absent Redis record

Seqs == 0..MaxSeq

\* canonical_account_order_attempt_identity: the operation id stands for the
\* fields it hashes (bot, role, lifecycle, symbol, side, order type, ...).
Ident == [op: Op, att: Att, seq: Seqs]

\* "absent": no reconciler is injected (what bots/falcon.py does); "settled":
\* NOT_CREATED is answered only for a send that can no longer create an order;
\* "point_in_time": NOT_CREATED only says that no order exists yet.
ReconcilerModes == {"absent", "settled", "point_in_time"}

PreSend == "PRE_SEND_FAILED_ATTEMPT_CONSUMED"
Unknown == "CREATE_ORDER_OUTCOME_UNKNOWN"
Acknowledged == "ACKNOWLEDGED"
Terminal == "TERMINAL"   \* REJECTED, FAILED, CANCELED, FILLED and TERMINAL
OutcomeState == {PreSend, Unknown, Acknowledged, Terminal}

Consumed(i, r) == [kind |-> "PRE_SEND_CONSUMED", attempt |-> i, reason |-> r]
Claimed(i) == [kind |-> "SEND_CLAIMED", attempt |-> i]
Disposition == {Consumed(i, r) : i \in Ident, r \in Reason}
                 \union {Claimed(i) : i \in Ident}
Authorization == [att: Att, prior: Ident]

ASSUME ConstantsAssumption ==
  /\ MaxSeq \in Nat
  /\ CoidOf \in [Ident -> ClientOrderId]
  /\ Reconciler \in ReconcilerModes
  /\ Nil \notin Ident \union Op \union Att \union Disposition \union Authorization

Label == {"idle", "reserveSequence", "reserveId", "reserveAttempt",
          "reserveOperation", "reserveReadback", "verified", "claim",
          "createOrder", "awaitOrder", "recordOutcome", "consume",
          "recordConsumed", "reconcile", "authorize"}

VARIABLES
  sequenceSlot,     \* sequence records, by operation and sequence
  idLedger,         \* lifetime ledger, by clientOrderID
  attemptRecord,    \* attempt records, by operation and attempt id
  operationRecord,  \* operation records: first_attempt_id, by operation
  authorization,    \* retry authorizations, by operation and sequence
  disposition,      \* disposition slots, by operation and attempt id
  outcomes,         \* outcome records present, by operation and attempt id
  receipts,         \* attempts whose RESERVED_UNIQUE receipt was returned
  pc,               \* where each process stands
  arg,              \* the attempt it works on
  prior,            \* the prior attempt, in an authorization
  note,             \* the evidence or outcome it is about to record
  inflight,         \* create_order requests on their way
  orders,           \* orders the exchange has accepted
  sends             \* how often create_order was called, by attempt

ledger == <<sequenceSlot, idLedger, attemptRecord, operationRecord,
            authorization, disposition, outcomes>>
local == <<pc, arg, prior, note>>
exchange == <<inflight, orders, sends>>
vars == <<ledger, receipts, local, exchange>>

SeqKey(i) == <<i.op, i.seq>>
AttKey(i) == <<i.op, i.att>>

TypeOK ==
  /\ sequenceSlot \in [Op \X Seqs -> Ident \union {Nil}]
  /\ idLedger \in [ClientOrderId -> Ident \union {Nil}]
  /\ attemptRecord \in [Op \X Att -> Ident \union {Nil}]
  /\ operationRecord \in [Op -> Att \union {Nil}]
  /\ authorization \in [Op \X Seqs -> Authorization \union {Nil}]
  /\ disposition \in [Op \X Att -> Disposition \union {Nil}]
  /\ outcomes \in [Op \X Att -> SUBSET OutcomeState]
  /\ receipts \subseteq Ident
  /\ pc \in [Proc -> Label]
  /\ arg \in [Proc -> Ident \union {Nil}]
  /\ prior \in [Proc -> Ident \union {Nil}]
  /\ note \in [Proc -> Reason \union OutcomeState \union {Nil}]
  /\ inflight \subseteq Ident
  /\ orders \subseteq Ident
  /\ sends \in [Ident -> Nat]

Init ==
  /\ sequenceSlot = [k \in Op \X Seqs |-> Nil]
  /\ idLedger = [c \in ClientOrderId |-> Nil]
  /\ attemptRecord = [k \in Op \X Att |-> Nil]
  /\ operationRecord = [o \in Op |-> Nil]
  /\ authorization = [k \in Op \X Seqs |-> Nil]
  /\ disposition = [k \in Op \X Att |-> Nil]
  /\ outcomes = [k \in Op \X Att |-> {}]
  /\ receipts = {}
  /\ pc = [p \in Proc |-> "idle"]
  /\ arg = [p \in Proc |-> Nil]
  /\ prior = [p \in Proc |-> Nil]
  /\ note = [p \in Proc |-> Nil]
  /\ inflight = {}
  /\ orders = {}
  /\ sends = [i \in Ident |-> 0]

-----------------------------------------------------------------------------
\* Redis and control flow.

\* SET key value NX.
SetNx(slots, k, v) == [slots EXCEPT ![k] = IF @ = Nil THEN v ELSE @]

Start(p, label, i, j, n) ==
  /\ pc[p] = "idle"
  /\ pc' = [pc EXCEPT ![p] = label]
  /\ arg' = [arg EXCEPT ![p] = i]
  /\ prior' = [prior EXCEPT ![p] = j]
  /\ note' = [note EXCEPT ![p] = n]

Goto(p, label) ==
  /\ pc' = [pc EXCEPT ![p] = label]
  /\ UNCHANGED <<arg, prior, note>>

Return(p) ==
  /\ pc' = [pc EXCEPT ![p] = "idle"]
  /\ arg' = [arg EXCEPT ![p] = Nil]
  /\ prior' = [prior EXCEPT ![p] = Nil]
  /\ note' = [note EXCEPT ![p] = Nil]

\* The caller learns that it acquired the key only if the key was free; a
\* landed write whose reply was lost looks like a rejection to it.
AcquireOrReturn(p, free, label) == (free /\ Goto(p, label)) \/ Return(p)

-----------------------------------------------------------------------------
\* What the authority reads.  Every record is write-once, so that a positive
\* answer stays true and the reads of one predicate can be grouped.

\* The retry authorization of attempt i and the prior attempt it names.
AuthorizedByReconciliation(i) ==
  LET a == authorization[SeqKey(i)] IN
  /\ a # Nil
  /\ a.att = i.att
  /\ a.prior.op = i.op
  /\ i.seq = a.prior.seq + 1
  /\ attemptRecord[AttKey(a.prior)] = a.prior

\* readback() of reserve, reservation_readback of verify.
Integral(i) ==
  /\ sequenceSlot[SeqKey(i)] = i
  /\ idLedger[CoidOf[i]] = i
  /\ attemptRecord[AttKey(i)] = i
  /\ IF i.seq = 0
       THEN operationRecord[i.op] = i.att
       ELSE /\ operationRecord[i.op] # Nil
            /\ AuthorizedByReconciliation(i)

\* verify also reads the sequence slot of the prior attempt of a retry.
PriorSlotMatches(i) ==
  i.seq > 0 => LET j == authorization[SeqKey(i)].prior
               IN  sequenceSlot[SeqKey(j)] = j

SendClaimed(i) == disposition[AttKey(i)] = Claimed(i)
PreSendConsumed(i) == \E r \in Reason : disposition[AttKey(i)] = Consumed(i, r)

\* outcome_conflicts: outcomes that contradict the disposition slot.
OutcomeConflict(i) ==
  LET found == outcomes[AttKey(i)] IN
  /\ found # {}
  /\ PreSendConsumed(i) => found # {PreSend}
  /\ SendClaimed(i) => PreSend \in found

\* verify_account_client_order_id_reservation returns RESERVED_UNIQUE.
Verified(i) ==
  /\ i \in receipts
  /\ Integral(i)
  /\ PriorSlotMatches(i)
  /\ disposition[AttKey(i)] = Nil
  /\ outcomes[AttKey(i)] = {}

\* The checks of consume_account_client_order_attempt_pre_send.
Consumable(i) ==
  /\ i \in receipts
  /\ Integral(i)
  /\ PriorSlotMatches(i)
  /\ ~ OutcomeConflict(i)
  /\ ~ SendClaimed(i)

-----------------------------------------------------------------------------
\* reserve_account_client_order_attempt: four SET-NX in a fixed order, then a
\* read-back of all of them; only then is a RESERVED_UNIQUE receipt returned.

BeginReserve(p, i) ==
  /\ i.seq > 0 => AuthorizedByReconciliation(i)
  /\ Start(p, "reserveSequence", i, Nil, Nil)
  /\ UNCHANGED <<ledger, receipts, exchange>>

ReserveSequence(p) ==
  LET i == arg[p] IN
  /\ pc[p] = "reserveSequence"
  /\ sequenceSlot' = SetNx(sequenceSlot, SeqKey(i), i)
  /\ AcquireOrReturn(p, sequenceSlot[SeqKey(i)] = Nil, "reserveId")
  /\ UNCHANGED <<idLedger, attemptRecord, operationRecord, authorization,
                 disposition, outcomes, receipts, exchange>>

\* Slip: SET without NX on the lifetime ledger.
ReserveIdOverwriting(p) ==
  LET i == arg[p] IN
  /\ pc[p] = "reserveId"
  /\ idLedger' = [idLedger EXCEPT ![CoidOf[i]] = i]
  /\ Goto(p, "reserveAttempt")
  /\ UNCHANGED <<sequenceSlot, attemptRecord, operationRecord, authorization,
                 disposition, outcomes, receipts, exchange>>

ReserveId(p) ==
  LET i == arg[p] IN
  /\ pc[p] = "reserveId"
  /\ idLedger' = SetNx(idLedger, CoidOf[i], i)
  /\ AcquireOrReturn(p, idLedger[CoidOf[i]] = Nil, "reserveAttempt")
  /\ UNCHANGED <<sequenceSlot, attemptRecord, operationRecord, authorization,
                 disposition, outcomes, receipts, exchange>>

ReserveAttempt(p) ==
  LET i == arg[p] IN
  /\ pc[p] = "reserveAttempt"
  /\ attemptRecord' = SetNx(attemptRecord, AttKey(i), i)
  /\ AcquireOrReturn(p, attemptRecord[AttKey(i)] = Nil, "reserveOperation")
  /\ UNCHANGED <<sequenceSlot, idLedger, operationRecord, authorization,
                 disposition, outcomes, receipts, exchange>>

\* The first attempt founds the operation; a retry must find it.
ReserveOperation(p) ==
  LET i == arg[p] IN
  /\ pc[p] = "reserveOperation"
  /\ IF i.seq = 0
       THEN /\ operationRecord' = SetNx(operationRecord, i.op, i.att)
            /\ AcquireOrReturn(p, operationRecord[i.op] = Nil, "reserveReadback")
       ELSE /\ operationRecord[i.op] # Nil
            /\ Goto(p, "reserveReadback")
            /\ UNCHANGED operationRecord
  /\ UNCHANGED <<sequenceSlot, idLedger, attemptRecord, authorization,
                 disposition, outcomes, receipts, exchange>>

ReserveReadback(p) ==
  LET i == arg[p] IN
  /\ pc[p] = "reserveReadback"
  /\ Integral(i)
  /\ receipts' = receipts \union {i}
  /\ Return(p)
  /\ UNCHANGED <<ledger, exchange>>

-----------------------------------------------------------------------------
\* _create_order_with_reserved_attempt: verify, bind to the factual order,
\* claim, create_order, record the outcome.

\* Any layer that holds a receipt may hand it to the broker, more than once.
BeginSend(p, i) ==
  /\ Verified(i)
  /\ Start(p, "verified", i, Nil, Nil)
  /\ UNCHANGED <<ledger, receipts, exchange>>

\* _broker_account_order_context found a mismatch: the attempt is consumed.
RejectContext(p) ==
  /\ pc[p] = "verified"
  /\ Consumable(arg[p])
  /\ \E r \in Reason : note' = [note EXCEPT ![p] = r]
  /\ pc' = [pc EXCEPT ![p] = "consume"]
  /\ UNCHANGED <<ledger, receipts, arg, prior, exchange>>

\* claim_account_client_order_send_authorization verifies again ...
VerifyForClaim(p) ==
  /\ pc[p] = "verified"
  /\ Verified(arg[p])
  /\ Goto(p, "claim")
  /\ UNCHANGED <<ledger, receipts, exchange>>

\* Slip: trusting the read-back record instead of the acquisition.
ClaimByReadback(p) ==
  LET i == arg[p] IN
  /\ pc[p] = "claim"
  /\ disposition' = SetNx(disposition, AttKey(i), Claimed(i))
  /\ AcquireOrReturn(p, disposition'[AttKey(i)] = Claimed(i), "createOrder")
  /\ UNCHANGED <<sequenceSlot, idLedger, attemptRecord, operationRecord,
                 authorization, outcomes, receipts, exchange>>

\* ... and takes the disposition slot.
Claim(p) ==
  LET i == arg[p] IN
  /\ pc[p] = "claim"
  /\ disposition' = SetNx(disposition, AttKey(i), Claimed(i))
  /\ AcquireOrReturn(p, disposition[AttKey(i)] = Nil, "createOrder")
  /\ UNCHANGED <<sequenceSlot, idLedger, attemptRecord, operationRecord,
                 authorization, outcomes, receipts, exchange>>

CreateOrder(p) ==
  /\ pc[p] = "createOrder"
  /\ inflight' = inflight \union {arg[p]}
  /\ sends' = [sends EXCEPT ![arg[p]] = @ + 1]
  /\ Goto(p, "awaitOrder")
  /\ UNCHANGED <<ledger, receipts, orders>>

\* create_order returned the order.
OrderReturned(p) ==
  /\ pc[p] = "awaitOrder"
  /\ arg[p] \in orders
  /\ pc' = [pc EXCEPT ![p] = "recordOutcome"]
  /\ note' = [note EXCEPT ![p] = Acknowledged]
  /\ UNCHANGED <<ledger, receipts, arg, prior, exchange>>

\* create_order raised: rejection, or a timeout with the request under way.
OrderRaised(p) ==
  /\ pc[p] = "awaitOrder"
  /\ pc' = [pc EXCEPT ![p] = "recordOutcome"]
  /\ note' = [note EXCEPT ![p] = Unknown]
  /\ UNCHANGED <<ledger, receipts, arg, prior, exchange>>

RecordOutcome(p) ==
  LET i == arg[p] IN
  /\ pc[p] = "recordOutcome"
  /\ SendClaimed(i)
  /\ outcomes' = [outcomes EXCEPT ![AttKey(i)] = @ \union {note[p]}]
  /\ Return(p)
  /\ UNCHANGED <<sequenceSlot, idLedger, attemptRecord, operationRecord,
                 authorization, disposition, receipts, exchange>>

\* A holder of the receipt records what became of the order later on.
RecordTerminal(i) ==
  /\ i \in receipts
  /\ SendClaimed(i)
  /\ outcomes' = [outcomes EXCEPT ![AttKey(i)] = @ \union {Terminal}]
  /\ UNCHANGED <<sequenceSlot, idLedger, attemptRecord, operationRecord,
                 authorization, disposition, receipts, local, exchange>>

-----------------------------------------------------------------------------
\* consume_account_client_order_attempt_pre_send, called through
\* record_account_client_order_attempt_outcome.

BeginConsume(p, i, r) ==
  /\ Consumable(i)
  /\ Start(p, "consume", i, Nil, r)
  /\ UNCHANGED <<ledger, receipts, exchange>>

\* Slip: the pre-send outcome is recorded without reading the slot back.
ConsumeUnchecked(p) ==
  LET i == arg[p] IN
  /\ pc[p] = "consume"
  /\ disposition' = SetNx(disposition, AttKey(i), Consumed(i, note[p]))
  /\ Goto(p, "recordConsumed") \/ Return(p)
  /\ UNCHANGED <<sequenceSlot, idLedger, attemptRecord, operationRecord,
                 authorization, outcomes, receipts, exchange>>

\* The read-back must show exactly this evidence, whoever wrote it.
Consume(p) ==
  LET i == arg[p] IN
  /\ pc[p] = "consume"
  /\ disposition' = SetNx(disposition, AttKey(i), Consumed(i, note[p]))
  /\ \/ /\ disposition'[AttKey(i)] = Consumed(i, note[p])
        /\ Goto(p, "recordConsumed")
     \/ Return(p)
  /\ UNCHANGED <<sequenceSlot, idLedger, attemptRecord, operationRecord,
                 authorization, outcomes, receipts, exchange>>

RecordConsumed(p) ==
  LET i == arg[p] IN
  /\ pc[p] = "recordConsumed"
  /\ outcomes' = [outcomes EXCEPT ![AttKey(i)] = @ \union {PreSend}]
  /\ Return(p)
  /\ UNCHANGED <<sequenceSlot, idLedger, attemptRecord, operationRecord,
                 authorization, disposition, receipts, exchange>>

-----------------------------------------------------------------------------
\* authorize_account_client_order_next_attempt.

\* Slip: a timed-out send is treated like one that never left.
BeginAuthorizeAfterTimeout(p, j, i) ==
  /\ i.op = j.op /\ i.att # j.att /\ i.seq = j.seq + 1
  /\ attemptRecord[AttKey(j)] = j
  /\ sequenceSlot[SeqKey(j)] = j
  /\ outcomes[AttKey(j)] \subseteq {PreSend, Unknown}
  /\ PreSendConsumed(j) \/ Unknown \in outcomes[AttKey(j)]
  /\ Start(p, "authorize", i, j, Nil)
  /\ UNCHANGED <<ledger, receipts, exchange>>

\* Slip: PRIOR_ATTEMPT_RECONCILIATION_BASIS_MISSING is not checked.
BeginAuthorizeWithoutBasis(p, j, i) ==
  /\ i.op = j.op /\ i.att # j.att /\ i.seq = j.seq + 1
  /\ attemptRecord[AttKey(j)] = j
  /\ sequenceSlot[SeqKey(j)] = j
  /\ outcomes[AttKey(j)] \subseteq {PreSend, Unknown}
  /\ ~ SendClaimed(j)
  /\ Start(p, "authorize", i, j, Nil)
  /\ UNCHANGED <<ledger, receipts, exchange>>

\* The reads of the prior attempt j and of its fate.  Consumed before any
\* send: the ledger is the proof.  Send claimed: a reconciler must be asked.
BeginAuthorize(p, j, i) ==
  /\ i.op = j.op /\ i.att # j.att /\ i.seq = j.seq + 1
  /\ attemptRecord[AttKey(j)] = j
  /\ sequenceSlot[SeqKey(j)] = j
  /\ operationRecord[j.op] # Nil
  /\ idLedger[CoidOf[j]] = j
  /\ outcomes[AttKey(j)] \subseteq {PreSend, Unknown}
  /\ ~ OutcomeConflict(j)
  /\ \/ PreSendConsumed(j) /\ Start(p, "authorize", i, j, Nil)
     \/ SendClaimed(j) /\ Reconciler # "absent" /\ Start(p, "reconcile", i, j, Nil)
  /\ UNCHANGED <<ledger, receipts, exchange>>

\* The sender of j is gone and its request is no longer under way.
Settled(j) ==
  /\ j \notin inflight
  /\ \A q \in Proc : ~ (arg[q] = j /\ pc[q] \in {"createOrder", "awaitOrder"})

\* The injected factual_reconciler answers NOT_CREATED for j.
NotCreated(j) ==
  /\ j \notin orders
  /\ Reconciler = "settled" => Settled(j)

Reconcile(p) ==
  /\ pc[p] = "reconcile"
  /\ NotCreated(prior[p])
  /\ Goto(p, "authorize")
  /\ UNCHANGED <<ledger, receipts, exchange>>

Authorize(p) ==
  LET i == arg[p] IN
  /\ pc[p] = "authorize"
  /\ authorization' = SetNx(authorization, SeqKey(i),
                            [att |-> i.att, prior |-> prior[p]])
  /\ Return(p)
  /\ UNCHANGED <<sequenceSlot, idLedger, attemptRecord, operationRecord,
                 disposition, outcomes, receipts, exchange>>

-----------------------------------------------------------------------------
\* A Redis call raises, a check fails and its error is returned, or the
\* process stops: whatever was written stays, nothing else happens.
Quit(p) ==
  /\ pc[p] # "idle"
  /\ Return(p)
  /\ UNCHANGED <<ledger, receipts, exchange>>

\* The exchange: clientOrderIDs are unique for the life of the account.
AcceptOrder(i) ==
  /\ i \in inflight
  /\ \A j \in orders : CoidOf[j] # CoidOf[i]
  /\ orders' = orders \union {i}
  /\ inflight' = inflight \ {i}
  /\ UNCHANGED <<ledger, receipts, local, sends>>

\* The request is lost, or refused for its price, margin or clientOrderID.
RefuseOrder(i) ==
  /\ i \in inflight
  /\ inflight' = inflight \ {i}
  /\ UNCHANGED <<ledger, receipts, local, orders, sends>>

Reserve(p) ==
  \/ \E i \in Ident : BeginReserve(p, i)
  \/ ReserveSequence(p)
  \/ ReserveId(p)
  \/ ReserveAttempt(p)
  \/ ReserveOperation(p)
  \/ ReserveReadback(p)

Send(p) ==
  \/ \E i \in Ident : BeginSend(p, i)
  \/ RejectContext(p)
  \/ VerifyForClaim(p)
  \/ Claim(p)
  \/ CreateOrder(p)
  \/ OrderReturned(p)
  \/ OrderRaised(p)
  \/ RecordOutcome(p)

ConsumePreSend(p) ==
  \/ \E i \in Ident, r \in Reason : BeginConsume(p, i, r)
  \/ Consume(p)
  \/ RecordConsumed(p)

AuthorizeNext(p) ==
  \/ \E j \in Ident, i \in Ident : BeginAuthorize(p, j, i)
  \/ Reconcile(p)
  \/ Authorize(p)

Next ==
  \/ \E p \in Proc : \/ Reserve(p)
                     \/ Send(p)
                     \/ ConsumePreSend(p)
                     \/ AuthorizeNext(p)
                     \/ Quit(p)
  \/ \E i \in Ident : \/ RecordTerminal(i)
                      \/ AcceptOrder(i)
                      \/ RefuseOrder(i)

Spec == Init /\ [][Next]_vars

-----------------------------------------------------------------------------
\* Correctness.

\* create_order is called at most once for an attempt, whatever receipts are
\* replayed and whatever Redis replies are lost: "the same receipt can never
\* authorize a second send" (claim_account_client_order_send_authorization).
AtMostOneSend == \A i \in Ident : sends[i] <= 1

\* A logical order never becomes two orders at the exchange, retries included.
\* It rests on the reconciler never answering NOT_CREATED too early.
OneOrderPerOperation == \A i, j \in orders : i.op = j.op => i = j

\* Two attempts whose truncated hashes collide are never both sent: the
\* lifetime ledger of reserve_account_client_order_attempt stops the second.
NoSharedClientOrderId ==
  \A i, j \in Ident : sends[i] > 0 /\ sends[j] > 0 /\ CoidOf[i] = CoidOf[j] => i = j

\* Before a retry is sent every earlier sequence number of its operation has
\* exactly one attempt and the fate of that attempt is on record.
RetryHistoryComplete ==
  \A i \in Ident : sends[i] > 0 =>
    \A s \in 0..(i.seq - 1) :
      LET j == sequenceSlot[<<i.op, s>>] IN
      j # Nil /\ idLedger[CoidOf[j]] = j /\ disposition[AttKey(j)] # Nil

\* Outcome records tell the truth about the exchange: an acknowledged attempt
\* is an order, a pre-send failure never left the process.
OutcomesFactual ==
  \A i \in receipts :
    /\ Acknowledged \in outcomes[AttKey(i)] => i \in orders
    /\ PreSend \in outcomes[AttKey(i)] => sends[i] = 0 /\ i \notin inflight \union orders

\* An attempt that a retry authorization declared NOT_CREATED does not turn
\* into an order afterwards.
NotCreatedIsFinal ==
  [][\A k \in DOMAIN authorization :
       authorization[k] # Nil =>
         (authorization[k].prior \in orders' => authorization[k].prior \in orders)]_vars

\* The authority implements the life of an order attempt.
fateBar == [i \in Ident |-> IF SendClaimed(i) THEN "claimed"
                            ELSE IF PreSendConsumed(i) THEN "consumed" ELSE "open"]
Attempts == INSTANCE OrderAttempts WITH reserved <- receipts, fate <- fateBar
AttemptsSpec == Attempts!Spec

-----------------------------------------------------------------------------
\* The inductive strengthening: what every reachable state of the authority
\* looks like.  The runs check it, AccountClientOrderProofs proves it.

Sending == {"createOrder", "awaitOrder"}
HoldsReceipt == {"verified", "claim", "createOrder", "awaitOrder",
                 "recordOutcome", "consume", "recordConsumed"}
Authorizing == {"reconcile", "authorize"}

\* A running call has its arguments.
CallsTyped ==
  \A p \in Proc :
    /\ pc[p] # "idle" => arg[p] \in Ident
    /\ pc[p] \in Authorizing => prior[p] \in Ident
    /\ pc[p] = "recordOutcome" => note[p] \in {Acknowledged, Unknown}
    /\ pc[p] = "consume" => note[p] \in Reason

\* j was reserved for life and its fate is decided.
Decided(j) ==
  /\ sequenceSlot[SeqKey(j)] = j
  /\ attemptRecord[AttKey(j)] = j
  /\ idLedger[CoidOf[j]] = j
  /\ disposition[AttKey(j)] # Nil

\* j can no longer become an order.
Retired(j) == j \notin orders /\ Settled(j)

ReceiptsSound ==
  \A i \in receipts :
    /\ Integral(i)
    /\ \A s \in 1..i.seq : authorization[<<i.op, s>>] # Nil

DispositionsSound ==
  \A k \in Op \X Att : disposition[k] # Nil =>
    /\ disposition[k].attempt \in receipts
    /\ AttKey(disposition[k].attempt) = k

AuthorizationsSound ==
  \A k \in Op \X Seqs : authorization[k] # Nil =>
    LET j == authorization[k].prior IN
    /\ k = <<j.op, j.seq + 1>>
    /\ Decided(j)
    /\ Reconciler # "point_in_time" => Retired(j)

CallSound(p) ==
  /\ pc[p] \in HoldsReceipt => arg[p] \in receipts
  /\ pc[p] \in Sending \union {"recordOutcome"} => SendClaimed(arg[p])
  /\ pc[p] = "createOrder" => sends[arg[p]] = 0
  /\ pc[p] = "recordOutcome" /\ note[p] = Acknowledged => arg[p] \in orders
  /\ pc[p] = "recordConsumed" => PreSendConsumed(arg[p])
  /\ pc[p] \in Authorizing =>
       /\ arg[p].op = prior[p].op
       /\ arg[p].seq = prior[p].seq + 1
       /\ Decided(prior[p])
  /\ pc[p] = "reconcile" => Reconciler # "absent"
  /\ pc[p] = "authorize" /\ Reconciler # "point_in_time" => Retired(prior[p])

CallsSound == \A p \in Proc : CallSound(p)

OneSender ==
  \A p, q \in Proc : pc[p] = "createOrder" /\ pc[q] = "createOrder" /\ arg[p] = arg[q]
                     => p = q

SendsSound ==
  \A i \in Ident :
    /\ sends[i] <= 1
    /\ sends[i] > 0 => SendClaimed(i)
    /\ i \in inflight \union orders => sends[i] > 0

OutcomesSound ==
  \A k \in Op \X Att : outcomes[k] # {} =>
    /\ disposition[k] # Nil
    /\ IF disposition[k].kind = "SEND_CLAIMED"
         THEN /\ PreSend \notin outcomes[k]
              /\ Acknowledged \in outcomes[k] => disposition[k].attempt \in orders
         ELSE outcomes[k] = {PreSend}

IInv == /\ TypeOK
        /\ CallsTyped
        /\ ReceiptsSound
        /\ DispositionsSound
        /\ AuthorizationsSound
        /\ CallsSound
        /\ OneSender
        /\ SendsSound
        /\ OutcomesSound

=============================================================================
