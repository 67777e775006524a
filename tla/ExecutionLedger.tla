---------------------------- MODULE ExecutionLedger ----------------------------
(***************************************************************************)
(* The idempotency ledger of execution_orchestrator.py: one JSON file that *)
(* maps an idempotency key to the intention reserved under it and to the   *)
(* state of the broker call made for it.  Nothing is ever deleted from it. *)
(*                                                                         *)
(* Every operation loads the whole file and writes the whole file back     *)
(* under a lock of its process, so an operation is one step here.  A file  *)
(* that cannot be read counts as an empty one for whoever writes next; the *)
(* replacement is not fsynced, so a power loss may leave such a file.      *)
(***************************************************************************)
EXTENDS Naturals, FiniteSets

CONSTANTS
  Key,        \* idempotency keys
  FalconKey,  \* those whose record names the bot FALCON
  ScanLimit   \* records above which the ledger counts as oversized

VARIABLES
  seen,       \* what the file says of each key
  readable,   \* whether the file parses
  lost        \* whether it was ever lost: a history variable

ledger == <<seen, readable, lost>>

Pending == "ENGINE_BROKER_CALL_PENDING"
SendUnknown == "ENGINE_BROKER_SEND_OUTCOME_UNKNOWN"
Confirmed == "ENGINE_BROKER_RESULT_CONFIRMED"
Reconciled == "ENGINE_BROKER_RECONCILED_TERMINAL"
BrokerState == {Pending, SendUnknown, Confirmed, Reconciled}
Unresolved == {Pending, SendUnknown}
Entry == {"absent", "reserved"} \union BrokerState

NothingSeen == [k \in Key |-> "absent"]

Load == IF readable THEN seen ELSE NothingSeen

Save(file) ==
  /\ seen' = file
  /\ readable' = TRUE
  /\ UNCHANGED lost

Has(k) == Load[k] # "absent"

ReserveKey(k) == Save([Load EXCEPT ![k] = "reserved"])

\* record_execution_broker_state: only a reserved intention takes a state.
RecordBrokerState(k, state) ==
  /\ Has(k)
  /\ Save([Load EXCEPT ![k] = state])

\* Slip: a call whose outcome is unknown is not pending any more
PendingCallsOnly == {k \in FalconKey : seen[k] = Pending}

\* find_falcon_pending_broker_states, the gate of every new Falcon entry.
Oversized == Cardinality({k \in Key : seen[k] # "absent"}) > ScanLimit
PendingCalls == {k \in FalconKey : seen[k] \in Unresolved}
LedgerClear == readable /\ ~Oversized /\ PendingCalls = {}

LedgerInit ==
  /\ seen = NothingSeen
  /\ readable = TRUE
  /\ lost = FALSE

LoseFile ==
  /\ readable' = FALSE
  /\ seen' = NothingSeen
  /\ lost' = TRUE

LedgerTypeOK ==
  /\ seen \in [Key -> Entry]
  /\ readable \in BOOLEAN
  /\ lost \in BOOLEAN
=============================================================================
