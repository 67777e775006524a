# Formal model of Central Quant

Central Quant is a Python trading system: bots produce entry signals, a decision
layer scores and admits them, an execution engine and a broker turn them into
orders at BingX, and a set of registries records what was opened, closed and
learnt.  This directory holds TLA+ models of the parts where concurrency, crashes
and ambiguous exchange replies decide whether the money is safe, the TLC runs
that check them and the proofs that TLAPS checks.

Contents: [inventory](#1-inventory) · [modules](#2-modules-and-the-code) ·
[runs](#3-runs-bounds-and-what-they-show) · [fairness](#4-fairness) ·
[proofs](#5-proofs) · [findings](#6-findings) ·
[not modelled](#7-what-is-only-model-checked-and-what-is-not-modelled) ·
[plan](#8-plan)

## 1. Inventory

The repository has 617 Python files.  `main.py` (69 000 lines) is the Flask
application that wires everything; `bots/falcon.py` (13 400) and `broker.py`
(7 900) hold the live-money code.  About 240 files are tests and about 200 belong
to one family, the closed-identity conflict repair of the trade registry.

How an entry travels:

    bot scan -> decision_engine -> policies / risk -> execution_orchestrator
             -> execution_engine -> broker -> account_client_order_id -> BingX
                                      |            (Redis)
                                      +-> trade_registry, Registry V2 (WAL),
                                          event_bus, trade lifecycle, learning

| Component (code) | State | Operations | Hard behaviour | What makes it correct |
|---|---|---|---|---|
| **clientOrderID authority** `account_client_order_id.py` | write-once Redis records: sequence, id, attempt, operation, disposition, outcome, terminal outcome, authorization | reserve, verify, claim, consume without send, record outcome, authorize next attempt | SET-NX whose reply is lost, several bots and threads, receipts replayed, truncated-hash collisions, timeouts that are not failures | an attempt is sent once; one logical order becomes one exchange order; a retry needs a complete factual history |
| **Raw order boundary** `broker.py` `_create_order_with_reserved_attempt` | none of its own | claim, `create_order`, record the outcome | `create_order` raises after the exchange accepted; outcome record fails | the recorded outcome is what happened |
| **Managed orders** `broker.py`: stop replacement, managed close, disaster stop | exchange orders and positions | cancel / re-read / create / roll back, market close confirmed by polling | crash between cancel and create, ambiguous cancel, two closes of one leg | a position always has a stop, or somebody is told |
| **Broker tokens** `broker.py` 1175-1283 | token table under a lock | issue, consume, expire | one token presented by two threads | one token, one send |
| **Registry V2 WAL** `registry_v2_wal.py` | journal file, snapshot file | apply mutation, find committed operation, inspect, recover | process stop or power loss between append, fsync, rename, fsync | applied once; journal is the authority; what was answered is durable |
| **Registry V2 core** `registry_v2_core.py` | the snapshot's content, indexes | register, ack open/close, adopt, supersede... through the WAL | identity conflicts | an execution id names one execution |
| **Registry V2 paper adapter** `registry_v2_paper_runtime_adapter.py` | runtime lock (thread lock + flock), storage | register / close paper trades | two-stage lock with a deadline, storage blocked until recovery | one execution per source occurrence |
| **Redis access** `redis_bandwidth.py` | `_last_values`, read cache, per process | get, set, delete, set-if-absent, compare-and-delete | `_lock` is not held across the server call; calls that raise after landing | a cached read is never older than one's own write; a skipped write is an identical rewrite |
| **Falcon live management** `bots/falcon.py` 6900-13340 | positions document, terminal-stop lifecycle (Redis), lifecycle lock | verify disaster stop, terminal-stop emergency, TP50, break-even, trailing, stop cross | long handlers with Redis and exchange steps; lock without TTL; state saved at the end of a cycle | no unprotected position without alert; no second close |
| **Falcon entries** `bots/falcon.py` 2290-5920, 8600-8720 | entry lock, acknowledgement gate, incident documents (Redis), a process flag | signal gates, the call of the engine, incident of an unknown outcome, reconciliation in phases | a restart between order and stop, writes that fail, reads that are all silent about an order on its way | no entry over an unresolved call; what a reconciliation concludes is true |
| **Falcon positions** `bots/falcon.py` | positions document, tombstones, daily lists | scanner, manager and reconciler load and save the whole document | stale copies of three actors, failing reads, restarts | what was reconciled away stays away; one entry of a symbol a day |
| **Other bots** `bots/{cobra,donkey,meme,predator,trendpro,turtle}.py` | one positions document each | scanner, watchdog and telegram threads over the same documents | read-modify-write across threads | no lost position |
| **Execution orchestrator** `execution_orchestrator.py` | JSON ledger file | check, reserve, record the broker state, report pending calls | an unreadable ledger is read as empty; check and reservation are two critical sections | an intention is sent once; an unresolved call keeps the next entry out |
| **Execution engine** `execution_engine.py` | log lines | execute LIVE or PAPER | several bots and HTTP handlers at once; limits are compared long before the send; `main.py` redefines the entry point eight times | every request that left is on file; the overshoot of a limit is bounded |
| **Decision identity store** `decision_identity_store.py` | bounded file of claims, Bloom filter of retired ids | claim, complete, retention | a call that raises after its write; eviction of a claim under way; a clock set back | a request is claimed once and has one identity |
| **Trade registry** `trade_registry.py` | one JSON document, RLock, writer gate | register, close, record an outcome, from a bot's threads, the autosync and operator routes | a trade_id is used again by later executions; decisions rest on reads that others overtake | a close concerns the execution it was decided for; an execution has one record |
| **Closed-identity repair** (200 files) | repair plans, writer coordination, raw-transaction store | plan, authorise, apply, restart recovery | startup recovery beside live writers | repair is exclusive and resumable |
| **Trade lifecycle** `trade_lifecycle_*.py` | lifecycle records and their shadow | advance, compare | out-of-order events | lifecycle only moves forward |
| **Event bus** `event_bus.py` | seen file, event log | emit | mark before append; no lock; bounded | an event is neither lost nor doubled |
| **Paper execution** `paper_executor_integrated.py`, `paper_lifecycle.py`, `outcome_evaluator.py` | three JSON files without a lock | open, update the price, close, evaluate | whole-file writes that truncate first, stale copies, stops in between | a closed execution is counted once |
| **Executive policies, learning** | policy documents | propose, approve, expire, auto-release | approvals and expiry | a policy in force was approved |
| **Decision layer, risk** | counters, snapshots | score, allocate | stale snapshots | limits hold |
| **Evidence indexes** `trade_evidence_*` | offset index files | build, maintain, read | index against a growing log | an index entry points at its event |
| **Reporting, health; Flask app** | caches | HTTP handlers | per-request caches | - |

PROJECT.json lists these parts with their files, and under `hazards` each place
in the code that is hard to test, at its line, with the property that covers it,
or the planned module that will, or the reason why none holds.

## 2. Modules and the code

| Module | Models | Uses |
|---|---|---|
| `OrderAttempts` | what the authority promises: each attempt of a logical order is unsent, in flight, an order, refused or abandoned, and a retry only starts when the previous attempt cannot become an order | - |
| `AccountClientOrder` | `account_client_order_id.py`, `_create_order_with_reserved_attempt` of `broker.py`, and the exchange | refines `OrderAttempts` |
| `AccountClientOrderProofs` | its types, invariants and that it implements `OrderAttempts` | theorems |
| `MutationLog` | what the WAL promises: a key is applied once, an answer is lasting | - |
| `RegistryV2Wal` | `registry_v2_wal.py` with the lock its callers hold and the two ways a machine fails | refines `MutationLog` |
| `RegistryV2WalProofs` | its guarantees and that it implements `MutationLog` | theorems |
| `RedisAccess` | `redis_get` / `redis_set` of `redis_bandwidth.py` with their process-local memory | - |
| `FalconStopManagement` | `management_loop` of `bots/falcon.py` for one LIVE leg, with stop replacement and managed close of `broker.py` and the exchange | takes from `AccountClientOrder` that a reserved id is let through once |
| `FalconStopManagementProofs` | its guarantees about stops and closes | theorems |
| `ExecutionLedger` | the idempotency ledger of `execution_orchestrator.py` | - |
| `LiveExecution` | `run_execution_engine` in mode LIVE, `orchestrate_execution`, `place_market_order` and the exchange | extends `ExecutionLedger`; takes from `AccountClientOrder` that an attempt is taken and claimed once |
| `LiveExecutionProofs` | what the engine guarantees about sends and the position limit, and what `FalconEntryRecovery` adds | theorems |
| `FalconEntryRecovery` | Falcon's gates before the engine, the incident of an unknown outcome and its reconciliation | extends `LiveExecution` |
| `FalconPositions` | the positions document that scanner, manager and reconciler share | - |
| `FalconPositionsProofs` | what tombstones and the day's lists guarantee | theorems |
| `PaperTrading` | PAPER executor, lifecycle and outcome evaluator over their files | - |
| `SharedDocumentsProofs` | the guarantees of `RedisAccess` and of `PaperTrading`, the two components that read and write whole shared documents | theorems |
| `DecisionIdentityStore` | `decision_identity_store.py` with the evaluations that call it | - |
| `DecisionIdentityStoreProofs` | its guarantees | theorems |
| `TradeRegistry` | the records of one trade_id in `trade_registry.py`, with Falcon, the autosync and the operator routes of `main.py` | - |
| `TradeRegistryProofs` | its guarantees | theorems |
| `MC*` | constants for TLC | - |

`PROJECT.json` "map" gives, for every definition, the lines it translates.
Definitions marked `Slip` are the code with one plausible mistake in it; they are
not part of the specifications and exist so that a property can be shown to
notice the mistake.

### 2.1 `AccountClientOrder`

*State.*  Redis restricted to the module's keys: `sequenceSlot`, `idLedger`,
`attemptRecord`, `operationRecord`, `authorization`, `disposition` and
`outcomes`.  Every record is written with SET-NX (`_set_if_absent`, 387-412) and
never changed.  A caller is a `pc`, the attempt it works on (`arg`), the previous
attempt when it authorises a retry (`prior`) and the evidence it is about to
record (`note`).  `receipts` are the answers of `reserve` that somebody may hold.
The exchange is `inflight`, `orders` and the counter `sends`.

*Steps.*  One step is one SET-NX, or a group of reads of write-once records that
no later write can contradict, or one event of the exchange.  A SET-NX may land
without the caller learning it (the reply is lost), so what happens to the record
is separate from what the caller believes.  A request that lands late is
a process that has not taken its step yet.  `Quit` is an exception, a failed
check, or a crash: at any point a call may end with whatever it has written.
Receipts may be replayed by any caller at any time, because they are plain data
that bots store and pass on.

*The exchange* (external).  `create_order` puts a request on the wire; the
exchange accepts or refuses it at any later time; the caller may see a return
value or an exception, in particular an exception for a request that is accepted
afterwards.

*Abstractions.*  A logical order is a model value; the truncated identity hash is
the constant function `CoidOf`, not assumed injective, so the configuration
chooses the collisions.  The operation id determines all hashed fields except
attempt and sequence.  The legacy `send_claim` key is only read by the code and
left out.  The constant `Reconciler` says what is plugged in: `"absent"` is
production (`falcon.py` 6896-6935 passes none), `"settled"` a reconciler that
answers NOT_CREATED only for a request that can no longer become an order,
`"point_in_time"` one that only looks at the exchange now.  No reconciler is
implemented in the repository; the third value breaks `OneOrderPerOperation`,
which is why the theorem assumes it away by name.

*Assumption.*  Redis is linearizable and keeps what it acknowledged.  The
disposition record carries no claimant's nonce, so a Redis that lost an
acknowledged claim would let a second caller claim the same attempt; the model
does not cover that.

### 2.2 `RegistryV2Wal`

*State.*  `journal` is the sequence of complete lines, `tail` says whether bytes
follow them ("torn": a cut line; "unterminated": whole JSON without its newline),
`synced` how many lines are on disk.  `snapshot` is the file that readers see and
`stable` the one a power loss would leave.  `pc` and `event` are the calls,
`answered` the requests a caller was told are committed.

*Steps.*  The code's own: append PREPARED, fsync, replace the snapshot, fsync the
directory, append COMMITTED, fsync; then the recovery's: inspect, repair the
tail, redo or finalize, return.  `Stop` ends a process between any two of them
(a killed process or an `OSError`) and may leave a cut line; `PowerLoss` truncates
the journal to some prefix that contains the synced lines and leaves either
snapshot.

*The lock.*  All callers hold one lock around a whole call: the core's
`_execute_operation` (553-670), the paper adapter's `_run_with_runtime_lock`
(703-729: thread RLock, then flock, with a deadline), and the closure projection
ledger.  So a call begins only when every `pc` is idle.  A refused call changes
nothing and is omitted.

*Abstractions.*  A payload's digest is the payload.  The generation a request
names is arbitrary, a superset of what the adapter's `_generation_for_request`
derives.  Timestamps, event ids and the chain pointer are left out;
`JournalWellFormed` shows that the validation of the chain never refuses what the
program wrote.  *Assumption:* syncing a new journal file makes its directory entry
durable.  Directory fsync errors are swallowed by the code (820-832): with
`"directory"` among the failures, `SyncDirectory` may leave `stable` behind.
`failing`, chosen once from the constant `Failures`, says which failures occur in
this life of the system; stops together with power losses are left to section 6.

### 2.3 `RedisAccess`

*State.*  One key; keys are independent.  `stored` is the server's document with
the number of the write that stored it, and per process there are `seen` (the
digest in `_last_values`) and `cache`.  `written` is an auxiliary: the newest
write the process was told is done.  A thread is a `pc` and an `arg`.  The history
variable `overtaken` holds the processes that another process wrote over, or whose
own write landed and raised: until then a skipped write is an identical rewrite.

*Steps.*  `_lock` guards the maps and is not held across `client.get` and
`client.set`, so a call is three steps: begin (checks the cache or the digest),
the server's step, and recording the answer.  A cached read and a skipped write
change nothing; what they would answer is therefore a state predicate, and the
properties are stated of it.  `Raise` is a client call that raises, having
landed or not.  `TrimRuntimeMaps` forgets entries.  `Serialised` says whether the bot
wraps its calls in its own `redis_lock`: falcon, predator and turtle do; cobra,
donkey, meme and trendpro do not, and run scanner, watchdog and telegram threads.

### 2.4 `FalconStopManagement`

*State.*  `doc` is the leg's entry in the positions document: the id of its stop,
the stop's level, the revision of its clientOrderIDs, the pending replacement and
the mark of a crossed stop.  `lock` is the lifecycle lock, held by a worker or an
`Orphan`: the code gives it no time-to-live and a fresh nonce per attempt, so a
lock that its holder does not release stays for ever.  `incident` is the
terminal-stop recovery record of each stop, `reserved` and `closeReserved` the
clientOrderIDs taken.  A worker is a `pc`, its copy of the entry (`mem`) and the
close attempt it is about to make.  `stops`, `close` and `position` are the
exchange; `told` remembers the stops about whose loss an alert was attempted.

*Steps.*  One step is one access to Redis or to the exchange, so workers
interleave between any two of them.  A cycle of `management_loop` loads the
document, verifies the stop, then replaces it, handles an incident or handles a
crossed stop, and saves the whole document, overwriting what other workers saved
meanwhile.  The names follow the code's own phases: `ReserveStops`, `CancelStop`,
`Recheck`, `CreateStop` and its three endings for
`replace_position_stop_order`; `TakeIncident`, `Judge...`, `Revalidate`,
`ReserveClose`, `SendClose` for the emergency; `Cross...` for the stop cross.
`Faults` chooses what may go wrong: a crash (an exception that leaves the loop is
one too), a lost or ambiguous reply, a read that fails or a check that refuses.
The exchange refuses, fills, fails or cancels orders on its own with any `Faults`.

*Abstractions.*  Prices are levels that grow as they tighten, whatever the side.
Which handler runs in a cycle depends on the price and is a free choice.  TP50,
quantities and manual positions are left out: a leg is open or flat.  The
verification cache is dropped: a cached verification is never accepted by the
emergency, and an old one differs from a fresh one followed by a change of the
exchange only in its age.  A clientOrderID is a number per revision and role; the
authority of 2.1 lets each through once.  The evidence the emergency asks for is
reduced to what the leg can show, `SafeToClose`: it is open, its stop terminal
and, when the stop was cancelled, no other stop is working; everything else that
may be missing is `"refuse"`.

### 2.5 `ExecutionLedger` and `LiveExecution`

*State.*  `seen` is what the ledger file says of each idempotency key, `readable`
whether it parses and `lost`, a history variable, whether it ever stopped doing
so.  `attempt` is the account authority, `log` the lines of sent executions
inside the duplicate window of 300 seconds.  The exchange is `inflight`, `orders`,
`late` (orders whose caller had given up) and `sends`.  A thread is a `pc`, the
payload it executes (`call`) and what it was answered (`reply`).

*Steps.*  The ledger is loaded and replaced under a lock of the process, so each
of its operations is one step: the duplicate check and the reservation are two, as
in the code.  Then follow, one step each, the guards, the confirmation, taking the
attempt, the PENDING record, the broker's own guards, the claim, `create_order`,
its answer or exception, the result record, the outcome record and the log line.
`Age` takes a line out of the window.  `Stop` ends all threads; what was on the
wire may still become an order.  The ledger's replacement is not fsynced: a power
loss with the stop may leave a file that does not parse, which the next writer
takes for an empty one.

*Abstractions.*  Sizes, margins, prices and stops are one guard that may refuse at
any time.  Previews change nothing.  The attempt is part of the key (the
assumption `LiveAssumption`), and `AccountClientOrder` proves what is assumed of
it here: an attempt is claimed once.

### 2.6 `FalconEntryRecovery`

*State.*  One thread of `LiveExecution` scans (`stage`, `signal`, `subject`);
another reconciles (`op`: its step and its copy of a document).  Redis holds the
entry `lock` (an incident holds it), the acknowledgement `gate` and the incident
`docs` with phase and verdict; `health` is the process's own flag, which a restart
clears.  `armed` and `closed` are the exchange's stops and
ended legs, `tracked` the entries that Registry and positions document know.

*Steps.*  One access to Redis, to the ledger or to the flag each: the gates of a
signal in their order, the engine's call, the incident of an unknown outcome (in
full when the result or the ledger identifies the call, partial after an
exception), and the reconciliation's phases fact, ledger, released, acknowledged.
`Faults` of a write and restarts are bounded by `MaxFaults`.  Other bots reserve in
the same ledger (`OtherBotReserves`), which is how it becomes oversized.

*External.*  The containment of a naked entry takes the entry lock for itself and
may end in any way.

### 2.7 `FalconPositions`

*State.*  `doc` is the document in Redis, keyed as in the code by a position id
that with the default settings a symbol has once a day; `tombstones` and `memory`
are the durable and the process's list of lifecycles reconciled away; `signals`
and `trades` the two daily lists.  `scan` and `manage` hold each thread's copy of
the document and what it has still to look at.  `removed` and `misread` are
history: what was reported removed, and whether a read of the tombstones failed.

*Steps.*  `position_mutation_lock` covers one access, and a whole reconciliation:
each is one step.  The scanner loads the document once a scan and saves its copy
with every entry; the manager does so once a cycle.  Both filter their copy
through the tombstones before a save.

### 2.8 `PaperTrading`

*State.*  The three files `positions`, `seen` and `stats`, any of them `Torn`
between the truncation and the end of a write or after a stop; the executor, the
lifecycle and the evaluator with their copies.

*Steps.*  A read of a file, its truncation and its completion are separate steps,
because nothing is locked and nothing is replaced atomically.  A file that does
not parse reads as empty, also while somebody else is writing it.  Prices are a
free choice between nothing, TP50 with break even and a close.

### 2.9 `DecisionIdentityStore`

*State.*  The `records` and the Bloom filter of the file, the wall clock, the
evaluations under way (`call`) and, as history, `grants` and the identities
`given` to each request's callers.

*Steps.*  Claim and complete are one step each, for they hold a thread lock and a
file lock from the read to the fsynced rename; either may raise before anything
was written, or after the rename.  The provider runs between them without a
lock, and the process may stop there.  Retention evicts the oldest record by its
own time stamp, a claim under way included, into the filter.  The store is
dormant in production: `main.py` 47099-47113 wires none.

### 2.10 `TradeRegistry`

*State.*  `open` and `closed` are the records of one trade_id, which bot, symbol,
side and setup make up and execution after execution uses again.  `pos` is the
symbol's slot in Falcon's positions document with the evidence that the position is
gone (`flat`), `tombs` the tombstones, `live` what the exchange has.  Threads and
requests hold what they read: Falcon's scanner and manager, the autosync, and
three operator routes (close what is missing, reconcile what is flat, record a
manual outcome).

*Steps.*  Every writer loads, changes and saves the document under the registry's
lock: one step.  Everything a writer decided before that lock is a step before.
A save or read may fail and the process may restart, `MaxFaults` times;
`Recover` restores a CLOSED record from the exchange's history, asked outside
the lock.

## 3. Runs, bounds and what they show

| Run | Bounds | Shows |
|---|---|---|
| `acc` | 1 order, 2 attempts that share one clientOrderID, 3 callers, `MaxSeq` 1, settled reconciler | an attempt and an id are sent once, a retry has a complete and factual history, the order exists once; implements `OrderAttempts` |
| `wal` | 3 keys, 2 payloads, 2 processes, `MaxGen` 3; in one life stops and failing directory syncs, in another power losses; fair recovery, no symmetry | never divergent, journal is the authority and well formed, what was answered is durable, implements `MutationLog`; a blocked storage becomes clean |
| `redis` | 2 processes, one of them with two threads, 2 documents, 3 writes, calls that raise | a cached read is never older than one's own write; a skipped write is an identical rewrite until the process is overtaken |
| `falcon_faults` | 2 workers, `MaxLevel` 1, `MaxRevision` 2, `MaxAttempt` 1, every fault | one stop at a time that never loosens, one close, no emergency on a protected leg, no stop after a close |
| `falcon_loss` | 2 fair workers, `MaxLevel` 1, `MaxRevision` 1, `MaxAttempt` 0, lost replies and refusals, no symmetry | a lost stop is dealt with or somebody is told, unless the lock is orphaned |
| `falcon_orphan` | 1 fair worker, no fault; violation | ... and a replacement that fails orphans it (section 6) |
| `live` | 2 threads, 3 requests, `MaxOpen` 1, `ScanLimit` 5, stops that may lose the ledger | an attempt is sent once; until the ledger is lost every sent request is on file, and open while its fate is; the overshoot of the position limit is bounded |
| `entry` | scanner and reconciler, 2 Falcon entries, 1 key of another bot, `ScanLimit` 2, `MaxFaults` 2 | no entry over an unresolved call, no unlock before the ledger, a reconciliation's conclusion is true and complete |
| `positions` | 2 symbols, 2 entries of each, `MaxStop` 1, 1 failing access, 1 restart | what was reconciled away stays away; one entry of a symbol a day |
| `paper` | 1 executor, 2 keys, 2 closings, 1 stop | each closed execution is counted once; an evaluation that ran to its end counted what it marked |
| `identity` | 2 evaluations at a time, 3 requests with overlapping filter bits, 1 record retained, 4 evaluations | a request is claimed once and shown one identity, the one on file |
| `registry` | 2 executions, 2 outcome events, 1 autosync thread, 1 fault or restart | a close by reconciliation is of an execution that is gone, an execution has one record, a known outcome stays |

*Why the bounds are enough.* A claim race needs two callers; three let one replay
a receipt while one claims and one authorises the retry. One clientOrderID for
both attempts is the smallest collision and includes the race of the sequence
slot. For the WAL, three keys give a first write on an empty storage, one over a
snapshot and one after a recovery; each key is applied at most once, so the state
space is finite without a constraint, and `MaxGen` is the number of keys. For Redis
two documents tell old from new, and three writes let one process write, be
overtaken and write again. For Falcon's stops two workers are the smallest number
that can hold different copies of the entry; two revisions give a replacement, its
rollback and another replacement, so a stale copy can be two stops behind; a
second close attempt is the first that needs a retry. Liveness is checked on a
smaller instance because one replacement with its rollback is enough for a leg to
lose its stop in every way; crashes are left to `falcon_faults` for the size of the
liveness graph. For `live` two threads race for one request and for the limit, the
third request is the next entry; `MaxOpen` 1 is the pilot's setting. In `entry` the
third record in the ledger makes it oversized, and two faults let a write fail and
the process restart within one incident. `positions` needs two symbols so that an
entry of one saves a stale copy of the other. `paper` has one executor: a second
only repeats the duplicate that section 6 names, and the lifecycle and the
evaluator already interleave with it. In `identity` every pair of requests shares a
filter bit and one retained record makes the second claim evict the first. In
`registry` the second execution is what a decision about the first can hit by
mistake; two events let a second outcome contradict the first.

Every `.cfg` lists its constants; no run uses a state constraint, and each passing
run's properties are broken by a mutant of the code's own definitions
(PROJECT.json "mutants"). Deadlock is not checked in the Falcon stop runs only: once the
leg is flat and its entry removed, there is nothing left to do.

*Conditions inside properties.*  `~lost` (no power loss took the ledger file),
`misread` (a read of the tombstones failed), `overtaken` and `crashes = 0` limit a
property to what the code can promise; all behaviours beyond the limit are in the
model, and section 6 says what happens there.

## 4. Fairness

*WAL.*  `FairSpec` gives weak fairness to the steps of a
running call (a running thread is scheduled) and to an operator, told
RECOVERY_REQUIRED, who calls `recover_temp_wal`: nothing in the service does, so
this is an assumption on people and is named as one.  No fairness is given to
failures; `RecoveryCompletes` is conditional on failures stopping.

*Falcon.*  `FairSpec` gives weak fairness to each worker's next step (the thread
runs `while True`), and to the exchange settling what it was sent.  It gives
strong fairness to the verification of the stop, which means that its reads do not
fail in every cycle for ever, and to taking the lifecycle lock when an incident is
met, which means that the SET-NX does not fail every time it is tried with the
lock free.  Crashes, refusals and lost replies get none and need not stop.

The other runs check safety and need no fairness.  In particular nothing is
claimed to happen eventually of a reconciliation: no code in the repository calls
it, an operator does.

## 5. Proofs

TLAPS proves, for every value of the constants:

* `AccountClientOrderProofs`: `TypeCorrect`, `InvariantHolds` (`IInv`), and from it
  `SendOnce`, `ClientOrderIdsUnshared`, `RetriesFollowHistory`,
  `OutcomesTellTheTruth`, `OrderOnce`, the action property `NotCreatedStays`, and
  `ImplementsAttempts`: every step of the authority is a step of `OrderAttempts`
  or a stutter.
* `RegistryV2WalProofs`: `Invariance` (`IInv`), and from it `NeverDiverges`,
  `JournalHasAuthority`, `WellFormedJournal`, `AnswersLast`, `NeverAppliedTwice`
  and `ImplementsLog`: every step of the log is a step of `MutationLog` or a
  stutter.
* `FalconStopManagementProofs`: `Invariance` (`Inv`), and from it `Typing`,
  `SingleStop`, `ProtectionTightens`, `SingleClose` and the action properties
  `UnprotectedWhenClosed` and `ClosedForGood`.
* `LiveExecutionProofs`, of the engine: `LiveTyping`, `AttemptSentOnce`,
  `SentCallOnRecord`, `ConfirmedOutcomeIsFinal` and `OvershootBounded`; of Falcon's
  entry recovery on top of it: `RecoveryHolds` (`RecoveryInv`), and from it
  `ProtectedTracked`, `NotSentHolds` and the action properties `EntriesFailClosed`
  and `LockOutlivesCall`.
* `FalconPositionsProofs`: `Typing`, `ReconciledStaysRemoved` and `EntersOnce`.
* `SharedDocumentsProofs`: `TypeCorrect`, `OwnWritesStayVisible` and
  `SkipsStayIdentical` of `RedisAccess`; `PaperTyping`, `PaperCountsOnce` and
  `PaperCountsMarked` of `PaperTrading`.
* `DecisionIdentityStoreProofs`: `Typing`, `ClaimedAtMostOnce`,
  `OneIdentityPerRequest`, `ShownIdentityIsDurable` and the action property
  `CompletedRecordIsFinal`.
* `TradeRegistryProofs`: `RegistryTyping`, `RegistryFlat`, `RegistryOnce` and the
  action property `RegistryOutcome`.

With these, every property of a passing run is also a theorem, but for the two
that are liveness.

*Why the invariants are needed.*

- *Authority.*  `AtMostOneSend` is not inductive: a state in which two callers both
  believe they hold the claim satisfies it and breaks it one step later.  `IInv`
  says where a caller's belief comes from: a caller past the claim owns the
  disposition record and nobody else is past it for that attempt; a disposition
  record is either a claim or a consumption, so a consumed attempt has no sender; a
  retry's records exist only with the records of everything before it.  Records
  are write-once, which makes each of those facts stable.
- *Write-ahead log.*  The journal determines everything.  Operation i has its
  PREPARED line at 2i - 1 and its COMMITTED line at 2i, and starts from the snapshot
  the i - 1 operations before it make (`LinesFollow`), so the snapshot file can only
  be the one of the committed operations or of one more (`SnapshotFollows`).  Only
  the holder of the lock is between the steps of a call, and where it stands says
  which of the two it is (`CallFollows`).  What is on disk trails the files by one
  line or one rename (`DiskFollows`), and a request is answered only when its line is
  synced (`AnswersFollow`).  None of the run's invariants is inductive without the
  others: a snapshot one operation ahead of the journal is divergence or an ordinary
  crash, depending on whether the last line is PREPARED.
- *Stop management.*  Every change at the exchange is made by the worker that holds
  the lifecycle lock, and an outcome nobody knows, like a close, leaves the lock to
  nobody for good (`Locked`, `Protected`, `Closes`): with the lock free, no stop is on
  its way and no close was sent.  The workers' copies of the entry may be stale, but
  each names a stop that was armed, at that stop's level (`Copies`).  Once a worker has
  cancelled the stop of its copy, nothing works, no stop was armed above its copy's
  level, and the identifiers of its next stop are unused (`Replaces`); a recovery
  that reached the close has seen that nothing works (`Recovers`).  A stop whose
  creation failed is the sign that nothing works any more.
- *Redis.*  A process has one call at a time (`OneCallPerProcess`), and neither a
  cache nor a call in flight holds anything older than the process's own write
  (`NothingOlder`).  `SeenIsStored`: until a process is
  overtaken, the digest it keeps is of the document in Redis, unless a write of its
  own has landed and is about to be recorded.
- *Live execution.*  `SoleClaim`: a thread about to send holds the claim of its
  attempt alone, and an attempt that is not claimed was never sent.  `OnFile`, for
  as long as the ledger survives: one thread at most works under a key between its
  reservation and the record of its result, nothing was sent under the key
  before that thread's call, and the key stays PENDING or UNKNOWN while anything
  sent under it may still become an order.
- *Position limit.*  `OvershootBounded` counts: the legs that arrived in time, plus
  the threads that have passed the guard and are still sending, are never more than
  `MaxOpen + |Thread| - 1`, because each thread passed when fewer than `MaxOpen` legs
  were open and the others can only add one each.  The theorem needs a finite,
  nonempty set of threads, which is what a process has.
- *Entry recovery.*  Falcon has one scanning thread, so the engine's invariants carry
  over to it (`Engine`).  `RecoveryInv` adds where a terminal verdict comes from:
  each step of a reconciliation rests on what the steps before it found (`OpSound`),
  and a document on file says only what holds of its call: what was not sent is
  gone, what is protected is tracked, what is past the ledger phase is closed in
  the ledger (`Documented`; `Filed` for the document the scanner is about to write).
  As long as the ledger survives, lock, gates and ledger agree on which call may
  still be open (`OnTerms`).
- *Positions.*  `Entombed`: unless a read of the tombstones failed, what was reported
  removed is among the tombstones in Redis, so that the filter before every save
  drops it.  `Listed`: unless an access failed or the process restarted, a symbol
  entered today is in the list of accepted signals, which the next scan asks, or the
  scan that entered it is on its way to put it there.
- *Paper.*  Each copy of the positions names finitely many openings, none of them
  evaluated before it was closed, and each mark is among `Marks`: the statistics, or
  what the evaluation that runs will write (`Sound`).  Copies that other threads write
  back may lack marks, never have one that `Marks` lacks.  That the count stays equal
  to the number of marks (`Counted`) rests on `Counting`: the outcomes pending map
  one to one to executions not marked yet.  One evaluator at a time writes the
  statistics, so without a stop they are torn only while it writes (`Unshared`).
- *Identity.*  `Granted`: a claim is granted once, and what was granted is on file or
  retired.  `Lineage`: all identities that anybody holds of a request are the same,
  and agree with its record or belong to a retired one.
- *Registry.*  `Known`: the identities that threads and requests hold are of
  executions that entered.  `Gone`: evidence of being flat, and every decision that
  rests on it, is of an execution that has left the exchange.  `Records`: an
  execution about to be registered has no record yet (`Fresh`), and an outcome
  about to be written is of a record that a reconciliation closed (`Unknown`).

*Assumptions.*  Each module's named ASSUME: the types of the constants; that the
values that stand for "nothing" are none of the values they stand beside
(`None`, `Nil`, `Torn`, `Free`); and in `LiveAssumption` that equal keys have equal
attempts.  Hypotheses of single theorems:

- `OrderOnce`, `NotCreatedStays` and `ImplementsAttempts`:
  `Reconciler # "point_in_time"`.
- All of `RegistryV2WalProofs`: `FailuresApart`, a run of the system with power losses
  has no other failure.  It cannot be dropped: `registry_v2_wal.py:506` redoes a
  PREPARED line that a stopped process left unsynced, and a later power loss then
  keeps the effect and loses the line (section 6).  The `wal` run's two lives satisfy
  it.
- `OwnWritesStayVisible` and `SkipsStayIdentical`: `Serialised`.  Without `redis_lock`
  a late GET records its older document over the record of a newer SET of the same
  process.
- `OvershootBounded`: the threads are finitely many and at least one.

## 6. Findings

*With a run of its own.*  `falcon_orphan`, `bots/falcon.py:12453`: a stop
replacement that ends between the cancellation and the new stop keeps the lifecycle
lock.  The emergency that should close the leg, or at least alert, stops at that lock
in every later cycle, and `management_loop` skips its own alert because an incident
was detected.  No crash and no lost reply is needed.

*Known divergences without a run.*  These properties are stated in the modules, or
follow from one that is by the change named, and TLC refutes them; the project keeps one violation run
so that the passing runs stay short enough to repeat.

| Property | How to see it | Code against text |
|---|---|---|
| `RegistryV2Wal!JournalIsAuthority` | `Failures = {{"stop", "power"}}` | `registry_v2_wal.py:506` redoes a PREPARED line that it never syncs; a power loss keeps the effect and loses the line; docstring 3-5 |
| `RegistryV2Wal!PreparedIsReplayable` | the `wal` constants | `registry_v2_wal.py:444`: a first PREPARED line without a snapshot cannot be replayed; final specification, line 1021 |
| `LiveExecution!NoLoggedRepeat` | the `live` constants | `execution_engine.py:863` looks for one status of the log line; docstring 827 |
| `FalconEntryRecovery!PhasesAdvance` | the `entry` constants | a later notice of an incident writes its document anew, `falcon.py:2297`; comment 3241 |
| `FalconEntryRecovery!ProtectionFirst` | the `entry` constants | a restart between order and stop, `falcon.py:5912`; `docs/04-Execution-Flow.md` 527-529 |
| `FailClosed` without `~lost` | the `entry` constants | an unreadable ledger is read as empty, `execution_orchestrator.py:57`; docstring `falcon.py:3965` |
| `TombstonesHold` without `misread` | the `positions` constants | a failed read of the tombstones counts as none, `falcon.py:7296`; docstring 7080 |
| `FalconPositions!StopNeverLoosens` | the `positions` constants | the scanner saves a stop older than the manager's, `falcon.py:5130`; `docs/04-Execution-Flow.md:571` |
| `FalconPositions!AcceptedStaysManaged` | the `positions` constants | the manager saves a document without a new entry, `falcon.py:13331`; 5005-5010 |
| `PaperTrading!OnePositionPerKey` | two executors, or one stop | position before key, `paper_executor_integrated.py:293`; header line 10 |
| `EvaluatedIsCounted` without `crashes = 0` | the `paper` constants | marked in one file before counted in the other, `outcome_evaluator.py:667`; header 6-8 |
| `TradeRegistry!ClosedStaysClosed` | the `registry` constants, 13 steps without a fault | the autosync registers again what a stale read still has, `main.py:14988`; comment `trade_registry.py:427` |

*Observed while modelling; no property is stated of them.*

- The evidence reader of an unknown outcome never has stop ids
  (`falcon.py:2753`), and a call that never reached the exchange cannot be
  reconciled while its ledger entry is PENDING or UNKNOWN (about 3090).
- Clearing the acknowledgement gate does not ask whose it is (docstring 8614); a
  preflight that read the lock before its release may take it again; a partial
  incident locks entries for ever.
- A crash after the ledger says CONFIRMED and before
  `falcon_persist_accepted_signal` leaves a position nobody tracks.
- An exception in `management_loop` ends the cycle without a save; a reconciliation
  whose read of the positions failed answers ALREADY_REMOVED; normal closes leave no
  tombstone, and tombstones are pruned at 500 or after 30 days.
- In the trade registry the identity of an OPEN record is lost when the autosync writes over it; a bot closes
  without naming the identity and pops whatever is OPEN (`falcon.py:1207`), so
  after one unsaved close the next execution's OPEN record swallows the first; an
  execution marked missing between registration and the save of its position may be
  closed as missing while the manager closes it, and counts twice in Falcon's own
  statistics (`falcon.py` 1268-1380).

## 7. What is only model-checked, and what is not modelled

Only model-checked: `RecoveryCompletes` and `LossIsHandled`.  They are liveness
under fairness, which needs ENABLED and is out of this prover's reach.  The
violation `LossIsContained` is a counterexample and is shown by its run alone.

Left out on purpose: pure computation whose result no property tells apart
(scores, formatting, reports); the time-to-live of daily flags in Redis; other
bots, which repeat Falcon's structure without its recovery; of Falcon's live
management TP50 with its quantities, and manual positions; of the trade registry `update_trade`,
snapshots and restores (`main.py` from 9869), the console's registration
(4541-4690), other bots' repairs, the merge of closed identities and the
ownership classification of Registry V2.

Hazards known and not listed in PROJECT.json because nothing covers them yet: the
attribution of a fill to one of two closes of one leg (`broker.py:7717`), the
authorisation tokens (`broker.py:1271`), a storage that is not clean and that
nothing in the running service recovers (`registry_v2_paper_runtime_adapter.py:929`),
and the cancellation whose result the stop cross ignores (`falcon.py:13012`).

How much of the repository this is: the mapped lines are the control of the parts
that move money, about 11 500 lines.  Most of the other 270 000 are reports, routes, indicators, offline
indexes and the conflict-repair family of 200 files, which the running service
does not activate; the components list in PROJECT.json gives the reason for each.

## 8. Plan

Written so far: the modules of section 2.  One run per question stays the rule.

| Next module | Code | Composes | Properties worth stating |
|---|---|---|---|
| `RegistryV2PaperRuntime` | `registry_v2_paper_runtime_adapter.py` | calls `MutationLog` in place of the WAL | one execution per source occurrence, the two-stage lock is released on a timeout, a blocked storage admits nobody |
| `ManagedEntry`, `ManagedClose` | entry, disaster stop, TP50 and close of `broker.py` and `falcon.py` | quantities on top of `FalconStopManagement` | protected quantity equals the open one or somebody is told; a fill is attributed to one close |
| `EventBus` | `event_bus.py` | - | an event is recorded once; what is lost between mark and append |
| `RawTransactionStore` | raw-transaction store and startup recovery | writers of `TradeRegistry` | a repair is resumable, applied once and excludes writers |
| `TradeLifecycle`, `RegistryV2Core`, policies | the modules of the same names | - | lifecycles only move forward; an execution id names one execution; a policy in force was approved |

Abstract specifications to state: an idempotent execution, which `LiveExecution`
would implement until its ledger is lost; a register of occurrences
(`RegistryV2PaperRuntime`).

Proofs: every safety property of the runs has its theorem.  Next are properties of
section 6 with the missing hypothesis stated (what `PhasesAdvance`,
`AcceptedStaysManaged` and `OnePositionPerKey` need of the code to hold), and the
refinements of the abstract specifications above.
