----------------------- MODULE FalconStopManagementProofs -----------------------
(***************************************************************************)
(* The LIVE stop of one Falcon position, for any workers, levels, bounds   *)
(* and faults: its typing; at most one stop works; protection is never     *)
(* moved back; the leg is closed by at most one market order, in an        *)
(* emergency only when nothing protects it, and nothing is created after.  *)
(*                                                                         *)
(* Everything rests on the lifecycle lock, which is held through every     *)
(* change of the exchange and kept for good when its outcome is unknown.   *)
(* The entries the workers save over each other are not trusted: a copy is *)
(* only as old as its stop, and an old one finds its stop not live.        *)
(***************************************************************************)
EXTENDS FalconStopManagement, FiniteSetTheorems, TLAPS

(***************************************************************************)
(* The steps that are taken under the lifecycle lock.                      *)
(***************************************************************************)
Replaced == {"cancelStop", "recheck", "createStop", "awaitStop", "rollback", "awaitRollback"}
Bare == {"recheck", "createStop", "rollback"}
Awaits == {"awaitStop", "awaitRollback"}
Closed == {"awaitClose", "awaitCrossed"}

Held == Replaced \union Closed \union
        {"reserveStop", "judge", "revalidate", "reserveClose", "sendClose",
         "cancelCrossed", "recheckCrossed", "reserveCrossed", "sendCrossed"}

Working == Live \union Sent
Armed == {j \in StopId : stops[j].state \in {"live", "cancelled", "failed"}}

(***************************************************************************)
(* The invariant.                                                          *)
(***************************************************************************)
Locked == \A w \in Worker : pc[w] \in Held => lock = w

\* A copy of the entry names a stop that was armed, and its level.
Copied(p) ==
    /\ stops[p.stop].state \notin {"none", "sent"}
    /\ stops[p.stop].level = p.level
    /\ p.pending # Nil => p.revision # 0

Copies ==
    /\ doc # Nil => Copied(doc)
    /\ \A w \in Worker : pc[w] # "idle" => mem[w] \in Position /\ Copied(mem[w])

Fresh(i) == i \in reserved /\ stops[i].state = "none"

Replaces(w) ==
    /\ pc[w] \in Replaced =>
         /\ mem[w].revision # 0
         /\ mem[w].pending \in StopId \X Level /\ mem[w].pending[2] > mem[w].level
    /\ pc[w] \in {"cancelStop", "recheck", "createStop"} => Fresh(NewStop(mem[w].revision))
    /\ pc[w] \in {"cancelStop", "recheck", "createStop", "rollback"} =>
         Fresh(RollbackStop(mem[w].revision))
    /\ pc[w] \in Bare =>
         /\ Working = {}
         /\ \A j \in StopId : stops[j].state # "failed"
         /\ \A j \in Armed : stops[j].level <= mem[w].level
    /\ pc[w] \in Awaits => stops[Creating(w)].state # "none" /\ Sent \subseteq {Creating(w)}

Protected ==
    /\ \A i \in StopId : stops[i].state # "none" => i \in reserved
    /\ \A i, j \in Working : i = j
    /\ \A i \in Working, j \in Armed : stops[j].level <= stops[i].level
    /\ \A j \in StopId : stops[j].state = "failed" => Working = {}
    /\ lock = Nil => Sent = {}
    /\ \A w \in Worker : pc[w] \in Held \ Awaits => Sent = {}

Closes ==
    /\ \A a, b \in Attempt : close[a] # "none" /\ close[b] # "none" => a = b
    /\ lock = Nil => \A a \in Attempt : close[a] = "none"
    /\ \A w \in Worker : pc[w] \in Held \ Closed => \A a \in Attempt : close[a] = "none"

Recovers(w) ==
    /\ pc[w] = "revalidate" => attempt[w] \in Attempt \/ position = "flat"
    /\ pc[w] \in {"reserveClose", "sendClose", "awaitClose"} => attempt[w] \in Attempt
    /\ pc[w] = "sendClose" => incident[mem[w].stop].attempt = attempt[w]
    /\ pc[w] \in {"reserveClose", "sendClose"} => Working = {}

Incidents ==
    \A i \in StopId :
      incident[i].state = "not_sent" => incident[i].attempt < MaxAttempt \/ position = "flat"

Inv ==
    /\ TypeOK
    /\ Locked
    /\ Copies
    /\ \A w \in Worker : Replaces(w)
    /\ Protected
    /\ Closes
    /\ \A w \in Worker : Recovers(w)
    /\ Incidents

(***************************************************************************)
(* The kinds of steps: of the exchange; of a worker outside the lock, or   *)
(* one that crashes; of the worker that holds the lock.                    *)
(***************************************************************************)
ExchangeStep ==
    \/ \E i \in StopId : SettleStop(i) \/ StopTriggers(i) \/ StopCancelledElsewhere(i)
    \/ \E a \in Attempt : SettleClose(a)

OutsideStep(w) ==
    \/ Load(w) \/ Save(w) \/ Verify(w) \/ VerifyFails(w) \/ NothingToDo(w)
    \/ BeginReplace(w) \/ IncidentUnreadable(w) \/ TakeIncident(w)
    \/ CrossFlat(w) \/ CrossWait(w) \/ CrossStart(w)
    \/ Crash(w)

ReplaceStep(w) ==
    \/ ReplaceUnauthorised(w) \/ ReserveStops(w) \/ CancelStop(w) \/ Recheck(w)
    \/ CreateStop(w) \/ CreateFails(w) \/ StopArmed(w) \/ StopNotArmed(w) \/ StopRaised(w)

RecoverStep(w) ==
    \/ JudgeUnreadable(w) \/ JudgeBlocked(w) \/ JudgeEligible(w) \/ Revalidate(w)
    \/ ReserveClose(w) \/ SendClose(w) \/ CloseNotSent(w) \/ AwaitClose(w)

CrossStep(w) ==
    \/ CancelCrossed(w) \/ RecheckCrossed(w) \/ ReserveCrossed(w)
    \/ SendCrossed(w) \/ CrossedNotSent(w) \/ AwaitCrossed(w)

HeldStep(w) == ReplaceStep(w) \/ RecoverStep(w) \/ CrossStep(w)

LEMMA Kinds ==
    ASSUME [Next]_vars
    PROVE  \/ ExchangeStep \/ UNCHANGED vars
           \/ \E w \in Worker : OutsideStep(w) \/ HeldStep(w)
BY DEF Next, WorkerStep, Replacing, Recovering, Crossing, ExchangeStep, OutsideStep, HeldStep,
   ReplaceStep, RecoverStep, CrossStep

\* A worker moves itself only.
Mine(w) ==
    /\ \A u \in Worker : u # w => pc'[u] = pc[u] /\ mem'[u] = mem[u] /\ attempt'[u] = attempt[u]

LEMMA WorkersMove ==
    ASSUME TypeOK, NEW w \in Worker, OutsideStep(w) \/ HeldStep(w)
    PROVE  Mine(w)
<1>1. CASE OutsideStep(w)
  BY <1>1 DEF OutsideStep, Mine, TypeOK, Load, Save, Verify, VerifyFails, NothingToDo,
     BeginReplace, IncidentUnreadable, TakeIncident, CrossFlat, CrossWait, CrossStart, Crash,
     AcquireOrEnd, EndCycle, Goto, FlatLeg, workers
<1>2. CASE ReplaceStep(w)
  BY <1>2 DEF ReplaceStep, Mine, TypeOK, ReplaceUnauthorised, ReserveStops, CancelStop, Recheck,
     CreateStop, CreateFails, StopArmed, StopNotArmed, StopRaised, EndCycle, Goto
<1>3. CASE RecoverStep(w)
  BY <1>3 DEF RecoverStep, Mine, TypeOK, JudgeUnreadable, JudgeBlocked, JudgeEligible, Revalidate,
     ReserveClose, SendClose, CloseNotSent, AwaitClose, EndCycle, Goto
<1>4. CASE CrossStep(w)
  BY <1>4 DEF CrossStep, Mine, TypeOK, CancelCrossed, RecheckCrossed, ReserveCrossed,
     SendCrossed, CrossedNotSent, AwaitCrossed, EndCycle, Goto, FlatLeg
<1> QED
  BY <1>1, <1>2, <1>3, <1>4 DEF HeldStep

LEMMA HeldAlone ==
    ASSUME Locked, NEW w \in Worker, NEW u \in Worker, pc[w] \in Held, pc[u] \in Held
    PROVE  u = w /\ lock = w
BY DEF Locked

LEMMA HeldSteps ==
    ASSUME NEW w \in Worker, HeldStep(w)
    PROVE  pc[w] \in Held
<1>1. CASE ReplaceStep(w)
  BY <1>1 DEF ReplaceStep, ReplaceUnauthorised, ReserveStops, CancelStop, Recheck,
     CreateStop, CreateFails, StopArmed, StopNotArmed, StopRaised, At, Awaiting, Held, Replaced
<1>2. CASE RecoverStep(w)
  BY <1>2 DEF RecoverStep, JudgeUnreadable, JudgeBlocked, JudgeEligible, Revalidate,
     ReserveClose, SendClose, CloseNotSent, AwaitClose, At, Held, Closed
<1>3. CASE CrossStep(w)
  BY <1>3 DEF CrossStep, CancelCrossed, RecheckCrossed, ReserveCrossed,
     SendCrossed, CrossedNotSent, AwaitCrossed, At, Held, Closed
<1> QED
  BY <1>1, <1>2, <1>3 DEF HeldStep

\* Outside the lock nothing is done to the exchange, and the lock is at most
\* taken, or orphaned.
LEMMA OutsideMoves ==
    ASSUME TypeOK, Locked, NEW w \in Worker, OutsideStep(w)
    PROVE  /\ UNCHANGED <<incident, reserved, closeReserved, exchange>>
           /\ lock' \in Worker \union {Nil, Orphan}
           /\ lock' = Nil => lock = Nil
           /\ lock' # lock => lock \in {Nil, w}
           /\ pc' \in [Worker -> Label]
           /\ pc'[w] \in Held => /\ lock = Nil /\ lock' = w
                                 /\ pc'[w] \in {"reserveStop", "judge", "cancelCrossed"}
<1> USE ConstantsAssumption DEF TypeOK
<1>1. UNCHANGED <<incident, reserved, closeReserved, exchange>>
  BY DEF OutsideStep, Load, Save, Verify, VerifyFails, NothingToDo,
     BeginReplace, IncidentUnreadable, TakeIncident, CrossFlat, CrossWait, CrossStart, Crash, redis
<1>2. ASSUME NEW label \in {"reserveStop", "judge", "cancelCrossed"}, AcquireOrEnd(w, label)
      PROVE  /\ lock' \in Worker \union {Nil, Orphan}
             /\ lock' = Nil => lock = Nil
             /\ lock' # lock => lock \in {Nil, w}
             /\ pc' \in [Worker -> Label]
             /\ pc'[w] \in Held => lock = Nil /\ lock' = w /\ pc'[w] = label
  BY <1>2 DEF AcquireOrEnd, EndCycle, Goto, Label, Held, Replaced, Closed
<1>3. CASE BeginReplace(w) \/ TakeIncident(w) \/ CrossStart(w)
  BY <1>1, <1>2, <1>3 DEF BeginReplace, TakeIncident, CrossStart
<1>4. CASE Crash(w)
  BY <1>1, <1>4 DEF Crash, Goto, Label, Held, Replaced, Closed
<1>5. CASE \/ Load(w) \/ Save(w) \/ Verify(w) \/ VerifyFails(w) \/ NothingToDo(w)
           \/ IncidentUnreadable(w) \/ CrossFlat(w) \/ CrossWait(w)
  <2>1. UNCHANGED lock
    BY <1>5 DEF Load, Save, Verify, VerifyFails, NothingToDo, IncidentUnreadable, CrossFlat,
       CrossWait, redis
  <2>2. \E label \in {"idle", "verify", "save", "remove", "manage", "incident"} :
          pc' = [pc EXCEPT ![w] = label]
    BY <1>5 DEF Load, Save, Verify, VerifyFails, NothingToDo, IncidentUnreadable, CrossFlat,
       CrossWait, Goto, EndCycle, FlatLeg
  <2> QED
    BY <1>1, <2>1, <2>2 DEF Label, Held, Replaced, Closed
<1> QED
  BY <1>3, <1>4, <1>5 DEF OutsideStep

LEMMA HeldMoves ==
    ASSUME TypeOK, Locked, NEW w \in Worker, HeldStep(w)
    PROVE  /\ lock = w /\ UNCHANGED doc
           /\ pc' \in [Worker -> Label]
           /\ \/ lock' = lock
              \/ lock' \in {Nil, Orphan} /\ pc'[w] \notin Held
<1> USE ConstantsAssumption DEF TypeOK
<1>1. lock = w
  BY HeldSteps DEF Locked
<1>2. UNCHANGED doc
  BY DEF HeldStep, ReplaceStep, ReplaceUnauthorised, ReserveStops, CancelStop, Recheck,
     CreateStop, CreateFails, StopArmed, StopNotArmed, StopRaised,
     RecoverStep, JudgeUnreadable, JudgeBlocked, JudgeEligible, Revalidate,
     ReserveClose, SendClose, CloseNotSent, AwaitClose,
     CrossStep, CancelCrossed, RecheckCrossed, ReserveCrossed,
     SendCrossed, CrossedNotSent, AwaitCrossed, redis
<1>3. Release \/ Retain => lock' \in {Nil, Orphan}
  BY DEF Release, Retain
<1>4. \/ UNCHANGED lock /\ \E label \in Label : Goto(w, label)
      \/ (Release \/ Retain) /\ \E label \in {"save", "remove"} : Goto(w, label)
  <2>1. CASE ReplaceStep(w)
    BY <2>1 DEF ReplaceStep, ReplaceUnauthorised, ReserveStops, CancelStop, Recheck,
       CreateStop, CreateFails, StopArmed, StopNotArmed, StopRaised, EndCycle, Label, redis
  <2>2. CASE RecoverStep(w)
    BY <2>2 DEF RecoverStep, JudgeUnreadable, JudgeBlocked, JudgeEligible, Revalidate,
       ReserveClose, SendClose, CloseNotSent, AwaitClose, EndCycle, Label, redis
  <2>3. CASE CrossStep(w)
    BY <2>3 DEF CrossStep, CancelCrossed, RecheckCrossed, ReserveCrossed,
       SendCrossed, CrossedNotSent, AwaitCrossed, EndCycle, FlatLeg, Label, redis
  <2> QED
    BY <2>1, <2>2, <2>3 DEF HeldStep
<1>5. \A label \in Label : Goto(w, label) => pc' \in [Worker -> Label] /\ pc'[w] = label
  BY DEF Goto
<1>6. {"save", "remove"} \subseteq Label /\ "save" \notin Held /\ "remove" \notin Held
  BY DEF Label, Held, Replaced, Closed
<1> HIDE DEF Label, Held
<1> QED
  BY <1>1, <1>2, <1>3, <1>4, <1>5, <1>6

LEMMA KeepsLocked ==
    ASSUME TypeOK, Locked, [Next]_vars
    PROVE  Locked' /\ pc' \in [Worker -> Label] /\ lock' \in Worker \union {Nil, Orphan}
<1> USE ConstantsAssumption
<1>1. CASE ExchangeStep \/ UNCHANGED vars
  BY <1>1 DEF ExchangeStep, SettleStop, StopTriggers, StopCancelledElsewhere, SettleClose,
     vars, workers, redis, Locked, TypeOK
<1>2. ASSUME NEW w \in Worker, OutsideStep(w)
      PROVE  Locked' /\ pc' \in [Worker -> Label] /\ lock' \in Worker \union {Nil, Orphan}
  BY <1>2, OutsideMoves, WorkersMove DEF Locked, Mine
<1>3. ASSUME NEW w \in Worker, HeldStep(w)
      PROVE  Locked' /\ pc' \in [Worker -> Label] /\ lock' \in Worker \union {Nil, Orphan}
  BY <1>3, HeldMoves, WorkersMove DEF Locked, Mine
<1> QED
  BY <1>1, <1>2, <1>3, Kinds

(***************************************************************************)
(* The exchange's steps.                                                   *)
(***************************************************************************)
LEMMA ExchangeMoves ==
    ASSUME TypeOK, ExchangeStep
    PROVE  /\ UNCHANGED <<redis, told, workers>>
           /\ stops' \in [StopId -> [state: StopState, level: Level]]
           /\ close' \in [Attempt -> {"none", "sent", "filled", "refused"}]
           /\ position' \in {"open", "flat"}
           /\ position = "flat" => position' = "flat"
           /\ \A a \in Attempt : close'[a] = "none" <=> close[a] = "none"
           /\ \A i \in StopId :
                /\ stops'[i].level = stops[i].level
                /\ \/ stops'[i].state = stops[i].state
                   \/ /\ stops[i].state = "sent"
                      /\ stops'[i].state \in {"live", "rejected"}
                   \/ /\ stops[i].state = "live"
                      /\ stops'[i].state \in {"filled", "failed", "cancelled"}
<1> USE DEF TypeOK
<1>1. ASSUME NEW i \in StopId, NEW s \in StopState, stops' = [stops EXCEPT ![i].state = s]
      PROVE  /\ stops' \in [StopId -> [state: StopState, level: Level]]
             /\ stops'[i].state = s /\ stops'[i].level = stops[i].level
             /\ \A j \in StopId : j # i => stops'[j] = stops[j]
  BY <1>1
<1>2. ASSUME NEW i \in StopId, SettleStop(i)
      PROVE  /\ UNCHANGED <<redis, told, workers, close, position>>
             /\ stops[i].state = "sent"
             /\ \E s \in {"live", "rejected"} : stops' = [stops EXCEPT ![i].state = s]
  BY <1>2 DEF SettleStop
<1>3. ASSUME NEW i \in StopId, StopTriggers(i) \/ StopCancelledElsewhere(i)
      PROVE  /\ UNCHANGED <<redis, told, workers, close>>
             /\ stops[i].state = "live" /\ position' \in {position, "flat"}
             /\ \E s \in {"filled", "failed", "cancelled"} : stops' = [stops EXCEPT ![i].state = s]
  BY <1>3 DEF StopTriggers, StopCancelledElsewhere
<1>4. ASSUME NEW a \in Attempt, SettleClose(a)
      PROVE  /\ UNCHANGED <<redis, told, workers, stops>>
             /\ close[a] = "sent" /\ position' \in {position, "flat"}
             /\ \E s \in {"filled", "refused"} : close' = [close EXCEPT ![a] = s]
  BY <1>4 DEF SettleClose
<1>5. {"live", "rejected", "filled", "failed", "cancelled"} \subseteq StopState
  BY DEF StopState
<1>6. ASSUME NEW i \in StopId, SettleStop(i) \/ StopTriggers(i) \/ StopCancelledElsewhere(i)
      PROVE  /\ UNCHANGED <<redis, told, workers, close>>
             /\ position' \in {position, "flat"}
             /\ stops' \in [StopId -> [state: StopState, level: Level]]
             /\ \A j \in StopId :
                  /\ stops'[j].level = stops[j].level
                  /\ \/ stops'[j].state = stops[j].state
                     \/ /\ stops[j].state = "sent"
                        /\ stops'[j].state \in {"live", "rejected"}
                     \/ /\ stops[j].state = "live"
                        /\ stops'[j].state \in {"filled", "failed", "cancelled"}
  <2> PICK s \in StopState :
             /\ stops' = [stops EXCEPT ![i].state = s]
             /\ \/ stops[i].state = "sent" /\ s \in {"live", "rejected"}
                \/ stops[i].state = "live" /\ s \in {"filled", "failed", "cancelled"}
    BY <1>2, <1>3, <1>5, <1>6
  <2>1. UNCHANGED <<redis, told, workers, close>> /\ position' \in {position, "flat"}
    BY <1>2, <1>3, <1>6
  <2> QED
    BY <1>1, <2>1
<1> QED
  BY <1>4, <1>6 DEF ExchangeStep

(***************************************************************************)
(* A step outside the lock.                                                *)
(***************************************************************************)
LEMMA OutsideTyped ==
    ASSUME Inv, NEW w \in Worker, OutsideStep(w)
    PROVE  TypeOK' /\ Copies'
<1> USE ConstantsAssumption DEF Inv
<1>1. TypeOK /\ Locked /\ Copies
  OBVIOUS
<1>2. /\ UNCHANGED <<incident, reserved, closeReserved, stops, close, position>>
      /\ pc' \in [Worker -> Label] /\ lock' \in Worker \union {Nil, Orphan}
  BY <1>1, OutsideMoves DEF exchange
<1>3. \A p : Copied(p)' <=> Copied(p)
  BY <1>2 DEF Copied
<1>4. \A u \in Worker : u # w => pc'[u] = pc[u] /\ mem'[u] = mem[u]
  BY <1>1, WorkersMove DEF Mine
<1>5. ASSUME doc' \in Position \union {Nil}, told' \subseteq StopId,
             mem' \in [Worker -> Position \union {Nil}],
             attempt' \in [Worker -> 0..MaxAttempt + 1],
             doc' # Nil => Copied(doc'),
             pc'[w] # "idle" => mem'[w] \in Position /\ Copied(mem'[w])
      PROVE  TypeOK' /\ Copies'
  <2>1. TypeOK'
    BY <1>1, <1>2, <1>5 DEF TypeOK
  <2>2. Copies'
    BY <1>1, <1>3, <1>4, <1>5 DEF Copies
  <2> QED
    BY <2>1, <2>2
<1>6. CASE Load(w)
  <2>1. doc \in Position /\ Copied(doc)
    BY <1>1, <1>6 DEF Load, TypeOK, Copies
  <2>2. mem' = [mem EXCEPT ![w] = doc] /\ UNCHANGED <<doc, told, attempt>>
    BY <1>6 DEF Load, redis
  <2> QED
    BY <1>1, <1>5, <2>1, <2>2 DEF TypeOK, Copies
<1>7. CASE Save(w)
  <2>1. pc[w] # "idle" /\ pc'[w] = "idle"
    BY <1>1, <1>7 DEF Save, Goto, TypeOK
  <2>2. /\ doc' \in {Nil, mem[w]} /\ UNCHANGED told
        /\ mem' = [mem EXCEPT ![w] = Nil] /\ attempt' = [attempt EXCEPT ![w] = 0]
    BY <1>7 DEF Save, At
  <2> QED
    BY <1>1, <1>5, <2>1, <2>2 DEF TypeOK, Copies
<1>8. CASE Crash(w)
  <2>1. pc'[w] = "idle"
    BY <1>1, <1>8 DEF Crash, Goto, TypeOK
  <2>2. /\ UNCHANGED <<doc, told>>
        /\ mem' = [mem EXCEPT ![w] = Nil] /\ attempt' = [attempt EXCEPT ![w] = 0]
    BY <1>8 DEF Crash
  <2> QED
    BY <1>1, <1>5, <2>1, <2>2 DEF TypeOK, Copies
<1>9. CASE CrossWait(w) \/ CrossStart(w)
  <2>1. mem[w] \in Position /\ Copied(mem[w])
    BY <1>1, <1>9 DEF CrossWait, CrossStart, At, Copies
  <2> PICK p : p = [mem[w] EXCEPT !.crossed = TRUE]
    OBVIOUS
  <2>2. mem' = [mem EXCEPT ![w] = p] /\ UNCHANGED <<doc, told, attempt>>
    BY <1>9 DEF CrossWait, CrossStart, redis
  <2>3. p \in Position /\ p.stop = mem[w].stop /\ p.level = mem[w].level
    BY <2>1 DEF Position
  <2>4. Copied(p)
    BY <2>1, <2>3 DEF Copied
  <2> QED
    BY <1>1, <1>5, <2>2, <2>3, <2>4 DEF TypeOK, Copies
<1>10. CASE \/ Verify(w) \/ VerifyFails(w) \/ NothingToDo(w) \/ BeginReplace(w)
            \/ IncidentUnreadable(w) \/ TakeIncident(w) \/ CrossFlat(w)
  <2>1. pc[w] # "idle"
    BY <1>10 DEF Verify, VerifyFails, NothingToDo, BeginReplace, IncidentUnreadable,
       TakeIncident, CrossFlat, At
  <2>2. mem[w] \in Position
    BY <1>1, <2>1 DEF Copies
  <2>3. UNCHANGED <<doc, mem, attempt>> /\ told' \in {told, told \union {mem[w].stop}}
    BY <1>10 DEF Verify, VerifyFails, NothingToDo, BeginReplace, IncidentUnreadable,
       TakeIncident, CrossFlat, Alert, redis
  <2>4. told' \subseteq StopId
    BY <1>1, <2>2, <2>3 DEF TypeOK, Position
  <2> QED
    BY <1>1, <1>5, <2>1, <2>3, <2>4 DEF TypeOK, Copies
<1> QED
  BY <1>6, <1>7, <1>8, <1>9, <1>10 DEF OutsideStep

LEMMA OutsideKeeps ==
    ASSUME Inv, NEW w \in Worker, OutsideStep(w)
    PROVE  Inv'
<1> USE ConstantsAssumption DEF Inv
<1>1. TypeOK /\ Locked /\ TypeOK' /\ Copies'
  BY OutsideTyped
<1>2. /\ UNCHANGED <<incident, reserved, closeReserved, stops, close, position>>
      /\ lock' = Nil => lock = Nil
      /\ pc'[w] \in Held => lock = Nil /\ pc'[w] \in {"reserveStop", "judge", "cancelCrossed"}
  BY <1>1, OutsideMoves DEF exchange
<1>3. \A u \in Worker : u # w => pc'[u] = pc[u] /\ mem'[u] = mem[u] /\ attempt'[u] = attempt[u]
  BY <1>1, WorkersMove DEF Mine
<1>4. Locked'
  <2>1. [Next]_vars
    BY DEF OutsideStep, Next, WorkerStep, Replacing, Recovering, Crossing
  <2> QED
    BY <1>1, <2>1, KeepsLocked
<1>5. Working' = Working /\ Armed' = Armed /\ Sent' = Sent
  BY <1>2 DEF Working, Live, Sent, Armed
<1>6. ASSUME NEW u \in Worker PROVE Replaces(u)' /\ Recovers(u)'
  <2>1. CASE u = w
    BY <1>2, <2>1 DEF Replaces, Recovers, Replaced, Held, Awaits, Bare, Closed
  <2>2. CASE u # w
    <3>1. Creating(u)' = Creating(u)
      BY <1>3, <2>2 DEF Creating
    <3> QED
      BY <1>2, <1>3, <1>5, <2>2, <3>1 DEF Replaces, Recovers, Fresh
  <2> QED
    BY <2>1, <2>2
<1>7. Protected'
  BY <1>2, <1>3, <1>5 DEF Protected, Awaits
<1>8. Closes'
  BY <1>2, <1>3 DEF Closes, Closed
<1>9. Incidents'
  BY <1>2 DEF Incidents
<1> QED
  BY <1>1, <1>4, <1>6, <1>7, <1>8, <1>9

(***************************************************************************)
(* A step of the exchange.                                                 *)
(***************************************************************************)
LEMMA ExchangeKeeps ==
    ASSUME Inv, ExchangeStep
    PROVE  Inv'
<1> USE DEF Inv
<1>1. TypeOK /\ Locked /\ Copies /\ Protected /\ Closes /\ Incidents
  OBVIOUS
<1>2. /\ UNCHANGED <<doc, lock, incident, reserved, closeReserved, told, pc, mem, attempt>>
      /\ stops' \in [StopId -> [state: StopState, level: Level]]
      /\ close' \in [Attempt -> {"none", "sent", "filled", "refused"}]
      /\ position' \in {"open", "flat"}
      /\ position = "flat" => position' = "flat"
      /\ \A a \in Attempt : close'[a] = "none" <=> close[a] = "none"
  BY <1>1, ExchangeMoves DEF redis, workers
<1>3. \A i \in StopId :
        /\ stops'[i].level = stops[i].level
        /\ \/ stops'[i].state = stops[i].state
           \/ stops[i].state = "sent" /\ stops'[i].state \in {"live", "rejected"}
           \/ stops[i].state = "live" /\ stops'[i].state \in {"filled", "failed", "cancelled"}
  BY <1>1, ExchangeMoves
<1>4. TypeOK'
  BY <1>1, <1>2 DEF TypeOK
<1>5. Locked'
  BY <1>2 DEF Locked
<1>6. \A i \in StopId : /\ stops[i].state = "none" => stops'[i].state = "none"
                        /\ stops'[i].state = "none" => stops[i].state = "none"
                        /\ stops'[i].state = "sent" => stops[i].state = "sent"
                        /\ i \in Working' => i \in Working
                        /\ i \in Armed' => i \in Armed \union Working
                        /\ stops'[i].state = "failed" => \/ stops[i].state = "failed"
                                                         \/ i \in Working /\ i \notin Working'
  BY <1>3 DEF Working, Live, Sent, Armed
<1>7. Working' \subseteq Working /\ Sent' \subseteq Sent /\ Working \subseteq StopId
      /\ Armed' \subseteq Armed \union Working
  BY <1>6 DEF Working, Live, Sent, Armed
<1>8. ASSUME NEW p \in Position, Copied(p) PROVE Copied(p)'
  <2>1. p.stop \in StopId
    BY DEF Position
  <2> QED
    BY <1>3, <1>6, <1>8, <2>1 DEF Copied
<1>9. Copies'
  <2>1. doc # Nil => doc \in Position
    BY <1>1 DEF TypeOK
  <2>2. doc # Nil => Copied(doc)'
    BY <1>1, <1>2, <1>8, <2>1 DEF Copies, Copied
  <2>3. \A w \in Worker : pc[w] # "idle" => mem[w] \in Position /\ Copied(mem[w])'
    BY <1>1, <1>2, <1>8 DEF Copies, Copied
  <2> QED
    BY <1>2, <2>2, <2>3 DEF Copies
<1>10. Protected'
  <2>1. \A i, j \in Working' : i = j
    BY <1>1, <1>7 DEF Protected
  <2>2. \A i \in Working', j \in Armed' : stops'[j].level <= stops'[i].level
    <3> SUFFICES ASSUME NEW i \in Working', NEW j \in Armed' PROVE stops'[j].level <= stops'[i].level
      OBVIOUS
    <3>1. i \in Working /\ j \in Armed \union Working /\ i \in StopId /\ j \in StopId
      BY <1>7 DEF Armed
    <3>2. stops[i].level \in Nat
      BY <1>1, <3>1 DEF TypeOK, Level
    <3>3. stops[j].level <= stops[i].level
      BY <1>1, <3>1, <3>2 DEF Protected
    <3> QED
      BY <1>3, <3>1, <3>3
  <2>3. \A j \in StopId : stops'[j].state = "failed" => Working' = {}
    BY <1>1, <1>6, <1>7 DEF Protected
  <2>4. \A i \in StopId : stops'[i].state # "none" => i \in reserved'
    BY <1>1, <1>2, <1>6 DEF Protected
  <2> QED
    BY <1>1, <1>2, <1>7, <2>1, <2>2, <2>3, <2>4 DEF Protected
<1>11. Closes' /\ Incidents'
  BY <1>1, <1>2 DEF Closes, Incidents
<1>12. ASSUME NEW u \in Worker PROVE Replaces(u)' /\ Recovers(u)'
  <2>1. Replaces(u) /\ Recovers(u) /\ Creating(u)' = Creating(u)
    BY <1>2 DEF Creating
  <2>2. ASSUME pc[u] # "idle"
        PROVE  mem[u].revision \in Revision
    BY <1>1, <2>2 DEF Copies, Position
  <2>3. pc[u] \in Replaced => NewStop(mem[u].revision) \in StopId /\ RollbackStop(mem[u].revision) \in StopId
    BY <2>1, <2>2, ConstantsAssumption
       DEF Replaces, Replaced, StopId, NewStop, RollbackStop, Revision
  <2>4. pc[u] \in Awaits => Creating(u) \in StopId
    BY <2>3 DEF Creating, Awaits, Replaced
  <2>5. Recovers(u)'
    BY <1>2, <1>7, <2>1 DEF Recovers
  <2>6. ASSUME pc[u] \in Bare
        PROVE  /\ Working' = {}
               /\ \A j \in StopId : stops'[j].state # "failed"
               /\ \A j \in Armed' : stops'[j].level <= mem'[u].level
    BY <1>2, <1>3, <1>6, <1>7, <2>1, <2>6 DEF Replaces, Armed
  <2>7. \A i \in StopId : Fresh(i) => Fresh(i)'
    BY <1>2, <1>6 DEF Fresh
  <2>8. pc[u] \in Awaits => stops'[Creating(u)].state # "none" /\ Sent' \subseteq {Creating(u)}
    BY <1>6, <1>7, <2>1, <2>4 DEF Replaces
  <2> HIDE DEF Inv
  <2>9. Replaces(u)'
    BY <1>2, <2>1, <2>3, <2>6, <2>7, <2>8 DEF Replaces, Replaced, Fresh
  <2> QED
    BY <2>5, <2>9
<1> QED
  BY <1>4, <1>5, <1>9, <1>10, <1>11, <1>12

(***************************************************************************)
(* The steps of the worker that holds the lock.  The invariants of the     *)
(* other workers are not about them, so these are what has to be shown.    *)
(***************************************************************************)
LEMMA HeldKeeps ==
    ASSUME Inv, NEW w \in Worker, HeldStep(w), TypeOK', Copies', Replaces(w)', Recovers(w)',
           Protected', Closes', Incidents'
    PROVE  Inv'
<1>1. TypeOK /\ Locked
  BY DEF Inv
<1>2. [Next]_vars
  BY DEF HeldStep, ReplaceStep, RecoverStep, CrossStep, Next, WorkerStep, Replacing, Recovering,
     Crossing
<1>3. Locked'
  BY <1>1, <1>2, KeepsLocked
<1>4. ASSUME NEW u \in Worker PROVE Replaces(u)' /\ Recovers(u)'
  <2>1. CASE u # w
    <3>1. pc'[u] \notin Held
      BY <1>1, <2>1, HeldAlone, HeldSteps, WorkersMove DEF Mine
    <3> QED
      BY <3>1 DEF Replaces, Recovers, Held, Replaced, Bare, Awaits, Closed
  <2> QED
    BY <2>1
<1> QED
  BY <1>3, <1>4 DEF Inv

QuietStep(w) ==
    \/ ReplaceUnauthorised(w) \/ Recheck(w) \/ CreateFails(w) \/ StopNotArmed(w) \/ StopRaised(w)
    \/ JudgeUnreadable(w) \/ JudgeBlocked(w) \/ Revalidate(w) \/ AwaitClose(w)
    \/ RecheckCrossed(w) \/ ReserveCrossed(w) \/ CrossedNotSent(w) \/ AwaitCrossed(w)

Passes(w, here, there) == pc[w] = here /\ pc'[w] = there /\ lock' = lock

Leaves(w) ==
    /\ pc[w] \in Held /\ pc'[w] \notin Held
    /\ lock' \in {Nil, Orphan}
    /\ lock' = Nil => pc[w] \notin Closed /\ (pc[w] \in Awaits => Answer(w) # "sent")

LEMMA HeldCopy ==
    ASSUME Inv, NEW w \in Worker, pc[w] \in Held
    PROVE  /\ mem[w] \in Position /\ Copied(mem[w])
           /\ mem[w].stop \in StopId /\ mem[w].level \in Level /\ mem[w].revision \in Revision
BY DEF Inv, Copies, Position, Held, Replaced, Closed

LEMMA QuietMoves ==
    ASSUME Inv, NEW w \in Worker, QuietStep(w)
    PROVE  /\ UNCHANGED <<doc, incident, reserved, mem, attempt, stops, close, position>>
           /\ told' \subseteq StopId /\ closeReserved' \subseteq Attempt
           /\ \/ Leaves(w)
              \/ Passes(w, "recheck", "createStop") \/ Passes(w, "createStop", "rollback")
              \/ Passes(w, "revalidate", "reserveClose") /\ SafeToClose(w)
              \/ Passes(w, "recheckCrossed", "reserveCrossed")
              \/ Passes(w, "reserveCrossed", "sendCrossed")
<1> USE ConstantsAssumption
<1>1. TypeOK /\ pc \in [Worker -> Label]
  BY DEF Inv, TypeOK
<1>2. pc[w] \in Held
  BY HeldSteps DEF QuietStep, HeldStep, ReplaceStep, RecoverStep, CrossStep
<1>3. mem[w].stop \in StopId
  BY <1>2, HeldCopy
<1>4. UNCHANGED <<doc, incident, reserved, mem, attempt, stops, close, position>>
  BY DEF QuietStep, ReplaceUnauthorised, Recheck, CreateFails, StopNotArmed, StopRaised,
     JudgeUnreadable, JudgeBlocked, Revalidate, AwaitClose,
     RecheckCrossed, ReserveCrossed, CrossedNotSent, AwaitCrossed, exchange
<1>5. told' \in {told, told \union {mem[w].stop}} /\ closeReserved' \in {closeReserved, closeReserved \union {0}}
  BY DEF QuietStep, ReplaceUnauthorised, Recheck, CreateFails, StopNotArmed, StopRaised,
     JudgeUnreadable, JudgeBlocked, Revalidate, AwaitClose,
     RecheckCrossed, ReserveCrossed, CrossedNotSent, AwaitCrossed, Alert
<1>6. told' \subseteq StopId /\ closeReserved' \subseteq Attempt
  BY <1>1, <1>3, <1>5 DEF TypeOK, Attempt
<1>7. /\ EndCycle(w) => pc'[w] \notin Held
      /\ FlatLeg(w) => pc'[w] \notin Held
      /\ Goto(w, "remove") => pc'[w] \notin Held
      /\ \A label : Goto(w, label) => pc'[w] = label
  BY <1>1 DEF EndCycle, FlatLeg, Goto, Held, Replaced, Closed
<1>8. /\ Release => lock' \in {Nil, Orphan}
      /\ Retain => lock' = Orphan
  BY DEF Release, Retain
<1>9. \/ Leaves(w)
      \/ Passes(w, "recheck", "createStop") \/ Passes(w, "createStop", "rollback")
      \/ Passes(w, "revalidate", "reserveClose") /\ SafeToClose(w)
      \/ Passes(w, "recheckCrossed", "reserveCrossed")
      \/ Passes(w, "reserveCrossed", "sendCrossed")
  <2>1. CASE ReplaceUnauthorised(w) \/ Recheck(w) \/ CreateFails(w)
    BY <1>2, <1>7, <1>8, <2>1
       DEF ReplaceUnauthorised, Recheck, CreateFails, At, Leaves, Passes, Awaits, Closed
  <2>2. CASE StopNotArmed(w) \/ StopRaised(w)
    BY <1>2, <1>7, <1>8, <2>2 DEF StopNotArmed, StopRaised, At, Awaiting, Leaves, Closed
  <2>3. CASE JudgeUnreadable(w) \/ JudgeBlocked(w) \/ Revalidate(w) \/ AwaitClose(w)
    BY <1>2, <1>7, <1>8, <2>3
       DEF JudgeUnreadable, JudgeBlocked, Revalidate, AwaitClose, At, Leaves, Passes, Awaits, Closed
  <2>4. CASE RecheckCrossed(w) \/ ReserveCrossed(w) \/ CrossedNotSent(w) \/ AwaitCrossed(w)
    BY <1>2, <1>7, <1>8, <2>4
       DEF RecheckCrossed, ReserveCrossed, CrossedNotSent, AwaitCrossed, At, Leaves, Passes,
           Awaits, Closed
  <2> QED
    BY <2>1, <2>2, <2>3, <2>4 DEF QuietStep
<1> QED
  BY <1>4, <1>6, <1>9

\* What a worker that leaves the lock, or goes on under it, leaves behind.
LEMMA LeavesKeep ==
    ASSUME Inv, NEW w \in Worker, HeldStep(w),
           \/ Leaves(w) /\ UNCHANGED <<stops, close>>
           \/ pc[w] \in Held \ (Awaits \union Closed) /\ lock' # Nil /\ UNCHANGED <<stops, close>>
    PROVE  /\ lock' = Nil => Sent' = {} /\ \A a \in Attempt : close'[a] = "none"
           /\ \A u \in Worker : pc'[u] \in Held \ Awaits => Sent' = {}
           /\ \A u \in Worker : pc'[u] \in Held \ Closed => \A a \in Attempt : close'[a] = "none"
<1> USE DEF Inv
<1>1. UNCHANGED <<stops, close>> /\ Sent' = Sent
  BY DEF Sent
<1>2. pc[w] \in Held /\ \A u \in Worker : u # w => pc'[u] \notin Held
  BY HeldAlone, HeldSteps, WorkersMove DEF Mine
<1>3. CASE Leaves(w)
  <2>1. pc'[w] \notin Held
    BY <1>3 DEF Leaves
  <2>2. ASSUME lock' = Nil PROVE Sent = {} /\ \A a \in Attempt : close[a] = "none"
    <3>1. pc[w] \in Awaits => Sent \subseteq {Creating(w)} /\ Creating(w) \notin Sent
      BY <1>3, <2>2 DEF Leaves, Replaces, Answer, Sent
    <3> QED
      BY <1>2, <1>3, <2>2, <3>1 DEF Leaves, Protected, Closes
  <2> QED
    BY <1>1, <1>2, <2>1, <2>2
<1>4. CASE pc[w] \in Held \ (Awaits \union Closed) /\ lock' # Nil
  BY <1>1, <1>2, <1>4 DEF Protected, Closes
<1> QED
  BY <1>3, <1>4

LEMMA QuietKeeps ==
    ASSUME Inv, NEW w \in Worker, QuietStep(w)
    PROVE  Inv'
<1> USE ConstantsAssumption
<1>1. HeldStep(w)
  BY DEF QuietStep, HeldStep, ReplaceStep, RecoverStep, CrossStep
<1>2. /\ UNCHANGED <<doc, incident, reserved, mem, attempt, stops, close, position>>
      /\ told' \subseteq StopId /\ closeReserved' \subseteq Attempt
  BY QuietMoves
<1>3. \/ Leaves(w)
      \/ Passes(w, "recheck", "createStop") \/ Passes(w, "createStop", "rollback")
      \/ Passes(w, "revalidate", "reserveClose") /\ SafeToClose(w)
      \/ Passes(w, "recheckCrossed", "reserveCrossed")
      \/ Passes(w, "reserveCrossed", "sendCrossed")
  BY QuietMoves
<1>4. TypeOK /\ Locked /\ lock = w /\ [Next]_vars
  BY <1>1, HeldSteps
     DEF Inv, Locked, HeldStep, ReplaceStep, RecoverStep, CrossStep, Next, WorkerStep, Replacing,
         Recovering, Crossing
<1>5. TypeOK'
  BY <1>2, <1>4, KeepsLocked DEF TypeOK
<1>6. Working' = Working /\ Armed' = Armed /\ Sent' = Sent /\ Live' = Live
  BY <1>2 DEF Working, Live, Sent, Armed
<1>7. \A u \in Worker : pc'[u] # "idle" => pc[u] # "idle"
  <2>1. pc[w] \in Held
    BY <1>1, HeldSteps
  <2> QED
    BY <1>1, <1>4, <2>1, WorkersMove DEF Mine, Held, Replaced, Closed
<1>8. Copies'
  BY <1>2, <1>7 DEF Inv, Copies, Copied
<1>9. Replaces(w)'
  <2>1. CASE pc'[w] \notin Replaced
    BY <2>1 DEF Replaces, Replaced, Bare, Awaits
  <2>2. CASE Passes(w, "recheck", "createStop") \/ Passes(w, "createStop", "rollback")
    BY <1>2, <1>6, <2>2 DEF Passes, Inv, Replaces, Replaced, Bare, Awaits, Fresh
  <2> QED
    BY <1>3, <2>1, <2>2 DEF Leaves, Passes, Held, Replaced
<1>10. Recovers(w)'
  <2>1. CASE pc'[w] \notin {"revalidate", "reserveClose", "sendClose", "awaitClose"}
    BY <2>1 DEF Recovers
  <2>2. CASE Passes(w, "revalidate", "reserveClose") /\ SafeToClose(w)
    <3>1. Sent = {} /\ mem[w].stop \in StopId
      BY <2>2, HeldCopy DEF Inv, Protected, Passes, Held, Awaits, Replaced
    <3>2. Working = {}
      BY <2>2, <3>1 DEF Inv, Protected, SafeToClose, Terminal, MyStop, Working
    <3>3. attempt[w] \in Attempt
      BY <2>2 DEF Inv, Recovers, Passes, SafeToClose
    <3> QED
      BY <1>2, <1>6, <2>2, <3>2, <3>3 DEF Recovers, Passes
  <2> QED
    BY <1>3, <2>1, <2>2 DEF Leaves, Passes, Held, Replaced, Closed
<1>11. /\ lock' = Nil => Sent' = {} /\ \A a \in Attempt : close'[a] = "none"
       /\ \A u \in Worker : pc'[u] \in Held \ Awaits => Sent' = {}
       /\ \A u \in Worker : pc'[u] \in Held \ Closed => \A a \in Attempt : close'[a] = "none"
  <2>1. Leaves(w) \/ (pc[w] \in Held \ (Awaits \union Closed) /\ lock' # Nil)
    BY <1>3, <1>4 DEF Passes, Held, Awaits, Closed, Replaced
  <2> QED
    BY <1>1, <1>2, <2>1, LeavesKeep
<1>12. Protected'
  BY <1>2, <1>6, <1>11 DEF Inv, Protected
<1>13. Closes'
  BY <1>2, <1>11 DEF Inv, Closes
<1>14. Incidents'
  BY <1>2 DEF Inv, Incidents
<1> QED
  BY <1>1, <1>5, <1>8, <1>9, <1>10, <1>12, <1>13, <1>14, HeldKeeps

LEMMA HeldBase ==
    ASSUME Inv, NEW w \in Worker, HeldStep(w)
    PROVE  /\ TypeOK /\ Locked /\ pc[w] \in Held /\ lock = w /\ doc' = doc
           /\ pc' \in [Worker -> Label] /\ lock' \in Worker \union {Nil, Orphan}
           /\ lock' = lock \/ (lock' \in {Nil, Orphan} /\ pc'[w] \notin Held)
           /\ \A u \in Worker : u # w => pc'[u] \notin Held /\ pc'[u] = pc[u] /\ mem'[u] = mem[u]
<1>1. TypeOK /\ Locked /\ [Next]_vars
  BY DEF Inv, HeldStep, ReplaceStep, RecoverStep, CrossStep, Next, WorkerStep, Replacing,
     Recovering, Crossing
<1> QED
  BY <1>1, HeldSteps, HeldMoves, KeepsLocked, HeldAlone, WorkersMove DEF Mine

\* Copies stay good when no stop that was armed is armed anew.
LEMMA HeldCopies ==
    ASSUME Inv, NEW w \in Worker, HeldStep(w), NEW p \in Position, mem' = [mem EXCEPT ![w] = p],
           \A i \in StopId : stops[i].state \notin {"none", "sent"} =>
             stops'[i].state \notin {"none", "sent"} /\ stops'[i].level = stops[i].level,
           stops'[p.stop].state \notin {"none", "sent"},
           stops'[p.stop].level = p.level,
           p.pending # Nil => p.revision # 0
    PROVE  Copies' /\ mem' \in [Worker -> Position \union {Nil}] /\ mem'[w] = p
<1>1. TypeOK /\ doc' = doc /\ \A u \in Worker : u # w => pc'[u] = pc[u] /\ mem'[u] = mem[u]
  BY HeldBase
<1>2. Copies
  BY DEF Inv
<1>3. mem' \in [Worker -> Position \union {Nil}] /\ mem'[w] = p
  BY <1>1 DEF TypeOK
<1>4. ASSUME NEW q \in Position, Copied(q) PROVE Copied(q)'
  BY <1>4 DEF Copied, Position
<1>5. doc # Nil => Copied(doc)'
  BY <1>1, <1>2, <1>4 DEF Copies, TypeOK
<1>6. doc' # Nil => Copied(doc)'
  BY <1>1, <1>5
<1>7. \A u \in Worker : u # w /\ pc'[u] # "idle" => mem'[u] \in Position /\ Copied(mem[u])'
  BY <1>1, <1>2, <1>4 DEF Copies
<1>8. Copied(p)'
  BY DEF Copied
<1> QED
  BY <1>1, <1>3, <1>6, <1>7, <1>8 DEF Copies, Copied

\* When its entry and the exchange's armed stops stay as they were.
LEMMA SameCopies ==
    ASSUME Inv, NEW w \in Worker, HeldStep(w), mem' = mem,
           \A i \in StopId : stops[i].state \notin {"none", "sent"} =>
             stops'[i].state \notin {"none", "sent"} /\ stops'[i].level = stops[i].level
    PROVE  Copies'
<1>1. mem[w] \in Position /\ Copied(mem[w]) /\ mem[w].stop \in StopId
  BY HeldBase, HeldCopy
<1>2. mem' = [mem EXCEPT ![w] = mem[w]]
  BY HeldBase DEF TypeOK
<1> PICK p \in Position : p = mem[w]
  BY <1>1
<1>3. /\ stops'[p.stop].state \notin {"none", "sent"} /\ stops'[p.stop].level = p.level
      /\ p.pending # Nil => p.revision # 0
  BY <1>1 DEF Copied
<1>4. mem' = [mem EXCEPT ![w] = p]
  BY <1>2
<1> QED
  BY <1>3, <1>4, HeldCopies

(***************************************************************************)
(* Replacing the stop.                                                     *)
(***************************************************************************)
LEMMA ReserveStopsKeeps ==
    ASSUME Inv, NEW w \in Worker, ReserveStops(w)
    PROVE  Inv'
<1> USE ConstantsAssumption
<1>1. HeldStep(w) /\ pc[w] = "reserveStop"
  BY DEF HeldStep, ReplaceStep, ReserveStops, At
<1>2. TypeOK /\ mem[w] \in Position /\ Copied(mem[w])
  BY <1>1, HeldBase, HeldCopy
<1> PICK level \in Targets(mem[w]) :
       LET r == RevisionFor(mem[w], level)
           ids == {NewStop(r), RollbackStop(r)}
       IN  /\ mem' = [mem EXCEPT ![w].revision = r, ![w].pending = <<mem[w].stop, level>>]
           /\ reserved' = reserved \union ids
           /\ \/ ids \intersect reserved = {} /\ UNCHANGED lock /\ Goto(w, "cancelStop")
              \/ lock' \in {Nil, Orphan} /\ EndCycle(w)
  BY DEF ReserveStops, Release, Retain
<1> DEFINE r == RevisionFor(mem[w], level)
           ids == {NewStop(r), RollbackStop(r)}
           p == [mem[w] EXCEPT !.revision = r, !.pending = <<mem[w].stop, level>>]
<1>3. level \in Level /\ level > mem[w].level /\ r \in Revision /\ r # 0
  <2>1. level \in Level /\ level > mem[w].level /\ r \in Revision
    BY DEF Targets
  <2>2. mem[w].stop \in Nat /\ level \in Nat /\ mem[w].revision \in Nat
    BY <1>2, <2>1 DEF Position, StopId, RollbackStop, Level, Revision
  <2>3. mem[w].pending # Nil => mem[w].revision # 0
    BY <1>2 DEF Copied
  <2>4. mem[w].pending = <<mem[w].stop, level>> => mem[w].pending # Nil
    BY <2>2
  <2>5. r # 0
    BY <2>2, <2>3, <2>4 DEF RevisionFor
  <2> QED
    BY <2>1, <2>5
<1>4. NewStop(r) \in StopId /\ RollbackStop(r) \in StopId
  BY <1>3 DEF NewStop, RollbackStop, StopId, Revision
<1>5. p \in Position /\ p.stop = mem[w].stop /\ p.level = mem[w].level /\ p.revision = r
      /\ p.pending = <<mem[w].stop, level>>
  BY <1>2, <1>3 DEF Position
<1>6. mem' = [mem EXCEPT ![w] = p] /\ reserved' = reserved \union ids
  BY <1>2 DEF TypeOK, Position
<1>7. UNCHANGED <<doc, incident, closeReserved, told, attempt, stops, close, position>>
  BY DEF ReserveStops, exchange
<1>8. Copies' /\ mem' \in [Worker -> Position \union {Nil}] /\ mem'[w] = p
  <2>1. /\ stops'[p.stop].state \notin {"none", "sent"} /\ stops'[p.stop].level = p.level
        /\ p.pending # Nil => p.revision # 0
        /\ \A i \in StopId : stops[i].state \notin {"none", "sent"} =>
             stops'[i].state \notin {"none", "sent"} /\ stops'[i].level = stops[i].level
    BY <1>2, <1>3, <1>5, <1>7 DEF Copied
  <2> HIDE DEF p
  <2> QED
    BY <1>1, <1>5, <1>6, <2>1, HeldCopies
<1>9. TypeOK'
  BY <1>1, <1>2, <1>4, <1>6, <1>7, <1>8, HeldBase DEF TypeOK
<1>10. \/ ids \intersect reserved = {} /\ lock' = lock /\ pc'[w] = "cancelStop"
       \/ lock' \in {Nil, Orphan} /\ pc'[w] = "save"
  BY <1>2 DEF TypeOK, Goto, EndCycle
<1>11. /\ lock' = Nil => Sent' = {} /\ \A a \in Attempt : close'[a] = "none"
       /\ \A u \in Worker : pc'[u] \in Held \ Awaits => Sent' = {}
       /\ \A u \in Worker : pc'[u] \in Held \ Closed => \A a \in Attempt : close'[a] = "none"
  <2>1. pc[w] \in Held \ (Awaits \union Closed) /\ lock # Nil
    BY <1>1, HeldBase DEF Held, Awaits, Closed
  <2>2. Leaves(w) \/ lock' # Nil
    BY <1>10, <2>1 DEF Leaves, Held, Replaced, Closed
  <2> QED
    BY <1>1, <1>7, <2>1, <2>2, LeavesKeep
<1>12. Working' = Working /\ Armed' = Armed
  BY <1>7 DEF Working, Live, Sent, Armed
<1>13. Replaces(w)'
  <2>1. CASE pc'[w] \notin Replaced
    BY <2>1 DEF Replaces, Replaced, Bare, Awaits
  <2>2. CASE ids \intersect reserved = {} /\ pc'[w] = "cancelStop"
    <3>1. \A i \in ids : stops'[i].state = "none" /\ i \in reserved'
      <4>1. \A i \in StopId : stops[i].state # "none" => i \in reserved
        BY DEF Inv, Protected
      <4>2. \A i \in ids : i \in StopId /\ i \notin reserved
        BY <1>4, <2>2
      <4> QED
        BY <1>6, <1>7, <4>1, <4>2
    <3>2. /\ mem'[w].revision = r /\ mem'[w].pending = <<mem[w].stop, level>>
          /\ mem'[w].level = mem[w].level /\ mem[w].stop \in StopId
      BY <1>2, <1>5, <1>8 DEF Position
    <3>3. mem'[w].pending \in StopId \X Level /\ mem'[w].pending[2] = level
      <4>1. <<mem[w].stop, level>> \in StopId \X Level /\ <<mem[w].stop, level>>[2] = level
        BY <1>3, <3>2
      <4> HIDE DEF p, r
      <4> QED
        BY <3>2, <4>1
    <3>5. mem'[w].pending[2] > mem'[w].level
      BY <1>3, <3>2, <3>3
    <3>6. NewStop(mem'[w].revision) \in ids /\ RollbackStop(mem'[w].revision) \in ids
      BY <3>2
    <3>4. Fresh(NewStop(mem[w].revision))' /\ Fresh(RollbackStop(mem[w].revision))'
      BY <3>1, <3>6 DEF Fresh, NewStop, RollbackStop
    <3> QED
      BY <1>3, <2>2, <3>2, <3>3, <3>4, <3>5 DEF Replaces, Replaced, Bare, Awaits
  <2> QED
    BY <1>10, <2>1, <2>2 DEF Replaced
<1>14. Recovers(w)'
  BY <1>10 DEF Recovers
<1>15. Protected'
  BY <1>6, <1>7, <1>11, <1>12 DEF Inv, Protected
<1>16. Closes' /\ Incidents'
  BY <1>7, <1>11 DEF Inv, Closes, Incidents
<1> QED
  BY <1>1, <1>8, <1>9, <1>13, <1>14, <1>15, <1>16, HeldKeeps

\* Nothing works any more once the one live stop is cancelled.
LEMMA CancelMoves ==
    ASSUME Inv, NEW w \in Worker, pc[w] \in Held \ Awaits, MyStop(w) = "live",
           stops' = [stops EXCEPT ![mem[w].stop].state = "cancelled"]
    PROVE  /\ stops' \in [StopId -> [state: StopState, level: Level]]
           /\ Working' = {} /\ Sent' = {} /\ Armed' = Armed
           /\ \A j \in StopId :
                /\ stops'[j].level = stops[j].level
                /\ stops'[j].state = "none" <=> stops[j].state = "none"
                /\ stops[j].state \notin {"none", "sent"} => stops'[j].state \notin {"none", "sent"}
                /\ stops'[j].state # "failed"
           /\ \A j \in Armed : stops[j].level <= mem[w].level
<1>1. TypeOK /\ Protected
  BY DEF Inv
<1>2. mem[w].stop \in StopId /\ Copied(mem[w])
  BY HeldCopy
<1> DEFINE i == mem[w].stop
<1>3. stops \in [StopId -> [state: StopState, level: Level]] /\ "cancelled" \in StopState
  BY <1>1 DEF TypeOK, StopState
<1>4. /\ stops' \in [StopId -> [state: StopState, level: Level]]
      /\ stops'[i] = [state |-> "cancelled", level |-> stops[i].level]
      /\ \A j \in StopId : j # i => stops'[j] = stops[j]
  BY <1>2, <1>3
<1>5. stops[i].state = "live" /\ stops[i].level = mem[w].level /\ i \in StopId
  BY <1>2 DEF Copied, MyStop
<1>6. i \in Working /\ Sent = {}
  BY <1>1, <1>5 DEF Working, Live, Protected
<1> HIDE DEF i
<1>7. Working' = {} /\ Sent' = {}
  BY <1>1, <1>4, <1>5, <1>6 DEF Protected, Working, Live, Sent
<1>8. Armed' = Armed
  BY <1>4, <1>5 DEF Armed
<1>9. \A j \in StopId : stops[j].state # "failed"
  BY <1>1, <1>6 DEF Protected
<1>10. \A j \in Armed : stops[j].level <= mem[w].level
  BY <1>1, <1>5, <1>6 DEF Protected
<1>11. \A j \in StopId :
          /\ stops'[j].level = stops[j].level
          /\ stops'[j].state = "none" <=> stops[j].state = "none"
          /\ stops[j].state \notin {"none", "sent"} => stops'[j].state \notin {"none", "sent"}
          /\ stops'[j].state # "failed"
  BY <1>4, <1>5, <1>9
<1> QED
  BY <1>4, <1>7, <1>8, <1>10, <1>11

LEMMA CancelStopKeeps ==
    ASSUME Inv, NEW w \in Worker, CancelStop(w)
    PROVE  Inv'
<1> USE ConstantsAssumption
<1>1. HeldStep(w) /\ pc[w] = "cancelStop"
  BY DEF HeldStep, ReplaceStep, CancelStop, At
<1>2. TypeOK /\ lock = w /\ pc[w] \in Held \ (Awaits \union Closed) /\ pc \in [Worker -> Label]
  BY <1>1, HeldBase DEF Awaits, Closed, TypeOK
<1>3. UNCHANGED <<doc, incident, reserved, closeReserved, told, mem, attempt, close, position>>
  BY DEF CancelStop
<1>4. \/ pc'[w] = "recheck" /\ lock' = lock
         /\ MyStop(w) = "live" /\ stops' = [stops EXCEPT ![mem[w].stop].state = "cancelled"]
      \/ pc'[w] = "save" /\ lock' = Orphan
         /\ \/ UNCHANGED stops
            \/ MyStop(w) = "live" /\ stops' = [stops EXCEPT ![mem[w].stop].state = "cancelled"]
  BY <1>2 DEF CancelStop, Retain, Goto, EndCycle
<1>5. pc'[w] \notin Awaits \union {"idle", "revalidate", "reserveClose", "sendClose", "awaitClose"}
      /\ lock' # Nil
  BY <1>2, <1>4 DEF Awaits
<1>6. Recovers(w)'
  BY <1>5 DEF Recovers
<1>7. \A a \in Attempt : close'[a] = "none"
  BY <1>2, <1>3 DEF Inv, Closes
<1>8. Closes' /\ Incidents'
  BY <1>3, <1>7 DEF Inv, Closes, Incidents
<1>9. CASE UNCHANGED stops /\ pc'[w] = "save"
  <2>1. TypeOK' /\ Copies'
    BY <1>1, <1>3, <1>9, HeldBase, SameCopies DEF TypeOK
  <2>2. Working' = Working /\ Armed' = Armed /\ Sent' = Sent
    BY <1>9 DEF Working, Live, Sent, Armed
  <2>3. Sent' = {}
    BY <1>2, <2>2 DEF Inv, Protected
  <2>4. Protected'
    BY <1>3, <1>9, <2>2, <2>3 DEF Inv, Protected
  <2>5. Replaces(w)'
    BY <1>9 DEF Replaces, Replaced, Bare, Awaits
  <2> QED
    BY <1>1, <1>6, <1>8, <2>1, <2>4, <2>5, HeldKeeps
<1>10. CASE MyStop(w) = "live" /\ stops' = [stops EXCEPT ![mem[w].stop].state = "cancelled"]
  <2>1. /\ stops' \in [StopId -> [state: StopState, level: Level]]
        /\ Working' = {} /\ Sent' = {} /\ Armed' = Armed
        /\ \A j \in StopId :
             /\ stops'[j].level = stops[j].level
             /\ stops'[j].state = "none" <=> stops[j].state = "none"
             /\ stops[j].state \notin {"none", "sent"} => stops'[j].state \notin {"none", "sent"}
             /\ stops'[j].state # "failed"
        /\ \A j \in Armed : stops[j].level <= mem[w].level
    BY <1>2, <1>10, CancelMoves
  <2>2. TypeOK' /\ Copies'
    BY <1>1, <1>3, <2>1, HeldBase, SameCopies DEF TypeOK
  <2>3. Protected'
    BY <1>3, <2>1 DEF Inv, Protected
  <2>4. ASSUME pc'[w] = "save" PROVE Replaces(w)'
    BY <2>4 DEF Replaces, Replaced, Bare, Awaits
  <2>5. ASSUME pc'[w] = "recheck" PROVE Replaces(w)'
    <3>1. Replaces(w) /\ NewStop(mem[w].revision) \in StopId /\ RollbackStop(mem[w].revision) \in StopId
      BY <1>1, HeldBase, HeldCopy
         DEF Inv, Replaces, Replaced, NewStop, RollbackStop, StopId, Revision
    <3>2. \A i \in StopId : Fresh(i) => Fresh(i)'
      BY <1>3, <2>1 DEF Fresh
    <3>3. \A j \in Armed' : stops'[j].level <= mem[w].level
      BY <2>1 DEF Armed
    <3>4. Fresh(NewStop(mem[w].revision))' /\ Fresh(RollbackStop(mem[w].revision))'
      BY <1>1, <1>3, <3>1, <3>2 DEF Replaces, Replaced, Fresh, NewStop, RollbackStop
    <3> QED
      BY <1>1, <1>3, <2>1, <2>5, <3>1, <3>3, <3>4 DEF Replaces, Replaced, Bare, Awaits
  <2> QED
    BY <1>1, <1>4, <1>6, <1>8, <2>2, <2>3, <2>4, <2>5, HeldKeeps
<1> QED
  BY <1>4, <1>9, <1>10

LEMMA CreateStopKeeps ==
    ASSUME Inv, NEW w \in Worker, CreateStop(w)
    PROVE  Inv'
<1> USE ConstantsAssumption
<1>1. HeldStep(w) /\ pc[w] \in {"createStop", "rollback"}
  BY DEF HeldStep, ReplaceStep, CreateStop
<1>2. TypeOK /\ lock = w /\ pc[w] \in Held \ (Awaits \union Closed) /\ pc \in [Worker -> Label]
  BY <1>1, HeldBase DEF Awaits, Closed, TypeOK
<1>3. UNCHANGED <<doc, lock, incident, reserved, closeReserved, told, mem, attempt, close, position>>
  BY DEF CreateStop, redis
<1> PICK i : i = Creating(w)
  OBVIOUS
<1> PICK l : l = IF At(w, "createStop") THEN mem[w].pending[2] ELSE mem[w].level
  OBVIOUS
<1>4. /\ stops' = [stops EXCEPT ![i] = [state |-> "sent", level |-> l]]
      /\ pc'[w] = IF pc[w] = "createStop" THEN "awaitStop" ELSE "awaitRollback"
      /\ i = IF pc[w] = "createStop" THEN NewStop(mem[w].revision)
                                     ELSE RollbackStop(mem[w].revision)
  BY <1>1, <1>2 DEF CreateStop, Goto, At, Creating
<1>5. /\ mem[w].revision # 0
      /\ mem[w].pending \in StopId \X Level /\ mem[w].pending[2] > mem[w].level
      /\ Fresh(i) /\ Working = {}
      /\ \A j \in StopId : stops[j].state # "failed"
      /\ \A j \in Armed : stops[j].level <= mem[w].level
  BY <1>1, <1>4 DEF Inv, Replaces, Replaced, Bare
<1>6. mem[w].level \in Level /\ mem[w].revision \in Revision
  BY <1>1, HeldBase, HeldCopy
<1>7. i \in StopId
  BY <1>4, <1>5, <1>6 DEF NewStop, RollbackStop, StopId, Revision
<1>8. l \in Level /\ l >= mem[w].level
  BY <1>5, <1>6 DEF Level
<1>9. stops \in [StopId -> [state: StopState, level: Level]] /\ "sent" \in StopState
  BY <1>2 DEF TypeOK, StopState
<1>10. /\ stops' \in [StopId -> [state: StopState, level: Level]]
       /\ stops'[i].state = "sent" /\ stops'[i].level = l
       /\ \A j \in StopId : j # i => stops'[j] = stops[j]
  BY <1>4, <1>7, <1>8, <1>9
<1>11. stops[i].state = "none" /\ i \in reserved
  BY <1>5 DEF Fresh
<1>12. Working' = {i} /\ Sent' = {i} /\ Armed' = Armed /\ i \notin Armed
  BY <1>5, <1>7, <1>10, <1>11 DEF Working, Live, Sent, Armed
<1>13. TypeOK'
  BY <1>1, <1>2, <1>3, <1>10, HeldBase DEF TypeOK
<1>14. Copies'
  BY <1>1, <1>3, <1>10, <1>11, SameCopies
<1>15. pc'[w] \in Awaits /\ lock' # Nil
       /\ \A u \in Worker : u # w => pc'[u] \notin Held
  BY <1>1, <1>2, <1>3, <1>4, HeldBase DEF Awaits
<1>16. Protected'
  <2>1. \A j \in Armed' : stops'[j].level <= stops'[i].level
    <3> TAKE j \in Armed'
    <3>1. j \in StopId /\ j # i /\ stops[j].level <= mem[w].level
      BY <1>5, <1>12 DEF Armed
    <3>2. stops[j].level \in Nat
      BY <1>9, <3>1 DEF Level
    <3> QED
      BY <1>6, <1>8, <1>10, <3>1, <3>2 DEF Level
  <2>2. \A j \in StopId : stops'[j].state # "failed"
    BY <1>5, <1>10
  <2>3. \A j \in StopId : stops'[j].state # "none" => j \in reserved'
    BY <1>3, <1>10, <1>11 DEF Inv, Protected
  <2> QED
    BY <1>12, <1>15, <2>1, <2>2, <2>3 DEF Protected
<1>17. Replaces(w)'
  <2>1. Creating(w)' = i
    BY <1>1, <1>3, <1>4 DEF Creating
  <2>2. stops'[Creating(w)'].state # "none" /\ Sent' \subseteq {Creating(w)'}
    BY <1>10, <1>12, <2>1
  <2>3. pc'[w] \notin Bare \union {"cancelStop", "recheck", "createStop", "rollback"}
    BY <1>4 DEF Bare
  <2> QED
    BY <1>3, <1>5, <2>2, <2>3 DEF Replaces
<1>18. Recovers(w)'
  BY <1>15 DEF Recovers, Awaits
<1>19. Closes' /\ Incidents'
  BY <1>2, <1>3 DEF Inv, Closes, Incidents
<1> QED
  BY <1>1, <1>13, <1>14, <1>16, <1>17, <1>18, <1>19, HeldKeeps

LEMMA StopArmedKeeps ==
    ASSUME Inv, NEW w \in Worker, StopArmed(w)
    PROVE  Inv'
<1> USE ConstantsAssumption
<1>1. HeldStep(w) /\ pc[w] \in Awaits
  BY DEF HeldStep, ReplaceStep, StopArmed, Awaiting, Awaits
<1>2. TypeOK /\ mem[w] \in Position /\ pc[w] \in Held /\ pc \in [Worker -> Label]
  BY <1>1, HeldBase, HeldCopy DEF TypeOK
<1>3. UNCHANGED <<doc, incident, reserved, closeReserved, told, attempt, stops, close, position>>
  BY DEF StopArmed, exchange
<1> PICK i : i = Creating(w)
  OBVIOUS
<1> PICK p : p = [mem[w] EXCEPT !.stop = i, !.level = stops[i].level, !.pending = Nil]
  OBVIOUS
<1>4. mem' = [mem EXCEPT ![w] = p] /\ pc'[w] = "save" /\ lock' \in {Nil, Orphan}
  BY <1>2 DEF StopArmed, EndCycle, Goto, Release, TypeOK, Position
<1>5. i \in StopId
  <2>1. mem[w].revision # 0 /\ mem[w].revision \in Revision
    BY <1>1, <1>2 DEF Inv, Replaces, Replaced, Awaits, Position
  <2> QED
    BY <2>1 DEF Creating, NewStop, RollbackStop, StopId, Revision
<1>6. stops[i].state \notin {"none", "sent", "rejected"} /\ Answer(w) # "sent" /\ stops[i].level \in Level
  BY <1>1, <1>2, <1>5 DEF StopArmed, Answer, Inv, Replaces, TypeOK
<1>7. p \in Position /\ p.stop = i /\ p.level = stops[i].level /\ p.pending = Nil
  BY <1>2, <1>5, <1>6 DEF Position
<1>8. Copies' /\ mem' \in [Worker -> Position \union {Nil}]
  BY <1>1, <1>3, <1>4, <1>6, <1>7, HeldCopies
<1>9. TypeOK'
  BY <1>1, <1>2, <1>3, <1>8, HeldBase DEF TypeOK
<1>10. /\ lock' = Nil => Sent' = {} /\ \A a \in Attempt : close'[a] = "none"
       /\ \A u \in Worker : pc'[u] \in Held \ Awaits => Sent' = {}
       /\ \A u \in Worker : pc'[u] \in Held \ Closed => \A a \in Attempt : close'[a] = "none"
  <2>1. Leaves(w)
    BY <1>1, <1>2, <1>4, <1>6 DEF Leaves, Held, Replaced, Closed, Awaits
  <2> QED
    BY <1>1, <1>3, <2>1, LeavesKeep
<1>11. Working' = Working /\ Armed' = Armed /\ Sent' = Sent
  BY <1>3 DEF Working, Live, Sent, Armed
<1>12. Replaces(w)' /\ Recovers(w)'
  BY <1>4 DEF Replaces, Recovers, Replaced, Bare, Awaits
<1>13. Protected'
  BY <1>3, <1>10, <1>11 DEF Inv, Protected
<1>14. Closes' /\ Incidents'
  BY <1>3, <1>10 DEF Inv, Closes, Incidents
<1> QED
  BY <1>1, <1>8, <1>9, <1>12, <1>13, <1>14, HeldKeeps

(***************************************************************************)
(* Closing the leg.                                                        *)
(***************************************************************************)
\* Steps that leave the stops alone.
LEMMA StopsKept ==
    ASSUME Inv, NEW w \in Worker, HeldStep(w), UNCHANGED <<reserved, mem, stops>>,
           pc[w] \notin Awaits, pc'[w] \notin Replaced
    PROVE  Copies' /\ Replaces(w)' /\ Protected' /\ Working' = Working
<1>1. Copies'
  BY SameCopies
<1>2. Working' = Working /\ Armed' = Armed /\ Sent' = Sent
  BY DEF Working, Live, Sent, Armed
<1>3. Sent = {}
  BY HeldBase DEF Inv, Protected
<1>4. Protected'
  BY <1>2, <1>3 DEF Inv, Protected
<1>5. Replaces(w)'
  BY DEF Replaces, Replaced, Bare, Awaits
<1> QED
  BY <1>1, <1>2, <1>4, <1>5

\* Before a worker sends a close there is none.
LEMMA ClosesKept ==
    ASSUME Inv, NEW w \in Worker, HeldStep(w), close' = close, pc[w] \notin Closed
    PROVE  Closes'
<1>1. \A a \in Attempt : close[a] = "none"
  BY HeldBase DEF Inv, Closes
<1> QED
  BY <1>1 DEF Closes

LEMMA JudgeEligibleKeeps ==
    ASSUME Inv, NEW w \in Worker, JudgeEligible(w)
    PROVE  Inv'
<1> USE ConstantsAssumption
<1>1. HeldStep(w) /\ pc[w] = "judge"
  BY DEF HeldStep, RecoverStep, JudgeEligible, At
<1>2. TypeOK /\ lock = w /\ pc \in [Worker -> Label] /\ mem[w].stop \in StopId
  BY <1>1, HeldBase, HeldCopy DEF TypeOK
<1> PICK i \in StopId : i = mem[w].stop
  BY <1>2
<1> PICK a : a = IF incident[i].state = "not_sent" THEN incident[i].attempt + 1 ELSE 0
  OBVIOUS
<1>3. /\ UNCHANGED <<doc, reserved, closeReserved, mem, stops, close, position>>
      /\ attempt' = [attempt EXCEPT ![w] = a]
      /\ told' \in {told, told \union {i}}
      /\ incident' \in {incident, [incident EXCEPT ![i].state = "open"]}
      /\ pc'[w] \in {"revalidate", "save"}
  BY <1>2 DEF JudgeEligible, exchange, Alert, Goto, EndCycle
<1>4. incident \in [StopId -> [state: IncidentState, attempt: Attempt]] /\ "open" \in IncidentState
  BY <1>2 DEF TypeOK, IncidentState
<1>5. a \in 0..MaxAttempt + 1 /\ (a \in Attempt \/ position = "flat")
  BY <1>4 DEF Attempt, Inv, Incidents
<1>6. /\ incident' \in [StopId -> [state: IncidentState, attempt: Attempt]]
      /\ \A j \in StopId : incident'[j].state = "not_sent" => incident'[j] = incident[j]
  BY <1>3, <1>4
<1>7. Copies' /\ Replaces(w)' /\ Protected'
  BY <1>1, <1>3, StopsKept DEF Awaits, Replaced
<1>8. TypeOK'
  <2>1. attempt' \in [Worker -> 0..MaxAttempt + 1] /\ told' \subseteq StopId
    BY <1>2, <1>3, <1>5 DEF TypeOK
  <2> QED
    BY <1>1, <1>2, <1>3, <1>6, <2>1, HeldBase DEF TypeOK
<1>9. Recovers(w)'
  <2>1. attempt'[w] = a
    BY <1>2, <1>3 DEF TypeOK
  <2> QED
    BY <1>3, <1>5, <2>1 DEF Recovers
<1>10. Incidents'
  BY <1>3, <1>6 DEF Inv, Incidents
<1> QED
  BY <1>1, <1>3, <1>7, <1>8, <1>9, <1>10, ClosesKept, HeldKeeps DEF Closed

LEMMA ReserveCloseKeeps ==
    ASSUME Inv, NEW w \in Worker, ReserveClose(w)
    PROVE  Inv'
<1> USE ConstantsAssumption
<1>1. HeldStep(w) /\ pc[w] = "reserveClose"
  BY DEF HeldStep, RecoverStep, ReserveClose, At
<1>2. TypeOK /\ lock = w /\ pc \in [Worker -> Label] /\ mem[w].stop \in StopId
  BY <1>1, HeldBase, HeldCopy DEF TypeOK
<1> PICK i \in StopId : i = mem[w].stop
  BY <1>2
<1>3. attempt[w] \in Attempt /\ Working = {}
  BY <1>1 DEF Inv, Recovers
<1> PICK a \in Attempt : a = attempt[w]
  BY <1>3
<1>4. /\ UNCHANGED <<doc, reserved, mem, attempt, stops, close, position>>
      /\ told' \in {told, told \union {i}}
      /\ closeReserved' \in {closeReserved, closeReserved \union {a}}
      /\ incident' \in {incident, [incident EXCEPT ![i] = [state |-> "unresolved", attempt |-> a]]}
      /\ \/ /\ pc'[w] = "sendClose"
            /\ incident' = [incident EXCEPT ![i] = [state |-> "unresolved", attempt |-> a]]
         \/ pc'[w] = "save"
  BY <1>2 DEF ReserveClose, exchange, Alert, Goto, EndCycle
<1>5. incident \in [StopId -> [state: IncidentState, attempt: Attempt]]
      /\ "unresolved" \in IncidentState
  BY <1>2 DEF TypeOK, IncidentState
<1>6. /\ incident' \in [StopId -> [state: IncidentState, attempt: Attempt]]
      /\ \A j \in StopId : incident'[j].state = "not_sent" => incident'[j] = incident[j]
      /\ pc'[w] = "sendClose" => incident'[i].attempt = a
  BY <1>4, <1>5
<1>7. Copies' /\ Replaces(w)' /\ Protected' /\ Working' = Working
  BY <1>1, <1>4, StopsKept DEF Awaits, Replaced
<1>8. TypeOK'
  <2>1. told' \subseteq StopId /\ closeReserved' \subseteq Attempt
    BY <1>2, <1>4 DEF TypeOK
  <2> QED
    BY <1>1, <1>2, <1>4, <1>6, <2>1, HeldBase DEF TypeOK
<1>9. Recovers(w)'
  BY <1>3, <1>4, <1>6, <1>7 DEF Recovers
<1>10. Incidents'
  BY <1>4, <1>6 DEF Inv, Incidents
<1> QED
  BY <1>1, <1>4, <1>7, <1>8, <1>9, <1>10, ClosesKept, HeldKeeps DEF Closed

LEMMA CloseNotSentKeeps ==
    ASSUME Inv, NEW w \in Worker, CloseNotSent(w)
    PROVE  Inv'
<1> USE ConstantsAssumption
<1>1. HeldStep(w) /\ pc[w] = "sendClose"
  BY DEF HeldStep, RecoverStep, CloseNotSent, At
<1>2. TypeOK /\ lock = w /\ pc \in [Worker -> Label] /\ mem[w].stop \in StopId
  BY <1>1, HeldBase, HeldCopy DEF TypeOK
<1> PICK i \in StopId : i = mem[w].stop
  BY <1>2
<1>3. attempt[w] \in Attempt /\ incident[i].attempt = attempt[w]
  BY <1>1 DEF Inv, Recovers
<1>4. /\ UNCHANGED <<doc, reserved, closeReserved, mem, attempt, stops, close, position>>
      /\ told' = told \union {i}
      /\ incident' \in {incident, [incident EXCEPT ![i].state = "not_sent"]}
      /\ pc'[w] = "save"
      /\ position = "flat" \/ attempt[w] < MaxAttempt
  BY <1>2 DEF CloseNotSent, exchange, Alert, Goto, EndCycle
<1>5. incident \in [StopId -> [state: IncidentState, attempt: Attempt]] /\ "not_sent" \in IncidentState
  BY <1>2 DEF TypeOK, IncidentState
<1>6. /\ incident' \in [StopId -> [state: IncidentState, attempt: Attempt]]
      /\ \A j \in StopId : j # i => incident'[j] = incident[j]
      /\ incident'[i].attempt = incident[i].attempt
  BY <1>4, <1>5
<1>7. Copies' /\ Replaces(w)' /\ Protected'
  BY <1>1, <1>4, StopsKept DEF Awaits, Replaced
<1>8. TypeOK'
  <2>1. told' \subseteq StopId
    BY <1>2, <1>4 DEF TypeOK
  <2> QED
    BY <1>1, <1>2, <1>4, <1>6, <2>1, HeldBase DEF TypeOK
<1>9. Recovers(w)'
  BY <1>4 DEF Recovers
<1>10. Incidents'
  <2>1. Incidents
    BY DEF Inv
  <2> QED
    BY <1>3, <1>4, <1>6, <2>1 DEF Incidents
<1> QED
  BY <1>1, <1>4, <1>7, <1>8, <1>9, <1>10, ClosesKept, HeldKeeps DEF Closed

\* Both paths send their market order here.
LEMMA CloseSentKeeps ==
    ASSUME Inv, NEW w \in Worker, SendClose(w) \/ SendCrossed(w)
    PROVE  Inv'
<1> USE ConstantsAssumption
<1>1. HeldStep(w) /\ pc[w] \in {"sendClose", "sendCrossed"}
  BY DEF HeldStep, RecoverStep, CrossStep, SendClose, SendCrossed, At
<1>2. TypeOK /\ lock = w /\ pc \in [Worker -> Label]
  BY <1>1, HeldBase DEF TypeOK
<1>3. pc[w] = "sendClose" => attempt[w] \in Attempt
  BY DEF Inv, Recovers
<1> PICK a \in Attempt : a = IF pc[w] = "sendClose" THEN attempt[w] ELSE 0
  BY <1>3 DEF Attempt
<1>4. /\ UNCHANGED <<doc, lock, incident, reserved, closeReserved, told, mem, attempt, stops, position>>
      /\ close' = [close EXCEPT ![a] = "sent"]
      /\ pc'[w] = IF pc[w] = "sendClose" THEN "awaitClose" ELSE "awaitCrossed"
  BY <1>1, <1>2 DEF SendClose, SendCrossed, redis, Goto, At
<1>5. \A b \in Attempt : close[b] = "none"
  BY <1>1, HeldBase DEF Inv, Closes, Closed
<1>6. /\ close' \in [Attempt -> {"none", "sent", "filled", "refused"}]
      /\ \A b \in Attempt : close'[b] # "none" => b = a
  BY <1>2, <1>4, <1>5 DEF TypeOK
<1>7. Copies' /\ Replaces(w)' /\ Protected'
  BY <1>1, <1>4, StopsKept DEF Awaits, Replaced
<1>8. TypeOK'
  BY <1>1, <1>2, <1>4, <1>6, HeldBase DEF TypeOK
<1>9. Recovers(w)'
  BY <1>3, <1>4 DEF Recovers
<1>10. Closes'
  <2>1. \A u \in Worker : pc'[u] \notin Held \ Closed
    BY <1>1, <1>4, HeldBase DEF Closed
  <2> QED
    BY <1>2, <1>4, <1>6, <2>1 DEF Closes
<1>11. Incidents'
  BY <1>4 DEF Inv, Incidents
<1> QED
  BY <1>1, <1>7, <1>8, <1>9, <1>10, <1>11, HeldKeeps

LEMMA CancelCrossedKeeps ==
    ASSUME Inv, NEW w \in Worker, CancelCrossed(w)
    PROVE  Inv'
<1> USE ConstantsAssumption
<1>1. HeldStep(w) /\ pc[w] = "cancelCrossed"
  BY DEF HeldStep, CrossStep, CancelCrossed, At
<1>2. TypeOK /\ pc[w] \in Held \ Awaits /\ pc \in [Worker -> Label]
  BY <1>1, HeldBase DEF Awaits, TypeOK
<1>3. /\ UNCHANGED <<doc, lock, incident, reserved, closeReserved, told, mem, attempt, close, position>>
      /\ pc'[w] = "recheckCrossed"
      /\ \/ UNCHANGED stops
         \/ MyStop(w) = "live" /\ stops' = [stops EXCEPT ![mem[w].stop].state = "cancelled"]
  BY <1>2 DEF CancelCrossed, redis, Goto
<1>4. Recovers(w)' /\ Replaces(w)'
  BY <1>3 DEF Recovers, Replaces, Replaced, Bare, Awaits
<1>5. Closes' /\ Incidents'
  BY <1>1, <1>3, ClosesKept DEF Inv, Incidents, Closed
<1>6. ASSUME UNCHANGED stops PROVE TypeOK' /\ Copies' /\ Protected'
  BY <1>1, <1>2, <1>3, <1>6, HeldBase, StopsKept DEF TypeOK, Replaced
<1>7. ASSUME MyStop(w) = "live", stops' = [stops EXCEPT ![mem[w].stop].state = "cancelled"]
      PROVE  TypeOK' /\ Copies' /\ Protected'
  <2>1. /\ stops' \in [StopId -> [state: StopState, level: Level]]
        /\ Working' = {} /\ Sent' = {} /\ Armed' = Armed
        /\ \A j \in StopId :
             /\ stops'[j].level = stops[j].level
             /\ stops'[j].state = "none" <=> stops[j].state = "none"
             /\ stops[j].state \notin {"none", "sent"} => stops'[j].state \notin {"none", "sent"}
             /\ stops'[j].state # "failed"
    BY <1>2, <1>7, CancelMoves
  <2>2. TypeOK' /\ Copies'
    BY <1>1, <1>2, <1>3, <2>1, HeldBase, SameCopies DEF TypeOK
  <2>3. Protected'
    BY <1>3, <2>1 DEF Inv, Protected
  <2> QED
    BY <2>2, <2>3
<1> QED
  BY <1>1, <1>3, <1>4, <1>5, <1>6, <1>7, HeldKeeps

(***************************************************************************)
(* The invariant holds.                                                    *)
(***************************************************************************)
LEMMA InitInv == Init => Inv
<1> SUFFICES ASSUME Init PROVE Inv
  OBVIOUS
<1> USE ConstantsAssumption
<1>1. 0 \in StopId /\ 0 \in Level /\ 0 \in Revision /\ 0 \in Attempt /\ 0 \in 0..MaxAttempt + 1
  BY DEF StopId, RollbackStop, Level, Revision, Attempt
<1>2. /\ stops \in [StopId -> [state: StopState, level: Level]]
      /\ \A i \in StopId : stops[i].state = (IF i = 0 THEN "live" ELSE "none") /\ stops[i].level = 0
  BY <1>1 DEF Init, InitialStop, StopState
<1>3. Working = {0} /\ Sent = {} /\ Armed = {0}
  BY <1>1, <1>2 DEF Working, Live, Sent, Armed
<1>4. doc \in Position /\ Copied(doc)
  BY <1>1, <1>2 DEF Init, Copied, Position, InitialStop
<1>5. pc = [w \in Worker |-> "idle"] /\ lock = Nil /\ reserved = {0} /\ close = [a \in Attempt |-> "none"]
  BY DEF Init, InitialStop
<1>6. incident \in [StopId -> [state: IncidentState, attempt: Attempt]]
      /\ \A i \in StopId : incident[i].state = "open"
  BY <1>1 DEF Init, IncidentState
<1>7. TypeOK
  BY <1>1, <1>2, <1>4, <1>5, <1>6 DEF Init, TypeOK, Label
<1>8. Locked /\ Copies
  BY <1>4, <1>5 DEF Locked, Copies, Held, Replaced, Closed
<1>9. Protected
  BY <1>1, <1>2, <1>3, <1>5 DEF Protected
<1>10. Closes /\ Incidents
  BY <1>5, <1>6 DEF Closes, Incidents
<1>11. \A w \in Worker : Replaces(w) /\ Recovers(w)
  BY <1>5 DEF Replaces, Recovers, Replaced, Bare, Awaits
<1> QED
  BY <1>7, <1>8, <1>9, <1>10, <1>11 DEF Inv

LEMMA HeldStepKeeps ==
    ASSUME Inv, NEW w \in Worker, HeldStep(w)
    PROVE  Inv'
BY QuietKeeps, ReserveStopsKeeps, CancelStopKeeps, CreateStopKeeps, StopArmedKeeps,
   JudgeEligibleKeeps, ReserveCloseKeeps, CloseNotSentKeeps, CloseSentKeeps, CancelCrossedKeeps
   DEF HeldStep, ReplaceStep, RecoverStep, CrossStep, QuietStep

LEMMA IdleKeeps ==
    ASSUME Inv, UNCHANGED vars
    PROVE  Inv'
<1>1. UNCHANGED <<doc, lock, incident, reserved, closeReserved, told, pc, mem, attempt,
                  stops, close, position>>
  BY DEF vars, redis, workers, exchange
<1>2. \A w \in Worker : Replaces(w)' /\ Recovers(w)'
  BY <1>1 DEF Inv, Replaces, Recovers, Fresh, Creating, Working, Live, Sent, Armed
<1>3. Protected' /\ Closes' /\ Incidents'
  BY <1>1 DEF Inv, Protected, Closes, Incidents, Working, Live, Sent, Armed
<1>4. TypeOK' /\ Locked' /\ Copies'
  BY <1>1 DEF Inv, TypeOK, Locked, Copies, Copied
<1> QED
  BY <1>2, <1>3, <1>4 DEF Inv

\* Inv is an invariant.
THEOREM Invariance == Spec => []Inv
<1>1. Inv /\ [Next]_vars => Inv'
  BY Kinds, ExchangeKeeps, OutsideKeeps, HeldStepKeeps, IdleKeeps
<1> QED
  BY <1>1, InitInv, PTL DEF Spec

(***************************************************************************)
(* What is promised.                                                       *)
(***************************************************************************)
\* Every variable keeps its type.
THEOREM Typing == Spec => []TypeOK
<1>1. Inv => TypeOK
  BY DEF Inv
<1> QED
  BY <1>1, Invariance, PTL

(***************************************************************************)
(* broker.py:7078: at most one stop works, or is about to, although every  *)
(* worker replaces the stop of its own copy of the entry.                  *)
(***************************************************************************)
THEOREM SingleStop == Spec => []OneStop
<1>1. Inv => OneStop
  <2> SUFFICES ASSUME Inv PROVE Cardinality(Working) <= 1
    BY DEF OneStop, Working
  <2>1. \A i, j \in Working : i = j
    BY DEF Inv, Protected
  <2>2. CASE Working = {}
    BY <2>2, FS_EmptySet
  <2>3. ASSUME NEW i \in Working PROVE Cardinality(Working) <= 1
    <3>1. Working = {i}
      BY <2>1
    <3> QED
      BY <3>1, FS_Singleton
  <2> QED
    BY <2>2, <2>3
<1> QED
  BY <1>1, Invariance, PTL

(***************************************************************************)
(* The stop that works is never looser than one that was armed before it.  *)
(***************************************************************************)
THEOREM ProtectionTightens == Spec => []NeverLoosened
<1>1. Inv => NeverLoosened
  BY DEF Inv, Protected, NeverLoosened, Working, Armed
<1> QED
  BY <1>1, Invariance, PTL

(***************************************************************************)
(* falcon.py, falcon_terminal_stop_acquire_lifecycle_lock: one market      *)
(* order at most closes the leg, in whatever attempt and on either path.   *)
(***************************************************************************)
THEOREM SingleClose == Spec => []OneClose
<1>1. Inv => OneClose
  <2> DEFINE S == {a \in Attempt : close[a] # "none"}
  <2> SUFFICES ASSUME Inv PROVE Cardinality(S) <= 1
    BY DEF OneClose
  <2>1. \A a, b \in S : a = b
    BY DEF Inv, Closes
  <2> HIDE DEF S
  <2>2. CASE S = {}
    BY <2>2, FS_EmptySet
  <2>3. ASSUME NEW a \in S PROVE Cardinality(S) <= 1
    <3>1. S = {a}
      BY <2>1
    <3> QED
      BY <3>1, FS_Singleton
  <2> QED
    BY <2>2, <2>3
<1> QED
  BY <1>1, Invariance, PTL

(***************************************************************************)
(* When the emergency's market order leaves, no stop works or is on its    *)
(* way, although the orders were scanned two steps earlier.                *)
(***************************************************************************)
THEOREM UnprotectedWhenClosed == Spec => EmergencyOnlyUnprotected
<1>1. Inv => \A w \in Worker : SendClose(w) => Live \union Sent = {}
  BY DEF Inv, Recovers, SendClose, At, Working
<1>2. Inv /\ [Next]_vars => [\A w \in Worker : SendClose(w) => Live \union Sent = {}]_vars
  BY <1>1
<1> QED
  BY <1>2, Invariance, PTL DEF Spec, EmergencyOnlyUnprotected

(***************************************************************************)
(* No stop is created once a close was sent.                               *)
(***************************************************************************)
THEOREM ClosedForGood == Spec => NoStopAfterClose
<1>1. ASSUME Inv, [Next]_vars, NEW i \in StopId,
             stops[i].state = "none", stops'[i].state = "sent"
      PROVE  \A a \in Attempt : close[a] = "none"
  <2>1. CASE ExchangeStep
    BY <1>1, <2>1, ExchangeMoves DEF Inv
  <2>2. CASE UNCHANGED vars
    BY <1>1, <2>2 DEF vars, exchange
  <2>3. ASSUME NEW w \in Worker, OutsideStep(w) PROVE UNCHANGED stops
    BY <1>1, <2>3, OutsideMoves DEF Inv, exchange
  <2>4. ASSUME NEW w \in Worker, HeldStep(w) PROVE \A a \in Attempt : close[a] = "none"
    <3>1. CASE pc[w] \notin Closed
      BY <1>1, <2>4, <3>1, HeldBase DEF Inv, Closes
    <3>2. CASE pc[w] \in Closed
      <4>1. AwaitClose(w) \/ AwaitCrossed(w)
        BY <2>4, <3>2 DEF Closed, HeldStep, ReplaceStep, ReplaceUnauthorised, ReserveStops,
           CancelStop, Recheck, CreateStop, CreateFails, StopArmed, StopNotArmed, StopRaised,
           Awaiting, RecoverStep, JudgeUnreadable, JudgeBlocked, JudgeEligible, Revalidate,
           ReserveClose, SendClose, CloseNotSent, CrossStep, CancelCrossed, RecheckCrossed,
           ReserveCrossed, SendCrossed, CrossedNotSent, At
      <4> QED
        BY <1>1, <4>1 DEF AwaitClose, AwaitCrossed, exchange
    <3> QED
      BY <3>1, <3>2
  <2> QED
    BY <1>1, <2>1, <2>2, <2>3, <2>4, Kinds
<1>2. Inv /\ [Next]_vars =>
        [\A i \in StopId : stops[i].state = "none" /\ stops'[i].state = "sent"
                             => \A a \in Attempt : close[a] = "none"]_vars
  BY <1>1
<1> QED
  BY <1>2, Invariance, PTL DEF Spec, NoStopAfterClose
=============================================================================
