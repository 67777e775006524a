-------------------------- MODULE TradeRegistryProofs --------------------------
(***************************************************************************)
(* Which execution a record of the Trade Registry is about, for any number *)
(* of executions that use one trade_id, of autosync threads, of outcomes,  *)
(* of failures and restarts.                                               *)
(*                                                                         *)
(* The argument: an execution enters once, so what has left the exchange   *)
(* stays away, and whatever a thread or a request still remembers as gone  *)
(* is gone (Gone).  The scanner alone writes a record with an identity, at *)
(* a moment when there is none (Fresh), and every close moves that record. *)
(***************************************************************************)
EXTENDS TradeRegistry, SequenceTheorems, TLAPS

Known ==
  /\ pos \in Position => pos.life \in entered
  /\ manage.copy \in Position => manage.copy.life \in entered
  /\ manage.at \in {"verify", "act", "close"} => manage.copy \in Position
  /\ scan.at \in {"register", "save"} => scan.life \in entered
  /\ missing.at = "close" => missing.life \in entered
  /\ flat.at # "idle" => flat.life \in entered

Gone ==
  /\ pos \in Position /\ pos.flat => pos.life \notin live
  /\ manage.copy \in Position /\ manage.copy.flat => manage.copy.life \notin live
  /\ missing.at = "close" => missing.life \notin live
  /\ flat.at # "idle" => flat.life \notin live

Recorded ==
  /\ open # None /\ open.life # None => open.life \in entered
  /\ \A i \in DOMAIN closed : closed[i].life # None => closed[i].life \in entered

Fresh ==
  scan.at = "register" =>
    ~OpenIs(scan.life) /\ \A i \in DOMAIN closed : closed[i].life # scan.life

Reconciled(i) == closed[i].reason \in {"missing", "flat"}

Unknown ==
  /\ \A i \in DOMAIN closed :
       Reconciled(i) => closed[i].outcome # "factual" /\ closed[i].life # None
  /\ manual.at # "idle" =>
       /\ manual.event \in Event
       /\ \E i \in DOMAIN closed : closed[i].life = manual.life /\ Reconciled(i)

Records == FlatWhenReconciled /\ LifecycleOnce /\ Recorded /\ Fresh /\ Unknown
IInv == TypeOK /\ Known /\ Gone /\ Records

-----------------------------------------------------------------------------
LEMMA AppendClosed ==
    ASSUME closed \in Seq(Closed), NEW r \in Closed, closed' = Append(closed, r)
    PROVE  /\ closed' \in Seq(Closed)
           /\ DOMAIN closed' = DOMAIN closed \union {Len(closed) + 1}
           /\ Len(closed) + 1 \notin DOMAIN closed
           /\ \A i \in DOMAIN closed : closed'[i] = closed[i]
           /\ closed'[Len(closed) + 1] = r
<1>1. /\ closed' \in Seq(Closed) /\ Len(closed') = Len(closed) + 1
      /\ \A i \in 1..Len(closed) : closed'[i] = closed[i]
      /\ closed'[Len(closed) + 1] = r
  BY AppendProperties
<1>2. Len(closed) \in Nat /\ DOMAIN closed = 1..Len(closed) /\ DOMAIN closed' = 1..Len(closed')
  BY <1>1, LenProperties
<1> QED
  BY <1>1, <1>2

LEMMA ClosedType ==
    ASSUME closed \in Seq(Closed), NEW i \in DOMAIN closed
    PROVE  closed[i] \in Closed
BY ElementOfSeq, LenProperties

\* The records of a step that writes none of them.
LEMMA RecordsKept ==
    ASSUME TypeOK, Records, UNCHANGED registry,
           entered \subseteq entered',
           \A x \in live' : x \in live \/ x \notin entered,
           scan'.at = "register" =>
             scan' = scan \/ scan'.life \in Execution \ entered,
           manual'.at # "idle" =>
             /\ manual'.event \in Event
             /\ \E i \in DOMAIN closed : closed[i].life = manual'.life /\ Reconciled(i)
    PROVE  Records'
<1> USE DEF registry, Records
<1>1. FlatWhenReconciled'
  BY DEF FlatWhenReconciled, Recorded, Unknown, Reconciled
<1>2. LifecycleOnce' /\ Recorded'
  BY DEF LifecycleOnce, OpenIs, Recorded
<1>3. Fresh'
  BY RegistryAssumption DEF Fresh, OpenIs, Recorded
<1>4. Unknown'
  BY DEF Unknown, Reconciled
<1> QED
  BY <1>1, <1>2, <1>3, <1>4

\* The records of a close: of the OPEN record, or of nobody.
LEMMA RecordsClosed ==
    ASSUME TypeOK, Known, Records, NEW r \in Closed, Pop(r),
           r.life # None => OpenIs(r.life),
           r.reason \in {"missing", "flat"} =>
             r.life # None /\ r.life \notin live /\ r.outcome # "factual",
           UNCHANGED <<live, entered, scan, manual>>
    PROVE  Records'
<1>1. CASE UNCHANGED registry
  BY <1>1, RecordsKept DEF Records, Unknown
<1>2. CASE open' = None /\ closed' = Append(closed, r)
  <2> DEFINE n == Len(closed) + 1
  <2>1. /\ DOMAIN closed' = DOMAIN closed \union {n} /\ n \notin DOMAIN closed
        /\ \A i \in DOMAIN closed : closed'[i] = closed[i]
        /\ closed'[n] = r
    BY <1>2, AppendClosed DEF TypeOK
  <2> HIDE DEF n
  <2>2. FlatWhenReconciled'
    BY <2>1 DEF Records, FlatWhenReconciled
  <2>3. LifecycleOnce'
    BY <1>2, <2>1 DEF Records, LifecycleOnce, OpenIs
  <2>4. Recorded'
    BY <1>2, <2>1 DEF Records, Recorded, OpenIs
  <2>5. Fresh'
    <3>1. SUFFICES ASSUME scan.at = "register"
                   PROVE  \A i \in DOMAIN closed' : closed'[i].life # scan.life
      BY <1>2 DEF Fresh, OpenIs
    <3>2. r.life # scan.life
      <4>1. scan.life # None
        BY <3>1, RegistryAssumption DEF Known, TypeOK
      <4> QED
        BY <3>1, <4>1 DEF Records, Fresh
    <3> QED
      BY <2>1, <3>1, <3>2 DEF Records, Fresh
  <2>6. Unknown'
    BY <2>1 DEF Records, Unknown, Reconciled
  <2> QED
    BY <2>2, <2>3, <2>4, <2>5, <2>6 DEF Records
<1> QED
  BY <1>1, <1>2 DEF Pop, Save, registry

-----------------------------------------------------------------------------
\* What threads and requests remember, when no execution enters or leaves.
RegistryTyped ==
  open' \in Open \union {None} /\ closed' \in Seq(Closed) /\ faults' \in 0..MaxFaults

LEMMA SaveTyped ==
    ASSUME TypeOK, NEW o \in Open \union {None}, NEW c \in Seq(Closed), Save(o, c)
    PROVE  RegistryTyped
BY RegistryAssumption DEF RegistryTyped, Save, registry, NoFault, Fault, TypeOK

LEMMA PopTyped ==
    ASSUME TypeOK, NEW r \in Closed, Pop(r)
    PROVE  RegistryTyped
<1>1. Append(closed, r) \in Seq(Closed)
  BY AppendProperties DEF TypeOK
<1> QED
  BY <1>1, SaveTyped DEF Pop

LEMMA ReadTyped ==
    ASSUME TypeOK, NEW found, ReadPosition(found)
    PROVE  faults' \in 0..MaxFaults /\ (found = pos \/ found = None)
BY RegistryAssumption DEF ReadPosition, NoFault, Fault, TypeOK

LEMMA ScannerHolds ==
    ASSUME TypeOK, Known, Gone,
           \/ ScanStart \/ ScanEnd \/ Register \/ SavePosition
           \/ \E x \in Execution : Enter(x)
    PROVE  TypeOK' /\ Known' /\ Gone'
<1> USE RegistryAssumption DEF exchange, falcon, routes
<1>1. CASE ScanStart
  <2>1. PICK found : ReadPosition(found) /\ scan' = [ScanIdle EXCEPT !.at = "look", !.copy = found]
    BY <1>1 DEF ScanStart
  <2>2. /\ found \in Position \union {None} /\ faults' \in 0..MaxFaults
    BY <2>1, ReadTyped DEF TypeOK
  <2>3. scan' \in Scan /\ scan'.at = "look"
    BY <2>1, <2>2 DEF Scan, ScanIdle
  <2>4. UNCHANGED <<registry, falcon, exchange, manage, sync, routes>>
    BY <1>1 DEF ScanStart
  <2> QED
    BY <2>2, <2>3, <2>4 DEF registry, TypeOK, Known, Gone
<1>2. CASE ScanEnd
  <2>1. scan' \in Scan /\ scan'.at = "idle"
    BY <1>2 DEF ScanEnd, Scan, ScanIdle
  <2> QED
    BY <1>2, <2>1 DEF ScanEnd, registry, TypeOK, Known, Gone
<1>3. CASE Register
  <2>1. [life |-> scan.life, missing |-> FALSE] \in Open
    BY DEF Open, Scan, TypeOK
  <2>2. RegistryTyped
    BY <1>3, <2>1, SaveTyped DEF Register, TypeOK
  <2>3. scan' \in Scan /\ scan'.life \in entered
    BY <1>3 DEF Register, Scan, TypeOK, Known
  <2> QED
    BY <1>3, <2>2, <2>3 DEF Register, RegistryTyped, TypeOK, Known, Gone
<1>4. CASE SavePosition
  <2>1. scan.life \in entered
    BY <1>4 DEF SavePosition, Known
  <2> DEFINE new == [life |-> scan.life, flat |-> FALSE]
  <2>2. /\ new \in Position /\ new.life \in entered /\ ~new.flat
        /\ pos' = pos \/ pos' = new
    <3>1. new \in Position /\ new.life \in entered /\ ~new.flat
      BY <2>1 DEF Position, TypeOK
    <3> QED
      BY <1>4, <3>1 DEF SavePosition
  <2> HIDE DEF new
  <2>3. faults' \in 0..MaxFaults
    BY <1>4 DEF SavePosition, NoFault, Fault, TypeOK
  <2>4. scan' \in Scan /\ scan'.at = "idle"
    BY <1>4 DEF SavePosition, Scan, ScanIdle
  <2> QED
    BY <1>4, <2>2, <2>3, <2>4 DEF SavePosition, registry, TypeOK, Known, Gone
<1>5. ASSUME NEW x \in Execution, Enter(x)
      PROVE  TypeOK' /\ Known' /\ Gone'
  <2>1. scan' \in Scan /\ scan'.life = x
    BY <1>5 DEF Enter, Scan, TypeOK
  <2>2. /\ entered' = entered \union {x} /\ live' = live \union {x} /\ x \notin entered
        /\ UNCHANGED <<registry, falcon, manage, sync, routes, faults>>
    BY <1>5 DEF Enter
  <2> QED
    BY <2>1, <2>2 DEF registry, TypeOK, Known, Gone
<1> QED
  BY <1>1, <1>2, <1>3, <1>4, <1>5

LEMMA ManagerHolds ==
    ASSUME TypeOK, Known, Gone,
           ManageStart \/ Verify \/ Hold \/ CloseLeg \/ CloseTrade \/ ManageEnd
    PROVE  TypeOK' /\ Known' /\ Gone'
<1> USE RegistryAssumption DEF exchange, falcon, routes
<1>1. CASE ManageStart
  <2>1. PICK found : /\ ReadPosition(found)
                     /\ manage' = [at |-> IF found = None THEN "end" ELSE "verify", copy |-> found]
    BY <1>1 DEF ManageStart
  <2>2. /\ found \in Position \union {None} /\ faults' \in 0..MaxFaults
        /\ found = pos \/ found = None
    BY <2>1, ReadTyped DEF TypeOK
  <2>3. /\ manage' \in Manage /\ manage'.copy = found
        /\ manage'.at # "end" => found \in Position
    BY <2>1, <2>2 DEF Manage
  <2>4. UNCHANGED <<registry, falcon, exchange, scan, sync, routes>>
    BY <1>1 DEF ManageStart
  <2> QED
    BY <2>1, <2>2, <2>3, <2>4 DEF registry, TypeOK, Known, Gone
<1>2. CASE Verify
  <2>1. manage.copy \in Position
    BY <1>2 DEF Verify, Known, TypeOK, Manage
  <2>2. /\ manage' \in Manage /\ manage'.copy.life = manage.copy.life
        /\ manage'.copy \in Position
    <3>1. \A b \in BOOLEAN : /\ [manage.copy EXCEPT !.flat = b] \in Position
                            /\ [manage.copy EXCEPT !.flat = b].life = manage.copy.life
      BY <2>1 DEF Position
    <3>2. PICK b \in BOOLEAN, step \in {"act", "end"} :
            manage' = [at |-> step, copy |-> [manage.copy EXCEPT !.flat = b]]
      BY <1>2 DEF Verify
    <3> QED
      BY <3>1, <3>2 DEF Manage
  <2>3. manage'.copy.flat => live = {}
    BY <1>2, <2>1 DEF Verify, Position
  <2>4. manage.copy.life \in entered
    BY <1>2, <2>1 DEF Verify, Known
  <2> QED
    BY <1>2, <2>1, <2>2, <2>3, <2>4 DEF Verify, registry, TypeOK, Known, Gone
<1>3. CASE Hold
  <2>1. manage' \in Manage /\ manage'.at = "end" /\ manage'.copy = manage.copy
    BY <1>3 DEF Hold, Manage, TypeOK
  <2> QED
    BY <1>3, <2>1 DEF Hold, registry, TypeOK, Known, Gone
<1>4. CASE CloseLeg
  <2>1. manage' \in Manage /\ manage'.copy = manage.copy
    BY <1>4 DEF CloseLeg, Manage, TypeOK
  <2> QED
    BY <1>4, <2>1 DEF CloseLeg, registry, TypeOK, Known, Gone
<1>5. CASE CloseTrade
  <2>1. \A life \in Execution \union {None} : Record(life, "bot", "factual") \in Closed
    BY DEF Record, Closed
  <2>2. manage.copy.life \in Execution
    BY <1>5 DEF CloseTrade, Known, TypeOK
  <2>3. RegistryTyped
    BY <1>5, <2>1, <2>2, PopTyped DEF CloseTrade, RegistryTyped, registry, NoFault, TypeOK
  <2>4. manage' \in Manage /\ manage'.at = "end" /\ manage'.copy = None
    BY <1>5 DEF CloseTrade, Manage
  <2> QED
    BY <1>5, <2>3, <2>4 DEF CloseTrade, RegistryTyped, TypeOK, Known, Gone
<1>6. CASE ManageEnd
  <2>1. manage' \in Manage /\ manage'.at = "idle" /\ manage'.copy = None
    BY <1>6 DEF ManageEnd, Manage, ManageIdle
  <2>2. pos' = pos \/ pos' = None \/ pos' = manage.copy
    BY <1>6 DEF ManageEnd
  <2>3. faults' \in 0..MaxFaults /\ manage.copy \in Position \union {None}
    BY <1>6 DEF ManageEnd, NoFault, Fault, TypeOK, Manage
  <2> QED
    BY <1>6, <2>1, <2>2, <2>3 DEF ManageEnd, registry, TypeOK, Known, Gone
<1> QED
  BY <1>1, <1>2, <1>3, <1>4, <1>5, <1>6

LEMMA SyncHolds ==
    ASSUME TypeOK, Known, Gone, NEW t \in Thread,
           SyncIds(t) \/ SyncMap(t) \/ SyncPositions(t) \/ SyncRegister(t) \/ SyncMark(t)
    PROVE  TypeOK' /\ Known' /\ Gone'
<1>1. UNCHANGED <<falcon, exchange, scan, manage, routes>>
  BY DEF SyncIds, SyncMap, SyncPositions, SyncRegister, SyncMark
<1>2. Known' /\ Gone'
  BY <1>1 DEF falcon, exchange, routes, Known, Gone
<1>3. SyncIdle \in Sync
  BY DEF SyncIdle, Sync
<1>4. sync' \in [Thread -> Sync]
  <2>1. CASE SyncIds(t)
    <3>1. [at |-> "map", known |-> open # None, map |-> None] \in Sync
      BY DEF Sync
    <3> QED
      BY <2>1, <3>1 DEF SyncIds, TypeOK
  <2>2. CASE SyncMap(t)
    <3>1. [sync[t] EXCEPT !.at = "positions", !.map = open] \in Sync
      BY DEF Sync, TypeOK
    <3> QED
      BY <2>2, <3>1 DEF SyncMap, TypeOK
  <2>3. CASE SyncPositions(t)
    <3>1. \A step \in {"register", "mark"} :
            [sync[t] EXCEPT !.at = step, !.known = FALSE] \in Sync
      BY DEF Sync, TypeOK
    <3> QED
      BY <1>3, <2>3, <3>1 DEF SyncPositions, Goto, SyncEnds, TypeOK
  <2>4. CASE SyncRegister(t) \/ SyncMark(t)
    BY <1>3, <2>4 DEF SyncRegister, SyncMark, SyncEnds, TypeOK
  <2> QED
    BY <2>1, <2>2, <2>3, <2>4
<1>5. RegistryTyped
  <2>1. CASE SyncIds(t) \/ SyncMap(t)
    BY <2>1 DEF SyncIds, SyncMap, registry, RegistryTyped, TypeOK
  <2>2. CASE SyncPositions(t)
    BY <2>2, ReadTyped DEF SyncPositions, registry, RegistryTyped, TypeOK
  <2>3. CASE SyncRegister(t)
    <3>1. [life |-> None, missing |-> FALSE] \in Open
      BY DEF Open
    <3> QED
      BY <2>3, <3>1, SaveTyped DEF SyncRegister, TypeOK
  <2>4. CASE SyncMark(t)
    <3>1. open # None => [open EXCEPT !.missing = TRUE] \in Open
      BY DEF Open, TypeOK
    <3> QED
      BY <2>4, <3>1, SaveTyped DEF SyncMark, registry, NoFault, RegistryTyped, TypeOK
  <2> QED
    BY <2>1, <2>2, <2>3, <2>4
<1> QED
  BY <1>1, <1>2, <1>4, <1>5 DEF falcon, exchange, routes, RegistryTyped, TypeOK

LEMMA RoutesHold ==
    ASSUME TypeOK, Known, Gone, LifecycleOnce, Unknown,
           \/ \E x \in Execution : \/ MissingRead(x) \/ \E e \in Event : ManualRead(x, e)
           \/ MissingClose \/ FlatRead \/ FlatMatch \/ FlatClose \/ FlatRemove
           \/ ManualPositions \/ ManualRecord
    PROVE  TypeOK' /\ Known' /\ Gone'
<1> USE RegistryAssumption DEF exchange, falcon, routes
<1>1. ASSUME NEW x \in Execution, MissingRead(x)
      PROVE  TypeOK' /\ Known' /\ Gone'
  <2>1. missing' \in Missing /\ missing'.life = x
    BY <1>1 DEF MissingRead, Missing
  <2> QED
    BY <1>1, <2>1 DEF MissingRead, registry, TypeOK, Known, Gone
<1>2. ASSUME NEW x \in Execution, NEW e \in Event, ManualRead(x, e)
      PROVE  TypeOK' /\ Known' /\ Gone'
  <2>1. manual' \in Manual
    BY <1>2 DEF ManualRead, Manual
  <2> QED
    BY <1>2, <2>1 DEF ManualRead, registry, TypeOK, Known, Gone
<1>3. CASE MissingClose
  <2>1. Record(missing.life, "missing", "unknown") \in Closed
    BY DEF Record, Closed, Missing, TypeOK
  <2>2. RegistryTyped
    BY <1>3, <2>1, PopTyped DEF MissingClose, RegistryTyped, registry, NoFault, TypeOK
  <2>3. missing' \in Missing /\ missing'.at = "idle"
    BY <1>3 DEF MissingClose, Missing, RouteIdle
  <2> QED
    BY <1>3, <2>2, <2>3 DEF MissingClose, RegistryTyped, TypeOK, Known, Gone
<1>4. CASE FlatRead
  <2>1. pos \in Position
    BY <1>4 DEF FlatRead, TypeOK
  <2>2. flat' \in Flat /\ flat'.life = pos.life
    BY <1>4, <2>1 DEF FlatRead, Flat, Position
  <2> QED
    BY <1>4, <2>1, <2>2 DEF FlatRead, registry, TypeOK, Known, Gone
<1>5. CASE FlatMatch
  <2>1. flat' \in Flat /\ (flat'.at # "idle" => flat'.life = flat.life)
    BY <1>5 DEF FlatMatch, Flat, RouteIdle, TypeOK
  <2> QED
    BY <1>5, <2>1 DEF FlatMatch, registry, TypeOK, Known, Gone
<1>6. CASE FlatClose
  <2>1. Record(flat.life, "flat", "unknown") \in Closed
    BY DEF Record, Closed, Flat, TypeOK
  <2>2. RegistryTyped
    BY <1>6, <2>1, PopTyped DEF FlatClose, RegistryTyped, registry, NoFault, TypeOK
  <2>3. flat' \in Flat /\ (flat'.at # "idle" => flat'.life = flat.life)
    BY <1>6 DEF FlatClose, Flat, RouteIdle, TypeOK
  <2> QED
    BY <1>6, <2>2, <2>3 DEF FlatClose, RegistryTyped, TypeOK, Known, Gone
<1>7. CASE FlatRemove
  <2>1. flat' \in Flat /\ flat'.at = "idle" /\ flat.life \in entered
    BY <1>7 DEF FlatRemove, Flat, RouteIdle, Known
  <2>2. (pos' = pos \/ pos' = None) /\ tombs' \subseteq entered
    BY <1>7, <2>1 DEF FlatRemove, TypeOK
  <2> QED
    BY <1>7, <2>1, <2>2 DEF FlatRemove, registry, TypeOK, Known, Gone
<1>8. CASE ManualPositions
  <2>1. manual' \in Manual
    BY <1>8 DEF ManualPositions, Manual, ManualIdle, TypeOK
  <2>2. faults' \in 0..MaxFaults
    BY <1>8, ReadTyped DEF ManualPositions
  <2> QED
    BY <1>8, <2>1, <2>2 DEF ManualPositions, registry, TypeOK, Known, Gone
<1>9. CASE ManualRecord
  <2>1. manual' \in Manual
    BY <1>9 DEF ManualRecord, Manual, ManualIdle
  <2>2. RegistryTyped
    <3>1. CASE UNCHANGED registry /\ NoFault
      BY <3>1 DEF registry, NoFault, RegistryTyped, TypeOK
    <3>2. ASSUME NEW i \in DOMAIN closed,
                 Save(open, [closed EXCEPT ![i].outcome = manual.event])
          PROVE  RegistryTyped
      <4>1. manual.event \in Event
        BY <1>9 DEF ManualRecord, Unknown
      <4>2. [closed[i] EXCEPT !.outcome = manual.event] \in Closed
        BY <4>1, ClosedType DEF Closed, TypeOK
      <4>3. [closed EXCEPT ![i].outcome = manual.event] \in Seq(Closed)
        BY <4>2, ExceptSeq, LenProperties DEF TypeOK
      <4> QED
        BY <3>2, <4>3, SaveTyped DEF TypeOK
    <3> QED
      BY <1>9, <3>1, <3>2 DEF ManualRecord, OfExecution
  <2> QED
    BY <1>9, <2>1, <2>2 DEF ManualRecord, RegistryTyped, TypeOK, Known, Gone
<1> QED
  BY <1>1, <1>2, <1>3, <1>4, <1>5, <1>6, <1>7, <1>8, <1>9

LEMMA Holds ==
    ASSUME TypeOK, Known, Gone, LifecycleOnce, Unknown, [Next]_vars
    PROVE  TypeOK' /\ Known' /\ Gone'
<1>1. CASE Recover
  <2>1. Record(None, "recovered", "factual") \in Closed
    BY DEF Record, Closed
  <2>2. RegistryTyped
    BY <1>1, <2>1, PopTyped DEF Recover
  <2> QED
    BY <1>1, <2>2 DEF Recover, RegistryTyped, exchange, falcon, routes, TypeOK, Known, Gone
<1>2. ASSUME NEW x \in Execution, LegGone(x)
      PROVE  TypeOK' /\ Known' /\ Gone'
  BY <1>2 DEF LegGone, registry, falcon, routes, TypeOK, Known, Gone
<1>3. CASE Restart
  <2>1. /\ scan' \in Scan /\ manage' \in Manage /\ sync' \in [Thread -> Sync]
        /\ missing' \in Missing /\ flat' \in Flat /\ manual' \in Manual
    BY <1>3 DEF Restart, Scan, ScanIdle, Manage, ManageIdle, Sync, SyncIdle,
       Missing, Flat, RouteIdle, Manual, ManualIdle
  <2>2. /\ scan'.at = "idle" /\ manage'.at = "idle" /\ manage'.copy \notin Position
        /\ missing'.at = "idle" /\ flat'.at = "idle"
    BY <1>3, RegistryAssumption DEF Restart, ScanIdle, ManageIdle, RouteIdle
  <2>3. faults' \in 0..MaxFaults
    BY <1>3, RegistryAssumption DEF Restart, Fault, TypeOK
  <2> QED
    BY <1>3, <2>1, <2>2, <2>3 DEF Restart, registry, falcon, exchange, TypeOK, Known, Gone
<1>4. CASE UNCHANGED vars
  BY <1>4 DEF vars, registry, falcon, exchange, routes, TypeOK, Known, Gone
<1> QED
  BY <1>1, <1>2, <1>3, <1>4, ScannerHolds, ManagerHolds, SyncHolds, RoutesHold DEF Next

-----------------------------------------------------------------------------
LEMMA RecordsHold ==
    ASSUME TypeOK, Known, Gone, Records, [Next]_vars
    PROVE  Records'
<1> USE DEF exchange, routes
<1>1. CASE Register
  <2>1. UNCHANGED <<closed, live, entered, manual>> /\ scan'.at # "register"
    BY <1>1 DEF Register, Save, registry, TypeOK, Scan
  <2>2. open' = open \/ open' = [life |-> scan.life, missing |-> FALSE]
    BY <1>1 DEF Register, Save, registry
  <2>3. scan.life \in entered /\ \A i \in DOMAIN closed : closed[i].life # scan.life
    BY <1>1 DEF Register, Known, Records, Fresh
  <2>4. FlatWhenReconciled' /\ Unknown' /\ Fresh'
    BY <2>1 DEF Records, FlatWhenReconciled, Unknown, Reconciled, Fresh
  <2>5. LifecycleOnce' /\ Recorded'
    BY <2>1, <2>2, <2>3 DEF Records, LifecycleOnce, Recorded, OpenIs
  <2> QED
    BY <2>4, <2>5 DEF Records
<1>2. ASSUME NEW t \in Thread, SyncRegister(t) \/ SyncMark(t)
      PROVE  Records'
  <2>1. UNCHANGED <<closed, live, entered, scan, manual>>
    BY <1>2 DEF SyncRegister, SyncMark, Save, registry
  <2>2. \/ open' = open
        \/ open # None /\ open'.life = open.life
        \/ open'.life = None
    <3>1. CASE SyncRegister(t)
      <4>1. open' = open \/ open' = [life |-> None, missing |-> FALSE]
        BY <3>1 DEF SyncRegister, Save, registry
      <4> QED
        BY <4>1
    <3>2. CASE SyncMark(t)
      <4>1. open' = open \/ (open # None /\ open' = [open EXCEPT !.missing = TRUE])
        BY <3>2 DEF SyncMark, Save, registry
      <4> QED
        BY <4>1 DEF TypeOK, Open
    <3> QED
      BY <1>2, <3>1, <3>2
  <2>3. FlatWhenReconciled' /\ Unknown'
    BY <2>1 DEF Records, FlatWhenReconciled, Unknown, Reconciled
  <2>4. LifecycleOnce' /\ Recorded'
    <3>1. \A x \in Execution : OpenIs(x)' => OpenIs(x)
      BY <2>2, RegistryAssumption DEF OpenIs
    <3>2. open' # None /\ open'.life # None => open # None /\ open'.life = open.life
      BY <2>2
    <3>3. \A i \in DOMAIN closed : closed[i].life # None => closed[i].life \in Execution
      BY ClosedType DEF Closed, TypeOK
    <3> QED
      BY <2>1, <3>1, <3>2, <3>3 DEF Records, LifecycleOnce, Recorded
  <2>5. Fresh'
    <3>1. scan.at = "register" => scan.life # None
      BY RegistryAssumption DEF Known, TypeOK
    <3> QED
      BY <2>1, <2>2, <3>1 DEF Records, Fresh, OpenIs
  <2> QED
    BY <2>3, <2>4, <2>5 DEF Records
<1>3. CASE CloseTrade
  <2>1. \A life \in Execution \union {None} : Record(life, "bot", "factual") \in Closed
    BY DEF Record, Closed
  <2>2. manage.copy.life \in Execution
    BY <1>3 DEF CloseTrade, Known, TypeOK
  <2>3. UNCHANGED <<live, entered, scan, manual>>
    BY <1>3 DEF CloseTrade
  <2>4. CASE UNCHANGED registry
    BY <2>3, <2>4, RecordsKept DEF Records, Unknown
  <2>5. ASSUME NEW life \in Execution \union {None}, life # None => OpenIs(life),
               Pop(Record(life, "bot", "factual"))
        PROVE  Records'
    BY <2>1, <2>3, <2>5, RecordsClosed DEF Record
  <2> QED
    BY <1>3, <2>2, <2>4, <2>5 DEF CloseTrade, OpenIs
<1>4. CASE MissingClose
  <2>1. /\ Record(missing.life, "missing", "unknown") \in Closed
        /\ missing.life \notin live /\ missing.life # None
    BY <1>4, RegistryAssumption DEF MissingClose, Record, Closed, Missing, TypeOK, Known, Gone
  <2>2. UNCHANGED <<live, entered, scan, manual>>
    BY <1>4 DEF MissingClose
  <2>3. CASE UNCHANGED registry
    BY <2>2, <2>3, RecordsKept DEF Records, Unknown
  <2>4. CASE OpenIs(missing.life) /\ Pop(Record(missing.life, "missing", "unknown"))
    BY <2>1, <2>2, <2>4, RecordsClosed DEF Record
  <2> QED
    BY <1>4, <2>3, <2>4 DEF MissingClose
<1>5. CASE FlatClose
  <2>1. /\ Record(flat.life, "flat", "unknown") \in Closed
        /\ flat.life \notin live /\ flat.life # None
    BY <1>5, RegistryAssumption DEF FlatClose, Record, Closed, Flat, TypeOK, Known, Gone
  <2>2. UNCHANGED <<live, entered, scan, manual>>
    BY <1>5 DEF FlatClose
  <2>3. CASE UNCHANGED registry
    BY <2>2, <2>3, RecordsKept DEF Records, Unknown
  <2>4. CASE OpenIs(flat.life) /\ Pop(Record(flat.life, "flat", "unknown"))
    BY <2>1, <2>2, <2>4, RecordsClosed DEF Record
  <2> QED
    BY <1>5, <2>3, <2>4 DEF FlatClose
<1>6. CASE Recover
  <2>1. Record(None, "recovered", "factual") \in Closed
    BY DEF Record, Closed
  <2> QED
    BY <1>6, <2>1, RecordsClosed DEF Recover, Record
<1>7. CASE ManualRecord
  <2>1. UNCHANGED <<live, entered, scan>> /\ manual'.at = "idle"
    BY <1>7 DEF ManualRecord, ManualIdle
  <2>2. CASE UNCHANGED registry
    BY <2>1, <2>2, RecordsKept DEF Records, Unknown
  <2>3. ASSUME NEW i \in DOMAIN closed, open' = open,
               closed' = [closed EXCEPT ![i].outcome = manual.event]
        PROVE  Records'
    <3>1. manual.event \in Event /\ manual.event # "factual"
      BY <1>7, RegistryAssumption DEF ManualRecord, Records, Unknown
    <3>2. closed[i] \in Closed
      BY ClosedType DEF TypeOK
    <3>3. /\ DOMAIN closed' = DOMAIN closed
          /\ \A j \in DOMAIN closed :
               /\ closed'[j].life = closed[j].life /\ closed'[j].reason = closed[j].reason
               /\ closed'[j].outcome = closed[j].outcome \/ closed'[j].outcome # "factual"
      BY <2>3, <3>1, <3>2 DEF Closed
    <3> QED
      BY <2>1, <2>3, <3>3
      DEF Records, FlatWhenReconciled, LifecycleOnce, Recorded, Fresh, Unknown, Reconciled, OpenIs
  <2> QED
    BY <1>7, <2>2, <2>3 DEF ManualRecord, Save, OfExecution
<1>8. ASSUME NEW x \in Execution, Enter(x)
      PROVE  Records'
  <2>1. scan'.life = x
    BY <1>8 DEF Enter, Scan, TypeOK
  <2> QED
    BY <1>8, <2>1, RecordsKept DEF Enter, Records, Unknown
<1>9. ASSUME NEW x \in Execution, NEW e \in Event, ManualRead(x, e)
      PROVE  Records'
  <2>1. /\ manual'.event = e
        /\ \E i \in DOMAIN closed : closed[i].life = manual'.life /\ Reconciled(i)
    BY <1>9 DEF ManualRead, OfExecution, Reconciled
  <2> QED
    BY <1>9, <2>1, RecordsKept DEF ManualRead
<1>10. CASE ManualPositions
  <2>1. manual'.at # "idle" => manual'.life = manual.life /\ manual'.event = manual.event
    BY <1>10 DEF ManualPositions, ManualIdle, Manual, TypeOK
  <2>2. manual.at # "idle"
    BY <1>10 DEF ManualPositions
  <2> QED
    BY <1>10, <2>1, <2>2, RecordsKept DEF ManualPositions, Records, Unknown
<1>11. CASE ScanStart \/ ScanEnd \/ SavePosition
  <2>1. UNCHANGED <<registry, live, entered, manual>>
    BY <1>11 DEF ScanStart, ScanEnd, SavePosition
  <2>2. scan'.at # "register"
    <3>1. CASE ScanStart
      BY <3>1 DEF ScanStart, ScanIdle
    <3>2. CASE ScanEnd \/ SavePosition
      BY <3>2 DEF ScanEnd, SavePosition, ScanIdle
    <3> QED
      BY <1>11, <3>1, <3>2
  <2> QED
    BY <2>1, <2>2, RecordsKept DEF Records, Unknown
<1>12. CASE \/ ManageStart \/ Verify \/ Hold \/ CloseLeg \/ ManageEnd
            \/ FlatRead \/ FlatMatch \/ FlatRemove
            \/ \E t \in Thread : SyncIds(t) \/ SyncMap(t) \/ SyncPositions(t)
            \/ \E x \in Execution : MissingRead(x) \/ LegGone(x)
            \/ UNCHANGED vars
  <2>1. /\ UNCHANGED <<registry, entered, scan, manual>>
        /\ live' \subseteq live
    BY <1>12 DEF ManageStart, Verify, Hold, CloseLeg, ManageEnd, FlatRead, FlatMatch,
       FlatRemove, SyncIds, SyncMap, SyncPositions, MissingRead, LegGone, vars
  <2> QED
    BY <2>1, RecordsKept DEF Records, Unknown
<1>13. CASE Restart
  <2>1. /\ UNCHANGED <<registry, entered, live>>
        /\ scan'.at = "idle" /\ manual'.at = "idle"
    BY <1>13 DEF Restart, ScanIdle, ManualIdle
  <2> QED
    BY <2>1, RecordsKept
<1> QED
  BY <1>1, <1>2, <1>3, <1>4, <1>5, <1>6, <1>7, <1>8, <1>9, <1>10, <1>11, <1>12, <1>13 DEF Next

LEMMA Start == Init => IInv
BY RegistryAssumption, EmptySeq
   DEF Init, IInv, TypeOK, Known, Gone, Records, FlatWhenReconciled, LifecycleOnce, Recorded,
       Fresh, Unknown, Reconciled, OpenIs, Scan, ScanIdle, Manage, ManageIdle, Sync, SyncIdle,
       Missing, Flat, RouteIdle, Manual, ManualIdle

LEMMA Inductive == Spec => []IInv
<1>1. IInv /\ [Next]_vars => IInv'
  BY Holds, RecordsHold DEF IInv, Records
<1> QED
  BY <1>1, Start, PTL DEF Spec

(***************************************************************************)
(* What an operator's close has taken for gone is gone.                    *)
(***************************************************************************)
THEOREM RegistryFlat == Spec => []FlatWhenReconciled
BY Inductive, PTL DEF IInv, Records

(***************************************************************************)
(* An execution has one record at most, OPEN or CLOSED.                    *)
(***************************************************************************)
THEOREM RegistryOnce == Spec => []LifecycleOnce
BY Inductive, PTL DEF IInv, Records

LEMMA ClosedSteps ==
    ASSUME IInv, [Next]_vars
    PROVE  \/ closed' = closed
           \/ \E r \in Closed : closed' = Append(closed, r)
           \/ ManualRecord
<1> USE DEF registry, Save, Pop
<1>1. CASE Register \/ \E t \in Thread : SyncRegister(t) \/ SyncMark(t)
  BY <1>1 DEF Register, SyncRegister, SyncMark
<1>2. CASE CloseTrade
  <2>1. manage.copy.life \in Execution
    BY <1>2 DEF CloseTrade, IInv, Known, TypeOK
  <2>2. \A life \in Execution \union {None} : Record(life, "bot", "factual") \in Closed
    BY DEF Record, Closed
  <2> QED
    BY <1>2, <2>1, <2>2 DEF CloseTrade
<1>3. CASE MissingClose
  <2>1. Record(missing.life, "missing", "unknown") \in Closed
    BY DEF Record, Closed, Missing, IInv, TypeOK
  <2> QED
    BY <1>3, <2>1 DEF MissingClose
<1>4. CASE FlatClose
  <2>1. Record(flat.life, "flat", "unknown") \in Closed
    BY DEF Record, Closed, Flat, IInv, TypeOK
  <2> QED
    BY <1>4, <2>1 DEF FlatClose
<1>5. CASE Recover
  <2>1. Record(None, "recovered", "factual") \in Closed
    BY DEF Record, Closed
  <2> QED
    BY <1>5, <2>1 DEF Recover
<1>6. CASE \/ ScanStart \/ ScanEnd \/ SavePosition
           \/ \E x \in Execution :
                Enter(x) \/ MissingRead(x) \/ LegGone(x) \/ \E e \in Event : ManualRead(x, e)
  BY <1>6 DEF ScanStart, ScanEnd, SavePosition, Enter, MissingRead, LegGone, ManualRead
<1>7. CASE \/ ManageStart \/ Verify \/ Hold \/ CloseLeg \/ ManageEnd
           \/ FlatRead \/ FlatMatch \/ FlatRemove \/ ManualPositions \/ Restart
           \/ \E t \in Thread : SyncIds(t) \/ SyncMap(t) \/ SyncPositions(t)
           \/ UNCHANGED vars
  BY <1>7 DEF ManageStart, Verify, Hold, CloseLeg, ManageEnd, FlatRead, FlatMatch, FlatRemove,
     ManualPositions, Restart, SyncIds, SyncMap, SyncPositions, vars
<1> QED
  BY <1>1, <1>2, <1>3, <1>4, <1>5, <1>6, <1>7 DEF Next

(***************************************************************************)
(* Whoever writes a CLOSED record last, an outcome that is known stays:    *)
(* only an observed close is ever given one, once, and nothing is deleted. *)
(***************************************************************************)
THEOREM RegistryOutcome == Spec => OutcomeStands
<1>1. IInv /\ [Next]_vars => [OutcomeKept]_vars
  <2>1. SUFFICES ASSUME IInv, [Next]_vars PROVE OutcomeKept
    OBVIOUS
  <2>2. CASE closed' = closed
    BY <2>2 DEF OutcomeKept
  <2>3. ASSUME NEW r \in Closed, closed' = Append(closed, r) PROVE OutcomeKept
    BY <2>1, <2>3, AppendClosed DEF OutcomeKept, IInv, TypeOK
  <2>4. ASSUME ManualRecord, NEW i \in DOMAIN closed, OfExecution(manual.life) = {i},
               closed[i].outcome \notin Event,
               closed' = [closed EXCEPT ![i].outcome = manual.event]
        PROVE  OutcomeKept
    <3>1. manual.event \in Event /\ closed[i].outcome # "factual"
      BY <2>1, <2>4 DEF ManualRecord, OfExecution, IInv, Records, Unknown
    <3>2. closed[i].outcome = "unknown"
      BY <2>1, <2>4, <3>1, ClosedType DEF Closed, IInv, TypeOK
    <3> QED
      BY <2>4, <3>1, <3>2 DEF OutcomeKept
  <2>5. CASE ManualRecord
    BY <2>2, <2>4, <2>5 DEF ManualRecord, Save, registry, OfExecution
  <2> QED
    BY <2>1, <2>2, <2>3, <2>5, ClosedSteps
<1> QED
  BY <1>1, Inductive, PTL DEF Spec, OutcomeStands

(***************************************************************************)
(* Records, copies and requests stay what their readers take them for.     *)
(***************************************************************************)
THEOREM RegistryTyping == Spec => []TypeOK
BY Inductive, PTL DEF IInv
=============================================================================
