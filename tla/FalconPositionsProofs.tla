------------------------- MODULE FalconPositionsProofs -------------------------
(***************************************************************************)
(* For any symbols, limits, number of failed accesses and restarts, and    *)
(* however old the copies that the threads save:                           *)
(*                                                                         *)
(* a reconciled position stays out of falcon:positions until a read of the *)
(* tombstones fails, for the tombstones in Redis cover everything that was *)
(* reported removed, and nobody writes the document without having dropped *)
(* what they cover;                                                        *)
(*                                                                         *)
(* a symbol is entered once a day until an access fails or the process     *)
(* restarts, for an entry is in the list of accepted signals or still with *)
(* the one thread that enters.                                             *)
(***************************************************************************)
EXTENDS FalconPositions, TLAPS

Entombed == misread \/ removed \subseteq tombstones

LEMMA FilterDrops ==
    ASSUME NEW d, NEW found, NEW gone \in SUBSET found
    PROVE  \A s \in Keys(Filter(d, found)) :
             Filter(d, found)[s].life \notin gone
BY DEF Keys, Filter, Without

LEMMA SaveHolds ==
    ASSUME Entombed, TombstonesHold, UNCHANGED <<tombstones, removed>>,
           NEW d, SavePositions(d)
    PROVE  Entombed' /\ TombstonesHold'
<1>1. CASE UNCHANGED misread /\ doc' = Filter(d, tombstones)
  BY <1>1, FilterDrops DEF Entombed, TombstonesHold
<1>2. CASE UNCHANGED <<doc, misread>>
  BY <1>2 DEF Entombed, TombstonesHold, Keys
<1>3. CASE misread'
  BY <1>3 DEF Entombed, TombstonesHold
<1> QED
  BY <1>1, <1>2, <1>3 DEF SavePositions, ReadTombstones

LEMMA ReconcileHolds ==
    ASSUME Entombed, TombstonesHold,
           NEW s \in Symbol, ReconcileRemove(s)
    PROVE  Entombed' /\ TombstonesHold'
<1> PICK life : life = doc[s].life
  OBVIOUS
<1>1. CASE /\ tombstones' = tombstones \union {life} /\ UNCHANGED misread
           /\ doc' = Filter(doc, tombstones')
           /\ removed' = removed \union {life}
  <2>1. Entombed'
    BY <1>1 DEF Entombed
  <2>2. TombstonesHold'
    <3>1. PICK found : found = tombstones'
      OBVIOUS
    <3>2. ASSUME ~misread' PROVE removed' \in SUBSET found
      BY <2>1, <3>1, <3>2 DEF Entombed
    <3> QED
      BY <1>1, <3>1, <3>2, FilterDrops DEF TombstonesHold, Filter, Without, Keys
  <2> QED
    BY <2>1, <2>2
<1>2. CASE /\ tombstones' = tombstones \union {life}
           /\ UNCHANGED <<doc, removed, misread>>
  BY <1>2 DEF Entombed, TombstonesHold, Keys
<1>3. CASE UNCHANGED <<doc, tombstones, removed, misread>>
  BY <1>3 DEF Entombed, TombstonesHold, Keys
<1>4. CASE misread'
  BY <1>4 DEF Entombed, TombstonesHold
<1> QED
  BY <1>1, <1>2, <1>3, <1>4 DEF ReconcileRemove, ReadTombstones, central

(***************************************************************************)
(* No reconciled position is managed again.                                *)
(***************************************************************************)
THEOREM ReconciledStaysRemoved == Spec => []TombstonesHold
<1>1. Init => Entombed /\ TombstonesHold
  BY DEF Init, NoPositions, Keys, Entombed, TombstonesHold
<1>2. Entombed /\ TombstonesHold /\ [Next]_vars => Entombed' /\ TombstonesHold'
  <2> SUFFICES ASSUME Entombed, TombstonesHold, [Next]_vars
               PROVE  Entombed' /\ TombstonesHold'
    OBVIOUS
  <2>1. CASE PersistAccepted
    <3>1. UNCHANGED <<tombstones, removed>>
      BY <2>1 DEF PersistAccepted, central
    <3>2. PICK d : SavePositions(d)
      BY <2>1 DEF PersistAccepted
    <3> QED
      BY <3>1, <3>2, SaveHolds
  <2>2. CASE ManageEnd
    <3>1. UNCHANGED <<tombstones, removed>>
      BY <2>2 DEF ManageEnd, central
    <3>2. PICK d : SavePositions(d)
      BY <2>2 DEF ManageEnd
    <3> QED
      BY <3>1, <3>2, SaveHolds
  <2>3. ASSUME NEW s \in Symbol, ReconcileRemove(s)
        PROVE  Entombed' /\ TombstonesHold'
    BY <2>3, ReconcileHolds
  <2>4. CASE ScanStart \/ AppendSignal \/ ScanEnd \/ ManageStart \/ ManageRaises
    <3>1. UNCHANGED <<doc, tombstones, removed, misread>>
      BY <2>4 DEF ScanStart, AppendSignal, ScanEnd, ManageStart, ManageRaises, central, budget
    <3> QED
      BY <3>1 DEF Entombed, TombstonesHold, Keys
  <2>5. ASSUME NEW s \in Symbol,
               \/ Pass(s) \/ Execute(s) \/ FindFlat(s) \/ Hold(s) \/ ClosePosition(s)
        PROVE  Entombed' /\ TombstonesHold'
    <3>1. UNCHANGED <<doc, tombstones, removed, misread>>
      BY <2>5 DEF Pass, Execute, FindFlat, Hold, ClosePosition, central, budget
    <3> QED
      BY <3>1 DEF Entombed, TombstonesHold, Keys
  <2>6. ASSUME NEW life \in Life, LegGone(life)
        PROVE  Entombed' /\ TombstonesHold'
    BY <2>6 DEF LegGone, central, budget, Entombed, TombstonesHold, Keys
  <2>7. CASE Restart \/ UNCHANGED vars
    BY <2>7 DEF Restart, vars, central, budget, Entombed, TombstonesHold, Keys
  <2> QED
    BY <2>1, <2>2, <2>3, <2>4, <2>5, <2>6, <2>7 DEF Next
<1> QED
  BY <1>1, <1>2, PTL DEF Spec

(***************************************************************************)
(* The shape of the documents.  A position of any copy, however old, is    *)
(* one of its symbol's entries; an entry that is being persisted exists.   *)
(***************************************************************************)
Dated(d) == \A s \in Keys(d) : d[s].life[1] = s /\ d[s].life[2] <= entered[s]

Shape ==
  /\ TypeOK
  /\ Dated(scan.copy) /\ Dated(manage.copy)
  /\ manage.todo \subseteq Keys(manage.copy)
  /\ scan.at \in {"persist", "signal"} => scan.sig \in Symbol /\ entered[scan.sig] >= 1

LEMMA FilterShape ==
    ASSUME NEW d \in Document, Dated(d), NEW gone
    PROVE  Without(d, gone) \in Document /\ Dated(Without(d, gone))
BY DEF Document, Without, Dated, Keys

LEMMA SaveShape ==
    ASSUME TypeOK, NEW d \in Document, Dated(d), SavePositions(d), UNCHANGED entered
    PROVE  /\ doc' \in Document /\ Dated(doc)'
           /\ misread' \in BOOLEAN /\ faults' \in 0..MaxFaults
<1>1. ASSUME NEW found \in {tombstones, {}}, ReadTombstones(found), doc' = Filter(d, found)
      PROVE  /\ doc' \in Document /\ Dated(doc)'
             /\ misread' \in BOOLEAN /\ faults' \in 0..MaxFaults
  <2> DEFINE gone == {s \in Keys(d) : d[s].life \in found \union memory}
  <2>0. doc' = Without(d, gone)
    BY <1>1 DEF Filter
  <2> HIDE DEF gone
  <2>1. doc' \in Document /\ Dated(doc')
    BY <2>0, FilterShape
  <2>2. faults' \in 0..MaxFaults
    BY <1>1, PositionsAssumption DEF ReadTombstones, TypeOK, Fault, NoFault
  <2>3. misread' \in BOOLEAN
    BY <1>1, Zenon DEF ReadTombstones, TypeOK
  <2> QED
    BY <2>1, <2>2, <2>3 DEF Dated
<1>2. CASE Fault /\ UNCHANGED <<doc, misread>>
  BY <1>2, PositionsAssumption DEF TypeOK, Fault, Dated
<1> QED
  BY <1>1, <1>2 DEF SavePositions

LEMMA ShapeKept == Shape /\ [Next]_vars => Shape'
<1> SUFFICES ASSUME Shape, [Next]_vars PROVE Shape'
  OBVIOUS
<1> USE PositionsAssumption DEF Shape
<1>1. ASSUME NEW s \in Symbol, Pass(s) PROVE Shape'
  BY <1>1 DEF Pass, TypeOK, Dated, Keys, central, lists, exchange, budget
<1>2. ASSUME NEW s \in Symbol, Execute(s) PROVE Shape'
  <2>1. /\ UNCHANGED <<doc, tombstones, memory, removed, signals, trades, manage, restarts, misread>>
        /\ entered' = [entered EXCEPT ![s] = entered[s] + 1]
        /\ entered[s] < MaxEntries
        /\ legs' = legs \union {<<s, entered[s] + 1>>}
        /\ faults' \in 0..MaxFaults
    BY <1>2 DEF Execute, TypeOK, Read, Fault, NoFault, central, lists
  <2>2. /\ scan'.at = "persist" /\ scan'.copy = scan.copy /\ scan'.sig = s
        /\ scan' \in [at: {"idle", "look", "persist", "signal"}, copy: Document,
                      todo: SUBSET Symbol, sig: Symbol \union {None}]
    BY <1>2 DEF Execute, TypeOK
  <2>3. entered' \in [Symbol -> 0..MaxEntries] /\ \A r \in Symbol : entered'[r] >= entered[r]
    BY <2>1 DEF TypeOK
  <2>4. entered'[s] >= 1
    BY <2>1 DEF TypeOK
  <2>5. Dated(scan.copy)' /\ Dated(manage.copy)' /\ Dated(doc)'
    BY <2>1, <2>2, <2>3 DEF Dated, Keys, TypeOK, Document, Position, Life
  <2>6. legs' \subseteq Life
    BY <2>1 DEF TypeOK, Life
  <2> QED
    BY <2>1, <2>2, <2>3, <2>4, <2>5, <2>6 DEF TypeOK, Dated, Keys
<1>3. CASE PersistAccepted
  <2> DEFINE s == scan.sig
             entry == [life |-> <<s, entered[s]>>, stop |-> 0, flat |-> FALSE]
             copy == [scan.copy EXCEPT ![s] = entry]
  <2>1. s \in Symbol /\ scan.copy \in Document /\ entered[s] \in 1..MaxEntries
    BY <1>3 DEF PersistAccepted, TypeOK
  <2>2. entry \in Position /\ entry.life[1] = s /\ entry.life[2] = entered[s]
    BY <2>1 DEF Position, Life
  <2>3. /\ SavePositions(copy)
        /\ scan' = [scan EXCEPT !.at = "signal", !.copy = copy]
        /\ UNCHANGED <<tombstones, memory, removed, signals, trades, manage, entered, legs, restarts>>
    BY <1>3 DEF PersistAccepted, central, lists, exchange
  <2> HIDE DEF s, entry
  <2>4. copy \in Document /\ Dated(copy)
    BY <2>1, <2>2 DEF Document, Dated, Keys, TypeOK
  <2> HIDE DEF copy
  <2>5. /\ doc' \in Document /\ Dated(doc)'
        /\ misread' \in BOOLEAN /\ faults' \in 0..MaxFaults
    BY <2>3, <2>4, SaveShape
  <2>6. /\ scan'.copy = copy /\ scan'.sig = scan.sig
        /\ scan' \in [at: {"idle", "look", "persist", "signal"}, copy: Document,
                      todo: SUBSET Symbol, sig: Symbol \union {None}]
    BY <2>3, <2>4 DEF TypeOK
  <2>7. Dated(scan.copy)' /\ Dated(manage.copy)'
    BY <2>3, <2>4, <2>6 DEF Dated, Keys
  <2>8. TypeOK'
    BY <2>3, <2>5, <2>6 DEF TypeOK, Dated
  <2> QED
    BY <1>3, <2>1, <2>3, <2>6, <2>7, <2>8 DEF s, PersistAccepted
<1>4. CASE AppendSignal
  <2>1. /\ UNCHANGED <<doc, tombstones, memory, removed, trades, manage, entered, legs, restarts,
                       misread>>
        /\ faults' \in 0..MaxFaults /\ signals' \subseteq Symbol
        /\ scan' = [scan EXCEPT !.at = "look", !.sig = None]
    BY <1>4 DEF AppendSignal, Read, Fault, NoFault, central, exchange, TypeOK
  <2>2. /\ scan'.copy = scan.copy /\ scan'.at = "look"
        /\ scan' \in [at: {"idle", "look", "persist", "signal"}, copy: Document,
                      todo: SUBSET Symbol, sig: Symbol \union {None}]
    BY <2>1 DEF TypeOK
  <2> QED
    BY <2>1, <2>2 DEF TypeOK, Dated, Keys
<1>5. CASE ScanStart \/ ScanEnd
  <2>1. PICK d \in {doc, NoPositions}, at \in {"look", "idle"}, todo \in SUBSET Symbol :
          scan' = [at |-> at, copy |-> d, todo |-> todo, sig |-> None]
    BY <1>5 DEF ScanStart, ScanEnd, ScanIdle
  <2>2. /\ UNCHANGED <<doc, tombstones, memory, removed, signals, trades, manage, entered, legs,
                       restarts, misread>>
        /\ faults' \in 0..MaxFaults
    BY <1>5 DEF ScanStart, ScanEnd, Read, Fault, NoFault, central, lists, exchange, budget, TypeOK
  <2>3. d \in Document /\ Dated(d)
    BY DEF Document, NoPositions, TypeOK, Dated, Keys
  <2>4. /\ scan'.copy = d /\ scan'.at \in {"look", "idle"}
        /\ scan' \in [at: {"idle", "look", "persist", "signal"}, copy: Document,
                      todo: SUBSET Symbol, sig: Symbol \union {None}]
    BY <2>1, <2>3
  <2> QED
    BY <2>2, <2>3, <2>4 DEF TypeOK, Dated, Keys
<1>6. CASE ManageStart \/ ManageRaises
  <2>1. PICK d \in {doc, NoPositions}, at \in {"manage", "idle"} : \E todo \in SUBSET Keys(d) :
          manage' = [at |-> at, copy |-> d, todo |-> todo, closed |-> {}]
    BY <1>6 DEF ManageStart, ManageRaises, ManageIdle
  <2>2. /\ UNCHANGED <<doc, tombstones, memory, removed, signals, trades, scan, entered, legs,
                       restarts, misread>>
        /\ faults' \in 0..MaxFaults
    BY <1>6 DEF ManageStart, ManageRaises, Read, Fault, NoFault, central, lists, exchange, budget,
       TypeOK
  <2>3. d \in Document /\ Dated(d)
    BY DEF Document, NoPositions, TypeOK, Dated, Keys
  <2>4. /\ manage'.copy = d /\ manage'.closed = {} /\ manage'.todo \subseteq Keys(d)
        /\ manage' \in [at: {"idle", "manage"}, copy: Document, todo: SUBSET Symbol,
                        closed: SUBSET Symbol]
    BY <2>1, <2>3 DEF Keys
  <2> QED
    BY <2>2, <2>3, <2>4 DEF TypeOK, Dated, Keys
<1>7. ASSUME NEW s \in Symbol, FindFlat(s) \/ Hold(s) PROVE Shape'
  <2> DEFINE old == manage.copy[s]
             copy == manage'.copy
  <2>1. /\ s \in Keys(manage.copy) /\ old \in Position
    BY <1>7 DEF FindFlat, Hold, Managed, TypeOK, Keys, Document
  <2>2. PICK stop \in 0..MaxStop, flat \in BOOLEAN :
          manage' = [manage EXCEPT !.todo = manage.todo \ {s},
                                   !.copy = [manage.copy EXCEPT ![s] =
                                               [old EXCEPT !.stop = stop, !.flat = flat]]]
    <3>1. CASE FindFlat(s)
      BY <2>1, <3>1 DEF FindFlat, Position
    <3>2. CASE Hold(s)
      <4>1. PICK stop \in {manage.copy[s].stop, manage.copy[s].stop + 1} :
              /\ stop <= MaxStop
              /\ manage' = [manage EXCEPT !.todo = @ \ {s}, !.copy[s].stop = stop,
                                          !.copy[s].flat = FALSE]
        BY <3>2 DEF Hold
      <4>2. stop \in 0..MaxStop
        BY <2>1, <4>1 DEF Position
      <4>3. manage' = [manage EXCEPT !.todo = manage.todo \ {s},
                                     !.copy = [manage.copy EXCEPT ![s] =
                                               [old EXCEPT !.stop = stop, !.flat = FALSE]]]
        BY <2>1, <4>1 DEF TypeOK, Document, Position
      <4> QED
        BY <4>2, <4>3
    <3> QED
      BY <1>7, <3>1, <3>2
  <2>3. /\ UNCHANGED <<doc, tombstones, memory, removed, signals, trades, scan, entered, legs,
                       restarts, misread>>
        /\ UNCHANGED faults
    BY <1>7 DEF FindFlat, Hold, central, lists, exchange, budget
  <2>4. /\ manage' \in [at: {"idle", "manage"}, copy: Document, todo: SUBSET Symbol,
                        closed: SUBSET Symbol]
        /\ manage'.todo \subseteq manage.todo /\ manage'.closed = manage.closed
        /\ \A r \in Symbol \ {s} : manage'.copy[r] = manage.copy[r]
        /\ manage'.copy[s] \in Position /\ manage'.copy[s].life = manage.copy[s].life
    BY <2>1, <2>2 DEF TypeOK, Document, Position
  <2>5. Keys(manage.copy)' = Keys(manage.copy)
    BY <2>1, <2>4 DEF Keys
  <2>6. Dated(manage.copy)'
    BY <2>1, <2>3, <2>4, <2>5 DEF Dated, Keys
  <2> QED
    BY <2>3, <2>4, <2>5, <2>6 DEF TypeOK, Dated, Keys
<1>9. ASSUME NEW s \in Symbol, ClosePosition(s) PROVE Shape'
  <2>1. /\ UNCHANGED <<doc, tombstones, memory, removed, signals, scan, entered, restarts, misread>>
        /\ legs' \subseteq legs /\ manage.copy[s].life \in Life
        /\ faults' \in 0..MaxFaults /\ trades' \subseteq Life
    <3>1. s \in Keys(manage.copy) /\ manage.copy[s].life \in Life
      BY <1>9 DEF ClosePosition, Managed, TypeOK, Keys, Document, Position
    <3> QED
      BY <1>9, <3>1 DEF ClosePosition, Read, Fault, NoFault, central, TypeOK
  <2>2. /\ manage'.copy = manage.copy /\ manage'.closed = manage.closed \union {s}
        /\ manage'.todo \subseteq manage.todo /\ s \in manage.todo
        /\ manage' \in [at: {"idle", "manage"}, copy: Document, todo: SUBSET Symbol,
                        closed: SUBSET Symbol]
    BY <1>9 DEF ClosePosition, Managed, TypeOK
  <2> QED
    BY <2>1, <2>2 DEF TypeOK, Dated, Keys
<1>10. CASE ManageEnd
  <2> DEFINE kept == Without(manage.copy, manage.closed)
  <2>1. kept \in Document /\ Dated(kept)
    BY FilterShape DEF TypeOK
  <2>2. /\ SavePositions(kept) /\ manage' = ManageIdle
        /\ UNCHANGED <<tombstones, memory, removed, signals, trades, scan, entered, legs, restarts>>
    BY <1>10 DEF ManageEnd, central, lists, exchange
  <2> HIDE DEF kept
  <2>3. /\ doc' \in Document /\ Dated(doc)'
        /\ misread' \in BOOLEAN /\ faults' \in 0..MaxFaults
    BY <2>1, <2>2, SaveShape
  <2>4. NoPositions \in Document /\ Dated(NoPositions)
    BY DEF NoPositions, Document, Dated, Keys
  <2>5. /\ manage'.copy = NoPositions /\ manage'.closed = {} /\ manage'.todo = {}
        /\ manage' \in [at: {"idle", "manage"}, copy: Document, todo: SUBSET Symbol,
                        closed: SUBSET Symbol]
    BY <2>2, <2>4 DEF ManageIdle
  <2> QED
    BY <2>2, <2>3, <2>4, <2>5 DEF TypeOK, Dated, Keys
<1>11. ASSUME NEW s \in Symbol, ReconcileRemove(s) PROVE Shape'
  <2>1. doc[s] \in Position /\ doc[s].life \in Life
    BY <1>11 DEF ReconcileRemove, TypeOK, Document, Position
  <2>2. /\ UNCHANGED <<signals, trades, scan, manage, entered, legs, restarts>>
        /\ tombstones' \union memory' \union removed' \subseteq Life
    BY <1>11, <2>1 DEF ReconcileRemove, ReadTombstones, lists, exchange, central, TypeOK
  <2>3. faults' \in 0..MaxFaults
    BY <1>11 DEF ReconcileRemove, ReadTombstones, Fault, NoFault, TypeOK
  <2>4. misread' \in BOOLEAN
    BY <1>11, Zenon DEF ReconcileRemove, ReadTombstones, TypeOK
  <2>5. doc' \in Document /\ Dated(doc')
    <3>1. \/ doc' = doc
          \/ doc' = Filter(doc, tombstones')
      BY <1>11 DEF ReconcileRemove
    <3> DEFINE gone == {r \in Keys(doc) : doc[r].life \in tombstones' \union memory}
    <3>2. Filter(doc, tombstones') = Without(doc, gone)
      BY DEF Filter
    <3>3. doc \in Document /\ Dated(doc)
      BY DEF TypeOK, Dated
    <3> HIDE DEF gone
    <3>4. Without(doc, gone) \in Document /\ Dated(Without(doc, gone))
      BY <3>3, FilterShape
    <3> QED
      BY <3>1, <3>2, <3>3, <3>4
  <2> QED
    BY <2>2, <2>3, <2>4, <2>5 DEF TypeOK, Dated, Keys
<1>12. ASSUME NEW life \in Life, LegGone(life) PROVE Shape'
  BY <1>12 DEF LegGone, TypeOK, Dated, Keys, central, lists, budget
<1>13. CASE Restart
  BY <1>13 DEF Restart, ScanIdle, ManageIdle, NoPositions, Document, TypeOK, Dated, Keys, lists, exchange
<1>14. CASE UNCHANGED vars
  BY <1>14 DEF vars, central, lists, exchange, budget, TypeOK, Dated, Keys
<1> QED
  BY <1>1, <1>2, <1>3, <1>4, <1>5, <1>6, <1>7, <1>9, <1>10, <1>11, <1>12, <1>13, <1>14 DEF Next

(***************************************************************************)
(* Type correctness.                                                       *)
(***************************************************************************)
LEMMA ShapeHolds == Spec => []Shape
<1>1. Init => Shape
  <2> SUFFICES ASSUME Init PROVE Shape
    OBVIOUS
  <2>1. NoPositions \in Document /\ Keys(NoPositions) = {}
    BY DEF NoPositions, Document, Keys
  <2>2. /\ scan = ScanIdle /\ ScanIdle.at = "idle" /\ ScanIdle.copy = NoPositions
        /\ scan \in [at: {"idle", "look", "persist", "signal"}, copy: Document,
                     todo: SUBSET Symbol, sig: Symbol \union {None}]
    BY <2>1 DEF Init, ScanIdle
  <2>3. /\ manage.copy = NoPositions /\ manage.closed = {} /\ manage.todo = {}
        /\ manage \in [at: {"idle", "manage"}, copy: Document, todo: SUBSET Symbol,
                       closed: SUBSET Symbol]
    BY <2>1 DEF Init, ManageIdle
  <2>4. /\ doc = NoPositions /\ entered = [s \in Symbol |-> 0] /\ faults = 0 /\ restarts = 0
        /\ tombstones \union memory \union trades \union legs \union removed = {} /\ signals = {}
    BY DEF Init
  <2>5. misread \in BOOLEAN
    BY Zenon DEF Init
  <2> QED
    BY <2>1, <2>2, <2>3, <2>4, <2>5, PositionsAssumption DEF Shape, TypeOK, Dated
<1> QED
  BY <1>1, ShapeKept, PTL DEF Spec

\* Documents, copies and lists of falcon.py stay within their types, failed
\* reads and restarts included.
THEOREM Typing == Spec => []TypeOK
<1>1. Shape => TypeOK
  BY DEF Shape
<1> QED
  BY <1>1, ShapeHolds, PTL

(***************************************************************************)
(* One entry a day.  An entry is in the list of accepted signals, or the   *)
(* scan that made it is on its way to put it there; until a read fails or  *)
(* the process restarts, the list only grows.                              *)
(***************************************************************************)
Recording(s) == scan.at \in {"persist", "signal"} /\ scan.sig = s
Listed ==
  faults = 0 /\ restarts = 0 =>
    \A s \in Symbol : entered[s] = 0 \/ (entered[s] = 1 /\ (s \in signals \/ Recording(s)))

LEMMA BudgetOnlyGrows ==
    ASSUME Shape, [Next]_vars, faults' = 0, restarts' = 0
    PROVE  faults = 0 /\ restarts = 0 /\ ~Restart /\ ~Fault
<1>1. faults \in Nat /\ restarts \in Nat
  BY PositionsAssumption DEF Shape, TypeOK
<1>2. ~Restart /\ ~Fault
  BY <1>1 DEF Restart, Fault
<1>3. restarts' = restarts
  BY <1>2 DEF Next, vars, budget, ScanStart, PersistAccepted, AppendSignal, ScanEnd, Pass, Execute,
     ManageStart, ManageEnd, ManageRaises, FindFlat, Hold, ClosePosition, ReconcileRemove, LegGone
<1>4. faults' = faults
  <2>1. ASSUME NEW d, SavePositions(d) PROVE faults' = faults
    BY <1>2, <2>1 DEF SavePositions, ReadTombstones, NoFault
  <2>2. CASE PersistAccepted \/ ManageEnd
    BY <2>1, <2>2 DEF PersistAccepted, ManageEnd
  <2>3. CASE ScanStart \/ AppendSignal \/ ManageStart
    BY <1>2, <2>3 DEF ScanStart, AppendSignal, ManageStart, Read, NoFault
  <2>4. ASSUME NEW s \in Symbol, Execute(s) \/ ClosePosition(s) \/ ReconcileRemove(s)
        PROVE  faults' = faults
    BY <1>2, <2>4 DEF Execute, ClosePosition, ReconcileRemove, Read, ReadTombstones, NoFault
  <2>5. CASE \/ ScanEnd \/ ManageRaises \/ UNCHANGED vars
             \/ \E s \in Symbol : Pass(s) \/ FindFlat(s) \/ Hold(s)
             \/ \E life \in Life : LegGone(life)
    BY <2>5 DEF ScanEnd, ManageRaises, vars, Pass, FindFlat, Hold, LegGone, budget
  <2> QED
    BY <1>2, <2>2, <2>3, <2>4, <2>5 DEF Next
<1> QED
  BY <1>2, <1>3, <1>4

LEMMA ListedKept == Shape /\ Listed /\ [Next]_vars => Listed'
<1> SUFFICES ASSUME Shape, Listed, [Next]_vars, faults' = 0, restarts' = 0, NEW s \in Symbol
             PROVE  \/ entered'[s] = 0
                    \/ entered'[s] = 1 /\ (s \in signals' \/ Recording(s)')
  BY DEF Listed, Recording
<1>1. faults = 0 /\ restarts = 0 /\ ~Restart /\ ~Fault
  BY BudgetOnlyGrows
<1>2. entered[s] = 0 \/ (entered[s] = 1 /\ (s \in signals \/ Recording(s)))
  BY <1>1 DEF Listed
<1>3. ASSUME NEW r \in Symbol, Execute(r)
      PROVE  \/ entered'[s] = 0
             \/ entered'[s] = 1 /\ (s \in signals' \/ Recording(s)')
  <2>1. r \notin signals /\ scan.at = "look" /\ signals' = signals
    BY <1>1, <1>3 DEF Execute, Read, HadTradeToday, lists
  <2>2. entered[r] = 0
    BY <1>1, <2>1 DEF Listed, Recording
  <2>3. scan'.at = "persist" /\ scan'.sig = r
    BY <1>3 DEF Execute, Shape, TypeOK
  <2>4. entered' = [entered EXCEPT ![r] = 1]
    BY <1>3, <2>2 DEF Execute
  <2> QED
    BY <1>2, <2>1, <2>3, <2>4 DEF Recording, Shape, TypeOK
<1>4. CASE PersistAccepted
  <2>1. scan'.at = "signal" /\ scan'.sig = scan.sig
    BY <1>4 DEF PersistAccepted, Shape, TypeOK
  <2>2. UNCHANGED <<entered, signals>>
    BY <1>4 DEF PersistAccepted, lists, exchange
  <2> QED
    BY <1>2, <2>1, <2>2 DEF Recording
<1>5. CASE AppendSignal
  <2>1. signals' = signals \union {scan.sig} /\ UNCHANGED entered
    BY <1>1, <1>5 DEF AppendSignal, Read, exchange
  <2> QED
    BY <1>2, <2>1 DEF Recording
<1>6. ASSUME UNCHANGED <<entered, signals>>,
             scan.at \in {"persist", "signal"} => UNCHANGED scan
      PROVE  \/ entered'[s] = 0
             \/ entered'[s] = 1 /\ (s \in signals' \/ Recording(s)')
  BY <1>2, <1>6 DEF Recording
<1>7. CASE ScanStart \/ ScanEnd \/ \E r \in Symbol : Pass(r)
  BY <1>6, <1>7 DEF ScanStart, ScanEnd, Pass, lists, exchange
<1>8. CASE \/ ManageStart \/ ManageEnd \/ ManageRaises
           \/ \E r \in Symbol : FindFlat(r) \/ Hold(r) \/ ReconcileRemove(r)
  BY <1>6, <1>8 DEF ManageStart, ManageEnd, ManageRaises, FindFlat, Hold, ReconcileRemove,
     lists, exchange
<1>9. CASE \/ \E r \in Symbol : ClosePosition(r)
           \/ \E life \in Life : LegGone(life)
           \/ UNCHANGED vars
  BY <1>6, <1>9 DEF ClosePosition, LegGone, vars, lists, exchange
<1> QED
  BY <1>1, <1>3, <1>4, <1>5, <1>7, <1>8, <1>9 DEF Next

(***************************************************************************)
(* A symbol is entered once a day, for any number of symbols and however   *)
(* the two threads interleave.                                             *)
(***************************************************************************)
THEOREM EntersOnce == Spec => []OneEntryPerDay
<1>1. Init => Listed
  BY DEF Init, Listed
<1>2. Shape /\ Listed => OneEntryPerDay
  <2> SUFFICES ASSUME Shape, Listed, faults + restarts = 0 PROVE \A s \in Symbol : entered[s] <= 1
    BY DEF OneEntryPerDay
  <2>1. faults = 0 /\ restarts = 0
    BY PositionsAssumption DEF Shape, TypeOK
  <2> QED
    BY <2>1 DEF Listed
<1> QED
  BY <1>1, <1>2, ListedKept, ShapeHolds, PTL DEF Spec
=============================================================================
