-------------------------- MODULE RegistryV2WalProofs --------------------------
(***************************************************************************)
(* Proofs about RegistryV2Wal for any number of processes, keys, payloads  *)
(* and generations, and for journals of any length.                        *)
(*                                                                         *)
(* The journal determines everything: operation i has a PREPARED line at   *)
(* 2i - 1 and a COMMITTED line at 2i, and starts from the snapshot that    *)
(* the i - 1 operations before it make.  The snapshot file is the one of   *)
(* the committed operations, or of one more; what is on disk trails the    *)
(* files by one line or one rename.                                        *)
(***************************************************************************)
EXTENDS RegistryV2Wal, SequenceTheorems, TLAPS

\* Power losses come without the other failures: recovery does not sync the
\* PREPARED line that a stopped process left, so a later power loss may forget
\* the line of an operation that the snapshot holds.
FailuresApart == \A kinds \in Failures : "power" \in kinds => kinds = {"power"}

-----------------------------------------------------------------------------
\* What the lines j of a journal say.

\* The requests of the first n operations, and the snapshot they make.
Applied(j, n) == [i \in 1..n |-> j[2 * i - 1].request]
After(j, n) ==
  [generation |-> n, applied |-> Applied(j, n), seq |-> n,
   request |-> IF n = 0 THEN Nil ELSE j[2 * n - 1].request]

PreparedLine(j, i) ==
  [state |-> "PREPARED", seq |-> i, request |-> j[2 * i - 1].request,
   before |-> After(j, i - 1), after |-> Nil]
CommittedLine(j, i) ==
  [state |-> "COMMITTED", seq |-> i, request |-> j[2 * i - 1].request,
   before |-> After(j, i - 1), after |-> After(j, i)]

LinesFollow(j) ==
  \A i \in 1..Len(j) :
    /\ 2 * i - 1 <= Len(j) => /\ j[2 * i - 1] = PreparedLine(j, i)
                              /\ j[2 * i - 1].request \in Request
                              /\ j[2 * i - 1].request.gen = i - 1
    /\ 2 * i <= Len(j) => j[2 * i] = CommittedLine(j, i)

KeysDistinct(j) ==
  \A i, k \in 1..Len(j) :
    /\ 2 * i - 1 <= Len(j) /\ 2 * k - 1 <= Len(j)
    /\ j[2 * i - 1].request.key = j[2 * k - 1].request.key
    => i = k

\* Where s stands after n operations; an absent file is the empty snapshot.
IsAfter(s, n) == s = After(journal, n) \/ (n = 0 /\ s = Nil)

SnapshotFollows ==
  \A n \in 0..Len(journal) :
    /\ Len(journal) = 2 * n => IsAfter(snapshot, n)
    /\ Len(journal) = 2 * n + 1 => IsAfter(snapshot, n) \/ IsAfter(snapshot, n + 1)

-----------------------------------------------------------------------------
\* What a call knows.

Busy == {"prepare", "syncPrepared", "replace", "syncDirectory", "commit",
         "syncCommitted"}

OneCall == \A p, q \in Proc : pc[p] # "idle" /\ pc[q] # "idle" => p = q

NewEvent(e, n) ==
  /\ e = [state |-> "PREPARED", seq |-> n + 1, request |-> e.request,
          before |-> After(journal, n), after |-> Nil]
  /\ e.request \in Request
  /\ e.request.gen = n
  /\ \A l \in Lines : l.request.key # e.request.key

CallFollows(p) ==
  /\ pc[p] \in Busy => tail = "none"
  /\ pc[p] = "prepare" =>
       \E n \in 0..Len(journal) :
         /\ Len(journal) = 2 * n
         /\ NewEvent(event[p], n)
  /\ pc[p] \in {"syncPrepared", "replace"} =>
       \E n \in 0..Len(journal) :
         /\ Len(journal) = 2 * n + 1
         /\ event[p] = journal[2 * n + 1]
         /\ IsAfter(snapshot, n)
  /\ pc[p] \in {"syncDirectory", "commit"} =>
       \E n \in 0..Len(journal) :
         /\ Len(journal) = 2 * n + 1
         /\ event[p] = journal[2 * n + 1]
         /\ IsAfter(snapshot, n + 1)
  /\ pc[p] = "syncCommitted" =>
       \E n \in 0..Len(journal) :
         /\ Len(journal) = 2 * n + 2
         /\ event[p] = journal[2 * n + 1]

\* What is on disk, where a power loss comes alone.
DiskFollows ==
  "power" \in failing =>
    /\ synced = Len(journal) \/ (/\ synced + 1 = Len(journal)
                                 /\ \E p \in Proc : pc[p] \in {"syncPrepared", "syncCommitted"})
    /\ stable = snapshot \/ (/\ \E p \in Proc : pc[p] = "syncDirectory"
                             /\ \E n \in 0..Len(journal) : /\ Len(journal) = 2 * n + 1
                                                           /\ IsAfter(stable, n))

AnswersFollow ==
  \A r \in answered : \E i \in 1..Len(journal) :
    /\ 2 * i <= Len(journal)
    /\ journal[2 * i].request = r
    /\ "power" \in failing => 2 * i <= synced

IInv ==
  /\ TypeOK
  /\ LinesFollow(journal)
  /\ KeysDistinct(journal)
  /\ SnapshotFollows
  /\ OneCall
  /\ \A p \in Proc : CallFollows(p)
  /\ DiskFollows
  /\ AnswersFollow
-----------------------------------------------------------------------------
\* Lines and snapshots.

LEMMA AppliedTyped ==
  ASSUME NEW j, NEW n \in Nat, \A i \in 1..n : j[2 * i - 1].request \in Request
  PROVE  /\ Applied(j, n) \in Seq(Request)
         /\ Len(Applied(j, n)) = n
         /\ DOMAIN Applied(j, n) = 1..n
         /\ \A i \in 1..n : Applied(j, n)[i] = j[2 * i - 1].request
<1>1. Applied(j, n) \in [1..n -> Request]
  BY DEF Applied
<1>2. Applied(j, n) \in Seq(Request)
  BY <1>1
<1> QED
  BY <1>1, <1>2, LenProperties DEF Applied

LEMMA RequestsTyped ==
  ASSUME NEW j, Len(j) \in Nat, LinesFollow(j), NEW n \in Nat, 2 * n - 1 <= Len(j)
  PROVE  /\ \A i \in 1..n : j[2 * i - 1].request \in Request
         /\ \A i \in 1..n : j[2 * i - 1] = PreparedLine(j, i) /\ j[2 * i - 1].request.gen = i - 1
<1> SUFFICES ASSUME NEW i \in 1..n
             PROVE  /\ j[2 * i - 1].request \in Request
                    /\ j[2 * i - 1] = PreparedLine(j, i) /\ j[2 * i - 1].request.gen = i - 1
  OBVIOUS
<1>1. i \in 1..Len(j) /\ 2 * i - 1 <= Len(j)
  OBVIOUS
<1> QED
  BY <1>1 DEF LinesFollow

LEMMA AfterTyped ==
  ASSUME NEW j, Len(j) \in Nat, LinesFollow(j), NEW n \in Nat, 2 * n - 1 <= Len(j)
  PROVE  /\ After(j, n) \in Snapshot /\ After(j, n) # Nil
         /\ After(j, n).generation = n /\ After(j, n).seq = n
         /\ After(j, n).applied = Applied(j, n)
         /\ After(j, n).request = IF n = 0 THEN Nil ELSE j[2 * n - 1].request
<1>1. Applied(j, n) \in Seq(Request)
  BY RequestsTyped, AppliedTyped
<1>2. n # 0 => j[2 * n - 1].request \in Request
  BY RequestsTyped
<1> QED
  BY <1>1, <1>2, WalAssumption DEF After, Snapshot

LEMMA AppliedKept ==
  ASSUME NEW j, NEW k, NEW n \in Nat, \A m \in 1..2 * n : m # 2 * n => j[m] = k[m]
  PROVE  Applied(j, n) = Applied(k, n) /\ After(j, n) = After(k, n)
<1>1. \A i \in 1..n : j[2 * i - 1].request = k[2 * i - 1].request
  OBVIOUS
<1>2. Applied(j, n) = Applied(k, n)
  BY <1>1 DEF Applied
<1> QED
  BY <1>1, <1>2 DEF After

LEMMA Empty == \A j : After(j, 0) = EmptySnapshot
<1>1. \A j : Applied(j, 0) = <<>>
  BY DEF Applied
<1> QED
  BY <1>1 DEF After, EmptySnapshot

LEMMA AppendApplied ==
  ASSUME NEW j, NEW n \in Nat, \A i \in 1..n + 1 : j[2 * i - 1].request \in Request
  PROVE  Append(Applied(j, n), j[2 * n + 1].request) = Applied(j, n + 1)
<1> DEFINE r == j[2 * n + 1].request
<1>1. r \in Request
  <2>1. n + 1 \in 1..n + 1 /\ 2 * (n + 1) - 1 = 2 * n + 1
    OBVIOUS
  <2> QED
    BY <2>1
<1>2. /\ Applied(j, n) \in Seq(Request) /\ Len(Applied(j, n)) = n
      /\ \A i \in 1..n : Applied(j, n)[i] = j[2 * i - 1].request
  BY AppliedTyped
<1>3. /\ Applied(j, n + 1) \in Seq(Request) /\ Len(Applied(j, n + 1)) = n + 1
      /\ \A i \in 1..n + 1 : Applied(j, n + 1)[i] = j[2 * i - 1].request
  BY AppliedTyped
<1> HIDE DEF r
<1>4. /\ Append(Applied(j, n), r) \in Seq(Request) /\ Len(Append(Applied(j, n), r)) = n + 1
      /\ \A i \in 1..n : Append(Applied(j, n), r)[i] = Applied(j, n)[i]
      /\ Append(Applied(j, n), r)[n + 1] = r
  BY <1>1, <1>2, AppendProperties
<1>5. Applied(j, n + 1)[n + 1] = r
  BY <1>3 DEF r
<1>6. \A i \in 1..n + 1 : Append(Applied(j, n), r)[i] = Applied(j, n + 1)[i]
  <2>1. ASSUME NEW i \in 1..n
        PROVE  Append(Applied(j, n), r)[i] = Applied(j, n + 1)[i]
    BY <1>2, <1>3, <1>4
  <2> QED
    BY <1>4, <1>5, <2>1
<1>7. Append(Applied(j, n), r) = Applied(j, n + 1)
  BY <1>3, <1>4, <1>6, SeqEqual
<1> QED
  BY <1>7 DEF r

\* Two journals that agree on the lines before an operation's COMMITTED line say
\* the same of the operation.
LEMMA LinesKept ==
  ASSUME NEW j, NEW k, NEW i \in Nat \ {0}, \A m \in 1..2 * i - 1 : j[m] = k[m]
  PROVE  PreparedLine(j, i) = PreparedLine(k, i) /\ CommittedLine(j, i) = CommittedLine(k, i)
<1>1. After(j, i - 1) = After(k, i - 1)
  <2>1. i - 1 \in Nat /\ \A m \in 1..2 * (i - 1) : m \in 1..2 * i - 1
    OBVIOUS
  <2> QED
    BY <2>1, AppliedKept
<1>2. After(j, i) = After(k, i)
  <2>1. \A m \in 1..2 * i : m # 2 * i => m \in 1..2 * i - 1
    OBVIOUS
  <2> QED
    BY <2>1, AppliedKept
<1>3. j[2 * i - 1] = k[2 * i - 1]
  BY 2 * i - 1 \in 1..2 * i - 1
<1> QED
  BY <1>1, <1>2, <1>3 DEF PreparedLine, CommittedLine

\* A line is of an operation, and how many lines there are says of which.
LEMMA LineOfOperation ==
  ASSUME NEW m \in Nat \ {0}
  PROVE  \E i \in 1..m : m = 2 * i - 1 \/ m = 2 * i
<1>1. CASE m % 2 = 0
  <2>1. (m \div 2) \in 1..m /\ m = 2 * (m \div 2)
    BY <1>1
  <2> QED
    BY <2>1
<1>2. CASE m % 2 = 1
  <2>1. (m + 1) \div 2 \in 1..m /\ m = 2 * ((m + 1) \div 2) - 1
    BY <1>2
  <2> QED
    BY <2>1
<1> QED
  BY <1>1, <1>2

LEMMA Operations ==
  ASSUME Len(journal) \in Nat
  PROVE  \E n \in 0..Len(journal) : Len(journal) = 2 * n \/ Len(journal) = 2 * n + 1
<1>1. CASE Len(journal) = 0
  BY <1>1
<1>2. CASE Len(journal) # 0
  <2>1. PICK i \in 1..Len(journal) : Len(journal) = 2 * i - 1 \/ Len(journal) = 2 * i
    BY <1>2, LineOfOperation
  <2>2. CASE Len(journal) = 2 * i
    BY <2>2
  <2>3. CASE Len(journal) = 2 * i - 1
    <3>1. i - 1 \in 0..Len(journal) /\ Len(journal) = 2 * (i - 1) + 1
      BY <2>3
    <3> QED
      BY <3>1
  <2> QED
    BY <2>1, <2>2, <2>3
<1> QED
  BY <1>1, <1>2

\* The first c lines of the journals j and k are the same.
Agree(j, k, c) ==
  /\ Len(j) \in Nat /\ Len(k) \in Nat
  /\ c \in Nat /\ c <= Len(j) /\ c <= Len(k)
  /\ \A m \in 1..c : k[m] = j[m]

\* A journal that goes on as its operations do, line by line.
LEMMA LinesFollowFrom ==
  ASSUME NEW j, NEW k, NEW c, Agree(j, k, c), LinesFollow(j),
         \A i \in 1..Len(k) : c < 2 * i - 1 /\ 2 * i - 1 <= Len(k) =>
            /\ k[2 * i - 1] = PreparedLine(k, i)
            /\ k[2 * i - 1].request \in Request
            /\ k[2 * i - 1].request.gen = i - 1,
         \A i \in 1..Len(k) : c < 2 * i /\ 2 * i <= Len(k) => k[2 * i] = CommittedLine(k, i)
  PROVE  LinesFollow(k)
<1> USE DEF Agree
<1> SUFFICES ASSUME NEW i \in 1..Len(k)
             PROVE  /\ 2 * i - 1 <= Len(k) => /\ k[2 * i - 1] = PreparedLine(k, i)
                                              /\ k[2 * i - 1].request \in Request
                                              /\ k[2 * i - 1].request.gen = i - 1
                    /\ 2 * i <= Len(k) => k[2 * i] = CommittedLine(k, i)
  BY DEF LinesFollow
<1>1. CASE 2 * i - 1 <= c
  <2>1. \A m \in 1..2 * i - 1 : j[m] = k[m]
    BY <1>1
  <2>2. PreparedLine(j, i) = PreparedLine(k, i) /\ CommittedLine(j, i) = CommittedLine(k, i)
    BY <2>1, LinesKept
  <2>3. i \in 1..Len(j) /\ 2 * i - 1 <= Len(j)
    BY <1>1
  <2>4. /\ j[2 * i - 1] = PreparedLine(j, i)
        /\ j[2 * i - 1].request \in Request
        /\ j[2 * i - 1].request.gen = i - 1
        /\ 2 * i <= Len(j) => j[2 * i] = CommittedLine(j, i)
    BY <2>3 DEF LinesFollow
  <2>5. k[2 * i - 1] = j[2 * i - 1]
    BY <1>1
  <2>6. CASE 2 * i <= c
    <3>1. k[2 * i] = j[2 * i] /\ 2 * i <= Len(j)
      BY <2>6
    <3> QED
      BY <2>2, <2>4, <2>5, <3>1
  <2>7. CASE c < 2 * i
    BY <2>2, <2>4, <2>5, <2>7
  <2> QED
    BY <2>6, <2>7
<1>2. CASE c < 2 * i - 1
  BY <1>2
<1> QED
  BY <1>1, <1>2

LEMMA KeysDistinctFrom ==
  ASSUME NEW j, NEW k, NEW c, Agree(j, k, c), KeysDistinct(j),
         \A i, l \in 1..Len(k) :
            2 * l - 1 <= Len(k) /\ c < 2 * l - 1 /\ i < l =>
               k[2 * i - 1].request.key # k[2 * l - 1].request.key
  PROVE  KeysDistinct(k)
<1> USE DEF Agree
<1> SUFFICES ASSUME NEW i \in 1..Len(k), NEW l \in 1..Len(k), i < l, 2 * l - 1 <= Len(k),
                    k[2 * i - 1].request.key = k[2 * l - 1].request.key
             PROVE  FALSE
  BY DEF KeysDistinct
<1>1. CASE 2 * l - 1 <= c
  <2>1. k[2 * i - 1] = j[2 * i - 1] /\ k[2 * l - 1] = j[2 * l - 1]
    BY <1>1
  <2>2. i \in 1..Len(j) /\ l \in 1..Len(j) /\ 2 * i - 1 <= Len(j) /\ 2 * l - 1 <= Len(j)
    BY <1>1
  <2> QED
    BY <2>1, <2>2 DEF KeysDistinct
<1>2. CASE c < 2 * l - 1
  BY <1>2
<1> QED
  BY <1>1, <1>2

-----------------------------------------------------------------------------
\* Reading a journal whose lines follow from its operations.

LEMMA LineForms ==
  ASSUME journal \in Seq(Event), LinesFollow(journal), NEW e \in Lines
  PROVE  \E i \in 1..Len(journal) :
           \/ 2 * i - 1 <= Len(journal) /\ e = PreparedLine(journal, i) /\ e = journal[2 * i - 1]
           \/ 2 * i <= Len(journal) /\ e = CommittedLine(journal, i) /\ e = journal[2 * i]
<1>1. PICK m \in 1..Len(journal) : e = journal[m]
  BY LenProperties DEF Lines
<1>a. Len(journal) \in Nat
  BY LenProperties
<1>b. m \in Nat \ {0}
  BY <1>a
<1>2. PICK i \in 1..m : m = 2 * i - 1 \/ m = 2 * i
  BY <1>b, LineOfOperation
<1>3. i \in 1..Len(journal)
  BY <1>1, <1>a, <1>2
<1> QED
  BY <1>1, <1>a, <1>2, <1>3 DEF LinesFollow

LEMMA CommittedOnes ==
  ASSUME journal \in Seq(Event), LinesFollow(journal), NEW n \in Nat,
         Len(journal) = 2 * n \/ Len(journal) = 2 * n + 1
  PROVE  CommittedEvents = {CommittedLine(journal, i) : i \in 1..n}
<1>1. ASSUME NEW e \in CommittedEvents
      PROVE  \E i \in 1..n : e = CommittedLine(journal, i)
  <2>1. e \in Lines /\ e.state = "COMMITTED"
    BY DEF CommittedEvents
  <2>2. PICK i \in 1..Len(journal) :
           \/ 2 * i - 1 <= Len(journal) /\ e = PreparedLine(journal, i)
           \/ 2 * i <= Len(journal) /\ e = CommittedLine(journal, i)
    BY <2>1, LineForms
  <2>3. 2 * i <= Len(journal) /\ e = CommittedLine(journal, i)
    BY <2>1, <2>2 DEF PreparedLine
  <2>4. i \in 1..n
    BY <2>3
  <2> QED
    BY <2>3, <2>4
<1>2. ASSUME NEW i \in 1..n
      PROVE  CommittedLine(journal, i) \in CommittedEvents
  <2>1. i \in 1..Len(journal) /\ 2 * i <= Len(journal) /\ 2 * i \in DOMAIN journal
    BY LenProperties
  <2>2. journal[2 * i] = CommittedLine(journal, i)
    BY <2>1 DEF LinesFollow
  <2> QED
    BY <2>1, <2>2 DEF CommittedEvents, Lines, CommittedLine
<1> QED
  BY <1>1, <1>2

LEMMA Settled ==
  ASSUME journal \in Seq(Event), LinesFollow(journal), NEW n \in Nat, Len(journal) = 2 * n
  PROVE  PendingEvents = {}
<1> SUFFICES ASSUME NEW e \in PendingEvents PROVE FALSE
  OBVIOUS
<1>1. PICK i \in 1..Len(journal) :
         \/ 2 * i - 1 <= Len(journal) /\ e = PreparedLine(journal, i)
         \/ 2 * i <= Len(journal) /\ e = CommittedLine(journal, i)
  BY LineForms DEF PendingEvents
<1>2. i \in 1..n
  BY <1>1
<1>3. CommittedLine(journal, i) \in CommittedEvents
  BY <1>2, CommittedOnes
<1> QED
  BY <1>1, <1>3 DEF PendingEvents, PreparedLine, CommittedLine

LEMMA Pending ==
  ASSUME journal \in Seq(Event), LinesFollow(journal), NEW n \in Nat, Len(journal) = 2 * n + 1
  PROVE  PendingEvents = {journal[2 * n + 1]} /\ journal[2 * n + 1] = PreparedLine(journal, n + 1)
<1>1. n + 1 \in 1..Len(journal) /\ 2 * (n + 1) - 1 = 2 * n + 1 /\ 2 * n + 1 \in DOMAIN journal
  BY LenProperties
<1>2. journal[2 * n + 1] = PreparedLine(journal, n + 1)
  BY <1>1 DEF LinesFollow
<1>3. journal[2 * n + 1] \in PendingEvents
  <2>1. ASSUME NEW c \in CommittedEvents PROVE c.seq # n + 1
    <3>1. PICK i \in 1..n : c = CommittedLine(journal, i)
      BY CommittedOnes
    <3> QED
      BY <3>1 DEF CommittedLine
  <2> QED
    BY <1>1, <1>2, <2>1 DEF PendingEvents, Lines, PreparedLine
<1>4. ASSUME NEW e \in PendingEvents PROVE e = journal[2 * n + 1]
  <2>1. PICK i \in 1..Len(journal) :
           \/ 2 * i - 1 <= Len(journal) /\ e = PreparedLine(journal, i) /\ e = journal[2 * i - 1]
           \/ 2 * i <= Len(journal) /\ e = CommittedLine(journal, i)
    BY LineForms DEF PendingEvents
  <2>2. CASE i \in 1..n
    <3>1. CommittedLine(journal, i) \in CommittedEvents
      BY <2>2, CommittedOnes
    <3> QED
      BY <2>1, <3>1 DEF PendingEvents, PreparedLine, CommittedLine
  <2>3. CASE i \notin 1..n
    <3>1. i = n + 1 /\ ~ (2 * i <= Len(journal))
      BY <2>1, <2>3
    <3> QED
      BY <2>1, <3>1
  <2> QED
    BY <2>2, <2>3
<1> QED
  BY <1>2, <1>3, <1>4

\* Applying a pending event gives the snapshot its operation makes.
LEMMA MaterializeAfter ==
  ASSUME journal \in Seq(Event), LinesFollow(journal), NEW n \in Nat,
         Len(journal) >= 2 * n + 1
  PROVE  /\ Materialize(journal[2 * n + 1]) = After(journal, n + 1)
         /\ journal[2 * n + 1].before = After(journal, n)
         /\ journal[2 * n + 1].seq = n + 1
         /\ journal[2 * n + 1].state = "PREPARED"
<1>1. n + 1 \in 1..Len(journal) /\ 2 * (n + 1) - 1 = 2 * n + 1 /\ (n + 1) - 1 = n /\ n + 1 # 0
  BY LenProperties
<1>2. /\ journal[2 * n + 1] = PreparedLine(journal, n + 1)
      /\ journal[2 * n + 1].request.gen = n
  BY <1>1 DEF LinesFollow
<1>3. /\ journal[2 * n + 1].before = After(journal, n) /\ journal[2 * n + 1].seq = n + 1
      /\ journal[2 * n + 1].state = "PREPARED"
  BY <1>1, <1>2 DEF PreparedLine
<1>4. journal[2 * n + 1].before.applied = Applied(journal, n)
  BY <1>3 DEF After
<1>5. Append(Applied(journal, n), journal[2 * n + 1].request) = Applied(journal, n + 1)
  <2>1. \A i \in 1..n + 1 : journal[2 * i - 1].request \in Request
    <3>1. Len(journal) \in Nat /\ n + 1 \in Nat /\ 2 * (n + 1) - 1 <= Len(journal)
      BY LenProperties
    <3> QED
      BY <3>1, RequestsTyped
  <2> QED
    BY <2>1, AppendApplied
<1> QED
  BY <1>1, <1>2, <1>3, <1>4, <1>5 DEF Materialize, After

-----------------------------------------------------------------------------
\* Writing a line, and losing lines.

LEMMA AppendPreparedLine ==
  ASSUME journal \in Seq(Event), LinesFollow(journal), KeysDistinct(journal),
         NEW n \in Nat, Len(journal) = 2 * n, NEW e \in Event, NewEvent(e, n)
  PROVE  /\ Append(journal, e) \in Seq(Event)
         /\ Len(Append(journal, e)) = 2 * n + 1 /\ Append(journal, e)[2 * n + 1] = e
         /\ \A m \in 1..2 * n : Append(journal, e)[m] = journal[m]
         /\ LinesFollow(Append(journal, e)) /\ KeysDistinct(Append(journal, e))
<1> DEFINE k == Append(journal, e)
<1>1. /\ k \in Seq(Event) /\ Len(k) = 2 * n + 1 /\ k[2 * n + 1] = e
      /\ \A m \in 1..2 * n : k[m] = journal[m]
  BY AppendProperties
<1> HIDE DEF k
<1>2. After(k, n) = After(journal, n)
  BY <1>1, AppliedKept
<1>3. e = PreparedLine(k, n + 1)
  <2>1. 2 * (n + 1) - 1 = 2 * n + 1 /\ (n + 1) - 1 = n
    OBVIOUS
  <2> QED
    BY <1>1, <1>2, <2>1 DEF PreparedLine, NewEvent
<1>4. LinesFollow(k)
  <2>1. \A i \in 1..Len(k) : 2 * n < 2 * i - 1 /\ 2 * i - 1 <= Len(k) =>
            /\ k[2 * i - 1] = PreparedLine(k, i)
            /\ k[2 * i - 1].request \in Request
            /\ k[2 * i - 1].request.gen = i - 1
    <3> SUFFICES ASSUME NEW i \in 1..Len(k), 2 * n < 2 * i - 1, 2 * i - 1 <= Len(k)
                 PROVE  /\ k[2 * i - 1] = PreparedLine(k, i)
                        /\ k[2 * i - 1].request \in Request
                        /\ k[2 * i - 1].request.gen = i - 1
      OBVIOUS
    <3>1. i = n + 1 /\ 2 * i - 1 = 2 * n + 1 /\ i - 1 = n
      BY <1>1
    <3> QED
      BY <1>1, <1>3, <3>1 DEF NewEvent
  <2>2. \A i \in 1..Len(k) : 2 * n < 2 * i /\ 2 * i <= Len(k) => k[2 * i] = CommittedLine(k, i)
    BY <1>1
  <2>3. Agree(journal, k, 2 * n)
    BY <1>1 DEF Agree
  <2> QED
    BY <1>1, <2>1, <2>2, <2>3, LinesFollowFrom
<1>5. KeysDistinct(k)
  <2>1. \A i, l \in 1..Len(k) :
            2 * l - 1 <= Len(k) /\ 2 * n < 2 * l - 1 /\ i < l =>
               k[2 * i - 1].request.key # k[2 * l - 1].request.key
    <3> SUFFICES ASSUME NEW i \in 1..Len(k), NEW l \in 1..Len(k),
                        2 * l - 1 <= Len(k), 2 * n < 2 * l - 1, i < l
                 PROVE  k[2 * i - 1].request.key # k[2 * l - 1].request.key
      OBVIOUS
    <3>1. 2 * l - 1 = 2 * n + 1 /\ 2 * i - 1 \in 1..2 * n
      BY <1>1
    <3>2. k[2 * i - 1] = journal[2 * i - 1] /\ journal[2 * i - 1] \in Lines
      BY <1>1, <3>1, LenProperties DEF Lines
    <3>3. journal[2 * i - 1].request.key # e.request.key
      BY <3>2 DEF NewEvent
    <3>4. k[2 * l - 1] = k[2 * n + 1]
      BY <3>1, SMT
    <3> QED
      BY <1>1, <3>2, <3>3, <3>4
  <2>2. Agree(journal, k, 2 * n)
    BY <1>1 DEF Agree
  <2> QED
    BY <2>1, <2>2, KeysDistinctFrom
<1> QED
  BY <1>1, <1>4, <1>5 DEF k

LEMMA AppendCommittedLine ==
  ASSUME journal \in Seq(Event), LinesFollow(journal), KeysDistinct(journal),
         NEW n \in Nat, Len(journal) = 2 * n + 1, NEW e \in Event,
         e = CommittedLine(journal, n + 1)
  PROVE  /\ Append(journal, e) \in Seq(Event)
         /\ Len(Append(journal, e)) = 2 * n + 2 /\ Append(journal, e)[2 * n + 2] = e
         /\ \A m \in 1..2 * n + 1 : Append(journal, e)[m] = journal[m]
         /\ LinesFollow(Append(journal, e)) /\ KeysDistinct(Append(journal, e))
<1> DEFINE k == Append(journal, e)
<1>1. /\ k \in Seq(Event) /\ Len(k) = 2 * n + 2 /\ k[2 * n + 2] = e
      /\ \A m \in 1..2 * n + 1 : k[m] = journal[m]
  BY AppendProperties
<1> HIDE DEF k
<1>2. CommittedLine(journal, n + 1) = CommittedLine(k, n + 1)
  <2>1. n + 1 \in Nat \ {0} /\ \A m \in 1..2 * (n + 1) - 1 : journal[m] = k[m]
    BY <1>1
  <2> QED
    BY <2>1, LinesKept
<1>3. Agree(journal, k, 2 * n + 1)
  BY <1>1 DEF Agree
<1>4. \A i \in 1..Len(k) : ~ (2 * n + 1 < 2 * i - 1 /\ 2 * i - 1 <= Len(k))
  BY <1>1
<1>5. \A i \in 1..Len(k) : 2 * n + 1 < 2 * i /\ 2 * i <= Len(k) => k[2 * i] = CommittedLine(k, i)
  <2> SUFFICES ASSUME NEW i \in 1..Len(k), 2 * n + 1 < 2 * i, 2 * i <= Len(k)
               PROVE  k[2 * i] = CommittedLine(k, i)
    OBVIOUS
  <2>1. i = n + 1 /\ 2 * i = 2 * n + 2
    BY <1>1
  <2> QED
    BY <1>1, <1>2, <2>1
<1>6. LinesFollow(k)
  BY <1>1, <1>3, <1>4, <1>5, LinesFollowFrom
<1>7. KeysDistinct(k)
  BY <1>1, <1>3, <1>4, KeysDistinctFrom
<1> QED
  BY <1>1, <1>6, <1>7 DEF k

LEMMA CutLines ==
  ASSUME journal \in Seq(Event), LinesFollow(journal), KeysDistinct(journal),
         NEW c \in 0..Len(journal)
  PROVE  /\ SubSeq(journal, 1, c) \in Seq(Event) /\ Len(SubSeq(journal, 1, c)) = c
         /\ \A m \in 1..c : SubSeq(journal, 1, c)[m] = journal[m]
         /\ LinesFollow(SubSeq(journal, 1, c)) /\ KeysDistinct(SubSeq(journal, 1, c))
<1> DEFINE k == SubSeq(journal, 1, c)
<1>1. /\ k \in Seq(Event) /\ Len(k) = c
      /\ \A m \in 1..c : k[m] = journal[m]
  <2>1. Len(journal) \in Nat /\ journal \in [1..Len(journal) -> Event]
    BY LenProperties
  <2>2. k = [m \in 1..c |-> journal[m]]
    BY <2>1
  <2> QED
    BY <2>1, <2>2
<1> HIDE DEF k
<1>2. Agree(journal, k, c)
  BY <1>1, LenProperties DEF Agree
<1>a. \A i \in 1..Len(k) : ~ (c < 2 * i - 1 /\ 2 * i - 1 <= Len(k)) /\ ~ (c < 2 * i /\ 2 * i <= Len(k))
  BY <1>1
<1>3. LinesFollow(k)
  BY <1>2, <1>a, LinesFollowFrom
<1>4. KeysDistinct(k)
  BY <1>2, <1>a, KeysDistinctFrom
<1> QED
  BY <1>1, <1>3, <1>4 DEF k

-----------------------------------------------------------------------------
\* The invariant is inductive: one lemma for each action.

LEMMA Initially == Init => IInv
<1> SUFFICES ASSUME Init PROVE IInv
  OBVIOUS
<1>1. EmptySnapshot \in Snapshot
  BY DEF EmptySnapshot, Snapshot
<1>2. journal \in Seq(Event) /\ Len(journal) = 0
  BY DEF Init
<1>3. TypeOK
  BY <1>1, <1>2 DEF Init, TypeOK, TailKinds, Label
<1>4. SnapshotFollows
  BY <1>2, Empty DEF Init, SnapshotFollows, IsAfter
<1> QED
  BY <1>2, <1>3, <1>4
     DEF Init, IInv, LinesFollow, KeysDistinct, OneCall, CallFollows, Busy, DiskFollows, AnswersFollow

\* Only the process that is inside a call moves.
LEMMA OtherIdle ==
  ASSUME IInv, NEW p \in Proc, LockFree \/ pc[p] # "idle", NEW l \in Label,
         pc' = [pc EXCEPT ![p] = l]
  PROVE  /\ pc'[p] = l /\ pc' \in [Proc -> Label]
         /\ \A q \in Proc : q # p => pc[q] = "idle" /\ pc'[q] = "idle" /\ CallFollows(q)'
         /\ OneCall'
<1>1. pc \in [Proc -> Label]
  BY DEF IInv, TypeOK
<1>2. \A q \in Proc : q # p => pc[q] = "idle" /\ pc'[q] = "idle"
  BY <1>1 DEF IInv, OneCall, LockFree
<1>3. \A q \in Proc : q # p => CallFollows(q)'
  BY <1>2 DEF CallFollows, Busy
<1> QED
  BY <1>1, <1>2, <1>3 DEF OneCall

LEMMA LenTyped == ASSUME IInv PROVE journal \in Seq(Event) /\ Len(journal) \in Nat
  BY LenProperties DEF IInv, TypeOK

\* Where files, answers and failures stay, and the process goes on.
LEMMA FilesStay ==
  ASSUME IInv, UNCHANGED <<journal, snapshot, answered, failing>>,
         synced' \in 0..Len(journal), synced <= synced'
  PROVE  /\ LinesFollow(journal)' /\ KeysDistinct(journal)' /\ SnapshotFollows'
         /\ AnswersFollow'
<1>1. Len(journal) \in Nat /\ synced \in Nat /\ synced' \in Nat
  BY LenTyped DEF IInv, TypeOK
<1>2. LinesFollow(journal)' /\ KeysDistinct(journal)' /\ SnapshotFollows'
  BY DEF IInv, SnapshotFollows, IsAfter
<1>3. AnswersFollow'
  BY <1>1 DEF IInv, AnswersFollow
<1> QED
  BY <1>2, <1>3

LEMMA SyncPreparedKeeps ==
  ASSUME IInv, NEW p \in Proc, SyncPrepared(p) PROVE IInv'
<1>1. /\ pc[p] = "syncPrepared" /\ synced' = Len(journal) /\ pc' = [pc EXCEPT ![p] = "replace"]
      /\ UNCHANGED <<journal, tail, snapshot, stable, event, answered, failing>>
  BY DEF SyncPrepared, Goto
<1>2. Len(journal) \in Nat
  BY LenTyped
<1>3. /\ pc'[p] = "replace" /\ pc' \in [Proc -> Label]
      /\ \A q \in Proc : q # p => pc[q] = "idle" /\ pc'[q] = "idle" /\ CallFollows(q)'
      /\ OneCall'
  BY <1>1, OtherIdle DEF Label
<1>4. TypeOK'
  BY <1>1, <1>2, <1>3 DEF IInv, TypeOK
<1>5. LinesFollow(journal)' /\ KeysDistinct(journal)' /\ SnapshotFollows' /\ AnswersFollow'
  BY <1>1, <1>2, FilesStay DEF IInv, TypeOK
<1>6. CallFollows(p)'
  BY <1>1, <1>3 DEF IInv, CallFollows, Busy, IsAfter
<1>7. DiskFollows'
  BY <1>1, <1>2, <1>3 DEF IInv, DiskFollows
<1> QED
  BY <1>3, <1>4, <1>5, <1>6, <1>7 DEF IInv

LEMMA ReplaceSnapshotKeeps ==
  ASSUME IInv, NEW p \in Proc, ReplaceSnapshot(p) PROVE IInv'
<1>1. /\ pc[p] = "replace" /\ pc' = [pc EXCEPT ![p] = "syncDirectory"]
      /\ snapshot' = Materialize(event[p])
      /\ UNCHANGED <<journal, synced, tail, stable, event, answered, failing>>
  BY DEF ReplaceSnapshot, Goto
<1>2. journal \in Seq(Event) /\ Len(journal) \in Nat /\ LinesFollow(journal)
  BY LenTyped DEF IInv
<1>3. /\ pc'[p] = "syncDirectory" /\ pc' \in [Proc -> Label]
      /\ \A q \in Proc : q # p => pc[q] = "idle" /\ pc'[q] = "idle" /\ CallFollows(q)'
      /\ OneCall'
  BY <1>1, OtherIdle DEF Label
<1>4. PICK n \in 0..Len(journal) :
         Len(journal) = 2 * n + 1 /\ event[p] = journal[2 * n + 1] /\ IsAfter(snapshot, n)
  BY <1>1 DEF IInv, CallFollows
<1>5. snapshot' = After(journal, n + 1)
  BY <1>1, <1>2, <1>4, MaterializeAfter
<1>6. snapshot' \in Snapshot
  <2>1. n + 1 \in Nat /\ 2 * (n + 1) - 1 <= Len(journal)
    BY <1>2, <1>4
  <2> QED
    BY <1>2, <1>5, <2>1, AfterTyped
<1>7. TypeOK'
  BY <1>1, <1>3, <1>6 DEF IInv, TypeOK
<1>8. SnapshotFollows'
  <2> SUFFICES ASSUME NEW m \in 0..Len(journal)
               PROVE  /\ Len(journal) = 2 * m => IsAfter(snapshot, m)'
                      /\ Len(journal) = 2 * m + 1 => IsAfter(snapshot, m)' \/ IsAfter(snapshot, m + 1)'
    BY <1>1 DEF SnapshotFollows, IsAfter
  <2>1. Len(journal) # 2 * m
    BY <1>4
  <2>2. Len(journal) = 2 * m + 1 => m = n
    BY <1>4
  <2> QED
    BY <1>1, <1>5, <2>1, <2>2 DEF IsAfter
<1>9. CallFollows(p)'
  <2>1. tail = "none"
    BY <1>1 DEF IInv, CallFollows, Busy
  <2> QED
    BY <1>1, <1>3, <1>4, <1>5, <2>1 DEF CallFollows, Busy, IsAfter
<1>10. DiskFollows'
  <2> SUFFICES ASSUME "power" \in failing
               PROVE  synced = Len(journal) /\ stable = snapshot
    BY <1>1, <1>3, <1>4 DEF DiskFollows, IsAfter
  <2> QED
    BY <1>1, <1>3 DEF IInv, DiskFollows
<1>11. LinesFollow(journal)' /\ KeysDistinct(journal)' /\ AnswersFollow'
  BY <1>1 DEF IInv, AnswersFollow
<1> QED
  BY <1>3, <1>7, <1>8, <1>9, <1>10, <1>11 DEF IInv

LEMMA SyncDirectoryKeeps ==
  ASSUME IInv, FailuresApart, NEW p \in Proc, SyncDirectory(p) PROVE IInv'
<1>1. /\ pc[p] = "syncDirectory" /\ pc' = [pc EXCEPT ![p] = "commit"]
      /\ stable' \in {snapshot, stable}
      /\ "directory" \notin failing => stable' = snapshot
      /\ UNCHANGED <<journal, synced, tail, snapshot, event, answered, failing>>
  BY DEF SyncDirectory, Goto
<1>2. Len(journal) \in Nat
  BY LenTyped
<1>3. /\ pc'[p] = "commit" /\ pc' \in [Proc -> Label]
      /\ \A q \in Proc : q # p => pc[q] = "idle" /\ pc'[q] = "idle" /\ CallFollows(q)'
      /\ OneCall'
  BY <1>1, OtherIdle DEF Label
<1>4. TypeOK'
  BY <1>1, <1>3 DEF IInv, TypeOK
<1>5. LinesFollow(journal)' /\ KeysDistinct(journal)' /\ SnapshotFollows' /\ AnswersFollow'
  BY <1>1, FilesStay DEF IInv, TypeOK
<1>6. CallFollows(p)'
  BY <1>1, <1>3 DEF IInv, CallFollows, Busy, IsAfter
<1>7. DiskFollows'
  <2> SUFFICES ASSUME "power" \in failing
               PROVE  synced = Len(journal) /\ stable' = snapshot
    BY <1>1 DEF DiskFollows
  <2>1. "directory" \notin failing
    BY DEF FailuresApart, IInv, TypeOK
  <2> QED
    BY <1>1, <1>3, <2>1 DEF IInv, DiskFollows
<1> QED
  BY <1>3, <1>4, <1>5, <1>6, <1>7 DEF IInv

LEMMA AppendPreparedKeeps ==
  ASSUME IInv, NEW p \in Proc, AppendPrepared(p) PROVE IInv'
<1>1. /\ pc[p] = "prepare" /\ pc' = [pc EXCEPT ![p] = "syncPrepared"]
      /\ journal' = Append(journal, event[p])
      /\ UNCHANGED <<synced, tail, snapshot, stable, event, answered, failing>>
  BY DEF AppendPrepared, Goto
<1>2. /\ journal \in Seq(Event) /\ Len(journal) \in Nat /\ LinesFollow(journal)
      /\ KeysDistinct(journal) /\ synced \in 0..Len(journal)
  BY LenTyped DEF IInv, TypeOK
<1>3. /\ pc'[p] = "syncPrepared" /\ pc' \in [Proc -> Label]
      /\ \A q \in Proc : q # p => pc[q] = "idle" /\ pc'[q] = "idle" /\ CallFollows(q)'
      /\ OneCall'
  BY <1>1, OtherIdle DEF Label
<1>4. PICK n \in 0..Len(journal) : Len(journal) = 2 * n /\ NewEvent(event[p], n)
  BY <1>1 DEF IInv, CallFollows
<1>5. event[p] \in Event
  <2>1. n \in Nat /\ 2 * n - 1 <= Len(journal)
    BY <1>2, <1>4
  <2>2. After(journal, n) \in Snapshot
    BY <1>2, <2>1, AfterTyped
  <2> QED
    BY <1>4, <2>2 DEF NewEvent, Event
<1>6. /\ journal' \in Seq(Event) /\ Len(journal') = 2 * n + 1 /\ journal'[2 * n + 1] = event[p]
      /\ \A m \in 1..2 * n : journal'[m] = journal[m]
      /\ LinesFollow(journal') /\ KeysDistinct(journal')
  <2>1. n \in Nat
    BY <1>2, <1>4
  <2> QED
    BY <1>1, <1>2, <1>4, <1>5, <2>1, AppendPreparedLine
<1>7. TypeOK'
  <2>1. synced' \in 0..Len(journal')
    BY <1>1, <1>2, <1>4, <1>6
  <2> QED
    BY <1>1, <1>3, <1>6, <2>1 DEF IInv, TypeOK
<1>8. After(journal', n) = After(journal, n)
  <2>1. n \in Nat /\ \A m \in 1..2 * n : m # 2 * n => journal'[m] = journal[m]
    BY <1>4, <1>6
  <2> QED
    BY <2>1, AppliedKept
<1>9. IsAfter(snapshot, n) /\ IsAfter(snapshot, n)'
  <2>1. IsAfter(snapshot, n)
    BY <1>4 DEF IInv, SnapshotFollows
  <2> QED
    BY <1>1, <1>8, <2>1 DEF IsAfter
<1>10. SnapshotFollows'
  <2> SUFFICES ASSUME NEW m \in 0..Len(journal')
               PROVE  /\ Len(journal') = 2 * m => IsAfter(snapshot, m)'
                      /\ Len(journal') = 2 * m + 1 => IsAfter(snapshot, m)' \/ IsAfter(snapshot, m + 1)'
    BY DEF SnapshotFollows
  <2>1. Len(journal') # 2 * m
    BY <1>6
  <2>2. Len(journal') = 2 * m + 1 => m = n
    BY <1>6
  <2> QED
    BY <1>9, <2>1, <2>2
<1>11. CallFollows(p)'
  <2>1. tail = "none"
    BY <1>1 DEF IInv, CallFollows, Busy
  <2>2. n \in 0..Len(journal')
    BY <1>4, <1>6
  <2> QED
    BY <1>1, <1>3, <1>6, <1>9, <2>1, <2>2 DEF CallFollows, Busy
<1>12. DiskFollows'
  <2> SUFFICES ASSUME "power" \in failing
               PROVE  synced = Len(journal) /\ stable = snapshot
    BY <1>1, <1>3, <1>4, <1>6 DEF DiskFollows
  <2> QED
    BY <1>1, <1>3 DEF IInv, DiskFollows
<1>13. AnswersFollow'
  <2> SUFFICES ASSUME NEW r \in answered
               PROVE  \E i \in 1..Len(journal') : /\ 2 * i <= Len(journal')
                                                  /\ journal'[2 * i].request = r
                                                  /\ "power" \in failing => 2 * i <= synced
    BY <1>1 DEF AnswersFollow
  <2>1. PICK i \in 1..Len(journal) : /\ 2 * i <= Len(journal)
                                     /\ journal[2 * i].request = r
                                     /\ "power" \in failing => 2 * i <= synced
    BY DEF IInv, AnswersFollow
  <2>2. i \in 1..Len(journal') /\ 2 * i \in 1..2 * n /\ 2 * i <= Len(journal')
    BY <1>4, <1>6, <2>1
  <2> QED
    BY <1>6, <2>1, <2>2
<1> QED
  BY <1>3, <1>6, <1>7, <1>10, <1>11, <1>12, <1>13 DEF IInv

LEMMA CommittedEvent ==
  ASSUME NEW a, NEW b, NEW c
  PROVE  Committed([state |-> "PREPARED", seq |-> a, request |-> b, before |-> c, after |-> Nil])
           = [state |-> "COMMITTED", seq |-> a, request |-> b, before |-> c, after |-> snapshot]
<1> DEFINE line(s, after) == [state |-> s, seq |-> a, request |-> b, before |-> c, after |-> after]
<1>1. [line("PREPARED", Nil) EXCEPT !.state = "COMMITTED"] = line("COMMITTED", Nil)
  OBVIOUS
<1>2. [line("COMMITTED", Nil) EXCEPT !.after = snapshot] = line("COMMITTED", snapshot)
  OBVIOUS
<1>3. Committed(line("PREPARED", Nil)) =
        [[line("PREPARED", Nil) EXCEPT !.state = "COMMITTED"] EXCEPT !.after = snapshot]
  BY DEF Committed
<1> QED
  BY <1>1, <1>2, <1>3

LEMMA AppendCommittedKeeps ==
  ASSUME IInv, NEW p \in Proc, AppendCommitted(p) PROVE IInv'
<1>1. /\ pc[p] = "commit" /\ pc' = [pc EXCEPT ![p] = "syncCommitted"]
      /\ journal' = Append(journal, Committed(event[p]))
      /\ UNCHANGED <<synced, tail, snapshot, stable, event, answered, failing>>
  BY DEF AppendCommitted, Goto
<1>2. /\ journal \in Seq(Event) /\ Len(journal) \in Nat /\ LinesFollow(journal)
      /\ KeysDistinct(journal) /\ synced \in 0..Len(journal)
  BY LenTyped DEF IInv, TypeOK
<1>3. /\ pc'[p] = "syncCommitted" /\ pc' \in [Proc -> Label]
      /\ \A q \in Proc : q # p => pc[q] = "idle" /\ pc'[q] = "idle" /\ CallFollows(q)'
      /\ OneCall'
  BY <1>1, OtherIdle DEF Label
<1>4. PICK n \in 0..Len(journal) :
         Len(journal) = 2 * n + 1 /\ event[p] = journal[2 * n + 1] /\ IsAfter(snapshot, n + 1)
  BY <1>1 DEF IInv, CallFollows
<1>5. n \in Nat /\ n + 1 # 0 /\ (n + 1) - 1 = n /\ 2 * (n + 1) - 1 = 2 * n + 1 /\ 2 * n + 1 \in 1..Len(journal)
  BY <1>2, <1>4
<1>6. snapshot = After(journal, n + 1)
  BY <1>4, <1>5 DEF IsAfter
<1>7. Committed(event[p]) = CommittedLine(journal, n + 1)
  <2>1. event[p] = PreparedLine(journal, n + 1)
    BY <1>2, <1>4, <1>5, Pending
  <2>2. Committed(PreparedLine(journal, n + 1)) =
          [state |-> "COMMITTED", seq |-> n + 1, request |-> journal[2 * (n + 1) - 1].request,
           before |-> After(journal, (n + 1) - 1), after |-> snapshot]
    BY CommittedEvent DEF PreparedLine
  <2> QED
    BY <1>6, <2>1, <2>2 DEF CommittedLine
<1>8. Committed(event[p]) \in Event
  <2>1. event[p] \in Event
    BY <1>2, <1>4, <1>5
  <2>2. snapshot \in Snapshot
    BY <1>2, <1>4, <1>5, <1>6, AfterTyped
  <2> QED
    BY <2>1, <2>2 DEF Committed, Event
<1>9. /\ journal' \in Seq(Event) /\ Len(journal') = 2 * n + 2
      /\ journal'[2 * n + 2] = CommittedLine(journal, n + 1)
      /\ \A m \in 1..2 * n + 1 : journal'[m] = journal[m]
      /\ LinesFollow(journal') /\ KeysDistinct(journal')
  BY <1>1, <1>2, <1>4, <1>5, <1>7, <1>8, AppendCommittedLine
<1>10. TypeOK'
  <2>1. synced' \in 0..Len(journal')
    BY <1>1, <1>2, <1>4, <1>9
  <2> QED
    BY <1>1, <1>3, <1>9, <2>1 DEF IInv, TypeOK
<1>11. After(journal', n + 1) = After(journal, n + 1)
  <2>1. n + 1 \in Nat /\ \A m \in 1..2 * (n + 1) : m # 2 * (n + 1) => journal'[m] = journal[m]
    BY <1>5, <1>9
  <2> QED
    BY <2>1, AppliedKept
<1>12. SnapshotFollows'
  <2> SUFFICES ASSUME NEW m \in 0..Len(journal')
               PROVE  /\ Len(journal') = 2 * m => IsAfter(snapshot, m)'
                      /\ Len(journal') = 2 * m + 1 => IsAfter(snapshot, m)' \/ IsAfter(snapshot, m + 1)'
    BY DEF SnapshotFollows
  <2>1. Len(journal') # 2 * m + 1
    BY <1>9
  <2>2. Len(journal') = 2 * m => m = n + 1
    BY <1>9
  <2>3. IsAfter(snapshot, n + 1)'
    BY <1>1, <1>6, <1>11 DEF IsAfter
  <2> QED
    BY <2>1, <2>2, <2>3
<1>13. CallFollows(p)'
  <2>1. tail = "none"
    BY <1>1 DEF IInv, CallFollows, Busy
  <2>2. n \in 0..Len(journal') /\ journal'[2 * n + 1] = journal[2 * n + 1]
    BY <1>5, <1>9
  <2> QED
    BY <1>1, <1>3, <1>4, <1>9, <2>1, <2>2 DEF CallFollows, Busy
<1>14. DiskFollows'
  <2> SUFFICES ASSUME "power" \in failing
               PROVE  synced = Len(journal) /\ stable = snapshot
    BY <1>1, <1>3, <1>4, <1>9 DEF DiskFollows
  <2> QED
    BY <1>1, <1>3 DEF IInv, DiskFollows
<1>15. AnswersFollow'
  <2> SUFFICES ASSUME NEW r \in answered
               PROVE  \E i \in 1..Len(journal') : /\ 2 * i <= Len(journal')
                                                  /\ journal'[2 * i].request = r
                                                  /\ "power" \in failing => 2 * i <= synced
    BY <1>1 DEF AnswersFollow
  <2>1. PICK i \in 1..Len(journal) : /\ 2 * i <= Len(journal)
                                     /\ journal[2 * i].request = r
                                     /\ "power" \in failing => 2 * i <= synced
    BY DEF IInv, AnswersFollow
  <2>2. i \in 1..Len(journal') /\ 2 * i \in 1..2 * n + 1 /\ 2 * i <= Len(journal')
    BY <1>4, <1>9, <2>1
  <2> QED
    BY <1>9, <2>1, <2>2
<1> QED
  BY <1>3, <1>9, <1>10, <1>12, <1>13, <1>14, <1>15 DEF IInv

LEMMA SyncCommittedKeeps ==
  ASSUME IInv, NEW p \in Proc, SyncCommitted(p) PROVE IInv'
<1>1. /\ pc[p] = "syncCommitted" /\ synced' = Len(journal) /\ pc' = [pc EXCEPT ![p] = "idle"]
      /\ answered' = answered \union {event[p].request}
      /\ event' = [event EXCEPT ![p] = Nil]
      /\ UNCHANGED <<journal, tail, snapshot, stable, failing>>
  BY DEF SyncCommitted, Goto
<1>2. /\ journal \in Seq(Event) /\ Len(journal) \in Nat /\ LinesFollow(journal)
      /\ synced \in 0..Len(journal)
  BY LenTyped DEF IInv, TypeOK
<1>3. /\ pc'[p] = "idle" /\ pc' \in [Proc -> Label]
      /\ \A q \in Proc : q # p => pc[q] = "idle" /\ pc'[q] = "idle" /\ CallFollows(q)'
      /\ OneCall'
  BY <1>1, OtherIdle DEF Label
<1>4. PICK n \in 0..Len(journal) :
         Len(journal) = 2 * n + 2 /\ event[p] = journal[2 * n + 1]
  BY <1>1 DEF IInv, CallFollows
<1>5. /\ n + 1 \in 1..Len(journal) /\ 2 * (n + 1) = Len(journal)
      /\ 2 * (n + 1) - 1 = 2 * n + 1 /\ 2 * n + 1 \in 1..Len(journal)
  BY <1>2, <1>4
<1>6. event[p].request \in Request /\ journal[2 * (n + 1)].request = event[p].request
  <2>1. /\ journal[2 * (n + 1) - 1].request \in Request
        /\ journal[2 * (n + 1)] = CommittedLine(journal, n + 1)
    BY <1>2, <1>5 DEF LinesFollow
  <2> QED
    BY <1>4, <1>5, <2>1 DEF CommittedLine
<1>7. TypeOK'
  BY <1>1, <1>2, <1>3, <1>6 DEF IInv, TypeOK
<1>8. SnapshotFollows' /\ LinesFollow(journal)' /\ KeysDistinct(journal)'
  BY <1>1 DEF IInv, SnapshotFollows, IsAfter
<1>9. CallFollows(p)'
  BY <1>3 DEF CallFollows, Busy
<1>10. DiskFollows'
  BY <1>1, <1>3 DEF IInv, DiskFollows
<1>11. AnswersFollow'
  <2> SUFFICES ASSUME NEW r \in answered \union {event[p].request}
               PROVE  \E i \in 1..Len(journal) : 2 * i <= Len(journal) /\ journal[2 * i].request = r
    BY <1>1 DEF AnswersFollow
  <2>1. CASE r \in answered
    BY <2>1 DEF IInv, AnswersFollow
  <2>2. CASE r = event[p].request
    <3>1. n + 1 \in 1..Len(journal) /\ 2 * (n + 1) <= Len(journal) /\ journal[2 * (n + 1)].request = r
      BY <1>2, <1>5, <1>6, <2>2
    <3> QED
      BY <3>1
  <2> QED
    BY <2>1, <2>2
<1> QED
  BY <1>3, <1>7, <1>8, <1>9, <1>10, <1>11 DEF IInv

\* What an operator or a caller finds when nobody is inside a call.
LEMMA CleanIsSettled ==
  ASSUME IInv, Clean
  PROVE  \E n \in 0..Len(journal) : /\ Len(journal) = 2 * n
                                    /\ IsAfter(snapshot, n)
                                    /\ Base = After(journal, n) /\ Base \in Snapshot
                                    /\ NextSeq = n + 1
<1>1. journal \in Seq(Event) /\ Len(journal) \in Nat /\ LinesFollow(journal)
  BY LenTyped DEF IInv
<1>2. PICK n \in 0..Len(journal) : Len(journal) = 2 * n \/ Len(journal) = 2 * n + 1
  BY <1>1, Operations
<1>3. n \in Nat
  BY <1>1, <1>2
<1>4. Len(journal) = 2 * n
  BY <1>1, <1>2, <1>3, Pending DEF Clean
<1>5. IsAfter(snapshot, n)
  BY <1>4 DEF IInv, SnapshotFollows
<1>6. Base = After(journal, n) /\ Base \in Snapshot
  <2>1. After(journal, n) \in Snapshot /\ After(journal, n) # Nil
    BY <1>1, <1>3, <1>4, AfterTyped
  <2>2. CASE snapshot = Nil
    <3>1. n = 0
      BY <1>5, <2>1, <2>2 DEF IsAfter
    <3> QED
      BY <2>1, <2>2, <3>1, Empty DEF Base
  <2>3. CASE snapshot # Nil
    BY <1>5, <2>1, <2>3 DEF IsAfter, Base
  <2> QED
    BY <2>2, <2>3
<1>7. NextSeq = n + 1
  <2>1. CASE n = 0
    <3>1. journal = <<>>
      BY <1>1, <1>4, <2>1
    <3> QED
      BY <2>1, <3>1 DEF NextSeq
  <2>2. CASE n # 0
    <3>1. n \in 1..Len(journal) /\ 2 * n <= Len(journal) /\ journal # <<>>
      BY <1>1, <1>4, <2>2
    <3>2. journal[2 * n] = CommittedLine(journal, n)
      BY <1>1, <3>1 DEF LinesFollow
    <3> QED
      BY <1>3, <1>4, <3>1, <3>2 DEF NextSeq, CommittedLine
  <2> QED
    BY <2>1, <2>2
<1> QED
  BY <1>4, <1>5, <1>6, <1>7

LEMMA BeginApplyKeeps ==
  ASSUME IInv, NEW p \in Proc, NEW r \in Request, BeginApply(p, r) PROVE IInv'
<1>1. /\ LockFree /\ Clean /\ Base.generation = r.gen /\ \A e \in Lines : e.request.key # r.key
      /\ pc' = [pc EXCEPT ![p] = "prepare"] /\ event' = [event EXCEPT ![p] = Prepared(r)]
      /\ UNCHANGED <<journal, synced, tail, snapshot, stable, answered, failing>>
  BY DEF BeginApply, Goto, files
<1>2. journal \in Seq(Event) /\ Len(journal) \in Nat /\ synced \in 0..Len(journal)
  BY LenTyped DEF IInv, TypeOK
<1>3. /\ pc'[p] = "prepare" /\ pc' \in [Proc -> Label]
      /\ \A q \in Proc : q # p => pc[q] = "idle" /\ pc'[q] = "idle" /\ CallFollows(q)'
      /\ OneCall'
  BY <1>1, OtherIdle DEF Label
<1>4. PICK n \in 0..Len(journal) : /\ Len(journal) = 2 * n
                                   /\ Base = After(journal, n) /\ Base \in Snapshot
                                   /\ NextSeq = n + 1
  BY <1>1, CleanIsSettled
<1>5. event \in [Proc -> Event \union {Nil}]
  BY DEF IInv, TypeOK
<1>6. Prepared(r) \in Event
  BY <1>2, <1>4 DEF Prepared, Event
<1>7. TypeOK'
  BY <1>1, <1>2, <1>3, <1>5, <1>6 DEF IInv, TypeOK
<1>8. NewEvent(Prepared(r), n)
  <2>1. r.gen = n
    BY <1>1, <1>4 DEF After
  <2> QED
    BY <1>1, <1>4, <2>1 DEF NewEvent, Prepared
<1>9. CallFollows(p)'
  <2>1. tail' = "none"
    BY <1>1 DEF Clean
  <2>2. event'[p] = Prepared(r)
    BY <1>1, <1>5
  <2>3. NewEvent(event[p], n)'
    BY <1>1, <1>8, <2>2 DEF NewEvent, Lines
  <2> QED
    BY <1>1, <1>3, <1>4, <2>1, <2>3 DEF CallFollows, Busy
<1>10. LinesFollow(journal)' /\ KeysDistinct(journal)' /\ SnapshotFollows' /\ AnswersFollow'
  BY <1>1, <1>2, FilesStay
<1>11. DiskFollows'
  BY <1>1, <1>2, <1>3 DEF IInv, DiskFollows, LockFree
<1> QED
  BY <1>3, <1>7, <1>9, <1>10, <1>11 DEF IInv

\* In a life with power losses, nothing is half written between two calls.
LEMMA NothingHalfWritten ==
  ASSUME IInv, "power" \in failing,
         \A p \in Proc : pc[p] \notin {"syncPrepared", "syncDirectory", "syncCommitted"}
  PROVE  synced = Len(journal) /\ stable = snapshot
  BY DEF IInv, DiskFollows

LEMMA ReplayKeeps ==
  ASSUME IInv, NEW r \in Request, Replay(r) PROVE IInv'
<1>1. /\ LockFree /\ answered' = answered \union {r}
      /\ UNCHANGED <<journal, synced, tail, snapshot, stable, pc, event, failing>>
  BY DEF Replay, files
<1>2. journal \in Seq(Event) /\ Len(journal) \in Nat /\ LinesFollow(journal)
  BY LenTyped DEF IInv
<1>3. TypeOK'
  BY <1>1 DEF IInv, TypeOK
<1>4. LinesFollow(journal)' /\ KeysDistinct(journal)' /\ SnapshotFollows' /\ DiskFollows'
  BY <1>1 DEF IInv, SnapshotFollows, IsAfter, DiskFollows
<1>a. OneCall' /\ \A p \in Proc : CallFollows(p)'
  BY <1>1 DEF LockFree, OneCall, CallFollows, Busy
<1>5. PICK e \in CommittedEvents : e.request = r
  BY DEF Replay
<1>6. PICK i \in 1..Len(journal) : 2 * i <= Len(journal) /\ journal[2 * i].request = r
  <2>1. PICK i \in 1..Len(journal) :
           \/ 2 * i - 1 <= Len(journal) /\ e = PreparedLine(journal, i)
           \/ 2 * i <= Len(journal) /\ e = CommittedLine(journal, i) /\ e = journal[2 * i]
    BY <1>2, LineForms DEF CommittedEvents
  <2>2. 2 * i <= Len(journal) /\ e = journal[2 * i]
    BY <2>1 DEF CommittedEvents, PreparedLine
  <2> QED
    BY <1>5, <2>2
<1>7. "power" \in failing => synced = Len(journal)
  BY <1>1, NothingHalfWritten DEF LockFree
<1>8. AnswersFollow'
  <2> SUFFICES ASSUME NEW a \in answered \union {r}
               PROVE  \E k \in 1..Len(journal) : /\ 2 * k <= Len(journal)
                                                 /\ journal[2 * k].request = a
                                                 /\ "power" \in failing => 2 * k <= synced
    BY <1>1 DEF AnswersFollow
  <2>1. CASE a \in answered
    BY <2>1 DEF IInv, AnswersFollow
  <2>2. CASE a = r
    BY <1>6, <1>7, <2>2
  <2> QED
    BY <2>1, <2>2
<1> QED
  BY <1>3, <1>4, <1>a, <1>8 DEF IInv

LEMMA BeginRecoverKeeps ==
  ASSUME IInv, NEW p \in Proc, BeginRecover(p) PROVE IInv'
<1>1. /\ LockFree /\ pc' = [pc EXCEPT ![p] = "recover"]
      /\ UNCHANGED <<journal, synced, tail, snapshot, stable, event, answered, failing>>
  BY DEF BeginRecover, Goto, files
<1>2. Len(journal) \in Nat /\ synced \in 0..Len(journal)
  BY LenTyped DEF IInv, TypeOK
<1>3. /\ pc'[p] = "recover" /\ pc' \in [Proc -> Label]
      /\ \A q \in Proc : q # p => pc[q] = "idle" /\ pc'[q] = "idle" /\ CallFollows(q)'
      /\ OneCall'
  BY <1>1, OtherIdle DEF Label
<1>4. TypeOK'
  BY <1>1, <1>3 DEF IInv, TypeOK
<1>5. LinesFollow(journal)' /\ KeysDistinct(journal)' /\ SnapshotFollows' /\ AnswersFollow'
  BY <1>1, <1>2, FilesStay
<1>6. CallFollows(p)'
  BY <1>3 DEF CallFollows, Busy
<1>7. DiskFollows'
  BY <1>1, <1>3 DEF IInv, DiskFollows, LockFree
<1> QED
  BY <1>3, <1>4, <1>5, <1>6, <1>7 DEF IInv

LEMMA RepairTailKeeps ==
  ASSUME IInv, NEW p \in Proc, RepairTail(p) PROVE IInv'
<1>1. /\ pc[p] = "recover" /\ tail' = "none" /\ synced' = Len(journal)
      /\ UNCHANGED <<journal, snapshot, stable, pc, event, answered, failing>>
  BY DEF RepairTail
<1>2. Len(journal) \in Nat /\ synced \in 0..Len(journal)
  BY LenTyped DEF IInv, TypeOK
<1>3. TypeOK'
  BY <1>1, <1>2 DEF IInv, TypeOK, TailKinds
<1>4. LinesFollow(journal)' /\ KeysDistinct(journal)' /\ SnapshotFollows' /\ AnswersFollow'
  BY <1>1, <1>2, FilesStay
<1>5. OneCall' /\ \A q \in Proc : q # p => pc[q] = "idle"
  BY <1>1 DEF IInv, OneCall
<1>6. \A q \in Proc : CallFollows(q)'
  BY <1>1, <1>5 DEF CallFollows, Busy
<1>7. DiskFollows'
  BY <1>1, <1>5 DEF IInv, DiskFollows
<1> QED
  BY <1>3, <1>4, <1>5, <1>6, <1>7 DEF IInv

\* The process leaves recovery, or the call, without touching the files.
LEMMA RecoverMoves ==
  ASSUME IInv, NEW p \in Proc, pc[p] = "recover", NEW l \in {"idle", "replace", "commit"},
         pc' = [pc EXCEPT ![p] = l], event' \in [Proc -> Event \union {Nil}],
         UNCHANGED <<journal, synced, tail, snapshot, stable, answered, failing>>,
         pc'[p] = l => CallFollows(p)'
  PROVE  IInv'
<1>1. Len(journal) \in Nat /\ synced \in 0..Len(journal)
  BY LenTyped DEF IInv, TypeOK
<1>2. /\ pc'[p] = l /\ pc' \in [Proc -> Label]
      /\ \A q \in Proc : q # p => pc[q] = "idle" /\ pc'[q] = "idle" /\ CallFollows(q)'
      /\ OneCall'
  BY OtherIdle DEF Label
<1>3. TypeOK'
  BY <1>2 DEF IInv, TypeOK
<1>4. LinesFollow(journal)' /\ KeysDistinct(journal)' /\ SnapshotFollows' /\ AnswersFollow'
  BY <1>1, FilesStay
<1>5. DiskFollows'
  <2> SUFFICES ASSUME "power" \in failing
               PROVE  synced = Len(journal) /\ stable = snapshot
    BY DEF DiskFollows
  <2> QED
    BY <1>2, NothingHalfWritten
<1> QED
  BY <1>2, <1>3, <1>4, <1>5 DEF IInv

\* What a pending event is, and where the snapshot stands.
LEMMA PendingIsLast ==
  ASSUME IInv, NEW e \in PendingEvents
  PROVE  \E n \in 0..Len(journal) :
           /\ Len(journal) = 2 * n + 1
           /\ e = journal[2 * n + 1]
           /\ e \in Event /\ e.seq = n + 1 /\ e.before = After(journal, n)
           /\ IsAfter(snapshot, n) \/ IsAfter(snapshot, n + 1)
           /\ After(journal, n) \in Snapshot /\ After(journal, n).seq = n
<1>1. journal \in Seq(Event) /\ Len(journal) \in Nat /\ LinesFollow(journal)
  BY LenTyped DEF IInv
<1>2. PICK n \in 0..Len(journal) : Len(journal) = 2 * n \/ Len(journal) = 2 * n + 1
  BY <1>1, Operations
<1>3. n \in Nat
  BY <1>1, <1>2
<1>4. Len(journal) = 2 * n + 1
  BY <1>1, <1>2, <1>3, Settled
<1>5. e = journal[2 * n + 1]
  BY <1>1, <1>3, <1>4, Pending
<1>6. e \in Event
  <2>1. 2 * n + 1 \in 1..Len(journal)
    BY <1>3, <1>4
  <2> QED
    BY <1>1, <1>5, <2>1
<1>7. e.seq = n + 1 /\ e.before = After(journal, n)
  BY <1>1, <1>3, <1>4, <1>5, MaterializeAfter
<1>8. IsAfter(snapshot, n) \/ IsAfter(snapshot, n + 1)
  BY <1>4 DEF IInv, SnapshotFollows
<1>9. After(journal, n) \in Snapshot /\ After(journal, n).seq = n
  BY <1>1, <1>3, <1>4, AfterTyped
<1> QED
  BY <1>4, <1>5, <1>6, <1>7, <1>8, <1>9

LEMMA RedoKeeps ==
  ASSUME IInv, NEW p \in Proc, Redo(p) PROVE IInv'
<1>1. PICK e \in PendingEvents : PreparedPending(e) /\ event' = [event EXCEPT ![p] = e]
  BY DEF Redo
<1>2. /\ pc[p] = "recover" /\ pc' = [pc EXCEPT ![p] = "replace"]
      /\ UNCHANGED <<journal, synced, tail, snapshot, stable, answered, failing>>
  BY DEF Redo, Goto, files
<1>3. PICK n \in 0..Len(journal) :
         /\ Len(journal) = 2 * n + 1 /\ e = journal[2 * n + 1]
         /\ e \in Event /\ e.before = After(journal, n)
  BY PendingIsLast
<1>4. event' \in [Proc -> Event \union {Nil}] /\ event'[p] = e
  BY <1>1, <1>3 DEF IInv, TypeOK
<1>5. IsAfter(snapshot, n) /\ tail = "none"
  BY <1>1, <1>3 DEF PreparedPending, BaseMatches, IsAfter
<1>6. pc'[p] = "replace" => CallFollows(p)'
  BY <1>2, <1>3, <1>4, <1>5 DEF CallFollows, Busy, IsAfter
<1> QED
  BY <1>2, <1>4, <1>6, RecoverMoves

LEMMA FinalizeKeeps ==
  ASSUME IInv, NEW p \in Proc, Finalize(p) PROVE IInv'
<1>1. PICK e \in PendingEvents : WitnessPending(e) /\ event' = [event EXCEPT ![p] = e]
  BY DEF Finalize
<1>2. /\ pc[p] = "recover" /\ pc' = [pc EXCEPT ![p] = "commit"]
      /\ UNCHANGED <<journal, synced, tail, snapshot, stable, answered, failing>>
  BY DEF Finalize, Goto, files
<1>3. PICK n \in 0..Len(journal) :
         /\ Len(journal) = 2 * n + 1 /\ e = journal[2 * n + 1]
         /\ e \in Event /\ e.seq = n + 1
         /\ IsAfter(snapshot, n) \/ IsAfter(snapshot, n + 1)
         /\ After(journal, n).seq = n
  BY PendingIsLast
<1>4. event' \in [Proc -> Event \union {Nil}] /\ event'[p] = e
  BY <1>1, <1>3 DEF IInv, TypeOK
<1>5. IsAfter(snapshot, n + 1) /\ tail = "none"
  <2>1. snapshot.seq = n + 1 /\ snapshot # Nil /\ tail = "none"
    BY <1>1, <1>3 DEF WitnessPending, Witness
  <2>2. ~ IsAfter(snapshot, n)
    BY <1>3, <2>1 DEF IsAfter
  <2> QED
    BY <1>3, <2>1, <2>2
<1>6. pc'[p] = "commit" => CallFollows(p)'
  BY <1>2, <1>3, <1>4, <1>5 DEF CallFollows, Busy, IsAfter
<1> QED
  BY <1>2, <1>4, <1>6, RecoverMoves

LEMMA RecoverReturnsKeeps ==
  ASSUME IInv, NEW p \in Proc, RecoverReturns(p) PROVE IInv'
<1>1. /\ pc[p] = "recover" /\ pc' = [pc EXCEPT ![p] = "idle"]
      /\ UNCHANGED <<journal, synced, tail, snapshot, stable, event, answered, failing>>
  BY DEF RecoverReturns, Goto, files
<1>2. event' \in [Proc -> Event \union {Nil}]
  BY <1>1 DEF IInv, TypeOK
<1>3. pc'[p] = "idle" => CallFollows(p)'
  BY DEF CallFollows, Busy
<1> QED
  BY <1>1, <1>2, <1>3, RecoverMoves

LEMMA StopKeeps ==
  ASSUME IInv, FailuresApart, NEW p \in Proc, Stop(p) PROVE IInv'
<1>1. /\ pc[p] # "idle" /\ pc' = [pc EXCEPT ![p] = "idle"]
      /\ event' = [event EXCEPT ![p] = Nil] /\ tail' \in TailKinds
      /\ UNCHANGED <<journal, synced, snapshot, stable, answered, failing>>
  BY DEF Stop, Goto, IInv, TypeOK
<1>2. Len(journal) \in Nat /\ synced \in 0..Len(journal)
  BY LenTyped DEF IInv, TypeOK
<1>3. /\ pc'[p] = "idle" /\ pc' \in [Proc -> Label]
      /\ \A q \in Proc : q # p => pc[q] = "idle" /\ pc'[q] = "idle" /\ CallFollows(q)'
      /\ OneCall'
  BY <1>1, OtherIdle DEF Label
<1>4. TypeOK'
  BY <1>1, <1>3 DEF IInv, TypeOK
<1>5. LinesFollow(journal)' /\ KeysDistinct(journal)' /\ SnapshotFollows' /\ AnswersFollow'
  BY <1>1, <1>2, FilesStay
<1>6. CallFollows(p)'
  BY <1>3 DEF CallFollows, Busy
<1>7. DiskFollows'
  <2>1. "power" \notin failing
    BY DEF Stop, FailuresApart, IInv, TypeOK
  <2> QED
    BY <1>1, <2>1 DEF DiskFollows
<1> QED
  BY <1>3, <1>4, <1>5, <1>6, <1>7 DEF IInv

LEMMA PowerLossKeeps ==
  ASSUME IInv, PowerLoss PROVE IInv'
<1> DEFINE lines(c) == SubSeq(journal, 1, c)
<1>1. PICK c \in synced..Len(journal) :
         /\ journal' = SubSeq(journal, 1, c) /\ synced' = c
         /\ tail' \in TailKinds
  <2>1. PICK c \in synced..Len(journal) :
           /\ journal' = SubSeq(journal, 1, c) /\ synced' = c
           /\ tail' \in IF \/ c < Len(journal)
                           \/ tail # "none"
                           \/ \E p \in Proc : pc[p] \in {"prepare", "commit"}
                          THEN TailKinds ELSE {"none"}
    BY DEF PowerLoss
  <2> QED
    BY <2>1 DEF TailKinds
<1>2. PICK s \in {snapshot, stable} : snapshot' = s /\ stable' = s
  BY DEF PowerLoss
<1>3. /\ "power" \in failing
      /\ pc' = [p \in Proc |-> "idle"] /\ event' = [p \in Proc |-> Nil]
      /\ UNCHANGED <<answered, failing>>
  BY DEF PowerLoss
<1>4. /\ journal \in Seq(Event) /\ Len(journal) \in Nat /\ LinesFollow(journal)
      /\ KeysDistinct(journal) /\ synced \in 0..Len(journal)
  BY LenTyped DEF IInv, TypeOK
<1>5. c \in 0..Len(journal)
  BY <1>4
<1>6. /\ journal' \in Seq(Event) /\ Len(journal') = c
      /\ \A m \in 1..c : journal'[m] = journal[m]
      /\ LinesFollow(journal') /\ KeysDistinct(journal')
  BY <1>1, <1>4, <1>5, CutLines
<1>7. TypeOK'
  BY <1>1, <1>2, <1>3, <1>5, <1>6 DEF IInv, TypeOK, Label
<1>8. OneCall' /\ \A p \in Proc : CallFollows(p)'
  BY <1>3 DEF OneCall, CallFollows, Busy
<1>9. DiskFollows'
  BY <1>1, <1>2, <1>6 DEF DiskFollows
<1>10. ASSUME NEW n \in Nat, 2 * n - 1 <= c, IsAfter(s, n)
       PROVE  IsAfter(snapshot, n)'
  <2>1. \A m \in 1..2 * n : m # 2 * n => journal'[m] = journal[m]
    BY <1>5, <1>6, <1>10
  <2>2. After(journal', n) = After(journal, n)
    BY <2>1, AppliedKept
  <2> QED
    BY <1>2, <1>10, <2>2 DEF IsAfter
<1>11. SnapshotFollows'
  <2> SUFFICES ASSUME NEW m \in 0..c
               PROVE  /\ c = 2 * m => IsAfter(snapshot, m)'
                      /\ c = 2 * m + 1 => IsAfter(snapshot, m)' \/ IsAfter(snapshot, m + 1)'
    BY <1>6 DEF SnapshotFollows
  <2>0. m \in Nat /\ m \in 0..Len(journal)
    BY <1>5
  <2>1. CASE c = Len(journal)
    <3>1. /\ c = 2 * m => IsAfter(snapshot, m)
          /\ c = 2 * m + 1 => IsAfter(snapshot, m) \/ IsAfter(snapshot, m + 1)
      BY <2>0, <2>1 DEF IInv, SnapshotFollows
    <3>2. CASE s = snapshot
      <4>1. 2 * m - 1 <= c /\ c = 2 * m => IsAfter(s, m)
        BY <3>1, <3>2
      <4> QED
        BY <1>5, <1>10, <2>0, <3>1, <3>2
    <3>3. CASE s # snapshot
      <4>1. PICK n \in 0..Len(journal) : Len(journal) = 2 * n + 1 /\ IsAfter(stable, n)
        BY <1>2, <1>3, <3>3 DEF IInv, DiskFollows
      <4>2. c # 2 * m /\ (c = 2 * m + 1 => m = n)
        BY <1>4, <2>1, <4>1
      <4>3. s = stable
        BY <3>3
      <4>4. c = 2 * m + 1 => 2 * m - 1 <= c /\ IsAfter(s, m)
        BY <2>0, <4>1, <4>2, <4>3
      <4> QED
        BY <1>10, <2>0, <4>2, <4>4
    <3> QED
      BY <3>2, <3>3
  <2>2. CASE c # Len(journal)
    <3>1. PICK p \in Proc : pc[p] \in {"syncPrepared", "syncCommitted"}
      BY <1>1, <1>3, <1>4, <2>2 DEF IInv, DiskFollows
    <3>2. c + 1 = Len(journal)
      BY <1>1, <1>3, <1>4, <1>5, <2>2 DEF IInv, DiskFollows
    <3>3. s = snapshot
      <4>1. stable = snapshot
        BY <1>3, <3>1 DEF IInv, DiskFollows, OneCall
      <4> QED
        BY <4>1
    <3>4. CASE pc[p] = "syncPrepared"
      <4>1. PICK n \in 0..Len(journal) : Len(journal) = 2 * n + 1 /\ IsAfter(snapshot, n)
        BY <3>4 DEF IInv, CallFollows
      <4>2. c # 2 * m + 1 /\ (c = 2 * m => m = n)
        BY <1>4, <3>2, <4>1
      <4>3. c = 2 * m => 2 * m - 1 <= c /\ IsAfter(s, m)
        BY <2>0, <3>3, <4>1, <4>2
      <4> QED
        BY <1>10, <2>0, <4>2, <4>3
    <3>5. CASE pc[p] = "syncCommitted"
      <4>1. PICK n \in 0..Len(journal) : Len(journal) = 2 * n + 2
        BY <3>5 DEF IInv, CallFollows
      <4>2. c # 2 * m /\ (c = 2 * m + 1 => m = n)
        BY <1>4, <3>2, <4>1
      <4>3. n + 1 \in 0..Len(journal) /\ Len(journal) = 2 * (n + 1)
        BY <1>4, <4>1
      <4>4. IsAfter(s, n + 1)
        BY <3>3, <4>3 DEF IInv, SnapshotFollows
      <4>5. c = 2 * m + 1 => m + 1 \in Nat /\ 2 * (m + 1) - 1 <= c /\ IsAfter(s, m + 1)
        BY <2>0, <4>2, <4>4
      <4> QED
        BY <1>10, <4>2, <4>5
    <3> QED
      BY <3>1, <3>4, <3>5
  <2> QED
    BY <2>1, <2>2
<1>12. AnswersFollow'
  <2> SUFFICES ASSUME NEW r \in answered
               PROVE  \E i \in 1..c : 2 * i <= c /\ journal'[2 * i].request = r
    BY <1>1, <1>3, <1>6 DEF AnswersFollow
  <2>1. PICK i \in 1..Len(journal) : journal[2 * i].request = r /\ 2 * i <= synced
    BY <1>3 DEF IInv, AnswersFollow
  <2>2. i \in 1..c /\ 2 * i \in 1..c
    BY <1>4, <2>1
  <2> QED
    BY <1>6, <2>1, <2>2
<1> QED
  BY <1>6, <1>7, <1>8, <1>9, <1>11, <1>12 DEF IInv

LEMMA Inductive == FailuresApart /\ IInv /\ [Next]_vars => IInv'
<1> SUFFICES ASSUME FailuresApart, IInv, [Next]_vars PROVE IInv'
  OBVIOUS
<1>1. ASSUME NEW r \in Request, Replay(r) PROVE IInv'
  BY <1>1, ReplayKeeps
<1>2. ASSUME NEW p \in Proc, NEW r \in Request, BeginApply(p, r) PROVE IInv'
  BY <1>2, BeginApplyKeeps
<1>3. ASSUME NEW p \in Proc, Apply(p) PROVE IInv'
  BY <1>3, AppendPreparedKeeps, SyncPreparedKeeps, ReplaceSnapshotKeeps, SyncDirectoryKeeps,
     AppendCommittedKeeps, SyncCommittedKeeps DEF Apply
<1>4. ASSUME NEW p \in Proc, BeginRecover(p) PROVE IInv'
  BY <1>4, BeginRecoverKeeps
<1>5. ASSUME NEW p \in Proc, Recover(p) PROVE IInv'
  BY <1>5, RepairTailKeeps, RedoKeeps, FinalizeKeeps, RecoverReturnsKeeps DEF Recover
<1>6. ASSUME Failure PROVE IInv'
  BY <1>6, PowerLossKeeps, StopKeeps DEF Failure
<1>7. ASSUME UNCHANGED vars PROVE IInv'
  BY <1>7 DEF vars, files, IInv, TypeOK, SnapshotFollows, IsAfter, OneCall, CallFollows, Busy,
     NewEvent, Lines, DiskFollows, AnswersFollow
<1> QED
  BY <1>1, <1>2, <1>3, <1>4, <1>5, <1>6, <1>7 DEF Next, Step

\* The invariant holds in every state: what recovery finds is always an
\* interrupted call of apply_temp_wal_mutation and nothing else.
THEOREM Invariance ==
  ASSUME FailuresApart
  PROVE  Spec => []IInv
<1>1. IInv /\ [Next]_vars => IInv'
  BY Inductive
<1> QED
  BY <1>1, Initially, PTL DEF Spec

\* Every file, line, label and event of the log is of the kind the code writes.
THEOREM Typing ==
  ASSUME FailuresApart
  PROVE  Spec => []TypeOK
<1>1. IInv => TypeOK
  BY DEF IInv
<1> QED
  BY <1>1, Invariance, PTL

-----------------------------------------------------------------------------
\* The journal.

LEMMA PreparedEvent ==
  ASSUME NEW j, NEW i
  PROVE  [CommittedLine(j, i) EXCEPT !.state = "PREPARED", !.after = Nil] = PreparedLine(j, i)
<1> DEFINE b == j[2 * i - 1].request
           c == After(j, i - 1)
           d == After(j, i)
           line(s, after) == [state |-> s, seq |-> i, request |-> b, before |-> c, after |-> after]
<1>1. CommittedLine(j, i) = line("COMMITTED", d) /\ PreparedLine(j, i) = line("PREPARED", Nil)
  BY DEF CommittedLine, PreparedLine
<1> HIDE DEF b, c, d
<1>2. [line("COMMITTED", d) EXCEPT !.state = "PREPARED"] = line("PREPARED", d)
  OBVIOUS
<1>3. [line("PREPARED", d) EXCEPT !.after = Nil] = line("PREPARED", Nil)
  OBVIOUS
<1>4. ASSUME NEW e, e = line("COMMITTED", d)
      PROVE  [e EXCEPT !.state = "PREPARED", !.after = Nil]
               = [[e EXCEPT !.state = "PREPARED"] EXCEPT !.after = Nil]
  BY <1>4
<1> QED
  BY <1>1, <1>2, <1>3, <1>4

LEMMA WellFormed == IInv => JournalWellFormed
<1> SUFFICES ASSUME IInv, NEW n \in 1..Len(journal)
             PROVE  /\ journal[n].seq = (n + 1) \div 2
                    /\ journal[n].state = IF n % 2 = 1 THEN "PREPARED" ELSE "COMMITTED"
                    /\ n % 2 = 0 =>
                         [journal[n] EXCEPT !.state = "PREPARED", !.after = Nil] = journal[n - 1]
  BY LenTyped, LenProperties DEF JournalWellFormed
<1>1. Len(journal) \in Nat /\ LinesFollow(journal) /\ n \in Nat \ {0}
  BY LenTyped DEF IInv
<1>2. PICK i \in 1..n : n = 2 * i - 1 \/ n = 2 * i
  BY <1>1, LineOfOperation
<1>3. i \in 1..Len(journal)
  BY <1>1, <1>2
<1>4. CASE n = 2 * i - 1
  <2>1. (n + 1) \div 2 = i /\ n % 2 = 1
    BY <1>4
  <2>2. journal[n] = PreparedLine(journal, i)
    BY <1>1, <1>3, <1>4 DEF LinesFollow
  <2> QED
    BY <2>1, <2>2 DEF PreparedLine
<1>5. CASE n = 2 * i
  <2>1. (n + 1) \div 2 = i /\ n % 2 = 0 /\ n - 1 = 2 * i - 1
    BY <1>5
  <2>2. journal[n] = CommittedLine(journal, i) /\ journal[n - 1] = PreparedLine(journal, i)
    BY <1>1, <1>3, <1>5, <2>1 DEF LinesFollow
  <2>3. journal[n].seq = i /\ journal[n].state = "COMMITTED"
    BY <2>2 DEF CommittedLine
  <2>4. [journal[n] EXCEPT !.state = "PREPARED", !.after = Nil] = journal[n - 1]
    BY <2>2, PreparedEvent
  <2> QED
    BY <2>1, <2>3, <2>4
<1> QED
  BY <1>2, <1>4, <1>5

\* _validate_journal_events never refuses a journal that the program wrote,
\* whatever calls and crashes it went through: the events are numbered from 1,
\* each is prepared once and then committed with the same identity.
THEOREM WellFormedJournal ==
  ASSUME FailuresApart
  PROVE  Spec => []JournalWellFormed
  BY WellFormed, Invariance, PTL

-----------------------------------------------------------------------------
\* The journal and the snapshot.

LEMMA NotDivergent == IInv => NeverDivergent
<1> SUFFICES ASSUME IInv, Divergent PROVE FALSE
  BY DEF NeverDivergent
<1>1. journal \in Seq(Event) /\ Len(journal) \in Nat /\ LinesFollow(journal) /\ snapshot # Nil
  BY LenTyped DEF IInv, Divergent
<1>2. CASE PendingEvents = {}
  <2>1. PICK e \in CommittedEvents : /\ \A c \in CommittedEvents : c.seq <= e.seq
                                     /\ ~ Witness(e)
    BY <1>2 DEF Divergent
  <2>2. PICK n \in 0..Len(journal) : Len(journal) = 2 * n
    <3>1. PICK n \in 0..Len(journal) : Len(journal) = 2 * n \/ Len(journal) = 2 * n + 1
      BY <1>1, Operations
    <3>2. n \in Nat
      BY <1>1, <3>1
    <3> QED
      BY <1>1, <1>2, <3>1, <3>2, Pending
  <2>3. n \in Nat
    BY <1>1, <2>2
  <2>4. CommittedEvents = {CommittedLine(journal, i) : i \in 1..n}
    BY <1>1, <2>2, <2>3, CommittedOnes
  <2>5. PICK i \in 1..n : e = CommittedLine(journal, i)
    BY <2>4
  <2>6. i = n
    <3>1. CommittedLine(journal, n) \in CommittedEvents
      BY <2>3, <2>4, <2>5
    <3>2. n <= i
      BY <2>1, <2>5, <3>1 DEF CommittedLine
    <3> QED
      BY <3>2
  <2>7. n # 0 /\ n \in 1..Len(journal) /\ 2 * n - 1 <= Len(journal)
    BY <1>1, <2>2, <2>3, <2>5
  <2>8. snapshot = After(journal, n)
    BY <1>1, <2>2, <2>7 DEF IInv, SnapshotFollows, IsAfter
  <2>9. journal[2 * n - 1].request.gen = n - 1
    BY <1>1, <2>7 DEF LinesFollow
  <2>10. Witness(CommittedLine(journal, n))
    <3>1. /\ CommittedLine(journal, n).seq = n /\ CommittedLine(journal, n).after = After(journal, n)
          /\ CommittedLine(journal, n).request = journal[2 * n - 1].request
      BY DEF CommittedLine
    <3>2. /\ After(journal, n).seq = n /\ After(journal, n).generation = n
          /\ After(journal, n).request = journal[2 * n - 1].request
      BY <2>7 DEF After
    <3> QED
      BY <2>3, <2>8, <2>9, <3>1, <3>2 DEF Witness
  <2> QED
    BY <2>1, <2>5, <2>6, <2>10
<1>3. CASE PendingEvents # {}
  <2>1. PICK e \in PendingEvents : ~ BaseMatches(e) /\ ~ Witness(e)
    BY <1>3 DEF Divergent
  <2>2. PICK n \in 0..Len(journal) :
           /\ Len(journal) = 2 * n + 1 /\ e = journal[2 * n + 1]
           /\ e.seq = n + 1 /\ e.before = After(journal, n)
           /\ IsAfter(snapshot, n) \/ IsAfter(snapshot, n + 1)
    BY PendingIsLast
  <2>3. /\ n \in Nat /\ n + 1 \in 1..Len(journal) /\ 2 * (n + 1) - 1 = 2 * n + 1 /\ n + 1 # 0
        /\ (n + 1) - 1 = n
    BY <1>1, <2>2
  <2>4. e = PreparedLine(journal, n + 1) /\ e.request.gen = n
    BY <1>1, <2>2, <2>3 DEF LinesFollow
  <2>5. CASE snapshot = After(journal, n)
    <3>1. snapshot.generation = n
      BY <2>5 DEF After
    <3> QED
      BY <2>1, <2>2, <2>4, <2>5, <3>1 DEF BaseMatches
  <2>6. CASE snapshot = After(journal, n + 1)
    <3>1. /\ snapshot.seq = n + 1 /\ snapshot.generation = n + 1 /\ snapshot.request = e.request
      BY <2>2, <2>3, <2>6 DEF After
    <3>2. e.state = "PREPARED"
      BY <2>4 DEF PreparedLine
    <3> QED
      BY <2>1, <2>2, <2>4, <3>1, <3>2 DEF Witness
  <2> QED
    BY <1>1, <2>2, <2>5, <2>6 DEF IsAfter
<1> QED
  BY <1>2, <1>3

\* Crashes never make the journal and the snapshot contradict each other, so
\* recover_temp_wal is never refused with SNAPSHOT_JOURNAL_DIVERGENCE.
THEOREM NeverDiverges ==
  ASSUME FailuresApart
  PROVE  Spec => []NeverDivergent
  BY NotDivergent, Invariance, PTL

\* The requests in a file that holds the first n operations.
LEMMA Holds ==
  ASSUME journal \in Seq(Event), LinesFollow(journal), NEW n \in Nat, 2 * n - 1 <= Len(journal),
         NEW s, IsAfter(s, n)
  PROVE  /\ AppliedRequests(s) = Applied(journal, n)
         /\ DOMAIN AppliedRequests(s) = 1..n
         /\ Len(AppliedRequests(s)) = n
         /\ \A i \in 1..n : AppliedRequests(s)[i] = journal[2 * i - 1].request
<1>1. Len(journal) \in Nat
  BY LenProperties
<1>2. /\ After(journal, n) # Nil /\ After(journal, n).applied = Applied(journal, n)
  BY <1>1, AfterTyped
<1>3. \A i \in 1..n : journal[2 * i - 1].request \in Request
  BY <1>1, RequestsTyped
<1>4. AppliedRequests(s) = Applied(journal, n)
  <2>1. CASE s = After(journal, n)
    BY <1>2, <2>1 DEF AppliedRequests
  <2>2. CASE s = Nil /\ n = 0
    BY <2>2 DEF AppliedRequests, Applied
  <2> QED
    BY <2>1, <2>2 DEF IsAfter
<1> QED
  BY <1>3, <1>4, AppliedTyped

\* How far behind the journal a file can be: the operation that is at work.
LEMMA Reaches ==
  ASSUME IInv, NEW s, s = snapshot \/ ("power" \in failing /\ s = stable)
  PROVE  \E n \in Nat : /\ 2 * n - 1 <= Len(journal) /\ Len(journal) <= 2 * n + 1
                        /\ IsAfter(s, n)
<1>1. journal \in Seq(Event) /\ Len(journal) \in Nat
  BY LenTyped
<1>2. PICK n \in 0..Len(journal) : Len(journal) = 2 * n \/ Len(journal) = 2 * n + 1
  BY <1>1, Operations
<1>3. n \in Nat /\ n + 1 \in Nat
  BY <1>1, <1>2
<1>4. CASE s = snapshot
  <2>1. CASE IsAfter(snapshot, n)
    BY <1>2, <1>3, <1>4, <2>1
  <2>2. CASE Len(journal) = 2 * n + 1 /\ IsAfter(snapshot, n + 1)
    <3>1. 2 * (n + 1) - 1 <= Len(journal) /\ Len(journal) <= 2 * (n + 1) + 1
      BY <1>3, <2>2
    <3> QED
      BY <1>3, <1>4, <2>2, <3>1
  <2> QED
    BY <1>2, <2>1, <2>2 DEF IInv, SnapshotFollows
<1>5. CASE s # snapshot
  <2>1. PICK m \in 0..Len(journal) : Len(journal) = 2 * m + 1 /\ IsAfter(stable, m)
    BY <1>5 DEF IInv, DiskFollows
  <2>2. m \in Nat /\ 2 * m - 1 <= Len(journal) /\ Len(journal) <= 2 * m + 1
    BY <1>1, <2>1
  <2> QED
    BY <1>5, <2>1, <2>2
<1> QED
  BY <1>4, <1>5

\* Whatever has a COMMITTED line is in the snapshot, and on disk.
LEMMA CommittedIsHeld ==
  ASSUME IInv, NEW i \in 1..Len(journal), 2 * i <= Len(journal),
         NEW s, s = snapshot \/ ("power" \in failing /\ s = stable)
  PROVE  /\ i \in DOMAIN AppliedRequests(s)
         /\ AppliedRequests(s)[i] = journal[2 * i].request
<1>1. journal \in Seq(Event) /\ Len(journal) \in Nat /\ LinesFollow(journal)
  BY LenTyped DEF IInv
<1>2. PICK n \in Nat : /\ 2 * n - 1 <= Len(journal) /\ Len(journal) <= 2 * n + 1
                       /\ IsAfter(s, n)
  BY Reaches
<1>3. i \in 1..n
  BY <1>1, <1>2
<1>4. journal[2 * i].request = journal[2 * i - 1].request
  <2>1. journal[2 * i] = CommittedLine(journal, i)
    BY <1>1 DEF LinesFollow
  <2> QED
    BY <2>1 DEF CommittedLine
<1> QED
  BY <1>1, <1>2, <1>3, <1>4, Holds

LEMMA Authority == IInv => JournalIsAuthority
<1> SUFFICES ASSUME IInv PROVE JournalIsAuthority
  OBVIOUS
<1>1. journal \in Seq(Event) /\ Len(journal) \in Nat /\ LinesFollow(journal)
  BY LenTyped DEF IInv
<1>2. ASSUME Clean
      PROVE  InSeq(AppliedRequests(snapshot)) = {e.request : e \in CommittedEvents}
  <2>1. PICK n \in 0..Len(journal) : Len(journal) = 2 * n /\ IsAfter(snapshot, n)
    BY <1>2, CleanIsSettled
  <2>2. n \in Nat /\ 2 * n - 1 <= Len(journal)
    BY <1>1, <2>1
  <2>3. /\ DOMAIN AppliedRequests(snapshot) = 1..n
        /\ \A i \in 1..n : AppliedRequests(snapshot)[i] = journal[2 * i - 1].request
    BY <1>1, <2>1, <2>2, Holds
  <2>4. CommittedEvents = {CommittedLine(journal, i) : i \in 1..n}
    BY <1>1, <2>1, <2>2, CommittedOnes
  <2>5. \A i \in 1..n : CommittedLine(journal, i).request = journal[2 * i - 1].request
    BY DEF CommittedLine
  <2>6. InSeq(AppliedRequests(snapshot)) = {journal[2 * i - 1].request : i \in 1..n}
    BY <2>3 DEF InSeq
  <2>7. {e.request : e \in CommittedEvents} = {journal[2 * i - 1].request : i \in 1..n}
    BY <2>4, <2>5
  <2> QED
    BY <2>6, <2>7
<1>3. InSeq(AppliedRequests(snapshot)) \subseteq {e.request : e \in Lines}
  <2>1. PICK n \in Nat : 2 * n - 1 <= Len(journal) /\ IsAfter(snapshot, n)
    BY Reaches
  <2>2. /\ DOMAIN AppliedRequests(snapshot) = 1..n
        /\ \A i \in 1..n : AppliedRequests(snapshot)[i] = journal[2 * i - 1].request
    BY <1>1, <2>1, Holds
  <2>3. \A i \in 1..n : 2 * i - 1 \in DOMAIN journal
    BY <1>1, <2>1, LenProperties
  <2> QED
    BY <2>2, <2>3 DEF InSeq, Lines
<1> QED
  BY <1>2, <1>3 DEF JournalIsAuthority

\* The journal is the authority and the snapshot a witness: a clean snapshot
\* holds exactly the committed operations, and no snapshot, whatever crash it
\* comes from, holds one that has no journal line.
THEOREM JournalHasAuthority ==
  ASSUME FailuresApart
  PROVE  Spec => []JournalIsAuthority
  BY Authority, Invariance, PTL

LEMMA Durable == IInv => AnsweredIsDurable
<1> SUFFICES ASSUME IInv, NEW r \in answered
             PROVE  /\ r \in InSeq(AppliedRequests(snapshot))
                    /\ "power" \in failing => r \in InSeq(AppliedRequests(stable))
  BY DEF AnsweredIsDurable
<1>1. PICK i \in 1..Len(journal) : 2 * i <= Len(journal) /\ journal[2 * i].request = r
  BY DEF IInv, AnswersFollow
<1>2. ASSUME NEW s, s = snapshot \/ ("power" \in failing /\ s = stable)
      PROVE  r \in InSeq(AppliedRequests(s))
  BY <1>1, <1>2, CommittedIsHeld DEF InSeq
<1> QED
  BY <1>2

\* What a caller of apply_temp_wal_mutation was told is committed survives every
\* later stop and every later power loss.
THEOREM AnswersLast ==
  ASSUME FailuresApart
  PROVE  Spec => []AnsweredIsDurable
  BY Durable, Invariance, PTL

LEMMA Once == IInv => AppliedOnce
<1> SUFFICES ASSUME IInv PROVE AppliedOnce
  OBVIOUS
<1>1. journal \in Seq(Event) /\ Len(journal) \in Nat /\ LinesFollow(journal) /\ KeysDistinct(journal)
  BY LenTyped DEF IInv
<1>2. PICK n \in Nat : 2 * n - 1 <= Len(journal) /\ IsAfter(snapshot, n)
  BY Reaches
<1>3. /\ DOMAIN AppliedRequests(snapshot) = 1..n
      /\ \A i \in 1..n : AppliedRequests(snapshot)[i] = journal[2 * i - 1].request
  BY <1>1, <1>2, Holds
<1>4. \A i \in 1..n : i \in 1..Len(journal) /\ 2 * i - 1 <= Len(journal)
  BY <1>1, <1>2
<1> QED
  BY <1>3, <1>4, <1>1 DEF KeysDistinct, AppliedOnce

\* No retry, replay or recovery applies an operation twice.
THEOREM NeverAppliedTwice ==
  ASSUME FailuresApart
  PROVE  Spec => []AppliedOnce
  BY Once, Invariance, PTL

-----------------------------------------------------------------------------
\* The log implements MutationLog: an operation is committed at the moment its
\* snapshot can no longer be lost.

LEMMA SameRequest == Log!Request = Request
  BY DEF Log!Request, Request

LEMMA CommitStep ==
  ASSUME IInv, NEW n \in Nat, 2 * n + 1 <= Len(journal),
         AppliedRequests(Lasting) = Applied(journal, n),
         AppliedRequests(Lasting)' = Applied(journal, n + 1),
         UNCHANGED answered
  PROVE  Log!Next
<1> DEFINE r == journal[2 * n + 1].request
<1>1. /\ journal \in Seq(Event) /\ Len(journal) \in Nat /\ LinesFollow(journal)
      /\ KeysDistinct(journal)
  BY LenTyped DEF IInv
<1>2. n + 1 \in 1..Len(journal) /\ 2 * (n + 1) - 1 = 2 * n + 1 /\ (n + 1) - 1 = n
  BY <1>1
<1>3. r \in Request /\ r.gen = n
  BY <1>1, <1>2 DEF LinesFollow
<1>4. \A i \in 1..n + 1 : journal[2 * i - 1].request \in Request
  BY <1>1, <1>2, RequestsTyped
<1>5. /\ DOMAIN Applied(journal, n) = 1..n /\ Len(Applied(journal, n)) = n
      /\ \A i \in 1..n : Applied(journal, n)[i] = journal[2 * i - 1].request
  BY <1>4, AppliedTyped
<1>6. Applied(journal, n + 1) = Append(Applied(journal, n), r)
  BY <1>4, AppendApplied
<1>7. ASSUME NEW i \in 1..n PROVE Applied(journal, n)[i].key # r.key
  <2>1. i \in 1..Len(journal) /\ 2 * i - 1 <= Len(journal) /\ i # n + 1
    BY <1>1
  <2>2. journal[2 * i - 1].request.key # journal[2 * (n + 1) - 1].request.key
    BY <1>1, <1>2, <2>1 DEF KeysDistinct
  <2> QED
    BY <1>2, <1>5, <2>2
<1> HIDE DEF r
<1>8. Log!Commit(r)
  BY <1>3, <1>5, <1>6, <1>7 DEF Log!Commit
<1> QED
  BY <1>3, <1>8, SameRequest DEF Log!Next

LEMMA AnswerStep ==
  ASSUME IInv, NEW i \in 1..Len(journal), 2 * i <= Len(journal),
         journal[2 * i].request \in Request,
         answered' = answered \union {journal[2 * i].request},
         AppliedRequests(Lasting)' = AppliedRequests(Lasting)
  PROVE  Log!Next
<1>1. /\ i \in DOMAIN AppliedRequests(Lasting)
      /\ AppliedRequests(Lasting)[i] = journal[2 * i].request
  BY CommittedIsHeld DEF Lasting
<1>2. Log!Answer(journal[2 * i].request)
  BY <1>1 DEF Log!Answer
<1> QED
  BY <1>2, SameRequest DEF Log!Next

LEMMA ReplayStep ==
  ASSUME IInv, NEW r \in Request, Replay(r) PROVE Log!Next
<1>1. /\ answered' = answered \union {r}
      /\ AppliedRequests(Lasting)' = AppliedRequests(Lasting)
  BY DEF Replay, files, AppliedRequests, Lasting
<1>2. PICK e \in CommittedEvents : e.request = r
  BY DEF Replay
<1>3. journal \in Seq(Event) /\ LinesFollow(journal)
  BY LenTyped DEF IInv
<1>4. PICK i \in 1..Len(journal) :
         \/ 2 * i - 1 <= Len(journal) /\ e = PreparedLine(journal, i)
         \/ 2 * i <= Len(journal) /\ e = CommittedLine(journal, i) /\ e = journal[2 * i]
  BY <1>3, LineForms DEF CommittedEvents
<1>5. 2 * i <= Len(journal) /\ e = journal[2 * i]
  BY <1>4 DEF CommittedEvents, PreparedLine
<1> QED
  BY <1>1, <1>2, <1>5, AnswerStep

LEMMA SyncCommittedStep ==
  ASSUME IInv, NEW p \in Proc, SyncCommitted(p) PROVE Log!Next
<1>1. /\ pc[p] = "syncCommitted" /\ answered' = answered \union {event[p].request}
      /\ AppliedRequests(Lasting)' = AppliedRequests(Lasting)
  BY DEF SyncCommitted, Goto, AppliedRequests, Lasting
<1>2. PICK n \in 0..Len(journal) : Len(journal) = 2 * n + 2 /\ event[p] = journal[2 * n + 1]
  BY <1>1 DEF IInv, CallFollows
<1>3. LinesFollow(journal) /\ Len(journal) \in Nat
  BY LenTyped DEF IInv
<1>4. n + 1 \in 1..Len(journal) /\ 2 * (n + 1) <= Len(journal) /\ 2 * (n + 1) - 1 = 2 * n + 1
  BY <1>2, <1>3
<1>5. event[p].request \in Request /\ journal[2 * (n + 1)].request = event[p].request
  <2>1. /\ journal[2 * (n + 1) - 1].request \in Request
        /\ journal[2 * (n + 1)] = CommittedLine(journal, n + 1)
    BY <1>3, <1>4 DEF LinesFollow
  <2> QED
    BY <1>2, <1>4, <2>1 DEF CommittedLine
<1> QED
  BY <1>1, <1>4, <1>5, AnswerStep

\* The three steps that put an operation beyond loss.
LEMMA ReplaceSnapshotStep ==
  ASSUME IInv, NEW p \in Proc, ReplaceSnapshot(p)
  PROVE  Log!Next \/ UNCHANGED Log!vars
<1>1. CASE "power" \in failing
  BY <1>1 DEF ReplaceSnapshot, Goto, AppliedRequests, Lasting, Log!vars
<1>2. CASE "power" \notin failing
  <2>1. pc[p] = "replace" /\ snapshot' = Materialize(event[p]) /\ UNCHANGED <<answered, failing>>
    BY DEF ReplaceSnapshot, Goto
  <2>2. journal \in Seq(Event) /\ Len(journal) \in Nat /\ LinesFollow(journal)
    BY LenTyped DEF IInv
  <2>3. PICK n \in 0..Len(journal) :
           Len(journal) = 2 * n + 1 /\ event[p] = journal[2 * n + 1] /\ IsAfter(snapshot, n)
    BY <2>1 DEF IInv, CallFollows
  <2>4. n \in Nat /\ n + 1 \in Nat /\ 2 * n - 1 <= Len(journal) /\ 2 * (n + 1) - 1 <= Len(journal)
    BY <2>2, <2>3
  <2>a. Materialize(journal[2 * n + 1]) = After(journal, n + 1)
    BY <2>2, <2>3, <2>4, MaterializeAfter
  <2>5. snapshot' = After(journal, n + 1)
    BY <2>1, <2>3, <2>a
  <2>6. AppliedRequests(Lasting) = Applied(journal, n)
    BY <1>2, <2>2, <2>3, <2>4, Holds DEF Lasting
  <2>7. AppliedRequests(Lasting)' = Applied(journal, n + 1)
    <3>1. After(journal, n + 1) # Nil /\ After(journal, n + 1).applied = Applied(journal, n + 1)
      BY <2>2, <2>4, AfterTyped
    <3> QED
      BY <1>2, <2>1, <2>5, <3>1 DEF Lasting, AppliedRequests
  <2> QED
    BY <2>1, <2>3, <2>4, <2>6, <2>7, CommitStep
<1> QED
  BY <1>1, <1>2

LEMMA StableCatchesUp ==
  ASSUME IInv, "power" \in failing, stable' = snapshot, UNCHANGED <<answered, failing>>
  PROVE  Log!Next \/ UNCHANGED Log!vars
<1>1. CASE stable = snapshot
  BY <1>1 DEF AppliedRequests, Lasting, Log!vars
<1>2. CASE stable # snapshot
  <2>1. journal \in Seq(Event) /\ Len(journal) \in Nat /\ LinesFollow(journal)
    BY LenTyped DEF IInv
  <2>2. PICK p \in Proc : pc[p] = "syncDirectory"
    BY <1>2 DEF IInv, DiskFollows
  <2>3. PICK n \in 0..Len(journal) : Len(journal) = 2 * n + 1 /\ IsAfter(stable, n)
    BY <1>2 DEF IInv, DiskFollows
  <2>4. PICK m \in 0..Len(journal) : Len(journal) = 2 * m + 1 /\ IsAfter(snapshot, m + 1)
    BY <2>2 DEF IInv, CallFollows
  <2>5. /\ n \in Nat /\ n + 1 \in Nat /\ 2 * n - 1 <= Len(journal)
        /\ 2 * (n + 1) - 1 <= Len(journal) /\ m = n
    BY <2>1, <2>3, <2>4
  <2>6. AppliedRequests(Lasting) = Applied(journal, n)
    BY <2>1, <2>3, <2>5, Holds DEF Lasting
  <2>7. AppliedRequests(snapshot) = Applied(journal, n + 1)
    BY <2>1, <2>4, <2>5, Holds
  <2>8. AppliedRequests(Lasting)' = Applied(journal, n + 1)
    BY <2>7 DEF Lasting, AppliedRequests
  <2> QED
    BY <2>3, <2>5, <2>6, <2>8, CommitStep
<1> QED
  BY <1>1, <1>2

LEMMA SyncDirectoryStep ==
  ASSUME IInv, FailuresApart, NEW p \in Proc, SyncDirectory(p)
  PROVE  Log!Next \/ UNCHANGED Log!vars
<1>1. CASE "power" \in failing
  <2>1. "directory" \notin failing
    BY <1>1 DEF FailuresApart, IInv, TypeOK
  <2>2. stable' = snapshot /\ UNCHANGED <<answered, failing>>
    BY <2>1 DEF SyncDirectory, Goto
  <2> QED
    BY <1>1, <2>2, StableCatchesUp
<1>2. CASE "power" \notin failing
  BY <1>2 DEF SyncDirectory, Goto, AppliedRequests, Lasting, Log!vars
<1> QED
  BY <1>1, <1>2

LEMMA PowerLossStep ==
  ASSUME IInv, PowerLoss
  PROVE  Log!Next \/ UNCHANGED Log!vars
<1>1. /\ "power" \in failing /\ UNCHANGED <<answered, failing>>
      /\ stable' = snapshot \/ stable' = stable
  BY DEF PowerLoss
<1>2. CASE stable' = snapshot
  BY <1>1, <1>2, StableCatchesUp
<1>3. CASE stable' = stable
  BY <1>1, <1>3 DEF AppliedRequests, Lasting, Log!vars
<1> QED
  BY <1>1, <1>2, <1>3

LEMMA OtherSteps ==
  ASSUME NEW p \in Proc,
         \/ \E r \in Request : BeginApply(p, r)
         \/ AppendPrepared(p) \/ SyncPrepared(p) \/ AppendCommitted(p)
         \/ BeginRecover(p) \/ Recover(p) \/ (Stop(p) /\ TypeOK)
  PROVE  UNCHANGED Log!vars
<1>1. UNCHANGED <<snapshot, stable, answered, failing>>
  BY DEF BeginApply, AppendPrepared, SyncPrepared, AppendCommitted, BeginRecover, Recover,
     RepairTail, Redo, Finalize, RecoverReturns, Stop, Goto, files
<1> QED
  BY <1>1 DEF AppliedRequests, Lasting, Log!vars

\* The write-ahead log keeps the promise of MutationLog: through any
\* interleaving of calls, stops and recoveries, or of calls and power losses, the
\* requests that can no longer be lost grow one at a time, each from the
\* generation it expected and under a new key, and only they are answered.
THEOREM ImplementsLog ==
  ASSUME FailuresApart
  PROVE  Spec => MutationLogSpec
<1>1. Init => Log!Init
  BY DEF Init, Log!Init, AppliedRequests, Lasting, EmptySnapshot
<1>2. ASSUME IInv, [Next]_vars PROVE [Log!Next]_(Log!vars)
  <2>1. ASSUME NEW r \in Request, Replay(r) PROVE Log!Next
    BY <1>2, <2>1, ReplayStep
  <2>2. ASSUME NEW p \in Proc, ReplaceSnapshot(p) \/ SyncDirectory(p) \/ SyncCommitted(p)
        PROVE  Log!Next \/ UNCHANGED Log!vars
    BY <1>2, <2>2, ReplaceSnapshotStep, SyncDirectoryStep, SyncCommittedStep
  <2>3. ASSUME PowerLoss PROVE Log!Next \/ UNCHANGED Log!vars
    BY <1>2, <2>3, PowerLossStep
  <2>4. CASE UNCHANGED vars
    BY <2>4 DEF vars, files, AppliedRequests, Lasting, Log!vars
  <2>5. TypeOK
    BY <1>2 DEF IInv
  <2> QED
    BY <1>2, <2>1, <2>2, <2>3, <2>4, <2>5, OtherSteps DEF Next, Step, Apply, Failure
<1> QED
  BY <1>1, <1>2, Invariance, PTL DEF Spec, MutationLogSpec, Log!Spec
=============================================================================
