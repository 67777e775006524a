-------------------- MODULE DecisionIdentityStoreProofs --------------------
(***************************************************************************)
(* What the decision identity store promises, for any number of            *)
(* evaluations, requests and filter bits, any retention and any clock.     *)
(*                                                                         *)
(* The invariant `Lineage` follows an identity from the completed record   *)
(* to everyone who holds it: the callers it was shown to and the           *)
(* evaluations that have read it as a replay and not answered yet.         *)
(***************************************************************************)
EXTENDS DecisionIdentityStore, TLAPS

Replaying(r) ==
    {c \in Callers : /\ call[c].pc = "provider"
                     /\ call[c].status = "REPLAY"
                     /\ call[c].request = r}

Holding(c) == [content |-> call[c].content, decision |-> call[c].decision]

Held(r) == given[r] \cup {Holding(c) : c \in Replaying(r)}

Matches(record, shown) ==
    record.content = shown.content /\ record.decision = shown.decision

Granted ==
    \A r \in Requests :
      /\ grants[r] <= 1
      /\ grants[r] = 1 => records[r] # None \/ Retired(r)

Lineage ==
    \A r \in Requests :
      /\ \A a, b \in Held(r) : a = b
      /\ \A a \in Held(r) :
           IF records[r] = None THEN Retired(r) ELSE Matches(records[r], a)

(***************************************************************************)
(* A write keeps each record it was given, or retires it.                  *)
(***************************************************************************)
LEMMA StoreEffect ==
    ASSUME NEW recs \in [Requests -> Record \cup {None}],
           bloom \in SUBSET Bits,
           Store(recs)
    PROVE  /\ records' \in [Requests -> Record \cup {None}]
           /\ bloom' \in SUBSET Bits
           /\ bloom \subseteq bloom'
           /\ \A r \in Requests :
                \/ records'[r] = recs[r]
                \/ records'[r] = None /\ Retired(r)'
<1>1. CASE records' = recs /\ UNCHANGED bloom
  BY <1>1
<1>2. ASSUME NEW old \in Kept(recs),
             records' = [recs EXCEPT ![old] = None],
             bloom' = bloom \cup BitsOf[old]
      PROVE  /\ records' \in [Requests -> Record \cup {None}]
             /\ bloom' \in SUBSET Bits
             /\ bloom \subseteq bloom'
             /\ \A r \in Requests :
                  \/ records'[r] = recs[r]
                  \/ records'[r] = None /\ Retired(r)'
  BY <1>2, StoreAssumption DEF Kept, Retired
<1> QED
  BY <1>1, <1>2 DEF Store

(***************************************************************************)
(* The records a claim and a completion hand to the write.                 *)
(***************************************************************************)
LEMMA EntryType ==
    ASSUME TypeOK, NEW content \in Contents, NEW decision \in Decision \cup {None},
           NEW r \in Requests
    PROVE  /\ Entry(content, decision) \in Record
           /\ [records EXCEPT ![r] = Entry(content, decision)]
                \in [Requests -> Record \cup {None}]
<1>1. Entry(content, decision) \in Record
  BY DEF TypeOK, Entry, Record
<1> QED
  BY <1>1 DEF TypeOK

(***************************************************************************)
(* What a write of one entry does to every record.                         *)
(***************************************************************************)
LEMMA WriteEffect ==
    ASSUME TypeOK, NEW content \in Contents, NEW decision \in Decision \cup {None},
           NEW r \in Requests,
           Store([records EXCEPT ![r] = Entry(content, decision)])
    PROVE  /\ records' \in [Requests -> Record \cup {None}]
           /\ bloom' \in SUBSET Bits
           /\ bloom \subseteq bloom'
           /\ \A q \in Requests :
                \/ records'[q] = IF q = r THEN Entry(content, decision) ELSE records[q]
                \/ records'[q] = None /\ Retired(q)'
<1> DEFINE recs == [records EXCEPT ![r] = Entry(content, decision)]
<1>1. recs \in [Requests -> Record \cup {None}]
  BY EntryType
<1>2. \A q \in Requests :
        recs[q] = IF q = r THEN Entry(content, decision) ELSE records[q]
  BY DEF TypeOK
<1>3. bloom \in SUBSET Bits
  BY DEF TypeOK
<1> HIDE DEF recs
<1>4. Store(recs)
  BY DEF recs
<1> QED
  BY <1>1, <1>2, <1>3, <1>4, StoreEffect

(***************************************************************************)
(* What `TypeOK` says of one evaluation, and of the file.                  *)
(***************************************************************************)
CallOK(e) ==
    /\ e \in Call
    /\ e.pc # "idle" => e.request \in Requests /\ e.content \in Contents
    /\ e.decision # None <=> e.pc = "complete" \/ e.status = "REPLAY"
    /\ e.pc = "complete" => e.status = "CLAIMED"

LEMMA IdleOK == CallOK(Idle)
BY DEF CallOK, Idle, Call

LEMMA CallTyping ==
    ASSUME TypeOK, NEW c \in Callers, NEW e, CallOK(e),
           call' = [call EXCEPT ![c] = e],
           records' \in [Requests -> Record \cup {None}], bloom' \in SUBSET Bits,
           now' \in Times, issued' \in Nat, begun' \in Nat,
           grants' \in [Requests -> Nat],
           given' \in [Requests -> SUBSET Shown]
    PROVE  TypeOK'
<1>1. call' \in [Callers -> Call]
  BY DEF TypeOK, CallOK
<1>2. ASSUME NEW b \in Callers PROVE CallOK(call'[b])
  BY DEF TypeOK, CallOK
<1> QED
  BY <1>1, <1>2 DEF TypeOK, CallOK

LEMMA FoundOK ==
    ASSUME TypeOK, NEW c \in Callers, call[c].pc = "claim",
           NEW status \in {"CLAIMED", "RETIRED", "CONFLICT", "REPLAY",
                           "INCOMPLETE", "UNAVAILABLE"},
           NEW decision \in Decision \cup {None},
           decision # None <=> status = "REPLAY",
           Found(c, status, decision)
    PROVE  \E e : CallOK(e) /\ call' = [call EXCEPT ![c] = e]
<1> DEFINE e == [call[c] EXCEPT !.pc = "provider", !.status = status,
                               !.decision = decision]
<1>1. call' = [call EXCEPT ![c] = e]
  BY DEF Found, TypeOK
<1>2. call[c] \in Call /\ call[c].request \in Requests /\ call[c].content \in Contents
  BY DEF TypeOK
<1>3. CallOK(e)
  BY <1>2 DEF CallOK, Call
<1> QED
  BY <1>1, <1>3

(***************************************************************************)
(* The state is always well typed.                                         *)
(***************************************************************************)
THEOREM Typing == Spec => []TypeOK
<1>1. Init => TypeOK
  BY StoreAssumption DEF Init, TypeOK, Idle, Call
<1>2. TypeOK /\ [Next]_vars => TypeOK'
  <2> SUFFICES ASSUME TypeOK, [Next]_vars PROVE TypeOK'
    OBVIOUS
  <2> USE StoreAssumption
  <2>1. ASSUME NEW c \in Callers, Evaluate(c) PROVE TypeOK'
    <3>1. PICK r \in Requests, content \in Contents :
            call' = [call EXCEPT ![c] = [Idle EXCEPT !.pc = "claim",
                                         !.request = r, !.content = content]]
      BY <2>1 DEF Evaluate
    <3>2. CallOK([Idle EXCEPT !.pc = "claim", !.request = r, !.content = content])
      BY DEF CallOK, Call, Idle
    <3>3. begun' \in Nat /\ UNCHANGED <<records, bloom, now, issued, grants, given>>
      BY <2>1 DEF Evaluate, TypeOK
    <3> QED
      BY <3>1, <3>2, <3>3, CallTyping DEF TypeOK
  <2>2. ASSUME NEW c \in Callers, Claim(c) PROVE TypeOK'
    <3> DEFINE r == call[c].request
               content == call[c].content
               status == ClaimStatus(r, content)
    <3>1. call[c].pc = "claim" /\ r \in Requests /\ content \in Contents
      BY <2>2 DEF Claim, TypeOK
    <3>2. UNCHANGED <<now, issued, begun, given>>
      BY <2>2 DEF Claim
    <3>3. CASE /\ status = "CLAIMED"
               /\ WriteClaim(c)
               /\ Found(c, status, None)
               /\ grants' = [grants EXCEPT ![r] = @ + 1]
      <4>1. records' \in [Requests -> Record \cup {None}] /\ bloom' \in SUBSET Bits
        BY <3>1, <3>3, WriteEffect DEF WriteClaim
      <4>2. grants' \in [Requests -> Nat]
        BY <3>1, <3>3 DEF TypeOK
      <4>3. Found(c, "CLAIMED", None)
        BY <3>3
      <4>4. \E e : CallOK(e) /\ call' = [call EXCEPT ![c] = e]
        BY <3>1, <4>3, FoundOK
      <4> QED
        BY <3>2, <4>1, <4>2, <4>4, CallTyping DEF TypeOK
    <3>4. CASE /\ status # "CLAIMED"
               /\ Found(c, status, IF status = "REPLAY" THEN records[r].decision ELSE None)
               /\ UNCHANGED <<records, bloom, grants>>
      <4> DEFINE decision == IF status = "REPLAY" THEN records[r].decision ELSE None
      <4>1. /\ status \in {"CLAIMED", "RETIRED", "CONFLICT", "REPLAY", "INCOMPLETE"}
            /\ status = "REPLAY" => records[r] # None /\ records[r].decision # None
        BY DEF ClaimStatus, Completed
      <4>2. decision \in Decision \cup {None} /\ (decision # None <=> status = "REPLAY")
        BY <3>1, <4>1 DEF TypeOK, Record
      <4>3. Found(c, status, decision)
        BY <3>4
      <4> HIDE DEF decision, status
      <4>4. \E e : CallOK(e) /\ call' = [call EXCEPT ![c] = e]
        BY <3>1, <4>1, <4>2, <4>3, FoundOK
      <4> QED
        BY <3>2, <3>4, <4>4, CallTyping DEF TypeOK
    <3> QED
      BY <2>2, <3>3, <3>4 DEF Claim
  <2>3. ASSUME NEW c \in Callers, ClaimRaises(c) PROVE TypeOK'
    <3>1. call[c].pc = "claim" /\ call[c].request \in Requests /\ call[c].content \in Contents
      BY <2>3 DEF ClaimRaises, TypeOK
    <3>2. records' \in [Requests -> Record \cup {None}] /\ bloom' \in SUBSET Bits
      BY <2>3, <3>1, WriteEffect DEF ClaimRaises, WriteClaim, TypeOK
    <3>3. Found(c, "UNAVAILABLE", None)
      BY <2>3 DEF ClaimRaises
    <3>4. \E e : CallOK(e) /\ call' = [call EXCEPT ![c] = e]
      BY <3>1, <3>3, FoundOK
    <3> QED
      BY <2>3, <3>2, <3>4, CallTyping DEF ClaimRaises, TypeOK
  <2>4. ASSUME NEW c \in Callers, Provide(c) PROVE TypeOK'
    <3>1. /\ call[c].pc = "provider" /\ call[c] \in Call
          /\ call[c].request \in Requests /\ call[c].content \in Contents
      BY <2>4 DEF Provide, TypeOK
    <3>2. UNCHANGED <<records, bloom, now, begun, grants>>
      BY <2>4 DEF Provide
    <3>3. ASSUME NEW result \in Terminal, call[c].status = "CLAIMED",
                 call' = [call EXCEPT ![c].pc = "complete",
                                      ![c].decision = [id |-> issued + 1,
                                                       result |-> result]],
                 issued' = issued + 1, UNCHANGED given
          PROVE  TypeOK'
      <4> DEFINE new == [id |-> issued + 1, result |-> result]
                 e == [call[c] EXCEPT !.pc = "complete", !.decision = new]
      <4>1. issued' \in Nat /\ new \in Decision
        BY <3>3 DEF TypeOK, Decision
      <4>2. call' = [call EXCEPT ![c] = e]
        BY <3>3 DEF TypeOK
      <4> HIDE DEF new
      <4>3. CallOK(e)
        BY <3>1, <3>3, <4>1 DEF CallOK, Call
      <4> QED
        BY <3>2, <3>3, <4>1, <4>2, <4>3, CallTyping DEF TypeOK
    <3>4. ASSUME Answered(c), UNCHANGED issued,
                 IF call[c].status = "REPLAY"
                 THEN Show(call[c].request, call[c].content, call[c].decision)
                 ELSE UNCHANGED given
          PROVE  TypeOK'
      <4>1. call[c].status = "REPLAY" => call[c].decision \in Decision
        BY <3>1 DEF TypeOK, Call
      <4>2. given' \in [Requests -> SUBSET Shown]
        BY <3>1, <3>4, <4>1 DEF Show, TypeOK, Shown
      <4> QED
        BY <3>2, <3>4, <4>2, IdleOK, CallTyping DEF Answered, TypeOK
    <3> QED
      BY <2>4, <3>3, <3>4 DEF Provide
  <2>5. ASSUME NEW c \in Callers, Complete(c) PROVE TypeOK'
    <3>1. /\ call[c].pc = "complete"
          /\ call[c].request \in Requests /\ call[c].content \in Contents
          /\ call[c].decision \in Decision
      BY <2>5 DEF Complete, TypeOK, Call
    <3>2. records' \in [Requests -> Record \cup {None}] /\ bloom' \in SUBSET Bits
      BY <2>5, <3>1, WriteEffect DEF Complete, WriteCompletion, Completable, TypeOK
    <3>3. given' \in [Requests -> SUBSET Shown]
      BY <2>5, <3>1 DEF Complete, Show, TypeOK, Shown
    <3> QED
      BY <2>5, <3>2, <3>3, IdleOK, CallTyping DEF Complete, Answered, TypeOK
  <2>6. ASSUME NEW c \in Callers, CompleteRaises(c) PROVE TypeOK'
    <3>1. /\ call[c].pc = "complete"
          /\ call[c].request \in Requests /\ call[c].content \in Contents
          /\ call[c].decision \in Decision
      BY <2>6 DEF CompleteRaises, TypeOK, Call
    <3>2. records' \in [Requests -> Record \cup {None}] /\ bloom' \in SUBSET Bits
      BY <2>6, <3>1, WriteEffect DEF CompleteRaises, WriteCompletion, Completable, TypeOK
    <3> QED
      BY <2>6, <3>2, IdleOK, CallTyping DEF CompleteRaises, Answered, TypeOK
  <2>7. ASSUME NEW c \in Callers, StopCaller(c) PROVE TypeOK'
    BY <2>7 DEF StopCaller, Answered, Idle, TypeOK, Call
  <2>8. CASE SetClock
    BY <2>8 DEF SetClock, TypeOK, Call
  <2>9. CASE UNCHANGED vars
    BY <2>9 DEF vars, TypeOK, Call
  <2> QED
    BY <2>1, <2>2, <2>3, <2>4, <2>5, <2>6, <2>7, <2>8, <2>9 DEF Next
<1> QED
  BY <1>1, <1>2, PTL DEF Spec

(***************************************************************************)
(* Identities held are of the type shown.                                  *)
(***************************************************************************)
LEMMA HeldType ==
    ASSUME TypeOK, NEW r \in Requests
    PROVE  Held(r) \subseteq Shown
<1>1. given[r] \subseteq Shown
  BY DEF TypeOK
<1>2. ASSUME NEW c \in Replaying(r) PROVE Holding(c) \in Shown
  <2>1. c \in Callers /\ call[c] \in Call /\ call[c].decision # None
    BY DEF Replaying, TypeOK
  <2>2. call[c].content \in Contents
    BY <2>1 DEF Replaying, TypeOK
  <2> QED
    BY <2>1, <2>2 DEF Holding, Shown, Call
<1> QED
  BY <1>1, <1>2 DEF Held

(***************************************************************************)
(* Nobody holds an identity of a request that was never claimed, or whose  *)
(* claim is not completed.                                                 *)
(***************************************************************************)
LEMMA NothingHeld ==
    ASSUME TypeOK, Lineage, NEW r \in Requests,
           \/ records[r] = None /\ ~Retired(r)
           \/ records[r] # None /\ ~Completed(records[r])
    PROVE  Held(r) = {}
<1> SUFFICES ASSUME NEW a \in Held(r) PROVE FALSE
  OBVIOUS
<1>1. a.decision \in Decision
  BY HeldType DEF Shown
<1>2. a.decision # None
  BY <1>1, StoreAssumption
<1> QED
  BY <1>2 DEF Lineage, Matches, Completed

(***************************************************************************)
(* An evaluation that does not become a replay adds no holder.             *)
(***************************************************************************)
LEMMA HeldShrinks ==
    ASSUME TypeOK, NEW c \in Callers, NEW e, e.status # "REPLAY",
           call' = [call EXCEPT ![c] = e], NEW r \in Requests
    PROVE  Held(r)' \subseteq given'[r] \cup Held(r)
<1>1. ASSUME NEW b \in Replaying(r)'
      PROVE  b \in Replaying(r) /\ Holding(b)' = Holding(b)
  BY <1>1 DEF Replaying, Holding, TypeOK
<1> QED
  BY <1>1 DEF Held

(***************************************************************************)
(* Steps that add no holder and only claim, retire or complete records     *)
(* keep the lineage.                                                       *)
(***************************************************************************)
LEMMA LineageKept ==
    ASSUME TypeOK, Lineage, bloom \subseteq bloom',
           \A r \in Requests :
             /\ Held(r)' \subseteq Held(r)
             /\ \/ records'[r] = records[r]
                \/ records'[r] = None /\ Retired(r)'
                \/ records[r] = None /\ ~Retired(r)
                \/ records[r] # None /\ ~Completed(records[r])
    PROVE  Lineage'
<1> SUFFICES ASSUME NEW r \in Requests
             PROVE  /\ \A a, b \in Held(r)' : a = b
                    /\ \A a \in Held(r)' :
                         IF records'[r] = None THEN Retired(r)'
                         ELSE Matches(records'[r], a)
  BY DEF Lineage
<1>1. \A a, b \in Held(r)' : a = b
  BY DEF Lineage
<1>2. Retired(r) => Retired(r)'
  BY DEF Retired
<1>3. CASE records'[r] = records[r]
  BY <1>1, <1>2, <1>3 DEF Lineage
<1>4. CASE records'[r] = None /\ Retired(r)'
  BY <1>1, <1>4
<1>5. CASE \/ records[r] = None /\ ~Retired(r)
           \/ records[r] # None /\ ~Completed(records[r])
  <2>1. Held(r) = {}
    BY <1>5, NothingHeld
  <2> QED
    BY <2>1
<1> QED
  BY <1>3, <1>4, <1>5

Inv == TypeOK /\ Granted /\ Lineage

(***************************************************************************)
(* A write of a claim, whether or not the claim was answered.              *)
(***************************************************************************)
LEMMA ClaimWritten ==
    ASSUME Inv, NEW c \in Callers, call[c].pc = "claim",
           NEW r \in Requests, r = call[c].request,
           ClaimStatus(r, call[c].content) = "CLAIMED",
           WriteClaim(c)
    PROVE  /\ bloom \subseteq bloom'
           /\ grants[r] = 0
           /\ records[r] = None /\ ~Retired(r)
           /\ records'[r] # None \/ Retired(r)'
           /\ \A q \in Requests :
                \/ records'[q] = records[q]
                \/ records'[q] = None /\ Retired(q)'
                \/ records[q] = None /\ ~Retired(q)
<1>1. TypeOK /\ r \in Requests /\ call[c].content \in Contents
  BY DEF Inv, TypeOK
<1>2. records[r] = None /\ ~Retired(r)
  BY <1>1 DEF ClaimStatus, Completed
<1>3. grants[r] = 0
  BY <1>1, <1>2 DEF Inv, Granted, TypeOK
<1>4. Entry(call[c].content, None) # None
  BY <1>1, EntryType, StoreAssumption
<1>5. /\ bloom \subseteq bloom'
      /\ \A q \in Requests :
           \/ records'[q] = IF q = r THEN Entry(call[c].content, None) ELSE records[q]
           \/ records'[q] = None /\ Retired(q)'
  BY <1>1, WriteEffect DEF WriteClaim
<1>6. ASSUME NEW q \in Requests
      PROVE  \/ records'[q] = records[q]
             \/ records'[q] = None /\ Retired(q)'
             \/ records[q] = None /\ ~Retired(q)
  <2>1. CASE q = r
    BY <1>2, <2>1
  <2>2. CASE q # r
    BY <1>5, <2>2
  <2> QED
    BY <2>1, <2>2
<1>7. records'[r] # None \/ Retired(r)'
  <2> DEFINE new == Entry(call[c].content, None)
  <2>1. /\ new # None /\ r \in Requests
        /\ \A q \in Requests :
             \/ records'[q] = IF q = r THEN new ELSE records[q]
             \/ records'[q] = None /\ Retired(q)'
    BY <1>1, <1>4, <1>5
  <2> HIDE DEF new
  <2> QED
    BY <2>1 DEF Retired
<1> QED
  BY <1>2, <1>3, <1>5, <1>6, <1>7

LEMMA CompletionWritten ==
    ASSUME Inv, NEW c \in Callers, call[c].pc = "complete",
           NEW r \in Requests, r = call[c].request,
           Completable(r, call[c].content),
           WriteCompletion(c)
    PROVE  /\ bloom \subseteq bloom'
           /\ Held(r) = {}
           /\ \/ records'[r]
                    = Entry(call[c].content, call[c].decision)
                  /\ records'[r] # None
              \/ records'[r] = None /\ Retired(r)'
           /\ records[r] # None
           /\ ~Completed(records[r])
           /\ \A q \in Requests :
                \/ records'[q] = records[q]
                \/ records'[q] = None /\ Retired(q)'
                \/ q = r
<1>1. /\ TypeOK /\ r \in Requests /\ call[c].content \in Contents
      /\ call[c].decision \in Decision
  BY DEF Inv, TypeOK, Call
<1>2. /\ records[r] # None /\ ~Completed(records[r])
      /\ records[r].content = call[c].content
  BY DEF Completable
<1>3. Held(r) = {}
  BY <1>1, <1>2, NothingHeld DEF Inv
<1>4. Entry(call[c].content, call[c].decision) # None
  BY <1>1, EntryType, StoreAssumption
<1>5. /\ bloom \subseteq bloom'
      /\ \A q \in Requests :
           \/ records'[q] = IF q = r THEN Entry(call[c].content, call[c].decision)
                            ELSE records[q]
           \/ records'[q] = None /\ Retired(q)'
  BY <1>1, <1>2, WriteEffect DEF WriteCompletion
<1>6. ASSUME NEW q \in Requests
      PROVE  \/ records'[q] = records[q]
             \/ records'[q] = None /\ Retired(q)'
             \/ q = r
  BY <1>5
<1>7. \/ records'[r] = Entry(call[c].content, call[c].decision) /\ records'[r] # None
      \/ records'[r] = None /\ Retired(r)'
  <2> DEFINE new == Entry(call[c].content, call[c].decision)
  <2>1. /\ new # None /\ r \in Requests
        /\ \A q \in Requests :
             \/ records'[q] = IF q = r THEN new ELSE records[q]
             \/ records'[q] = None /\ Retired(q)'
    BY <1>1, <1>4, <1>5
  <2>2. \/ records'[r] = new /\ records'[r] # None
        \/ records'[r] = None /\ Retired(r)'
    <3> HIDE DEF new
    <3> QED
      BY <2>1 DEF Retired
  <2> QED
    BY <2>2
<1> QED
  BY <1>2, <1>3, <1>5, <1>6, <1>7

(***************************************************************************)
(* `Inv` is inductive.                                                     *)
(***************************************************************************)
LEMMA GrantedKept ==
    ASSUME Granted, bloom \subseteq bloom', UNCHANGED grants,
           \A r \in Requests :
             \/ records'[r] # None
             \/ records'[r] = records[r]
             \/ Retired(r)'
    PROVE  Granted'
BY DEF Granted, Retired

LEMMA InvInductive ==
    ASSUME Inv, TypeOK', [Next]_vars
    PROVE  Inv'
<1> USE DEF Inv
<1>1. ASSUME NEW c \in Callers, Evaluate(c) PROVE Inv'
  <2>1. PICK r \in Requests, content \in Contents :
          call' = [call EXCEPT ![c] = [Idle EXCEPT !.pc = "claim",
                                       !.request = r, !.content = content]]
    BY <1>1 DEF Evaluate
  <2> DEFINE e == [Idle EXCEPT !.pc = "claim", !.request = r, !.content = content]
  <2>2. e.status # "REPLAY"
    BY DEF Idle
  <2>3. UNCHANGED <<records, bloom, grants, given>>
    BY <1>1 DEF Evaluate
  <2>4. \A q \in Requests : Held(q)' \subseteq Held(q)
    BY <2>1, <2>2, <2>3, HeldShrinks DEF Held
  <2>5. Lineage'
    BY <2>3, <2>4, LineageKept
  <2> QED
    BY <2>3, <2>5, GrantedKept
<1>2. ASSUME NEW c \in Callers, Claim(c) PROVE Inv'
  <2>1. PICK r \in Requests : r = call[c].request
    BY <1>2 DEF Claim, TypeOK
  <2> DEFINE status == ClaimStatus(r, call[c].content)
  <2>0. call[c].pc = "claim" /\ UNCHANGED given
    BY <1>2 DEF Claim
  <2>2. CASE /\ status = "CLAIMED"
             /\ WriteClaim(c)
             /\ Found(c, status, None)
             /\ grants' = [grants EXCEPT ![r] = @ + 1]
    <3> DEFINE e == [call[c] EXCEPT !.pc = "provider", !.status = status,
                                   !.decision = None]
    <3>1. call' = [call EXCEPT ![c] = e] /\ e.status = "CLAIMED"
      <4>1. call[c] \in Call
        BY DEF TypeOK
      <4>2. call' = [call EXCEPT ![c] = e]
        BY <2>2 DEF Found, TypeOK
      <4> QED
        BY <2>2, <4>1, <4>2 DEF Call
    <3>2. \A q \in Requests : Held(q)' \subseteq Held(q)
      BY <2>0, <2>1, <3>1, HeldShrinks DEF Held
    <3>3. Lineage'
      BY <2>0, <2>1, <2>2, <3>2, ClaimWritten, LineageKept
    <3>4. Granted'
      BY <2>0, <2>1, <2>2, ClaimWritten DEF Granted, Retired, TypeOK
    <3> QED
      BY <3>3, <3>4
  <2>3. CASE /\ status # "CLAIMED"
             /\ Found(c, status, IF status = "REPLAY" THEN records[r].decision ELSE None)
             /\ UNCHANGED <<records, bloom, grants>>
    <3>1. Granted'
      BY <2>3, GrantedKept
    <3> DEFINE decision == IF status = "REPLAY" THEN records[r].decision ELSE None
               e == [call[c] EXCEPT !.pc = "provider", !.status = status,
                                   !.decision = decision]
    <3>2. call' = [call EXCEPT ![c] = e] /\ e.status = status
      <4>1. call[c] \in Call
        BY DEF TypeOK
      <4>2. call' = [call EXCEPT ![c] = e]
        BY <2>3 DEF Found, TypeOK
      <4> HIDE DEF status, decision
      <4> QED
        BY <4>1, <4>2 DEF Call
    <3>3. CASE status # "REPLAY"
      <4>1. \A q \in Requests : Held(q)' \subseteq Held(q)
        BY <2>0, <2>1, <3>2, <3>3, HeldShrinks DEF Held
      <4>2. Lineage'
        BY <2>3, <4>1, LineageKept
      <4> QED
        BY <3>1, <4>2
    <3>4. CASE status = "REPLAY"
      <4> DEFINE h == [content |-> call[c].content, decision |-> records[r].decision]
      <4>1. records[r] # None /\ Matches(records[r], h)
        BY <2>1, <3>4 DEF ClaimStatus, Matches
      <4>2. Holding(c)' = h
        BY <2>0, <2>1, <3>2, <3>4 DEF Holding, TypeOK, Call
      <4>3. ASSUME NEW q \in Requests, NEW b \in Replaying(q)', b # c
            PROVE  b \in Replaying(q) /\ Holding(b)' = Holding(b)
        BY <2>0, <3>2, <4>3 DEF Replaying, Holding, TypeOK
      <4>4. c \notin Replaying(r) /\ \A q \in Requests : c \in Replaying(q)' => q = r
        BY <2>0, <2>1, <3>2 DEF Replaying, TypeOK, Call
      <4>5. \A q \in Requests : Held(q)' \subseteq Held(q) \cup (IF q = r THEN {h} ELSE {})
        BY <2>0, <2>1, <4>2, <4>3, <4>4 DEF Held
      <4>6. ASSUME NEW a \in Held(r) PROVE a = h
        <5>1. a \in Shown /\ Matches(records[r], a)
          BY <2>0, <2>1, <4>1, <4>6, HeldType DEF Lineage
        <5> QED
          BY <4>1, <5>1 DEF Matches, Shown
      <4>7. Lineage'
        <5> SUFFICES ASSUME NEW q \in Requests
                     PROVE  /\ \A a, b \in Held(q)' : a = b
                            /\ \A a \in Held(q)' :
                                 IF records'[q] = None THEN Retired(q)'
                                 ELSE Matches(records'[q], a)
          BY DEF Lineage
        <5>1. CASE q = r
          <6>1. Held(q)' \subseteq {h}
            BY <4>5, <4>6, <5>1
          <6> QED
            BY <2>3, <4>1, <5>1, <6>1
        <5>2. CASE q # r
          <6>1. Held(q)' \subseteq Held(q)
            BY <4>5, <5>2
          <6> QED
            BY <2>3, <6>1 DEF Lineage, Retired
        <5> QED
          BY <5>1, <5>2
      <4> QED
        BY <3>1, <4>7
    <3> QED
      BY <3>3, <3>4
  <2> QED
    BY <1>2, <2>1, <2>2, <2>3 DEF Claim
<1>3. ASSUME NEW c \in Callers, ClaimRaises(c) PROVE Inv'
  <2> DEFINE e == [call[c] EXCEPT !.pc = "provider", !.status = "UNAVAILABLE",
                                 !.decision = None]
  <2>1. /\ call[c].pc = "claim" /\ UNCHANGED <<given, grants>>
        /\ call' = [call EXCEPT ![c] = e] /\ e.status = "UNAVAILABLE"
    <3>1. call[c] \in Call
      BY DEF TypeOK
    <3>2. call' = [call EXCEPT ![c] = e]
      BY <1>3 DEF ClaimRaises, Found, TypeOK
    <3> QED
      BY <1>3, <3>1, <3>2 DEF ClaimRaises, Call
  <2>2. \A q \in Requests : Held(q)' \subseteq Held(q)
    BY <2>1, HeldShrinks DEF Held
  <2>3. CASE UNCHANGED <<records, bloom>>
    <3>1. Lineage'
      BY <2>2, <2>3, LineageKept
    <3> QED
      BY <2>1, <2>3, <3>1, GrantedKept
  <2>4. CASE /\ ClaimStatus(call[c].request, call[c].content) = "CLAIMED"
             /\ WriteClaim(c)
    <3>0. PICK r \in Requests : r = call[c].request
      BY <2>1 DEF TypeOK
    <3>1. Lineage'
      BY <2>1, <2>2, <2>4, <3>0, ClaimWritten, LineageKept
    <3>2. Granted'
      BY <2>1, <2>4, <3>0, ClaimWritten DEF Granted, Retired
    <3> QED
      BY <3>1, <3>2
  <2> QED
    BY <1>3, <2>3, <2>4 DEF ClaimRaises
<1>4. ASSUME NEW c \in Callers, Provide(c) PROVE Inv'
  <2>1. /\ call[c].pc = "provider" /\ call[c] \in Call
        /\ call[c].request \in Requests
        /\ UNCHANGED <<records, bloom, grants>>
    BY <1>4 DEF Provide, TypeOK
  <2>2. Granted'
    BY <2>1, GrantedKept
  <2>3. \A q \in Requests : Held(q)' \subseteq Held(q)
    <3>1. ASSUME NEW result \in Terminal, call[c].status = "CLAIMED",
                 call' = [call EXCEPT ![c].pc = "complete",
                                      ![c].decision = [id |-> issued + 1,
                                                       result |-> result]],
                 UNCHANGED given
          PROVE  \A q \in Requests : Held(q)' \subseteq Held(q)
      <4> DEFINE e == [call[c] EXCEPT !.pc = "complete",
                                     !.decision = [id |-> issued + 1,
                                                   result |-> result]]
      <4>1. call' = [call EXCEPT ![c] = e]
        BY <3>1 DEF TypeOK
      <4>2. e.status = "CLAIMED"
        BY <2>1, <3>1 DEF Call
      <4> QED
        BY <3>1, <4>1, <4>2, HeldShrinks DEF Held
    <3>2. ASSUME Answered(c),
                 IF call[c].status = "REPLAY"
                 THEN Show(call[c].request, call[c].content, call[c].decision)
                 ELSE UNCHANGED given
          PROVE  \A q \in Requests : Held(q)' \subseteq Held(q)
      <4>1. \A q \in Requests : Held(q)' \subseteq given'[q] \cup Held(q)
        BY <3>2, HeldShrinks DEF Answered, Idle
      <4>2. \A q \in Requests : given'[q] \subseteq Held(q)
        BY <2>1, <3>2 DEF Show, Held, Holding, Replaying, TypeOK
      <4> QED
        BY <4>1, <4>2
    <3> QED
      BY <1>4, <3>1, <3>2 DEF Provide
  <2>4. Lineage'
    BY <2>1, <2>3, LineageKept
  <2> QED
    BY <2>2, <2>4
<1>5. ASSUME NEW c \in Callers, Complete(c) PROVE Inv'
  <2>0. PICK r \in Requests, content \in Contents, decision \in Decision :
          r = call[c].request /\ content = call[c].content /\ decision = call[c].decision
    BY <1>5 DEF Complete, TypeOK, Call
  <2> DEFINE h == [content |-> content, decision |-> decision]
  <2>1. /\ call[c].pc = "complete" /\ Answered(c) /\ UNCHANGED grants
    BY <1>5 DEF Complete
  <2>2. \A q \in Requests : Held(q)' \subseteq given'[q] \cup Held(q)
    BY <2>1, HeldShrinks DEF Answered, Idle
  <2>3. CASE Completable(r, content) /\ WriteCompletion(c) /\ Show(r, content, decision)
    <3>1. Granted'
      BY <2>0, <2>1, <2>3, CompletionWritten, GrantedKept DEF Retired
    <3>2. \A q \in Requests :
            given'[q] = given[q] \cup (IF q = r THEN {h} ELSE {})
      BY <2>3 DEF Show, TypeOK
    <3>3. \A q \in Requests : q # r => Held(q)' \subseteq Held(q)
      BY <2>2, <3>2 DEF Held
    <3>4. Held(r) = {}
      BY <2>0, <2>1, <2>3, CompletionWritten
    <3>5. Held(r)' \subseteq {h}
      BY <2>1, <2>2, <3>2, <3>4 DEF Held
    <3>6. \/ records'[r] # None /\ Matches(records'[r], h)
          \/ records'[r] = None /\ Retired(r)'
      <4>1. \/ records'[r] = Entry(content, decision) /\ records'[r] # None
            \/ records'[r] = None /\ Retired(r)'
        BY <2>0, <2>1, <2>3, CompletionWritten
      <4> QED
        BY <4>1 DEF Entry, Matches
    <3>7. Lineage'
      <4> SUFFICES ASSUME NEW q \in Requests
                   PROVE  /\ \A a, b \in Held(q)' : a = b
                          /\ \A a \in Held(q)' :
                               IF records'[q] = None THEN Retired(q)'
                               ELSE Matches(records'[q], a)
        BY DEF Lineage
      <4>1. CASE q = r
        BY <3>5, <3>6, <4>1
      <4>2. CASE q # r
        <5>1. \/ records'[q] = records[q]
              \/ records'[q] = None /\ Retired(q)'
          BY <2>0, <2>1, <2>3, <4>2, CompletionWritten
        <5>2. Retired(q) => Retired(q)'
          BY <2>0, <2>1, <2>3, CompletionWritten DEF Retired
        <5> QED
          <6>1. Held(q)' \subseteq Held(q)
            BY <3>3, <4>2
          <6> QED
            BY <5>1, <5>2, <6>1 DEF Lineage
      <4> QED
        BY <4>1, <4>2
    <3> QED
      BY <3>1, <3>7
  <2>4. CASE UNCHANGED <<records, bloom, given>>
    <3>1. \A q \in Requests : Held(q)' \subseteq Held(q)
      BY <2>2, <2>4 DEF Held
    <3>2. Lineage'
      BY <2>4, <3>1, LineageKept
    <3> QED
      BY <2>1, <2>4, <3>2, GrantedKept
  <2> QED
    BY <1>5, <2>0, <2>3, <2>4 DEF Complete
<1>6. ASSUME NEW c \in Callers, CompleteRaises(c) PROVE Inv'
  <2>1. /\ call[c].pc = "complete" /\ Answered(c) /\ UNCHANGED <<grants, given>>
    BY <1>6 DEF CompleteRaises
  <2>2. \A q \in Requests : Held(q)' \subseteq Held(q)
    BY <2>1, HeldShrinks DEF Answered, Idle, Held
  <2>3. CASE UNCHANGED <<records, bloom>>
    <3>1. Lineage'
      BY <2>2, <2>3, LineageKept
    <3> QED
      BY <2>1, <2>3, <3>1, GrantedKept
  <2>4. CASE Completable(call[c].request, call[c].content) /\ WriteCompletion(c)
    <3>0. PICK r \in Requests : r = call[c].request
      BY <2>1 DEF TypeOK
    <3>1. /\ bloom \subseteq bloom'
          /\ \A q \in Requests :
               \/ records'[q] = records[q]
               \/ records'[q] = None /\ Retired(q)'
               \/ /\ records[q] # None /\ ~Completed(records[q])
                  /\ records'[q] # None
      BY <2>1, <2>4, <3>0, CompletionWritten
    <3>2. Lineage'
      BY <2>2, <3>1, LineageKept
    <3>3. Granted'
      BY <2>1, <3>1, GrantedKept
    <3> QED
      BY <3>2, <3>3
  <2> QED
    BY <1>6, <2>3, <2>4 DEF CompleteRaises
<1>7. ASSUME NEW c \in Callers, StopCaller(c) PROVE Inv'
  <2>1. Answered(c) /\ UNCHANGED <<records, bloom, grants, given>>
    BY <1>7 DEF StopCaller
  <2>2. \A q \in Requests : Held(q)' \subseteq Held(q)
    BY <2>1, HeldShrinks DEF Answered, Idle, Held
  <2>3. Lineage'
    BY <2>1, <2>2, LineageKept
  <2> QED
    BY <2>1, <2>3, GrantedKept
<1>8. CASE SetClock \/ UNCHANGED vars
  <2>1. UNCHANGED <<records, bloom, call, grants, given>>
    BY <1>8 DEF SetClock, vars
  <2> QED
    BY <2>1 DEF Granted, Lineage, Held, Replaying, Holding, Retired
<1> QED
  BY <1>1, <1>2, <1>3, <1>4, <1>5, <1>6, <1>7, <1>8 DEF Next

LEMMA Invariance == Spec => []Inv
<1>1. Init => Inv
  <2> SUFFICES ASSUME Init PROVE Inv
    OBVIOUS
  <2>1. TypeOK
    BY StoreAssumption DEF Init, TypeOK, Idle, Call
  <2>2. Granted
    BY DEF Init, Granted
  <2>3. \A r \in Requests : Held(r) = {}
    BY DEF Init, Held, Replaying, Idle
  <2> QED
    BY <2>1, <2>2, <2>3 DEF Inv, Lineage
<1>2. Inv /\ TypeOK' /\ [Next]_vars => Inv'
  BY InvInductive
<1> QED
  BY <1>1, <1>2, Typing, PTL DEF Spec

(***************************************************************************)
(* A request identifier is claimed at most once.                           *)
(***************************************************************************)
THEOREM ClaimedAtMostOnce == Spec => []ClaimedOnce
<1>1. Inv => ClaimedOnce
  BY DEF Inv, Granted, ClaimedOnce
<1> QED
  BY <1>1, Invariance, PTL

(***************************************************************************)
(* The answers about a request show one identity, one result, one content. *)
(***************************************************************************)
THEOREM OneIdentityPerRequest == Spec => []OneIdentity
<1>1. Inv => OneIdentity
  BY DEF Inv, Lineage, Held, OneIdentity
<1> QED
  BY <1>1, Invariance, PTL

(***************************************************************************)
(* An identity that was shown is the file's, until it is retired.          *)
(***************************************************************************)
THEOREM ShownIdentityIsDurable == Spec => []ShownIsDurable
<1>1. Inv => ShownIsDurable
  BY DEF Inv, Lineage, Matches, Held, ShownIsDurable
<1> QED
  BY <1>1, Invariance, PTL

(***************************************************************************)
(* A completed record never changes, and is only ever retired.             *)
(***************************************************************************)
THEOREM CompletedRecordIsFinal == Spec => CompletedIsFinal
<1> DEFINE Final ==
      \A r \in Requests :
        records[r] # None /\ Completed(records[r]) =>
          \/ records'[r] = records[r]
          \/ records'[r] = None /\ Retired(r)'
<1>1. ASSUME Inv, [Next]_vars PROVE Final
  <2>1. ASSUME NEW c \in Callers, Claim(c) PROVE Final
    <3>1. PICK r \in Requests : r = call[c].request
      BY <1>1, <2>1 DEF Inv, TypeOK, Claim
    <3>2. CASE ClaimStatus(r, call[c].content) = "CLAIMED" /\ WriteClaim(c)
      BY <1>1, <2>1, <3>1, <3>2, ClaimWritten DEF Claim
    <3>3. CASE UNCHANGED records
      BY <3>3
    <3> QED
      BY <2>1, <3>1, <3>2, <3>3 DEF Claim
  <2>2. ASSUME NEW c \in Callers, ClaimRaises(c) PROVE Final
    <3>1. PICK r \in Requests : r = call[c].request
      BY <1>1, <2>2 DEF Inv, TypeOK, ClaimRaises
    <3>2. CASE ClaimStatus(r, call[c].content) = "CLAIMED" /\ WriteClaim(c)
      BY <1>1, <2>2, <3>1, <3>2, ClaimWritten DEF ClaimRaises
    <3>3. CASE UNCHANGED records
      BY <3>3
    <3> QED
      BY <2>2, <3>1, <3>2, <3>3 DEF ClaimRaises
  <2>3. ASSUME NEW c \in Callers, Complete(c) \/ CompleteRaises(c) PROVE Final
    <3>1. PICK r \in Requests : r = call[c].request
      BY <1>1, <2>3 DEF Inv, TypeOK, Complete, CompleteRaises
    <3>2. CASE Completable(r, call[c].content) /\ WriteCompletion(c)
      BY <1>1, <2>3, <3>1, <3>2, CompletionWritten DEF Complete, CompleteRaises
    <3>3. CASE UNCHANGED records
      BY <3>3
    <3> QED
      BY <2>3, <3>1, <3>2, <3>3 DEF Complete, CompleteRaises
  <2>4. ASSUME NEW c \in Callers, Evaluate(c) \/ Provide(c) \/ StopCaller(c)
        PROVE  Final
    BY <2>4 DEF Evaluate, Provide, StopCaller
  <2>5. CASE SetClock \/ UNCHANGED vars
    BY <2>5 DEF SetClock, vars
  <2> QED
    BY <1>1, <2>1, <2>2, <2>3, <2>4, <2>5 DEF Next
<1>2. Inv /\ [Next]_vars => [Final]_vars
  BY <1>1
<1> QED
  BY <1>2, Invariance, PTL DEF Spec, CompletedIsFinal
=============================================================================
