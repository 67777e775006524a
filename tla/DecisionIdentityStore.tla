----------------------- MODULE DecisionIdentityStore -----------------------
(***************************************************************************)
(* decision_identity_store.py: the local file that gives a decision        *)
(* request its identity once.  A bot issues a request identifier           *)
(* (`ensure_decision_request_identity`), the Central claims it, runs the   *)
(* decision provider, and completes the claim with a freshly generated     *)
(* decision identifier; a completed request only ever answers a replay     *)
(* with the identity it has.  The file keeps at most `Retention` records:  *)
(* an older one is retired into a Bloom filter that denies its identifier  *)
(* for ever.                                                               *)
(*                                                                         *)
(* Every store operation holds a thread lock and an exclusive file lock    *)
(* from its read to its fsynced rename, so each is one step here, for any  *)
(* number of threads, processes and store objects.  It can raise before    *)
(* it wrote anything, or after the rename (the release of the lock), and   *)
(* the caller cannot tell which.  The provider runs between the two        *)
(* operations without any lock.                                            *)
(***************************************************************************)
EXTENDS Integers, FiniteSets

CONSTANTS
    Callers,        \* evaluations that can be under way at once
    Requests,       \* decision request identifiers
    Contents,       \* a signal identifier with a canonical request digest
    Bits, BitsOf,   \* the filter's bits; the bits of a request identifier
    Retention,      \* retention_max_records
    Times,          \* wall clock readings
    MaxEvaluations, \* bound on evaluations begun
    None

Terminal == {"ALLOW", "DENY"}
Decision == [id : Nat \ {0}, result : Terminal]

Record ==
    [content : Contents, decision : Decision \cup {None}, at : Times]

ASSUME StoreAssumption ==
    /\ IsFiniteSet(Requests)
    /\ BitsOf \in [Requests -> SUBSET Bits]
    /\ Retention \in Nat \ {0}
    /\ Times \subseteq Int
    /\ MaxEvaluations \in Nat
    /\ None \notin Requests \cup Contents \cup Decision \cup Record

VARIABLES
    records,    \* the record of each request, or None
    bloom,      \* retired_request_id_bloom
    now,        \* the wall clock, which may be set back
    call,       \* each evaluation under way
    issued,     \* decision identifiers generated so far (each is new)
    begun,      \* evaluations begun (bounded)
    grants,     \* history: how often each request was answered CLAIMED
    given       \* history: identities shown to the caller of each request

vars == <<records, bloom, now, call, issued, begun, grants, given>>

Completed(record) == record.decision # None

Retired(r) == BitsOf[r] \subseteq bloom

Idle == [pc |-> "idle", request |-> None, content |-> None,
         status |-> "none", decision |-> None]

(***************************************************************************)
(* `_apply_retention_locked` and `_write_state_locked`: the record with    *)
(* the oldest `completed_at or claimed_at` is retired when one too many is *)
(* kept.  Identifiers, which break a tie, are random text.                 *)
(***************************************************************************)
Kept(recs) == {r \in Requests : recs[r] # None}

\* Slip: the evicted record leaves no witness.
StoreForgetting(recs) ==
    /\ UNCHANGED bloom
    /\ \/ Cardinality(Kept(recs)) <= Retention /\ records' = recs
       \/ /\ Cardinality(Kept(recs)) > Retention
          /\ \E old \in Kept(recs) : records' = [recs EXCEPT ![old] = None]

Store(recs) ==
    \/ /\ Cardinality(Kept(recs)) <= Retention
       /\ records' = recs
       /\ UNCHANGED bloom
    \/ /\ Cardinality(Kept(recs)) > Retention
       /\ \E old \in Kept(recs) :
            /\ \A r \in Kept(recs) : recs[old].at <= recs[r].at
            /\ records' = [recs EXCEPT ![old] = None]
            /\ bloom' = bloom \cup BitsOf[old]

(***************************************************************************)
(* What `claim` finds under a request identifier, before it writes.        *)
(***************************************************************************)
\* Slip: a request is looked up together with its digest.
ClaimStatusByContent(r, content) ==
    IF records[r] # None /\ records[r].content = content
    THEN IF Completed(records[r]) THEN "REPLAY" ELSE "INCOMPLETE"
    ELSE IF Retired(r) THEN "RETIRED" ELSE "CLAIMED"

ClaimStatus(r, content) ==
    CASE records[r] = None /\ ~Retired(r)      -> "CLAIMED"
      [] records[r] = None /\ Retired(r)       -> "RETIRED"
      [] records[r] # None                     ->
           IF records[r].content # content THEN "CONFLICT"
           ELSE IF Completed(records[r]) THEN "REPLAY" ELSE "INCOMPLETE"

(***************************************************************************)
(* `evaluate_current_decision_with_identity` on a valid payload.           *)
(***************************************************************************)
Evaluate(c) ==
    /\ call[c].pc = "idle"
    /\ begun < MaxEvaluations
    /\ \E r \in Requests, content \in Contents :
         call' = [call EXCEPT ![c] = [Idle EXCEPT !.pc = "claim",
                                      !.request = r, !.content = content]]
    /\ begun' = begun + 1
    /\ UNCHANGED <<records, bloom, now, issued, grants, given>>

Found(c, status, decision) ==
    call' = [call EXCEPT ![c].pc = "provider", ![c].status = status,
                         ![c].decision = decision]

Entry(content, decision) ==
    [content |-> content, decision |-> decision, at |-> now]

WriteClaim(c) ==
    Store([records EXCEPT ![call[c].request] = Entry(call[c].content, None)])

Claim(c) ==
    LET r == call[c].request
        status == ClaimStatus(r, call[c].content)
    IN  /\ call[c].pc = "claim"
        /\ \/ /\ status = "CLAIMED"
              /\ WriteClaim(c)
              /\ Found(c, status, None)
              /\ grants' = [grants EXCEPT ![r] = @ + 1]
           \/ /\ status # "CLAIMED"
              /\ Found(c, status,
                       IF status = "REPLAY" THEN records[r].decision ELSE None)
              /\ UNCHANGED <<records, bloom, grants>>
        /\ UNCHANGED <<now, issued, begun, given>>

\* The claim raises: an identity problem never stops the decision.
ClaimRaises(c) ==
    /\ call[c].pc = "claim"
    /\ \/ /\ ClaimStatus(call[c].request, call[c].content) = "CLAIMED"
          /\ WriteClaim(c)
       \/ UNCHANGED <<records, bloom>>
    /\ Found(c, "UNAVAILABLE", None)
    /\ UNCHANGED <<now, issued, begun, grants, given>>

Answered(c) == call' = [call EXCEPT ![c] = Idle]

Show(r, content, decision) ==
    given' = [given EXCEPT ![r] =
                @ \cup {[content |-> content, decision |-> decision]}]

(***************************************************************************)
(* The provider answers.  Only a literal ALLOW or DENY under a claim goes  *)
(* on to a completion, with an identifier generated for it; a replay shows *)
(* the stored identity as history, anything else shows none.  A result     *)
(* that is not terminal or carries identity fields of its own is `None`.   *)
(***************************************************************************)
Provide(c) ==
    /\ call[c].pc = "provider"
    /\ \E result \in Terminal \cup {None} :
         \/ /\ call[c].status = "CLAIMED"
            /\ result # None
            /\ call' = [call EXCEPT
                          ![c].pc = "complete",
                          ![c].decision = [id |-> issued + 1,
                                           result |-> result]]
            /\ issued' = issued + 1
            /\ UNCHANGED given
         \/ /\ call[c].status = "CLAIMED" => result = None
            /\ Answered(c)
            /\ IF call[c].status = "REPLAY"
               THEN Show(call[c].request, call[c].content, call[c].decision)
               ELSE UNCHANGED given
            /\ UNCHANGED issued
    /\ UNCHANGED <<records, bloom, now, begun, grants>>

(***************************************************************************)
(* `complete`: claim missing, another content, or already completed are    *)
(* refused, and the answer then carries no identity.                       *)
(***************************************************************************)
Completable(r, content) ==
    /\ records[r] # None
    /\ records[r].content = content
    /\ ~Completed(records[r])

WriteCompletion(c) ==
    Store([records EXCEPT ![call[c].request] =
             Entry(records[call[c].request].content, call[c].decision)])

Complete(c) ==
    LET r == call[c].request
    IN  /\ call[c].pc = "complete"
        /\ \/ /\ Completable(r, call[c].content)
              /\ WriteCompletion(c)
              /\ Show(r, call[c].content, call[c].decision)
           \/ /\ ~Completable(r, call[c].content)
              /\ UNCHANGED <<records, bloom, given>>
        /\ Answered(c)
        /\ UNCHANGED <<now, issued, begun, grants>>

\* Slip: a completion that could not be confirmed shows its candidate.
CompleteRaisesShowing(c) ==
    /\ call[c].pc = "complete"
    /\ \/ /\ Completable(call[c].request, call[c].content)
          /\ WriteCompletion(c)
       \/ UNCHANGED <<records, bloom>>
    /\ Show(call[c].request, call[c].content, call[c].decision)
    /\ Answered(c)
    /\ UNCHANGED <<now, issued, begun, grants>>

CompleteRaises(c) ==
    /\ call[c].pc = "complete"
    /\ \/ /\ Completable(call[c].request, call[c].content)
          /\ WriteCompletion(c)
       \/ UNCHANGED <<records, bloom>>
    /\ Answered(c)
    /\ UNCHANGED <<now, issued, begun, grants, given>>

\* The process of an evaluation stops; its memory is all that is lost.
StopCaller(c) ==
    /\ call[c].pc # "idle"
    /\ Answered(c)
    /\ UNCHANGED <<records, bloom, now, issued, begun, grants, given>>

SetClock ==
    /\ now' \in Times
    /\ UNCHANGED <<records, bloom, call, issued, begun, grants, given>>

Init ==
    /\ records = [r \in Requests |-> None]
    /\ bloom = {}
    /\ now \in Times
    /\ call = [c \in Callers |-> Idle]
    /\ issued = 0
    /\ begun = 0
    /\ grants = [r \in Requests |-> 0]
    /\ given = [r \in Requests |-> {}]

Next ==
    \/ \E c \in Callers :
         \/ Evaluate(c) \/ Claim(c) \/ ClaimRaises(c) \/ Provide(c)
         \/ Complete(c) \/ CompleteRaises(c) \/ StopCaller(c)
    \/ SetClock

Spec == Init /\ [][Next]_vars

-----------------------------------------------------------------------------
Shown == [content : Contents, decision : Decision]

Call ==
    [pc : {"idle", "claim", "provider", "complete"},
     request : Requests \cup {None}, content : Contents \cup {None},
     status : {"none", "CLAIMED", "RETIRED", "CONFLICT", "REPLAY",
               "INCOMPLETE", "UNAVAILABLE"},
     decision : Decision \cup {None}]

(***************************************************************************)
(* The types, and what an evaluation holds at each point of it: a decision *)
(* exactly when it replays one or is about to complete its claim.          *)
(***************************************************************************)
TypeOK ==
    /\ records \in [Requests -> Record \cup {None}]
    /\ bloom \in SUBSET Bits
    /\ now \in Times
    /\ call \in [Callers -> Call]
    /\ issued \in Nat
    /\ begun \in Nat
    /\ grants \in [Requests -> Nat]
    /\ given \in [Requests -> SUBSET Shown]
    /\ \A c \in Callers :
         /\ call[c].pc # "idle" =>
              call[c].request \in Requests /\ call[c].content \in Contents
         /\ call[c].decision # None <=>
              call[c].pc = "complete" \/ call[c].status = "REPLAY"
         /\ call[c].pc = "complete" => call[c].status = "CLAIMED"

(***************************************************************************)
(* A request identifier is claimed at most once, whichever threads and     *)
(* processes race for it, however often its evaluation is repeated after a *)
(* crash or an error, and after its record was retired.                    *)
(***************************************************************************)
ClaimedOnce == \A r \in Requests : grants[r] <= 1

(***************************************************************************)
(* All the answers about one request, the completion and any replay after  *)
(* it, show one decision identity, one result and the one content it was   *)
(* decided for.                                                            *)
(***************************************************************************)
OneIdentity ==
    \A r \in Requests : \A a, b \in given[r] : a = b

(***************************************************************************)
(* An identity is shown only when the file holds it, or held it until it   *)
(* was retired: a completion that raised shows none, whether or not it was *)
(* written.                                                                *)
(***************************************************************************)
ShownIsDurable ==
    \A r \in Requests : \A shown \in given[r] :
      IF records[r] = None
      THEN Retired(r)
      ELSE /\ records[r].content = shown.content
           /\ records[r].decision = shown.decision

(***************************************************************************)
(* A completed record is immutable; it leaves the file only through        *)
(* retirement, which keeps its identifier from being claimed again.        *)
(***************************************************************************)
CompletedIsFinal ==
    [][\A r \in Requests :
         records[r] # None /\ Completed(records[r]) =>
           \/ records'[r] = records[r]
           \/ records'[r] = None /\ Retired(r)']_vars
=============================================================================
