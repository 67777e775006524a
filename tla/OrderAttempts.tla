----------------------------- MODULE OrderAttempts -----------------------------
(***************************************************************************)
(* What account_client_order_id.py and the create_order boundary promise,  *)
(* without Redis, receipts or processes: an attempt of a logical order is  *)
(* reserved once, is then either consumed or claimed for sending, never    *)
(* both, is sent at most once and only if claimed, and a retry exists only *)
(* once the fate of the attempt before it is decided.  A logical order     *)
(* never becomes two orders at the exchange.                               *)
(***************************************************************************)
EXTENDS Naturals

CONSTANTS Op, Att, MaxSeq, ClientOrderId, CoidOf

VARIABLES
  reserved,   \* attempts reserved for life
  fate,       \* "open", "consumed" or "claimed", by attempt
  sends,      \* create_order calls, by attempt
  orders      \* attempts that are orders at the exchange

vars == <<reserved, fate, sends, orders>>

Ident == [op: Op, att: Att, seq: 0..MaxSeq]

Init ==
  /\ reserved = {}
  /\ fate = [i \in Ident |-> "open"]
  /\ sends = [i \in Ident |-> 0]
  /\ orders = {}

\* No other attempt shares its place in the operation, its id or its
\* clientOrderID, and a retry follows an attempt whose fate is decided.
Reserve(i) ==
  /\ i \notin reserved
  /\ \A j \in reserved : /\ <<j.op, j.seq>> # <<i.op, i.seq>>
                         /\ <<j.op, j.att>> # <<i.op, i.att>>
                         /\ CoidOf[j] # CoidOf[i]
  /\ i.seq > 0 => \E j \in reserved : /\ j.op = i.op
                                      /\ j.seq + 1 = i.seq
                                      /\ fate[j] # "open"
  /\ reserved' = reserved \union {i}
  /\ UNCHANGED <<fate, sends, orders>>

Decide(i, f) ==
  /\ i \in reserved
  /\ fate[i] = "open"
  /\ fate' = [fate EXCEPT ![i] = f]
  /\ UNCHANGED <<reserved, sends, orders>>

Send(i) ==
  /\ fate[i] = "claimed"
  /\ sends[i] = 0
  /\ sends' = [sends EXCEPT ![i] = 1]
  /\ UNCHANGED <<reserved, fate, orders>>

Create(i) ==
  /\ sends[i] = 1
  /\ \A j \in orders : j.op # i.op
  /\ orders' = orders \union {i}
  /\ UNCHANGED <<reserved, fate, sends>>

Next == \E i \in Ident : \/ Reserve(i)
                         \/ Decide(i, "consumed")
                         \/ Decide(i, "claimed")
                         \/ Send(i)
                         \/ Create(i)

Spec == Init /\ [][Next]_vars
=============================================================================
