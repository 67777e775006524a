------------------------------ MODULE MutationLog ------------------------------
(***************************************************************************)
(* What a registry with a write-ahead log promises: a sequence of requests *)
(* that only grows, each applied to the generation it expected and no key  *)
(* applied twice, and a caller is told that its request is committed only  *)
(* when the request is in that sequence for good.                          *)
(***************************************************************************)
EXTENDS Naturals, Sequences

CONSTANTS Key, Payload, MaxGen

VARIABLES history, answered

vars == <<history, answered>>

Request == [key: Key, payload: Payload, gen: 0..MaxGen]

Init == history = <<>> /\ answered = {}

Commit(r) ==
  /\ r.gen = Len(history)
  /\ \A n \in DOMAIN history : history[n].key # r.key
  /\ history' = Append(history, r)
  /\ UNCHANGED answered

Answer(r) ==
  /\ \E n \in DOMAIN history : history[n] = r
  /\ answered' = answered \union {r}
  /\ UNCHANGED history

Next == \E r \in Request : Commit(r) \/ Answer(r)

Spec == Init /\ [][Next]_vars
=============================================================================
