------------------------- MODULE MCAccountClientOrder -------------------------
(* Small instances of AccountClientOrder for TLC.                            *)
EXTENDS AccountClientOrder, TLC

CONSTANTS o1, a1, a2

\* The truncated hash is injective, except that the first attempt by a1 and its
\* retry by a2 collide; the other order of attempts retries without collision.
MCClientOrderId == Ident
MCCoidOf == [i \in Ident |-> IF i.att = a2 /\ i.seq = 1
                             THEN [i EXCEPT !.att = a1, !.seq = 0] ELSE i]

MCSymmetry == Permutations(Proc)
=============================================================================
