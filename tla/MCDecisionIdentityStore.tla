--------------------- MODULE MCDecisionIdentityStore ---------------------
(* Three requests whose filter bits overlap: retiring two of them makes    *)
(* the third a false positive.                                             *)
EXTENDS DecisionIdentityStore, TLC

CONSTANTS r1, r2, r3

MCRequests == {r1, r2, r3}
MCBits == 1 .. 3
MCBitsOf == r1 :> {1, 2} @@ r2 :> {2, 3} @@ r3 :> {1, 3}
MCTimes == 1 .. 2

Symmetry == Permutations(Callers) \cup Permutations(Contents)
==========================================================================
