---------------------------- MODULE MCLiveExecution ----------------------------
\* p, q and r are orders of three bots on three symbols.  A payload's name stands
\* for its key, its attempt and its leg.
EXTENDS LiveExecution, TLC

CONSTANTS p, q, r, legacy

MCKeyOf == [x \in Payload |-> x]
MCLegacyOf == [x \in Payload |-> legacy]
MCAttemptOf == MCKeyOf
MCLegOf == MCKeyOf
Interchangeable == Permutations(Thread) \union Permutations(Payload)
=============================================================================
