--------------------------- MODULE MCFalconPositions ---------------------------
\* Symbols are interchangeable.
EXTENDS FalconPositions, TLC

Symbols == Permutations(Symbol)
=============================================================================
