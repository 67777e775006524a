\* Two concurrent evaluations, three requests, one record retained.
SPECIFICATION Spec
CONSTANTS
    r1 = r1
    r2 = r2
    r3 = r3
    Requests <- MCRequests
    Bits <- MCBits
    BitsOf <- MCBitsOf
    Times <- MCTimes
    Callers = {c1, c2}
    Contents = {x, y}
    Retention = 1
    MaxEvaluations = 4
    None = None
INVARIANTS
    ClaimedOnce
    OneIdentity
    ShownIsDurable
PROPERTIES
    CompletedIsFinal
SYMMETRY Symmetry
