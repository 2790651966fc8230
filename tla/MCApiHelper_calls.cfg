\* Three overlapping calls; no symmetry, which liveness checking does not allow.
CONSTANTS
    c1 = c1
    c2 = c2
    c3 = c3
    a1 = a1
    a2 = a2
    Call <- MCCall
    Answer <- MCAnswer
    Failed = Failed
    NoAnswer = NoAnswer
SPECIFICATION FairSpec
INVARIANTS
    TypeOK
    OwnAnswer
PROPERTIES
    ImplementsContract
    SettledReturns
\* Every call of the instance may have returned.
CHECK_DEADLOCK FALSE
