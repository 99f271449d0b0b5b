\* Two calls, restarts in environments of every kind.
SPECIFICATION FairSpec
CONSTANTS
    c1 = c1
    c2 = c2
    Calls = {c1, c2}
    Environments <- MixedEnvironments
CHECK_DEADLOCK FALSE
INVARIANTS
    TypeOK
    FlushDrains
PROPERTIES
    TracingIsInvisible
    CallEnds
