CONSTANTS
    N = 5
    ROUNDS = 5
SPECIFICATION Spec
\* The program really may stop: main ends, or all threads are in the circle.
CHECK_DEADLOCK FALSE
INVARIANTS
    TypeOK
    MutexOwnership
    NeighboursExclusive
    OnlyTheCircleBlocks
    RoundsDoNotOverlap
PROPERTIES
    EndsOrCircle
