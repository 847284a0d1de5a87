CONSTANTS
    DEFAULT_MEM_SIZE = 8
    MIN_SLICE = 1
    Input <- MCInput
    Garbage <- MCGarbage
    MaxPid = 4
SPECIFICATION Spec
\* The program ends with exit or in a crash.
CHECK_DEADLOCK FALSE
INVARIANTS
    MemoryConserved
    WhollyFreeAgain
    RearrangeSorts
PROPERTIES
    KilledComesBack
    RefinesPartition
