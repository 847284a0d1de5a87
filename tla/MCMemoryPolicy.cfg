CONSTANTS
    DEFAULT_MEM_SIZE = 8
    MIN_SLICE = 1
    Input <- MCValid
    Garbage <- MCNone
    MaxPid = 4
SPECIFICATION Spec
CHECK_DEADLOCK FALSE
PROPERTIES
    FirstFitIsUsed
