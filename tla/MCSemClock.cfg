CONSTANTS
    s1 = s1
    s2 = s2
    c1 = c1
    c2 = c2
    Server <- MCServer
    Client <- MCClient
    ITERATIONS = 1
    MaxDeaths = 1
SPECIFICATION Spec
\* All processes end.
CHECK_DEADLOCK FALSE
INVARIANTS
    TypeOK
    SemaphoresCountHolders
    ExclusiveUnlessDisturbed
    CleanRead
    OneWriter
    SomebodyCanGoOn
SYMMETRY MCSymmetry
