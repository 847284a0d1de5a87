CONSTANTS
    s1 = s1
    s2 = s2
    c1 = c1
    c2 = c2
    Server <- MCServer
    Client <- MCClient
    ITERATIONS = 1
    MaxDeaths = 0
SPECIFICATION Spec
\* All processes end.
CHECK_DEADLOCK FALSE
INVARIANTS
    ReadersExcludeWriters
SYMMETRY MCSymmetry
