CONSTANTS
    Clients = 3
    MaxSent = 2
    SNDBUF = 1
    MAXEVENTS = 2
SPECIFICATION Spec
\* The server may end, and waits when no client does anything.
CHECK_DEADLOCK FALSE
INVARIANTS
    EventsAreValid
    OnlyKnownStalls
PROPERTY ServedOrStalled
