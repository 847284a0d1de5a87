CONSTANTS
    Clients = 3
    MaxSent = 2
    SNDBUF = 1
    INIT_SIZE = 3
    MaxFailures = 1
SPECIFICATION Spec
\* The server may end, and waits when no client does anything.
CHECK_DEADLOCK FALSE
INVARIANTS
    EntriesAreConnections
    ReadyNumberCounts
    NothingBlocks
PROPERTY EveryoneIsServed
