SPECIFICATION Spec
CONSTANTS
    PipeSize = 1
    MaxLines = 5
    MAX_THREAD = 2
    READER_MAX = 2
    WRITER_MAX = 2
    LOOP_TIMES = 2
    Modulus = 4
    MAX_CHILD_NUMBER = 2
    INT_PTX = 3
    N = 2
    Client = {c1, c2}
    Qsize = 1
\* The programs end, or wait for a user or a client.
CHECK_DEADLOCK FALSE
INVARIANTS TypeOK AnswersInStep EverythingArrives OnlyFullPipesBlock
    LocksProtect EightDashes ParentsOutliveChildren NothingLeftBehind
    ClientsDoNotEndIt NoLineWaits
PROPERTIES EveryoneGoesOn
