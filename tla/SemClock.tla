---- MODULE SemClock ----
(***************************************************************************)
(* IPC/p_semaphores.c: a server writes the time into shared memory, clients*)
(* print it, under a set of two System V semaphores (0 counts readers, 1   *)
(* counts writers).  The segment and the set are found by a key; each      *)
(* creation is a new generation, 0 stands for no object.                   *)
(*                                                                         *)
(* `disturbed` is history: a semaphore was reset or removed while somebody *)
(* counted on it, or a writer died inside strcpy.                          *)
(***************************************************************************)
EXTENDS Integers, FiniteSets

CONSTANTS
    Server, Client,  \* processes that run the first and the second main
    ITERATIONS,      \* 60: how often a server writes the time
    MaxDeaths        \* bound: processes killed

ASSUME ConstantsAssumption ==
    /\ Server \cap Client = {}
    /\ IsFiniteSet(Server) /\ IsFiniteSet(Client)
    /\ ITERATIONS \in Nat
    /\ MaxDeaths \in Nat

Process == Server \cup Client

\* The semaphore a process raises while it holds the lock; it waits for the
\* other one to be zero.
Own(p) == IF p \in Client THEN 0 ELSE 1
Other(p) == 1 - Own(p)

VARIABLES
    pc,
    seg,         \* the segment under the key
    segs,        \* segments created so far
    text,        \* text[g]: "empty", "torn" (half written) or "time"
    semset,      \* the semaphore set under the key
    sems,        \* sets created so far
    val,         \* values of the two semaphores of that set
    mySeg,       \* the segment a process has attached (0 once it has ended)
    mySem,       \* the set it got from semget (0 once it has ended)
    undo,        \* what the kernel adds to semaphore Own(p) when p ends
    n,           \* times a server has written
    irq,         \* how far a process is in cleanup: "no", "shm" or "sem"
    deaths,
    disturbed

memory == <<seg, segs, text>>
semaphores == <<semset, sems, val>>
mine == <<mySeg, mySem>>
history == <<deaths, disturbed>>
vars == <<pc, memory, semaphores, mine, undo, n, irq, history>>

\* Where a process is after each of its calls; "in" the lock a server tears
\* the old text and finishes the new one, a client prints.
State == {"start", "attached", "created", "zeroed", "idle", "in", "tearing", "done",
          "leaving", "exited"}

TypeOK ==
    /\ pc \in [Process -> State]
    /\ segs \in Nat /\ seg \in 0 .. segs
    /\ sems \in Nat /\ semset \in 0 .. sems
    /\ text \in [1 .. segs -> {"empty", "torn", "time"}]
    /\ val \in [0 .. 1 -> Nat]
    /\ mySeg \in [Process -> 0 .. segs]
    /\ mySem \in [Process -> 0 .. sems]
    /\ undo \in [Process -> {-1, 0, 1}]
    /\ n \in [Server -> 0 .. ITERATIONS]
    /\ irq \in [Process -> {"no", "shm", "sem"}]
    /\ deaths \in 0 .. MaxDeaths
    /\ disturbed \in BOOLEAN

Init ==
    /\ pc = [p \in Process |-> "start"]
    /\ seg = 0 /\ segs = 0 /\ text = [g \in 1 .. segs |-> "empty"]
    /\ semset = 0 /\ sems = 0 /\ val = [k \in 0 .. 1 |-> 0]
    /\ mySeg = [p \in Process |-> 0]
    /\ mySem = [p \in Process |-> 0]
    /\ undo = [p \in Process |-> 0]
    /\ n = [s \in Server |-> 0]
    /\ irq = [p \in Process |-> "no"]
    /\ deaths = 0
    /\ disturbed = FALSE

----------------------------------------------------------------------------
(* The kernel                                                              *)

\* The set a process got from semget still exists.
Valid(p) == mySem[p] # 0 /\ mySem[p] = semset

\* A process that has counted itself in and not out again.
Holds(p) == pc[p] \in {"in", "tearing", "done"}

Holders == {p \in Process : Holds(p) /\ Valid(p)}

\* A removed segment is freed with the last process that has it attached.
Freed(key, attached) ==
    [g \in DOMAIN text |->
        IF g = key \/ \E p \in Process : attached[p] = g THEN text[g] ELSE "empty"]

\* SEM_UNDO: what a process has not taken back is taken back when it ends.
Undone(p) ==
    IF Valid(p)
    THEN [val EXCEPT ![Own(p)] = IF @ + undo[p] < 0 THEN 0 ELSE @ + undo[p]]
    ELSE val

\* The end of a process, by exit or by a signal.
Ends(p) ==
    /\ pc' = [pc EXCEPT ![p] = "exited"]
    /\ irq' = [irq EXCEPT ![p] = "no"]
    /\ val' = Undone(p)
    /\ undo' = [undo EXCEPT ![p] = 0]
    /\ mySeg' = [mySeg EXCEPT ![p] = 0]
    /\ mySem' = [mySem EXCEPT ![p] = 0]
    /\ text' = Freed(seg, mySeg')
    /\ n' = [s \in Server |-> IF s = p THEN 0 ELSE n[s]]
    /\ UNCHANGED <<seg, segs, semset, sems>>

Goes(p, from, to) ==
    /\ pc[p] = from
    /\ irq[p] = "no"
    /\ pc' = [pc EXCEPT ![p] = to]

----------------------------------------------------------------------------
(* Both programs                                                           *)

\* shmget(IPC_CREAT) finds or makes the segment, shmat attaches it.  A process
\* for which one of them fails (oops 1 and 2) leaves nothing behind: it is one
\* that was never started.
Attach(p) ==
    /\ Goes(p, "start", "attached")
    /\ IF seg = 0
       THEN /\ seg' = segs + 1
            /\ segs' = segs + 1
            /\ text' = [g \in 1 .. segs + 1 |-> IF g <= segs THEN text[g] ELSE "empty"]
       ELSE UNCHANGED memory
    /\ mySeg' = [mySeg EXCEPT ![p] = seg']
    /\ UNCHANGED <<semaphores, mySem, undo, n, irq, history>>

\* Mutant of Lock: a process waits for its own semaphore to be zero.
LockOwn(p, from) ==
    /\ Goes(p, from, "in")
    /\ Valid(p)
    /\ val[Own(p)] = 0
    /\ val' = [val EXCEPT ![Own(p)] = @ + 1]
    /\ undo' = [undo EXCEPT ![p] = @ - 1]
    /\ UNCHANGED <<memory, semset, sems, mine, n, irq, history>>

\* Mutant of Lock: the operations are not marked SEM_UNDO.
LockNoUndo(p, from) ==
    /\ Goes(p, from, "in")
    /\ Valid(p)
    /\ val[Other(p)] = 0
    /\ val' = [val EXCEPT ![Own(p)] = @ + 1]
    /\ UNCHANGED <<memory, semset, sems, mine, undo, n, irq, history>>

\* wait_and_lock: the two operations of the set are done together or not at all.
Lock(p, from) ==
    /\ Goes(p, from, "in")
    /\ Valid(p)
    /\ val[Other(p)] = 0
    /\ val' = [val EXCEPT ![Own(p)] = @ + 1]
    /\ undo' = [undo EXCEPT ![p] = @ - 1]
    /\ UNCHANGED <<memory, semset, sems, mine, n, irq, history>>

\* Mutant of Release: the unlock is not marked SEM_UNDO.
ReleaseNoUndo(p, to) ==
    /\ Goes(p, "done", to)
    /\ Valid(p)
    /\ val[Own(p)] >= 1
    /\ val' = [val EXCEPT ![Own(p)] = @ - 1]
    /\ UNCHANGED <<memory, semset, sems, mine, undo, irq, history>>

\* release_lock: it blocks while the semaphore is zero.
Release(p, to) ==
    /\ Goes(p, "done", to)
    /\ Valid(p)
    /\ val[Own(p)] >= 1
    /\ val' = [val EXCEPT ![Own(p)] = @ - 1]
    /\ undo' = [undo EXCEPT ![p] = @ + 1]
    /\ UNCHANGED <<memory, semset, sems, mine, irq, history>>

\* semop on a set that was removed, or never found, fails (oops 10).
SemopFails(p, from) ==
    /\ pc[p] = from
    /\ irq[p] = "no"
    /\ ~Valid(p)
    /\ Ends(p)
    /\ UNCHANGED history

\* A process is killed, wherever it is.
Die(p) ==
    /\ pc[p] \notin {"start", "exited"}
    /\ deaths < MaxDeaths
    /\ deaths' = deaths + 1
    /\ disturbed' = (disturbed \/ pc[p] = "tearing")
    /\ Ends(p)

----------------------------------------------------------------------------
(* The server                                                              *)

\* semget(IPC_CREAT|IPC_EXCL) makes a set; Linux sets new semaphores to zero.
Create(s) ==
    /\ Goes(s, "attached", "created")
    /\ semset = 0
    /\ sems' = sems + 1
    /\ semset' = sems + 1
    /\ val' = [k \in 0 .. 1 |-> 0]
    /\ mySem' = [mySem EXCEPT ![s] = semset']
    /\ UNCHANGED <<memory, mySeg, undo, n, irq, history>>

\* Mutant of CreateFails: the flag IPC_EXCL is missing.
CreateShared(s) ==
    /\ Goes(s, "attached", "created")
    /\ semset # 0
    /\ mySem' = [mySem EXCEPT ![s] = semset]
    /\ UNCHANGED <<memory, semaphores, mySeg, undo, n, irq, history>>

\* The set exists already: oops 3.
CreateFails(s) ==
    /\ pc[s] = "attached" /\ semset # 0
    /\ Ends(s)
    /\ UNCHANGED history

\* set_sem_value: SETVAL also clears what the kernel would undo.
SetZero(s, from, k, to) ==
    /\ Goes(s, from, to)
    /\ Valid(s)
    /\ val' = [val EXCEPT ![k] = 0]
    /\ undo' = [p \in Process |-> IF Own(p) = k /\ Valid(p) THEN 0 ELSE undo[p]]
    /\ disturbed' = (disturbed \/ val[k] # 0)
    /\ UNCHANGED <<memory, semset, sems, mine, n, irq, deaths>>

SetFirst(s) == SetZero(s, "created", 0, "zeroed")
SetSecond(s) == SetZero(s, "zeroed", 1, "idle")

\* Mutant of ServerLock: the loop runs once more.
ServerLockOnceMore(s) == n[s] <= ITERATIONS /\ Lock(s, "idle")

ServerLock(s) == n[s] < ITERATIONS /\ Lock(s, "idle")

\* strcpy overwrites the old text ...
Tear(s) ==
    /\ Goes(s, "in", "tearing")
    /\ text' = [text EXCEPT ![mySeg[s]] = "torn"]
    /\ UNCHANGED <<seg, segs, semaphores, mine, undo, n, irq, history>>

\* ... and ends with the new one.
Finish(s) ==
    /\ Goes(s, "tearing", "done")
    /\ text' = [text EXCEPT ![mySeg[s]] = "time"]
    /\ UNCHANGED <<seg, segs, semaphores, mine, undo, n, irq, history>>

ServerRelease(s) ==
    /\ Release(s, "idle")
    /\ n' = [n EXCEPT ![s] = @ + 1]

\* SIGINT runs cleanup and returns to where the server was; the call of
\* cleanup(0) after the loop runs it too, and then the server ends.
Interrupt(s) ==
    /\ pc[s] \in {"idle", "in", "tearing", "done"}
    /\ irq[s] = "no"
    /\ Valid(s)
    /\ irq' = [irq EXCEPT ![s] = "shm"]
    /\ UNCHANGED <<pc, memory, semaphores, mine, undo, n, history>>

LoopEnds(s) ==
    /\ Goes(s, "idle", "leaving")
    /\ n[s] = ITERATIONS
    /\ irq' = [irq EXCEPT ![s] = "shm"]
    /\ UNCHANGED <<memory, semaphores, mine, undo, n, history>>

\* shmctl(IPC_RMID): the key is free, attached processes keep the segment.
RemoveSegment(s) ==
    /\ irq[s] = "shm"
    /\ irq' = [irq EXCEPT ![s] = "sem"]
    /\ seg' = IF seg = mySeg[s] THEN 0 ELSE seg
    /\ text' = Freed(seg', mySeg)
    /\ UNCHANGED <<pc, segs, semaphores, mine, undo, n, history>>

\* semctl(IPC_RMID): the set is gone for all processes.
RemoveSemaphores(s) ==
    /\ irq[s] = "sem"
    /\ irq' = [irq EXCEPT ![s] = "no"]
    /\ semset' = IF Valid(s) THEN 0 ELSE semset
    /\ disturbed' = (disturbed \/ (Valid(s) /\ Holders # {}))
    /\ UNCHANGED <<pc, memory, sems, val, mine, undo, n, deaths>>

Leave(s) ==
    /\ pc[s] = "leaving" /\ irq[s] = "no"
    /\ Ends(s)
    /\ UNCHANGED history

ServerStep(s) ==
    \/ Attach(s) \/ Create(s) \/ CreateFails(s)
    \/ SetFirst(s) \/ SetSecond(s)
    \/ ServerLock(s) \/ Tear(s) \/ Finish(s) \/ ServerRelease(s)
    \/ (n[s] < ITERATIONS /\ SemopFails(s, "idle")) \/ SemopFails(s, "done")
    \/ LoopEnds(s) \/ RemoveSegment(s) \/ RemoveSemaphores(s) \/ Leave(s)

----------------------------------------------------------------------------
(* The client                                                              *)

\* semget without IPC_CREAT; -1 is not noticed before semop.
Find(c) ==
    /\ Goes(c, "attached", "idle")
    /\ mySem' = [mySem EXCEPT ![c] = semset]
    /\ UNCHANGED <<memory, semaphores, mySeg, undo, n, irq, history>>

Display(c) ==
    /\ Goes(c, "in", "done")
    /\ UNCHANGED <<memory, semaphores, mine, undo, n, irq, history>>

ClientRelease(c) == Release(c, "leaving") /\ UNCHANGED n

ClientStep(c) ==
    \/ Attach(c) \/ Find(c)
    \/ Lock(c, "idle") \/ SemopFails(c, "idle")
    \/ Display(c) \/ ClientRelease(c) \/ SemopFails(c, "done") \/ Leave(c)

Next ==
    \/ \E s \in Server : ServerStep(s) \/ Interrupt(s)
    \/ \E c \in Client : ClientStep(c)
    \/ \E p \in Process : Die(p)

Spec == Init /\ [][Next]_vars

----------------------------------------------------------------------------
(* Properties                                                              *)

\* The kernel's counters are the processes inside: nobody is counted twice or
\* forgotten, whoever is killed where, as long as SETVAL and IPC_RMID did not
\* come in between.
SemaphoresCountHolders ==
    ~disturbed /\ semset # 0 =>
        \A k \in 0 .. 1 : val[k] = Cardinality({p \in Holders : Own(p) = k})

\* A writer and a reader, or two writers, never hold one set together.
Exclusive ==
    \A s \in Server \cap Holders : \A p \in Holders : p = s

\* "The semaphores coordinate the race" (line 10; p_shm.c lines 8-9 says they
\* avoid it): a reader and the writer are never inside at the same time.
ReadersExcludeWriters == deaths = 0 => Exclusive

\* The same, unless the set was reset or removed while it was in use.
ExclusiveUnlessDisturbed == ~disturbed => Exclusive

\* A client prints neither a half-written text nor one being overwritten,
\* unless one of three things happened: set_sem_value came after a client's
\* lock, cleanup removed a set in use, or a writer was killed inside strcpy.
CleanRead ==
    ~disturbed =>
        \A c \in Client : pc[c] = "in" =>
            /\ text[mySeg[c]] # "torn"
            /\ \A s \in Server : pc[s] = "tearing" => mySeg[s] # mySeg[c]

\* IPC_EXCL admits one writer to a set, also when servers come and go.
OneWriter ==
    \A s, t \in Server : Valid(s) /\ Valid(t) /\ pc[s] # "exited" /\ pc[t] # "exited" => s = t

\* Nobody waits for ever: as long as a started process has not ended, some
\* started process can go on, unless a client was counted out by set_sem_value
\* and blocks in its own release_lock.  (No process repeats a step without
\* limit, so that this is also the termination of every fair run.)
SomebodyCanGoOn ==
    ~disturbed /\ (\E p \in Process : pc[p] \notin {"start", "exited"}) =>
        \/ \E s \in Server : pc[s] # "start" /\ ENABLED ServerStep(s)
        \/ \E c \in Client : pc[c] # "start" /\ ENABLED ClientStep(c)
====
