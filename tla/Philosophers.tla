---- MODULE Philosophers ----
(***************************************************************************)
(* lessons_os/phoilstick.c: five philosopher threads and five mutexes.     *)
(* main runs MAX rounds of thread_create() and thread_wait().              *)
(*                                                                         *)
(* A thread is one of Aname .. Ename, numbered 0 .. N-1 as in GpThread; a  *)
(* chopstick is the index of its mutex.  The code is written for N = 5 and *)
(* MAX = 5; the module takes both as parameters (N and ROUNDS).            *)
(***************************************************************************)
EXTENDS Integers

CONSTANTS N,        \* number of threads and of mutexes (five in the code)
          ROUNDS    \* MAX, the number of times main lays the table

ASSUME NAssumption == N \in Nat /\ N >= 2
ASSUME RoundsAssumption == ROUNDS \in Nat

Philosopher == 0 .. N - 1
Chopstick == 0 .. N - 1
Nobody == N                      \* owner of a free mutex

\* The chopstick flags are never written: the assignments are commented out.
UNUSED == 0
GnChopstick == [c \in Chopstick |-> UNUSED]

\* The mutexes a thread locks, in the order of its two lock calls.
First(p) == IF p = 0 THEN 0 ELSE N - p
Second(p) == N - 1 - p

\* The neighbour whose first mutex is p's second one.
Successor(p) == IF p = N - 1 THEN 0 ELSE p + 1

VARIABLES
    mutex,      \* mutex[c]: the thread that holds mutex c, or Nobody
    pc,         \* pc[p]: where thread p is
    GpThread,   \* "none" (zero), "live" (an unjoined thread), "stale" (no thread)
    mainPc,     \* where main is: in thread_create, thread_wait, or ended
    i,          \* the index main works on
    round       \* completed rounds

vars == <<mutex, pc, GpThread, mainPc, i, round>>

ThreadState == {"absent", "hungry", "holding", "eating", "leaving", "exited"}

TypeOK ==
    /\ mutex \in [Chopstick -> Philosopher \cup {Nobody}]
    /\ pc \in [Philosopher -> ThreadState]
    /\ GpThread \in [Philosopher -> {"none", "live", "stale"}]
    /\ mainPc \in {"create", "wait", "done", "crashed"}
    /\ i \in 0 .. N - 1
    /\ round \in 0 .. ROUNDS

Init ==
    /\ mutex = [c \in Chopstick |-> Nobody]
    /\ pc = [p \in Philosopher |-> "absent"]
    /\ GpThread = [p \in Philosopher |-> "none"]
    /\ mainPc = IF ROUNDS = 0 THEN "done" ELSE "create"
    /\ i = 0
    /\ round = 0

----------------------------------------------------------------------------
(* The philosopher threads                                                 *)

MainUnchanged == UNCHANGED <<GpThread, mainPc, i, round>>

Running == mainPc \in {"create", "wait"}

\* The flag test of lines 82, 104, ... passes because no flag is ever set.
LockFirst(p) ==
    /\ Running
    /\ pc[p] = "hungry"
    /\ GnChopstick[First(p)] = UNUSED /\ GnChopstick[Second(p)] = UNUSED
    /\ mutex[First(p)] = Nobody
    /\ mutex' = [mutex EXCEPT ![First(p)] = p]
    /\ pc' = [pc EXCEPT ![p] = "holding"]
    /\ MainUnchanged

\* Mutant of LockSecond: the result of a trylock is ignored.
LockSecondUnguarded(p) ==
    /\ Running
    /\ pc[p] = "holding"
    /\ mutex' = [mutex EXCEPT ![Second(p)] = p]
    /\ pc' = [pc EXCEPT ![p] = "eating"]
    /\ MainUnchanged

LockSecond(p) ==
    /\ Running
    /\ pc[p] = "holding"
    /\ mutex[Second(p)] = Nobody
    /\ mutex' = [mutex EXCEPT ![Second(p)] = p]
    /\ pc' = [pc EXCEPT ![p] = "eating"]
    /\ MainUnchanged

\* Mutant of UnlockFirst: the thread ends without its unlock calls.
ExitHolding(p) ==
    /\ Running
    /\ pc[p] = "eating"
    /\ pc' = [pc EXCEPT ![p] = "exited"]
    /\ UNCHANGED mutex
    /\ MainUnchanged

UnlockFirst(p) ==
    /\ Running
    /\ pc[p] = "eating"
    /\ mutex' = [mutex EXCEPT ![First(p)] = Nobody]
    /\ pc' = [pc EXCEPT ![p] = "leaving"]
    /\ MainUnchanged

\* Mutant of UnlockSecond: the first mutex is unlocked twice.
UnlockFirstAgain(p) ==
    /\ Running
    /\ pc[p] = "leaving"
    /\ mutex' = [mutex EXCEPT ![First(p)] = Nobody]
    /\ pc' = [pc EXCEPT ![p] = "exited"]
    /\ MainUnchanged

UnlockSecond(p) ==
    /\ Running
    /\ pc[p] = "leaving"
    /\ mutex' = [mutex EXCEPT ![Second(p)] = Nobody]
    /\ pc' = [pc EXCEPT ![p] = "exited"]
    /\ MainUnchanged

Thread(p) == LockFirst(p) \/ LockSecond(p) \/ UnlockFirst(p) \/ UnlockSecond(p)

----------------------------------------------------------------------------
(* main                                                                    *)

\* Mutant of CreateThread: the loop runs one index too far.
CreateThreadTooFar ==
    /\ mainPc = "create"
    /\ pc' = [pc EXCEPT ![i] = "hungry"]
    /\ GpThread' = [GpThread EXCEPT ![i] = "live"]
    /\ i' = IF i = N THEN 0 ELSE i + 1
    /\ mainPc' = IF i = N THEN "wait" ELSE "create"
    /\ UNCHANGED <<mutex, round>>

\* pthread_create succeeds: the next index, or thread_wait after the last.
CreateThread ==
    /\ mainPc = "create"
    /\ pc' = [pc EXCEPT ![i] = "hungry"]
    /\ GpThread' = [GpThread EXCEPT ![i] = "live"]
    /\ i' = IF i = N - 1 THEN 0 ELSE i + 1
    /\ mainPc' = IF i = N - 1 THEN "wait" ELSE "create"
    /\ UNCHANGED <<mutex, round>>

\* pthread_create fails: thread_create returns -1, which main ignores, and the
\* content of GpThread[i] is undefined (left alone, or the id of no thread).
CreateFails ==
    /\ mainPc = "create"
    /\ \E id \in {GpThread[i], "stale"} : GpThread' = [GpThread EXCEPT ![i] = id]
    /\ i' = 0
    /\ mainPc' = "wait"
    /\ UNCHANGED <<mutex, pc, round>>

\* After one index of thread_wait: the next one, the next round, or the end.
NextJoin ==
    IF i < N - 1
    THEN /\ i' = i + 1
         /\ UNCHANGED <<mainPc, round>>
    ELSE /\ i' = 0
         /\ round' = round + 1
         /\ mainPc' = IF round + 1 = ROUNDS THEN "done" ELSE "create"

\* Mutant of JoinLive: the join does not wait for the thread.
JoinLiveEarly ==
    /\ mainPc = "wait"
    /\ GpThread[i] = "live"
    /\ GpThread' = [GpThread EXCEPT ![i] = "stale"]
    /\ NextJoin
    /\ UNCHANGED <<mutex, pc>>

\* pthread_join of a running thread waits for its exit; the id stays in
\* GpThread but names no thread afterwards.
JoinLive ==
    /\ mainPc = "wait"
    /\ GpThread[i] = "live"
    /\ pc[i] = "exited"
    /\ GpThread' = [GpThread EXCEPT ![i] = "stale"]
    /\ NextJoin
    /\ UNCHANGED <<mutex, pc>>

\* A zero entry is skipped.
SkipJoin ==
    /\ mainPc = "wait"
    /\ GpThread[i] = "none"
    /\ NextJoin
    /\ UNCHANGED <<mutex, pc, GpThread>>

\* Joining an id that names no thread is undefined: the call returns ESRCH ...
JoinStale ==
    /\ mainPc = "wait"
    /\ GpThread[i] = "stale"
    /\ NextJoin
    /\ UNCHANGED <<mutex, pc, GpThread>>

\* ... or reads a freed thread descriptor and the process crashes.
JoinStaleCrashes ==
    /\ mainPc = "wait"
    /\ GpThread[i] = "stale"
    /\ mainPc' = "crashed"
    /\ UNCHANGED <<mutex, pc, GpThread, i, round>>

Main == CreateThread \/ CreateFails \/ JoinLive \/ SkipJoin \/ JoinStale \/ JoinStaleCrashes

Next == Main \/ \E p \in Philosopher : Thread(p)

\* The scheduler runs every runnable thread; a blocked lock needs no stronger
\* fairness because a thread takes each mutex once per round.
Fairness == WF_vars(Main) /\ \A p \in Philosopher : WF_vars(Thread(p))

Spec == Init /\ [][Next]_vars /\ Fairness

----------------------------------------------------------------------------
(* Properties                                                              *)

Alive(p) == pc[p] \notin {"absent", "exited"}

Eating(p) == pc[p] \in {"eating", "leaving"}

\* The threads that hold mutex c according to where they are in the code.
Holders(c) ==
    {p \in Philosopher :
        \/ First(p) = c /\ pc[p] \in {"holding", "eating"}
        \/ Second(p) = c /\ Eating(p)}

\* The owner the mutex records is the one thread between lock and unlock of
\* it, and no thread still holds a mutex when it exits (lines 84-95).
MutexOwnership ==
    \A c \in Chopstick :
        Holders(c) = IF mutex[c] = Nobody THEN {} ELSE {mutex[c]}

\* A thread never eats with a chopstick its neighbour has not put down yet,
\* although the flags that were meant to say so (lines 87-92) are never set.
NeighboursExclusive ==
    \A p \in Philosopher : ~(Eating(p) /\ pc[Successor(p)] = "eating")

\* All N threads hold their first mutex and want the next one's.
Circle == \A p \in Philosopher : pc[p] = "holding"

CanStep(p) ==
    \/ pc[p] = "hungry" /\ mutex[First(p)] = Nobody
    \/ pc[p] = "holding" /\ mutex[Second(p)] = Nobody
    \/ Eating(p)

\* The lock order of lines 84-85, 106-107, ... blocks in one way only: while a
\* thread is alive, some thread can move, unless all N are in the circle.
OnlyTheCircleBlocks ==
    (\E p \in Philosopher : Alive(p)) => Circle \/ \E p \in Philosopher : CanStep(p)

\* thread_wait keeps the rounds apart even when pthread_create failed and it
\* joins ids of an earlier round: a thread id that names no thread is never
\* that of a running one, so nothing runs when the next round starts, when a
\* stale id is joined and when main returns.
RoundsDoNotOverlap ==
    /\ \A p \in Philosopher : Alive(p) => GpThread[p] = "live"
    /\ mainPc = "create" => \A p \in Philosopher : p >= i => ~Alive(p)
    /\ mainPc = "wait" /\ GpThread[i] # "live" => \A p \in Philosopher : ~Alive(p)
    /\ mainPc \in {"done", "crashed"} => \A p \in Philosopher : ~Alive(p)

\* main ends (or crashes on a stale id) unless the circle closes, and the
\* circle is the only way not to end: the sleep of line 90 does not prevent it.
EndsOrCircle == <>[](mainPc \in {"done", "crashed"} \/ Circle)
====
