---- MODULE Threads ----
(***************************************************************************)
(* Three thread programs of lessons_os/: thread.c (counters that main sums  *)
(* up), deadlock.c (two mutexes taken in opposite orders, by trylock) and   *)
(* rwrite.c (readers and writers of one lock, by try calls).  at is the     *)
(* call a thread is at; sleeping is no step.                                *)
(***************************************************************************)
EXTENDS Integers, FiniteSetsExt

CONSTANTS
    MAX_THREAD,     \* threads of thread.c
    READER_MAX,     \* readers and
    WRITER_MAX,     \* writers of rwrite.c
    LOOP_TIMES,     \* rounds of deadlock.c
    Modulus         \* bound: where an unsigned long long wraps, 2^64 in thread.c

Program == {"thread", "deadlock", "rwrite"}

Main == 0
Worker == 1 .. Max({1, MAX_THREAD, READER_MAX + WRITER_MAX})
Thread == {Main} \cup Worker
Nobody == -1
Mutex == {"mutex", "mutex1", "mutex2"}

VARIABLES
    program,        \* the program that runs
    at,             \* the call a thread is at; "over" when it has ended
    owner,          \* the thread that locked each mutex
    readers,        \* threads that hold rw_lock to read
    writers,        \* threads that hold rw_lock to write
    round,          \* i of main and of thread_worker
    counter,
    main_counter,
    sum             \* what main has summed up

vars == <<program, at, owner, readers, writers, round, counter, main_counter,
          sum>>
rwlock == <<readers, writers>>
counters == <<counter, main_counter, sum>>

Counts == 0 .. Modulus - 1
Plus(m, n) == (m + n) % Modulus

\* How many threads main creates, and where it and they go.
Created ==
    CASE program = "thread" -> MAX_THREAD
      [] program = "deadlock" -> 1
      [] program = "rwrite" -> READER_MAX + WRITER_MAX
      [] OTHER -> 0

Begins == CASE program = "thread" -> "lock"
            [] program = "deadlock" -> "first"
            [] OTHER -> "try"

TypeOK ==
    /\ at \in [Thread -> {"absent", "create", "lock", "count", "total", "sum",
                          "unlock", "key", "first", "second", "section",
                          "unlock2", "unlock1", "try", "use", "sleep", "over"}]
    /\ owner \in [Mutex -> Thread \cup {Nobody}]
    /\ readers \subseteq Worker /\ writers \subseteq Worker
    /\ round \in [Thread -> Nat]
    /\ counter \in [Worker -> Counts]
    /\ main_counter \in Counts /\ sum \in Counts

Start ==
    /\ at = [t \in Thread |->
               IF t = Main /\ program \in Program THEN "create" ELSE "absent"]
    /\ owner = [m \in Mutex |-> Nobody]
    /\ readers = {} /\ writers = {}
    /\ round = [t \in Thread |-> 0]
    /\ counter = [t \in Worker |-> 0]
    /\ main_counter = 0 /\ sum = 0

Init == program \in Program /\ Start

Goto(t, place) == at' = [at EXCEPT ![t] = place]

\* main returns: the process ends with all its threads.
MainReturns == at' = [t \in Thread |-> "over"]

----------------------------------------------------------------------------
(* main creates the threads; only deadlock.c looks at the result.          *)

Create ==
    LET t == round[Main] + 1 IN
    /\ at[Main] = "create" /\ t <= Created
    /\ \/ Goto(t, Begins) /\ round' = [round EXCEPT ![Main] = t]
       \/ program = "deadlock" /\ MainReturns /\ UNCHANGED round
       \/ /\ program # "deadlock"
          /\ round' = [round EXCEPT ![Main] = t] /\ UNCHANGED at
    /\ UNCHANGED <<program, owner, rwlock, counters>>

AllCreated ==
    /\ at[Main] = "create" /\ round[Main] = Created
    /\ Goto(Main, IF program = "rwrite" THEN "sleep" ELSE Begins)
    /\ round' = [round EXCEPT ![Main] = 0]
    /\ UNCHANGED <<program, owner, rwlock, counters>>

----------------------------------------------------------------------------
(* thread.c                                                                *)

\* Mutant of Lock: main sums up without the mutex.
LockWorkersOnly(t) ==
    /\ at[t] = "lock" /\ (t = Main \/ owner["mutex"] = Nobody)
    /\ owner' = [owner EXCEPT !["mutex"] = t]
    /\ Goto(t, IF t = Main THEN "sum" ELSE "count")
    /\ sum' = IF t = Main THEN 0 ELSE sum
    /\ UNCHANGED <<program, rwlock, round, counter, main_counter>>

Lock(t) ==
    /\ at[t] = "lock" /\ owner["mutex"] = Nobody
    /\ owner' = [owner EXCEPT !["mutex"] = t]
    /\ Goto(t, IF t = Main THEN "sum" ELSE "count")
    /\ sum' = IF t = Main THEN 0 ELSE sum
    /\ UNCHANGED <<program, rwlock, round, counter, main_counter>>

Count(t) ==
    /\ at[t] = "count"
    /\ counter' = [counter EXCEPT ![t] = Plus(@, 1)]
    /\ Goto(t, "total")
    /\ UNCHANGED <<program, owner, rwlock, round, main_counter, sum>>

Total(t) ==
    /\ at[t] = "total"
    /\ main_counter' = Plus(main_counter, 1)
    /\ Goto(t, "unlock")
    /\ UNCHANGED <<program, owner, rwlock, round, counter, sum>>

Sum ==
    /\ at[Main] = "sum"
    /\ LET t == round[Main] + 1
       IN  IF t <= MAX_THREAD
           THEN /\ sum' = Plus(sum, counter[t])
                /\ round' = [round EXCEPT ![Main] = t] /\ UNCHANGED at
           ELSE /\ round' = [round EXCEPT ![Main] = 0]
                /\ Goto(Main, "unlock") /\ UNCHANGED sum
    /\ UNCHANGED <<program, owner, rwlock, counter, main_counter>>

Unlock(t) ==
    /\ at[t] = "unlock"
    /\ owner' = [owner EXCEPT !["mutex"] = Nobody]
    /\ Goto(t, IF t = Main THEN "key" ELSE "lock")
    /\ UNCHANGED <<program, rwlock, round, counters>>

\* q ends the program, also while a worker holds the mutex.
Key ==
    /\ at[Main] = "key"
    /\ MainReturns \/ Goto(Main, "lock")
    /\ UNCHANGED <<program, owner, rwlock, round, counters>>

----------------------------------------------------------------------------
(* deadlock.c: nobody looks at the result of a trylock, and an unlock frees *)
(* a mutex whoever has locked it.                                           *)

FirstMutex(t) == IF t = Main THEN "mutex1" ELSE "mutex2"
SecondMutex(t) == IF t = Main THEN "mutex2" ELSE "mutex1"

\* Mutant of Trylock: it waits, as pthread_mutex_lock does.
Wait(t, m) == owner[m] = Nobody /\ owner' = [owner EXCEPT ![m] = t]

Trylock(t, m) == owner' = IF owner[m] = Nobody THEN [owner EXCEPT ![m] = t]
                                               ELSE owner

Take(t) ==
    /\ \/ at[t] = "first" /\ Trylock(t, FirstMutex(t)) /\ Goto(t, "second")
       \/ at[t] = "second" /\ Trylock(t, SecondMutex(t)) /\ Goto(t, "section")
    /\ UNCHANGED <<program, rwlock, round, counters>>

Section(t) ==
    /\ at[t] = "section"
    /\ Goto(t, "unlock2")
    /\ UNCHANGED <<program, owner, rwlock, round, counters>>

Release(t) ==
    /\ \/ /\ at[t] = "unlock2" /\ Goto(t, "unlock1")
          /\ owner' = [owner EXCEPT !["mutex2"] = Nobody]
          /\ UNCHANGED round
       \/ /\ at[t] = "unlock1"
          /\ owner' = [owner EXCEPT !["mutex1"] = Nobody]
          /\ round' = [round EXCEPT ![t] = @ + 1]
          /\ \/ round'[t] < LOOP_TIMES /\ Goto(t, "first")
             \/ round'[t] = LOOP_TIMES /\ t # Main /\ Goto(t, "over")
             \/ round'[t] = LOOP_TIMES /\ t = Main /\ MainReturns
    /\ UNCHANGED <<program, rwlock, counters>>

----------------------------------------------------------------------------
(* rwrite.c: threads 1 .. READER_MAX read.  A try that fails changes        *)
(* nothing: the thread sleeps and tries again.                              *)

TryRead(t) ==
    /\ at[t] = "try" /\ t <= READER_MAX
    /\ writers = {}
    /\ readers' = readers \cup {t} /\ UNCHANGED writers
    /\ Goto(t, "use")
    /\ UNCHANGED <<program, owner, round, counters>>

\* Mutant of TryWrite: the writer locks with tryrdlock.
TryWriteAsReader(t) ==
    /\ at[t] = "try" /\ t > READER_MAX
    /\ writers = {}
    /\ writers' = writers \cup {t} /\ UNCHANGED readers
    /\ Goto(t, "use")
    /\ UNCHANGED <<program, owner, round, counters>>

TryWrite(t) ==
    /\ at[t] = "try" /\ t > READER_MAX
    /\ writers = {} /\ readers = {}
    /\ writers' = writers \cup {t} /\ UNCHANGED readers
    /\ Goto(t, "use")
    /\ UNCHANGED <<program, owner, round, counters>>

UseEnds(t) ==
    /\ at[t] = "use"
    /\ readers' = readers \ {t} /\ writers' = writers \ {t}
    /\ Goto(t, "try")
    /\ UNCHANGED <<program, owner, round, counters>>

\* sleep(10) is over: main returns, whatever the threads are doing.
SleepEnds ==
    /\ at[Main] = "sleep" /\ MainReturns
    /\ UNCHANGED <<program, owner, rwlock, round, counters>>

----------------------------------------------------------------------------
Step(t) ==
    \/ t = Main /\ (Create \/ AllCreated \/ Sum \/ SleepEnds)
    \/ Lock(t) \/ Count(t) \/ Total(t) \/ Unlock(t)
    \/ Take(t) \/ Section(t) \/ Release(t)
    \/ TryRead(t) \/ TryWrite(t) \/ UseEnds(t)

Next == Key \/ \E t \in Thread : Step(t)

\* A thread that can go on does; nobody has to press a key.
Fairness == \A t \in Thread : WF_vars(Step(t))

Spec == Init /\ [][Next]_vars /\ Fairness

----------------------------------------------------------------------------
(* Properties                                                              *)

\* What the locks are for: what main prints in one go belongs together (the
\* counters add up to main_counter, wrapped or not), and who writes is alone.
LocksProtect ==
    /\ at[Main] = "unlock" => sum = main_counter
    /\ \A t \in writers : readers = {} /\ writers = {t}

\* deadlock.c takes its mutexes in opposite orders and yet ends, however the
\* two threads interleave.
OppositeOrdersEnd == program = "deadlock" ~> at[Main] = "over"

====
