---- MODULE Mailbox ----
(***************************************************************************)
(* lessons_os/thread_cond.c: two threads count the words of one file each  *)
(* and hand the result to main through the one-place mailbox, under the    *)
(* mutex lock and the condition variable flag that both directions share.  *)
(***************************************************************************)
EXTENDS Integers, Sequences, FiniteSets

CONSTANTS Texts,       \* contents a file can have: sequences of isalnum(c)
          Unreadable   \* a file that fopen does not open

ASSUME TextsAssumption == Texts \subseteq Seq(BOOLEAN)

Worker == {1, 2}       \* the threads t1 and t2 with args1 and args2
Main == 0
Nobody == 3            \* owner of the free lock
NULL == 0              \* the empty mailbox

VARIABLES
    file,        \* file[w]: what the file of worker w holds
    pos,         \* characters of it read so far
    count,       \* args1.count and args2.count
    lock,        \* the thread that owns the mutex, or Nobody
    waiting,     \* the threads blocked in pthread_cond_wait(&flag)
    mailbox,     \* NULL or the worker whose arg_set it points to
    mainPc,
    wpc,
    reports_in,
    total_words

shared == <<lock, waiting, mailbox>>
input == <<file, pos, count>>
vars == <<input, shared, mainPc, wpc, reports_in, total_words>>

MainState == {"start", "create1", "create2", "test", "wait", "collect", "join",
              "clear", "signal", "done"}
WorkerState == {"absent", "counting", "lock", "test", "wait", "store", "signal",
                "unlock", "returning", "exited"}

TypeOK ==
    /\ file \in [Worker -> Texts \cup {Unreadable}]
    /\ pos \in [Worker -> Nat]
    /\ count \in [Worker -> Nat]
    /\ lock \in Worker \cup {Main, Nobody}
    /\ waiting \subseteq Worker \cup {Main}
    /\ mailbox \in Worker \cup {NULL}
    /\ mainPc \in MainState
    /\ wpc \in [Worker -> WorkerState]
    /\ reports_in \in 0 .. 2
    /\ total_words \in Nat

Init ==
    /\ file \in [Worker -> Texts \cup {Unreadable}]
    /\ pos = [w \in Worker |-> 0]
    /\ count = [w \in Worker |-> 0]
    /\ lock = Nobody
    /\ waiting = {}
    /\ mailbox = NULL
    /\ mainPc = "start"
    /\ wpc = [w \in Worker |-> "absent"]
    /\ reports_in = 0
    /\ total_words = 0

----------------------------------------------------------------------------
(* The condition variable                                                  *)

\* pthread_cond_wait releases the lock and blocks in one step.
CondWait(t) == waiting' = waiting \cup {t} /\ lock' = Nobody

\* It returns with the lock, once a signal has removed t from the waiters.
CondReturn(t) == t \notin waiting /\ lock = Nobody /\ lock' = t

\* pthread_cond_signal wakes one waiter; without a waiter it is lost.
CondSignal ==
    IF waiting = {}
    THEN UNCHANGED waiting
    ELSE \E t \in waiting : waiting' = waiting \ {t}

----------------------------------------------------------------------------
(* main                                                                    *)

MainGoes(from, to) ==
    mainPc = from /\ mainPc' = to /\ UNCHANGED input

MainLock ==
    /\ MainGoes("start", "create1")
    /\ lock = Nobody /\ lock' = Main
    /\ UNCHANGED <<waiting, mailbox, wpc, reports_in, total_words>>

CreatePc(w) == IF w = 1 THEN "create1" ELSE "create2"

Create(w) ==
    /\ MainGoes(CreatePc(w), IF w = 1 THEN "create2" ELSE "test")
    /\ wpc' = [wpc EXCEPT ![w] = "counting"]
    /\ UNCHANGED <<shared, reports_in, total_words>>

\* The result of pthread_create is not looked at.
CreateFails(w) ==
    /\ MainGoes(CreatePc(w), IF w = 1 THEN "create2" ELSE "test")
    /\ UNCHANGED <<shared, wpc, reports_in, total_words>>

MainWait ==
    /\ MainGoes("test", "wait")
    /\ reports_in < 2
    /\ CondWait(Main)
    /\ UNCHANGED <<mailbox, wpc, reports_in, total_words>>

MainDone ==
    /\ MainGoes("test", "done")
    /\ reports_in = 2
    /\ UNCHANGED <<shared, wpc, reports_in, total_words>>

\* No condition is tested again after the wait (line 53).
MainWakes ==
    /\ MainGoes("wait", "collect")
    /\ CondReturn(Main)
    /\ UNCHANGED <<waiting, mailbox, wpc, reports_in, total_words>>

Collect ==
    /\ MainGoes("collect", "join")
    /\ mailbox # NULL
    /\ total_words' = total_words + count[mailbox]
    /\ UNCHANGED <<shared, wpc, reports_in>>

\* main joins the thread whose arg_set is in the mailbox, holding the lock.
Join ==
    /\ MainGoes("join", "clear")
    /\ wpc[mailbox] = "exited"
    /\ UNCHANGED <<shared, wpc, reports_in, total_words>>

\* Mutant of Clear: the mailbox keeps its old pointer.
ClearForgotten ==
    /\ MainGoes("clear", "signal")
    /\ UNCHANGED <<shared, wpc, reports_in, total_words>>

Clear ==
    /\ MainGoes("clear", "signal")
    /\ mailbox' = NULL
    /\ UNCHANGED <<lock, waiting, wpc, reports_in, total_words>>

\* Mutant of MainSignals: nobody is told that the mailbox is empty.
MainSignalsNobody ==
    /\ MainGoes("signal", "test")
    /\ reports_in' = reports_in + 1
    /\ UNCHANGED <<shared, wpc, total_words>>

MainSignals ==
    /\ MainGoes("signal", "test")
    /\ CondSignal
    /\ reports_in' = reports_in + 1
    /\ UNCHANGED <<lock, mailbox, wpc, total_words>>

MainStep ==
    \/ MainLock \/ (\E w \in Worker : Create(w) \/ CreateFails(w))
    \/ MainWait \/ MainWakes \/ Collect \/ Join \/ Clear \/ MainSignals \/ MainDone

----------------------------------------------------------------------------
(* count_words                                                             *)

WorkerGoes(w, from, to) ==
    /\ wpc[w] = from
    /\ wpc' = [wpc EXCEPT ![w] = to]
    /\ UNCHANGED <<mainPc, reports_in, total_words>>

\* prev starts as '\0'.
Prev(w) == IF pos[w] = 0 THEN FALSE ELSE file[w][pos[w]]

AtEnd(w) == IF file[w] = Unreadable THEN TRUE ELSE pos[w] = Len(file[w])

\* Mutant of ReadChar: the start of a word is counted, not its end.
ReadCharStart(w) ==
    /\ wpc[w] = "counting" /\ ~AtEnd(w)
    /\ pos' = [pos EXCEPT ![w] = @ + 1]
    /\ count' = [count EXCEPT ![w] =
                    IF file[w][pos[w] + 1] /\ ~Prev(w) THEN @ + 1 ELSE @]
    /\ UNCHANGED <<file, shared, mainPc, wpc, reports_in, total_words>>

ReadChar(w) ==
    /\ wpc[w] = "counting" /\ ~AtEnd(w)
    /\ pos' = [pos EXCEPT ![w] = @ + 1]
    /\ count' = [count EXCEPT ![w] =
                    IF ~file[w][pos[w] + 1] /\ Prev(w) THEN @ + 1 ELSE @]
    /\ UNCHANGED <<file, shared, mainPc, wpc, reports_in, total_words>>

\* Mutant of FileDone: a file that does not open is reported as -1 words.
FileDoneMinusOne(w) ==
    /\ WorkerGoes(w, "counting", "lock")
    /\ AtEnd(w)
    /\ count' = [count EXCEPT ![w] = IF file[w] = Unreadable THEN -1 ELSE @]
    /\ UNCHANGED <<file, pos, shared>>

\* The end of the file, or a file that does not open: its count stays 0.
FileDone(w) ==
    /\ WorkerGoes(w, "counting", "lock")
    /\ AtEnd(w)
    /\ UNCHANGED <<input, shared>>

WorkerLock(w) ==
    /\ WorkerGoes(w, "lock", "test")
    /\ lock = Nobody /\ lock' = w
    /\ UNCHANGED <<input, waiting, mailbox>>

\* Mutant of FindFull: the test of line 100 is dropped.
FindFullIgnored(w) ==
    /\ WorkerGoes(w, "test", "store")
    /\ mailbox # NULL
    /\ UNCHANGED <<input, shared>>

FindFull(w) ==
    /\ WorkerGoes(w, "test", "wait")
    /\ mailbox # NULL
    /\ CondWait(w)
    /\ UNCHANGED <<input, mailbox>>

FindEmpty(w) ==
    /\ WorkerGoes(w, "test", "store")
    /\ mailbox = NULL
    /\ UNCHANGED <<input, shared>>

\* An if, not a while: the mailbox is not looked at again.
WorkerWakes(w) ==
    /\ WorkerGoes(w, "wait", "store")
    /\ CondReturn(w)
    /\ UNCHANGED <<input, waiting, mailbox>>

Store(w) ==
    /\ WorkerGoes(w, "store", "signal")
    /\ mailbox' = w
    /\ UNCHANGED <<input, lock, waiting>>

WorkerSignals(w) ==
    /\ WorkerGoes(w, "signal", "unlock")
    /\ CondSignal
    /\ UNCHANGED <<input, lock, mailbox>>

Unlock(w) ==
    /\ WorkerGoes(w, "unlock", "returning")
    /\ lock' = Nobody
    /\ UNCHANGED <<input, waiting, mailbox>>

Return(w) ==
    /\ WorkerGoes(w, "returning", "exited")
    /\ UNCHANGED <<input, shared>>

WorkerStep(w) ==
    \/ ReadChar(w) \/ FileDone(w) \/ WorkerLock(w) \/ FindFull(w) \/ FindEmpty(w)
    \/ WorkerWakes(w) \/ Store(w) \/ WorkerSignals(w) \/ Unlock(w) \/ Return(w)

Next == MainStep \/ \E w \in Worker : WorkerStep(w)

\* Every thread runs when it can; each lock is taken a bounded number of times,
\* so that a fair mutex is not needed.
Fairness == WF_vars(MainStep) /\ \A w \in Worker : WF_vars(WorkerStep(w))

Spec == Init /\ [][Next]_vars /\ Fairness

\* The standard lets pthread_cond_wait return without a signal.
SpuriousWakeup ==
    /\ \E t \in waiting : waiting' = waiting \ {t}
    /\ UNCHANGED <<input, lock, mailbox, mainPc, wpc, reports_in, total_words>>

SpuriousSpec == Init /\ [][Next \/ SpuriousWakeup]_vars

----------------------------------------------------------------------------
(* Properties                                                              *)

\* What count_words is to count: the places where a word ends.
WordEnds(t) == Cardinality({j \in 2 .. Len(t) : t[j - 1] /\ ~t[j]})

Words(w) == IF file[w] = Unreadable THEN 0 ELSE WordEnds(file[w])

Stored(w) == wpc[w] \in {"signal", "unlock", "returning", "exited"}

\* main has added the count of w: its pointer is gone or about to go.
Counted(w) == Stored(w) /\ (mailbox # w \/ mainPc \in {"join", "clear"})

\* When main prints that the flag was raised (line 54) and dereferences the
\* mailbox (lines 55-56), a worker has put its finished count there.
FlagWasRaised == mainPc = "collect" => mailbox # NULL

\* main joins with the lock held (lines 58-61): the worker it waits for never
\* needs that lock again.
JoinIsSafe == mainPc = "join" => wpc[mailbox] \in {"returning", "exited"}

\* No signal is lost or reaches the wrong thread, though main and the workers
\* wait on one condition variable: a worker's signal finds main alone, main's
\* signal finds the other worker whenever that one is blocked.
SignalsAreNotLost ==
    /\ \A w \in Worker : wpc[w] = "signal" => waiting = {Main}
    /\ mainPc = "signal" => Main \notin waiting /\ Cardinality(waiting) <= 1
    /\ mainPc = "test" => waiting = {}

\* A worker never overwrites a count that main has not collected, although
\* line 100 tests the mailbox only once.
NoOverwrite == [][mailbox' \in Worker => mailbox = NULL \/ mailbox' = mailbox]_vars

\* total_words is the number of word ends in the files of the workers heard
\* from: neither a partial count nor one count twice.
TotalIsRight ==
    total_words = (IF Counted(1) THEN Words(1) ELSE 0) + (IF Counted(2) THEN Words(2) ELSE 0)

\* Once both threads exist main reports both files and ends.
BothReported ==
    (\A w \in Worker : wpc[w] # "absent") ~> (mainPc = "done" /\ \A w \in Worker : Counted(w))
====
