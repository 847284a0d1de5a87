---- MODULE ProcessTrees ----
(***************************************************************************)
(* Programs that fork: lessons_os/fork_face.c ("face"), fork_child.c        *)
(* ("child") and fork_create.c ("create"), and Gdb/mulprogress.c ("mul").   *)
(* Processes are numbered in the order of their forks; 0 is the first.      *)
(***************************************************************************)
EXTENDS Integers, FiniteSets, FiniteSetsExt

CONSTANTS
    MAX_CHILD_NUMBER,   \* children, and digits to type, of fork_create.c
    INT_PTX             \* _INT_PTX, children of mulprogress.c

Program == {"face", "child", "create", "mul"}
Process == 0 .. Max({3, MAX_CHILD_NUMBER, INT_PTX})
Nobody == -1

VARIABLES
    program,    \* the program that runs
    at,         \* where each process is; "over" when it has ended
    parent,     \* who forked it
    reaped,     \* processes their parents have waited for
    i,          \* loop counter of each process
    stdout,     \* dashes in the stdio buffer of each process of fork_face.c
    printed,    \* dashes that were written
    failed,     \* whether a fork has failed
    pid         \* pid[] of fork_create.c: a process, 0 (unset) or -1 (failed)

vars == <<program, at, parent, reaped, i, stdout, printed, failed, pid>>
output == <<stdout, printed>>
Digit == 0 .. MAX_CHILD_NUMBER

TypeOK ==
    /\ at \in [Process -> {"unborn", "fork", "print", "wait", "type", "loop",
                           "poll", "exit", "over"}]
    /\ parent \in [Process -> Process \cup {Nobody}]
    /\ reaped \subseteq Process
    /\ i \in [Process -> 0 .. Max({2, MAX_CHILD_NUMBER, INT_PTX})]
    /\ stdout \in [Process -> 0 .. 2] /\ printed \in 0 .. 2 * Cardinality(Process)
    /\ failed \in BOOLEAN
    /\ pid \in [Digit -> Process \cup {-1}]

Start ==
    /\ at = [p \in Process |->
               IF p = 0 /\ program \in Program THEN "fork" ELSE "unborn"]
    /\ parent = [p \in Process |-> Nobody]
    /\ reaped = {}
    /\ i = [p \in Process |-> 0]
    /\ stdout = [p \in Process |-> 0] /\ printed = 0
    /\ failed = FALSE
    /\ pid = [d \in Digit |-> 0]

Init == program \in Program /\ Start

Alive(p) == at[p] \notin {"unborn", "over"}
Children(p) == {c \in Process \ reaped : parent[c] = p}

----------------------------------------------------------------------------
(* The loop that forks: its limit, and where the child, the parent and one  *)
(* whose fork failed go on.                                                 *)

Limit == CASE program = "face" -> 2
           [] program = "child" -> 1
           [] program = "create" -> MAX_CHILD_NUMBER
           [] program = "mul" -> INT_PTX

After == CASE program = "face" -> "wait"
           [] program = "child" -> "exit"
           [] program = "create" -> "type"
           [] program = "mul" -> "poll"

ChildGoesTo == CASE program = "face" -> "print"
                 [] program = "create" -> "loop"
                 [] OTHER -> "exit"

\* fork_face.c prints first and counts then.
ParentGoesTo(n) ==
    IF program = "face" THEN "print" ELSE IF n < Limit THEN "fork" ELSE After

\* A fork copies what the parent's stdio buffer holds.  pid[i] is assigned in
\* the parent alone, and also when the fork has failed.
Fork(p) ==
    LET c == Min({q \in Process : at[q] = "unborn"})
        n == IF program = "face" THEN i[p] ELSE i[p] + 1
    IN  /\ at[p] = "fork"
        /\ at' = [at EXCEPT ![p] = ParentGoesTo(n), ![c] = ChildGoesTo]
        /\ parent' = [parent EXCEPT ![c] = p]
        /\ i' = [i EXCEPT ![p] = n, ![c] = i[p]]
        /\ stdout' = [stdout EXCEPT ![c] = stdout[p]]
        /\ pid' = IF program = "create" THEN [pid EXCEPT ![i[p]] = c] ELSE pid
        /\ UNCHANGED <<program, reaped, printed, failed>>

ForkFails(p) ==
    LET n == IF program = "face" THEN i[p] ELSE i[p] + 1
    IN  /\ at[p] = "fork"
        /\ failed' = TRUE
        /\ at' = [at EXCEPT ![p] =
                    IF program = "mul" THEN "poll" ELSE ParentGoesTo(n)]
        /\ i' = [i EXCEPT ![p] = n]
        /\ pid' = IF program = "create" THEN [pid EXCEPT ![i[p]] = -1] ELSE pid
        /\ UNCHANGED <<program, parent, reaped, output>>

----------------------------------------------------------------------------
(* fork_face.c                                                             *)

\* Mutant of Printf: printf("-\n"), which a terminal is sent at once.
PrintfLine(p) ==
    /\ at[p] = "print"
    /\ printed' = printed + 1
    /\ i' = [i EXCEPT ![p] = @ + 1]
    /\ at' = [at EXCEPT ![p] = IF i[p] + 1 < 2 THEN "fork" ELSE "wait"]
    /\ UNCHANGED <<program, parent, reaped, failed, pid, stdout>>

Printf(p) ==
    /\ at[p] = "print"
    /\ stdout' = [stdout EXCEPT ![p] = @ + 1]
    /\ i' = [i EXCEPT ![p] = @ + 1]
    /\ at' = [at EXCEPT ![p] = IF i[p] + 1 < 2 THEN "fork" ELSE "wait"]
    /\ UNCHANGED <<program, parent, reaped, failed, pid, printed>>

\* wait returns a child that has ended, or fails when there is none; the
\* counter, of no more use to the loop, counts the two waits down.
Wait(p) ==
    /\ at[p] = "wait"
    /\ \/ \E c \in Children(p) : at[c] = "over" /\ reaped' = reaped \cup {c}
       \/ Children(p) = {} /\ UNCHANGED reaped
    /\ i' = [i EXCEPT ![p] = @ - 1]
    /\ at' = [at EXCEPT ![p] = IF i[p] > 1 THEN "wait" ELSE "exit"]
    /\ UNCHANGED <<program, parent, failed, pid, output>>

\* Leaving main, or exit, writes what stdio holds.
Exit(p) ==
    /\ at[p] = "exit"
    /\ at' = [at EXCEPT ![p] = "over"]
    /\ printed' = printed + stdout[p]
    /\ UNCHANGED <<program, parent, reaped, i, stdout, failed, pid>>

----------------------------------------------------------------------------
(* mulprogress.c: waitpid(-1, NULL, WNOHANG) until it fails.               *)

\* Mutant of Poll: the loop goes on only when a child was reaped.
PollOnce(p) ==
    /\ at[p] = "poll"
    /\ \/ \E c \in Children(p) : at[c] = "over" /\ reaped' = reaped \cup {c}
          /\ UNCHANGED at
       \/ /\ \A c \in Children(p) : at[c] # "over"
          /\ at' = [at EXCEPT ![p] = "exit"] /\ UNCHANGED reaped
    /\ UNCHANGED <<program, parent, i, output, failed, pid>>

\* Mutant of Poll: it goes on as well when there is no child left.
PollForEver(p) ==
    /\ at[p] = "poll"
    /\ \E c \in Children(p) : at[c] = "over" /\ reaped' = reaped \cup {c}
    /\ UNCHANGED <<program, at, parent, i, output, failed, pid>>

Poll(p) ==
    /\ at[p] = "poll"
    /\ \/ \E c \in Children(p) : at[c] = "over" /\ reaped' = reaped \cup {c}
          /\ UNCHANGED at
       \/ /\ Children(p) = {}
          /\ at' = [at EXCEPT ![p] = "exit"] /\ UNCHANGED reaped
    /\ UNCHANGED <<program, parent, i, output, failed, pid>>

----------------------------------------------------------------------------
(* fork_create.c: what the user types.  kill(0) is to the whole group, the  *)
(* caller included, kill(-1) to everybody else.                             *)

Killed(target) ==
    CASE target = 0 -> {p \in Process : Alive(p)}
      [] target = -1 -> {p \in Process \ {0} : Alive(p)}
      [] OTHER -> {target}

Kill(target) == at' = [p \in Process |->
                         IF p \in Killed(target) THEN "over" ELSE at[p]]

TypeDigit(d) ==
    /\ at[0] = "type"
    /\ Kill(pid[d])
    /\ UNCHANGED <<program, parent, reaped, i, output, failed, pid>>

\* Mutant of Quit: the parent just returns.
QuitAlone ==
    /\ at[0] = "type"
    /\ at' = [at EXCEPT ![0] = "over"]
    /\ UNCHANGED <<program, parent, reaped, i, output, failed, pid>>

Quit ==
    /\ at[0] = "type"
    /\ Kill(0)
    /\ UNCHANGED <<program, parent, reaped, i, output, failed, pid>>

----------------------------------------------------------------------------
Step(p) == Fork(p) \/ ForkFails(p) \/ Printf(p) \/ Wait(p) \/ Poll(p) \/ Exit(p)

Next ==
    \/ \E p \in Process : Step(p)
    \/ \E d \in Digit : TypeDigit(d)
    \/ Quit

\* A process that can go on does; nobody has to type.
Fairness == \A p \in Process : WF_vars(Step(p))

Spec == Init /\ [][Next]_vars /\ Fairness

----------------------------------------------------------------------------
(* Properties                                                              *)

\* fork_face.c, lines 6 and 7: eight dashes are written, two of them copies
\* of what the buffers held, and all of them before the first process ends.
EightDashes ==
    program = "face" /\ at[0] = "over" /\ ~ failed => printed = 8

\* Nobody is left behind by the process that forked it, whichever forks fail
\* and whatever is typed, except in fork_child.c: its wait is commented out.
ParentsOutliveChildren ==
    \A c \in Process :
        Alive(c) /\ parent[c] # Nobody /\ at[parent[c]] = "over" =>
            program = "child"

\* The programs that wait for their children all end.
WaitingEnds ==
    program \in {"face", "child", "mul"} ~> \A p \in Process : ~ Alive(p)

====
