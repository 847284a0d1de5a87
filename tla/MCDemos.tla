---- MODULE MCDemos ----
(***************************************************************************)
(* The demo programs side by side: program says which one runs, and the     *)
(* module it belongs to moves while the others keep their first state.      *)
(***************************************************************************)
EXTENDS Integers, TimeParameters

CONSTANTS PipeSize, MaxLines,
          MAX_THREAD, READER_MAX, WRITER_MAX, LOOP_TIMES, Modulus,
          MAX_CHILD_NUMBER, INT_PTX, N

ASSUME DemosAssumption ==
    /\ {MAX_THREAD, READER_MAX, WRITER_MAX} \subseteq Nat
    /\ {PipeSize, MaxLines, LOOP_TIMES, Modulus, MAX_CHILD_NUMBER, INT_PTX, N}
           \subseteq Nat \ {0}

VARIABLES program,
    pipe_at, fds, pipe, buf, typed, sent, got,
    thread_at, owner, readers, writers, round, counter, main_counter, sum,
    tree_at, parent, reaped, i, stdout, printed, failed, pid,
    module_at, held, ready, handler,
    server, serving, stream, queue, client, segments, broken, received,
    select_at, stdin, readmask, lines, ended, waiting, buffered, lines_sent,
    answers, answered, closed

pipeVars == <<pipe_at, fds, pipe, buf, typed, sent, got>>
threadVars == <<thread_at, owner, readers, writers, round, counter,
                main_counter, sum>>
treeVars == <<tree_at, parent, reaped, i, stdout, printed, failed, pid>>
moduleVars == <<module_at, held, ready, handler>>
timeVars == <<server, serving, stream, queue, client, segments, broken, received>>
selectVars == <<select_at, stdin, readmask, lines, ended, waiting, buffered,
                lines_sent, answers, answered, closed>>
vars == <<program, pipeVars, threadVars, treeVars, moduleVars, timeVars,
          selectVars>>

Pipe == INSTANCE Pipes WITH at <- pipe_at
Threads == INSTANCE Threads WITH at <- thread_at
Trees == INSTANCE ProcessTrees WITH at <- tree_at
Modules == INSTANCE KernelModules WITH at <- module_at
Time == INSTANCE TimeService WITH buf <- stream, got <- received
Select == INSTANCE SelectClient WITH at <- select_at, typed <- lines,
                                     sent <- lines_sent

Init ==
    /\ program \in Pipe!Program \cup Threads!Program \cup Trees!Program
                   \cup Modules!Program \cup Time!Program \cup Select!Program
    /\ Pipe!Start /\ Threads!Start /\ Trees!Start
    /\ Modules!Start /\ Time!Start /\ Select!Start

Next ==
    \/ /\ Pipe!Next
       /\ UNCHANGED <<threadVars, treeVars, moduleVars, timeVars, selectVars>>
    \/ /\ Threads!Next
       /\ UNCHANGED <<pipeVars, treeVars, moduleVars, timeVars, selectVars>>
    \/ /\ Trees!Next
       /\ UNCHANGED <<pipeVars, threadVars, moduleVars, timeVars, selectVars>>
    \/ /\ Modules!Next
       /\ UNCHANGED <<pipeVars, threadVars, treeVars, timeVars, selectVars>>
    \/ /\ Time!Next
       /\ UNCHANGED <<pipeVars, threadVars, treeVars, moduleVars, selectVars>>
    \/ /\ Select!Next
       /\ UNCHANGED <<pipeVars, threadVars, treeVars, moduleVars, timeVars>>

Spec ==
    /\ Init /\ [][Next]_vars
    /\ Pipe!Fairness /\ Threads!Fairness /\ Trees!Fairness
    /\ Time!Fairness /\ Select!Fairness

----------------------------------------------------------------------------
(* Properties                                                              *)

\* The values of the variables of all modules.
TypeOK ==
    /\ Pipe!TypeOK /\ Threads!TypeOK /\ Trees!TypeOK
    /\ Modules!TypeOK /\ Time!TypeOK /\ Select!TypeOK

\* bc_demo_1.c: bc and dc stay in step until an answer fills two lines.
AnswersInStep == Pipe!AnswersInStep

\* Who reads to the end, of a pipe or of the time server's answer, has it all.
EverythingArrives == Pipe!EverythingArrives /\ Time!OneReadIsEnough

\* Only full pipes make all processes wait for each other, in pipe_demo_2.c and,
\* after long answers, in bc_demo_1.c.
OnlyFullPipesBlock == Pipe!OnlyFullPipesBlock

\* thread.c and rwrite.c: what is read together belongs together.
LocksProtect == Threads!LocksProtect

\* fork_face.c: the buffers that fork copies make eight dashes of six.
EightDashes == Trees!EightDashes

\* The programs that fork leave no process behind, except fork_child.c.
ParentsOutliveChildren == Trees!ParentsOutliveChildren

\* A module that is out, or failed to come in, holds nothing.
NothingLeftBehind == Modules!NothingLeftBehind

\* The time server is not ended by clients that leave early.
ClientsDoNotEndIt == Time!ClientsDoNotEndIt

\* IO_select.c: select does not block while a line of the server waits, or one
\* typed at a terminal.
NoLineWaits == Select!NoLineWaits

\* What has to happen does: children and parents follow each other, opposite
\* orders of trylock end, waiting for children ends, every client of the time
\* server gets away, and lines typed at a terminal are sent.
EveryoneGoesOn ==
    /\ Pipe!WhenOneLeaves
    /\ Threads!OppositeOrdersEnd
    /\ Trees!WaitingEnds
    /\ Time!ClientsLeave
    /\ Select!EveryLineIsSent

====
