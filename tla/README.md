# A TLA+ model of the systems-programming lessons

The repository is a collection of small C programs: exercises about threads,
memory management, inter-process communication and network servers on Linux,
and a few kernel modules. It has no test suite; what a program is meant to do is
said in comments. This directory models the programs that keep state shared
between several actors (threads, processes, a kernel, a user), checks them with
TLC and proves theorems about them with TLAPS.

Paths below are relative to `src/`. Comments in `IPC/IO_poll.c` and
`IPC/IO_epoll.c` are encoded in GBK; they are quoted decoded.

## 1. Inventory

| component | state | operations | actors and how they interact |
|---|---|---|---|
| dining philosophers, `lessons_os/phoilstick.c` | five mutexes, flags, table of thread ids | `thread_create`, `thread_wait`, `Aname` .. `Ename` | main creates five threads and joins them, five times; threads share mutexes |
| word-count mailbox, `lessons_os/thread_cond.c` | mutex, condition variable, mailbox pointer, two counts | `main`, `count_words` | two threads hand one result each to main; both directions use one condition variable |
| memory manager, `lessons_os/memory_one.c` | list of free blocks, list of allocated blocks, `flag`, `ma_algorithm`, `pid`, `mem_size` | the menu: set size, set algorithm, new process, kill process, display, exit | a user types commands; `malloc` may fail |
| semaphore clock, `IPC/p_semaphores.c` | shared segment, set of two System V semaphores | server: create, `set_sem_value`, `wait_and_lock`, `strcpy`, `release_lock`, `cleanup`; client: attach, lock, print, unlock | several processes through the kernel; SIGINT; kernel undoes on exit (`SEM_UNDO`) |
| poll echo server, `IPC/IO_poll.c` | table `event_set`, `ready_number` | poll, accept, read, write, close | clients through TCP sockets |
| epoll rot13 server, `IPC/IO_epoll.c` | array `events`, counters `n` and `i`, kernel's list of edges | `epoll_wait`, accept, read loop, close | clients through non-blocking, edge-triggered sockets |
| select demos, `IPC/IO_select.c` | `readmask`, stdio's buffer of stdin | select, `fgets`, read, write | a user (terminal or pipe) and a server |
| clock without locks, `IPC/p_shm.c`, `lessons_os/shm_ts.c` | shared segment | write the time, print it | server and client |
| file-lock clock, `IPC/p_filelock.c` | file, record lock | lock, write or read, unlock | server and client |
| stream time service, `IPC/time_*_socketdemo*.c`, `IPC/socket_lib.c` | listen queue, stdio's buffer of a connection | accept, `fprintf`, `fclose`; connect, read, print | one server, many clients, which may leave |
| datagram demos, `IPC/udp_*.c` | socket | sendto, recvfrom | two processes, unreliable channel |
| pipes and filters, `IPC/pipe_demo_*.c`, `bc_demo_1.c`, `p_fifo.c`, `popen.c` | pipes | fork, dup2, close, read, write | parent and children; bc and dc through two pipes |
| thread counters, `lessons_os/thread.c`, `deadlock.c`, `rwrite.c`, `Gdb/multhread.c` | counters, mutexes, a reader-writer lock | increment, sum, trylock, tryrdlock, trywrlock | threads |
| process trees, `lessons_os/fork_*.c`, `Gdb/mulprogress.c` | children, their pids, stdio buffers | fork, wait, waitpid, kill | parent and children, a user |
| load monitor, `loadtest/` | kernel timer, address of `avenrun` | init, timer handler, exit | the module loader and the timer |
| kprobe demos, `my_kprobe/` | probe | register, handlers, unregister | the loader and the probed function |
| kernel and memory lessons, `kernel/`, `memory_test/` | pages, allocations, list nodes | init, exit | the loader |
| debugger and compiler exercises | none that lasts | print | - |

What is hard in this code: lock orders and signals between threads
(philosophers, mailbox); steps of other processes between a test and its use
(mailbox, clock); crashes inside critical sections and objects removed while in
use (clock); readiness that is stale or reported only once (poll, epoll); long
sequences of commands that break a list (memory manager); what stdio holds back
or a fork copies (time service, select, process trees); steps that fail half way
(kernel modules). The `hazards` of
`PROJECT.json` name each with the line where it bites and the properties that
cover it.

What makes each component correct:

- philosophers: neighbours never eat together, a mutex has the owner that locked
  it, no thread blocks except in the full circle, rounds do not overlap;
- mailbox: every count reaches main once, complete and not overwritten, no
  signal is lost, no join blocks, main ends;
- memory manager: blocks tile the memory, nothing is lost, freed neighbours are
  joined, a kill gives back the addresses of its process, a free block holds no
  address of a process;
- clock: the semaphores count the processes inside, a writer is alone, a reader
  never sees a half-written text, no process waits for ever;
- pipe programs: request and answer stay in step, end of file reaches every
  reader after the last message, no process is left waiting;
- time service: clients that leave do not end the server, and who reads gets the
  whole answer; select client: while select blocks, no line of the
  server, and none typed at a terminal, waits to be read;
- thread counters: what is summed up or used under a lock belongs together, and
  opposite lock orders end; process trees: no child outlives its parent, every
  parent ends, buffered output is written exactly as often as it was copied;
- kernel modules: a module that is out, or failed to come in, holds nothing;
- servers: every open connection is known to the loop exactly once, no call on
  an invalid descriptor, no accept or read that holds up the others, every
  client is served.

## 2. Modules

| module | models | run by |
|---|---|---|
| `Philosophers` | `phoilstick.c` | `MCPhilosophers` |
| `Mailbox` | `thread_cond.c` | `MCMailbox` |
| `MemoryManager` | `memory_one.c` | `MCMemory` |
| `Partition` | abstract specification of the memory manager | through `MemoryManager` |
| `SemClock` | `p_semaphores.c`, both programs and the kernel's objects | `MCSemClock` |
| `Sockets` | external: clients, TCP connections, descriptors | through the two servers |
| `PollServer` | `IO_poll.c`, composed with `Sockets` | `MCPollServer` |
| `EpollServer` | `IO_epoll.c`, composed with `Sockets` and the kernel's edge list | `MCEpollServer` |
| `Pipes` | `bc_demo_1.c`, `pipe_demo_1.c` to `pipe_demo_4.c`, `popen.c`, and the kernel's pipes | `MCDemos` |
| `Threads` | `thread.c`, `deadlock.c`, `rwrite.c` | `MCDemos` |
| `ProcessTrees` | `fork_face.c`, `fork_child.c`, `fork_create.c`, `mulprogress.c` | `MCDemos` |
| `KernelModules` | `loadtest/main.c`, `demo1.c`, `02list.c`, `03task.c`, `memalloc.c`, `v_topaddr.c`, `memvma_ptf.c` | `MCDemos` |
| `TimeService`, `TimeParameters` | `time_serve_socketdemo.c` and `time_clint_socketdemo.c` | `MCDemos` |
| `SelectClient` | the second program of `IO_select.c` | `MCDemos` |
| `PhilosophersProofs`, `MailboxProofs`, `MemoryProofs`, `SemClockProofs`, `PollServerProofs`, `EpollServerProofs`, `PipesProofs`, `DemosProofs` | theorems | tlapm |

### Philosophers

A thread is one of the five functions, `First` and `Second` give the mutexes of
its two lock calls, `pc` the call it is at. Each lock and unlock call is an
action. `CreateThread`/`CreateFails` are `thread_create` for one index (a failure
ends the loop and main ignores the result); `JoinLive`, `SkipJoin`, `JoinStale`
and `JoinStaleCrashes` are `thread_wait` for one index. Ids of earlier rounds
stay in `GpThread`; joining one is undefined, so the model allows an error and a
crash. The chopstick flags are constant because the code that sets them is
commented out. Printing and sleeping are left out.

### Mailbox

Every call of `main` and `count_words` that touches shared state is an action.
`pthread_cond_wait` is two: release and block, then return with the lock. A
signal removes one waiter, any of them, or is lost. A file is a sequence of
Booleans, the values of `isalnum`; `count_words` reads it character by character
without the lock. `SpuriousSpec` adds the wakeups without a signal that POSIX
permits.

### MemoryManager and Partition

A list is a sequence of blocks. Each menu entry is one action with all that it
calls: `kill_process` includes `free_mem`, its sort and `merge`, and `dispose`.
The sorts exchange contents pair by pair as the code does. Where the code
dereferences a NULL pointer the status becomes `crashed`. `malloc` failures
before `init_free_block`, `new_process` and `free_mem` are modelled. An unset
`ab->size` is any member of `Garbage`. Process names and printing are left out.

`Partition` says what a memory manager is: a set of disjoint blocks that cover
the memory, of which a request takes a part. Its promise ends (`broken`) when
the manager joins blocks that do not touch, loses a block or reads an unset
size; until then `MemoryManager` implements it (`RefinesPartition`).

### SemClock

Servers and clients are process ids; `pc` is the call a process is at. The
segment and the set live under a key; every creation is a new generation, so
that a process can hold an identifier of a removed object. `Lock` and `Release`
are the two `semop` calls with the kernel's `SEM_UNDO` adjustment, `SetFirst` and
`SetSecond` the two `SETVAL`, `Interrupt`, `RemoveSegment`, `RemoveSemaphores` the
signal handler, `Die` a kill at any point. `strcpy` is `Tear` and `Finish`.
`disturbed` is history: a semaphore was reset or removed while counted, or a
writer died inside `strcpy`.

`p_semaphores.c` is two programs in one file, each with its `main` and its pair of
lock functions, and is not C as it stands. It is read as if lines 81 and 176
(`const int TIME_MEM_KEY = 99`, with no semicolon, and with the name replaced by the
macro of line 15) were not there, so that both `semget` use the key of that macro;
`actiona[0]` in lines 134, 151, 195 and 213 were `actions[0]`; `semdt` in line 185
were `shmdt`; and `<stdlib.h>`, `<string.h>`, `<unistd.h>` and the prototypes of its own
functions were there.

### Sockets, PollServer, EpollServer

`Sockets` is the kernel and the clients: a queue of connections, a descriptor
table that gives out the lowest free number, data in chunks (what one read
takes), half-close, broken connections, a bounded send buffer. Clients are
numbered in the order in which they connect, which loses nothing as they are
alike.

`PollServer` follows the loop: `poll` takes a snapshot, `Register`,
`AcceptFails`, `TableFull` are the listening entry, `Skip`, `Read`, `Write`,
`Close`, `ReadFails`, `WriteFails` the scan. Errors that call `error(1, ...)` end
the server.

`IO_poll.c` calls `tcp_server_listen` and uses `SERV_PORT`, which the repository does not
define; it does not include `<poll.h>`, whose structure and macros it repeats, nor
`<netinet/in.h>`, `<errno.h>` and `<error.h>`. The function is taken to return a listening
socket that blocks, and the rest to be what the headers say.

`EpollServer` keeps the code's variables `n` and `i` in both their uses.
`epoll_wait` reports listed descriptors that are still ready, all of them or as many as
fit into `events`. The manual promises no order, so the list is a set and a batch comes
in any order. `ErrorEvent`, `AcceptEvent`
and `SocketEvent` are the branches of the loop, `Read`, `Write`, `ReadNothing`,
`EndOfFile` the inner loop. `todo` (events of the batch not taken up) and
`stalled` (ready, but will not be reported) are history. Left out: `rot13_char`,
which changes bytes and nothing else.

`IO_epoll.c` does not define `tcp_nonblocking_server_listen`, `make_nonblocking` and
`SERV_PORT`, does not include `<sys/epoll.h>`, `<netinet/in.h>`, `<stdint.h>`, `<errno.h>` and
`<error.h>`, and declares `struct epoll_event` (lines 34 to 37) before the union it uses
(lines 39 to 45). The two functions are taken to do what their names say: the
listening socket and the accepted ones do not block.

### Pipes

The pipe programs are straight sequences of system calls. Each function is a
constant sequence of calls (`BeBc`, `BeDc`, `Demo4Child` ...) with the step that
each outcome leads to; one action per call (`DoFork`, `DoClose`, `DoDup2`,
`DoRead` ...) says what it does to the descriptor tables and the pipes. `at` is the
function and the step of each process. `dc` and the commands of `argv` are an
environment: they read or write lines and may end at any time (`Dies`). An
answer of dc may take two lines, as it breaks lines after 70 characters.
`program` says which program runs. The content of a line is its number: what bc makes
of the numbers is left out, also that a negative one, printed with `%d`, is an
operator and a number to dc (`bc_demo_1.c:37`).

### Threads

`at` is the call each thread is at. In `thread.c` (`Lock`, `Count`, `Total`, `Sum`,
`Unlock`, `Key`) a counter and `main_counter` are increased in two steps under one
mutex, and wrap at `Modulus` (2^64 in the code); a `pthread_create` that fails is only noticed by
`deadlock.c`. There `Trylock` takes a mutex or does nothing, and the code goes on
either way; `Release` unlocks whoever the owner is. In `rwrite.c` a try that fails is a
stuttering step. main's return ends every thread. `multhread.c` is left out: its
threads race on purpose.

### ProcessTrees

A process is a number, `Fork` gives the next one, copies `stdout` (the dashes in the
stdio buffer) and, in `fork_create.c`, assigns `pid[i]` in the parent; `ForkFails` leaves
-1 there, and 0 stays where no fork was tried. `Killed` is `kill` with a process, 0 or
-1. `Wait` and `Poll` are `wait` and the loop on `waitpid(..., WNOHANG)`.
`mulprogress.c` has full-width spaces (U+3000), which some compilers refuse.

### KernelModules

Entry and exit functions are sequences of steps that take (`Get`), test (`Check`), give
back (`Put`) or start a timer; one action per step. `HandlerRuns` is a probe hit or
a timer that expires, at any time while it is registered; `Put` of a handler waits
for it, as `hrtimer_cancel` and `unregister_kprobe` do. `memalloc.c` is read with its
three misspelt names corrected. The walks that print tasks, page tables and areas
of memory read only and are left out.

### TimeService

The server's `fprintf` only fills `buf`; `Fclose` is the one write to the connection.
The first write to a client that has left is answered by a reset (`broken`), a
second one would be a SIGPIPE. Clients connect, wait for a place in the queue of
`Qsize`, read once, and may be killed at any time.

### SelectClient

`Readable` is what the kernel sees: not what stdio has read ahead (`buffered`). On a
terminal one read of stdio takes a line, on a pipe all lines there are. The server
answers lines or closes at any time. Every line, typed or answered, is shorter than
`MAXLINE`: left out are a longer one on standard input, which `fgets` takes in parts (the
rest then waits in stdio's buffer, on a terminal too), and an answer of exactly `MAXLINE`
bytes, after which line 136 writes one byte past the array. In line 113 the comma
between `readmask` and `allreads` is a full-width one; `tcp_client` and `SERV_PORT` are not
defined, and `<string.h>`, `<sys/socket.h>`, `<errno.h>` and `<error.h>` not included: the
model reads a comma and a connected socket.

### MCDemos

Composes these programs: the modules share `program`, each has its own variables,
and `Next` lets one module step while the others keep theirs. Only the module whose
program was chosen ever moves, so that the state space is the sum of the programs'
and not the product; `Spec` conjoins the fairness of all modules.

## 3. Runs

| run | shows | bounds |
|---|---|---|
| `philosophers` | ownership, exclusion of neighbours, the circle as the only way to block, rounds apart; main ends or the circle closes | the program's own: 5 threads, 5 rounds |
| `mailbox` | no count lost, overwritten, partial or counted twice; no signal lost; safe join; main ends | every pair of five files (no word end, one, two, a word cut off by the end, an empty one) and an unreadable one |
| `mailbox_spurious` (violation) | a wakeup without a signal makes main announce a raised flag and dereference NULL | same |
| `memory` | sizes add up, also with `flag` as the only guard of the size; after the last kill one free block; sorts sort; a kill frees the addresses of its process and no others, also where joined blocks overlap used ones; refinement of `Partition` | memory of 8, slice 1, four processes, sizes 0, 2, 3, 5, 8 |
| `memory_overlap` (violation) | joining blocks that do not touch makes a free block hold addresses of a process | sizes 2, 3, 4 |
| `memory_policy` (violation) | the chosen algorithm is never used | same |
| `semclock` | counting, exclusion, clean reads, one writer, nobody stuck, through kills and SIGINT | two servers, two clients, one write, one kill |
| `semclock_race` (violation) | a client that locks before `set_sem_value` is counted out and read-write exclusion fails | same, no kill |
| `poll` | entries and descriptors agree, `ready_number` is exact, no accept and no read blocks (the write of line 107 can), every client is served, if clients read their echoes and the server does not end | three clients, two entries, two chunks, one failing accept |
| `epoll` | events refer to open, ready descriptors; only two things stall; all else is served | three clients, batches of two, two chunks |
| `epoll_batch` (violation) | the read loop's use of `n` and `i` drops the rest of the batch | same |
| `demos` | pipes: bc and dc stay in step until an answer is longer than a line, end of file reaches every reader, processes block for ever only on full pipes, in `pipe_demo_2` and, after long answers, in `bc_demo_1`; locks protect what they guard; eight dashes; no child outlives its parent; modules leave nothing behind; clients cannot end the time server and read the whole answer; select does not sleep while a line of the server, or one typed at a terminal, is left to read (lines from a pipe may be left in stdio's buffer); and everyone goes on | 23 programs; one message in a pipe, five lines; two threads (`thread.c`), two readers and two writers, two rounds, counters that wrap at four; two children (`fork_create.c`), three (`mulprogress.c`); a list of two nodes; two clients, a queue of one |

Why the bounds are enough. Philosophers: the code has no other size.
Mailbox: there are two threads, and a word ends at two adjacent
characters, which all the short files together cover. Memory: with four
blocks in eight addresses, splits, give-aways, exact fits, refusals, joins of
touching and of distant blocks and every order of frees occur. Clock: two servers
that meet or follow each other and two readers are what the semaphores tell
apart; one write per server is enough since a server returns to the same state
after each. Servers: two entries and three clients fill the table and reuse
entries and descriptors; two chunks fill a send buffer of one; a batch of two
leaves one of three ready descriptors behind. Pipes: a pipe of one message is
full after each write, so that a writer with no reader left either blocks or is killed;
five requests, answered with two lines each, are what it takes to fill both pipes of
`bc_demo_1` (with pipes of two messages it takes eight, which gives the same result). Threads: two
counters that wrap at four do so in every order, two readers and two writers meet in every
pair. Process trees: `fork_face.c` and `fork_child.c` have no other size, two and
three children end in every order with every failing fork. Time service: with a
queue of one and two clients, one is served, one queued or one refused a place.
Kernel modules and the select client have no size but the list's and the lines.
`CHECK_DEADLOCK FALSE` is given where
programs end, or wait for a user or a client.

Fairness. Threads that can run do run: weak fairness of each thread and of
main (`Philosophers`, `Mailbox`). Strong fairness is not needed, since a thread takes
each lock a bounded number of times. `PollServer` assumes that the server runs
and that clients read their answers: its writes block, and without the latter one
client would hold up all. `EpollServer` assumes only that the server runs,
the modules of `MCDemos` that a process or a thread goes on when it can (weak fairness
of its steps), not that anybody types, presses a key, closes, kills or is killed, or
that a call fails. `KernelModules` assumes nothing.
`SemClock` and `MemoryManager` assume nothing. In `SemClock`,
`SomebodyCanGoOn` says that as long as a process has not ended, some process can
take a step; every process takes finitely many.

The type invariants of `MemoryManager`, `PollServer` and `EpollServer` say what the
variables range over and are in no run, but proved; `JoinIsSafe` and `FlagWasRaised` of `Mailbox`
are proved, and `FlagWasRaised` is what `mailbox_spurious` breaks. `NothingBlocks` of
`PollServer` is about accept and read, the two calls that `poll` is to keep from blocking.

### What the violations mean

- `FlagWasRaised`: `pthread_cond_wait` at `thread_cond.c:53` is not in a loop.
- `FreeBlocksAreFree`: the loop at `memory_one.c:260` joins the largest block
  with whatever follows in the list sorted by size.
- `FirstFitIsUsed`: `allocate_mem` sorts worst fit first (`memory_one.c:241`).
- `ReadersExcludeWriters`: the set is visible from `semget` on
  (`p_semaphores.c:82`) and is reset after that (`:86`).
- `EveryEventIsHandled`: `IO_epoll.c:119` assigns the result of `read` to the
  number of events, and `:129` counts in their index. The inner loop is left
  with `n <= 0`, the outer loop ends, and edge-triggered sockets are not reported
  again.

A disagreement that the model contains and no run exhibits: the comment at
`memory_one.c:324` says of `free_mem` that the partition of a killed process is given back
and merged. It is not when `malloc` fails in line 333: `kill_process` ignores the -1 and
disposes of the block, which is in neither list afterwards (`kill_processLosesBlock`;
`lost` counts it, and `MemoryConserved` and `KilledComesBack` set it aside). It is not
either when the free list is empty, which it is after the last free node was given away
(line 248): line 337 then reads `NULL->next` (`kill_processCrash`).

What the passing runs set aside is named in the definitions, and is as much a
fact about the code: `stalled` in `EpollServer` (one accept for several connections,
events of a dropped batch), `disturbed` in `SemClock`, `intact` in `MemoryManager`,
answers after one of two lines in `bc_demo_1`, the writer that `pipe_demo_2` leaves behind.
The `note` of a hazard in `PROJECT.json` says when no property covers it.

## 4. Proofs

| theorem | says, for every value of the constants |
|---|---|
| `PhilosophersProofs!TypeCorrect`, `OwnershipHolds`, `ExclusionHolds`, `RoundsHold`, `OnlyTheCircleBlocksHolds` | `TypeOK`, `MutexOwnership`, `NeighboursExclusive`, `RoundsDoNotOverlap`, `OnlyTheCircleBlocks`, for any number of threads and rounds |
| `MailboxProofs!TypeCorrect`, `FlagWasRaisedHolds`, `JoinIsSafeHolds`, `SignalsHold`, `TotalIsRightHolds`, `NoOverwriteHolds` | the safety properties of the mailbox, for any files |
| `MemoryProofs!TypeCorrect`, `MemoryConservedHolds`, `RearrangeSortsHolds`, `KilledComesBackHolds`, `WhollyFreeAgainHolds` | the types, `MemoryConserved`, `RearrangeSorts`, `KilledComesBack`, `WhollyFreeAgain`, for any memory size, slice, inputs, contents of unset fields and number of processes |
| `MemoryProofs!RefinesPartitionHolds`, `PromiseHolds`, `StaysDivided` | `MemoryManager` implements `Partition`, `Partition` keeps its promise, and so the manager's own lists keep it |
| `SemClockProofs!TypeCorrect`, `CountersHold`, `ExclusionHolds`, `CleanReadHolds`, `OneWriterHolds` | `TypeOK`, `SemaphoresCountHolders`, `ExclusiveUnlessDisturbed`, `CleanRead`, `OneWriter`, for any servers, clients, iterations and kills |
| `SemClockProofs!NotAllWaitHolds` | until a disturbance, of the processes that have started and not ended one is in neither of the two calls that block: `SomebodyCanGoOn` without `ENABLED` |
| `PollServerProofs!TypeCorrect`, `EntriesAreConnectionsHolds`, `ReadyNumberCountsHolds`, `NothingBlocksHolds` | the types, `EntriesAreConnections`, `ReadyNumberCounts`, `NothingBlocks`, for any number of clients, entries and chunks |
| `EpollServerProofs!TypeCorrect`, `EventsAreValidHolds`, `OnlyKnownStallsHolds` | the types, `EventsAreValid`, `OnlyKnownStalls`, for any number of clients, any size of a batch and every order of its events |
| `DemosProofs!TypeCorrect`, `NoLineWaitsHolds`, `NothingLeftBehindHolds`, `ParentsOutliveChildrenHolds`, `EightDashesHolds`, `LocksProtectHolds`, `ClientsDoNotEndItHolds`, `AnswersInStepHolds`, `EverythingArrivesHolds`, `OnlyFullPipesBlockHolds` | `TypeOK` and the invariants of the same names, for the composition of all programs of `MCDemos`, for any numbers of lines, list nodes, children, threads, readers, writers and clients, any wrap-around and pipes of any capacity |

They rest on the named assumptions of the modules: at least two threads
(`NAssumption`), rounds a number; files that are finite sequences; finite,
disjoint sets of servers and clients; a default memory size that is positive and sizes
that are integers (`ConstantsAssumption`); a table of at least two entries and a send
buffer of at least one chunk (`PollAssumption`, `SocketsAssumption`); batches of at
least one event (`EpollAssumption`); a queue of at least one (`TimeServiceAssumption`, in
a module of its own so that `MCDemos` can extend it); and, for the small programs, sizes that are numbers, positive where the code has
at least one (`DemosAssumption`).

Inductive invariants:

- Philosophers: `IInv` = types, `Locks` (the owner of a mutex is between its lock
  and unlock call, and a thread between those calls is the owner) and `Rounds`
  (which threads can be alive at which index of main). `MutexOwnership` alone
  is not inductive: it does not say that a thread's two chopsticks are both its
  own, nor which threads exist. `OnlyTheCircleBlocks` follows by a walk round the
  table: a blocked thread's second mutex is held by its successor as the first. The
  induction is over a set of threads, by the well-founded order of the naturals.
- Mailbox: types, `Control` (who may hold the lock, who waits and what the
  mailbox and `reports_in` are at each pair of program counters), `CountInv` (each
  count is the number of word ends up to `pos`) and `TotalInv`. That a signal finds
  its receiver depends on all of it: the two workers' positions, the waiters
  and the mailbox determine each other.
- Partition: `Promise` itself is inductive. The work is in `Release`, where the block
  that is freed may be joined with one on either side.
- MemoryManager, the sums: `Sound` = types, `MemoryConserved` and `Untouched` (while
  `flag` is 0 nothing is allocated and the free list is the whole memory or empty, so
  that setting the size again loses nothing). `MemoryConserved` alone is not inductive: it does not know that `flag`
  stands for an unused memory.
- MemoryManager, the refinement: `Kept` = the allocated blocks are numbered downwards,
  below the next pid (`Numbered`), and, while intact and at the menu, the two lists as
  sets of blocks divide the memory and no two nodes of the free list overlap
  (`Divided`). The numbering is needed as `Partition` has sets and the manager lists:
  with different pids, a node less in the list is a block less in the set, and a
  new process has a pid that no other has. Each menu
  operation is shown to be one of the moves of the partition, or none (`Goes`,
  `Moved`): a request takes a part of one block, a kill gives one back.
- The sorts and `merge` are folds. What a fold leaves is stated of the function of
  its intermediate values (`FoldPrefixes`): after the pair (i, j) the list is a
  rearrangement of the first (`Shuffled`) in which the nodes before the i-th, and the i-th
  as far as it was compared, are in order (`Ordered`); after j nodes `merge` has
  blocks apart from each other that hold the same addresses (`Merging`). The induction is
  over a set of indices (`UpTo`), by the well-founded order of the naturals, so
  that no operator has to be a parameter.
- `KilledComesBack` holds of lists that are no longer a division of the memory, too, so
  that `Merging` is of no use: `Holding` says only that after j nodes `merge` holds the
  addresses of the first j and no others, which needs sizes that are not negative and that
  `Join` adds up two blocks only where they touch (`HoldingStep`). That it was this kill and
  no other step follows from the numbering of the processes (`OnlyAKill`).
- SemClock: types, `Belongs` (which objects a process at each point has),
  `Undos` (the bounds of the adjustments) and, unless disturbed, `Orderly`: those
  inside hold the current set, the values count them, the adjustments are exact,
  a writer is alone, and a half-written segment has a writer. Exclusion alone is
  not inductive: it needs the counts, which need the exact adjustments when a
  process dies.
- PollServer: types, `Places` (a client is nowhere, queued, behind one descriptor or
  closed, which is what makes the lowest free number free), `Entries` (table and
  descriptor table name each other, once), `Reports` (what poll has reported and the scan
  has not reached is still so) and `Counted` (`ready_number` before and after the
  listening socket is served). `NothingBlocks` alone is not inductive: at the
  `poll` nothing of it is left, and what `poll` reports has to survive the serving of
  the other entries, a connection put into an entry that was free, and the clients.
- EpollServer: the network's part (types, `Places`, `Inboxes`) and the server's, which
  is stated with `Ready`, the set of the descriptors that are ready: each lemma about a
  call (`AcceptIs`, `CloseIs`, `ReadIs` ...) says what it does to that set, and each
  lemma about an action what follows for the server. `Pending`: the events to come are of
  different descriptors, all in `Ready`; `Reading`: the socket that is read is open and
  none of them is of it; `Counters`: n and i count events as long as the loop over them
  goes on; `Known`: `OnlyKnownStalls`. `EventsAreValid` alone is not inductive: that an
  event survives the closing of another descriptor needs the events to be of different
  ones, and that an edge of a client lists the right one needs that a client that was
  accepted has exactly one.
- DemosProofs: the conjunction of one invariant per module. As a step of one module
  leaves the variables of the others and `program` alone, each needs only that its own
  steps keep it; `MCDemos` gives the modules' constants and renames their variables,
  and the proofs are about the instances.
  - `SelectInv`: what of the typed lines is sent, in the buffer or waiting adds up, and
    with a terminal the buffer is empty outside of `fgets`.
  - `ModulesInv`: for each module a table of the places of its entry and exit functions
    with what is held there; the list of `02list.c` as the range of its nodes. That a
    handler runs implies that it is held.
  - `TreesInv`: `Family` (who is not born has no parent, no child and was not waited for) and one
    invariant per program. For `fork_face.c`, `Pending` says how many forks a process
    and its descendants have still to make, so that there are processes enough, and
    `Dashes` how many dashes they will have written: with what is printed they are
    eight at every step. `MostChildren` bounds the children by the place in the loops,
    so that who has left the loop of `wait` has none.
  - `ThreadsInv`: the mutex of `thread.c` belongs to who is between its lock and unlock
    (`Turns`), and there is a function of the partial sums of the counters whose last
    value is `main_counter`, or one more while a worker is between its two increments
    (`Adds`). The function stands for main's loop, and needs no fold: a counter that
    grows by one adds one to all later partial sums, modulo `Modulus`. In `rwrite.c` a
    writer is alone (`Alone`).
  - `TimeInv`: `Places` (a connection waits to be made, is queued, is served or is
    behind the server, and only the last can be `broken`), `Buffered` (what stdio holds at
    each call), `Sent` (a segment is a whole answer, the only one of its connection, which
    is behind the server) and `Expecting` (who reads has an answer before it or will be
    served, unless the server has ended). `ClientsDoNotEndIt` alone says nothing of those
    still queued, and that one read is enough nothing of what the buffer holds before
    `fclose`.
  - `PipesInv`, in `PipesProofs`: `Table` says for each function and each of its steps
    which of its six descriptors a process has open and on what, so that end of file, and
    who waits, follow from the places of the two processes. `Flow` says that what was written
    is what was read followed by what the pipe and the stdio buffer hold; one invariant per
    program adds where the two processes can be together and how many lines are on their
    way. `Answers` says of the lines of dc that the j-th answers the j-th request up to the
    first line that is a second one. `AnswersInStep` alone says nothing between two
    requests, and `OnlyFullPipesBlock` nothing of who holds the other end of a pipe.
  - `TypesInv`, for `TypeOK`, is inductive together with all of these. `PipePlaces` rests on
    `CodeIsClosed`: in every function of `Pipes!Code`, where a call goes on is a step of that
    function or the first of another. `TreePlace` ties each process's counter and dashes to
    its place in the loop that forks, and `TreeOutput` the dashes written to the number of
    the processes that have ended. `AllThreadTypes` says where main and the workers can
    be, `SelectTypes` that answers, lines sent and lines typed are in that order.
    `TypeOK` alone is not inductive: a counter at its limit could be increased.

Only model-checked:

- liveness (`EndsOrCircle`, `BothReported`, `EveryoneIsServed`, `ServedOrStalled`,
  `EveryoneGoesOn`), which is beyond the prover with fairness, and
  `SomebodyCanGoOn`, which contains `ENABLED`: its guard form is proved
  (`NotAllWaitHolds`);
- the five violations, which are behaviours TLC exhibits and not theorems.

Every other property of the passing runs is stated by one of the theorems.

## 5. Not modelled, and the plan

Not modelled, with the reason:

- `IPC/p_shm.c`, `lessons_os/shm_ts.c`: the clock without any lock. Every mixture of
  two times may be printed and no comment promises otherwise, so nothing is left to
  state.
- `IPC/p_filelock.c`: does not compile (`BUFLEN` and `0_SYNC` are not defined, `fd` is
  undeclared), and which descriptor the client reads depends on the repair.
- `IPC/udp_socket_s.c`, `udp_dgram.c`: do not compile (`struct hostent`); what is left
  of the datagram demos is a client that sends once.
- `IPC/time_serve_socketdemo1.c`, `time_clint_socketdemo1.c`, `socket_lib.c`: do not
  compile (`SPCL_STREAM`, a declaration as an argument, functions that are missing).
- the first `main` of `IO_select.c`: watches `fd2`, which is never opened (line 48
  assigns `fd1` twice), so that it has no defined behaviour.
- `Gdb/multhread.c`: races on purpose, as an exercise for the debugger.
- `my_kprobe/demo.c`: `demo1.c` with another symbol, and does not compile.
- `kernel/01lkp.c`, `memspace_show.c`, `memvma_show.c`, `pte_init.c`, `store_addr.c`: print
  addresses, or write page tables in code that does not compile.
- `Gdb/heoo.c`, `houge.c`, `Complie/`, `cpcc_demo/`, `lessons_os/hello.c`: sequential
  exercises in debugging and building.
- `load_monitor.mod.c`: generated. Formatting and printing everywhere.

The order of work was by how much the interleavings matter: philosophers, mailbox,
clock, memory manager, the two servers, the pipes, and then the small programs of
`MCDemos`; then the proofs, in the same order, the memory manager last. What the
prover can reach of the properties that the runs check is proved; what is left for later is
liveness, should a prover for fairness and `ENABLED` become available.
