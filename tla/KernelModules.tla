---- MODULE KernelModules ----
(***************************************************************************)
(* Kernel modules that are loaded and unloaded: what their entry functions  *)
(* take, what they give back when a step fails, and what their exit         *)
(* functions give back.  memory_test/memalloc.c ("memalloc"), v_topaddr.c   *)
(* ("v2p") and memvma_ptf.c ("memtest"), kernel/02list.c ("mylist") and     *)
(* 03task.c ("task"), my_kprobe/demo1.c ("kprobe"), loadtest/main.c         *)
(* ("monitor").                                                             *)
(*                                                                          *)
(* A function is a sequence of steps.  memalloc.c is read with its three    *)
(* misspelt names (MOUDLE_LICENSE, GFP_KRENEL, kfree_page) corrected.       *)
(***************************************************************************)
EXTENDS Integers, Sequences

CONSTANT N      \* nodes of 02list.c's list

Program == {"memalloc", "v2p", "memtest", "mylist", "task", "kprobe", "monitor"}

\* Steps.  Get takes what may not be there and Check may fail: they go on at
\* step fail then, and 0 is a NULL dereference.
Get(what, fail) == [step |-> "get", what |-> what, fail |-> fail]
Check(fail) == [step |-> "check", fail |-> fail]
Put(what) == [step |-> "put", what |-> what]
StartTimer == [step |-> "start"]
Return(result) == [step |-> "return", result |-> result]

\* What can be taken; Handler is a probe or a timer.
Page == <<"page", 0>>
Kmalloc == <<"kmalloc", 0>>
Vmalloc == <<"vmalloc", 0>>
Handler == <<"handler", 0>>
Node(k) == <<"node", k>>

----------------------------------------------------------------------------
(* The entry functions; Return("out") stands for a result that is not 0.   *)

\* Mutant of MemallocInit: the two labels are swapped.
MemallocInitSwapped == <<
    Get(Page, 7), Get(Kmalloc, 5), Get(Vmalloc, 6), Return("in"),
    Put(Kmalloc), Put(Page), Return("out")>>

MemallocInit == <<
    Get(Page, 7), Get(Kmalloc, 6), Get(Vmalloc, 5), Return("in"),
    Put(Kmalloc),                                 \* 5: fail1
    Put(Page),                                    \* 6: fail2
    Return("out")>>                                 \* 7: fail3

\* Without a page the module is loaded all the same.
V2pInit == <<Get(Page, 2), Return("in")>>

\* pid may be nobody's, or that of a kernel thread, which has no mm.
MemtestInit == <<Check(0), Return("in")>>

MylistInit == [k \in 1 .. N + 1 |->
                 IF k <= N THEN Get(Node(k), 0) ELSE Return("in")]

TaskInit == <<Return("in")>>

KprobeInit == <<Get(Handler, 3), Return("in"), Return("out")>>

\* Mutant of MonitorInit: the timer is started before the look up.
MonitorInitEarly == <<StartTimer, Check(4), Return("in"), Return("out")>>

MonitorInit == <<Check(4), StartTimer, Return("in"), Return("out")>>

Entry == [memalloc |-> MemallocInit, v2p |-> V2pInit, memtest |-> MemtestInit,
          mylist |-> MylistInit, task |-> TaskInit, kprobe |-> KprobeInit,
          monitor |-> MonitorInit]

----------------------------------------------------------------------------
(* The exit functions.                                                     *)

MemallocExit == <<Put(Vmalloc), Put(Kmalloc), Put(Page), Return("out")>>

\* v2p_exit frees the global vaddr, which v2p_init's local one hides: it is 0.
V2pExit == <<Return("out")>>

MylistExit == [k \in 1 .. N + 1 |->
                 IF k <= N THEN Put(Node(k)) ELSE Return("out")]

KprobeExit == <<Put(Handler), Return("out")>>
MonitorExit == <<Put(Handler), Return("out")>>

Leave == [memalloc |-> MemallocExit, v2p |-> V2pExit,
          memtest |-> <<Return("out")>>, mylist |-> MylistExit,
          task |-> <<Return("out")>>, kprobe |-> KprobeExit,
          monitor |-> MonitorExit]

----------------------------------------------------------------------------
VARIABLES
    program,    \* the module
    at,         \* "out", "in", "oops", or in "init" or "exit" before a step
    held,       \* what the module holds
    ready,      \* whether the last Check has succeeded: ptr_avenrun
    handler     \* "idle" or "running"

vars == <<program, at, held, ready, handler>>

Place(fn, n) == [fn |-> fn, n |-> n]

TypeOK ==
    /\ \/ at.fn \in {"out", "in", "oops"} /\ at.n = 0
       \/ at.fn = "init" /\ at.n \in DOMAIN Entry[program]
       \/ at.fn = "exit" /\ at.n \in DOMAIN Leave[program]
    /\ held \subseteq {Page, Kmalloc, Vmalloc, Handler}
                      \cup {Node(k) : k \in 1 .. N}
    /\ ready \in BOOLEAN
    /\ handler \in {"idle", "running"}

Start ==
    /\ at = Place("out", 0)
    /\ held = {} /\ ready = FALSE /\ handler = "idle"

Init == program \in Program /\ Start

Does(step) ==
    \/ at.fn = "init" /\ Entry[program][at.n].step = step
    \/ at.fn = "exit" /\ Leave[program][at.n].step = step
This == IF at.fn = "init" THEN Entry[program][at.n] ELSE Leave[program][at.n]

GoOn == at' = [at EXCEPT !.n = @ + 1]
Fail(label) == at' = IF label = 0 THEN Place("oops", 0) ELSE Place(at.fn, label)

----------------------------------------------------------------------------
(* Loading, unloading and the steps                                        *)

Insmod ==
    /\ program \in Program /\ at.fn = "out"
    /\ at' = Place("init", 1)
    /\ UNCHANGED <<program, held, ready, handler>>

Rmmod ==
    /\ at.fn = "in"
    /\ at' = Place("exit", 1)
    /\ UNCHANGED <<program, held, ready, handler>>

DoGet ==
    /\ Does("get")
    /\ \/ GoOn /\ held' = held \cup {This.what}
       \/ Fail(This.fail) /\ UNCHANGED held
    /\ UNCHANGED <<program, ready, handler>>

DoCheck ==
    /\ Does("check")
    /\ \/ GoOn /\ ready' = TRUE
       \/ Fail(This.fail) /\ ready' = FALSE
    /\ UNCHANGED <<program, held, handler>>

DoStartTimer ==
    /\ Does("start")
    /\ held' = held \cup {Handler} /\ GoOn
    /\ UNCHANGED <<program, ready, handler>>

\* Mutant of DoPut: hrtimer_try_to_cancel, which does not wait.
DoPutAtOnce ==
    /\ Does("put")
    /\ held' = held \ {This.what} /\ GoOn
    /\ UNCHANGED <<program, ready, handler>>

\* A probe and a timer are only gone when their handler has returned
\* (unregister_kprobe, hrtimer_cancel).
DoPut ==
    /\ Does("put")
    /\ This.what = Handler => handler = "idle"
    /\ held' = held \ {This.what} /\ GoOn
    /\ UNCHANGED <<program, ready, handler>>

DoReturn ==
    /\ Does("return")
    /\ at' = Place(This.result, 0)
    /\ UNCHANGED <<program, held, ready, handler>>

\* The probed function is called, or the timer expires; monitor_handler
\* restarts its timer every time.
HandlerRuns ==
    /\ Handler \in held
    /\ handler' = IF handler = "idle" THEN "running" ELSE "idle"
    /\ UNCHANGED <<program, at, held, ready>>

Step == DoGet \/ DoCheck \/ DoStartTimer \/ DoPut \/ DoReturn \/ HandlerRuns

Next == Insmod \/ Rmmod \/ Step

Spec == Init /\ [][Next]_vars

----------------------------------------------------------------------------
(* Properties                                                              *)

\* Whichever step of loading has failed, and whatever the handler was doing
\* when the module was unloaded: a module that is out holds nothing and none
\* of its code runs, except that v_topaddr.c loses its page; only a list node
\* or a task that is not there is dereferenced; and a timer that runs has
\* found avenrun.
NothingLeftBehind ==
    /\ at.fn = "out" /\ program # "v2p" => held = {} /\ handler = "idle"
    /\ at.fn = "oops" => program \in {"mylist", "memtest"}
    /\ handler = "running" /\ program = "monitor" => ready

====
