---- MODULE DemosProofs ----
(***************************************************************************)
(* The demo programs for any values of their parameters.  Every module of   *)
(* MCDemos has an invariant of its own, which its Next keeps and which the  *)
(* other modules do not touch.                                              *)
(***************************************************************************)
EXTENDS PipesProofs, FiniteSetTheorems, SequenceTheorems, WellFoundedInduction, TLAPS

----------------------------------------------------------------------------
(* SelectClient: no line is lost between the user, stdio and the socket.    *)

SelectInv ==
    /\ lines \in Nat /\ waiting \in Nat /\ buffered \in Nat /\ lines_sent \in Nat
    /\ answers \in Nat
    /\ lines = lines_sent + buffered + waiting
    /\ stdin = "terminal" => buffered = 0

LEMMA SelectStart == Select!Start => SelectInv
BY DEF Select!Start, SelectInv

LEMMA FgetsKeeps ==
    ASSUME SelectInv, Select!Fgets, buffered + waiting > 0,
           stdin = "terminal" => waiting > 0, UNCHANGED <<stdin, lines, answers>>,
           lines_sent' = lines_sent + 1
    PROVE  SelectInv'
<1>1. CASE buffered > 0
    BY <1>1 DEF SelectInv, Select!Fgets
<1>2. CASE ~ buffered > 0
    <2>1. buffered = 0 /\ waiting > 0
        BY <1>2 DEF SelectInv
    <2>2. CASE stdin = "terminal"
        BY <2>1, <2>2 DEF SelectInv, Select!Fgets
    <2>3. CASE stdin # "terminal"
        BY <2>1, <2>3 DEF SelectInv, Select!Fgets
    <2> QED BY <2>2, <2>3
<1> QED BY <1>1, <1>2

LEMMA SelectKeeps == SelectInv /\ Select!Next => SelectInv'
<1> SUFFICES ASSUME SelectInv, Select!Next PROVE SelectInv'
    OBVIOUS
<1> USE DEF Select!user, Select!server
<1>1. CASE Select!Select
    BY <1>1 DEF SelectInv, Select!Select
<1>2. CASE Select!TestSocket
    <2>1. answers' \in Nat
        <3>1. CASE \E k \in 1 .. answers : answers' = answers - k
            BY <3>1 DEF SelectInv
        <3>2. CASE UNCHANGED answers
            BY <3>2 DEF SelectInv
        <3> QED BY <1>2, <3>1, <3>2 DEF Select!TestSocket
    <2>2. UNCHANGED <<lines, stdin, waiting, buffered, lines_sent>>
        BY <1>2 DEF Select!TestSocket
    <2> QED BY <2>1, <2>2 DEF SelectInv
<1>3. CASE Select!TestStdin
    <2>1. UNCHANGED <<stdin, lines, answers>>
        BY <1>3 DEF Select!TestStdin
    <2>2. CASE buffered + waiting > 0 /\ Select!Fgets /\ lines_sent' = lines_sent + 1
        <3>1. stdin = "terminal" => waiting > 0
            BY <2>2 DEF SelectInv
        <3> QED BY <2>1, <2>2, <3>1, FgetsKeeps
    <2>3. CASE UNCHANGED <<waiting, buffered, lines_sent>>
        BY <2>1, <2>3 DEF SelectInv
    <2> QED BY <1>3, <2>2, <2>3 DEF Select!TestStdin
<1>4. CASE Select!Error
    BY <1>4 DEF SelectInv, Select!Error
<1>5. CASE Select!Type
    BY <1>5 DEF SelectInv, Select!Type
<1>6. CASE Select!Serve
    BY <1>6 DEF SelectInv, Select!Serve
<1> QED BY <1>1, <1>2, <1>3, <1>4, <1>5, <1>6 DEF Select!Next, Select!Step

LEMMA SelectStays == SelectInv /\ UNCHANGED selectVars => SelectInv'
BY DEF SelectInv, selectVars

\* IO_select.c, lines 113 to 150: while select blocks, no line waits, be it the
\* user's or the server's, and no line of a terminal is left in stdio.
LEMMA SelectPromise == SelectInv => NoLineWaits
BY DEF SelectInv, NoLineWaits, Select!NoLineWaits, Select!Asked, Select!allreads,
       Select!Readable, Select!Fd

----------------------------------------------------------------------------
(* KernelModules: what a module holds follows from where it is.            *)

\* The module is at one of these steps of its entry or exit function, or rests.
At(fn, steps) == \E k \in steps : module_at = Modules!Place(fn, k)
Rests(fn) == module_at = Modules!Place(fn, 0)

MemallocInv ==
    \/ /\ Rests("out") \/ At("init", {1, 7}) \/ At("exit", {4})
       /\ held = {}
    \/ /\ At("init", {2, 6}) \/ At("exit", {3})
       /\ held = {Modules!Page}
    \/ /\ At("init", {3, 5}) \/ At("exit", {2})
       /\ held = {Modules!Page, Modules!Kmalloc}
    \/ /\ Rests("in") \/ At("init", {4}) \/ At("exit", {1})
       /\ held = {Modules!Page, Modules!Kmalloc, Modules!Vmalloc}

V2pInv ==
    /\ held \subseteq {Modules!Page}
    /\ Rests("out") \/ At("init", {1, 2}) \/ Rests("in") \/ At("exit", {1})

MemtestInv ==
    /\ held = {}
    /\ \/ Rests("out") \/ At("init", {1, 2}) \/ Rests("in") \/ At("exit", {1})
       \/ Rests("oops")

TaskInv ==
    /\ held = {}
    /\ Rests("out") \/ At("init", {1}) \/ Rests("in") \/ At("exit", {1})

\* The nodes are taken and freed from the first to the last.
Nodes(from, to) == {Modules!Node(k) : k \in from .. to}

MylistInv ==
    \/ Rests("out") /\ held = {}
    \/ \E k \in 1 .. N + 1 :
          module_at = Modules!Place("init", k) /\ held = Nodes(1, k - 1)
    \/ Rests("in") /\ held = Nodes(1, N)
    \/ \E k \in 1 .. N + 1 :
          module_at = Modules!Place("exit", k) /\ held = Nodes(k, N)
    \/ Rests("oops") /\ held \subseteq Nodes(1, N)

KprobeInv ==
    \/ /\ Rests("out") \/ At("init", {1, 3}) \/ At("exit", {2})
       /\ held = {}
    \/ /\ Rests("in") \/ At("init", {2}) \/ At("exit", {1})
       /\ held = {Modules!Handler}

MonitorInv ==
    \/ /\ Rests("out") \/ At("init", {1, 4}) \/ At("exit", {2})
       /\ held = {}
    \/ At("init", {2}) /\ held = {} /\ ready
    \/ /\ Rests("in") \/ At("init", {3}) \/ At("exit", {1})
       /\ held = {Modules!Handler} /\ ready

ModulesInv ==
    /\ handler \in {"idle", "running"}
    /\ handler = "running" => Modules!Handler \in held
    /\ program = "memalloc" => MemallocInv
    /\ program = "v2p" => V2pInv
    /\ program = "memtest" => MemtestInv
    /\ program = "mylist" => MylistInv
    /\ program = "task" => TaskInv
    /\ program = "kprobe" => KprobeInv
    /\ program = "monitor" => MonitorInv
    /\ program \notin Modules!Program => Rests("out") /\ held = {}

LEMMA ModulesStart == Modules!Start => ModulesInv
BY DEF Modules!Start, ModulesInv, MemallocInv, V2pInv, MemtestInv, MylistInv, TaskInv,
       KprobeInv, MonitorInv, Rests, At, Modules!Place, Modules!Program

LEMMA ThingsDiffer ==
    /\ Modules!Page # Modules!Kmalloc /\ Modules!Page # Modules!Vmalloc
    /\ Modules!Kmalloc # Modules!Vmalloc
    /\ \A t \in {Modules!Page, Modules!Kmalloc, Modules!Vmalloc} : Modules!Handler # t
    /\ \A k : Modules!Handler # Modules!Node(k)
    /\ \A j, k : Modules!Node(j) = Modules!Node(k) => j = k
BY DEF Modules!Page, Modules!Kmalloc, Modules!Vmalloc, Modules!Handler, Modules!Node

\* One step of a module whose functions are known.
LEMMA MemallocKeeps ==
    ASSUME program = "memalloc", MemallocInv, Modules!Next PROVE MemallocInv'
<1> USE ThingsDiffer
    DEF Modules!Place, Modules!Entry, Modules!Leave, Modules!MemallocInit,
        Modules!MemallocExit, Modules!Get, Modules!Put, Modules!Return,
        Modules!Does, Modules!This, Modules!GoOn, Modules!Fail, At, Rests
<1>1. CASE Modules!Insmod \/ Modules!Rmmod \/ Modules!DoReturn \/ Modules!HandlerRuns
    BY <1>1 DEF Modules!Insmod, Modules!Rmmod, Modules!DoReturn,
                Modules!HandlerRuns, MemallocInv
<1>2. CASE Modules!DoGet \/ Modules!DoCheck \/ Modules!DoStartTimer
    BY <1>2 DEF Modules!DoGet, Modules!DoCheck, Modules!DoStartTimer, MemallocInv
<1>3. CASE Modules!DoPut
    <2> DEFINE P == Modules!Page
               K == Modules!Kmalloc
               V == Modules!Vmalloc
    <2>1. \/ At("init", {6})' /\ held = {P, K} /\ held' = held \ {K}
          \/ At("init", {7})' /\ held = {P} /\ held' = held \ {P}
          \/ At("exit", {2})' /\ held = {P, K, V} /\ held' = held \ {V}
          \/ At("exit", {3})' /\ held = {P, K} /\ held' = held \ {K}
          \/ At("exit", {4})' /\ held = {P} /\ held' = held \ {P}
        BY <1>3 DEF Modules!DoPut, MemallocInv
    <2>2. {P, K, V} \ {V} = {P, K} /\ {P, K} \ {K} = {P} /\ {P} \ {P} = {}
        OBVIOUS
    <2> HIDE DEF At, Modules!Place
    <2>3. \/ At("init", {6})' /\ held' = {P}
          \/ At("init", {7})' /\ held' = {}
          \/ At("exit", {2})' /\ held' = {P, K}
          \/ At("exit", {3})' /\ held' = {P}
          \/ At("exit", {4})' /\ held' = {}
        BY <2>1, <2>2
    <2> QED BY <2>3 DEF MemallocInv, At
<1> QED BY <1>1, <1>2, <1>3 DEF Modules!Next, Modules!Step

\* These functions are a step or two.
LEMMA SmallModulesKeep ==
    ASSUME Modules!Next
    PROVE  /\ program = "v2p" /\ V2pInv => V2pInv'
           /\ program = "memtest" /\ MemtestInv => MemtestInv'
           /\ program = "task" /\ TaskInv => TaskInv'
           /\ program = "kprobe" /\ KprobeInv => KprobeInv'
           /\ program = "monitor" /\ MonitorInv => MonitorInv'
<1> USE ThingsDiffer
    DEF Modules!Next, Modules!Step, Modules!Insmod, Modules!Rmmod, Modules!DoGet,
        Modules!DoCheck, Modules!DoStartTimer, Modules!DoPut, Modules!DoReturn,
        Modules!HandlerRuns, Modules!Place, Modules!Entry, Modules!Leave,
        Modules!Get, Modules!Check, Modules!Put, Modules!StartTimer, Modules!Return,
        Modules!Does, Modules!This, Modules!GoOn, Modules!Fail, At, Rests
<1>1. program = "v2p" /\ V2pInv => V2pInv'
    BY DEF V2pInv, Modules!V2pInit, Modules!V2pExit
<1>2. program = "memtest" /\ MemtestInv => MemtestInv'
    BY DEF MemtestInv, Modules!MemtestInit
<1>3. program = "task" /\ TaskInv => TaskInv'
    BY DEF TaskInv, Modules!TaskInit
<1>4. program = "kprobe" /\ KprobeInv => KprobeInv'
    BY DEF KprobeInv, Modules!KprobeInit, Modules!KprobeExit
<1>5. program = "monitor" /\ MonitorInv => MonitorInv'
    BY DEF MonitorInv, Modules!MonitorInit, Modules!MonitorExit
<1> QED BY <1>1, <1>2, <1>3, <1>4, <1>5

\* One node more is taken, or one node less is held.
LEMMA MylistKeeps ==
    ASSUME program = "mylist", MylistInv, Modules!Next PROVE MylistInv'
<1> USE DEF Rests, Modules!Place
<1>1. /\ N \in Nat \ {0} /\ Modules!Entry["mylist"] = Modules!MylistInit
      /\ Modules!Leave["mylist"] = Modules!MylistExit
    BY DemosAssumption DEF Modules!Entry, Modules!Leave
<1>2. \A k \in 1 .. N + 1 :
         /\ Modules!MylistInit[k] = IF k <= N THEN Modules!Get(Modules!Node(k), 0)
                                              ELSE Modules!Return("in")
         /\ Modules!MylistExit[k] = IF k <= N THEN Modules!Put(Modules!Node(k))
                                              ELSE Modules!Return("out")
    BY DEF Modules!MylistInit, Modules!MylistExit
<1>3. CASE Rests("out") /\ held = {}
    <2>1. Nodes(1, 0) = {}
        BY DEF Nodes
    <2>2. \/ module_at' = Modules!Place("init", 1) /\ held' = {}
          \/ UNCHANGED <<module_at, held>>
        BY <1>3, ThingsDiffer
        DEF Modules!Next, Modules!Step, Modules!Insmod, Modules!Rmmod, Modules!DoGet,
            Modules!DoCheck, Modules!DoStartTimer, Modules!DoPut, Modules!DoReturn,
            Modules!HandlerRuns, Modules!Does
    <2> QED BY <1>1, <1>3, <2>1, <2>2 DEF MylistInv
<1>4. ASSUME NEW k \in 1 .. N + 1, module_at = Modules!Place("init", k),
             held = Nodes(1, k - 1)
      PROVE  MylistInv'
    <2>1. \/ k <= N /\ module_at' = Modules!Place("init", k + 1)
             /\ held' = held \cup {Modules!Node(k)}
          \/ k <= N /\ Rests("oops")' /\ UNCHANGED held
          \/ k = N + 1 /\ Rests("in")' /\ UNCHANGED held
          \/ UNCHANGED <<module_at, held>>
        <3>1. module_at.fn = "init" /\ module_at.n = k
            BY <1>4
        <3>2. CASE k <= N
            <4>1. Modules!Entry[program][k] = Modules!Get(Modules!Node(k), 0)
                BY <1>1, <1>2, <3>2
            <4> QED BY <1>4, <3>1, <3>2, <4>1
                DEF Modules!Next, Modules!Step, Modules!Insmod, Modules!Rmmod, Modules!DoGet,
                    Modules!DoCheck, Modules!DoStartTimer, Modules!DoPut, Modules!DoReturn,
                    Modules!HandlerRuns, Modules!Does, Modules!This,
                    Modules!GoOn, Modules!Fail, Modules!Get
        <3>3. CASE k = N + 1
            <4>1. Modules!Entry[program][k] = Modules!Return("in")
                BY <1>1, <1>2, <3>3
            <4> QED BY <1>4, <3>1, <3>3, <4>1
                DEF Modules!Next, Modules!Step, Modules!Insmod, Modules!Rmmod, Modules!DoGet,
                    Modules!DoCheck, Modules!DoStartTimer, Modules!DoPut, Modules!DoReturn,
                    Modules!HandlerRuns, Modules!Does, Modules!This,
                    Modules!Return
        <3> QED BY <1>1, <3>2, <3>3
    <2>2. Nodes(1, k - 1) \cup {Modules!Node(k)} = Nodes(1, (k + 1) - 1)
        BY DEF Nodes
    <2>3. k <= N => k + 1 \in 1 .. N + 1 /\ Nodes(1, k - 1) \subseteq Nodes(1, N)
        BY <1>1 DEF Nodes
    <2>4. k = N + 1 => Nodes(1, k - 1) = Nodes(1, N)
        BY <1>1
    <2> QED BY <1>4, <2>1, <2>2, <2>3, <2>4 DEF MylistInv
<1>5. CASE Rests("in") /\ held = Nodes(1, N)
    <2>1. \/ module_at' = Modules!Place("exit", 1) /\ UNCHANGED held
          \/ UNCHANGED <<module_at, held>>
        BY <1>5
        DEF Modules!Next, Modules!Step, Modules!Insmod, Modules!Rmmod, Modules!DoGet,
            Modules!DoCheck, Modules!DoStartTimer, Modules!DoPut, Modules!DoReturn,
            Modules!HandlerRuns, Modules!Does
    <2> QED BY <1>1, <1>5, <2>1 DEF MylistInv
<1>6. ASSUME NEW k \in 1 .. N + 1, module_at = Modules!Place("exit", k),
             held = Nodes(k, N)
      PROVE  MylistInv'
    <2>1. \/ k <= N /\ module_at' = Modules!Place("exit", k + 1)
             /\ held' = held \ {Modules!Node(k)}
          \/ k = N + 1 /\ Rests("out")' /\ UNCHANGED held
          \/ UNCHANGED <<module_at, held>>
        <3>1. module_at.fn = "exit" /\ module_at.n = k
            BY <1>6
        <3>2. CASE k <= N
            <4>1. Modules!Leave[program][k] = Modules!Put(Modules!Node(k))
                BY <1>1, <1>2, <3>2
            <4> QED BY <1>6, <3>1, <3>2, <4>1
                DEF Modules!Next, Modules!Step, Modules!Insmod, Modules!Rmmod, Modules!DoGet,
                    Modules!DoCheck, Modules!DoStartTimer, Modules!DoPut, Modules!DoReturn,
                    Modules!HandlerRuns, Modules!Does, Modules!This,
                    Modules!GoOn, Modules!Put
        <3>3. CASE k = N + 1
            <4>1. Modules!Leave[program][k] = Modules!Return("out")
                BY <1>1, <1>2, <3>3
            <4> QED BY <1>6, <3>1, <3>3, <4>1
                DEF Modules!Next, Modules!Step, Modules!Insmod, Modules!Rmmod, Modules!DoGet,
                    Modules!DoCheck, Modules!DoStartTimer, Modules!DoPut, Modules!DoReturn,
                    Modules!HandlerRuns, Modules!Does, Modules!This,
                    Modules!Return
        <3> QED BY <1>1, <3>2, <3>3
    <2>2. Nodes(k, N) \ {Modules!Node(k)} = Nodes(k + 1, N)
        BY <1>1, ThingsDiffer DEF Nodes
    <2>3. k = N + 1 => Nodes(k, N) = {}
        BY <1>1 DEF Nodes
    <2>4. k <= N => k + 1 \in 1 .. N + 1
        BY <1>1
    <2> QED BY <1>6, <2>1, <2>2, <2>3, <2>4 DEF MylistInv
<1>7. CASE Rests("oops") /\ held \subseteq Nodes(1, N)
    <2>1. UNCHANGED <<module_at, held>>
        BY <1>7
        DEF Modules!Next, Modules!Step, Modules!Insmod, Modules!Rmmod, Modules!DoGet,
            Modules!DoCheck, Modules!DoStartTimer, Modules!DoPut, Modules!DoReturn,
            Modules!HandlerRuns, Modules!Does
    <2> QED BY <1>7, <2>1 DEF MylistInv
<1> QED BY <1>3, <1>4, <1>5, <1>6, <1>7 DEF MylistInv

LEMMA ModulesKeep == ModulesInv /\ Modules!Next => ModulesInv'
<1> SUFFICES ASSUME ModulesInv, Modules!Next PROVE ModulesInv'
    OBVIOUS
<1>1. UNCHANGED program
    BY DEF Modules!Next, Modules!Step, Modules!Insmod, Modules!Rmmod, Modules!DoGet,
           Modules!DoCheck, Modules!DoStartTimer, Modules!DoPut, Modules!DoReturn,
           Modules!HandlerRuns
<1>2. handler' \in {"idle", "running"} /\ (handler' = "running" => Modules!Handler \in held')
    BY DEF Modules!Next, Modules!Step, Modules!Insmod, Modules!Rmmod, Modules!DoGet,
           Modules!DoCheck, Modules!DoStartTimer, Modules!DoPut, Modules!DoReturn,
           Modules!HandlerRuns, ModulesInv
<1>3. program \notin Modules!Program => UNCHANGED <<module_at, held>>
    BY DEF Modules!Next, Modules!Step, Modules!Insmod, Modules!Rmmod, Modules!DoGet,
           Modules!DoCheck, Modules!DoStartTimer, Modules!DoPut, Modules!DoReturn,
           Modules!HandlerRuns, Modules!Does, ModulesInv, Rests, Modules!Place
<1>4. program \notin Modules!Program => (Rests("out") /\ held = {})'
    BY <1>3 DEF ModulesInv, Rests
<1> QED BY <1>1, <1>2, <1>4, MemallocKeeps, SmallModulesKeep, MylistKeeps DEF ModulesInv

LEMMA ModulesStay == ModulesInv /\ UNCHANGED <<program, moduleVars>> => ModulesInv'
BY DEF ModulesInv, moduleVars, MemallocInv, V2pInv, MemtestInv, MylistInv, TaskInv,
       KprobeInv, MonitorInv, Rests, At

LEMMA ModulesPromise == ModulesInv => NothingLeftBehind
<1> SUFFICES ASSUME ModulesInv PROVE NothingLeftBehind
    OBVIOUS
<1> USE DEF At, Rests, Modules!Place
<1>1. module_at.fn = "out" /\ program # "v2p" => held = {} /\ handler = "idle"
    BY DEF ModulesInv, MemallocInv, MemtestInv, MylistInv, TaskInv, KprobeInv,
           MonitorInv, Modules!Program
<1>2. module_at.fn = "oops" => program \in {"mylist", "memtest"}
    BY DEF ModulesInv, MemallocInv, V2pInv, TaskInv, KprobeInv, MonitorInv,
           Modules!Program
<1>3. handler = "running" /\ program = "monitor" => ready
    BY DEF ModulesInv, MonitorInv
<1> QED BY <1>1, <1>2, <1>3 DEF NothingLeftBehind, Modules!NothingLeftBehind

----------------------------------------------------------------------------
(* ProcessTrees: the forks are few enough for the processes there are, and  *)
(* a process ends when it has no child left.                                *)

Process == Trees!Process
Born(p) == tree_at[p] # "unborn"

Family ==
    /\ tree_at \in [Process -> {"unborn", "fork", "print", "wait", "type", "loop",
                                "poll", "exit", "over"}]
    /\ parent \in [Process -> Process \cup {Trees!Nobody}]
    /\ i \in [Process -> Nat] /\ stdout \in [Process -> Nat] /\ printed \in Nat
    /\ \A c \in Process : ~ Born(c) =>
          /\ parent[c] = Trees!Nobody /\ \A d \in Process : parent[d] # c
          /\ c \notin reaped
    /\ reaped \subseteq Process /\ \A c \in reaped : tree_at[c] = "over"

\* How many processes p and the processes it will fork have still to create,
Pending(p) ==
    CASE tree_at[p] = "fork" /\ i[p] = 0 -> 3
      [] tree_at[p] = "fork" /\ i[p] = 1 -> 1
      [] tree_at[p] = "print" /\ i[p] = 0 -> 1
      [] OTHER -> 0

\* and how many dashes they will have written when the last of them ends.
Dashes(p) ==
    CASE tree_at[p] = "fork" /\ i[p] = 0 -> 4 * (stdout[p] + 2)
      [] tree_at[p] = "fork" /\ i[p] = 1 -> 2 * (stdout[p] + 1)
      [] tree_at[p] = "print" /\ i[p] = 0 -> 2 * (stdout[p] + 2)
      [] tree_at[p] = "print" /\ i[p] = 1 -> stdout[p] + 1
      [] tree_at[p] \in {"wait", "exit"} -> stdout[p]
      [] OTHER -> 0

\* The children a process of fork_face.c has at most, and then still waits for.
MostChildren(p) ==
    CASE tree_at[p] \in {"fork", "wait"} -> i[p]
      [] tree_at[p] = "print" -> i[p] + 1
      [] OTHER -> 0

FaceLoop ==
    \A p \in Process :
        /\ tree_at[p] \notin {"type", "loop", "poll"}
        /\ tree_at[p] \in {"fork", "print"} => i[p] \in 0 .. 1
        /\ tree_at[p] = "wait" => i[p] \in 1 .. 2
        /\ Cardinality(Trees!Children(p)) <= MostChildren(p)

\* Processes are numbered from 0 to the last that was born; only the first two
\* fork, and only the first forks twice.
FaceForks ==
    /\ Born(0)
    /\ \A p \in Process : Pending(p) > 0 => p \in 0 .. 1
    /\ \A p \in Process : tree_at[p] = "fork" /\ i[p] = 0 => p = 0 /\ ~ Born(1)
    /\ \A c \in Process : Born(c) /\ c # 0 => parent[c] \in 0 .. c - 1
    /\ \E last \in 0 .. 3 :
          /\ \A p \in Process : Born(p) <=> p <= last
          /\ last + Pending(0) + Pending(1) <= 3

FaceInv ==
    /\ FaceLoop /\ FaceForks
    /\ ~ failed => printed + Dashes(0) + Dashes(1) + Dashes(2) + Dashes(3) = 8

\* Only the first process forks, limit times at most.
OneParent(limit) ==
    /\ Born(0)
    /\ \A c \in Process : parent[c] \in {0, Trees!Nobody}
    /\ tree_at[0] = "fork" =>
          i[0] < limit /\ \A p \in Process : p > i[0] => ~ Born(p)

CreateInv ==
    /\ OneParent(MAX_CHILD_NUMBER)
    /\ tree_at[0] \in {"fork", "type", "over"}
    /\ \A p \in Process \ {0} : tree_at[p] \in {"unborn", "loop", "over"}
    /\ tree_at[0] = "over" => \A p \in Process : ~ Trees!Alive(p)

MulInv ==
    /\ OneParent(INT_PTX)
    /\ tree_at[0] \in {"fork", "poll", "exit", "over"}
    /\ \A p \in Process \ {0} : tree_at[p] \in {"unborn", "exit", "over"}
    /\ tree_at[0] \in {"exit", "over"} => Trees!Children(0) = {}

TreesInv ==
    \/ program = "child"
    \/ /\ Family
       /\ program = "face" => FaceInv
       /\ program = "create" => CreateInv
       /\ program = "mul" => MulInv
       /\ program \notin Trees!Program => \A p \in Process : ~ Born(p)

LEMMA Processes ==
    \E m \in Nat : /\ Process = 0 .. m /\ m >= 3
                   /\ m >= MAX_CHILD_NUMBER /\ m >= INT_PTX
<1> DEFINE S == {3, MAX_CHILD_NUMBER, INT_PTX}
<1>1. S \subseteq Nat
    BY DemosAssumption
<1>2. \E m \in S : \A k \in S : m >= k
    BY <1>1
<1>3. Trees!Max(S) \in S /\ \A k \in S : Trees!Max(S) >= k
    BY <1>2 DEF Trees!Max
<1> QED BY <1>1, <1>3 DEF Process, Trees!Process

LEMMA ProcessFacts ==
    /\ 0 .. 3 \subseteq Process /\ Process \subseteq Nat /\ IsFiniteSet(Process)
    /\ Trees!Nobody \notin Process
    /\ MAX_CHILD_NUMBER \in Process \ {0} /\ INT_PTX \in Process \ {0}
<1>1. PICK m \in Nat : /\ Process = 0 .. m /\ m >= 3
                       /\ m >= MAX_CHILD_NUMBER /\ m >= INT_PTX
    BY Processes
<1>2. IsFiniteSet(0 .. m)
    BY FS_Interval
<1> QED BY <1>1, <1>2, DemosAssumption DEF Trees!Nobody

\* fork gives the child the lowest number that is free.
LEMMA FirstFree ==
    ASSUME NEW q \in Process, ~ Born(q)
    PROVE  LET c == Trees!Min({r \in Process : tree_at[r] = "unborn"})
           IN  c \in Process /\ ~ Born(c) /\ \A r \in Process : ~ Born(r) => c <= r
<1> DEFINE T == {r \in Process : tree_at[r] = "unborn"}
<1>1. T \subseteq Nat /\ T # {}
    BY ProcessFacts DEF Born
<1>2. \E m \in T : \A k \in T : m <= k
    <2> DEFINE Less == OpToRel(<, Nat)
    <2>1. IsWellFoundedOn(Less, Nat)
        BY NatLessThanWellFounded
    <2>2. \A x, y \in Nat : <<x, y>> \in Less <=> x < y
        BY DEF OpToRel
    <2> HIDE DEF Less
    <2> HIDE DEF T
    <2>3. \E m \in T : \A k \in T : ~ (<<k, m>> \in Less)
        BY <1>1, <2>1, WFMin
    <2>4. PICK m \in T : \A k \in T : ~ (<<k, m>> \in Less)
        BY <2>3
    <2>5. ASSUME NEW k \in T PROVE m <= k
        <3>1. m \in Nat /\ k \in Nat /\ ~ (k < m)
            BY <1>1, <2>2, <2>4
        <3> QED BY <3>1
    <2> QED BY <2>5
<1>3. Trees!Min(T) \in T /\ \A k \in T : Trees!Min(T) <= k
    BY <1>2 DEF Trees!Min
<1> QED BY <1>3 DEF Born

\* What a fork does to the family: c is a new child of p.
LEMMA ForkKeepsFamily ==
    ASSUME Family, NEW p \in Process, NEW c \in Process, Born(p), ~ Born(c),
           tree_at[p] # "over", Born(p)', Born(c)', tree_at'[p] # "over",
           tree_at' \in [Process -> {"unborn", "fork", "print", "wait", "type",
                                     "loop", "poll", "exit", "over"}],
           \A q \in Process \ {p, c} : tree_at'[q] = tree_at[q],
           parent' = [parent EXCEPT ![c] = p],
           i' \in [Process -> Nat],
           stdout' = [stdout EXCEPT ![c] = stdout[p]],
           UNCHANGED <<reaped, printed>>
    PROVE  /\ Family'
           /\ Trees!Children(p)' = Trees!Children(p) \cup {c}
           /\ \A q \in Process \ {p} : Trees!Children(q)' = Trees!Children(q)
           /\ Trees!Children(c) = {}
<1>1. parent \in [Process -> Process \cup {Trees!Nobody}] /\ p # c
    BY DEF Family
<1>2. parent'[c] = p /\ \A q \in Process : q # c => parent'[q] = parent[q]
    BY <1>1
<1>3. parent[c] = Trees!Nobody /\ c \notin reaped /\ \A d \in Process : parent[d] # c
    BY DEF Family
<1>4. \A q \in Process : Born(q)' <=> Born(q) \/ q = c
    BY DEF Born
<1>5. Family'
    <2>1. parent' \in [Process -> Process \cup {Trees!Nobody}]
        BY <1>1
    <2>2. stdout' \in [Process -> Nat] /\ printed' \in Nat
        BY DEF Family
    <2>3. \A d \in Process : ~ Born(d)' =>
             /\ parent'[d] = Trees!Nobody /\ \A e \in Process : parent'[e] # d
             /\ d \notin reaped'
        BY <1>2, <1>3, <1>4 DEF Family
    <2>4. \A d \in reaped' : tree_at'[d] = "over"
        BY <1>3 DEF Family
    <2>5. reaped' \subseteq Process
        BY DEF Family
    <2> QED BY <2>1, <2>2, <2>3, <2>4, <2>5 DEF Family
<1>6. Trees!Children(p)' = Trees!Children(p) \cup {c}
    BY <1>2, <1>3 DEF Trees!Children, Process
<1>7. \A q \in Process \ {p} : Trees!Children(q)' = Trees!Children(q)
    BY <1>2, <1>3, ProcessFacts DEF Trees!Children, Process
<1>8. Trees!Children(c) = {}
    BY <1>3 DEF Trees!Children, Process
<1> QED BY <1>5, <1>6, <1>7, <1>8

LEMMA ChildrenFinite ==
    \A p : /\ IsFiniteSet(Trees!Children(p)) /\ Trees!Children(p) \subseteq Process
           /\ Cardinality(Trees!Children(p)) \in Nat
<1> SUFFICES ASSUME NEW p
             PROVE /\ IsFiniteSet(Trees!Children(p)) /\ Trees!Children(p) \subseteq Process
                   /\ Cardinality(Trees!Children(p)) \in Nat
    OBVIOUS
<1>1. Trees!Children(p) \subseteq Process
    BY DEF Trees!Children, Process
<1>2. IsFiniteSet(Trees!Children(p))
    BY <1>1, ProcessFacts, FS_Subset
<1> QED BY <1>1, <1>2, FS_CardinalityType

\* fork_face.c: a fork makes two processes of one, which share its dashes.
LEMMA FaceForkKeeps ==
    ASSUME program = "face", Family, FaceInv, NEW p \in Process, Trees!Fork(p)
    PROVE  Family' /\ FaceInv'
<1>0. PICK c : c = Trees!Min({q \in Process : tree_at[q] = "unborn"})
    OBVIOUS
<1>1. /\ tree_at[p] = "fork"
      /\ tree_at' = [tree_at EXCEPT ![p] = "print", ![c] = "print"]
      /\ parent' = [parent EXCEPT ![c] = p]
      /\ i' = [i EXCEPT ![p] = i[p], ![c] = i[p]]
      /\ stdout' = [stdout EXCEPT ![c] = stdout[p]]
      /\ UNCHANGED <<reaped, printed, failed>>
    BY <1>0 DEF Trees!Fork, Trees!ParentGoesTo, Trees!ChildGoesTo, Process
<1>2. i[p] \in 0 .. 1 /\ Pending(p) > 0 /\ p \in 0 .. 1
    <2>1. i[p] \in 0 .. 1
        BY <1>1 DEF FaceInv, FaceLoop
    <2>2. Pending(p) > 0
        BY <1>1, <2>1 DEF Pending
    <2> QED BY <2>1, <2>2 DEF FaceInv, FaceForks
<1>3. PICK last \in 0 .. 3 :
         /\ \A q \in Process : Born(q) <=> q <= last
         /\ last + Pending(0) + Pending(1) <= 3
    BY DEF FaceInv, FaceForks
<1>4. Pending(0) \in Nat /\ Pending(1) \in Nat
    BY DEF Pending
<1>5. last + 1 \in 1 .. 3 /\ last + 1 \in Process
    <2>1. last <= 2
        BY <1>2, <1>3, <1>4
    <2>2. last + 1 \in 0 .. 3
        BY <2>1
    <2> QED BY <2>1, <2>2, ProcessFacts
<1>6. c = last + 1 /\ c \in Process /\ ~ Born(c)
    <2>1. ~ Born(last + 1)
        BY <1>3, <1>5
    <2>2. c \in Process /\ ~ Born(c) /\ c <= last + 1
        BY <1>0, <1>5, <2>1, FirstFree
    <2>3. c > last
        BY <1>3, <2>2, ProcessFacts
    <2> QED BY <2>2, <2>3, ProcessFacts
<1>7. p # c /\ Born(p) /\ p < c
    <2>1. Born(p)
        BY <1>1 DEF Born
    <2> QED BY <1>3, <1>5, <1>6, <2>1, ProcessFacts
<1>8. /\ tree_at \in [Process -> {"unborn", "fork", "print", "wait", "type", "loop",
                                 "poll", "exit", "over"}]
      /\ i \in [Process -> Nat] /\ stdout \in [Process -> Nat] /\ printed \in Nat
      /\ parent \in [Process -> Process \cup {Trees!Nobody}]
    BY DEF Family
<1>9. /\ tree_at'[p] = "print" /\ tree_at'[c] = "print"
      /\ i'[p] = i[p] /\ i'[c] = i[p]
      /\ stdout'[p] = stdout[p] /\ stdout'[c] = stdout[p]
      /\ \A q \in Process \ {p, c} :
            tree_at'[q] = tree_at[q] /\ i'[q] = i[q] /\ stdout'[q] = stdout[q]
    BY <1>1, <1>6, <1>7, <1>8
<1>10. /\ Family'
       /\ Trees!Children(p)' = Trees!Children(p) \cup {c}
       /\ \A q \in Process \ {p} : Trees!Children(q)' = Trees!Children(q)
       /\ Trees!Children(c) = {}
    <2>1. tree_at' \in [Process -> {"unborn", "fork", "print", "wait", "type",
                                    "loop", "poll", "exit", "over"}]
        BY <1>1, <1>8
    <2>2. i' \in [Process -> Nat]
        BY <1>1, <1>8
    <2>3. tree_at[p] # "over" /\ Born(p)' /\ Born(c)' /\ tree_at'[p] # "over"
        BY <1>1, <1>9 DEF Born
    <2> QED BY <1>1, <1>6, <1>7, <1>9, <2>1, <2>2, <2>3, ForkKeepsFamily
<1>11. FaceLoop'
    <2> SUFFICES ASSUME NEW q \in Process
                 PROVE  /\ tree_at'[q] \notin {"type", "loop", "poll"}
                        /\ tree_at'[q] \in {"fork", "print"} => i'[q] \in 0 .. 1
                        /\ tree_at'[q] = "wait" => i'[q] \in 1 .. 2
                        /\ Cardinality(Trees!Children(q)') <= MostChildren(q)'
        BY DEF FaceLoop
    <2>1. CASE q = p
        <3>1. Cardinality(Trees!Children(p)) <= i[p]
            BY <1>1 DEF FaceInv, FaceLoop, MostChildren
        <3>2. Cardinality(Trees!Children(p) \cup {c}) =
                 IF c \in Trees!Children(p) THEN Cardinality(Trees!Children(p))
                                            ELSE Cardinality(Trees!Children(p)) + 1
            BY ChildrenFinite, FS_AddElement
        <3>3. Cardinality(Trees!Children(p)') <= i[p] + 1
            BY <1>2, <1>10, <3>1, <3>2, ChildrenFinite
        <3>4. MostChildren(p)' = i[p] + 1
            BY <1>9 DEF MostChildren
        <3> QED BY <1>2, <1>9, <2>1, <3>3, <3>4
    <2>2. CASE q = c
        <3>1. MostChildren(c)' = i[p] + 1
            BY <1>9 DEF MostChildren
        <3>2. Cardinality(Trees!Children(c)') = 0
            BY <1>6, <1>7, <1>10, FS_EmptySet
        <3> QED BY <1>2, <1>9, <2>2, <3>1, <3>2
    <2>3. CASE q # p /\ q # c
        <3>1. MostChildren(q)' = MostChildren(q)
            BY <1>9, <2>3 DEF MostChildren
        <3> QED BY <1>9, <1>10, <2>3, <3>1 DEF FaceInv, FaceLoop
    <2> QED BY <2>1, <2>2, <2>3
<1>12. /\ Pending(p)' = (IF i[p] = 0 THEN 1 ELSE 0) /\ Pending(c)' = Pending(p)'
       /\ Pending(p) = (IF i[p] = 0 THEN 3 ELSE 1) /\ Pending(c) = 0
       /\ \A q \in Process \ {p, c} : Pending(q)' = Pending(q)
    <2>1. Pending(p)' = (IF i[p] = 0 THEN 1 ELSE 0) /\ Pending(c)' = Pending(p)'
        BY <1>2, <1>9 DEF Pending
    <2>2. Pending(p) = IF i[p] = 0 THEN 3 ELSE 1
        BY <1>1, <1>2 DEF Pending
    <2>3. Pending(c) = 0
        BY <1>6 DEF Pending, Born
    <2>4. \A q \in Process \ {p, c} : Pending(q)' = Pending(q)
        BY <1>9 DEF Pending
    <2> QED BY <2>1, <2>2, <2>3, <2>4
<1>13. i[p] = 0 => p = 0 /\ c = 1 /\ last = 0
    <2>1. i[p] = 0 => p = 0 /\ ~ Born(1)
        BY <1>1 DEF FaceInv, FaceForks
    <2> QED BY <1>3, <1>6, <2>1, ProcessFacts
<1>14. FaceForks'
    <2>1. \A q \in Process : Born(q)' <=> Born(q) \/ q = c
        BY <1>7, <1>9 DEF Born
    <2>2. \A q \in Process : Born(q)' <=> q <= c
        BY <1>3, <1>6, <2>1, ProcessFacts
    <2>3. \A q \in Process : Pending(q)' > 0 => q \in 0 .. 1
        BY <1>2, <1>12, <1>13 DEF FaceInv, FaceForks
    <2>4. \A q \in Process : tree_at'[q] = "fork" /\ i'[q] = 0 => q = 0 /\ ~ Born(1)'
        <3> SUFFICES ASSUME NEW q \in Process, tree_at'[q] = "fork", i'[q] = 0
                     PROVE  FALSE
            OBVIOUS
        <3>1. q # p /\ q # c /\ tree_at[q] = "fork" /\ i[q] = 0
            BY <1>9
        <3>2. q = 0 /\ ~ Born(1)
            BY <3>1 DEF FaceInv, FaceForks
        <3>3. p = 1
            BY <1>2, <3>1, <3>2
        <3> QED BY <1>7, <3>2, <3>3
    <2>5. \A d \in Process : Born(d)' /\ d # 0 => parent'[d] \in 0 .. d - 1
        <3>1. parent'[c] = p /\ \A d \in Process \ {c} : parent'[d] = parent[d]
            BY <1>1, <1>6, <1>8
        <3>2. p \in 0 .. c - 1
            BY <1>7, <1>2, <1>5, <1>6
        <3> QED BY <2>1, <3>1, <3>2 DEF FaceInv, FaceForks
    <2>6. c + Pending(0)' + Pending(1)' <= 3
        <3>1. CASE i[p] = 0
            BY <1>12, <1>13, <3>1
        <3>2. CASE i[p] = 1 /\ p = 0 /\ c = 1
            BY <1>3, <1>4, <1>6, <1>12, <3>2
        <3>3. CASE i[p] = 1 /\ p = 0 /\ c # 1
            <4>1. 1 \in Process \ {p, c}
                BY <3>3, ProcessFacts
            <4> QED BY <1>3, <1>4, <1>6, <1>12, <3>3, <4>1
        <3>4. CASE i[p] = 1 /\ p = 1
            <4>1. 0 \in Process \ {p, c}
                BY <1>5, <1>6, <3>4, ProcessFacts
            <4> QED BY <1>3, <1>4, <1>6, <1>12, <3>4, <4>1
        <3> QED BY <1>2, <3>1, <3>2, <3>3, <3>4
    <2>7. Born(0)'
        BY <2>2, <1>6, <1>5, ProcessFacts
    <2>8. c \in 0 .. 3
        BY <1>5, <1>6
    <2> QED BY <2>2, <2>3, <2>4, <2>5, <2>6, <2>7, <2>8 DEF FaceForks
<1>15. ~ failed => printed + Dashes(0)' + Dashes(1)' + Dashes(2)' + Dashes(3)' = 8
    <2>1. /\ Dashes(p)' = (IF i[p] = 0 THEN 2 * (stdout[p] + 2) ELSE stdout[p] + 1)
          /\ Dashes(c)' = Dashes(p)' /\ Dashes(c) = 0
          /\ Dashes(p) = (IF i[p] = 0 THEN 4 * (stdout[p] + 2) ELSE 2 * (stdout[p] + 1))
          /\ \A q \in Process \ {p, c} : Dashes(q)' = Dashes(q)
        <3>1. Dashes(p)' = IF i[p] = 0 THEN 2 * (stdout[p] + 2) ELSE stdout[p] + 1
            BY <1>2, <1>9 DEF Dashes
        <3>2. Dashes(c)' = IF i[p] = 0 THEN 2 * (stdout[p] + 2) ELSE stdout[p] + 1
            BY <1>2, <1>9 DEF Dashes
        <3>3. Dashes(p) = IF i[p] = 0 THEN 4 * (stdout[p] + 2) ELSE 2 * (stdout[p] + 1)
            BY <1>1, <1>2 DEF Dashes
        <3>4. Dashes(c) = 0
            BY <1>6 DEF Dashes, Born
        <3>5. \A q \in Process \ {p, c} : Dashes(q)' = Dashes(q)
            BY <1>9 DEF Dashes
        <3> QED BY <3>1, <3>2, <3>3, <3>4, <3>5
    <2>2. \A q \in 0 .. 3 : Dashes(q) \in Int /\ Dashes(q)' \in Int
        <3>1. stdout' \in [Process -> Nat] /\ i' \in [Process -> Nat]
            BY <1>10 DEF Family
        <3> QED BY <1>8, <3>1, ProcessFacts DEF Dashes
    <2>3. Dashes(p)' + Dashes(c)' = Dashes(p) + Dashes(c)
        BY <1>8, <2>1
    <2>4. Dashes(0)' + Dashes(1)' + Dashes(2)' + Dashes(3)' =
             Dashes(0) + Dashes(1) + Dashes(2) + Dashes(3)
        <3>1. p \in 0 .. 3 /\ c \in 0 .. 3
            BY <1>2, <1>5, <1>6
        <3>2. \A q \in 0 .. 3 : q # p /\ q # c => Dashes(q)' = Dashes(q)
            BY <2>1, ProcessFacts
        <3> HIDE DEF Dashes
        <3> QED BY <1>7, <2>2, <2>3, <3>1, <3>2
    <2> QED BY <2>2, <2>4, <1>8 DEF FaceInv
<1> QED BY <1>1, <1>10, <1>11, <1>14, <1>15 DEF FaceInv

\* A step of p alone, which may reap children that have ended.
LEMMA StepKeepsFamily ==
    ASSUME Family, NEW p \in Process, tree_at[p] \notin {"unborn", "over"},
           NEW place \in {"fork", "print", "wait", "type", "loop", "poll", "exit", "over"},
           tree_at' = [tree_at EXCEPT ![p] = place],
           UNCHANGED parent, i' \in [Process -> Nat], stdout' \in [Process -> Nat],
           printed' \in Nat,
           reaped \subseteq reaped',
           \A c \in reaped' : c \in reaped \/ (c \in Process /\ tree_at[c] = "over")
    PROVE  /\ Family'
           /\ \A q \in Process : Born(q)' <=> Born(q)
           /\ tree_at'[p] = place
           /\ \A q \in Process \ {p} : tree_at'[q] = tree_at[q]
           /\ \A q : /\ Trees!Children(q)' \subseteq Trees!Children(q)
                     /\ Cardinality(Trees!Children(q)') <= Cardinality(Trees!Children(q))
                     /\ Cardinality(Trees!Children(q)') \in Nat
<1>1. /\ tree_at'[p] = place /\ \A q \in Process \ {p} : tree_at'[q] = tree_at[q]
      /\ tree_at' \in [Process -> {"unborn", "fork", "print", "wait", "type", "loop",
                                   "poll", "exit", "over"}]
    BY DEF Family
<1>2. \A q \in Process : Born(q)' <=> Born(q)
    BY <1>1 DEF Born
<1>3. Family'
    <2>1. \A c \in reaped' : c # p /\ c \in Process /\ tree_at'[c] = "over"
        BY <1>1 DEF Family
    <2>2. \A c \in Process : ~ Born(c)' =>
             /\ parent'[c] = Trees!Nobody /\ \A d \in Process : parent'[d] # c
             /\ c \notin reaped'
        BY <1>2 DEF Family, Born
    <2> QED BY <1>1, <2>1, <2>2 DEF Family
<1>4. \A q : Trees!Children(q)' \subseteq Trees!Children(q)
    BY DEF Trees!Children
<1>5. ASSUME NEW q
      PROVE  /\ Cardinality(Trees!Children(q)') <= Cardinality(Trees!Children(q))
             /\ Cardinality(Trees!Children(q)') \in Nat
    <2>1. IsFiniteSet(Trees!Children(q)) /\ Trees!Children(q)' \in SUBSET Trees!Children(q)
        BY <1>4, ChildrenFinite
    <2>2. /\ IsFiniteSet(Trees!Children(q)')
          /\ Cardinality(Trees!Children(q)') <= Cardinality(Trees!Children(q))
        BY <2>1, FS_Subset
    <2> QED BY <2>2, FS_CardinalityType
<1> QED BY <1>1, <1>2, <1>3, <1>4, <1>5

\* It leaves the tree as it is when p has less left to fork.
LEMMA StepKeepsForks ==
    ASSUME FaceForks, NEW p \in Process, UNCHANGED parent,
           \A q \in Process : Born(q)' <=> Born(q),
           Pending(p)' <= Pending(p),
           \A q \in Process \ {p} : tree_at'[q] = tree_at[q] /\ i'[q] = i[q],
           ~ (tree_at'[p] = "fork" /\ i'[p] = 0)
    PROVE  FaceForks'
<1>1. \A q \in Process \ {p} : Pending(q)' = Pending(q)
    BY DEF Pending
<1>2. \A q \in Process : Pending(q) \in Nat /\ Pending(q)' \in Nat
    BY DEF Pending
<1>3. \A q \in Process : Pending(q)' <= Pending(q)
    BY <1>1, <1>2
<1> 0 \in Process /\ 1 \in Process
    BY ProcessFacts
<1>4. \A q \in Process : Pending(q)' > 0 => q \in 0 .. 1
    BY <1>2, <1>3 DEF FaceForks
<1>5. \A q \in Process : tree_at'[q] = "fork" /\ i'[q] = 0 => q = 0 /\ ~ Born(1)'
    BY DEF FaceForks
<1>6. \E last \in 0 .. 3 :
         /\ \A q \in Process : Born(q)' <=> q <= last
         /\ last + Pending(0)' + Pending(1)' <= 3
    BY <1>2, <1>3 DEF FaceForks
<1>7. Born(0)' /\ \A c \in Process : Born(c)' /\ c # 0 => parent'[c] \in 0 .. c - 1
    BY DEF FaceForks
<1> QED BY <1>4, <1>5, <1>6, <1>7 DEF FaceForks

\* Nor are dashes lost or made up when p's share moves with it.
LEMMA StepKeepsDashes ==
    ASSUME NEW p \in 0 .. 3, Family, Family',
           printed + Dashes(0) + Dashes(1) + Dashes(2) + Dashes(3) = 8,
           printed' + Dashes(p)' = printed + Dashes(p),
           \A q \in Process \ {p} :
              tree_at'[q] = tree_at[q] /\ i'[q] = i[q] /\ stdout'[q] = stdout[q]
    PROVE  printed' + Dashes(0)' + Dashes(1)' + Dashes(2)' + Dashes(3)' = 8
<1>1. \A q \in 0 .. 3 : Dashes(q) \in Int /\ Dashes(q)' \in Int
    <2>1. /\ stdout \in [Process -> Nat] /\ i \in [Process -> Nat]
          /\ stdout' \in [Process -> Nat] /\ i' \in [Process -> Nat]
        BY DEF Family
    <2> QED BY <2>1, ProcessFacts DEF Dashes
<1>2. \A q \in 0 .. 3 : q # p => Dashes(q)' = Dashes(q)
    BY ProcessFacts DEF Dashes
<1>3. printed \in Nat /\ printed' \in Nat
    BY DEF Family
<1> HIDE DEF Dashes
<1> QED BY <1>1, <1>2, <1>3

\* A step of p that does not fork keeps fork_face.c's invariant, when it moves
\* p's share of the dashes and of the forks to come the way the loop does.
LEMMA FaceAloneKeeps ==
    ASSUME Family, FaceInv, NEW p \in 0 .. 3, p \in Process,
           NEW place \in {"fork", "print", "wait", "exit", "over"},
           NEW n \in Nat, NEW d \in Nat,
           tree_at[p] \in {"fork", "print", "wait", "exit"},
           tree_at' = [tree_at EXCEPT ![p] = place],
           i' = [i EXCEPT ![p] = n], stdout' = [stdout EXCEPT ![p] = d],
           UNCHANGED parent, reaped \subseteq reaped',
           \A c \in reaped' : c \in reaped \/ (c \in Process /\ tree_at[c] = "over"),
           printed' \in Nat,
           place \in {"fork", "print"} => n \in 0 .. 1,
           place = "wait" => n \in 1 .. 2,
           ~ (place = "fork" /\ n = 0),
           Cardinality(Trees!Children(p)') <= MostChildren(p)',
           Pending(p)' <= Pending(p),
           ~ failed' => ~ failed /\ printed' + Dashes(p)' = printed + Dashes(p)
    PROVE  Family' /\ FaceInv'
<1>1. /\ i \in [Process -> Nat] /\ stdout \in [Process -> Nat]
      /\ tree_at \in [Process -> {"unborn", "fork", "print", "wait", "type", "loop",
                                  "poll", "exit", "over"}]
    BY DEF Family
<1>3. \A q \in Process :
         /\ tree_at[q] \notin {"type", "loop", "poll"}
         /\ tree_at[q] \in {"fork", "print"} => i[q] \in 0 .. 1
         /\ tree_at[q] = "wait" => i[q] \in 1 .. 2
         /\ Cardinality(Trees!Children(q)) <= MostChildren(q)
    BY DEF FaceInv, FaceLoop
<1>5. i' \in [Process -> Nat] /\ stdout' \in [Process -> Nat]
    BY <1>1
<1>6. /\ Family'
      /\ \A q \in Process : Born(q)' <=> Born(q)
      /\ tree_at'[p] = place
      /\ \A q \in Process \ {p} : tree_at'[q] = tree_at[q]
      /\ \A q : /\ Trees!Children(q)' \subseteq Trees!Children(q)
                /\ Cardinality(Trees!Children(q)') <= Cardinality(Trees!Children(q))
                /\ Cardinality(Trees!Children(q)') \in Nat
    BY <1>5, StepKeepsFamily
<1>7. /\ i'[p] = n /\ \A q \in Process \ {p} : i'[q] = i[q]
      /\ stdout'[p] = d /\ \A q \in Process \ {p} : stdout'[q] = stdout[q]
    BY <1>1
<1>8. FaceForks'
    BY <1>6, <1>7, StepKeepsForks DEF FaceInv
<1>9. ~ failed' => printed' + Dashes(0)' + Dashes(1)' + Dashes(2)' + Dashes(3)' = 8
    BY <1>6, <1>7, StepKeepsDashes DEF FaceInv
<1>10. FaceLoop'
    <2> SUFFICES ASSUME NEW q \in Process
                 PROVE  /\ tree_at'[q] \notin {"type", "loop", "poll"}
                        /\ tree_at'[q] \in {"fork", "print"} => i'[q] \in 0 .. 1
                        /\ tree_at'[q] = "wait" => i'[q] \in 1 .. 2
                        /\ Cardinality(Trees!Children(q)') <= MostChildren(q)'
        BY DEF FaceLoop
    <2>1. CASE q = p
        BY <1>6, <1>7, <2>1
    <2>2. CASE q # p
        <3>1. tree_at'[q] = tree_at[q] /\ i'[q] = i[q]
            BY <1>6, <1>7, <2>2
        <3>2. MostChildren(q)' = MostChildren(q) /\ MostChildren(q) \in Nat
            BY <1>1, <3>1 DEF MostChildren
        <3>3. Cardinality(Trees!Children(q)') <= MostChildren(q)
            BY <1>3, <1>6, <3>2, ChildrenFinite
        <3> QED BY <1>3, <3>1, <3>2, <3>3
    <2> QED BY <2>1, <2>2
<1> QED BY <1>6, <1>8, <1>9, <1>10 DEF FaceInv

\* The other steps of fork_face.c.
LEMMA FaceStepKeeps ==
    ASSUME program = "face", Family, FaceInv, NEW p \in Process, Trees!Step(p)
    PROVE  Family' /\ FaceInv'
<1>1. /\ i \in [Process -> Nat] /\ stdout \in [Process -> Nat] /\ printed \in Nat
      /\ tree_at \in [Process -> {"unborn", "fork", "print", "wait", "type", "loop",
                                  "poll", "exit", "over"}]
      /\ reaped \subseteq Process
    BY DEF Family
<1>2. /\ tree_at[p] \notin {"type", "loop", "poll"}
      /\ tree_at[p] \in {"fork", "print"} => i[p] \in 0 .. 1
      /\ tree_at[p] = "wait" => i[p] \in 1 .. 2
      /\ Cardinality(Trees!Children(p)) <= MostChildren(p)
    BY DEF FaceInv, FaceLoop
<1>3. ASSUME Born(p) PROVE p \in 0 .. 3
    BY <1>3, ProcessFacts DEF FaceInv, FaceForks
<1>4. i' = i => i' = [i EXCEPT ![p] = i[p]]
    BY <1>1
<1>5. stdout' = stdout => stdout' = [stdout EXCEPT ![p] = stdout[p]]
    BY <1>1
<1>6. CASE Trees!Fork(p)
    BY <1>6, FaceForkKeeps
<1>7. CASE Trees!ForkFails(p)
    <2>1. /\ tree_at[p] = "fork" /\ failed'
          /\ tree_at' = [tree_at EXCEPT ![p] = "print"]
          /\ i' = [i EXCEPT ![p] = i[p]]
          /\ UNCHANGED <<parent, reaped, stdout, printed>>
        BY <1>7 DEF Trees!ForkFails, Trees!ParentGoesTo, Trees!output
    <2>2. tree_at'[p] = "print" /\ i'[p] = i[p]
        BY <1>1, <2>1
    <2>3. Trees!Children(p)' = Trees!Children(p)
        BY <2>1 DEF Trees!Children
    <2>4. MostChildren(p) = i[p] /\ MostChildren(p)' = i[p] + 1
        BY <2>1, <2>2 DEF MostChildren
    <2>5. Cardinality(Trees!Children(p)') <= MostChildren(p)'
        BY <1>1, <1>2, <2>3, <2>4, ChildrenFinite
    <2>6. Pending(p)' <= Pending(p)
        BY <1>2, <2>1, <2>2 DEF Pending
    <2>7. p \in 0 .. 3
        BY <1>3, <2>1 DEF Born
    <2> QED BY <1>1, <1>2, <1>5, <2>1, <2>5, <2>6, <2>7, FaceAloneKeeps
<1>8. CASE Trees!Printf(p)
    <2>0. PICK place : place = IF i[p] + 1 < 2 THEN "fork" ELSE "wait"
        OBVIOUS
    <2>1. /\ tree_at[p] = "print" /\ i[p] \in 0 .. 1
          /\ tree_at' = [tree_at EXCEPT ![p] = place]
          /\ i' = [i EXCEPT ![p] = i[p] + 1]
          /\ stdout' = [stdout EXCEPT ![p] = stdout[p] + 1]
          /\ UNCHANGED <<parent, reaped, failed, printed>>
        BY <1>2, <1>8, <2>0 DEF Trees!Printf
    <2>2. /\ tree_at'[p] = place /\ i'[p] = i[p] + 1 /\ stdout'[p] = stdout[p] + 1
          /\ place \in {"fork", "wait"} /\ (place = "fork" <=> i[p] = 0)
        BY <1>1, <2>0, <2>1
    <2>3. Trees!Children(p)' = Trees!Children(p)
        BY <2>1 DEF Trees!Children
    <2>4. MostChildren(p) = i[p] + 1 /\ MostChildren(p)' = i[p] + 1
        BY <2>1, <2>2 DEF MostChildren
    <2>5. Cardinality(Trees!Children(p)') <= MostChildren(p)'
        BY <1>2, <2>3, <2>4
    <2>6. Pending(p)' <= Pending(p)
        BY <2>1, <2>2 DEF Pending
    <2>7. p \in 0 .. 3
        BY <1>3, <2>1 DEF Born
    <2>8. Dashes(p)' = Dashes(p)
        <3>1. CASE i[p] = 0
            BY <1>1, <2>1, <2>2, <3>1 DEF Dashes
        <3>2. CASE i[p] = 1
            BY <1>1, <2>1, <2>2, <3>2 DEF Dashes
        <3> QED BY <2>1, <3>1, <3>2
    <2>9. place = "wait" => i[p] + 1 \in 1 .. 2
        BY <2>1
    <2>10. i[p] + 1 \in Nat /\ stdout[p] + 1 \in Nat /\ ~ (place = "fork" /\ i[p] + 1 = 0)
           /\ (place \in {"fork", "print"} => i[p] + 1 \in 0 .. 1)
        BY <1>1, <2>1, <2>2
    <2> QED BY <1>1, <2>1, <2>2, <2>5, <2>6, <2>7, <2>8, <2>9, <2>10, FaceAloneKeeps
<1>9. CASE Trees!Wait(p)
    <2>0. PICK place : place = IF i[p] > 1 THEN "wait" ELSE "exit"
        OBVIOUS
    <2>1. /\ tree_at[p] = "wait" /\ i[p] \in 1 .. 2
          /\ tree_at' = [tree_at EXCEPT ![p] = place]
          /\ i' = [i EXCEPT ![p] = i[p] - 1]
          /\ UNCHANGED <<parent, failed, stdout, printed>>
        BY <1>2, <1>9, <2>0 DEF Trees!Wait, Trees!output
    <2>2. /\ tree_at'[p] = place /\ i'[p] = i[p] - 1 /\ i[p] - 1 \in Nat
          /\ place \in {"wait", "exit"} /\ (place = "wait" <=> i[p] = 2)
        BY <1>1, <2>0, <2>1
    <2>3. MostChildren(p) = i[p] /\ MostChildren(p)' = i[p] - 1
        BY <2>1, <2>2 DEF MostChildren
    <2>4. /\ reaped \subseteq reaped'
          /\ \A c \in reaped' : c \in reaped \/ (c \in Process /\ tree_at[c] = "over")
          /\ Cardinality(Trees!Children(p)') <= i[p] - 1
        <3>1. CASE \E c \in Trees!Children(p) :
                     tree_at[c] = "over" /\ reaped' = reaped \cup {c}
            <4>1. PICK c \in Trees!Children(p) :
                     tree_at[c] = "over" /\ reaped' = reaped \cup {c}
                BY <3>1
            <4>2. c \in Process
                BY ChildrenFinite
            <4>3. Trees!Children(p)' = Trees!Children(p) \ {c}
                BY <2>1, <4>1 DEF Trees!Children
            <4>4. Cardinality(Trees!Children(p) \ {c}) =
                     IF c \in Trees!Children(p) THEN Cardinality(Trees!Children(p)) - 1
                                                ELSE Cardinality(Trees!Children(p))
                BY ChildrenFinite, FS_RemoveElement
            <4>5. Cardinality(Trees!Children(p)) <= i[p]
                BY <1>2, <2>3
            <4>6. Cardinality(Trees!Children(p)') <= i[p] - 1
                BY <2>1, <4>3, <4>4, <4>5, ChildrenFinite
            <4> QED BY <4>1, <4>2, <4>6
        <3>2. CASE Trees!Children(p) = {} /\ UNCHANGED reaped
            <4>1. Trees!Children(p)' = {}
                BY <2>1, <3>2 DEF Trees!Children
            <4>2. Cardinality(Trees!Children(p)') = 0
                BY <4>1, FS_EmptySet
            <4> QED BY <2>1, <3>2, <4>2
        <3> QED BY <1>9, <3>1, <3>2 DEF Trees!Wait
    <2>5. Pending(p)' <= Pending(p)
        BY <2>1, <2>2 DEF Pending
    <2>6. p \in 0 .. 3
        BY <1>3, <2>1 DEF Born
    <2>7. Dashes(p)' = Dashes(p)
        BY <2>1, <2>2 DEF Dashes
    <2>8. place = "wait" => i[p] - 1 \in 1 .. 2
        BY <2>2
    <2>9. Cardinality(Trees!Children(p)') <= MostChildren(p)'
        BY <2>3, <2>4
    <2>10. ~ (place = "fork" /\ i[p] - 1 = 0) /\ place \notin {"fork", "print"}
        BY <2>2
    <2> QED BY <1>1, <1>5, <2>1, <2>2, <2>4, <2>5, <2>6, <2>7, <2>8, <2>9, <2>10, FaceAloneKeeps
<1>10. CASE Trees!Exit(p)
    <2>1. /\ tree_at[p] = "exit"
          /\ tree_at' = [tree_at EXCEPT ![p] = "over"]
          /\ printed' = printed + stdout[p]
          /\ UNCHANGED <<parent, reaped, i, stdout, failed>>
        BY <1>10 DEF Trees!Exit
    <2>2. tree_at'[p] = "over"
        BY <1>1, <2>1
    <2>3. Trees!Children(p)' = Trees!Children(p)
        BY <2>1 DEF Trees!Children
    <2>4. MostChildren(p) = 0 /\ MostChildren(p)' = 0
        BY <2>1, <2>2 DEF MostChildren
    <2>5. Cardinality(Trees!Children(p)') <= MostChildren(p)'
        BY <1>2, <2>3, <2>4
    <2>6. Pending(p)' <= Pending(p)
        BY <2>1, <2>2 DEF Pending
    <2>7. p \in 0 .. 3
        BY <1>3, <2>1 DEF Born
    <2>8. Dashes(p) = stdout[p] /\ Dashes(p)' = 0
        BY <2>1, <2>2 DEF Dashes
    <2>9. printed' \in Nat /\ printed' + Dashes(p)' = printed + Dashes(p)
        BY <1>1, <2>1, <2>8
    <2> QED BY <1>1, <1>4, <1>5, <2>1, <2>5, <2>6, <2>7, <2>9, FaceAloneKeeps
<1>11. ~ Trees!Poll(p)
    BY <1>2 DEF Trees!Poll
<1> QED BY <1>6, <1>7, <1>8, <1>9, <1>10, <1>11 DEF Trees!Step

\* fork_create.c and mulprogress.c: the first process forks, and the new child
\* has the next number at most.
LEMMA FirstForks ==
    ASSUME program \in {"create", "mul"}, Family,
           NEW limit \in Process \ {0}, limit = Trees!Limit, OneParent(limit),
           \A q \in Process \ {0} : tree_at[q] # "fork",
           NEW p \in Process, Trees!Fork(p)
    PROVE  /\ Family' /\ OneParent(limit)'
           /\ \E c \in Process \ {0} :
                 tree_at' = [tree_at EXCEPT
                    ![0] = IF i[0] + 1 < limit THEN "fork" ELSE Trees!After,
                    ![c] = Trees!ChildGoesTo]
<1>0. PICK c : c = Trees!Min({q \in Process : tree_at[q] = "unborn"})
    OBVIOUS
<1>1. p = 0 /\ tree_at[0] = "fork" /\ 0 \in Process
    BY DEF Trees!Fork
<1>2. /\ i[0] \in Nat /\ limit \in Nat /\ i[0] < limit
      /\ \A q \in Process : q > i[0] => ~ Born(q)
      /\ Born(0) /\ \A q \in Process : parent[q] \in {0, Trees!Nobody}
    BY <1>1, ProcessFacts DEF OneParent, Family
<1>3. i[0] + 1 \in Process /\ ~ Born(i[0] + 1)
    BY <1>2, Processes
<1>4. c \in Process /\ ~ Born(c) /\ c <= i[0] + 1
    BY <1>0, <1>3, FirstFree
<1>5. c # 0
    BY <1>1, <1>4 DEF Born
<1>6. PICK place : place = IF i[0] + 1 < limit THEN "fork" ELSE Trees!After
    OBVIOUS
<1>7. PICK child : child = Trees!ChildGoesTo
    OBVIOUS
<1>8. place \in {"fork", "type", "poll"} /\ child \in {"loop", "exit"}
    BY <1>6, <1>7 DEF Trees!After, Trees!ChildGoesTo
<1>9. /\ tree_at' = [tree_at EXCEPT ![0] = place, ![c] = child]
      /\ parent' = [parent EXCEPT ![c] = 0]
      /\ i' = [i EXCEPT ![0] = i[0] + 1, ![c] = i[0]]
      /\ stdout' = [stdout EXCEPT ![c] = stdout[0]]
      /\ UNCHANGED <<reaped, printed>>
    BY <1>0, <1>1, <1>6, <1>7 DEF Trees!Fork, Trees!ParentGoesTo, Process
<1>10. /\ tree_at \in [Process -> {"unborn", "fork", "print", "wait", "type", "loop",
                                   "poll", "exit", "over"}]
       /\ i \in [Process -> Nat] /\ parent \in [Process -> Process \cup {Trees!Nobody}]
    BY DEF Family
<1>11. /\ tree_at'[0] = place /\ tree_at'[c] = child
       /\ \A q \in Process \ {0, c} : tree_at'[q] = tree_at[q]
       /\ tree_at' \in [Process -> {"unborn", "fork", "print", "wait", "type", "loop",
                                    "poll", "exit", "over"}]
    BY <1>1, <1>4, <1>5, <1>8, <1>9, <1>10
<1>12. i'[0] = i[0] + 1 /\ i' \in [Process -> Nat]
    BY <1>1, <1>2, <1>4, <1>5, <1>9, <1>10
<1>13. Born(0)' /\ Born(c)' /\ tree_at'[0] # "over" /\ tree_at[0] # "over"
    BY <1>1, <1>8, <1>11 DEF Born
<1>14. Family'
    BY <1>1, <1>2, <1>4, <1>9, <1>11, <1>12, <1>13, ForkKeepsFamily
<1>15. \A q \in Process : q > i[0] + 1 => ~ Born(q)'
    <2> SUFFICES ASSUME NEW q \in Process, q > i[0] + 1 PROVE ~ Born(q)'
        OBVIOUS
    <2>1. q # 0 /\ q # c /\ q > i[0] /\ c \in Nat /\ q \in Nat
        BY <1>2, <1>4, ProcessFacts
    <2>2. tree_at'[q] = tree_at[q] /\ ~ Born(q)
        BY <1>2, <1>11, <2>1
    <2> QED BY <2>2 DEF Born
<1>16. \A q \in Process : parent'[q] \in {0, Trees!Nobody}
    BY <1>2, <1>4, <1>9, <1>10
<1>17. place = "fork" => i[0] + 1 < limit
    BY <1>6 DEF Trees!After
<1>18. OneParent(limit)'
    BY <1>11, <1>12, <1>13, <1>15, <1>16, <1>17 DEF OneParent
<1>19. \E e \in Process \ {0} : tree_at' = [tree_at EXCEPT
             ![0] = IF i[0] + 1 < limit THEN "fork" ELSE Trees!After,
             ![e] = Trees!ChildGoesTo]
    BY <1>4, <1>5, <1>6, <1>7, <1>9
<1> QED BY <1>14, <1>18, <1>19

\* A fork that fails, and the steps after the loop, leave the family as it is.
LEMMA FirstGoesOn ==
    ASSUME Family, NEW limit, OneParent(limit), NEW p \in Process,
           tree_at[p] \notin {"unborn", "over"},
           NEW place \in {"fork", "print", "wait", "type", "loop", "poll", "exit", "over"},
           tree_at' = [tree_at EXCEPT ![p] = place],
           UNCHANGED parent, i' \in [Process -> Nat], stdout' \in [Process -> Nat],
           printed' \in Nat, reaped \subseteq reaped',
           \A c \in reaped' : c \in reaped \/ (c \in Process /\ tree_at[c] = "over"),
           tree_at'[0] = "fork" => /\ tree_at[0] = "fork" /\ i'[0] < limit
                                   /\ i[0] \in Nat /\ i'[0] \in {i[0], i[0] + 1}
    PROVE  /\ Family' /\ OneParent(limit)' /\ tree_at'[p] = place
           /\ \A q \in Process \ {p} : tree_at'[q] = tree_at[q]
           /\ \A q : Trees!Children(q)' \subseteq Trees!Children(q)
<1>1. /\ Family'
      /\ \A q \in Process : Born(q)' <=> Born(q)
      /\ tree_at'[p] = place
      /\ \A q \in Process \ {p} : tree_at'[q] = tree_at[q]
      /\ \A q : Trees!Children(q)' \subseteq Trees!Children(q)
    BY StepKeepsFamily
<1>2. Born(0)' /\ \A c \in Process : parent'[c] \in {0, Trees!Nobody}
    BY <1>1, ProcessFacts DEF OneParent
<1>3. ASSUME tree_at'[0] = "fork", NEW q \in Process, q > i'[0]
      PROVE  ~ Born(q)'
    <2>1. q \in Nat /\ i[0] \in Nat /\ q > i[0]
        BY <1>3, ProcessFacts
    <2> QED BY <1>1, <1>3, <2>1 DEF OneParent
<1>4. OneParent(limit)'
    BY <1>2, <1>3 DEF OneParent
<1> QED BY <1>1, <1>4

\* kill.
LEMMA KillKeepsFamily ==
    ASSUME Family, NEW K,
           tree_at' = [q \in Process |-> IF q \in K THEN "over" ELSE tree_at[q]],
           UNCHANGED <<parent, reaped, i, stdout, printed>>
    PROVE  Family'
<1>1. tree_at' \in [Process -> {"unborn", "fork", "print", "wait", "type", "loop",
                                "poll", "exit", "over"}]
    BY DEF Family
<1>2. \A q \in Process : ~ Born(q)' => ~ Born(q)
    BY DEF Born
<1>3. \A c \in reaped' : tree_at'[c] = "over"
    BY DEF Family
<1>4. \A c \in Process : ~ Born(c)' =>
         /\ parent'[c] = Trees!Nobody /\ \A d \in Process : parent'[d] # c
         /\ c \notin reaped'
    BY <1>2 DEF Family
<1> QED BY <1>1, <1>3, <1>4 DEF Family

\* Who types in fork_create.c kills one child, all of them, or everybody.
LEMMA KillKeepsCreate ==
    ASSUME program = "create", Family, CreateInv, NEW target,
           tree_at[0] = "type", Trees!Kill(target),
           UNCHANGED <<parent, reaped, i, stdout, printed>>
    PROVE  Family' /\ CreateInv'
<1>0. PICK K : K = Trees!Killed(target)
    OBVIOUS
<1>1. tree_at' = [q \in Process |-> IF q \in K THEN "over" ELSE tree_at[q]]
    BY <1>0 DEF Trees!Kill, Process
<1>2. Family'
    BY <1>1, KillKeepsFamily
<1>3. \A q \in Process : tree_at'[q] = IF q \in K THEN "over" ELSE tree_at[q]
    BY <1>1
<1>4. tree_at'[0] \in {"type", "over"} /\ Born(0)'
    BY <1>3, ProcessFacts DEF Born
<1>5. OneParent(MAX_CHILD_NUMBER)'
    BY <1>4 DEF OneParent, CreateInv
<1>6. \A q \in Process \ {0} : tree_at'[q] \in {"unborn", "loop", "over"}
    BY <1>3 DEF CreateInv
<1>7. ASSUME tree_at'[0] = "over", NEW q \in Process PROVE ~ Trees!Alive(q)'
    <2>1. 0 \in K
        BY <1>3, <1>7, ProcessFacts
    <2>2. target = 0
        BY <1>0, <2>1 DEF Trees!Killed
    <2>3. q \in K <=> Trees!Alive(q)
        BY <1>0, <2>2 DEF Trees!Killed, Process
    <2> QED BY <1>3, <2>3 DEF Trees!Alive
<1> QED BY <1>2, <1>4, <1>5, <1>6, <1>7 DEF CreateInv

LEMMA CreateStepKeeps ==
    ASSUME program = "create", Family, CreateInv, NEW p \in Process, Trees!Step(p)
    PROVE  Family' /\ CreateInv'
<1>1. /\ i \in [Process -> Nat] /\ stdout \in [Process -> Nat] /\ printed \in Nat
      /\ tree_at \in [Process -> {"unborn", "fork", "print", "wait", "type", "loop",
                                  "poll", "exit", "over"}]
      /\ reaped \subseteq Process
    BY DEF Family
<1>2. /\ OneParent(MAX_CHILD_NUMBER)
      /\ tree_at[0] \in {"fork", "type", "over"}
      /\ \A q \in Process \ {0} : tree_at[q] \in {"unborn", "loop", "over"}
    BY DEF CreateInv
<1>3. MAX_CHILD_NUMBER \in Process \ {0} /\ MAX_CHILD_NUMBER = Trees!Limit /\ 0 \in Process
    BY ProcessFacts DEF Trees!Limit
<1>4. CASE Trees!Fork(p)
    <2>1. /\ Family' /\ OneParent(MAX_CHILD_NUMBER)'
          /\ \E c \in Process \ {0} :
                tree_at' = [tree_at EXCEPT
                   ![0] = IF i[0] + 1 < MAX_CHILD_NUMBER THEN "fork" ELSE Trees!After,
                   ![c] = Trees!ChildGoesTo]
        BY <1>2, <1>3, <1>4, FirstForks
    <2>2. Trees!After = "type" /\ Trees!ChildGoesTo = "loop"
        BY DEF Trees!After, Trees!ChildGoesTo
    <2>3. /\ tree_at'[0] \in {"fork", "type"}
          /\ \A q \in Process \ {0} : tree_at'[q] \in {"unborn", "loop", "over"}
        BY <1>1, <1>2, <1>3, <2>1, <2>2
    <2> QED BY <2>1, <2>3 DEF CreateInv
<1>5. CASE Trees!ForkFails(p)
    <2>1. p = 0 /\ tree_at[0] = "fork"
        BY <1>2, <1>5 DEF Trees!ForkFails
    <2>2. PICK place : place = IF i[0] + 1 < MAX_CHILD_NUMBER THEN "fork" ELSE "type"
        OBVIOUS
    <2>3. /\ tree_at' = [tree_at EXCEPT ![0] = place]
          /\ i' = [i EXCEPT ![0] = i[0] + 1]
          /\ UNCHANGED <<parent, reaped, stdout, printed>>
        BY <1>3, <1>5, <2>1, <2>2
        DEF Trees!ForkFails, Trees!ParentGoesTo, Trees!After, Trees!output
    <2>4. /\ i[0] \in Nat /\ i' \in [Process -> Nat] /\ i'[0] = i[0] + 1
          /\ tree_at'[0] = place /\ place \in {"fork", "type"}
          /\ (place = "fork" => i[0] + 1 < MAX_CHILD_NUMBER)
        BY <1>1, <1>3, <2>2, <2>3
    <2>5. /\ Family' /\ OneParent(MAX_CHILD_NUMBER)'
          /\ \A q \in Process \ {0} : tree_at'[q] = tree_at[q]
        BY <1>1, <1>2, <1>3, <2>1, <2>3, <2>4, FirstGoesOn
    <2> QED BY <1>2, <2>4, <2>5 DEF CreateInv
<1>6. ~ (Trees!Printf(p) \/ Trees!Wait(p) \/ Trees!Poll(p) \/ Trees!Exit(p))
    BY <1>2 DEF Trees!Printf, Trees!Wait, Trees!Poll, Trees!Exit
<1> QED BY <1>4, <1>5, <1>6 DEF Trees!Step

\* mulprogress.c leaves its loop when no child is left.
LEMMA MulStepKeeps ==
    ASSUME program = "mul", Family, MulInv, NEW p \in Process, Trees!Step(p)
    PROVE  Family' /\ MulInv'
<1>1. /\ i \in [Process -> Nat] /\ stdout \in [Process -> Nat] /\ printed \in Nat
      /\ tree_at \in [Process -> {"unborn", "fork", "print", "wait", "type", "loop",
                                  "poll", "exit", "over"}]
      /\ reaped \subseteq Process
    BY DEF Family
<1>2. /\ OneParent(INT_PTX)
      /\ tree_at[0] \in {"fork", "poll", "exit", "over"}
      /\ \A q \in Process \ {0} : tree_at[q] \in {"unborn", "exit", "over"}
      /\ tree_at[0] \in {"exit", "over"} => Trees!Children(0) = {}
    BY DEF MulInv
<1>3. INT_PTX \in Process \ {0} /\ INT_PTX = Trees!Limit /\ 0 \in Process
    BY ProcessFacts DEF Trees!Limit
<1>4. CASE Trees!Fork(p)
    <2>1. /\ Family' /\ OneParent(INT_PTX)'
          /\ \E c \in Process \ {0} :
                tree_at' = [tree_at EXCEPT
                   ![0] = IF i[0] + 1 < INT_PTX THEN "fork" ELSE Trees!After,
                   ![c] = Trees!ChildGoesTo]
        BY <1>2, <1>3, <1>4, FirstForks
    <2>2. Trees!After = "poll" /\ Trees!ChildGoesTo = "exit"
        BY DEF Trees!After, Trees!ChildGoesTo
    <2>3. /\ tree_at'[0] \in {"fork", "poll"}
          /\ \A q \in Process \ {0} : tree_at'[q] \in {"unborn", "exit", "over"}
        BY <1>1, <1>2, <1>3, <2>1, <2>2
    <2> QED BY <2>1, <2>3 DEF MulInv
<1>5. CASE Trees!ForkFails(p)
    <2>1. p = 0 /\ tree_at[0] = "fork"
        BY <1>2, <1>5 DEF Trees!ForkFails
    <2>2. /\ tree_at' = [tree_at EXCEPT ![0] = "poll"]
          /\ i' = [i EXCEPT ![0] = i[0] + 1]
          /\ UNCHANGED <<parent, reaped, stdout, printed>>
        BY <1>5, <2>1 DEF Trees!ForkFails, Trees!output
    <2>3. i' \in [Process -> Nat] /\ tree_at'[0] = "poll"
        BY <1>1, <1>3, <2>2
    <2>4. /\ Family' /\ OneParent(INT_PTX)'
          /\ \A q \in Process \ {0} : tree_at'[q] = tree_at[q]
        BY <1>1, <1>2, <1>3, <2>1, <2>2, <2>3, FirstGoesOn
    <2> QED BY <1>2, <2>3, <2>4 DEF MulInv
<1>6. CASE Trees!Poll(p)
    <2>1. p = 0 /\ tree_at[0] = "poll" /\ UNCHANGED <<parent, i, stdout, printed>>
        BY <1>2, <1>6 DEF Trees!Poll, Trees!output
    <2>2. CASE /\ \E c \in Trees!Children(0) : tree_at[c] = "over" /\ reaped' = reaped \cup {c}
               /\ UNCHANGED tree_at
        <3>1. tree_at' = [tree_at EXCEPT ![0] = "poll"] /\ tree_at'[0] = "poll"
            BY <1>1, <2>1, <2>2
        <3>2. /\ reaped \subseteq reaped'
              /\ \A c \in reaped' : c \in reaped \/ (c \in Process /\ tree_at[c] = "over")
            BY <2>2, ChildrenFinite
        <3>3. /\ Family' /\ OneParent(INT_PTX)'
              /\ \A q \in Process \ {0} : tree_at'[q] = tree_at[q]
            BY <1>1, <1>2, <1>3, <2>1, <3>1, <3>2, FirstGoesOn
        <3> QED BY <1>2, <3>1, <3>3 DEF MulInv
    <2>3. CASE /\ Trees!Children(0) = {}
               /\ tree_at' = [tree_at EXCEPT ![0] = "exit"] /\ UNCHANGED reaped
        <3>1. tree_at'[0] = "exit"
            BY <1>1, <1>3, <2>3
        <3>2. /\ Family' /\ OneParent(INT_PTX)'
              /\ \A q \in Process \ {0} : tree_at'[q] = tree_at[q]
              /\ Trees!Children(0)' \subseteq Trees!Children(0)
            BY <1>1, <1>2, <1>3, <2>1, <2>3, <3>1, FirstGoesOn
        <3> QED BY <1>2, <2>3, <3>1, <3>2 DEF MulInv
    <2> QED BY <1>6, <2>1, <2>2, <2>3 DEF Trees!Poll
<1>7. CASE Trees!Exit(p)
    <2>1. /\ tree_at[p] = "exit" /\ tree_at' = [tree_at EXCEPT ![p] = "over"]
          /\ printed' = printed + stdout[p] /\ UNCHANGED <<parent, reaped, i, stdout>>
        BY <1>7 DEF Trees!Exit
    <2>2. printed' \in Nat /\ tree_at'[p] = "over"
        BY <1>1, <2>1
    <2>3. tree_at'[0] = "fork" => /\ tree_at[0] = "fork" /\ i'[0] < INT_PTX
                                  /\ i[0] \in Nat /\ i'[0] \in {i[0], i[0] + 1}
        BY <1>1, <1>2, <1>3, <2>1 DEF OneParent
    <2>4. /\ Family' /\ OneParent(INT_PTX)'
          /\ \A q \in Process \ {p} : tree_at'[q] = tree_at[q]
          /\ Trees!Children(0)' \subseteq Trees!Children(0)
        BY <1>1, <1>2, <1>3, <2>1, <2>2, <2>3, FirstGoesOn
    <2> QED BY <1>2, <1>3, <2>1, <2>2, <2>4 DEF MulInv
<1>8. ~ (Trees!Printf(p) \/ Trees!Wait(p))
    BY <1>2 DEF Trees!Printf, Trees!Wait
<1> QED BY <1>4, <1>5, <1>6, <1>7, <1>8 DEF Trees!Step

LEMMA TreesStart == Trees!Start => TreesInv
<1> SUFFICES ASSUME Trees!Start PROVE TreesInv
    OBVIOUS
<1>1. /\ tree_at = [p \in Process |->
                      IF p = 0 /\ program \in Trees!Program THEN "fork" ELSE "unborn"]
      /\ parent = [p \in Process |-> Trees!Nobody]
      /\ reaped = {} /\ i = [p \in Process |-> 0]
      /\ stdout = [p \in Process |-> 0] /\ printed = 0
    BY DEF Trees!Start, Process
<1>2. /\ \A p \in Process : parent[p] = Trees!Nobody /\ i[p] = 0 /\ stdout[p] = 0
      /\ \A p \in Process \ {0} : tree_at[p] = "unborn" /\ ~ Born(p)
      /\ program \in Trees!Program => tree_at[0] = "fork" /\ Born(0)
      /\ program \notin Trees!Program => \A p \in Process : ~ Born(p)
    BY <1>1, ProcessFacts DEF Born
<1>3. 0 .. 3 \subseteq Process /\ Process \subseteq Nat
    BY ProcessFacts
<1>4. Family
    <2>1. /\ tree_at \in [Process -> {"unborn", "fork", "print", "wait", "type", "loop",
                                      "poll", "exit", "over"}]
          /\ parent \in [Process -> Process \cup {Trees!Nobody}]
          /\ i \in [Process -> Nat] /\ stdout \in [Process -> Nat] /\ printed \in Nat
        BY <1>1
    <2>2. \A d \in Process : Trees!Nobody # d
        BY ProcessFacts
    <2> QED BY <1>1, <1>2, <2>1, <2>2 DEF Family
<1>5. \A p \in Process : Trees!Children(p) = {}
    BY <1>2, ProcessFacts DEF Trees!Children, Process
<1>6. ASSUME program = "face" PROVE FaceInv
    <2>1. tree_at[0] = "fork" /\ Born(0)
        BY <1>2, <1>6 DEF Trees!Program
    <2>2. FaceLoop
        <3>1. \A p \in Process : Cardinality(Trees!Children(p)) = 0
            BY <1>5, FS_EmptySet
        <3>2. \A p \in Process : MostChildren(p) = 0
            BY <1>2, <2>1 DEF MostChildren
        <3> QED BY <1>2, <2>1, <3>1, <3>2 DEF FaceLoop
    <2>3. Pending(0) = 3 /\ \A p \in Process \ {0} : Pending(p) = 0
        BY <1>2, <1>3, <2>1 DEF Pending
    <2>4. \A p \in Process : Born(p) <=> p <= 0
        BY <1>2, <1>3, <2>1
    <2>5. \E last \in 0 .. 3 : /\ \A p \in Process : Born(p) <=> p <= last
                               /\ last + Pending(0) + Pending(1) <= 3
        <3>1. 0 + Pending(0) + Pending(1) <= 3
            BY <1>3, <2>3
        <3> QED BY <2>4, <3>1
    <2>6. FaceForks
        <3>1. \A p \in Process : Pending(p) > 0 => p \in 0 .. 1
            BY <2>3
        <3>2. \A p \in Process : tree_at[p] = "fork" /\ i[p] = 0 => p = 0 /\ ~ Born(1)
            BY <1>2, <1>3
        <3>3. \A c \in Process : Born(c) /\ c # 0 => parent[c] \in 0 .. c - 1
            BY <1>2
        <3> QED BY <2>1, <2>5, <3>1, <3>2, <3>3 DEF FaceForks
    <2>7. Dashes(0) = 8 /\ \A p \in Process \ {0} : Dashes(p) = 0
        BY <1>2, <1>3, <2>1 DEF Dashes
    <2>8. printed + Dashes(0) + Dashes(1) + Dashes(2) + Dashes(3) = 8
        BY <1>1, <1>3, <2>7
    <2> QED BY <2>2, <2>6, <2>8 DEF FaceInv
<1>7. ASSUME program \in {"create", "mul"}, NEW limit \in Nat \ {0}
      PROVE  OneParent(limit) /\ tree_at[0] = "fork"
    BY <1>2, <1>3, <1>7 DEF OneParent, Trees!Program
<1>8. program = "create" => CreateInv
    BY <1>2, <1>7, DemosAssumption DEF CreateInv
<1>9. program = "mul" => MulInv
    BY <1>2, <1>7, DemosAssumption DEF MulInv
<1> QED BY <1>2, <1>4, <1>6, <1>8, <1>9 DEF TreesInv

LEMMA TreesKeep == TreesInv /\ Trees!Next => TreesInv'
<1> SUFFICES ASSUME TreesInv, Trees!Next, program # "child" PROVE TreesInv'
    <2>1. program = "child" /\ Trees!Next => program' = "child"
        BY DEF Trees!Next, Trees!Step, Trees!Fork, Trees!ForkFails, Trees!Printf,
               Trees!Wait, Trees!Poll, Trees!Exit, Trees!TypeDigit, Trees!Quit
    <2> QED BY <2>1 DEF TreesInv
<1>1. /\ Family
      /\ program = "face" => FaceInv
      /\ program = "create" => CreateInv
      /\ program = "mul" => MulInv
      /\ program \notin Trees!Program => \A p \in Process : ~ Born(p)
    BY DEF TreesInv
<1>2. 0 \in Process
    BY ProcessFacts
<1>3. program' = program
    BY DEF Trees!Next, Trees!Step, Trees!Fork, Trees!ForkFails, Trees!Printf,
           Trees!Wait, Trees!Poll, Trees!Exit, Trees!TypeDigit, Trees!Quit
<1>4. program \in {"face", "create", "mul"}
    <2>1. \E p \in Process : Born(p)
        BY <1>2 DEF Trees!Next, Trees!Step, Trees!Fork, Trees!ForkFails, Trees!Printf,
           Trees!Wait, Trees!Poll, Trees!Exit, Trees!TypeDigit, Trees!Quit, Born, Process
    <2> QED BY <1>1, <2>1 DEF Trees!Program
<1>5. ASSUME NEW p \in Process, Trees!Step(p) PROVE TreesInv'
    <2>1. CASE program = "face"
        BY <1>1, <1>3, <1>5, <2>1, FaceStepKeeps DEF TreesInv, Trees!Program
    <2>2. CASE program = "create"
        BY <1>1, <1>3, <1>5, <2>2, CreateStepKeeps DEF TreesInv, Trees!Program
    <2>3. CASE program = "mul"
        BY <1>1, <1>3, <1>5, <2>3, MulStepKeeps DEF TreesInv, Trees!Program
    <2> QED BY <1>4, <2>1, <2>2, <2>3
<1>6. ASSUME tree_at[0] = "type" PROVE program = "create"
    BY <1>1, <1>2, <1>4, <1>6 DEF FaceInv, FaceLoop, MulInv
<1>7. ASSUME NEW d \in Trees!Digit, Trees!TypeDigit(d) PROVE TreesInv'
    <2>1. /\ tree_at[0] = "type" /\ Trees!Kill(pid[d])
          /\ UNCHANGED <<parent, reaped, i, stdout, printed>>
        BY <1>7 DEF Trees!TypeDigit, Trees!output
    <2>2. program = "create" /\ Family' /\ CreateInv'
        BY <1>1, <1>6, <2>1, KillKeepsCreate
    <2> QED BY <1>3, <2>2 DEF TreesInv, Trees!Program
<1>8. ASSUME Trees!Quit PROVE TreesInv'
    <2>1. /\ tree_at[0] = "type" /\ Trees!Kill(0)
          /\ UNCHANGED <<parent, reaped, i, stdout, printed>>
        BY <1>8 DEF Trees!Quit, Trees!output
    <2>2. program = "create" /\ Family' /\ CreateInv'
        BY <1>1, <1>6, <2>1, KillKeepsCreate
    <2> QED BY <1>3, <2>2 DEF TreesInv, Trees!Program
<1> QED BY <1>5, <1>7, <1>8 DEF Trees!Next, Process

LEMMA TreesStay == TreesInv /\ UNCHANGED <<program, treeVars>> => TreesInv'
<1> SUFFICES ASSUME TreesInv, UNCHANGED <<program, treeVars>> PROVE TreesInv'
    OBVIOUS
<1>1. /\ program' = program /\ tree_at' = tree_at /\ parent' = parent
      /\ reaped' = reaped /\ i' = i /\ stdout' = stdout /\ printed' = printed
      /\ failed' = failed
    BY DEF treeVars
<1>2. \A p : (Born(p)' <=> Born(p)) /\ Pending(p)' = Pending(p) /\ Dashes(p)' = Dashes(p)
             /\ MostChildren(p)' = MostChildren(p)
    BY <1>1 DEF Born, Pending, Dashes, MostChildren
<1>3. \A p : Trees!Children(p)' = Trees!Children(p) /\ (Trees!Alive(p)' <=> Trees!Alive(p))
    BY <1>1 DEF Trees!Children, Trees!Alive
<1>4. Family' <=> Family
    BY <1>1, <1>2 DEF Family
<1>5. FaceInv' <=> FaceInv
    <2>1. FaceLoop' <=> FaceLoop
        BY <1>1, <1>2, <1>3 DEF FaceLoop
    <2>2. FaceForks' <=> FaceForks
        BY <1>1, <1>2 DEF FaceForks
    <2> QED BY <1>1, <1>2, <2>1, <2>2 DEF FaceInv
<1>6. \A limit : OneParent(limit)' <=> OneParent(limit)
    BY <1>1, <1>2 DEF OneParent
<1>7. CreateInv' <=> CreateInv
    BY <1>1, <1>3, <1>6 DEF CreateInv
<1>8. MulInv' <=> MulInv
    BY <1>1, <1>3, <1>6 DEF MulInv
<1> QED BY <1>1, <1>2, <1>4, <1>5, <1>7, <1>8 DEF TreesInv

\* Who has ended has no child left to leave behind.
LEMMA TreesPromise == TreesInv => ParentsOutliveChildren /\ EightDashes
<1> SUFFICES ASSUME TreesInv PROVE ParentsOutliveChildren /\ EightDashes
    OBVIOUS
<1>1. ASSUME program = "face", Family, FaceInv, NEW p \in Process, tree_at[p] = "over"
      PROVE  Trees!Children(p) = {}
    <2>1. MostChildren(p) = 0
        BY <1>1 DEF MostChildren
    <2>2. Cardinality(Trees!Children(p)) <= 0
        BY <1>1, <2>1 DEF FaceInv, FaceLoop
    <2>3. Cardinality(Trees!Children(p)) = 0
        BY <2>2, ChildrenFinite
    <2> QED BY <2>3, ChildrenFinite, FS_EmptySet
<1>2. ASSUME Family, NEW p \in Process, Trees!Children(p) = {}, NEW c \in Process,
             parent[c] = p
      PROVE  ~ Trees!Alive(c)
    <2>1. c \in reaped
        BY <1>2 DEF Trees!Children, Process
    <2> QED BY <1>2, <2>1 DEF Family, Trees!Alive
<1>3. ParentsOutliveChildren
    <2> SUFFICES ASSUME NEW c \in Process, Trees!Alive(c), parent[c] # Trees!Nobody,
                        tree_at[parent[c]] = "over", program # "child"
                 PROVE  FALSE
        BY DEF ParentsOutliveChildren, Trees!ParentsOutliveChildren, Process
    <2>1. Family /\ parent[c] \in Process /\ Born(c)
        BY DEF TreesInv, Family, Trees!Alive, Born
    <2>2. CASE program = "face"
        BY <1>1, <1>2, <2>1, <2>2 DEF TreesInv
    <2>3. CASE program = "create"
        BY <2>1, <2>3 DEF TreesInv, CreateInv, OneParent
    <2>4. CASE program = "mul"
        BY <1>2, <2>1, <2>4 DEF TreesInv, MulInv, OneParent
    <2>5. CASE program \notin Trees!Program
        BY <2>1, <2>5 DEF TreesInv
    <2> QED BY <2>2, <2>3, <2>4, <2>5 DEF Trees!Program
<1>4. EightDashes
    <2> SUFFICES ASSUME program = "face", tree_at[0] = "over", ~ failed
                 PROVE  printed = 8
        BY DEF EightDashes, Trees!EightDashes
    <2>1. Family /\ FaceInv
        BY DEF TreesInv
    <2>2. 0 \in Process /\ 1 \in Process /\ 2 \in Process /\ 3 \in Process
        BY ProcessFacts
    <2>3. \A c \in Process : Born(c) /\ c # 0 => parent[c] \in 0 .. c - 1
        BY <2>1 DEF FaceInv, FaceForks
    <2>4. ASSUME NEW p \in Process, tree_at[p] = "over",
                 NEW c \in Process, parent[c] = p, Born(c)
          PROVE  tree_at[c] = "over"
        BY <1>1, <1>2, <2>1, <2>4 DEF Trees!Alive, Born
    <2>5. ~ Born(1) \/ tree_at[1] = "over"
        BY <2>2, <2>3, <2>4
    <2>6. ~ Born(2) \/ tree_at[2] = "over"
        <3>1. Born(2) => parent[2] = 0 \/ (parent[2] = 1 /\ Born(1))
            <4>1. Born(2) => Born(parent[2]) /\ parent[2] \in 0 .. 1
                BY <2>1, <2>2, <2>3 DEF Family
            <4> QED BY <4>1
        <3> QED BY <2>2, <2>4, <2>5, <3>1
    <2>7. ~ Born(3) \/ tree_at[3] = "over"
        <3>1. Born(3) => parent[3] \in {0, 1, 2} /\ Born(parent[3])
            <4>1. Born(3) => Born(parent[3]) /\ parent[3] \in 0 .. 2
                BY <2>1, <2>2, <2>3 DEF Family
            <4> QED BY <4>1
        <3> QED BY <2>2, <2>4, <2>5, <2>6, <3>1
    <2>8. Dashes(0) = 0 /\ Dashes(1) = 0 /\ Dashes(2) = 0 /\ Dashes(3) = 0
        BY <2>5, <2>6, <2>7 DEF Dashes, Born
    <2>9. printed \in Nat /\ printed + 0 + 0 + 0 + 0 = 8
        BY <2>1, <2>8 DEF Family, FaceInv
    <2> QED BY <2>9
<1> QED BY <1>3, <1>4

----------------------------------------------------------------------------
(* Threads: one thread at a time is between lock and unlock, and the sums   *)
(* of the first k counters lead to main_counter.                            *)

Thread == Threads!Thread
Worker == Threads!Worker
Plus(m, n) == Threads!Plus(m, n)

ThreadTypes ==
    /\ thread_at \in [Thread -> {"absent", "create", "lock", "count", "total",
                                 "sum", "unlock", "key", "over"}]
    /\ owner \in [Threads!Mutex -> Thread \cup {Threads!Nobody}]
    /\ round \in [Thread -> Nat]
    /\ counter \in [Worker -> Threads!Counts]
    /\ main_counter \in Threads!Counts /\ sum \in Threads!Counts

\* Main, the workers that were created, and the mutex.
Turns ==
    /\ thread_at[0] \in {"create", "lock", "sum", "unlock", "key"}
    /\ \A t \in Worker : thread_at[t] \in {"absent", "lock", "count", "total", "unlock"}
    /\ \A t \in Worker :
          t > MAX_THREAD \/ (thread_at[0] = "create" /\ t > round[0]) =>
             thread_at[t] = "absent"
    /\ \A t \in Thread :
          thread_at[t] \in {"count", "total", "sum", "unlock"} => owner["mutex"] = t
    /\ thread_at[0] \in {"create", "sum"} => round[0] \in 0 .. MAX_THREAD
    /\ thread_at[0] \in {"lock", "unlock", "key"} => round[0] = 0

\* A worker that has counted for itself has still to count for all.
Counting == \E t \in Worker : thread_at[t] = "total"
Total == IF Counting THEN Plus(main_counter, 1) ELSE main_counter

\* S[k] is the sum of the first k counters.
Sums(S) ==
    /\ S \in [0 .. MAX_THREAD -> Threads!Counts] /\ S[0] = 0
    /\ \A k \in 1 .. MAX_THREAD : S[k] = Plus(S[k - 1], counter[k])

Adds ==
    /\ \E S : /\ Sums(S) /\ S[MAX_THREAD] = Total
              /\ thread_at[0] = "sum" => sum = S[round[0]]
    /\ thread_at[0] = "unlock" => sum = main_counter

ThreadInv == ThreadTypes /\ ((\A t \in Thread : thread_at[t] = "over") \/ (Turns /\ Adds))

Alone == \A t \in writers : readers = {} /\ writers = {t}

\* The other programs do not come to the calls of thread.c.
Elsewhere ==
    thread_at \in [Thread -> {"absent", "create", "first", "second", "section",
                              "unlock2", "unlock1", "try", "use", "sleep", "over"}]

ThreadsInv ==
    /\ Alone
    /\ program = "thread" => ThreadInv
    /\ program # "thread" => Elsewhere

LEMMA Workers == 1 .. MAX_THREAD \subseteq Worker /\ Worker \subseteq Nat \ {0}
<1> DEFINE S == {1, MAX_THREAD, READER_MAX + WRITER_MAX}
<1>1. S \subseteq Nat
    BY DemosAssumption
<1>2. \E m \in S : \A k \in S : m >= k
    BY <1>1
<1>3. Threads!Max(S) \in S /\ \A k \in S : Threads!Max(S) >= k
    BY <1>2 DEF Threads!Max
<1> QED BY <1>1, <1>3, DemosAssumption DEF Worker, Threads!Worker

LEMMA ThreadsAre ==
    /\ Thread = {0} \cup Worker /\ 0 \in Thread /\ 0 \notin Worker
    /\ Threads!Nobody \notin Thread /\ "mutex" \in Threads!Mutex
    /\ Threads!Main = 0
BY Workers DEF Thread, Worker, Threads!Thread, Threads!Main, Threads!Nobody, Threads!Mutex

\* Counters wrap.
LEMMA PlusIs ==
    ASSUME NEW m \in Threads!Counts, NEW n \in 0 .. Modulus, n \in Threads!Counts \/ n = 1
    PROVE  /\ Plus(m, n) = IF m + n < Modulus THEN m + n ELSE m + n - Modulus
           /\ Plus(m, n) \in Threads!Counts
<1>1. Modulus \in Nat \ {0}
    BY DemosAssumption
<1>2. PICK s \in Int : s = m + n
    BY <1>1 DEF Threads!Counts
<1>3. 0 <= s /\ s <= Modulus + Modulus - 1
    BY <1>1, <1>2 DEF Threads!Counts
<1>4. Plus(m, n) = s % Modulus
    BY <1>2 DEF Plus, Threads!Plus
<1>5. CASE s < Modulus
    <2>1. s \in 0 .. Modulus - 1
        BY <1>1, <1>3, <1>5
    <2>2. s % Modulus = s
        BY <1>1, <2>1
    <2> QED BY <1>2, <1>4, <1>5, <2>1, <2>2 DEF Threads!Counts
<1>6. CASE ~ (s < Modulus)
    <2>1. s \in Modulus .. 2 * Modulus - 1
        BY <1>1, <1>3, <1>6
    <2>2. s % Modulus = s - Modulus
        BY <1>1, <2>1
    <2>3. s - Modulus \in 0 .. Modulus - 1
        BY <1>1, <1>3, <1>6
    <2>4. Plus(m, n) = m + n - Modulus
        BY <1>1, <1>2, <1>4, <2>2 DEF Threads!Counts
    <2> QED BY <1>1, <1>2, <1>6, <2>3, <2>4 DEF Threads!Counts
<1> QED BY <1>5, <1>6

\* One more in a summand is one more in the sum.
LEMMA PlusOne ==
    ASSUME NEW m \in Threads!Counts, NEW n \in Threads!Counts
    PROVE  /\ Plus(m, Plus(n, 1)) = Plus(Plus(m, n), 1)
           /\ Plus(Plus(m, 1), n) = Plus(Plus(m, n), 1)
<1>1. Modulus \in Nat \ {0} /\ 1 \in 0 .. Modulus /\ Threads!Counts = 0 .. Modulus - 1
    BY DemosAssumption DEF Threads!Counts
<1>2. ASSUME NEW a \in Threads!Counts, NEW b \in Threads!Counts
      PROVE  /\ Plus(a, b) = IF a + b < Modulus THEN a + b ELSE a + b - Modulus
             /\ Plus(a, b) \in 0 .. Modulus - 1
    <2>1. b \in 0 .. Modulus
        BY <1>1
    <2> QED BY <1>1, <2>1, PlusIs
<1>3. ASSUME NEW a \in Threads!Counts
      PROVE  /\ Plus(a, 1) = IF a + 1 < Modulus THEN a + 1 ELSE a + 1 - Modulus
             /\ Plus(a, 1) \in 0 .. Modulus - 1
    BY <1>1, PlusIs
<1>4. PICK s, u, v : s = Plus(m, n) /\ u = Plus(m, 1) /\ v = Plus(n, 1)
    OBVIOUS
<1>5. /\ s \in 0 .. Modulus - 1 /\ u \in 0 .. Modulus - 1 /\ v \in 0 .. Modulus - 1
      /\ m \in 0 .. Modulus - 1 /\ n \in 0 .. Modulus - 1
      /\ s = IF m + n < Modulus THEN m + n ELSE m + n - Modulus
      /\ u = IF m + 1 < Modulus THEN m + 1 ELSE m + 1 - Modulus
      /\ v = IF n + 1 < Modulus THEN n + 1 ELSE n + 1 - Modulus
    BY <1>1, <1>2, <1>3, <1>4
<1>6. /\ Plus(s, 1) = IF s + 1 < Modulus THEN s + 1 ELSE s + 1 - Modulus
      /\ Plus(m, v) = IF m + v < Modulus THEN m + v ELSE m + v - Modulus
      /\ Plus(u, n) = IF u + n < Modulus THEN u + n ELSE u + n - Modulus
    BY <1>1, <1>2, <1>3, <1>5
<1>7. Plus(m, v) = Plus(s, 1) /\ Plus(u, n) = Plus(s, 1)
    BY <1>1, <1>5, <1>6
<1> QED BY <1>4, <1>7

LEMMA ThreadsStart == Threads!Start => ThreadsInv
<1> SUFFICES ASSUME Threads!Start PROVE ThreadsInv
    OBVIOUS
<1>1. /\ thread_at = [t \in Thread |-> IF t = 0 /\ program \in Threads!Program
                                       THEN "create" ELSE "absent"]
      /\ owner = [m \in Threads!Mutex |-> Threads!Nobody]
      /\ readers = {} /\ writers = {} /\ round = [t \in Thread |-> 0]
      /\ counter = [t \in Worker |-> 0] /\ main_counter = 0 /\ sum = 0
    BY ThreadsAre DEF Threads!Start, Thread, Worker
<1>2. Elsewhere
    BY <1>1 DEF Elsewhere
<1>3. 0 \in Threads!Counts
    BY DemosAssumption DEF Threads!Counts
<1>4. ThreadTypes
    BY <1>1, <1>3 DEF ThreadTypes
<1>5. ASSUME program = "thread" PROVE Turns
    BY <1>1, <1>5, ThreadsAre, DemosAssumption DEF Turns, Threads!Program
<1>6. ASSUME program = "thread" PROVE Adds
    <2> DEFINE S == [k \in 0 .. MAX_THREAD |-> 0]
    <2>1. ~ Counting
        BY <1>1, ThreadsAre DEF Counting
    <2>2. Plus(0, 0) = 0
        <3>1. 0 \in 0 .. Modulus /\ Modulus \in Nat /\ 0 < Modulus
            BY DemosAssumption
        <3> QED BY <1>3, <3>1, PlusIs
    <2>3. \A k \in 1 .. MAX_THREAD : counter[k] = 0 /\ k - 1 \in 0 .. MAX_THREAD
        BY <1>1, Workers, DemosAssumption
    <2>4. Sums(S)
        BY <1>3, <2>2, <2>3, DemosAssumption DEF Sums
    <2>5. S[MAX_THREAD] = Total
        BY <1>1, <2>1, DemosAssumption DEF Total
    <2>6. thread_at[0] = "create"
        BY <1>1, <1>6, ThreadsAre DEF Threads!Program
    <2> HIDE DEF S
    <2> QED BY <2>4, <2>5, <2>6 DEF Adds
<1>7. Alone
    BY <1>1 DEF Alone
<1> QED BY <1>2, <1>4, <1>5, <1>6, <1>7 DEF ThreadsInv, ThreadInv

\* The calls of thread.c keep the types.
LEMMA ThreadMoves ==
    ASSUME ThreadTypes, NEW t \in Thread,
           NEW place \in {"absent", "create", "lock", "count", "total", "sum",
                          "unlock", "key", "over"},
           thread_at' = [thread_at EXCEPT ![t] = place]
    PROVE  /\ thread_at' \in [Thread -> {"absent", "create", "lock", "count", "total",
                                         "sum", "unlock", "key", "over"}]
           /\ thread_at'[t] = place
           /\ \A u \in Thread \ {t} : thread_at'[u] = thread_at[u]
           /\ ThreadTypes
BY DEF ThreadTypes

LEMMA CreateKeeps ==
    ASSUME program = "thread", ThreadTypes, Turns, Adds,
           Threads!Create \/ Threads!AllCreated
    PROVE  ThreadInv'
<1>1. /\ thread_at[0] = "create" /\ round[0] \in 0 .. MAX_THREAD
      /\ Threads!Created = MAX_THREAD /\ Threads!Begins = "lock"
    BY ThreadsAre DEF Turns, Threads!Create, Threads!AllCreated, Threads!Created,
       Threads!Begins
<1>2. UNCHANGED <<owner, counter, main_counter, sum>>
    BY DEF Threads!Create, Threads!AllCreated, Threads!counters
<1>3. MAX_THREAD \in Nat /\ 0 \in Thread /\ round \in [Thread -> Nat]
    BY ThreadsAre, DemosAssumption DEF ThreadTypes
<1>4. CASE Threads!AllCreated
    <2>1. /\ thread_at' = [thread_at EXCEPT ![0] = "lock"]
          /\ round' = [round EXCEPT ![0] = 0]
        BY <1>1, <1>4, ThreadsAre DEF Threads!AllCreated, Threads!Goto
    <2>2. /\ thread_at'[0] = "lock" /\ \A u \in Thread \ {0} : thread_at'[u] = thread_at[u]
          /\ round'[0] = 0 /\ round' \in [Thread -> Nat]
        BY <1>3, <2>1, ThreadMoves
    <2>3. ThreadTypes'
        BY <1>2, <1>3, <2>1, <2>2, ThreadMoves DEF ThreadTypes
    <2>4. Turns'
        BY <1>1, <1>2, <2>2, ThreadsAre DEF Turns
    <2>5. Counting' <=> Counting
        BY <2>2, ThreadsAre DEF Counting
    <2>6. Adds'
        BY <1>2, <2>2, <2>5 DEF Adds, Total, Sums
    <2> QED BY <2>3, <2>4, <2>6 DEF ThreadInv
<1>5. CASE Threads!Create
    <2>1. PICK t : t = round[0] + 1
        OBVIOUS
    <2>2. /\ t <= MAX_THREAD /\ round' = [round EXCEPT ![0] = t]
          /\ thread_at' = [thread_at EXCEPT ![t] = "lock"] \/ UNCHANGED thread_at
        BY <1>1, <1>5, <2>1, ThreadsAre DEF Threads!Create, Threads!Goto
    <2>3. t \in 1 .. MAX_THREAD /\ t \in Worker
        BY <1>1, <1>3, <2>1, <2>2, Workers
    <2>4. thread_at[t] = "absent"
        BY <1>1, <1>3, <2>1, <2>3 DEF Turns
    <2>5. round'[0] = t /\ round' \in [Thread -> Nat]
        BY <1>3, <2>2, <2>3
    <2>6. /\ \A u \in Thread \ {t} : thread_at'[u] = thread_at[u]
          /\ thread_at'[t] \in {"absent", "lock"}
          /\ thread_at' \in [Thread -> {"absent", "create", "lock", "count", "total",
                                        "sum", "unlock", "key", "over"}]
        <3>1. t \in Thread
            BY <2>3, ThreadsAre
        <3>2. CASE thread_at' = [thread_at EXCEPT ![t] = "lock"]
            BY <3>1, <3>2, ThreadMoves
        <3>3. CASE UNCHANGED thread_at
            BY <2>4, <3>3 DEF ThreadTypes
        <3> QED BY <2>2, <3>2, <3>3
    <2>7. ThreadTypes'
        BY <1>2, <2>5, <2>6 DEF ThreadTypes
    <2>8. thread_at'[0] = "create"
        BY <1>1, <1>3, <2>3, <2>6, ThreadsAre
    <2>9. Turns'
        <3>1. \A u \in Worker : thread_at'[u] \in {"absent", "lock", "count", "total", "unlock"}
            BY <2>6, ThreadsAre DEF Turns
        <3>2. \A u \in Worker : u > MAX_THREAD \/ u > round'[0] => thread_at'[u] = "absent"
            <4> SUFFICES ASSUME NEW u \in Worker, u > MAX_THREAD \/ u > round'[0]
                         PROVE  thread_at'[u] = "absent"
                OBVIOUS
            <4>1. u # t /\ (u > MAX_THREAD \/ u > round[0])
                BY <1>1, <1>3, <2>1, <2>3, <2>5, Workers
            <4> QED BY <1>1, <2>6, <4>1, ThreadsAre DEF Turns
        <3>3. \A u \in Thread : thread_at'[u] \in {"count", "total", "sum", "unlock"} =>
                 owner'["mutex"] = u
            BY <1>2, <2>6 DEF Turns
        <3>4. round'[0] \in 0 .. MAX_THREAD
            BY <2>3, <2>5
        <3> QED BY <2>8, <3>1, <3>2, <3>3, <3>4 DEF Turns
    <2>10. Counting' <=> Counting
        BY <2>4, <2>6, ThreadsAre DEF Counting
    <2>11. Adds'
        BY <1>2, <2>8, <2>10 DEF Adds, Total, Sums
    <2> QED BY <2>7, <2>9, <2>11 DEF ThreadInv
<1> QED BY <1>4, <1>5

\* Who locks the mutex is the only one between lock and unlock.
LEMMA LockKeeps ==
    ASSUME program = "thread", ThreadTypes, Turns, Adds, NEW t \in Thread, Threads!Lock(t)
    PROVE  ThreadInv'
<1>1. PICK place : place = IF t = 0 THEN "sum" ELSE "count"
    OBVIOUS
<1>2. /\ thread_at[t] = "lock" /\ owner["mutex"] = Threads!Nobody
      /\ owner' = [owner EXCEPT !["mutex"] = t]
      /\ thread_at' = [thread_at EXCEPT ![t] = place]
      /\ sum' = IF t = 0 THEN 0 ELSE sum
      /\ UNCHANGED <<round, counter, main_counter>>
    BY <1>1, ThreadsAre DEF Threads!Lock, Threads!Goto
<1>3. /\ thread_at'[t] = place /\ \A u \in Thread \ {t} : thread_at'[u] = thread_at[u]
      /\ place \in {"sum", "count"}
    BY <1>1, <1>2, ThreadMoves
<1>4. owner'["mutex"] = t /\ owner' \in [Threads!Mutex -> Thread \cup {Threads!Nobody}]
    BY <1>2, ThreadsAre DEF ThreadTypes
<1>5. \A u \in Thread : thread_at[u] \notin {"count", "total", "sum", "unlock"}
    BY <1>2, ThreadsAre DEF Turns
<1>6. 0 \in Threads!Counts /\ MAX_THREAD \in Nat
    BY DemosAssumption DEF Threads!Counts
<1>7. ThreadTypes'
    BY <1>2, <1>3, <1>4, <1>6, ThreadMoves DEF ThreadTypes
<1>8. Turns'
    <2>1. /\ t = 0 => place = "sum" /\ round[0] = 0
          /\ t # 0 => place = "count" /\ t \in Worker /\ thread_at'[0] = thread_at[0]
        BY <1>1, <1>2, <1>3, ThreadsAre DEF Turns
    <2>2. thread_at'[0] \in {"create", "lock", "sum", "unlock", "key"}
        BY <1>3, <2>1 DEF Turns
    <2>3. \A u \in Worker : thread_at'[u] \in {"absent", "lock", "count", "total", "unlock"}
        BY <1>3, <2>1, ThreadsAre DEF Turns
    <2>4. \A u \in Worker :
             u > MAX_THREAD \/ (thread_at'[0] = "create" /\ u > round'[0]) =>
                thread_at'[u] = "absent"
        <3> SUFFICES ASSUME NEW u \in Worker,
                            u > MAX_THREAD \/ (thread_at'[0] = "create" /\ u > round'[0])
                     PROVE  thread_at'[u] = "absent"
            OBVIOUS
        <3>1. thread_at'[0] = "create" => thread_at[0] = "create"
            BY <1>3, <2>1
        <3>2. thread_at[u] = "absent" /\ u # t
            BY <1>2, <3>1 DEF Turns
        <3> QED BY <1>3, <3>2, ThreadsAre
    <2>5. \A u \in Thread :
             thread_at'[u] \in {"count", "total", "sum", "unlock"} => owner'["mutex"] = u
        BY <1>3, <1>4, <1>5
    <2>6. thread_at'[0] \in {"create", "sum"} => round'[0] \in 0 .. MAX_THREAD
        BY <1>2, <1>3, <1>6, <2>1 DEF Turns
    <2>7. thread_at'[0] \in {"lock", "unlock", "key"} => round'[0] = 0
        BY <1>2, <1>3, <2>1 DEF Turns
    <2> QED BY <2>2, <2>3, <2>4, <2>5, <2>6, <2>7 DEF Turns
<1>9. ~ Counting /\ ~ Counting'
    BY <1>3, <1>5, ThreadsAre DEF Counting
<1>10. Adds'
    <2>1. PICK S : Sums(S) /\ S[MAX_THREAD] = Total
        BY DEF Adds
    <2>2. Sums(S)' /\ S[MAX_THREAD] = Total'
        BY <1>2, <1>9, <2>1 DEF Sums, Total
    <2>3. thread_at'[0] = "sum" => sum' = S[round'[0]]
        <3>1. thread_at'[0] = "sum" => t = 0
            BY <1>3, <1>5, ThreadsAre
        <3>2. t = 0 => sum' = 0 /\ round'[0] = 0
            BY <1>2 DEF Turns
        <3> QED BY <2>1, <3>1, <3>2 DEF Sums
    <2>4. thread_at'[0] # "unlock"
        BY <1>3, <1>5, ThreadsAre
    <2> QED BY <2>2, <2>3, <2>4 DEF Adds
<1> QED BY <1>7, <1>8, <1>10 DEF ThreadInv

\* A worker moves on while it has the mutex: main stays where it is.
LEMMA WorkerKeepsTurns ==
    ASSUME ThreadTypes, Turns, NEW t \in Worker,
           thread_at[t] \in {"count", "total", "unlock"},
           NEW place \in {"lock", "total", "unlock"},
           thread_at' = [thread_at EXCEPT ![t] = place], UNCHANGED round,
           owner' = owner \/ (place = "lock" /\ owner' = [owner EXCEPT !["mutex"] = Threads!Nobody])
    PROVE  /\ Turns' /\ thread_at'[t] = place /\ thread_at'[0] = thread_at[0]
           /\ \A u \in Thread \ {t} :
                 thread_at'[u] = thread_at[u]
                 /\ thread_at[u] \notin {"count", "total", "sum", "unlock"}
           /\ thread_at' \in [Thread -> {"absent", "create", "lock", "count", "total",
                                         "sum", "unlock", "key", "over"}]
<1>1. t \in Thread /\ t # 0 /\ 0 \in Thread
    BY ThreadsAre
<1>2. /\ thread_at'[t] = place /\ \A u \in Thread \ {t} : thread_at'[u] = thread_at[u]
      /\ thread_at' \in [Thread -> {"absent", "create", "lock", "count", "total",
                                    "sum", "unlock", "key", "over"}]
    BY <1>1, ThreadMoves
<1>3. owner["mutex"] = t
    BY <1>1 DEF Turns
<1>4. \A u \in Thread \ {t} : thread_at[u] \notin {"count", "total", "sum", "unlock"}
    BY <1>3 DEF Turns
<1>5. thread_at'[0] = thread_at[0]
    BY <1>1, <1>2
<1>6. \A u \in Worker : thread_at'[u] \in {"absent", "lock", "count", "total", "unlock"}
    BY <1>2, ThreadsAre DEF Turns
<1>7. \A u \in Worker :
         u > MAX_THREAD \/ (thread_at'[0] = "create" /\ u > round'[0]) =>
            thread_at'[u] = "absent"
    BY <1>2, <1>5, ThreadsAre DEF Turns
<1>8. \A u \in Thread :
         thread_at'[u] \in {"count", "total", "sum", "unlock"} => owner'["mutex"] = u
    <2>1. \A u \in Thread :
             thread_at'[u] \in {"count", "total", "sum", "unlock"} => u = t /\ place # "lock"
        BY <1>2, <1>4
    <2> QED BY <1>3, <2>1
<1> QED BY <1>2, <1>4, <1>5, <1>6, <1>7, <1>8 DEF Turns

\* counter[worker]++: all the sums it is in grow by one.
LEMMA CountKeeps ==
    ASSUME program = "thread", ThreadTypes, Turns, Adds, NEW t \in Thread, Threads!Count(t)
    PROVE  ThreadInv'
<1>1. /\ thread_at[t] = "count"
      /\ counter' = [counter EXCEPT ![t] = Plus(counter[t], 1)]
      /\ thread_at' = [thread_at EXCEPT ![t] = "total"]
      /\ UNCHANGED <<owner, round, main_counter, sum>>
    BY DEF Threads!Count, Threads!Goto, Plus
<1>2. t \in Worker /\ t \in 1 .. MAX_THREAD
    BY <1>1, ThreadsAre, Workers, DemosAssumption DEF Turns
<1>3. /\ Turns' /\ thread_at'[t] = "total" /\ thread_at'[0] = thread_at[0]
      /\ \A u \in Thread \ {t} :
            /\ thread_at'[u] = thread_at[u]
            /\ thread_at[u] \notin {"count", "total", "sum", "unlock"}
      /\ thread_at' \in [Thread -> {"absent", "create", "lock", "count", "total",
                                    "sum", "unlock", "key", "over"}]
    BY <1>1, <1>2, WorkerKeepsTurns
<1>4. \A n \in Threads!Counts : Plus(n, 1) \in Threads!Counts
    <2>1. 1 \in 0 .. Modulus
        BY DemosAssumption
    <2> QED BY <2>1, PlusIs
<1>5. /\ counter[t] \in Threads!Counts
      /\ counter' \in [Worker -> Threads!Counts]
      /\ counter'[t] = Plus(counter[t], 1)
      /\ \A u \in Worker \ {t} : counter'[u] = counter[u]
    BY <1>1, <1>2, <1>4 DEF ThreadTypes
<1>6. ThreadTypes'
    BY <1>1, <1>3, <1>5 DEF ThreadTypes
<1>7. Adds'
    <2>1. PICK S : Sums(S) /\ S[MAX_THREAD] = Total
        BY DEF Adds
    <2>2. Total = main_counter /\ Total' = Plus(main_counter, 1)
        <3>1. ~ Counting
            BY <1>1, <1>3, ThreadsAre DEF Counting
        <3>2. Counting'
            BY <1>2, <1>3 DEF Counting
        <3>3. Total = main_counter
            BY <3>1 DEF Total
        <3>4. Total' = Plus(main_counter, 1)'
            BY <3>2 DEF Total
        <3> QED BY <1>1, <3>3, <3>4 DEF Plus
    <2> DEFINE T == [k \in 0 .. MAX_THREAD |-> IF k < t THEN S[k] ELSE Plus(S[k], 1)]
    <2>3. MAX_THREAD \in Nat /\ t \in Nat /\ 0 < t /\ t <= MAX_THREAD
        BY <1>2, DemosAssumption
    <2>4. /\ S \in [0 .. MAX_THREAD -> Threads!Counts] /\ S[0] = 0
          /\ \A k \in 1 .. MAX_THREAD : S[k] = Plus(S[k - 1], counter[k])
        BY <2>1 DEF Sums
    <2>5. T \in [0 .. MAX_THREAD -> Threads!Counts] /\ T[0] = 0
        BY <1>4, <2>3, <2>4
    <2>6. ASSUME NEW k \in 1 .. MAX_THREAD PROVE T[k] = Plus(T[k - 1], counter'[k])
        <3>0. /\ k \in Nat /\ k - 1 \in 0 .. MAX_THREAD /\ k \in 0 .. MAX_THREAD
              /\ k \in Worker /\ S[k - 1] \in Threads!Counts /\ counter[k] \in Threads!Counts
            BY <2>3, <2>4, Workers DEF ThreadTypes
        <3>1. CASE k < t
            <4>1. T[k] = S[k] /\ T[k - 1] = S[k - 1] /\ counter'[k] = counter[k]
                BY <1>5, <2>3, <3>0, <3>1
            <4> QED BY <2>4, <4>1
        <3>2. CASE k = t
            <4>1. T[k] = Plus(S[k], 1) /\ T[k - 1] = S[k - 1]
                BY <2>3, <3>0, <3>2
            <4>2. counter'[k] = Plus(counter[k], 1)
                BY <1>5, <3>2
            <4>3. Plus(S[k - 1], Plus(counter[k], 1)) = Plus(Plus(S[k - 1], counter[k]), 1)
                BY <3>0, PlusOne
            <4> QED BY <2>4, <4>1, <4>2, <4>3
        <3>3. CASE k > t
            <4>1. T[k] = Plus(S[k], 1) /\ T[k - 1] = Plus(S[k - 1], 1)
                BY <2>3, <3>0, <3>3
            <4>2. counter'[k] = counter[k]
                BY <1>5, <2>3, <3>0, <3>3
            <4>3. Plus(Plus(S[k - 1], 1), counter[k]) = Plus(Plus(S[k - 1], counter[k]), 1)
                BY <3>0, PlusOne
            <4> QED BY <2>4, <4>1, <4>2, <4>3
        <3> QED BY <2>3, <3>0, <3>1, <3>2, <3>3
    <2>7. T[MAX_THREAD] = Total'
        BY <2>1, <2>2, <2>3
    <2>8. thread_at'[0] # "sum" /\ thread_at'[0] # "unlock"
        BY <1>2, <1>3, ThreadsAre
    <2> HIDE DEF T
    <2>9. Sums(T)'
        BY <2>5, <2>6 DEF Sums, Plus
    <2> QED BY <2>7, <2>8, <2>9 DEF Adds
<1> QED BY <1>3, <1>6, <1>7 DEF ThreadInv

\* main_counter++ follows.
LEMMA TotalKeeps ==
    ASSUME program = "thread", ThreadTypes, Turns, Adds, NEW t \in Thread, Threads!Total(t)
    PROVE  ThreadInv'
<1>1. /\ thread_at[t] = "total" /\ main_counter' = Plus(main_counter, 1)
      /\ thread_at' = [thread_at EXCEPT ![t] = "unlock"]
      /\ UNCHANGED <<owner, round, counter, sum>>
    BY DEF Threads!Total, Threads!Goto, Plus
<1>2. t \in Worker
    BY <1>1, ThreadsAre DEF Turns
<1>3. /\ Turns' /\ thread_at'[t] = "unlock" /\ thread_at'[0] = thread_at[0]
      /\ \A u \in Thread \ {t} :
            /\ thread_at'[u] = thread_at[u]
            /\ thread_at[u] \notin {"count", "total", "sum", "unlock"}
      /\ thread_at' \in [Thread -> {"absent", "create", "lock", "count", "total",
                                    "sum", "unlock", "key", "over"}]
    BY <1>1, <1>2, WorkerKeepsTurns
<1>4. main_counter' \in Threads!Counts
    <2>1. 1 \in 0 .. Modulus
        BY DemosAssumption
    <2> QED BY <1>1, <2>1, PlusIs DEF ThreadTypes
<1>5. ThreadTypes'
    BY <1>1, <1>3, <1>4 DEF ThreadTypes
<1>6. Adds'
    <2>1. PICK S : Sums(S) /\ S[MAX_THREAD] = Total
        BY DEF Adds
    <2>2. Counting /\ ~ Counting'
        BY <1>1, <1>2, <1>3, ThreadsAre DEF Counting
    <2>3. Total = Plus(main_counter, 1) /\ Total' = main_counter'
        BY <2>2 DEF Total
    <2>4. Sums(S)'
        BY <1>1, <2>1 DEF Sums
    <2>5. thread_at'[0] # "sum" /\ thread_at'[0] # "unlock"
        BY <1>2, <1>3, ThreadsAre
    <2> QED BY <1>1, <2>1, <2>3, <2>4, <2>5 DEF Adds
<1> QED BY <1>3, <1>5, <1>6 DEF ThreadInv

\* Main reads the counters that nobody changes meanwhile.
LEMMA SumKeeps ==
    ASSUME program = "thread", ThreadTypes, Turns, Adds, Threads!Sum
    PROVE  ThreadInv'
<1>1. /\ thread_at[0] = "sum" /\ round[0] \in 0 .. MAX_THREAD /\ 0 \in Thread
      /\ owner["mutex"] = 0 /\ MAX_THREAD \in Nat
      /\ UNCHANGED <<owner, counter, main_counter>>
    BY ThreadsAre, DemosAssumption DEF Turns, Threads!Sum
<1>2. \A u \in Worker : thread_at[u] \in {"absent", "lock"}
    BY <1>1, ThreadsAre DEF Turns
<1>3. PICK S : Sums(S) /\ S[MAX_THREAD] = Total /\ sum = S[round[0]]
    BY <1>1 DEF Adds
<1>4. ~ Counting
    BY <1>2 DEF Counting
<1>5. PICK t : t = round[0] + 1
    OBVIOUS
<1>6. t \in 1 .. MAX_THREAD + 1
    BY <1>1, <1>5
<1>7. CASE t <= MAX_THREAD
    <2>1. /\ sum' = Plus(sum, counter[t])
          /\ round' = [round EXCEPT ![0] = t] /\ UNCHANGED thread_at
        BY <1>5, <1>7, ThreadsAre DEF Threads!Sum, Plus
    <2>2. t \in 1 .. MAX_THREAD /\ t - 1 = round[0]
        BY <1>1, <1>5, <1>6, <1>7
    <2>3. round'[0] = t /\ round' \in [Thread -> Nat]
        BY <1>1, <2>1, <2>2 DEF ThreadTypes
    <2>4. sum' = S[t] /\ S[t] \in Threads!Counts
        BY <1>3, <2>1, <2>2 DEF Sums
    <2>5. ThreadTypes'
        BY <1>1, <2>1, <2>3, <2>4 DEF ThreadTypes
    <2>6. Turns'
        BY <1>1, <2>1, <2>2, <2>3 DEF Turns
    <2>7. Sums(S)' /\ Total' = Total
        BY <1>1, <1>3, <2>1 DEF Sums, Total, Counting
    <2>8. Adds'
        BY <1>1, <1>3, <2>1, <2>3, <2>4, <2>7 DEF Adds
    <2> QED BY <2>5, <2>6, <2>8 DEF ThreadInv
<1>8. CASE ~ (t <= MAX_THREAD)
    <2>1. /\ round' = [round EXCEPT ![0] = 0] /\ UNCHANGED sum
          /\ thread_at' = [thread_at EXCEPT ![0] = "unlock"]
        BY <1>5, <1>8, ThreadsAre DEF Threads!Sum, Threads!Goto
    <2>2. /\ thread_at'[0] = "unlock" /\ \A u \in Thread \ {0} : thread_at'[u] = thread_at[u]
          /\ round'[0] = 0 /\ round' \in [Thread -> Nat]
        BY <1>1, <2>1, ThreadMoves DEF ThreadTypes
    <2>3. round[0] = MAX_THREAD
        BY <1>1, <1>5, <1>6, <1>8
    <2>4. sum' = main_counter'
        BY <1>1, <1>3, <1>4, <2>1, <2>3 DEF Total
    <2>5. ThreadTypes'
        BY <1>1, <2>1, <2>2, ThreadMoves DEF ThreadTypes
    <2>6. Turns'
        BY <1>1, <1>2, <2>2, ThreadsAre DEF Turns
    <2>7. Counting' <=> Counting
        BY <2>2, ThreadsAre DEF Counting
    <2>8. Sums(S)' /\ Total' = Total
        BY <1>1, <1>3, <1>4, <2>7 DEF Sums, Total
    <2>9. Adds'
        BY <1>3, <2>2, <2>4, <2>8 DEF Adds
    <2> QED BY <2>5, <2>6, <2>9 DEF ThreadInv
<1> QED BY <1>7, <1>8

LEMMA UnlockKeeps ==
    ASSUME program = "thread", ThreadTypes, Turns, Adds, NEW t \in Thread, Threads!Unlock(t)
    PROVE  ThreadInv'
<1>1. /\ thread_at[t] = "unlock"
      /\ owner' = [owner EXCEPT !["mutex"] = Threads!Nobody]
      /\ thread_at' = [thread_at EXCEPT ![t] = IF t = 0 THEN "key" ELSE "lock"]
      /\ UNCHANGED <<round, counter, main_counter, sum>>
    BY ThreadsAre DEF Threads!Unlock, Threads!Goto, Threads!counters
<1>2. owner' \in [Threads!Mutex -> Thread \cup {Threads!Nobody}]
    BY <1>1 DEF ThreadTypes
<1>3. \A S : Sums(S)' <=> Sums(S)
    BY <1>1 DEF Sums
<1>4. CASE t = 0
    <2>1. thread_at' = [thread_at EXCEPT ![0] = "key"]
        BY <1>1, <1>4
    <2>2. /\ thread_at'[0] = "key" /\ \A u \in Thread \ {0} : thread_at'[u] = thread_at[u]
        BY <1>4, <2>1, ThreadMoves
    <2>3. \A u \in Thread \ {0} : thread_at[u] \notin {"count", "total", "sum", "unlock"}
        BY <1>1, <1>4 DEF Turns
    <2>4. ThreadTypes'
        BY <1>1, <1>2, <1>4, <2>1, ThreadMoves DEF ThreadTypes
    <2>5. Turns'
        BY <1>1, <1>4, <2>2, <2>3, ThreadsAre DEF Turns
    <2>6. Counting' <=> Counting
        BY <2>2, ThreadsAre DEF Counting
    <2>7. Adds'
        BY <1>1, <1>3, <2>2, <2>6 DEF Adds, Total
    <2> QED BY <2>4, <2>5, <2>7 DEF ThreadInv
<1>5. CASE t # 0
    <2>1. t \in Worker /\ thread_at' = [thread_at EXCEPT ![t] = "lock"]
        BY <1>1, <1>5, ThreadsAre
    <2>2. /\ Turns' /\ thread_at'[t] = "lock" /\ thread_at'[0] = thread_at[0]
          /\ \A u \in Thread \ {t} :
                /\ thread_at'[u] = thread_at[u]
                /\ thread_at[u] \notin {"count", "total", "sum", "unlock"}
          /\ thread_at' \in [Thread -> {"absent", "create", "lock", "count", "total",
                                        "sum", "unlock", "key", "over"}]
        BY <1>1, <2>1, WorkerKeepsTurns
    <2>3. ThreadTypes'
        BY <1>1, <1>2, <2>2 DEF ThreadTypes
    <2>4. Counting' <=> Counting
        BY <1>1, <2>2, ThreadsAre DEF Counting
    <2>5. Adds'
        BY <1>1, <1>3, <2>2, <2>4 DEF Adds, Total
    <2> QED BY <2>2, <2>3, <2>5 DEF ThreadInv
<1> QED BY <1>4, <1>5

\* q ends the program wherever the workers are.
LEMMA KeyKeeps ==
    ASSUME program = "thread", ThreadTypes, Turns, Adds, Threads!Key
    PROVE  ThreadInv'
<1>1. /\ thread_at[0] = "key" /\ 0 \in Thread
      /\ UNCHANGED <<owner, round, counter, main_counter, sum>>
    BY ThreadsAre DEF Threads!Key, Threads!counters
<1>2. CASE Threads!MainReturns
    <2>1. thread_at' = [t \in Thread |-> "over"]
        BY <1>2 DEF Threads!MainReturns, Thread
    <2> QED BY <1>1, <2>1 DEF ThreadInv, ThreadTypes
<1>3. CASE Threads!Goto(0, "lock")
    <2>1. thread_at' = [thread_at EXCEPT ![0] = "lock"]
        BY <1>3 DEF Threads!Goto
    <2>2. thread_at'[0] = "lock" /\ \A u \in Thread \ {0} : thread_at'[u] = thread_at[u]
        BY <1>1, <2>1, ThreadMoves
    <2>3. ThreadTypes'
        BY <1>1, <2>1, ThreadMoves DEF ThreadTypes
    <2>4. Turns'
        BY <1>1, <2>2, ThreadsAre DEF Turns
    <2>5. Counting' <=> Counting
        BY <2>2, ThreadsAre DEF Counting
    <2>6. Adds'
        BY <1>1, <2>2, <2>5 DEF Adds, Total, Sums
    <2> QED BY <2>3, <2>4, <2>6 DEF ThreadInv
<1> QED BY <1>2, <1>3, ThreadsAre DEF Threads!Key

LEMMA ThreadKeeps == program = "thread" /\ ThreadInv /\ Threads!Next => ThreadInv'
<1> SUFFICES ASSUME program = "thread", ThreadInv, Threads!Next PROVE ThreadInv'
    OBVIOUS
<1>1. ThreadTypes /\ 0 \in Thread
    BY ThreadsAre DEF ThreadInv
<1>2. ASSUME NEW t \in Thread
      PROVE  ~ (Threads!SleepEnds \/ Threads!Take(t) \/ Threads!Section(t)
                \/ Threads!Release(t) \/ Threads!TryRead(t) \/ Threads!TryWrite(t)
                \/ Threads!UseEnds(t))
    <2>1. /\ thread_at[t] \notin {"first", "second", "section", "unlock2", "unlock1",
                                  "try", "use"}
          /\ thread_at[0] # "sleep"
        BY <1>1 DEF ThreadTypes
    <2> QED BY <2>1, ThreadsAre DEF Threads!SleepEnds, Threads!Take, Threads!Section,
            Threads!Release, Threads!TryRead, Threads!TryWrite, Threads!UseEnds
<1>3. CASE \A t \in Thread : thread_at[t] = "over"
    <2>1. ~ Threads!Next
        BY <1>1, <1>2, <1>3, ThreadsAre DEF Threads!Next, Threads!Step, Thread, Threads!Key,
           Threads!Create, Threads!AllCreated, Threads!Sum, Threads!Lock,
           Threads!Count, Threads!Total, Threads!Unlock
    <2> QED BY <2>1
<1>4. CASE Turns /\ Adds
    <2>1. ASSUME Threads!Key PROVE ThreadInv'
        BY <1>1, <1>4, <2>1, KeyKeeps
    <2>2. ASSUME NEW t \in Thread, Threads!Step(t) PROVE ThreadInv'
        <3>1. CASE Threads!Create \/ Threads!AllCreated
            BY <1>1, <1>4, <3>1, CreateKeeps
        <3>2. CASE Threads!Sum
            BY <1>1, <1>4, <3>2, SumKeeps
        <3>3. CASE Threads!Lock(t)
            BY <1>1, <1>4, <3>3, LockKeeps
        <3>4. CASE Threads!Count(t)
            BY <1>1, <1>4, <3>4, CountKeeps
        <3>5. CASE Threads!Total(t)
            BY <1>1, <1>4, <3>5, TotalKeeps
        <3>6. CASE Threads!Unlock(t)
            BY <1>1, <1>4, <3>6, UnlockKeeps
        <3> QED BY <1>2, <2>2, <3>1, <3>2, <3>3, <3>4, <3>5, <3>6 DEF Threads!Step
    <2> QED BY <2>1, <2>2 DEF Threads!Next, Thread
<1> QED BY <1>3, <1>4 DEF ThreadInv

\* The calls of deadlock.c and rwrite.c.
LEMMA ElsewhereKeeps == program # "thread" /\ Elsewhere /\ Threads!Next => Elsewhere'
<1> SUFFICES ASSUME program # "thread", Elsewhere, Threads!Next PROVE Elsewhere'
    OBVIOUS
<1>1. \A t \in Thread : thread_at[t] \notin {"lock", "count", "total", "sum", "unlock", "key"}
    BY DEF Elsewhere
<1>2. ASSUME NEW t, NEW place \in {"first", "second", "section", "unlock2", "unlock1",
                                   "try", "use", "sleep", "over"},
             Threads!Goto(t, place)
      PROVE  Elsewhere'
    BY <1>2 DEF Threads!Goto, Elsewhere
<1>3. Threads!MainReturns => Elsewhere'
    BY DEF Threads!MainReturns, Elsewhere, Thread
<1>4. UNCHANGED thread_at => Elsewhere'
    BY DEF Elsewhere
<1>5. Threads!Begins \in {"first", "try"}
    BY DEF Threads!Begins
<1>6. ~ Threads!Key
    BY <1>1, ThreadsAre DEF Threads!Key
<1>7. ASSUME NEW t \in Thread, Threads!Step(t) PROVE Elsewhere'
    <2>1. CASE Threads!Create
        BY <1>2, <1>3, <1>4, <1>5, <2>1 DEF Threads!Create
    <2>2. CASE Threads!AllCreated
        BY <1>2, <1>5, <2>2 DEF Threads!AllCreated
    <2>3. ~ Threads!Sum
        BY <1>1, ThreadsAre DEF Threads!Sum
    <2>4. CASE Threads!SleepEnds
        BY <1>3, <2>4 DEF Threads!SleepEnds
    <2>5. ~ (Threads!Lock(t) \/ Threads!Count(t) \/ Threads!Total(t) \/ Threads!Unlock(t))
        BY <1>1 DEF Threads!Lock, Threads!Count, Threads!Total, Threads!Unlock
    <2>6. CASE Threads!Take(t)
        BY <1>2, <2>6 DEF Threads!Take
    <2>7. CASE Threads!Section(t)
        BY <1>2, <2>7 DEF Threads!Section
    <2>8. CASE Threads!Release(t)
        BY <1>2, <1>3, <2>8 DEF Threads!Release
    <2>9. CASE Threads!TryRead(t) \/ Threads!TryWrite(t) \/ Threads!UseEnds(t)
        BY <1>2, <2>9 DEF Threads!TryRead, Threads!TryWrite, Threads!UseEnds
    <2> QED BY <1>7, <2>1, <2>2, <2>3, <2>4, <2>5, <2>6, <2>7, <2>8, <2>9 DEF Threads!Step
<1> QED BY <1>6, <1>7 DEF Threads!Next, Thread

\* A writer locks when nobody holds the lock, a reader when no writer does.
LEMMA AloneKeeps == Alone /\ Threads!Next => Alone'
<1> SUFFICES ASSUME Alone, Threads!Next PROVE Alone'
    OBVIOUS
<1>1. UNCHANGED <<readers, writers>> => Alone'
    BY DEF Alone
<1>2. Threads!Key => Alone'
    BY <1>1 DEF Threads!Key, Threads!rwlock
<1>3. ASSUME NEW t \in Thread, Threads!Step(t) PROVE Alone'
    <2>1. CASE Threads!TryRead(t)
        BY <2>1 DEF Threads!TryRead, Alone
    <2>2. CASE Threads!TryWrite(t)
        BY <2>2 DEF Threads!TryWrite, Alone
    <2>3. CASE Threads!UseEnds(t)
        BY <2>3 DEF Threads!UseEnds, Alone
    <2> QED BY <1>1, <1>3, <2>1, <2>2, <2>3
        DEF Threads!Step, Threads!Create, Threads!AllCreated, Threads!Sum,
            Threads!SleepEnds, Threads!Lock, Threads!Count, Threads!Total, Threads!Unlock,
            Threads!Take, Threads!Section, Threads!Release, Threads!rwlock
<1> QED BY <1>2, <1>3 DEF Threads!Next, Thread

LEMMA ThreadsKeep == ThreadsInv /\ Threads!Next => ThreadsInv'
<1>1. Threads!Next => program' = program
    BY DEF Threads!Next, Threads!Key, Threads!Step, Threads!Create, Threads!AllCreated,
       Threads!Sum, Threads!SleepEnds, Threads!Lock, Threads!Count, Threads!Total,
       Threads!Unlock, Threads!Take, Threads!Section, Threads!Release, Threads!TryRead,
       Threads!TryWrite, Threads!UseEnds
<1> QED BY <1>1, AloneKeeps, ThreadKeeps, ElsewhereKeeps DEF ThreadsInv

LEMMA ThreadsStay == ThreadsInv /\ UNCHANGED <<program, threadVars>> => ThreadsInv'
BY DEF ThreadsInv, threadVars, Alone, ThreadInv, Elsewhere, ThreadTypes, Turns, Adds,
       Sums, Total, Counting

LEMMA ThreadsPromise == ThreadsInv => LocksProtect
<1> SUFFICES ASSUME ThreadsInv PROVE LocksProtect
    OBVIOUS
<1>1. thread_at[0] = "unlock" => sum = main_counter
    <2>1. program # "thread" => thread_at[0] # "unlock"
        BY ThreadsAre DEF ThreadsInv, Elsewhere
    <2>2. program = "thread" /\ thread_at[0] = "unlock" => sum = main_counter
        BY ThreadsAre DEF ThreadsInv, ThreadInv, Adds
    <2> QED BY <2>1, <2>2
<1> QED BY <1>1, ThreadsAre DEF LocksProtect, Threads!LocksProtect, ThreadsInv, Alone

----------------------------------------------------------------------------
(* TimeService: clients that leave do not end the server, and one read       *)
(* returns a whole answer.                                                   *)

Serving == server \in {"fdopen", "head", "time", "fclose"}

\* A connection is in one place: it waits to be made, is queued, is served,
\* or is behind the server; and only what is behind the server is broken.
Places ==
    /\ Serving => serving \in Client
    /\ server \in {"absent", "setup", "accept"} => serving = Time!Nobody
    /\ \A j, k \in 1 .. Len(queue) : queue[j] = queue[k] => j = k
    /\ \A k \in 1 .. Len(queue) :
          /\ queue[k] # serving /\ queue[k] \notin broken
          /\ client[queue[k]] # "connect"
    /\ serving \in Client => serving \notin broken /\ client[serving] # "connect"
    /\ \A c \in broken : client[c] \in {"done", "dead"}

\* What the buffer holds when the server is at a call.
Buffered ==
    /\ server = "time" => stream = <<Time!TheTimeHereIs>>
    /\ server = "fclose" => stream = Time!Answer
    /\ server \notin {"time", "fclose"} => stream = <<>>

\* A segment is an answer, and the only one of its connection.
Sent ==
    \A c \in Client :
        segments[c] # <<>> =>
            segments[c] = <<Time!Answer>> /\ c # serving /\ ~ Time!Queued(c)
            /\ client[c] # "connect"

\* A client that reads has an answer before it, or will be served.
Expecting ==
    \A c \in Client :
        /\ client[c] \notin {"done", "dead"} => received[c] = <<>>
        /\ client[c] = "read" /\ segments[c] = <<>> =>
              Time!Queued(c) \/ c = serving \/ server = "over"

TimeInv == Time!TypeOK /\ Places /\ Buffered /\ Sent /\ Expecting /\ Time!OneReadIsEnough

LEMMA NobodyIs == Time!Nobody \notin Client
BY TimeServiceAssumption DEF Nobody, Time!Nobody

\* The server starts in this way, or not at all.
LEMMA TimeStart == Time!Start => TimeInv
BY NobodyIs, TimeServiceAssumption
DEF Time!Start, Time!Program, TimeInv, Time!TypeOK, Places, Serving, Buffered, Sent, Expecting,
    Time!OneReadIsEnough, Time!Queued, Time!Nobody

LEMMA AnswerIs ==
    /\ Time!Answer \in Seq(Time!Part) /\ Time!Answer # <<>>
    /\ Time!TheTimeHereIs \in Time!Part /\ Time!Ctime \in Time!Part
    /\ <<Time!TheTimeHereIs>> \in Seq(Time!Part)
    /\ Append(<<>>, Time!TheTimeHereIs) = <<Time!TheTimeHereIs>>
    /\ Append(<<Time!TheTimeHereIs>>, Time!Ctime) = Time!Answer
<1>1. Time!TheTimeHereIs \in Time!Part /\ Time!Ctime \in Time!Part
    BY DEF Time!Part
<1>2. Time!Answer \in Seq(Time!Part) /\ <<Time!TheTimeHereIs>> \in Seq(Time!Part)
    BY <1>1 DEF Time!Answer
<1>3. Time!Answer # <<>> /\ Append(<<>>, Time!TheTimeHereIs) = <<Time!TheTimeHereIs>>
    BY DEF Time!Answer
<1>4. Append(<<Time!TheTimeHereIs>>, Time!Ctime) = Time!Answer
    <2>1. /\ Append(<<Time!TheTimeHereIs>>, Time!Ctime) \in Seq(Time!Part)
          /\ Len(Append(<<Time!TheTimeHereIs>>, Time!Ctime)) = Len(Time!Answer)
        BY <1>1, <1>2 DEF Time!Answer
    <2>2. \A k \in 1 .. Len(Time!Answer) :
             Append(<<Time!TheTimeHereIs>>, Time!Ctime)[k] = Time!Answer[k]
        BY <1>1, <1>2 DEF Time!Answer
    <2> QED BY ONLY <1>2, <2>1, <2>2, SeqEqual
<1> QED BY <1>1, <1>2, <1>3, <1>4

\* The calls of the server.
LEMMA SetupKeeps == TimeInv /\ Time!Setup => TimeInv'
BY DEF TimeInv, Time!Setup, Time!connections, Time!TypeOK, Places, Serving, Buffered, Sent,
       Expecting, Time!OneReadIsEnough, Time!Queued

LEMMA AcceptFailsKeeps == TimeInv /\ Time!AcceptFails => TimeInv'
BY DEF TimeInv, Time!AcceptFails, Time!connections, Time!TypeOK, Places, Serving, Buffered, Sent,
       Expecting, Time!OneReadIsEnough, Time!Queued

LEMMA FdopenKeeps == TimeInv /\ Time!Fdopen => TimeInv'
BY DEF TimeInv, Time!Fdopen, Time!connections, Time!TypeOK, Places, Serving, Buffered, Sent,
       Expecting, Time!OneReadIsEnough, Time!Queued

LEMMA FprintfKeeps == TimeInv /\ Time!Fprintf => TimeInv'
<1> SUFFICES ASSUME TimeInv, Time!Fprintf PROVE TimeInv'
    OBVIOUS
<1>1. Time!TypeOK' /\ Buffered'
    BY AnswerIs DEF TimeInv, Time!Fprintf, Time!connections, Time!TypeOK, Buffered
<1>2. Places'
    BY DEF TimeInv, Time!Fprintf, Time!connections, Time!TypeOK, Places, Serving
<1>3. Sent' /\ Expecting' /\ Time!OneReadIsEnough'
    BY DEF TimeInv, Time!Fprintf, Time!connections, Time!TypeOK, Sent, Expecting, Time!OneReadIsEnough,
           Time!Queued
<1> QED BY <1>1, <1>2, <1>3 DEF TimeInv

LEMMA AcceptKeeps == TimeInv /\ Time!Accept => TimeInv'
<1> SUFFICES ASSUME TimeInv, Time!Accept PROVE TimeInv'
    OBVIOUS
<1>1. /\ Len(queue) \in Nat /\ Len(queue) > 0
      /\ Head(queue) = queue[1] /\ queue[1] \in Client
      /\ Len(Tail(queue)) = Len(queue) - 1 /\ Tail(queue) \in Seq(Client)
      /\ \A k \in 1 .. Len(queue) - 1 : Tail(queue)[k] = queue[k + 1]
    BY DEF TimeInv, Time!Accept, Time!TypeOK
<1>2. Time!TypeOK' /\ Buffered'
    BY <1>1, NobodyIs, TimeServiceAssumption DEF TimeInv, Time!Accept, Time!TypeOK, Buffered
<1>3. Places'
    BY <1>1 DEF TimeInv, Time!Accept, Time!TypeOK, Places, Serving
<1>4. \A c \in Client : (Time!Queued(c) \/ c = serving)' <=> Time!Queued(c)
    <2> SUFFICES ASSUME NEW c \in Client
                 PROVE (Time!Queued(c) \/ c = serving)' <=> Time!Queued(c)
        OBVIOUS
    <2>1. Time!Queued(c) <=> \E k \in 1 .. Len(queue) : queue[k] = c
        BY DEF TimeInv, Time!TypeOK, Time!Queued
    <2>2. Time!Queued(c)' <=> \E k \in 1 .. Len(queue) - 1 : queue[k + 1] = c
        <3>1. queue' = Tail(queue) /\ DOMAIN Tail(queue) = 1 .. Len(queue) - 1
            BY <1>1 DEF Time!Accept
        <3>2. Time!Queued(c)' <=> \E k \in 1 .. Len(queue) - 1 : Tail(queue)[k] = c
            BY <3>1 DEF Time!Queued
        <3> QED BY <3>2, <1>1
    <2>3. ASSUME NEW k \in 1 .. Len(queue), queue[k] = c, k # 1
          PROVE  k - 1 \in 1 .. Len(queue) - 1 /\ queue[(k - 1) + 1] = c
        BY <1>1, <2>3
    <2>4. ASSUME NEW k \in 1 .. Len(queue) - 1
          PROVE  k + 1 \in 1 .. Len(queue)
        BY <1>1
    <2>5. Time!Queued(c)' => Time!Queued(c)
        BY <2>1, <2>2, <2>4
    <2>6. c = serving' <=> c = queue[1]
        BY <1>1 DEF Time!Accept
    <2>7. c = serving' => Time!Queued(c)
        BY <1>1, <2>1, <2>6
    <2>8. Time!Queued(c) => Time!Queued(c)' \/ c = serving'
        BY <2>1, <2>2, <2>3, <2>6
    <2> QED BY <2>5, <2>7, <2>8
<1>5. \A c \in Client : c # serving
    BY NobodyIs, TimeServiceAssumption DEF TimeInv, Time!Accept, Places
<1>6. Sent' /\ Expecting' /\ Time!OneReadIsEnough'
    <2>1. \A c \in Client : /\ Time!Queued(c)' => Time!Queued(c)
                            /\ c = serving' => Time!Queued(c)
                            /\ Time!Queued(c) => Time!Queued(c)' \/ c = serving'
        BY <1>4
    <2>2. Sent'
        BY <2>1, <1>5 DEF TimeInv, Time!Accept, Sent
    <2>3. Expecting'
        BY <2>1, <1>5 DEF TimeInv, Time!Accept, Expecting
    <2>4. Time!OneReadIsEnough'
        BY DEF TimeInv, Time!Accept, Time!OneReadIsEnough
    <2> QED BY <2>2, <2>3, <2>4
<1> QED BY <1>2, <1>3, <1>6 DEF TimeInv

\* The buffer is written in one go, so that the connection is not broken yet.
LEMMA FcloseKeeps == TimeInv /\ Time!Fclose => TimeInv'
<1> SUFFICES ASSUME TimeInv, Time!Fclose PROVE TimeInv'
    OBVIOUS
<1>1. /\ serving \in Client /\ serving \notin broken /\ stream = Time!Answer
      /\ server' = "accept" /\ serving' = Time!Nobody /\ stream' = <<>>
      /\ client[serving] # "connect" /\ segments[serving] = <<>>
      /\ UNCHANGED <<queue, client, received>>
    BY AnswerIs DEF TimeInv, Time!Fclose, Places, Serving, Buffered, Sent, Time!Sends
<1>2. \A c \in Client : Time!Queued(c)' <=> Time!Queued(c)
    BY <1>1 DEF Time!Queued
<1>3. CASE Time!Here
    <2>1. /\ segments' = [segments EXCEPT ![serving] = <<Time!Answer>>]
          /\ UNCHANGED broken
        BY <1>1, <1>3, AnswerIs DEF TimeInv, Time!Fclose, Time!Sends, Time!TypeOK
    <2>2. Time!TypeOK' /\ Buffered'
        BY <1>1, <2>1, AnswerIs DEF TimeInv, Time!TypeOK, Buffered
    <2>3. Places'
        BY <1>1, <2>1, NobodyIs, TimeServiceAssumption DEF TimeInv, Time!TypeOK, Places, Serving, Time!Nobody
    <2>4. ~ Time!Queued(serving)
        BY <1>1 DEF TimeInv, Time!TypeOK, Places, Time!Queued
    <2>5. Sent'
        BY <1>1, <1>2, <2>1, <2>4, NobodyIs, TimeServiceAssumption DEF TimeInv, Time!TypeOK, Sent
    <2>6. Expecting' /\ Time!OneReadIsEnough'
        BY <1>1, <1>2, <2>1, AnswerIs
        DEF TimeInv, Time!TypeOK, Expecting, Time!OneReadIsEnough, Serving, Time!Fclose
    <2> QED BY <2>2, <2>3, <2>5, <2>6 DEF TimeInv
<1>4. CASE ~ Time!Here
    <2>1. /\ broken' = broken \cup {serving} /\ UNCHANGED segments
          /\ client[serving] \in {"done", "dead"}
        BY <1>1, <1>4, AnswerIs DEF Time!Fclose, Time!Sends, Time!Here
    <2>2. Time!TypeOK' /\ Buffered'
        BY <1>1, <2>1 DEF TimeInv, Time!TypeOK, Buffered
    <2>3. Places'
        BY <1>1, <2>1, NobodyIs, TimeServiceAssumption DEF TimeInv, Time!TypeOK, Places, Serving, Time!Nobody
    <2>4. Sent'
        BY <1>1, <1>2, <2>1, NobodyIs, TimeServiceAssumption DEF TimeInv, Time!TypeOK, Sent
    <2>5. Expecting' /\ Time!OneReadIsEnough'
        BY <1>1, <1>2, <2>1
        DEF TimeInv, Time!TypeOK, Expecting, Time!OneReadIsEnough, Time!Fclose
    <2> QED BY <2>2, <2>3, <2>4, <2>5 DEF TimeInv
<1> QED BY <1>3, <1>4

\* The calls of a client.
LEMMA ConnectKeeps == ASSUME NEW c \in Client, TimeInv, Time!Connect(c) PROVE TimeInv'
<1>1. CASE /\ server \notin {"setup", "over"} /\ Len(queue) < Qsize
           /\ queue' = Append(queue, c)
           /\ client' = [client EXCEPT ![c] = "read"]
    <2>1. /\ Len(queue) \in Nat /\ Len(queue') = Len(queue) + 1
          /\ queue' \in Seq(Client) /\ queue'[Len(queue) + 1] = c
          /\ \A k \in 1 .. Len(queue) : queue'[k] = queue[k]
        BY <1>1 DEF TimeInv, Time!TypeOK
    <2>2. client[c] = "connect" /\ client' \in [Client -> {"absent", "connect",
                                                        "read", "done", "dead"}]
        BY <1>1 DEF Time!Connect, TimeInv, Time!TypeOK
    <2>3. Time!TypeOK' /\ Buffered'
        BY <1>1, <2>1, <2>2, NobodyIs, TimeServiceAssumption
        DEF Time!Connect, TimeInv, Time!TypeOK, Buffered
    <2>4. c # serving /\ c \notin broken /\ \A k \in 1 .. Len(queue) : queue[k] # c
        BY <2>2 DEF TimeInv, Places
    <2>5. Places'
        <3>1. \A k \in 1 .. Len(queue') :
                 \/ k \in 1 .. Len(queue) /\ queue'[k] = queue[k] /\ queue[k] # c
                 \/ k = Len(queue) + 1 /\ queue'[k] = c
            BY <2>1, <2>4
        <3>2. \A j, k \in 1 .. Len(queue') : queue'[j] = queue'[k] => j = k
            BY <3>1 DEF TimeInv, Places
        <3>3. \A k \in 1 .. Len(queue') :
                 /\ queue'[k] # serving /\ queue'[k] \notin broken
                 /\ client'[queue'[k]] # "connect"
            BY <1>1, <2>4, <3>1 DEF TimeInv, Time!TypeOK, Places
        <3> QED BY <1>1, <2>2, <2>4, <3>2, <3>3
                DEF Time!Connect, TimeInv, Time!TypeOK, Places, Serving
    <2>6. \A d \in Client : Time!Queued(d)' <=> Time!Queued(d) \/ d = c
        <3>1. DOMAIN queue = 1 .. Len(queue) /\ DOMAIN queue' = 1 .. Len(queue) + 1
            BY <2>1 DEF TimeInv, Time!TypeOK
        <3> QED BY <2>1, <3>1 DEF Time!Queued
    <2>7. /\ client' = [client EXCEPT ![c] = "read"]
          /\ UNCHANGED <<server, serving, segments, received>>
          /\ segments[c] = <<>>
        BY <1>1, <2>2 DEF Time!Connect, TimeInv, Sent
    <2>8. Sent'
        BY <2>2, <2>6, <2>7 DEF TimeInv, Time!TypeOK, Sent
    <2>9. Expecting' /\ Time!OneReadIsEnough'
        BY <2>2, <2>6, <2>7 DEF TimeInv, Time!TypeOK, Expecting, Time!OneReadIsEnough
    <2> QED BY <2>3, <2>5, <2>8, <2>9 DEF TimeInv
<1>2. CASE /\ client' = [client EXCEPT ![c] = "dead"] /\ UNCHANGED queue
    <2>1. Time!TypeOK' /\ Buffered'
        BY <1>2 DEF Time!Connect, TimeInv, Time!TypeOK, Buffered
    <2>2. Places'
        BY <1>2 DEF Time!Connect, TimeInv, Time!TypeOK, Places, Serving
    <2>3. Sent' /\ Expecting' /\ Time!OneReadIsEnough'
        BY <1>2 DEF Time!Connect, TimeInv, Time!TypeOK, Sent, Expecting, Time!OneReadIsEnough, Time!Queued
    <2> QED BY <2>1, <2>2, <2>3 DEF TimeInv
<1> QED BY <1>1, <1>2 DEF Time!Connect

LEMMA ReadKeeps == ASSUME NEW c \in Client, TimeInv, Time!Read(c) PROVE TimeInv'
<1>1. /\ client[c] = "read" /\ client' = [client EXCEPT ![c] = "done"]
      /\ UNCHANGED <<server, serving, stream, queue, broken>>
    BY DEF Time!Read
<1>2. CASE /\ segments[c] # <<>>
           /\ received' = [received EXCEPT ![c] = Head(segments[c])]
           /\ segments' = [segments EXCEPT ![c] = Tail(@)]
    <2>1. segments[c] = <<Time!Answer>>
        BY <1>2 DEF TimeInv, Sent
    <2>2. Head(segments[c]) = Time!Answer /\ Tail(segments[c]) = <<>>
        BY <2>1
    <2>3. /\ received' = [received EXCEPT ![c] = Time!Answer]
          /\ segments' = [segments EXCEPT ![c] = <<>>]
        BY <1>2, <2>2
    <2>4. Time!TypeOK' /\ Buffered'
        BY <1>1, <2>3, AnswerIs DEF TimeInv, Time!TypeOK, Buffered
    <2>5. Places'
        BY <1>1 DEF TimeInv, Time!TypeOK, Places, Serving
    <2>6. Sent' /\ Expecting' /\ Time!OneReadIsEnough'
        BY <1>1, <2>3
        DEF TimeInv, Time!TypeOK, Sent, Expecting, Time!OneReadIsEnough, Time!Queued
    <2> QED BY <2>4, <2>5, <2>6 DEF TimeInv
<1>3. CASE /\ segments[c] = <<>> /\ UNCHANGED <<received, segments>>
           /\ (c # serving /\ ~ Time!Queued(c)) \/ server = "over"
    <2>1. server = "over" /\ received[c] = <<>>
        BY <1>1, <1>3 DEF TimeInv, Expecting
    <2>2. Time!TypeOK' /\ Buffered'
        BY <1>1, <1>3 DEF TimeInv, Time!TypeOK, Buffered
    <2>3. Places'
        BY <1>1 DEF TimeInv, Time!TypeOK, Places, Serving
    <2>4. Sent' /\ Expecting' /\ Time!OneReadIsEnough'
        BY <1>1, <1>3, <2>1
        DEF TimeInv, Time!TypeOK, Sent, Expecting, Time!OneReadIsEnough, Time!Queued
    <2> QED BY <2>2, <2>3, <2>4 DEF TimeInv
<1> QED BY <1>2, <1>3 DEF Time!Read

LEMMA KilledKeeps == ASSUME NEW c \in Client, TimeInv, Time!Killed(c) PROVE TimeInv'
<1>1. Time!TypeOK' /\ Buffered'
    BY DEF Time!Killed, TimeInv, Time!TypeOK, Buffered
<1>2. Places'
    BY DEF Time!Killed, TimeInv, Time!TypeOK, Places, Serving
<1>3. Sent' /\ Expecting' /\ Time!OneReadIsEnough'
    BY DEF Time!Killed, TimeInv, Time!TypeOK, Sent, Expecting, Time!OneReadIsEnough, Time!Queued
<1> QED BY <1>1, <1>2, <1>3 DEF TimeInv

LEMMA TimeKeeps == TimeInv /\ Time!Next => TimeInv'
<1> SUFFICES ASSUME TimeInv, Time!Next PROVE TimeInv'
    OBVIOUS
<1>1. CASE Time!Serve
    BY <1>1, SetupKeeps, AcceptKeeps, FdopenKeeps, FprintfKeeps, FcloseKeeps
    DEF Time!Serve
<1>2. CASE Time!AcceptFails
    BY <1>2, AcceptFailsKeeps
<1>3. CASE \E c \in Client : Time!Step(c) \/ Time!Killed(c)
    BY <1>3, ConnectKeeps, ReadKeeps, KilledKeeps DEF Time!Step
<1> QED BY <1>1, <1>2, <1>3 DEF Time!Next

LEMMA TimeStays == TimeInv /\ UNCHANGED <<program, timeVars>> => TimeInv'
BY DEF timeVars, TimeInv, Time!TypeOK, Places, Serving, Buffered, Sent, Expecting,
       Time!OneReadIsEnough, Time!Queued

LEMMA TimePromises == TimeInv => ClientsDoNotEndIt /\ Time!OneReadIsEnough
BY DEF TimeInv, Places, Serving, ClientsDoNotEndIt, Time!ClientsDoNotEndIt

----------------------------------------------------------------------------
(* The programs side by side: a step of one of them leaves the variables of *)
(* the others, and which program runs, as they are.                         *)

DemosInv == SelectInv /\ ModulesInv /\ TreesInv /\ ThreadsInv /\ TimeInv /\ PipesInv

LEMMA DemosStart == Init => DemosInv
BY SelectStart, ModulesStart, TreesStart, ThreadsStart, TimeStart, PipesStart
DEF Init, DemosInv

LEMMA ProgramStays ==
    Pipe!Next \/ Threads!Next \/ Trees!Next \/ Modules!Next \/ Time!Next \/ Select!Next
       => program' = program
<1>1. Threads!Next => program' = program
    BY DEF Threads!Next, Threads!Key, Threads!Step, Threads!Create, Threads!AllCreated,
       Threads!Sum, Threads!SleepEnds, Threads!Lock, Threads!Count, Threads!Total,
       Threads!Unlock, Threads!Take, Threads!Section, Threads!Release, Threads!TryRead,
       Threads!TryWrite, Threads!UseEnds
<1>2. Trees!Next => program' = program
    BY DEF Trees!Next, Trees!Step, Trees!Fork, Trees!ForkFails, Trees!Printf,
           Trees!Wait, Trees!Poll, Trees!Exit, Trees!TypeDigit, Trees!Quit
<1>3. Modules!Next => program' = program
    BY DEF Modules!Next, Modules!Step, Modules!Insmod, Modules!Rmmod, Modules!DoGet,
       Modules!DoPut, Modules!DoReturn, Modules!DoCheck, Modules!DoStartTimer,
       Modules!HandlerRuns
<1>4. Select!Next => program' = program
    BY DEF Select!Next, Select!Step, Select!Select, Select!TestSocket, Select!TestStdin,
       Select!Error, Select!Type, Select!Serve
<1>5. Time!Next => program' = program
    BY DEF Time!Next, Time!Serve, Time!AcceptFails, Time!Step, Time!Killed, Time!Setup,
       Time!Accept, Time!Fdopen, Time!Fprintf, Time!Fclose, Time!Connect, Time!Read
<1>6. Pipe!Next => program' = program
    BY DEF Pipe!Next, Pipe!Step, Pipe!DoPipe, Pipe!DoFork, Pipe!DoExec, Pipe!DoCall,
       Pipe!DoClose, Pipe!DoDup2, Pipe!DoFdopen, Pipe!DoFprintf, Pipe!DoFflush,
       Pipe!DoWrite, Pipe!DoRead, Pipe!DoWrap, Pipe!DoWait, Pipe!DoExit, Pipe!DoTyped,
       Pipe!Dies
<1> QED BY <1>1, <1>2, <1>3, <1>4, <1>5, <1>6

LEMMA DemosStay == DemosInv /\ UNCHANGED vars => DemosInv'
BY SelectStays, ModulesStay, TreesStay, ThreadsStay, TimeStays, PipesStay DEF DemosInv, vars

LEMMA DemosKeep == DemosInv /\ [Next]_vars => DemosInv'
<1> SUFFICES ASSUME DemosInv, Next PROVE DemosInv'
    BY DemosStay
<1>1. SelectInv /\ ModulesInv /\ TreesInv /\ ThreadsInv /\ TimeInv /\ PipesInv
    BY DEF DemosInv
<1>2. program' = program
    BY ProgramStays DEF Next
<1>3. UNCHANGED selectVars => SelectInv'
    BY <1>1, SelectStays
<1>4. UNCHANGED moduleVars => ModulesInv'
    BY <1>1, <1>2, ModulesStay
<1>5. UNCHANGED treeVars => TreesInv'
    BY <1>1, <1>2, TreesStay
<1>6. UNCHANGED threadVars => ThreadsInv'
    BY <1>1, <1>2, ThreadsStay
<1>7. UNCHANGED timeVars => TimeInv'
    BY <1>1, <1>2, TimeStays
<1>8. UNCHANGED pipeVars => PipesInv'
    BY <1>1, <1>2, PipesStay
<1>9. CASE /\ Pipe!Next
           /\ UNCHANGED <<threadVars, treeVars, moduleVars, timeVars, selectVars>>
    BY <1>1, <1>3, <1>4, <1>5, <1>6, <1>7, <1>9, PipesKeep DEF DemosInv
<1>10. CASE /\ Threads!Next
           /\ UNCHANGED <<pipeVars, treeVars, moduleVars, timeVars, selectVars>>
    BY <1>1, <1>3, <1>4, <1>5, <1>7, <1>8, <1>10, ThreadsKeep DEF DemosInv
<1>11. CASE /\ Trees!Next
            /\ UNCHANGED <<pipeVars, threadVars, moduleVars, timeVars, selectVars>>
    BY <1>1, <1>3, <1>4, <1>6, <1>7, <1>8, <1>11, TreesKeep DEF DemosInv
<1>12. CASE /\ Modules!Next
            /\ UNCHANGED <<pipeVars, threadVars, treeVars, timeVars, selectVars>>
    BY <1>1, <1>3, <1>5, <1>6, <1>7, <1>8, <1>12, ModulesKeep DEF DemosInv
<1>13. CASE /\ Time!Next
            /\ UNCHANGED <<pipeVars, threadVars, treeVars, moduleVars, selectVars>>
    BY <1>1, <1>3, <1>4, <1>5, <1>6, <1>8, <1>13, TimeKeeps DEF DemosInv
<1>14. CASE /\ Select!Next
            /\ UNCHANGED <<pipeVars, threadVars, treeVars, moduleVars, timeVars>>
    BY <1>1, <1>4, <1>5, <1>6, <1>7, <1>8, <1>14, SelectKeeps DEF DemosInv
<1> QED BY <1>9, <1>8, <1>10, <1>11, <1>12, <1>13, <1>14 DEF Next

\* The invariants of the six modules hold side by side.
THEOREM Inductive == Spec => []DemosInv
<1>1. Init => DemosInv
    BY DemosStart
<1>2. DemosInv /\ [Next]_vars => DemosInv'
    BY DemosKeep
<1> QED BY <1>1, <1>2, PTL DEF Spec

----------------------------------------------------------------------------
(* The values of the variables.  SelectClient and KernelModules: the flags  *)
(* follow from the invariants above, the counters never pass the lines typed. *)

\* The flags and counters of IO_select.c.
SelectTypes ==
    /\ Select!TypeOK /\ lines <= MaxLines /\ answered <= lines_sent
    /\ answers <= answered

LEMMA SelectTypesStart == Select!Start => SelectTypes
<1> SUFFICES ASSUME Select!Start PROVE SelectTypes
    OBVIOUS
<1>1. MaxLines \in Nat
    BY DemosAssumption
<1>2. stdin \in {"terminal", "pipe"}
    BY DEF Select!Start
<1>3. /\ select_at \in {"absent", "select", "test socket", "test stdin", "over"}
      /\ readmask \subseteq Select!Fd /\ {ended, closed} \subseteq BOOLEAN
    BY DEF Select!Start
<1>4. /\ lines = 0 /\ waiting = 0 /\ buffered = 0 /\ lines_sent = 0 /\ answers = 0 /\ answered = 0
      /\ {lines, waiting, buffered, lines_sent, answers, answered} \subseteq 0 .. MaxLines
    BY <1>1 DEF Select!Start
<1>5. lines <= MaxLines /\ answered <= lines_sent /\ answers <= answered
    BY <1>1, <1>4
<1> QED BY <1>2, <1>3, <1>4, <1>5 DEF SelectTypes, Select!TypeOK

LEMMA SelectTypesKeep == SelectInv /\ SelectTypes /\ Select!Next => SelectTypes'
<1> SUFFICES ASSUME SelectInv, SelectTypes, Select!Next PROVE SelectTypes'
    OBVIOUS
<1>0. MaxLines \in Nat
    BY DemosAssumption
<1>1. SelectInv'
    BY SelectKeeps
<1>2. /\ lines' \in Nat /\ waiting' \in Nat /\ buffered' \in Nat /\ lines_sent' \in Nat
      /\ answers' \in Nat /\ lines' = lines_sent' + buffered' + waiting'
    BY <1>1 DEF SelectInv
<1>3. /\ lines \in Nat /\ lines_sent \in Nat /\ answers \in Nat /\ answered \in Nat
      /\ lines <= MaxLines /\ answered <= lines_sent /\ answers <= answered
    <2>1. {lines, waiting, buffered, lines_sent, answers, answered} \subseteq 0 .. MaxLines
        BY DEF SelectTypes, Select!TypeOK
    <2>2. answered \in 0 .. MaxLines
        BY <2>1
    <2>3. answered \in Nat
        BY <1>0, <2>2
    <2> QED BY <2>3 DEF SelectInv, SelectTypes
<1>4. /\ lines' <= MaxLines /\ answered' \in Nat /\ answered' <= lines_sent'
      /\ answers' <= answered'
    <2> USE DEF Select!user, Select!server
    <2>1. CASE Select!Select
        BY <1>3, <2>1 DEF Select!Select
    <2>2. CASE Select!TestSocket
        <3>1. lines' = lines /\ lines_sent' = lines_sent /\ answered' = answered
            BY <2>2 DEF Select!TestSocket
        <3>2. answers' <= answers
            <4>1. CASE \E k \in 1 .. answers : answers' = answers - k
                BY <1>3, <4>1
            <4>2. CASE UNCHANGED answers
                BY <1>3, <4>2
            <4> QED BY <2>2, <4>1, <4>2 DEF Select!TestSocket
        <3>3. lines' <= MaxLines
            BY <1>3, <3>1
        <3>4. answered' \in Nat /\ answered' <= lines_sent'
            BY <1>3, <3>1
        <3>5. answers' <= answered
            BY <1>2, <1>3, <3>2
        <3> QED BY <3>1, <3>3, <3>4, <3>5
    <2>3. CASE Select!TestStdin
        <3>1. lines' = lines /\ answers' = answers /\ answered' = answered
            BY <2>3 DEF Select!TestStdin
        <3>2. lines_sent' = lines_sent \/ lines_sent' = lines_sent + 1
            BY <2>3 DEF Select!TestStdin
        <3> QED BY <1>3, <3>1, <3>2
    <2>4. CASE Select!Error
        BY <1>3, <2>4 DEF Select!Error
    <2>5. CASE Select!Type
        BY <1>0, <1>3, <2>5 DEF Select!Type
    <2>6. CASE Select!Serve
        BY <1>3, <2>6 DEF Select!Serve
    <2> QED BY <2>1, <2>2, <2>3, <2>4, <2>5, <2>6 DEF Select!Next, Select!Step
<1>5. {lines, waiting, buffered, lines_sent, answers, answered}' \subseteq 0 .. MaxLines
    <2>1. ASSUME NEW a \in Nat, NEW b \in Nat, NEW c \in Nat, NEW d \in Nat, NEW e \in Nat,
                 a = b + c + d, a <= MaxLines, e <= b
          PROVE  {a, b, c, d, e} \subseteq 0 .. MaxLines
        BY <1>0, <2>1
    <2>2. /\ {lines', lines_sent', buffered', waiting', answered'} \subseteq 0 .. MaxLines
          /\ {lines', lines_sent', buffered', waiting', answers'} \subseteq 0 .. MaxLines
        <3>1. answers' <= lines_sent'
            BY <1>2, <1>4
        <3> QED BY <1>2, <1>4, <2>1, <3>1
    <2> QED BY <2>2
<1>6. /\ stdin' \in {"terminal", "pipe"}
      /\ select_at' \in {"absent", "select", "test socket", "test stdin", "over"}
      /\ readmask' \subseteq Select!Fd /\ {ended, closed}' \subseteq BOOLEAN
    BY DEF SelectTypes, Select!TypeOK, Select!user, Select!server, Select!Next, Select!Step,
           Select!Select, Select!TestSocket, Select!TestStdin, Select!Error, Select!Type,
           Select!Serve, Select!Readable
<1> QED BY <1>4, <1>5, <1>6 DEF SelectTypes, Select!TypeOK

LEMMA SelectTypesStay == SelectTypes /\ UNCHANGED selectVars => SelectTypes'
BY DEF SelectTypes, Select!TypeOK, selectVars

\* A module's place is a step of its function.
LEMMA ModulesTypes == ModulesInv /\ ready \in BOOLEAN => Modules!TypeOK
<1> SUFFICES ASSUME ModulesInv, ready \in BOOLEAN PROVE Modules!TypeOK
    OBVIOUS
<1> DEFINE Stands == \/ module_at.fn \in {"out", "in", "oops"} /\ module_at.n = 0
                     \/ module_at.fn = "init" /\ module_at.n \in DOMAIN Modules!Entry[program]
                     \/ module_at.fn = "exit" /\ module_at.n \in DOMAIN Modules!Leave[program]
           Things == {Modules!Page, Modules!Kmalloc, Modules!Vmalloc, Modules!Handler}
                         \cup {Modules!Node(k) : k \in 1 .. N}
           Fine == Stands /\ held \subseteq Things
<1> SUFFICES Fine
    BY DEF Modules!TypeOK, ModulesInv
<1>0. N \in Nat \ {0}
    BY DemosAssumption
<1>1. ASSUME NEW fn, NEW steps, At(fn, steps)
      PROVE  module_at.fn = fn /\ module_at.n \in steps
    BY <1>1 DEF At, Modules!Place
<1>2. ASSUME NEW fn, Rests(fn)
      PROVE  module_at.fn = fn /\ module_at.n = 0
    BY <1>2 DEF Rests, Modules!Place
<1>3. ASSUME NEW a \in Nat, NEW b \in Nat, a >= 1, b <= N
      PROVE  Nodes(a, b) \subseteq Things
    BY <1>0, <1>3 DEF Nodes
<1> HIDE DEF Things
<1>4. CASE program = "memalloc"
    <2>1. DOMAIN Modules!Entry[program] = 1 .. 7 /\ DOMAIN Modules!Leave[program] = 1 .. 4
        BY <1>4 DEF Modules!Entry, Modules!Leave, Modules!MemallocInit, Modules!MemallocExit
    <2>2. Stands
        BY <1>1, <1>2, <1>4, <2>1 DEF ModulesInv, MemallocInv
    <2>3. held \subseteq Things
        BY <1>4 DEF ModulesInv, MemallocInv, Things
    <2> QED BY <2>2, <2>3
<1>5. CASE program = "v2p"
    <2>1. DOMAIN Modules!Entry[program] = 1 .. 2 /\ DOMAIN Modules!Leave[program] = 1 .. 1
        BY <1>5 DEF Modules!Entry, Modules!Leave, Modules!V2pInit, Modules!V2pExit
    <2>2. Stands
        BY <1>1, <1>2, <1>5, <2>1 DEF ModulesInv, V2pInv
    <2>3. held \subseteq Things
        BY <1>5 DEF ModulesInv, V2pInv, Things
    <2> QED BY <2>2, <2>3
<1>6. CASE program = "memtest"
    <2>1. DOMAIN Modules!Entry[program] = 1 .. 2 /\ DOMAIN Modules!Leave[program] = 1 .. 1
        BY <1>6 DEF Modules!Entry, Modules!Leave, Modules!MemtestInit
    <2>2. Stands
        BY <1>1, <1>2, <1>6, <2>1 DEF ModulesInv, MemtestInv
    <2>3. held \subseteq Things
        BY <1>6 DEF ModulesInv, MemtestInv, Things
    <2> QED BY <2>2, <2>3
<1>7. CASE program = "mylist"
    <2>1. DOMAIN Modules!Entry[program] = 1 .. N + 1 /\ DOMAIN Modules!Leave[program] = 1 .. N + 1
        BY <1>7 DEF Modules!Entry, Modules!Leave, Modules!MylistInit, Modules!MylistExit
    <2>2. MylistInv
        BY <1>7 DEF ModulesInv
    <2>3. CASE Rests("out") /\ held = {}
        BY <1>2, <2>3
    <2>4. CASE \E k \in 1 .. N + 1 :
                  module_at = Modules!Place("init", k) /\ held = Nodes(1, k - 1)
        <3>1. PICK k \in 1 .. N + 1 : module_at = Modules!Place("init", k) /\ held = Nodes(1, k - 1)
            BY <2>4
        <3>2. held \subseteq Things
            BY <1>0, <1>3, <3>1
        <3>3. Stands
            BY <2>1, <3>1 DEF Modules!Place
        <3> QED BY <3>2, <3>3
    <2>5. CASE Rests("in") /\ held = Nodes(1, N)
        BY <1>0, <1>2, <1>3, <2>5
    <2>6. CASE \E k \in 1 .. N + 1 :
                  module_at = Modules!Place("exit", k) /\ held = Nodes(k, N)
        <3>1. PICK k \in 1 .. N + 1 : module_at = Modules!Place("exit", k) /\ held = Nodes(k, N)
            BY <2>6
        <3>2. held \subseteq Things
            BY <1>0, <1>3, <3>1
        <3>3. Stands
            BY <2>1, <3>1 DEF Modules!Place
        <3> QED BY <3>2, <3>3
    <2>7. CASE Rests("oops") /\ held \subseteq Nodes(1, N)
        BY <1>0, <1>2, <1>3, <2>7
    <2> QED BY <2>2, <2>3, <2>4, <2>5, <2>6, <2>7 DEF MylistInv
<1>8. CASE program = "task"
    <2>1. DOMAIN Modules!Entry[program] = 1 .. 1 /\ DOMAIN Modules!Leave[program] = 1 .. 1
        BY <1>8 DEF Modules!Entry, Modules!Leave, Modules!TaskInit
    <2>2. Stands
        BY <1>1, <1>2, <1>8, <2>1 DEF ModulesInv, TaskInv
    <2>3. held \subseteq Things
        BY <1>8 DEF ModulesInv, TaskInv, Things
    <2> QED BY <2>2, <2>3
<1>9. CASE program = "kprobe"
    <2>1. DOMAIN Modules!Entry[program] = 1 .. 3 /\ DOMAIN Modules!Leave[program] = 1 .. 2
        BY <1>9 DEF Modules!Entry, Modules!Leave, Modules!KprobeInit, Modules!KprobeExit
    <2>2. Stands
        BY <1>1, <1>2, <1>9, <2>1 DEF ModulesInv, KprobeInv
    <2>3. held \subseteq Things
        BY <1>9 DEF ModulesInv, KprobeInv, Things
    <2> QED BY <2>2, <2>3
<1>10. CASE program = "monitor"
    <2>1. DOMAIN Modules!Entry[program] = 1 .. 4 /\ DOMAIN Modules!Leave[program] = 1 .. 2
        BY <1>10 DEF Modules!Entry, Modules!Leave, Modules!MonitorInit, Modules!MonitorExit
    <2>2. Stands
        BY <1>1, <1>2, <1>10, <2>1 DEF ModulesInv, MonitorInv
    <2>3. held \subseteq Things
        BY <1>10 DEF ModulesInv, MonitorInv, Things
    <2> QED BY <2>2, <2>3
<1>11. CASE program \notin Modules!Program
    BY <1>2, <1>11 DEF ModulesInv
<1> QED BY <1>4, <1>5, <1>6, <1>7, <1>8, <1>9, <1>10, <1>11 DEF Modules!Program

LEMMA ReadyKeeps == ready \in BOOLEAN /\ Modules!Next => ready' \in BOOLEAN
BY DEF Modules!Next, Modules!Step, Modules!Insmod, Modules!Rmmod, Modules!DoGet,
       Modules!DoPut, Modules!DoReturn, Modules!DoCheck, Modules!DoStartTimer,
       Modules!HandlerRuns

----------------------------------------------------------------------------
(* Threads: where a thread is, which program it belongs to, and that the    *)
(* counters wrap around.                                                    *)

\* Where the thread programs are; main does not come to the calls that read or
\* write rw_lock, and begins in a program of its own.
ThreadPlaces == {"absent", "create", "lock", "count", "total", "sum", "unlock", "key",
                 "first", "second", "section", "unlock2", "unlock1", "try", "use",
                 "sleep", "over"}

MainPlace ==
    /\ thread_at \in [Thread -> ThreadPlaces] /\ thread_at[0] \notin {"try", "use"}
    /\ thread_at[0] = "create" => program \in Threads!Program

ThreadValues ==
    /\ owner \in [Threads!Mutex -> Thread \cup {Threads!Nobody}]
    /\ readers \subseteq Worker /\ writers \subseteq Worker
    /\ round \in [Thread -> Nat]
    /\ counter \in [Worker -> Threads!Counts]
    /\ main_counter \in Threads!Counts /\ sum \in Threads!Counts

AllThreadTypes == MainPlace /\ ThreadValues

LEMMA AllThreadTypesAre == AllThreadTypes => Threads!TypeOK
BY DEF AllThreadTypes, MainPlace, ThreadValues, ThreadPlaces, Threads!TypeOK, Thread, Worker

LEMMA AllThreadTypesStart == Threads!Start => AllThreadTypes
<1> SUFFICES ASSUME Threads!Start PROVE AllThreadTypes
    OBVIOUS
<1>1. /\ thread_at = [t \in Thread |-> IF t = 0 /\ program \in Threads!Program
                                       THEN "create" ELSE "absent"]
      /\ owner = [m \in Threads!Mutex |-> Threads!Nobody]
      /\ readers = {} /\ writers = {} /\ round = [t \in Thread |-> 0]
      /\ counter = [t \in Worker |-> 0] /\ main_counter = 0 /\ sum = 0
    BY ThreadsAre DEF Threads!Start, Thread, Worker
<1>2. 0 \in Threads!Counts
    BY DemosAssumption DEF Threads!Counts
<1>3. MainPlace
    BY <1>1, ThreadsAre DEF MainPlace, ThreadPlaces
<1>4. ThreadValues
    BY <1>1, <1>2 DEF ThreadValues
<1> QED BY <1>3, <1>4 DEF AllThreadTypes

\* A thread goes to another call, and main never to one of rw_lock.
LEMMA GoesTo ==
    ASSUME MainPlace, program' = program, NEW t, NEW place \in ThreadPlaces \ {"create"},
           t = 0 => place \notin {"try", "use"}, Threads!Goto(t, place)
    PROVE  MainPlace'
<1>1. thread_at' = [thread_at EXCEPT ![t] = place] /\ 0 \in Thread
    BY ThreadsAre DEF Threads!Goto
<1>2. thread_at' \in [Thread -> ThreadPlaces]
    BY <1>1 DEF MainPlace
<1>3. thread_at'[0] = IF t = 0 THEN place ELSE thread_at[0]
    BY <1>1 DEF MainPlace
<1> QED BY <1>2, <1>3 DEF MainPlace

LEMMA MainPlaceKeeps == MainPlace /\ ThreadValues /\ Threads!Next => MainPlace'
<1> SUFFICES ASSUME MainPlace, ThreadValues, Threads!Next PROVE MainPlace'
    OBVIOUS
<1>1. program' = program
    BY ProgramStays
<1>2. Threads!MainReturns => MainPlace'
    <2> SUFFICES ASSUME Threads!MainReturns PROVE MainPlace'
        OBVIOUS
    <2>1. thread_at' = [t \in Thread |-> "over"]
        BY DEF Threads!MainReturns, Thread
    <2> QED BY <2>1, ThreadsAre DEF MainPlace, ThreadPlaces
<1>3. UNCHANGED thread_at => MainPlace'
    BY <1>1 DEF MainPlace
<1>4. Threads!Key => MainPlace'
    BY <1>1, <1>2, GoesTo DEF Threads!Key, Threads!Main, ThreadPlaces
<1>5. ASSUME NEW t \in Thread, Threads!Step(t) PROVE MainPlace'
    <2>0. thread_at[t] \in {"try", "use"} => t # 0
        BY DEF MainPlace
    <2>1. CASE Threads!Create
        <3>1. CASE Threads!Goto(round[0] + 1, Threads!Begins)
            <4>1. PICK u, b : u = round[0] + 1 /\ b = Threads!Begins
                OBVIOUS
            <4>2. b \in ThreadPlaces \ {"create"}
                BY <4>1 DEF Threads!Begins, ThreadPlaces
            <4>3. u # 0
                BY <4>1, ThreadsAre DEF ThreadValues
            <4> QED BY <1>1, <3>1, <4>1, <4>2, <4>3, GoesTo
        <3> QED BY <1>2, <1>3, <2>1, <3>1, ThreadsAre DEF Threads!Create
    <2>2. CASE Threads!AllCreated
        <3>1. program \in {"thread", "deadlock", "rwrite"} /\ Threads!Main = 0
            BY <2>2, ThreadsAre DEF Threads!AllCreated, MainPlace, Threads!Program
        <3>2. CASE program = "rwrite"
            <4>1. Threads!Goto(0, "sleep")
                BY <2>2, <3>1, <3>2 DEF Threads!AllCreated
            <4> QED BY <1>1, <4>1, GoesTo DEF ThreadPlaces
        <3>3. CASE program # "rwrite"
            <4>1. PICK b : b = Threads!Begins
                OBVIOUS
            <4>2. b \in {"lock", "first"}
                BY <3>1, <3>3, <4>1 DEF Threads!Begins
            <4>3. Threads!Goto(0, b)
                BY <2>2, <3>1, <3>3, <4>1 DEF Threads!AllCreated
            <4> QED BY <1>1, <4>2, <4>3, GoesTo DEF ThreadPlaces
        <3> QED BY <3>2, <3>3
    <2>3. CASE Threads!Sum
        BY <1>1, <1>3, <2>3, GoesTo DEF Threads!Sum, Threads!Main, ThreadPlaces
    <2>4. CASE Threads!SleepEnds
        BY <1>2, <2>4 DEF Threads!SleepEnds
    <2>5. CASE Threads!Lock(t)
        BY <1>1, <2>5, GoesTo DEF Threads!Lock, ThreadPlaces
    <2>6. CASE Threads!Count(t)
        BY <1>1, <2>6, GoesTo DEF Threads!Count, ThreadPlaces
    <2>7. CASE Threads!Total(t)
        BY <1>1, <2>7, GoesTo DEF Threads!Total, ThreadPlaces
    <2>8. CASE Threads!Unlock(t)
        BY <1>1, <2>8, GoesTo DEF Threads!Unlock, ThreadPlaces
    <2>9. CASE Threads!Take(t)
        BY <1>1, <2>9, GoesTo DEF Threads!Take, ThreadPlaces
    <2>10. CASE Threads!Section(t)
        BY <1>1, <2>10, GoesTo DEF Threads!Section, ThreadPlaces
    <2>11. CASE Threads!Release(t)
        BY <1>1, <1>2, <2>11, GoesTo DEF Threads!Release, ThreadPlaces
    <2>12. CASE Threads!TryRead(t)
        BY <1>1, <2>0, <2>12, GoesTo DEF Threads!TryRead, ThreadPlaces
    <2>13. CASE Threads!TryWrite(t)
        BY <1>1, <2>0, <2>13, GoesTo DEF Threads!TryWrite, ThreadPlaces
    <2>14. CASE Threads!UseEnds(t)
        BY <1>1, <2>0, <2>14, GoesTo DEF Threads!UseEnds, ThreadPlaces
    <2> QED BY <1>5, <2>1, <2>2, <2>3, <2>4, <2>5, <2>6, <2>7, <2>8, <2>9, <2>10, <2>11,
               <2>12, <2>13, <2>14 DEF Threads!Step
<1> QED BY <1>4, <1>5 DEF Threads!Next, Thread

LEMMA ThreadValuesKeep == MainPlace /\ ThreadValues /\ Threads!Next => ThreadValues'
<1> SUFFICES ASSUME MainPlace, ThreadValues, Threads!Next PROVE ThreadValues'
    OBVIOUS
<1>0. /\ Threads!Main = 0 /\ Thread = {0} \cup Worker /\ MAX_THREAD \in Nat /\ 0 \in Thread
      /\ 1 .. MAX_THREAD \subseteq Worker /\ 0 \in Threads!Counts /\ 1 \in 0 .. Modulus
      /\ Threads!Counts \subseteq 0 .. Modulus
    <2>1. Modulus \in Nat \ {0} /\ MAX_THREAD \in Nat
        BY DemosAssumption
    <2> QED BY <2>1, ThreadsAre, Workers DEF Threads!Counts
<1>1. ASSUME NEW c \in Threads!Counts PROVE Plus(c, 1) \in Threads!Counts
    BY <1>0, PlusIs
<1>2. ASSUME NEW c \in Threads!Counts, NEW d \in Threads!Counts
      PROVE  Plus(c, d) \in Threads!Counts
    BY <1>0, PlusIs
<1> USE DEF Threads!rwlock, Threads!counters
<1>3. UNCHANGED <<owner, readers, writers, round, counter, main_counter, sum>> => ThreadValues'
    BY DEF ThreadValues
<1>4. Threads!Key => ThreadValues'
    BY <1>3 DEF Threads!Key
<1>5. ASSUME NEW t \in Thread, Threads!Step(t) PROVE ThreadValues'
    <2>1. CASE Threads!Create
        <3>1. round[0] + 1 \in Nat
            BY <1>0 DEF ThreadValues
        <3>2. PICK n \in Nat : n = round[0] + 1
            BY <3>1
        <3>3. round' = [round EXCEPT ![0] = n] \/ round' = round
            BY <1>0, <2>1, <3>2 DEF Threads!Create
        <3>4. round' \in [Thread -> Nat]
            BY <3>3 DEF ThreadValues
        <3> QED BY <2>1, <3>4 DEF Threads!Create, ThreadValues
    <2>2. CASE Threads!AllCreated
        BY <2>2 DEF Threads!AllCreated, ThreadValues
    <2>3. CASE Threads!Sum
        <3>1. PICK n : n = round[0] + 1
            OBVIOUS
        <3>2. n \in Nat \ {0}
            BY <1>0, <3>1 DEF ThreadValues
        <3>3. /\ UNCHANGED <<owner, readers, writers, counter, main_counter>>
              /\ \/ /\ n <= MAX_THREAD /\ sum' = Plus(sum, counter[n])
                    /\ round' = [round EXCEPT ![0] = n]
                 \/ sum' = sum /\ round' = [round EXCEPT ![0] = 0]
            BY <1>0, <2>3, <3>1 DEF Threads!Sum, Plus
        <3>4. n <= MAX_THREAD => counter[n] \in Threads!Counts
            BY <1>0, <3>2 DEF ThreadValues
        <3>5. sum' \in Threads!Counts
            BY <1>2, <3>3, <3>4 DEF ThreadValues
        <3>6. round' \in [Thread -> Nat]
            BY <3>2, <3>3 DEF ThreadValues
        <3> QED BY <3>3, <3>5, <3>6 DEF ThreadValues
    <2>4. CASE Threads!SleepEnds
        BY <1>3, <2>4 DEF Threads!SleepEnds
    <2>5. CASE Threads!Lock(t)
        <3>1. owner' = [owner EXCEPT !["mutex"] = t] /\ sum' \in {0, sum}
            BY <2>5 DEF Threads!Lock
        <3> QED BY <1>0, <2>5, <3>1 DEF Threads!Lock, ThreadValues
    <2>6. CASE Threads!Count(t)
        <3>1. CASE t \in Worker
            <4>1. counter' = [counter EXCEPT ![t] = Plus(counter[t], 1)]
                BY <2>6 DEF Threads!Count, Plus
            <4>2. Plus(counter[t], 1) \in Threads!Counts
                BY <1>1, <3>1 DEF ThreadValues
            <4>3. counter' \in [Worker -> Threads!Counts]
                BY <4>1, <4>2 DEF ThreadValues
            <4> QED BY <2>6, <4>3 DEF Threads!Count, ThreadValues
        <3>2. CASE t \notin Worker
            <4>1. counter' = counter
                BY <2>6, <3>2 DEF Threads!Count, ThreadValues
            <4> QED BY <2>6, <4>1 DEF Threads!Count, ThreadValues
        <3> QED BY <3>1, <3>2
    <2>7. CASE Threads!Total(t)
        <3>1. main_counter' = Plus(main_counter, 1)
            BY <2>7 DEF Threads!Total, Plus
        <3>2. main_counter' \in Threads!Counts
            BY <1>1, <3>1 DEF ThreadValues
        <3> QED BY <2>7, <3>2 DEF Threads!Total, ThreadValues
    <2>8. CASE Threads!Unlock(t)
        BY <2>8 DEF Threads!Unlock, ThreadValues
    <2>9. CASE Threads!Take(t)
        <3>1. ASSUME NEW m, Threads!Trylock(t, m)
              PROVE  owner' \in [Threads!Mutex -> Thread \cup {Threads!Nobody}]
            BY <3>1 DEF Threads!Trylock, ThreadValues
        <3>2. owner' \in [Threads!Mutex -> Thread \cup {Threads!Nobody}]
            BY <2>9, <3>1 DEF Threads!Take
        <3> QED BY <2>9, <3>2 DEF Threads!Take, ThreadValues
    <2>10. CASE Threads!Section(t)
        BY <1>3, <2>10 DEF Threads!Section
    <2>11. CASE Threads!Release(t)
        <3>1. /\ owner' \in [Threads!Mutex -> Thread \cup {Threads!Nobody}]
              /\ round' = round \/ round' = [round EXCEPT ![t] = round[t] + 1]
            BY <2>11 DEF Threads!Release, ThreadValues
        <3>2. round' \in [Thread -> Nat]
            BY <3>1 DEF ThreadValues
        <3> QED BY <2>11, <3>1, <3>2 DEF Threads!Release, ThreadValues
    <2>12. CASE Threads!TryRead(t)
        <3>1. t \in Worker
            BY <1>0, <2>12 DEF Threads!TryRead, MainPlace
        <3> QED BY <2>12, <3>1 DEF Threads!TryRead, ThreadValues
    <2>13. CASE Threads!TryWrite(t)
        <3>1. t \in Worker
            BY <1>0, <2>13 DEF Threads!TryWrite, MainPlace
        <3> QED BY <2>13, <3>1 DEF Threads!TryWrite, ThreadValues
    <2>14. CASE Threads!UseEnds(t)
        BY <2>14 DEF Threads!UseEnds, ThreadValues
    <2> QED BY <1>5, <2>1, <2>2, <2>3, <2>4, <2>5, <2>6, <2>7, <2>8, <2>9, <2>10, <2>11,
               <2>12, <2>13, <2>14 DEF Threads!Step
<1> QED BY <1>4, <1>5 DEF Threads!Next, Thread

LEMMA AllThreadTypesKeep == AllThreadTypes /\ Threads!Next => AllThreadTypes'
BY MainPlaceKeeps, ThreadValuesKeep DEF AllThreadTypes

LEMMA AllThreadTypesStay ==
    AllThreadTypes /\ UNCHANGED <<program, threadVars>> => AllThreadTypes'
BY DEF AllThreadTypes, MainPlace, ThreadValues, threadVars

----------------------------------------------------------------------------
(* Pipes: no call leads out of the function it is in, so that a process is  *)
(* always at a call of the code, unborn, or gone.                           *)

\* Where a call goes on is a step of its function, or a function.
Leads(c, k, steps) ==
    /\ c.call \in {"pipe", "fork", "exec", "close", "dup2", "fdopen", "fprintf", "fflush", "wait"}
         => k + 1 \in steps
    /\ c.call \in {"fork", "exec", "call"} => c.fn \in DOMAIN Pipe!Code
    /\ c.call = "typed" => c.line \in steps /\ c.error \in steps /\ c.eof \in steps
    /\ c.call = "read" => c.line \in steps /\ c.eof \in steps
    /\ c.call = "write" => c.next \in steps
    /\ c.call = "wrap" => c.short \in steps /\ c.long \in steps

Functions == {"bc", "bc_main_wait", "be_bc", "be_dc", "dc", "demo1", "demo2", "demo2_child",
              "demo3", "demo3_child", "demo4", "demo4_child", "popen", "writer", "reader"}

LEMMA FunctionsAre == DOMAIN Pipe!Code = Functions
BY DEF Pipe!Code, Functions

\* A function whose steps lead to steps of its own.
Closed(fn) ==
    /\ DOMAIN Pipe!Code[fn] \in SUBSET Nat /\ 1 \in DOMAIN Pipe!Code[fn]
    /\ \A k \in DOMAIN Pipe!Code[fn] : Leads(Pipe!Code[fn][k], k, DOMAIN Pipe!Code[fn])

LEMMA BcIsClosed == Closed("bc")
<1> DEFINE s == Pipe!BcMain
<1>1. Pipe!Code["bc"] = s
    BY DEF Pipe!Code
<1>2. DOMAIN s = 1 .. 3
    BY DEF Pipe!BcMain
<1>3. /\ s[1] = Pipe!MakePipes({0, 1})
      /\ s[2] = Pipe!Fork("be_dc")
      /\ s[3] = Pipe!Call("be_bc")
    BY DEF Pipe!BcMain
<1> HIDE DEF s
<1>4. Leads(s[1], 1, 1 .. 3)
    BY <1>3 DEF Leads, Pipe!MakePipes
<1>5. Leads(s[2], 2, 1 .. 3)
    BY <1>3, FunctionsAre DEF Leads, Functions, Pipe!Fork
<1>6. Leads(s[3], 3, 1 .. 3)
    BY <1>3, FunctionsAre DEF Leads, Functions, Pipe!Call
<1>7. \A k \in 1 .. 3 : Leads(s[k], k, 1 .. 3)
    BY <1>4, <1>5, <1>6
<1> QED BY <1>1, <1>2, <1>7 DEF Closed

LEMMA BcMainWaitIsClosed == Closed("bc_main_wait")
<1> DEFINE s == Pipe!BcMainWait
<1>1. Pipe!Code["bc_main_wait"] = s
    BY DEF Pipe!Code
<1>2. DOMAIN s = 1 .. 2
    BY DEF Pipe!BcMainWait
<1>3. /\ s[1] = Pipe!Wait
      /\ s[2] = Pipe!Exit
    BY DEF Pipe!BcMainWait
<1> HIDE DEF s
<1>4. Leads(s[1], 1, 1 .. 2)
    BY <1>3 DEF Leads, Pipe!Wait
<1>5. Leads(s[2], 2, 1 .. 2)
    BY <1>3 DEF Leads, Pipe!Exit
<1>6. \A k \in 1 .. 2 : Leads(s[k], k, 1 .. 2)
    BY <1>4, <1>5
<1> QED BY <1>1, <1>2, <1>6 DEF Closed

LEMMA BeBcIsClosed == Closed("be_bc")
<1> DEFINE s == Pipe!BeBc
<1>1. Pipe!Code["be_bc"] = s
    BY DEF Pipe!Code
<1>2. DOMAIN s = 1 .. 10
    BY DEF Pipe!BeBc
<1>3. /\ s[1] = Pipe!Close("r0")
      /\ s[2] = Pipe!Close("w1")
      /\ s[3] = Pipe!Fdopen
      /\ s[4] = Pipe!Typed(5, 4, 8)
      /\ s[5] = Pipe!Fprintf
      /\ s[6] = Pipe!Fflush("w0")
      /\ s[7] = Pipe!Fgets("r1", 4, 8)
      /\ s[8] = Pipe!Close("w0")
      /\ s[9] = Pipe!Close("r1")
      /\ s[10] = Pipe!Call("bc_main_wait")
    BY DEF Pipe!BeBc
<1> HIDE DEF s
<1>4. Leads(s[1], 1, 1 .. 10)
    BY <1>3 DEF Leads, Pipe!Close
<1>5. Leads(s[2], 2, 1 .. 10)
    BY <1>3 DEF Leads, Pipe!Close
<1>6. Leads(s[3], 3, 1 .. 10)
    BY <1>3 DEF Leads, Pipe!Fdopen
<1>7. Leads(s[4], 4, 1 .. 10)
    BY <1>3 DEF Leads, Pipe!Typed
<1>8. Leads(s[5], 5, 1 .. 10)
    BY <1>3 DEF Leads, Pipe!Fprintf
<1>9. Leads(s[6], 6, 1 .. 10)
    BY <1>3 DEF Leads, Pipe!Fflush
<1>10. Leads(s[7], 7, 1 .. 10)
    BY <1>3 DEF Leads, Pipe!Fgets
<1>11. Leads(s[8], 8, 1 .. 10)
    BY <1>3 DEF Leads, Pipe!Close
<1>12. Leads(s[9], 9, 1 .. 10)
    BY <1>3 DEF Leads, Pipe!Close
<1>13. Leads(s[10], 10, 1 .. 10)
    BY <1>3, FunctionsAre DEF Leads, Functions, Pipe!Call
<1>14. \A k \in 1 .. 10 : Leads(s[k], k, 1 .. 10)
    BY <1>4, <1>5, <1>6, <1>7, <1>8, <1>9, <1>10, <1>11, <1>12, <1>13
<1> QED BY <1>1, <1>2, <1>14 DEF Closed

LEMMA BeDcIsClosed == Closed("be_dc")
<1> DEFINE s == Pipe!BeDc
<1>1. Pipe!Code["be_dc"] = s
    BY DEF Pipe!Code
<1>2. DOMAIN s = 1 .. 8
    BY DEF Pipe!BeDc
<1>3. /\ s[1] = Pipe!Dup2("r0", "in")
      /\ s[2] = Pipe!Close("r0")
      /\ s[3] = Pipe!Close("w0")
      /\ s[4] = Pipe!Dup2("w1", "out")
      /\ s[5] = Pipe!Close("w1")
      /\ s[6] = Pipe!Close("r1")
      /\ s[7] = Pipe!Exec("dc")
      /\ s[8] = Pipe!Oops
    BY DEF Pipe!BeDc
<1> HIDE DEF s
<1>4. Leads(s[1], 1, 1 .. 8)
    BY <1>3 DEF Leads, Pipe!Dup2
<1>5. Leads(s[2], 2, 1 .. 8)
    BY <1>3 DEF Leads, Pipe!Close
<1>6. Leads(s[3], 3, 1 .. 8)
    BY <1>3 DEF Leads, Pipe!Close
<1>7. Leads(s[4], 4, 1 .. 8)
    BY <1>3 DEF Leads, Pipe!Dup2
<1>8. Leads(s[5], 5, 1 .. 8)
    BY <1>3 DEF Leads, Pipe!Close
<1>9. Leads(s[6], 6, 1 .. 8)
    BY <1>3 DEF Leads, Pipe!Close
<1>10. Leads(s[7], 7, 1 .. 8)
    BY <1>3, FunctionsAre DEF Leads, Functions, Pipe!Exec
<1>11. Leads(s[8], 8, 1 .. 8)
    BY <1>3 DEF Leads, Pipe!Oops
<1>12. \A k \in 1 .. 8 : Leads(s[k], k, 1 .. 8)
    BY <1>4, <1>5, <1>6, <1>7, <1>8, <1>9, <1>10, <1>11
<1> QED BY <1>1, <1>2, <1>12 DEF Closed

LEMMA DcIsClosed == Closed("dc")
<1> DEFINE s == Pipe!Dc
<1>1. Pipe!Code["dc"] = s
    BY DEF Pipe!Code
<1>2. DOMAIN s = 1 .. 5
    BY DEF Pipe!Dc
<1>3. /\ s[1] = Pipe!Fgets("in", 2, 5)
      /\ s[2] = Pipe!Answer("out", 3)
      /\ s[3] = Pipe!Wrap(1, 4)
      /\ s[4] = Pipe!Answer("out", 1)
      /\ s[5] = Pipe!Exit
    BY DEF Pipe!Dc
<1> HIDE DEF s
<1>4. Leads(s[1], 1, 1 .. 5)
    BY <1>3 DEF Leads, Pipe!Fgets
<1>5. Leads(s[2], 2, 1 .. 5)
    BY <1>3 DEF Leads, Pipe!Answer
<1>6. Leads(s[3], 3, 1 .. 5)
    BY <1>3 DEF Leads, Pipe!Wrap
<1>7. Leads(s[4], 4, 1 .. 5)
    BY <1>3 DEF Leads, Pipe!Answer
<1>8. Leads(s[5], 5, 1 .. 5)
    BY <1>3 DEF Leads, Pipe!Exit
<1>9. \A k \in 1 .. 5 : Leads(s[k], k, 1 .. 5)
    BY <1>4, <1>5, <1>6, <1>7, <1>8
<1> QED BY <1>1, <1>2, <1>9 DEF Closed

LEMMA Demo1IsClosed == Closed("demo1")
<1> DEFINE s == Pipe!Demo1Main
<1>1. Pipe!Code["demo1"] = s
    BY DEF Pipe!Code
<1>2. DOMAIN s = 1 .. 5
    BY DEF Pipe!Demo1Main
<1>3. /\ s[1] = Pipe!MakePipes({0})
      /\ s[2] = Pipe!Typed(3, 3, 5)
      /\ s[3] = Pipe!Write("w0", 4)
      /\ s[4] = Pipe!Read("r0", 2, 5)
      /\ s[5] = Pipe!Exit
    BY DEF Pipe!Demo1Main
<1> HIDE DEF s
<1>4. Leads(s[1], 1, 1 .. 5)
    BY <1>3 DEF Leads, Pipe!MakePipes
<1>5. Leads(s[2], 2, 1 .. 5)
    BY <1>3 DEF Leads, Pipe!Typed
<1>6. Leads(s[3], 3, 1 .. 5)
    BY <1>3 DEF Leads, Pipe!Write
<1>7. Leads(s[4], 4, 1 .. 5)
    BY <1>3 DEF Leads, Pipe!Read
<1>8. Leads(s[5], 5, 1 .. 5)
    BY <1>3 DEF Leads, Pipe!Exit
<1>9. \A k \in 1 .. 5 : Leads(s[k], k, 1 .. 5)
    BY <1>4, <1>5, <1>6, <1>7, <1>8
<1> QED BY <1>1, <1>2, <1>9 DEF Closed

LEMMA Demo2IsClosed == Closed("demo2")
<1> DEFINE s == Pipe!Demo2Main
<1>1. Pipe!Code["demo2"] = s
    BY DEF Pipe!Code
<1>2. DOMAIN s = 1 .. 5
    BY DEF Pipe!Demo2Main
<1>3. /\ s[1] = Pipe!MakePipes({0})
      /\ s[2] = Pipe!Fork("demo2_child")
      /\ s[3] = Pipe!Write("w0", 4)
      /\ s[4] = Pipe!Read("r0", 5, 5)
      /\ s[5] = Pipe!Exit
    BY DEF Pipe!Demo2Main
<1> HIDE DEF s
<1>4. Leads(s[1], 1, 1 .. 5)
    BY <1>3 DEF Leads, Pipe!MakePipes
<1>5. Leads(s[2], 2, 1 .. 5)
    BY <1>3, FunctionsAre DEF Leads, Functions, Pipe!Fork
<1>6. Leads(s[3], 3, 1 .. 5)
    BY <1>3 DEF Leads, Pipe!Write
<1>7. Leads(s[4], 4, 1 .. 5)
    BY <1>3 DEF Leads, Pipe!Read
<1>8. Leads(s[5], 5, 1 .. 5)
    BY <1>3 DEF Leads, Pipe!Exit
<1>9. \A k \in 1 .. 5 : Leads(s[k], k, 1 .. 5)
    BY <1>4, <1>5, <1>6, <1>7, <1>8
<1> QED BY <1>1, <1>2, <1>9 DEF Closed

LEMMA Demo2ChildIsClosed == Closed("demo2_child")
<1> DEFINE s == Pipe!Demo2Child
<1>1. Pipe!Code["demo2_child"] = s
    BY DEF Pipe!Code
<1>2. DOMAIN s = 1 .. 1
    BY DEF Pipe!Demo2Child
<1>3. /\ s[1] = Pipe!Write("w0", 1)
    BY DEF Pipe!Demo2Child
<1> HIDE DEF s
<1>4. Leads(s[1], 1, 1 .. 1)
    BY <1>3 DEF Leads, Pipe!Write
<1>5. \A k \in 1 .. 1 : Leads(s[k], k, 1 .. 1)
    BY <1>4
<1> QED BY <1>1, <1>2, <1>5 DEF Closed

LEMMA Demo3IsClosed == Closed("demo3")
<1> DEFINE s == Pipe!Demo3Main
<1>1. Pipe!Code["demo3"] = s
    BY DEF Pipe!Code
<1>2. DOMAIN s = 1 .. 7
    BY DEF Pipe!Demo3Main
<1>3. /\ s[1] = Pipe!MakePipes({0})
      /\ s[2] = Pipe!Fork("demo3_child")
      /\ s[3] = Pipe!Close("r0")
      /\ s[4] = Pipe!Write("w0", 5)
      /\ s[5] = Pipe!Close("w0")
      /\ s[6] = Pipe!Wait
      /\ s[7] = Pipe!Exit
    BY DEF Pipe!Demo3Main
<1> HIDE DEF s
<1>4. Leads(s[1], 1, 1 .. 7)
    BY <1>3 DEF Leads, Pipe!MakePipes
<1>5. Leads(s[2], 2, 1 .. 7)
    BY <1>3, FunctionsAre DEF Leads, Functions, Pipe!Fork
<1>6. Leads(s[3], 3, 1 .. 7)
    BY <1>3 DEF Leads, Pipe!Close
<1>7. Leads(s[4], 4, 1 .. 7)
    BY <1>3 DEF Leads, Pipe!Write
<1>8. Leads(s[5], 5, 1 .. 7)
    BY <1>3 DEF Leads, Pipe!Close
<1>9. Leads(s[6], 6, 1 .. 7)
    BY <1>3 DEF Leads, Pipe!Wait
<1>10. Leads(s[7], 7, 1 .. 7)
    BY <1>3 DEF Leads, Pipe!Exit
<1>11. \A k \in 1 .. 7 : Leads(s[k], k, 1 .. 7)
    BY <1>4, <1>5, <1>6, <1>7, <1>8, <1>9, <1>10
<1> QED BY <1>1, <1>2, <1>11 DEF Closed

LEMMA Demo3ChildIsClosed == Closed("demo3_child")
<1> DEFINE s == Pipe!Demo3Child
<1>1. Pipe!Code["demo3_child"] = s
    BY DEF Pipe!Code
<1>2. DOMAIN s = 1 .. 4
    BY DEF Pipe!Demo3Child
<1>3. /\ s[1] = Pipe!Close("w0")
      /\ s[2] = Pipe!Read("r0", 3, 3)
      /\ s[3] = Pipe!Close("r0")
      /\ s[4] = Pipe!Exit
    BY DEF Pipe!Demo3Child
<1> HIDE DEF s
<1>4. Leads(s[1], 1, 1 .. 4)
    BY <1>3 DEF Leads, Pipe!Close
<1>5. Leads(s[2], 2, 1 .. 4)
    BY <1>3 DEF Leads, Pipe!Read
<1>6. Leads(s[3], 3, 1 .. 4)
    BY <1>3 DEF Leads, Pipe!Close
<1>7. Leads(s[4], 4, 1 .. 4)
    BY <1>3 DEF Leads, Pipe!Exit
<1>8. \A k \in 1 .. 4 : Leads(s[k], k, 1 .. 4)
    BY <1>4, <1>5, <1>6, <1>7
<1> QED BY <1>1, <1>2, <1>8 DEF Closed

LEMMA Demo4IsClosed == Closed("demo4")
<1> DEFINE s == Pipe!Demo4Main
<1>1. Pipe!Code["demo4"] = s
    BY DEF Pipe!Code
<1>2. DOMAIN s = 1 .. 7
    BY DEF Pipe!Demo4Main
<1>3. /\ s[1] = Pipe!MakePipes({0})
      /\ s[2] = Pipe!Fork("demo4_child")
      /\ s[3] = Pipe!Close("w0")
      /\ s[4] = Pipe!Dup2("r0", "in")
      /\ s[5] = Pipe!Close("r0")
      /\ s[6] = Pipe!Exec("reader")
      /\ s[7] = Pipe!Oops
    BY DEF Pipe!Demo4Main
<1> HIDE DEF s
<1>4. Leads(s[1], 1, 1 .. 7)
    BY <1>3 DEF Leads, Pipe!MakePipes
<1>5. Leads(s[2], 2, 1 .. 7)
    BY <1>3, FunctionsAre DEF Leads, Functions, Pipe!Fork
<1>6. Leads(s[3], 3, 1 .. 7)
    BY <1>3 DEF Leads, Pipe!Close
<1>7. Leads(s[4], 4, 1 .. 7)
    BY <1>3 DEF Leads, Pipe!Dup2
<1>8. Leads(s[5], 5, 1 .. 7)
    BY <1>3 DEF Leads, Pipe!Close
<1>9. Leads(s[6], 6, 1 .. 7)
    BY <1>3, FunctionsAre DEF Leads, Functions, Pipe!Exec
<1>10. Leads(s[7], 7, 1 .. 7)
    BY <1>3 DEF Leads, Pipe!Oops
<1>11. \A k \in 1 .. 7 : Leads(s[k], k, 1 .. 7)
    BY <1>4, <1>5, <1>6, <1>7, <1>8, <1>9, <1>10
<1> QED BY <1>1, <1>2, <1>11 DEF Closed

LEMMA Demo4ChildIsClosed == Closed("demo4_child")
<1> DEFINE s == Pipe!Demo4Child
<1>1. Pipe!Code["demo4_child"] = s
    BY DEF Pipe!Code
<1>2. DOMAIN s = 1 .. 5
    BY DEF Pipe!Demo4Child
<1>3. /\ s[1] = Pipe!Close("r0")
      /\ s[2] = Pipe!Dup2("w0", "out")
      /\ s[3] = Pipe!Close("w0")
      /\ s[4] = Pipe!Exec("writer")
      /\ s[5] = Pipe!Oops
    BY DEF Pipe!Demo4Child
<1> HIDE DEF s
<1>4. Leads(s[1], 1, 1 .. 5)
    BY <1>3 DEF Leads, Pipe!Close
<1>5. Leads(s[2], 2, 1 .. 5)
    BY <1>3 DEF Leads, Pipe!Dup2
<1>6. Leads(s[3], 3, 1 .. 5)
    BY <1>3 DEF Leads, Pipe!Close
<1>7. Leads(s[4], 4, 1 .. 5)
    BY <1>3, FunctionsAre DEF Leads, Functions, Pipe!Exec
<1>8. Leads(s[5], 5, 1 .. 5)
    BY <1>3 DEF Leads, Pipe!Oops
<1>9. \A k \in 1 .. 5 : Leads(s[k], k, 1 .. 5)
    BY <1>4, <1>5, <1>6, <1>7, <1>8
<1> QED BY <1>1, <1>2, <1>9 DEF Closed

LEMMA PopenIsClosed == Closed("popen")
<1> DEFINE s == Pipe!PopenMain
<1>1. Pipe!Code["popen"] = s
    BY DEF Pipe!Code
<1>2. DOMAIN s = 1 .. 7
    BY DEF Pipe!PopenMain
<1>3. /\ s[1] = Pipe!MakePipes({0})
      /\ s[2] = Pipe!Fork("demo4_child")
      /\ s[3] = Pipe!Close("w0")
      /\ s[4] = Pipe!Fgets("r0", 4, 5)
      /\ s[5] = Pipe!Close("r0")
      /\ s[6] = Pipe!Wait
      /\ s[7] = Pipe!Exit
    BY DEF Pipe!PopenMain
<1> HIDE DEF s
<1>4. Leads(s[1], 1, 1 .. 7)
    BY <1>3 DEF Leads, Pipe!MakePipes
<1>5. Leads(s[2], 2, 1 .. 7)
    BY <1>3, FunctionsAre DEF Leads, Functions, Pipe!Fork
<1>6. Leads(s[3], 3, 1 .. 7)
    BY <1>3 DEF Leads, Pipe!Close
<1>7. Leads(s[4], 4, 1 .. 7)
    BY <1>3 DEF Leads, Pipe!Fgets
<1>8. Leads(s[5], 5, 1 .. 7)
    BY <1>3 DEF Leads, Pipe!Close
<1>9. Leads(s[6], 6, 1 .. 7)
    BY <1>3 DEF Leads, Pipe!Wait
<1>10. Leads(s[7], 7, 1 .. 7)
    BY <1>3 DEF Leads, Pipe!Exit
<1>11. \A k \in 1 .. 7 : Leads(s[k], k, 1 .. 7)
    BY <1>4, <1>5, <1>6, <1>7, <1>8, <1>9, <1>10
<1> QED BY <1>1, <1>2, <1>11 DEF Closed

LEMMA ReaderIsClosed == Closed("reader")
<1> DEFINE s == Pipe!Reader
<1>1. Pipe!Code["reader"] = s
    BY DEF Pipe!Code
<1>2. DOMAIN s = 1 .. 2
    BY DEF Pipe!Reader
<1>3. /\ s[1] = Pipe!Fgets("in", 1, 2)
      /\ s[2] = Pipe!Exit
    BY DEF Pipe!Reader
<1> HIDE DEF s
<1>4. Leads(s[1], 1, 1 .. 2)
    BY <1>3 DEF Leads, Pipe!Fgets
<1>5. Leads(s[2], 2, 1 .. 2)
    BY <1>3 DEF Leads, Pipe!Exit
<1>6. \A k \in 1 .. 2 : Leads(s[k], k, 1 .. 2)
    BY <1>4, <1>5
<1> QED BY <1>1, <1>2, <1>6 DEF Closed

LEMMA WriterIsClosed == Closed("writer")
<1> DEFINE s == Pipe!Writer
           n == MaxLines + 1
<1>1. Pipe!Code["writer"] = s
    BY DEF Pipe!Code
<1>2. /\ DOMAIN s = 1 .. n /\ MaxLines \in Nat \ {0}
      /\ \A k \in 1 .. n : s[k] = IF k <= MaxLines THEN Pipe!Write("out", k + 1) ELSE Pipe!Exit
    BY DemosAssumption DEF Pipe!Writer
<1> HIDE DEF s
<1>3. ASSUME NEW k \in 1 .. n PROVE Leads(s[k], k, 1 .. n)
    <2>1. CASE k <= MaxLines
        <3>1. k + 1 \in 1 .. n
            BY <1>2, <2>1
        <3>2. s[k] = Pipe!Write("out", k + 1)
            BY <1>2, <2>1
        <3> HIDE DEF n
        <3> QED BY <3>1, <3>2 DEF Leads, Pipe!Write
    <2>2. CASE ~ (k <= MaxLines)
        <3>1. s[k] = Pipe!Exit
            BY <1>2, <2>2
        <3> HIDE DEF n
        <3> QED BY <3>1 DEF Leads, Pipe!Exit
    <2> QED BY <2>1, <2>2
<1>4. 1 .. n \in SUBSET Nat /\ 1 \in 1 .. n
    BY <1>2
<1> HIDE DEF n
<1> QED BY <1>1, <1>2, <1>3, <1>4 DEF Closed

\* No function of the pipe programs leads beyond its end.
LEMMA CodeIsClosed == \A fn \in Functions : Closed(fn)
BY BcIsClosed, BcMainWaitIsClosed, BeBcIsClosed, BeDcIsClosed, DcIsClosed,
   Demo1IsClosed, Demo2IsClosed, Demo2ChildIsClosed, Demo3IsClosed,
   Demo3ChildIsClosed, Demo4IsClosed, Demo4ChildIsClosed, PopenIsClosed,
   WriterIsClosed, ReaderIsClosed
DEF Functions

\* Where a process of the pipe programs is.
Place(p) ==
    \/ pipe_at[p].fn \in Functions /\ pipe_at[p].ln \in DOMAIN Pipe!Code[pipe_at[p].fn]
    \/ pipe_at[p].fn \in {"unborn", "done", "dead"} /\ pipe_at[p].ln = 0

PipePlaces == \A p \in Pipe!Process : Place(p)

LEMMA PipePlacesStart == Pipe!Start => PipePlaces
<1> SUFFICES ASSUME Pipe!Start, NEW p \in Pipe!Process PROVE Place(p)
    BY DEF PipePlaces
<1>1. pipe_at[p] = IF p = Parent /\ program \in Pipe!Program
                  THEN [fn |-> program, ln |-> 1] ELSE [fn |-> "unborn", ln |-> 0]
    BY PipeConstants DEF Pipe!Start, Parent
<1>2. CASE p = Parent /\ program \in Pipe!Program
    <2>1. pipe_at[p].fn = program /\ pipe_at[p].ln = 1
        BY <1>1, <1>2
    <2>2. program \in Functions
        BY <1>2 DEF Pipe!Program, Functions
    <2> QED BY <2>1, <2>2, CodeIsClosed DEF Place, Closed
<1>3. CASE ~ (p = Parent /\ program \in Pipe!Program)
    BY <1>1, <1>3 DEF Place
<1> QED BY <1>2, <1>3

\* A step of p leads to a step, or to the start of a function.
LEMMA StepsTo ==
    ASSUME PipeTypes, PipePlaces, NEW p \in Pipe!Process, NEW k,
           Pipe!Goto(p, k), k \in DOMAIN Pipe!Code[pipe_at[p].fn], Pipe!Alive(p)
    PROVE  PipePlaces'
<1>1. pipe_at' = [pipe_at EXCEPT ![p].ln = k]
    BY DEF Pipe!Goto
<1>2. pipe_at \in [Pipe!Process -> [fn : Names, ln : Nat]]
    BY DEF PipeTypes
<1>3. pipe_at'[p].fn = pipe_at[p].fn /\ pipe_at'[p].ln = k
    BY <1>1, <1>2
<1>4. \A q \in Pipe!Process \ {p} : pipe_at'[q] = pipe_at[q]
    BY <1>1, <1>2
<1>5. pipe_at[p].fn \in Functions
    BY DEF PipePlaces, Place, Pipe!Alive
<1>6. Place(p)'
    BY <1>3, <1>5 DEF Place
<1>7. ASSUME NEW q \in Pipe!Process \ {p} PROVE Place(q)'
    BY <1>4, <1>7 DEF PipePlaces, Place
<1> QED BY <1>6, <1>7 DEF PipePlaces

\* Another function, the end, and a fork.
LEMMA EntersAt ==
    ASSUME PipeTypes, PipePlaces, NEW p \in Pipe!Process, NEW fn \in Functions, Pipe!Enter(p, fn)
    PROVE  PipePlaces'
<1>1. pipe_at' = [pipe_at EXCEPT ![p] = [fn |-> fn, ln |-> 1]]
    BY DEF Pipe!Enter
<1>2. pipe_at \in [Pipe!Process -> [fn : Names, ln : Nat]]
    BY DEF PipeTypes
<1>3. pipe_at'[p].fn = fn /\ pipe_at'[p].ln = 1
    BY <1>1, <1>2
<1>4. \A q \in Pipe!Process \ {p} : pipe_at'[q] = pipe_at[q]
    BY <1>1, <1>2
<1>5. Place(p)'
    BY <1>3, CodeIsClosed DEF Place, Closed
<1>6. ASSUME NEW q \in Pipe!Process \ {p} PROVE Place(q)'
    BY <1>4, <1>6 DEF PipePlaces, Place
<1> QED BY <1>5, <1>6 DEF PipePlaces

LEMMA EndsAll ==
    ASSUME PipeTypes, PipePlaces, NEW p \in Pipe!Process,
           NEW how \in {"done", "dead"}, Pipe!End(p, how)
    PROVE  PipePlaces'
<1>1. pipe_at' = [pipe_at EXCEPT ![p] = [fn |-> how, ln |-> 0]]
    BY DEF Pipe!End
<1>2. pipe_at \in [Pipe!Process -> [fn : Names, ln : Nat]]
    BY DEF PipeTypes
<1>3. pipe_at'[p].fn = how /\ pipe_at'[p].ln = 0
    BY <1>1, <1>2
<1>4. \A q \in Pipe!Process \ {p} : pipe_at'[q] = pipe_at[q]
    BY <1>1, <1>2
<1>5. Place(p)'
    BY <1>3 DEF Place
<1>6. ASSUME NEW q \in Pipe!Process \ {p} PROVE Place(q)'
    BY <1>4, <1>6 DEF PipePlaces, Place
<1> QED BY <1>5, <1>6 DEF PipePlaces

LEMMA ForksTo ==
    ASSUME PipeTypes, PipePlaces, NEW p \in Pipe!Process, NEW fn \in Functions, Pipe!Alive(p),
           pipe_at[p].ln + 1 \in DOMAIN Pipe!Code[pipe_at[p].fn],
           pipe_at' = [pipe_at EXCEPT ![p].ln = @ + 1, ![Child] = [fn |-> fn, ln |-> 1]]
    PROVE  PipePlaces'
<1>1. pipe_at \in [Pipe!Process -> [fn : Names, ln : Nat]] /\ Child \in Pipe!Process
    BY PipeConstants DEF PipeTypes
<1>2. pipe_at'[Child].fn = fn /\ pipe_at'[Child].ln = 1
    BY <1>1
<1>3. Place(Child)'
    BY <1>2, CodeIsClosed DEF Place, Closed
<1>4. pipe_at[p].fn \in Functions
    BY DEF PipePlaces, Place, Pipe!Alive
<1>5. ASSUME p # Child PROVE Place(p)'
    <2>1. pipe_at'[p].fn = pipe_at[p].fn /\ pipe_at'[p].ln = pipe_at[p].ln + 1
        BY <1>1, <1>5
    <2> QED BY <1>4, <2>1 DEF Place
<1>6. ASSUME NEW q \in Pipe!Process \ {p, Child} PROVE Place(q)'
    <2>1. pipe_at'[q] = pipe_at[q]
        BY <1>1, <1>6
    <2> QED BY <2>1 DEF PipePlaces, Place
<1> QED BY <1>3, <1>5, <1>6 DEF PipePlaces

LEMMA PipePlacesKeep == PipeTypes /\ PipePlaces /\ Pipe!Next => PipePlaces'
<1> SUFFICES ASSUME PipeTypes, PipePlaces, NEW p \in Pipe!Process, PipeStep(p) PROVE PipePlaces'
    BY DEF Pipe!Next, PipeStep
<1>1. CASE Pipe!Dies(p)
    BY <1>1, EndsAll DEF Pipe!Dies
<1>2. CASE ~ Pipe!Dies(p)
    <2>1. Pipe!Alive(p) /\ pipe_at[p].fn \in Functions
        BY ActsAs DEF PipePlaces, Place, Pipe!Alive
    <2> DEFINE steps == DOMAIN Pipe!Code[pipe_at[p].fn]
               k == pipe_at[p].ln
    <2>2. Leads(Pipe!Calls(p), k, steps)
        <3>1. k \in steps
            BY <2>1 DEF PipePlaces, Place, Functions
        <3> QED BY <2>1, <3>1, CodeIsClosed DEF Closed, Pipe!Calls
    <2>3. ASSUME NEW m \in steps, Pipe!Goto(p, m) PROVE PipePlaces'
        BY <2>1, <2>3, StepsTo
    <2>4. ASSUME k + 1 \in steps, Pipe!NextStep(p) PROVE PipePlaces'
        BY <2>3, <2>4 DEF Pipe!NextStep
    <2>5. ASSUME NEW fn \in Functions, Pipe!Enter(p, fn) PROVE PipePlaces'
        BY <2>5, EntersAt
    <2>6. ASSUME NEW how \in {"done", "dead"}, Pipe!End(p, how) PROVE PipePlaces'
        BY <2>6, EndsAll
    <2> HIDE DEF steps
    <2> DEFINE c == Pipe!Calls(p)
    <2> HIDE DEF c
    <2>7. Leads(c, k, steps)
        BY <2>2 DEF c
    <2>10. CASE Pipe!Calls(p).call = "pipe" /\ Pipe!DoPipe(p)
        BY <2>2, <2>4, <2>6, <2>10 DEF Leads, Pipe!DoPipe
    <2>11. CASE Pipe!Calls(p).call = "fork" /\ Pipe!DoFork(p)
        <3>1. k + 1 \in steps /\ Pipe!Calls(p).fn \in Functions
            BY <2>2, <2>11, FunctionsAre DEF Leads
        <3>2. CASE pipe_at' = [pipe_at EXCEPT ![p].ln = @ + 1,
                                   ![Child] = [fn |-> Pipe!Calls(p).fn, ln |-> 1]]
            BY <2>1, <3>1, <3>2, ForksTo DEF steps
        <3> QED BY <2>6, <2>11, <3>2 DEF Pipe!DoFork, Child
    <2>12. CASE Pipe!Calls(p).call = "exec" /\ Pipe!DoExec(p)
        BY <2>2, <2>4, <2>5, <2>12, FunctionsAre DEF Leads, Pipe!DoExec
    <2>13. CASE Pipe!Calls(p).call = "call" /\ Pipe!DoCall(p)
        BY <2>2, <2>5, <2>13, FunctionsAre DEF Leads, Pipe!DoCall
    <2>14. CASE Pipe!Calls(p).call = "close" /\ Pipe!DoClose(p)
        BY <2>2, <2>4, <2>14 DEF Leads, Pipe!DoClose
    <2>15. CASE Pipe!Calls(p).call = "dup2" /\ Pipe!DoDup2(p)
        BY <2>2, <2>4, <2>6, <2>15 DEF Leads, Pipe!DoDup2
    <2>16. CASE Pipe!Calls(p).call = "fdopen" /\ Pipe!DoFdopen(p)
        BY <2>2, <2>4, <2>6, <2>16 DEF Leads, Pipe!DoFdopen
    <2>17. CASE Pipe!Calls(p).call = "typed" /\ Pipe!DoTyped(p)
        BY <2>2, <2>3, <2>17 DEF Leads, Pipe!DoTyped
    <2>18. CASE Pipe!Calls(p).call = "fprintf" /\ Pipe!DoFprintf(p)
        BY <2>2, <2>4, <2>18 DEF Leads, Pipe!DoFprintf
    <2>19. CASE Pipe!Calls(p).call = "fflush" /\ Pipe!DoFflush(p)
        BY <2>2, <2>4, <2>6, <2>19 DEF Leads, Pipe!DoFflush
    <2>20. CASE Pipe!Calls(p).call = "write" /\ Pipe!DoWrite(p)
        BY <2>2, <2>3, <2>6, <2>20 DEF Leads, Pipe!DoWrite
    <2>21. CASE Pipe!Calls(p).call = "read" /\ Pipe!DoRead(p)
        BY <2>2, <2>3, <2>21 DEF Leads, Pipe!DoRead
    <2>22. CASE Pipe!Calls(p).call = "wrap" /\ Pipe!DoWrap(p)
        BY <2>2, <2>3, <2>22 DEF Leads, Pipe!DoWrap
    <2>23. CASE Pipe!Calls(p).call = "wait" /\ Pipe!DoWait(p)
        BY <2>2, <2>4, <2>23 DEF Leads, Pipe!DoWait
    <2>24. CASE Pipe!DoExit(p)
        BY <2>6, <2>24 DEF Pipe!DoExit
    <2> QED BY <1>2, <2>10, <2>11, <2>12, <2>13, <2>14, <2>15, <2>16, <2>17, <2>18, <2>19,
               <2>20, <2>21, <2>22, <2>23, <2>24, ActsAs
<1> QED BY <1>1, <1>2

LEMMA PipePlacesStay == PipePlaces /\ UNCHANGED pipeVars => PipePlaces'
<1> SUFFICES ASSUME PipePlaces, pipe_at' = pipe_at PROVE PipePlaces'
    BY DEF pipeVars
<1> QED BY DEF PipePlaces, Place

LEMMA PipeTypesHold == PipeTypes /\ PipePlaces => Pipe!TypeOK
<1> SUFFICES ASSUME PipeTypes, PipePlaces PROVE Pipe!TypeOK
    OBVIOUS
<1>1. \A p \in Pipe!Process :
          \/ pipe_at[p].fn \in DOMAIN Pipe!Code /\ pipe_at[p].ln \in DOMAIN Pipe!Code[pipe_at[p].fn]
          \/ pipe_at[p].fn \in {"unborn", "done", "dead"} /\ pipe_at[p].ln = 0
    BY FunctionsAre DEF PipePlaces, Place
<1>2. \A j \in Pipe!Pipe : pipe[j] \in Seq(Pipe!Message) /\ Len(pipe[j]) <= PipeSize
    BY DEF PipeTypes
<1>3. \A p \in Pipe!Process : sent[p] \in Seq(Pipe!Message) /\ got[p] \in Seq(Pipe!Message)
    BY DEF PipeTypes
<1>4. fds \in [Pipe!Process -> [Pipe!Fd -> Pipe!Open]] /\ buf \in Seq(Pipe!Message)
      /\ typed \in 0 .. MaxLines
    BY DEF PipeTypes
<1> QED BY <1>1, <1>2, <1>3, <1>4 DEF Pipe!TypeOK

----------------------------------------------------------------------------
(* ProcessTrees: the counters of the loops that fork, what is in the stdio  *)
(* buffers, and that nobody writes more than two dashes when it ends.       *)

\* The processes that fork: their counters, what their buffers hold, and what
\* those that have ended have written.
Most == Trees!Max({2, MAX_CHILD_NUMBER, INT_PTX})
EndedOnes == {p \in Process : tree_at[p] = "over"}

TreeValues ==
    /\ tree_at \in [Process -> {"unborn", "fork", "print", "wait", "type", "loop",
                                "poll", "exit", "over"}]
    /\ parent \in [Process -> Process \cup {Trees!Nobody}]
    /\ reaped \subseteq Process
    /\ i \in [Process -> 0 .. Most] /\ stdout \in [Process -> 0 .. 2]
    /\ failed \in BOOLEAN
    /\ pid \in [Trees!Digit -> Process \cup {-1}]

TreePlace(q) ==
    /\ tree_at[q] = "fork" => program \in Trees!Program /\ i[q] < Trees!Limit
    /\ tree_at[q] = "print" => program = "face" /\ i[q] \in 0 .. 1
    /\ tree_at[q] = "wait" => program = "face" /\ i[q] \in 1 .. 2
    /\ program = "face" /\ tree_at[q] \in {"fork", "print"} => stdout[q] = i[q]
    /\ program # "face" => stdout[q] = 0

TreeOutput ==
    /\ printed \in Nat
    /\ program = "face" => printed <= 2 * Cardinality(EndedOnes)
    /\ program # "face" => printed = 0

TreeTypes == TreeValues /\ (\A q \in Process : TreePlace(q)) /\ TreeOutput

\* The loops' limits are among those the counters are declared with.
LEMMA MostIs ==
    Most \in Nat /\ Most >= 2 /\ Most >= MAX_CHILD_NUMBER /\ Most >= INT_PTX
<1> DEFINE S == {2, MAX_CHILD_NUMBER, INT_PTX}
<1>1. S \subseteq Nat
    BY DemosAssumption
<1>2. \E m \in S : \A k \in S : m >= k
    BY <1>1
<1>3. Trees!Max(S) \in S /\ \A k \in S : Trees!Max(S) >= k
    BY <1>2 DEF Trees!Max
<1> QED BY <1>1, <1>3 DEF Most

LEMMA LimitIs ==
    program \in Trees!Program => Trees!Limit \in Nat /\ Trees!Limit <= Most
<1>1. MAX_CHILD_NUMBER \in Nat /\ INT_PTX \in Nat
    BY DemosAssumption
<1>2. program = "face" => Trees!Limit = 2
    BY DEF Trees!Limit
<1>3. program = "child" => Trees!Limit = 1
    BY DEF Trees!Limit
<1>4. program = "create" => Trees!Limit = MAX_CHILD_NUMBER
    BY DEF Trees!Limit
<1>5. program = "mul" => Trees!Limit = INT_PTX
    BY DEF Trees!Limit
<1> QED BY <1>1, <1>2, <1>3, <1>4, <1>5, MostIs DEF Trees!Program

LEMMA OverFinite ==
    /\ IsFiniteSet(EndedOnes) /\ Cardinality(EndedOnes) \in Nat
    /\ Cardinality(EndedOnes) <= Cardinality(Process) /\ Cardinality(Process) \in Nat
<1>1. IsFiniteSet(Process) /\ EndedOnes \in SUBSET Process
    BY ProcessFacts DEF EndedOnes
<1> QED BY <1>1, FS_Subset, FS_CardinalityType

LEMMA TreeTypesStart == Trees!Start => TreeTypes
<1> SUFFICES ASSUME Trees!Start PROVE TreeTypes
    OBVIOUS
<1>1. /\ tree_at = [p \in Process |->
                     IF p = 0 /\ program \in Trees!Program THEN "fork" ELSE "unborn"]
      /\ parent = [p \in Process |-> Trees!Nobody]
      /\ reaped = {} /\ i = [p \in Process |-> 0] /\ stdout = [p \in Process |-> 0]
      /\ printed = 0 /\ failed = FALSE /\ pid = [d \in Trees!Digit |-> 0]
    BY DEF Trees!Start, Process
<1>2. TreeValues
    <2>1. 0 \in Process /\ 0 \in 0 .. Most
        BY ProcessFacts, MostIs
    <2>2. tree_at \in [Process -> {"unborn", "fork", "print", "wait", "type", "loop",
                                  "poll", "exit", "over"}]
        BY <1>1
    <2>3. /\ parent \in [Process -> Process \cup {Trees!Nobody}]
          /\ reaped \subseteq Process /\ failed \in BOOLEAN
        BY <1>1
    <2>4. i \in [Process -> 0 .. Most]
        BY <1>1, <2>1
    <2>5. stdout \in [Process -> 0 .. 2]
        BY <1>1
    <2>6. pid \in [Trees!Digit -> Process \cup {-1}]
        BY <1>1, <2>1
    <2> QED BY <2>2, <2>3, <2>4, <2>5, <2>6 DEF TreeValues
<1>3. ASSUME NEW q \in Process PROVE TreePlace(q)
    <2>1. i[q] = 0 /\ stdout[q] = 0 /\ tree_at[q] \in {"fork", "unborn"}
          /\ (tree_at[q] = "fork" => program \in Trees!Program)
        BY <1>1
    <2>2. program \in Trees!Program => 0 < Trees!Limit
        <3>1. MAX_CHILD_NUMBER > 0 /\ INT_PTX > 0
            BY DemosAssumption
        <3>2. program = "face" => Trees!Limit = 2
            BY DEF Trees!Limit
        <3>3. program = "child" => Trees!Limit = 1
            BY DEF Trees!Limit
        <3>4. program = "create" => Trees!Limit = MAX_CHILD_NUMBER
            BY DEF Trees!Limit
        <3>5. program = "mul" => Trees!Limit = INT_PTX
            BY DEF Trees!Limit
        <3> QED BY <3>1, <3>2, <3>3, <3>4, <3>5 DEF Trees!Program
    <2> QED BY <2>1, <2>2 DEF TreePlace
<1>4. TreeOutput
    <2>1. 0 <= 2 * Cardinality(EndedOnes)
        BY OverFinite
    <2> QED BY <1>1, <2>1 DEF TreeOutput
<1> QED BY <1>2, <1>3, <1>4 DEF TreeTypes

\* There is a process left for every fork.
LEMMA ForkFindsOne ==
    ASSUME TreesInv, NEW p \in Process, tree_at[p] = "fork", program \in {"face", "create"}
    PROVE  \E q \in Process : ~ Born(q)
<1>1. Family /\ (program = "face" => FaceInv) /\ (program = "create" => CreateInv)
    BY DEF TreesInv
<1>2. CASE program = "face"
    <2>1. i[p] \in 0 .. 1
        BY <1>1, <1>2 DEF FaceInv, FaceLoop
    <2>2. Pending(p) > 0
        BY <2>1 DEF Pending
    <2>3. p \in 0 .. 1
        BY <1>1, <1>2, <2>2 DEF FaceInv, FaceForks
    <2>4. PICK last \in 0 .. 3 :
             /\ \A q \in Process : Born(q) <=> q <= last
             /\ last + Pending(0) + Pending(1) <= 3
        BY <1>1, <1>2 DEF FaceInv, FaceForks
    <2>5. Pending(0) \in Nat /\ Pending(1) \in Nat
        BY DEF Pending
    <2>6. last <= 2
        BY <2>2, <2>3, <2>4, <2>5
    <2>7. last + 1 \in 0 .. 3 /\ ~ (last + 1 <= last)
        BY <2>6
    <2> QED BY <2>4, <2>7, ProcessFacts
<1>3. CASE program = "create"
    <2>1. p = 0
        BY <1>1, <1>3 DEF CreateInv
    <2>2. i[0] < MAX_CHILD_NUMBER /\ \A q \in Process : q > i[0] => ~ Born(q)
        BY <1>1, <1>3, <2>1 DEF CreateInv, OneParent
    <2>3. i[0] \in Nat
        BY <1>1, ProcessFacts DEF Family
    <2>4. MAX_CHILD_NUMBER \in Process /\ MAX_CHILD_NUMBER \in Nat
        BY ProcessFacts
    <2>5. MAX_CHILD_NUMBER > i[0]
        BY <2>2, <2>3, <2>4
    <2> QED BY <2>2, <2>4, <2>5
<1> QED BY <1>2, <1>3

\* A fork.
LEMMA TreeForkKeeps ==
    ASSUME TreesInv, TreeTypes, NEW p \in Process, Trees!Fork(p) PROVE TreeTypes'
<1>0. PICK c : c = Trees!Min({q \in Process : tree_at[q] = "unborn"})
    OBVIOUS
<1>1. PICK n : n = IF program = "face" THEN i[p] ELSE i[p] + 1
    OBVIOUS
<1>2. PICK pp : pp = Trees!ParentGoesTo(n)
    OBVIOUS
<1>3. PICK cc : cc = Trees!ChildGoesTo
    OBVIOUS
<1>4. /\ tree_at[p] = "fork" /\ tree_at' = [tree_at EXCEPT ![p] = pp, ![c] = cc]
      /\ parent' = [parent EXCEPT ![c] = p]
      /\ i' = [i EXCEPT ![p] = n, ![c] = i[p]]
      /\ stdout' = [stdout EXCEPT ![c] = stdout[p]]
      /\ pid' = IF program = "create" THEN [pid EXCEPT ![i[p]] = c] ELSE pid
      /\ program' = program /\ reaped' = reaped /\ printed' = printed /\ failed' = failed
    BY <1>0, <1>1, <1>2, <1>3 DEF Trees!Fork, Process
<1>5. /\ tree_at \in [Process -> {"unborn", "fork", "print", "wait", "type", "loop",
                                  "poll", "exit", "over"}]
      /\ parent \in [Process -> Process \cup {Trees!Nobody}]
      /\ reaped \subseteq Process /\ failed \in BOOLEAN
      /\ i \in [Process -> 0 .. Most] /\ stdout \in [Process -> 0 .. 2]
      /\ pid \in [Trees!Digit -> Process \cup {-1}]
    BY DEF TreeTypes, TreeValues
<1>6. /\ program \in Trees!Program /\ i[p] < Trees!Limit
      /\ Trees!Limit \in Nat /\ Trees!Limit <= Most /\ i[p] \in Nat /\ Most \in Nat
    BY <1>4, <1>5, LimitIs, MostIs DEF TreeTypes, TreePlace
<1>7. program \in {"face", "create"} => c \in Process /\ ~ Born(c)
    BY <1>0, <1>4, ForkFindsOne, FirstFree
<1>8. n \in 0 .. Most /\ i[p] \in 0 .. Most
    <2>1. CASE program = "face"
        BY <1>1, <1>5, <2>1
    <2>2. CASE program # "face"
        <3>1. n = i[p] + 1
            BY <1>1, <2>2
        <3> QED BY <1>5, <1>6, <3>1
    <2> QED BY <2>1, <2>2
<1>9. /\ pp \in {"fork", "print", "exit", "type", "poll"}
      /\ pp = "fork" => program # "face" /\ n < Trees!Limit
      /\ pp = "print" => program = "face"
    <2>1. CASE program = "face"
        BY <1>2, <2>1 DEF Trees!ParentGoesTo
    <2>2. CASE program # "face"
        <3>1. Trees!After \in {"exit", "type", "poll"}
            BY <1>6, <2>2 DEF Trees!After, Trees!Program
        <3>2. pp = IF n < Trees!Limit THEN "fork" ELSE Trees!After
            BY <1>2, <2>2 DEF Trees!ParentGoesTo
        <3>3. pp = "fork" => n < Trees!Limit
            BY <3>1, <3>2
        <3> QED BY <2>2, <3>1, <3>2, <3>3
    <2> QED BY <2>1, <2>2
<1>10. cc \in {"print", "loop", "exit"} /\ (cc = "print" => program = "face")
    BY <1>3 DEF Trees!ChildGoesTo
<1>11. /\ \A q \in Process : tree_at'[q] = IF q = c THEN cc ELSE IF q = p THEN pp ELSE tree_at[q]
       /\ \A q \in Process : i'[q] = IF q = c THEN i[p] ELSE IF q = p THEN n ELSE i[q]
       /\ \A q \in Process : stdout'[q] = IF q = c THEN stdout[p] ELSE stdout[q]
    BY <1>4, <1>5
<1>12. TreeValues'
    <2>1. tree_at' \in [Process -> {"unborn", "fork", "print", "wait", "type", "loop",
                                   "poll", "exit", "over"}]
        BY <1>4, <1>5, <1>9, <1>10
    <2>2. parent' \in [Process -> Process \cup {Trees!Nobody}]
        BY <1>4, <1>5
    <2>3. i' \in [Process -> 0 .. Most]
        BY <1>4, <1>5, <1>8
    <2>4. stdout' \in [Process -> 0 .. 2]
        BY <1>4, <1>5
    <2>5. pid' \in [Trees!Digit -> Process \cup {-1}]
        BY <1>4, <1>5, <1>7
    <2>6. reaped' \subseteq Process /\ failed' \in BOOLEAN
        BY <1>4, <1>5
    <2> QED BY <2>1, <2>2, <2>3, <2>4, <2>5, <2>6 DEF TreeValues
<1>13. program = "face" => n = i[p] /\ Trees!Limit = 2 /\ stdout[p] = i[p] /\ i[p] \in 0 .. 1
    BY <1>1, <1>4, <1>6 DEF Trees!Limit, TreeTypes, TreePlace
<1>14. Trees!Limit' = Trees!Limit
    BY <1>4 DEF Trees!Limit
<1>15. ASSUME NEW q \in Process PROVE TreePlace(q)'
    <2>1. TreePlace(q) /\ TreePlace(p)
        BY DEF TreeTypes
    <2>2. CASE q = c
        <3>1. tree_at'[q] = cc /\ i'[q] = i[p] /\ stdout'[q] = stdout[p]
            BY <1>11, <2>2
        <3> QED BY <1>4, <1>10, <1>13, <2>1, <3>1 DEF TreePlace
    <2>3. CASE q # c /\ q = p
        <3>1. tree_at'[q] = pp /\ i'[q] = n /\ stdout'[q] = stdout[p]
            BY <1>11, <2>3
        <3> QED BY <1>4, <1>6, <1>9, <1>13, <1>14, <2>1, <3>1 DEF TreePlace
    <2>4. CASE q # c /\ q # p
        <3>1. tree_at'[q] = tree_at[q] /\ i'[q] = i[q] /\ stdout'[q] = stdout[q]
            BY <1>11, <2>4
        <3> QED BY <1>4, <1>14, <2>1, <3>1 DEF TreePlace
    <2> QED BY <2>2, <2>3, <2>4
<1>16. TreeOutput'
    <2>1. program = "face" => EndedOnes' = EndedOnes
        BY <1>4, <1>7, <1>9, <1>10, <1>11 DEF EndedOnes, Born
    <2> QED BY <1>4, <2>1 DEF TreeTypes, TreeOutput
<1> QED BY <1>12, <1>15, <1>16 DEF TreeTypes

\* The steps of one process that do not fork.
LEMMA TreeAloneKeeps ==
    ASSUME TreeTypes, NEW p \in Process, tree_at[p] \notin {"unborn", "over"},
           program' = program, parent' = parent, reaped' \subseteq Process,
           failed' \in BOOLEAN, pid' \in [Trees!Digit -> Process \cup {-1}],
           NEW place \in {"fork", "print", "wait", "type", "loop", "poll", "exit", "over"},
           NEW n \in 0 .. Most, NEW d \in 0 .. 2,
           tree_at' = [tree_at EXCEPT ![p] = place],
           i' = [i EXCEPT ![p] = n], stdout' = [stdout EXCEPT ![p] = d],
           place = "fork" => program \in Trees!Program /\ n < Trees!Limit,
           place = "print" => program = "face" /\ n \in 0 .. 1,
           place = "wait" => program = "face" /\ n \in 1 .. 2,
           program = "face" /\ place \in {"fork", "print"} => d = n,
           program # "face" => d = 0,
           IF place = "over" THEN printed' = printed + stdout[p] ELSE printed' = printed
    PROVE  TreeTypes'
<1>1. /\ tree_at \in [Process -> {"unborn", "fork", "print", "wait", "type", "loop",
                                  "poll", "exit", "over"}]
      /\ parent \in [Process -> Process \cup {Trees!Nobody}]
      /\ i \in [Process -> 0 .. Most] /\ stdout \in [Process -> 0 .. 2]
    BY DEF TreeTypes, TreeValues
<1>2. /\ tree_at'[p] = place /\ i'[p] = n /\ stdout'[p] = d
      /\ \A q \in Process \ {p} :
            tree_at'[q] = tree_at[q] /\ i'[q] = i[q] /\ stdout'[q] = stdout[q]
    BY <1>1
<1>3. TreeValues'
    <2>1. tree_at' \in [Process -> {"unborn", "fork", "print", "wait", "type", "loop",
                                   "poll", "exit", "over"}]
        BY <1>1
    <2>2. i' \in [Process -> 0 .. Most]
        BY <1>1
    <2>3. stdout' \in [Process -> 0 .. 2]
        BY <1>1
    <2> QED BY <1>1, <2>1, <2>2, <2>3 DEF TreeValues
<1>4. Trees!Limit' = Trees!Limit
    BY DEF Trees!Limit
<1>5. ASSUME NEW q \in Process PROVE TreePlace(q)'
    <2>1. CASE q = p
        BY <1>2, <1>4, <2>1 DEF TreePlace
    <2>2. CASE q # p
        <3>1. tree_at'[q] = tree_at[q] /\ i'[q] = i[q] /\ stdout'[q] = stdout[q]
            BY <1>2, <2>2
        <3>2. TreePlace(q)
            BY DEF TreeTypes
        <3> QED BY <1>4, <3>1, <3>2 DEF TreePlace
    <2> QED BY <2>1, <2>2
<1>6. TreeOutput'
    <2>1. /\ printed \in Nat /\ (program = "face" => printed <= 2 * Cardinality(EndedOnes))
          /\ (program # "face" => printed = 0 /\ stdout[p] = 0) /\ stdout[p] \in 0 .. 2
        BY <1>1 DEF TreeTypes, TreeOutput, TreePlace
    <2>2. CASE place # "over"
        <3>1. EndedOnes' = EndedOnes
            BY <1>2, <2>2 DEF EndedOnes
        <3> QED BY <2>1, <2>2, <3>1 DEF TreeOutput
    <2>3. CASE place = "over"
        <3>1. EndedOnes' = EndedOnes \cup {p} /\ p \notin EndedOnes
            BY <1>2, <2>3 DEF EndedOnes
        <3>2. Cardinality(EndedOnes') = Cardinality(EndedOnes) + 1
            BY <3>1, OverFinite, FS_AddElement
        <3>3. PICK k \in Nat : k = Cardinality(EndedOnes)
            BY OverFinite
        <3>4. printed' = printed + stdout[p]
            BY <2>3
        <3>5. program = "face" => printed' <= 2 * Cardinality(EndedOnes')
            <4>1. program = "face" => printed <= 2 * k
                BY <2>1, <3>3
            <4>2. Cardinality(EndedOnes') = k + 1
                BY <3>2, <3>3
            <4>3. printed \in Nat /\ stdout[p] \in 0 .. 2
                BY <2>1
            <4>4. program = "face" => printed + stdout[p] <= 2 * (k + 1)
                BY <4>1, <4>3
            <4> QED BY <3>4, <4>2, <4>4
        <3>6. printed' \in Nat /\ (program # "face" => printed' = 0)
            BY <2>1, <3>4
        <3> QED BY <3>5, <3>6 DEF TreeOutput
    <2> QED BY <2>2, <2>3
<1> QED BY <1>3, <1>5, <1>6 DEF TreeTypes

\* Each step of a process.
LEMMA TreeStepKeeps ==
    ASSUME TreesInv, TreeTypes, NEW p \in Process, Trees!Step(p) PROVE TreeTypes'
<1>1. /\ tree_at \in [Process -> {"unborn", "fork", "print", "wait", "type", "loop",
                                  "poll", "exit", "over"}]
      /\ reaped \subseteq Process /\ failed \in BOOLEAN
      /\ i \in [Process -> 0 .. Most] /\ stdout \in [Process -> 0 .. 2]
      /\ pid \in [Trees!Digit -> Process \cup {-1}]
    BY DEF TreeTypes, TreeValues
<1>2. /\ tree_at[p] = "fork" => program \in Trees!Program /\ i[p] < Trees!Limit
      /\ tree_at[p] = "print" => program = "face" /\ i[p] \in 0 .. 1
      /\ tree_at[p] = "wait" => program = "face" /\ i[p] \in 1 .. 2
      /\ program = "face" /\ tree_at[p] \in {"fork", "print"} => stdout[p] = i[p]
      /\ program # "face" => stdout[p] = 0
    BY DEF TreeTypes, TreePlace
<1>3. i[p] \in 0 .. Most /\ stdout[p] \in 0 .. 2 /\ Most \in Nat /\ Most >= 2
    BY <1>1, MostIs
<1>4. /\ program \in Trees!Program => Trees!Limit \in Nat /\ Trees!Limit <= Most
      /\ program = "face" => Trees!Limit = 2 /\ program \in Trees!Program
    BY LimitIs DEF Trees!Limit, Trees!Program
<1>5. /\ i' = i => i' = [i EXCEPT ![p] = i[p]]
      /\ stdout' = stdout => stdout' = [stdout EXCEPT ![p] = stdout[p]]
      /\ tree_at' = tree_at => tree_at' = [tree_at EXCEPT ![p] = tree_at[p]]
    BY <1>1
<1>6. CASE Trees!Fork(p)
    BY <1>6, TreeForkKeeps
<1>7. CASE Trees!ForkFails(p)
    <2>1. PICK n : n = IF program = "face" THEN i[p] ELSE i[p] + 1
        OBVIOUS
    <2>2. PICK place : place = IF program = "mul" THEN "poll" ELSE Trees!ParentGoesTo(n)
        OBVIOUS
    <2>3. /\ tree_at[p] = "fork" /\ failed' = TRUE
          /\ tree_at' = [tree_at EXCEPT ![p] = place] /\ i' = [i EXCEPT ![p] = n]
          /\ pid' = IF program = "create" THEN [pid EXCEPT ![i[p]] = -1] ELSE pid
          /\ program' = program /\ parent' = parent /\ reaped' = reaped
          /\ stdout' = stdout /\ printed' = printed
        BY <1>7, <2>1, <2>2 DEF Trees!ForkFails, Trees!output
    <2>4. program \in Trees!Program /\ i[p] < Trees!Limit /\ Trees!Limit \in Nat
          /\ Trees!Limit <= Most
        BY <1>2, <1>4, <2>3
    <2>5. n \in 0 .. Most /\ (program = "face" => n = i[p] /\ n \in 0 .. 1)
        <3>1. CASE program = "face"
            BY <1>3, <1>4, <2>1, <2>4, <3>1
        <3>2. CASE program # "face"
            BY <1>3, <2>1, <2>4, <3>2
        <3> QED BY <3>1, <3>2
    <2>6. /\ place \in {"fork", "print", "exit", "type", "poll"}
          /\ place = "fork" => program # "face" /\ n < Trees!Limit
          /\ place = "print" => program = "face"
        <3>1. CASE program = "face"
            BY <2>2, <3>1 DEF Trees!ParentGoesTo
        <3>2. CASE program # "face"
            <4>1. Trees!After \in {"exit", "type", "poll"}
                BY <2>4, <3>2 DEF Trees!After, Trees!Program
            <4>2. Trees!ParentGoesTo(n) = IF n < Trees!Limit THEN "fork" ELSE Trees!After
                BY <3>2 DEF Trees!ParentGoesTo
            <4> QED BY <2>2, <3>2, <4>1, <4>2
        <3> QED BY <3>1, <3>2
    <2>7. failed' \in BOOLEAN /\ reaped' \subseteq Process
          /\ pid' \in [Trees!Digit -> Process \cup {-1}]
        BY <1>1, <2>3
    <2>8. stdout' = [stdout EXCEPT ![p] = stdout[p]]
        BY <1>5, <2>3
    <2>9. program = "face" => stdout[p] = n
        BY <1>2, <2>3, <2>5
    <2>10. /\ place \in {"fork", "print", "wait", "type", "loop", "poll", "exit", "over"}
           /\ place # "over" /\ place # "wait" /\ tree_at[p] \notin {"unborn", "over"}
        BY <2>3, <2>6
    <2> QED BY <1>2, <1>3, <2>3, <2>4, <2>5, <2>6, <2>7, <2>8, <2>9, <2>10, TreeAloneKeeps
<1>8. CASE Trees!Printf(p)
    <2>1. PICK place : place = IF i[p] + 1 < 2 THEN "fork" ELSE "wait"
        OBVIOUS
    <2>2. /\ tree_at[p] = "print" /\ tree_at' = [tree_at EXCEPT ![p] = place]
          /\ i' = [i EXCEPT ![p] = i[p] + 1] /\ stdout' = [stdout EXCEPT ![p] = stdout[p] + 1]
          /\ program' = program /\ parent' = parent /\ reaped' = reaped /\ failed' = failed
          /\ pid' = pid /\ printed' = printed
        BY <1>8, <2>1 DEF Trees!Printf
    <2>3. program = "face" /\ i[p] \in 0 .. 1 /\ stdout[p] = i[p]
        BY <1>2, <2>2
    <2>4. /\ i[p] + 1 \in 0 .. Most /\ stdout[p] + 1 \in 0 .. 2
          /\ stdout[p] + 1 = i[p] + 1
          /\ place \in {"fork", "wait"} /\ (place = "fork" => i[p] + 1 < 2)
          /\ i[p] + 1 \in 1 .. 2
        BY <1>3, <2>1, <2>3
    <2>5. place = "fork" => program \in Trees!Program /\ i[p] + 1 < Trees!Limit
        BY <1>4, <2>3, <2>4
    <2>6. /\ place \in {"fork", "print", "wait", "type", "loop", "poll", "exit", "over"}
          /\ place # "over" /\ place # "print" /\ tree_at[p] \notin {"unborn", "over"}
        BY <2>2, <2>4
    <2>7. failed' \in BOOLEAN /\ reaped' \subseteq Process
          /\ pid' \in [Trees!Digit -> Process \cup {-1}]
        BY <1>1, <2>2
    <2> QED BY <2>2, <2>3, <2>4, <2>5, <2>6, <2>7, TreeAloneKeeps
<1>9. CASE Trees!Wait(p)
    <2>1. PICK place : place = IF i[p] > 1 THEN "wait" ELSE "exit"
        OBVIOUS
    <2>2. /\ tree_at[p] = "wait" /\ tree_at' = [tree_at EXCEPT ![p] = place]
          /\ i' = [i EXCEPT ![p] = i[p] - 1]
          /\ program' = program /\ parent' = parent /\ failed' = failed
          /\ pid' = pid /\ printed' = printed /\ stdout' = stdout
        BY <1>9, <2>1 DEF Trees!Wait, Trees!output
    <2>3. reaped' \subseteq Process
        BY <1>1, <1>9, ChildrenFinite DEF Trees!Wait
    <2>4. program = "face" /\ i[p] \in 1 .. 2
        BY <1>2, <2>2
    <2>5. /\ i[p] - 1 \in 0 .. Most /\ place \in {"wait", "exit"}
          /\ (place = "wait" => i[p] - 1 \in 1 .. 2)
        BY <1>3, <2>1, <2>4
    <2>6. stdout' = [stdout EXCEPT ![p] = stdout[p]]
        BY <1>5, <2>2
    <2>7. /\ place \in {"fork", "print", "wait", "type", "loop", "poll", "exit", "over"}
          /\ place \notin {"over", "print", "fork"} /\ tree_at[p] \notin {"unborn", "over"}
        BY <2>2, <2>5
    <2>8. failed' \in BOOLEAN /\ pid' \in [Trees!Digit -> Process \cup {-1}]
        BY <1>1, <2>2
    <2> QED BY <1>3, <2>2, <2>3, <2>4, <2>5, <2>6, <2>7, <2>8, TreeAloneKeeps
<1>10. CASE Trees!Poll(p)
    <2>0. PICK n \in 0 .. Most, d \in 0 .. 2 : n = i[p] /\ d = stdout[p]
        BY <1>3
    <2>1. /\ tree_at[p] = "poll" /\ i' = i /\ stdout' = stdout
          /\ program' = program /\ parent' = parent /\ failed' = failed
          /\ pid' = pid /\ printed' = printed
        BY <1>10 DEF Trees!Poll, Trees!output
    <2>2. reaped' \subseteq Process
        BY <1>1, <1>10, ChildrenFinite DEF Trees!Poll
    <2>3. PICK place \in {"poll", "exit"} : tree_at' = [tree_at EXCEPT ![p] = place]
        BY <1>5, <1>10, <2>1 DEF Trees!Poll
    <2>4. failed' \in BOOLEAN /\ pid' \in [Trees!Digit -> Process \cup {-1}]
        BY <1>1, <2>1
    <2>5. /\ i' = [i EXCEPT ![p] = n] /\ stdout' = [stdout EXCEPT ![p] = d]
          /\ place \in {"fork", "print", "wait", "type", "loop", "poll", "exit", "over"}
          /\ place \notin {"over", "print", "fork", "wait"}
          /\ tree_at[p] \notin {"unborn", "over"}
        BY <1>5, <2>0, <2>1, <2>3
    <2>6. program # "face" => d = 0
        BY <1>2, <2>0
    <2> QED BY <2>1, <2>2, <2>3, <2>4, <2>5, <2>6, TreeAloneKeeps
<1>11. CASE Trees!Exit(p)
    <2>0. PICK n \in 0 .. Most, d \in 0 .. 2 : n = i[p] /\ d = stdout[p]
        BY <1>3
    <2>1. /\ tree_at[p] = "exit" /\ tree_at' = [tree_at EXCEPT ![p] = "over"]
          /\ printed' = printed + stdout[p] /\ i' = i /\ stdout' = stdout
          /\ program' = program /\ parent' = parent /\ reaped' = reaped
          /\ failed' = failed /\ pid' = pid
        BY <1>11 DEF Trees!Exit
    <2>2. failed' \in BOOLEAN /\ pid' \in [Trees!Digit -> Process \cup {-1}]
          /\ reaped' \subseteq Process
        BY <1>1, <2>1
    <2>3. /\ i' = [i EXCEPT ![p] = n] /\ stdout' = [stdout EXCEPT ![p] = d]
          /\ tree_at[p] \notin {"unborn", "over"}
        BY <1>5, <2>0, <2>1
    <2>4. program # "face" => d = 0
        BY <1>2, <2>0
    <2>5. PICK place : place = "over"
        OBVIOUS
    <2>6. /\ place \in {"fork", "print", "wait", "type", "loop", "poll", "exit", "over"}
          /\ place \notin {"fork", "print", "wait"}
          /\ tree_at' = [tree_at EXCEPT ![p] = place]
          /\ IF place = "over" THEN printed' = printed + stdout[p] ELSE printed' = printed
        BY <2>1, <2>5
    <2> QED BY <2>1, <2>2, <2>3, <2>4, <2>6, TreeAloneKeeps
<1> QED BY <1>6, <1>7, <1>8, <1>9, <1>10, <1>11 DEF Trees!Step

\* kill.
LEMMA TreeKillKeeps ==
    ASSUME TreeTypes, NEW K,
           tree_at' = [q \in Process |-> IF q \in K THEN "over" ELSE tree_at[q]],
           program' = program, parent' = parent, reaped' = reaped, i' = i,
           stdout' = stdout, printed' = printed, failed' = failed, pid' = pid
    PROVE  TreeTypes'
<1>1. TreeValues'
    BY DEF TreeTypes, TreeValues
<1>2. ASSUME NEW q \in Process PROVE TreePlace(q)'
    <2>1. tree_at'[q] = "over" \/ tree_at'[q] = tree_at[q]
        OBVIOUS
    <2>2. Trees!Limit' = Trees!Limit /\ TreePlace(q)
        BY DEF Trees!Limit, TreeTypes
    <2> QED BY <2>1, <2>2 DEF TreePlace
<1>3. TreeOutput'
    <2>1. EndedOnes \subseteq EndedOnes' /\ EndedOnes' \subseteq Process
        BY DEF EndedOnes
    <2>2. IsFiniteSet(EndedOnes') /\ EndedOnes \in SUBSET EndedOnes'
        BY <2>1, ProcessFacts, FS_Subset
    <2>3. Cardinality(EndedOnes) <= Cardinality(EndedOnes')
        BY <2>2, FS_Subset
    <2>4. Cardinality(EndedOnes) \in Nat /\ Cardinality(EndedOnes') \in Nat
        BY <2>2, OverFinite, FS_CardinalityType
    <2>5. printed \in Nat /\ (program = "face" => printed <= 2 * Cardinality(EndedOnes))
          /\ (program # "face" => printed = 0)
        BY DEF TreeTypes, TreeOutput
    <2>6. program = "face" => printed <= 2 * Cardinality(EndedOnes')
        BY <2>3, <2>4, <2>5
    <2> QED BY <2>5, <2>6 DEF TreeOutput
<1> QED BY <1>1, <1>2, <1>3 DEF TreeTypes

LEMMA TreeTypesKeep == TreesInv /\ TreeTypes /\ Trees!Next => TreeTypes'
<1> SUFFICES ASSUME TreesInv, TreeTypes, Trees!Next PROVE TreeTypes'
    OBVIOUS
<1>1. ASSUME NEW target, Trees!Kill(target),
             UNCHANGED <<program, parent, reaped, i, Trees!output, failed, pid>>
      PROVE  TreeTypes'
    <2>1. PICK K : K = Trees!Killed(target)
        OBVIOUS
    <2>2. tree_at' = [q \in Process |-> IF q \in K THEN "over" ELSE tree_at[q]]
        BY <1>1, <2>1 DEF Trees!Kill, Process
    <2>3. /\ program' = program /\ parent' = parent /\ reaped' = reaped /\ i' = i
          /\ stdout' = stdout /\ printed' = printed /\ failed' = failed /\ pid' = pid
        BY <1>1 DEF Trees!output
    <2> QED BY <2>2, <2>3, TreeKillKeeps
<1>2. ASSUME NEW d \in Trees!Digit, Trees!TypeDigit(d) PROVE TreeTypes'
    BY <1>1, <1>2 DEF Trees!TypeDigit
<1>3. CASE Trees!Quit
    BY <1>1, <1>3 DEF Trees!Quit
<1>4. ASSUME NEW p \in Process, Trees!Step(p) PROVE TreeTypes'
    BY <1>4, TreeStepKeeps
<1> QED BY <1>2, <1>3, <1>4 DEF Trees!Next, Process

LEMMA TreeTypesStay == TreeTypes /\ UNCHANGED <<program, treeVars>> => TreeTypes'
<1> SUFFICES ASSUME TreeTypes, UNCHANGED <<program, treeVars>> PROVE TreeTypes'
    OBVIOUS
<1>1. /\ program' = program /\ tree_at' = tree_at /\ parent' = parent
      /\ reaped' = reaped /\ i' = i /\ stdout' = stdout /\ printed' = printed
      /\ failed' = failed /\ pid' = pid
    BY DEF treeVars
<1>2. PICK K : K = {}
    OBVIOUS
<1>3. tree_at' = [q \in Process |-> IF q \in K THEN "over" ELSE tree_at[q]]
    BY <1>1, <1>2 DEF TreeTypes, TreeValues
<1> QED BY <1>1, <1>3, TreeKillKeeps

\* ProcessTrees counts as this module does.
LEMMA CardinalitiesAgree == \A S : Trees!Cardinality(S) = Cardinality(S)
BY DEF Trees!Cardinality, Cardinality

LEMMA TreeTypesHold == TreeTypes => Trees!TypeOK
<1> SUFFICES ASSUME TreeTypes PROVE Trees!TypeOK
    OBVIOUS
<1>1. printed \in 0 .. 2 * Trees!Cardinality(Trees!Process)
    <2>1. PICK k \in Nat : k = Cardinality(EndedOnes)
        BY OverFinite
    <2>2. PICK n \in Nat : n = Cardinality(Process)
        BY OverFinite
    <2>3. k <= n
        BY <2>1, <2>2, OverFinite
    <2>4. /\ printed \in Nat /\ (program = "face" => printed <= 2 * k)
          /\ program # "face" => printed = 0
        BY <2>1 DEF TreeTypes, TreeOutput
    <2>5. printed \in 0 .. 2 * n
        BY <2>3, <2>4
    <2>6. n = Trees!Cardinality(Trees!Process)
        BY <2>2, CardinalitiesAgree DEF Process
    <2> QED BY <2>5, <2>6
<1>2. /\ tree_at \in [Trees!Process -> {"unborn", "fork", "print", "wait", "type", "loop",
                                       "poll", "exit", "over"}]
      /\ parent \in [Trees!Process -> Trees!Process \cup {Trees!Nobody}]
      /\ reaped \subseteq Trees!Process
      /\ i \in [Trees!Process -> 0 .. Trees!Max({2, MAX_CHILD_NUMBER, INT_PTX})]
      /\ stdout \in [Trees!Process -> 0 .. 2]
      /\ failed \in BOOLEAN /\ pid \in [Trees!Digit -> Trees!Process \cup {-1}]
    BY DEF TreeTypes, TreeValues, Process, Most
<1> QED BY <1>1, <1>2 DEF Trees!TypeOK

----------------------------------------------------------------------------
(* What the programs promise.                                               *)

\* The values of all variables, with what keeps them: besides DemosInv, bounds on
\* counters and buffers, and where each process and thread can be.
TypesInv ==
    /\ SelectTypes /\ ready \in BOOLEAN /\ AllThreadTypes /\ PipePlaces /\ TreeTypes

LEMMA TypesStart == Init => TypesInv
BY SelectTypesStart, AllThreadTypesStart, PipePlacesStart, TreeTypesStart
DEF Init, TypesInv, Modules!Start

LEMMA TypesKeep == DemosInv /\ TypesInv /\ [Next]_vars => TypesInv'
<1> SUFFICES ASSUME DemosInv, TypesInv, [Next]_vars PROVE TypesInv'
    OBVIOUS
<1>1. /\ SelectTypes /\ ready \in BOOLEAN /\ AllThreadTypes /\ PipePlaces /\ TreeTypes
      /\ SelectInv /\ TreesInv /\ PipeTypes
    BY DEF DemosInv, TypesInv, PipesInv
<1>2. program' = program
    BY ProgramStays DEF Next, vars
<1>3. Select!Next \/ UNCHANGED selectVars => SelectTypes'
    BY <1>1, SelectTypesKeep, SelectTypesStay
<1>4. Modules!Next \/ UNCHANGED moduleVars => ready' \in BOOLEAN
    BY <1>1, ReadyKeeps DEF moduleVars
<1>5. Threads!Next \/ UNCHANGED threadVars => AllThreadTypes'
    BY <1>1, <1>2, AllThreadTypesKeep, AllThreadTypesStay
<1>6. Pipe!Next \/ UNCHANGED pipeVars => PipePlaces'
    BY <1>1, PipePlacesKeep, PipePlacesStay
<1>7. Trees!Next \/ UNCHANGED treeVars => TreeTypes'
    BY <1>1, <1>2, TreeTypesKeep, TreeTypesStay
<1> QED BY <1>3, <1>4, <1>5, <1>6, <1>7 DEF TypesInv, Next, vars

\* Every variable of the demo programs keeps to its values, for any numbers of
\* children, threads and lines and any capacity of a pipe: no call leads out of
\* the function it is in, no counter passes its limit, no process of fork_face.c
\* has more than two dashes to write, and bc's and the socket's counters never
\* pass the lines typed.
THEOREM TypeCorrect == Spec => []TypeOK
<1>1. DemosInv /\ TypesInv => TypeOK
    <2> SUFFICES ASSUME DemosInv, TypesInv PROVE TypeOK
        OBVIOUS
    <2>1. Pipe!TypeOK
        BY PipeTypesHold DEF DemosInv, PipesInv, TypesInv
    <2>2. Threads!TypeOK
        BY AllThreadTypesAre DEF TypesInv
    <2>3. Trees!TypeOK
        BY TreeTypesHold DEF TypesInv
    <2>4. Modules!TypeOK
        BY ModulesTypes DEF DemosInv, TypesInv
    <2>5. Time!TypeOK /\ Select!TypeOK
        BY DEF DemosInv, TimeInv, TypesInv, SelectTypes
    <2> QED BY <2>1, <2>2, <2>3, <2>4, <2>5 DEF TypeOK
<1>2. Init => DemosInv /\ TypesInv
    BY DemosStart, TypesStart
<1>3. DemosInv /\ TypesInv /\ [Next]_vars => (DemosInv /\ TypesInv)'
    BY DemosKeep, TypesKeep
<1> QED BY <1>1, <1>2, <1>3, PTL DEF Spec

\* IO_select.c: whatever the user types and the server sends, in any order and
\* also after end of file, select does not block while a line of the server, or
\* one typed at a terminal, is left to read.
THEOREM NoLineWaitsHolds == Spec => []NoLineWaits
<1>1. DemosInv => NoLineWaits
    BY SelectPromise DEF DemosInv
<1> QED BY <1>1, Inductive, PTL

\* The kernel modules of memory_test/, lessons_os/ and loadtest/: one that is
\* out again, or failed to come in, holds no page, no node and no handler; for
\* mylist any number of nodes.
THEOREM NothingLeftBehindHolds == Spec => []NothingLeftBehind
<1>1. DemosInv => NothingLeftBehind
    BY ModulesPromise DEF DemosInv
<1> QED BY <1>1, Inductive, PTL

\* fork_face.c, fork_create.c and mulprogress.c: no child outlives its parent,
\* whichever forks fail, whatever is typed and however many children there are.
THEOREM ParentsOutliveChildrenHolds == Spec => []ParentsOutliveChildren
<1>1. DemosInv => ParentsOutliveChildren
    BY TreesPromise DEF DemosInv
<1> QED BY <1>1, Inductive, PTL

\* fork_face.c: when no fork fails eight dashes are written before the first
\* process ends.
THEOREM EightDashesHolds == Spec => []EightDashes
<1>1. DemosInv => EightDashes
    BY TreesPromise DEF DemosInv
<1> QED BY <1>1, Inductive, PTL

\* thread.c: with any number of workers, and counters that wrap anywhere, the
\* sum main prints is main_counter; rwrite.c: who writes is alone.
THEOREM LocksProtectHolds == Spec => []LocksProtect
<1>1. DemosInv => LocksProtect
    BY ThreadsPromise DEF DemosInv
<1> QED BY <1>1, Inductive, PTL

\* time_serve_socketdemo.c, among the other programs: clients that leave early
\* do not end the server.
THEOREM ClientsDoNotEndItHolds == Spec => []ClientsDoNotEndIt
<1>1. DemosInv => ClientsDoNotEndIt
    BY TimePromises DEF DemosInv
<1> QED BY <1>1, Inductive, PTL

\* bc_demo_1.c: when bc asks the user again, every request before has its answer
\* on the screen, and no answer of dc was taken for another; for any number of
\* lines, until dc first answers with two lines.
THEOREM AnswersInStepHolds == Spec => []AnswersInStep
<1>1. DemosInv => AnswersInStep
    <2> SUFFICES ASSUME DemosInv PROVE AnswersInStep
        OBVIOUS
    <2> QED BY AnswersPromise DEF DemosInv, AnswersInStep, Pipe!AnswersInStep, Parent, Child
<1> QED BY <1>1, Inductive, PTL

\* pipe_demo_4.c, popen.c and time_serve_socketdemo.c: whoever has read up to the
\* end has read all that was written, in its order, for pipes of any capacity.
THEOREM EverythingArrivesHolds == Spec => []EverythingArrives
<1>1. DemosInv => EverythingArrives
    BY ArrivalPromise, TimePromises DEF DemosInv, EverythingArrives
<1> QED BY <1>1, Inductive, PTL

\* The pipe programs: everyone waits only for the child of pipe_demo_2.c, which
\* reads a pipe it can write itself, or in bc_demo_1.c with both pipes full after
\* an answer of two lines.
THEOREM OnlyFullPipesBlockHolds == Spec => []OnlyFullPipesBlock
<1>1. DemosInv => OnlyFullPipesBlock
    BY BlockPromise DEF DemosInv, OnlyFullPipesBlock
<1> QED BY <1>1, Inductive, PTL
====
