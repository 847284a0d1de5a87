---- MODULE PipesProofs ----
(***************************************************************************)
(* The pipe programs for pipes of any capacity and any number of lines, as  *)
(* part of MCDemos: which ends a process has open follows from where it is, *)
(* and what was read and what is still in a pipe make up what was written.  *)
(***************************************************************************)
EXTENDS MCDemos, FiniteSetTheorems, SequenceTheorems, TLAPS

Parent == Pipe!Parent
Child == Pipe!Child
In(p, fn) == pipe_at[p].fn = fn
Ln(p) == pipe_at[p].ln
Over(p) == pipe_at[p].fn \in {"done", "dead"}

Names == {"unborn", "done", "dead", "bc", "bc_main_wait", "be_bc", "be_dc", "dc",
          "demo1", "demo2", "demo2_child", "demo3", "demo3_child", "demo4",
          "demo4_child", "popen", "writer", "reader"}

PipeTypes ==
    /\ pipe_at \in [Pipe!Process -> [fn : Names, ln : Nat]]
    /\ fds \in [Pipe!Process -> [Pipe!Fd -> Pipe!Open]]
    /\ pipe \in [Pipe!Pipe -> Seq(Pipe!Message)]
    /\ \A j \in Pipe!Pipe : Len(pipe[j]) <= PipeSize
    /\ buf \in Seq(Pipe!Message)
    /\ typed \in 0 .. MaxLines
    /\ sent \in [Pipe!Process -> Seq(Pipe!Message)]
    /\ got \in [Pipe!Process -> Seq(Pipe!Message)]

Tty == Pipe!Terminal
Off == Pipe!Closed
R(j) == Pipe!ReadEnd(j)
W(j) == Pipe!WriteEnd(j)

Holds(p, in, out, r0, w0, r1, w1) ==
    /\ fds[p]["in"] = in /\ fds[p]["out"] = out
    /\ fds[p]["r0"] = r0 /\ fds[p]["w0"] = w0
    /\ fds[p]["r1"] = r1 /\ fds[p]["w1"] = w1

\* What p has open after its k-th step, where before it was another, and what
\* it has up to that step.
Since(p, k, before, end) == IF Ln(p) > k THEN end ELSE before
Until(p, k, end) == IF Ln(p) > k THEN Off ELSE end

\* In each function, what p has as in, out, r0, w0, r1 and w1.
BcTable(p) == Holds(p, Tty, Tty, Since(p, 1, Off, R(0)), Since(p, 1, Off, W(0)),
                                 Since(p, 1, Off, R(1)), Since(p, 1, Off, W(1)))
BeBcTable(p) == Holds(p, Tty, Tty, Until(p, 1, R(0)), Until(p, 8, W(0)),
                                   Until(p, 9, R(1)), Until(p, 2, W(1)))
BeDcTable(p) == Holds(p, Since(p, 1, Tty, R(0)), Since(p, 4, Tty, W(1)),
                      Until(p, 2, R(0)), Until(p, 3, W(0)), Until(p, 6, R(1)), Until(p, 5, W(1)))
DcTable(p) == Holds(p, R(0), W(1), Off, Off, Off, Off)
NoPipeTable(p) == Holds(p, Tty, Tty, Off, Off, Off, Off)
OverTable(p) == Holds(p, Off, Off, Off, Off, Off, Off)
DemoTable(p) == Holds(p, Tty, Tty, Since(p, 1, Off, R(0)), Since(p, 1, Off, W(0)), Off, Off)
Demo2ChildTable(p) == Holds(p, Tty, Tty, R(0), W(0), Off, Off)
Demo3Table(p) == Holds(p, Tty, Tty, Since(p, 1, Off, Until(p, 3, R(0))),
                                    Since(p, 1, Off, Until(p, 5, W(0))), Off, Off)
Demo3ChildTable(p) == Holds(p, Tty, Tty, Until(p, 3, R(0)), Until(p, 1, W(0)), Off, Off)
Demo4Table(p) == Holds(p, Since(p, 4, Tty, R(0)), Tty, Since(p, 1, Off, Until(p, 5, R(0))),
                          Since(p, 1, Off, Until(p, 3, W(0))), Off, Off)
Demo4ChildTable(p) == Holds(p, Tty, Since(p, 2, Tty, W(0)), Until(p, 1, R(0)),
                               Until(p, 3, W(0)), Off, Off)
PopenTable(p) == Holds(p, Tty, Tty, Since(p, 1, Off, Until(p, 5, R(0))),
                                    Since(p, 1, Off, Until(p, 3, W(0))), Off, Off)
ReaderTable(p) == Holds(p, R(0), Tty, Off, Off, Off, Off)
WriterTable(p) == Holds(p, Tty, W(0), Off, Off, Off, Off)

Table(p) ==
    /\ In(p, "unborn") => NoPipeTable(p)
    /\ In(p, "bc_main_wait") => NoPipeTable(p)
    /\ In(p, "dead") => OverTable(p)
    /\ In(p, "done") => OverTable(p)
    /\ In(p, "bc") => BcTable(p)
    /\ In(p, "be_bc") => BeBcTable(p)
    /\ In(p, "be_dc") => BeDcTable(p)
    /\ In(p, "dc") => DcTable(p)
    /\ In(p, "demo1") => DemoTable(p)
    /\ In(p, "demo2") => DemoTable(p)
    /\ In(p, "demo2_child") => Demo2ChildTable(p)
    /\ In(p, "demo3") => Demo3Table(p)
    /\ In(p, "demo3_child") => Demo3ChildTable(p)
    /\ In(p, "demo4") => Demo4Table(p)
    /\ In(p, "demo4_child") => Demo4ChildTable(p)
    /\ In(p, "popen") => PopenTable(p)
    /\ In(p, "reader") => ReaderTable(p)
    /\ In(p, "writer") => WriterTable(p)

\* What was written is what was read, and then what is on the way.
Flow(source, read, way) ==
    /\ Len(source) = Len(read) + Len(way)
    /\ \A j \in 1 .. Len(read) : read[j] = source[j]
    /\ \A j \in 1 .. Len(way) : way[j] = source[Len(read) + j]

\* Who writes of its own numbers its messages.
Numbered(source) == \A j \in 1 .. Len(source) : source[j].no = j /\ source[j].part = 1

\* Where the two processes of a program are: the child is born by the fork.
BcPlaces ==
    \/ In(Parent, "bc") /\ Ln(Parent) \in 1 .. 2 /\ In(Child, "unborn")
    \/ Over(Parent) /\ In(Child, "unborn")
    \/ /\ \/ In(Parent, "bc") /\ Ln(Parent) = 3
          \/ In(Parent, "be_bc") /\ Ln(Parent) \in 1 .. 10
          \/ In(Parent, "bc_main_wait") /\ Ln(Parent) \in 1 .. 2
          \/ Over(Parent)
       /\ \/ In(Child, "be_dc") /\ Ln(Child) \in 1 .. 8
          \/ In(Child, "dc") /\ Ln(Child) \in 1 .. 5
          \/ Over(Child)

\* dc answers each request with one line or two; of the lines before the
\* first second one, the j-th is the answer to the j-th request.
FirstLines(lns, m) == \A j \in 1 .. m : lns[j].no = j /\ lns[j].part = 1
SecondLine(lns, m) == m < Len(lns) => m > 0 /\ lns[m + 1].no = m /\ lns[m + 1].part = 2
Answers(lns, n) ==
    \E m \in 0 .. Len(lns) :
        /\ FirstLines(lns, m) /\ SecondLine(lns, m)
        /\ m = Len(lns) /\ ~ Over(Child) =>
              n = IF In(Child, "dc") /\ Ln(Child) = 2 THEN m + 1 ELSE m

BcFlow ==
    /\ Flow(sent[Parent], got[Child], pipe[0] \o buf)
    /\ Flow(sent[Child], got[Parent], pipe[1])
    /\ Numbered(sent[Parent])
    /\ Len(sent[Parent]) <= typed

BcParent ==
    /\ IF In(Parent, "be_bc") /\ Ln(Parent) = 6 THEN Len(buf) = 1 ELSE buf = <<>>
    /\ In(Parent, "be_bc") /\ Ln(Parent) = 5 => Len(sent[Parent]) < typed
    /\ IF In(Parent, "be_bc") /\ Ln(Parent) \in 6 .. 7
       THEN Len(got[Parent]) = Len(sent[Parent]) - 1
       ELSE (In(Parent, "be_bc") /\ Ln(Parent) > 7) \/ In(Parent, "bc_main_wait")
            \/ Len(got[Parent]) = Len(sent[Parent])

BcChild ==
    /\ In(Child, "unborn") \/ In(Child, "be_dc") => sent[Child] = <<>> /\ got[Child] = <<>>
    /\ In(Child, "dc") /\ Ln(Child) \in 2 .. 4 => got[Child] # <<>>
    /\ Answers(sent[Child], Len(got[Child]))
    /\ In(Child, "dc") =>
          CASE Ln(Child) = 2 -> Len(sent[Child]) \in Len(got[Child]) - 1 .. 2 * Len(got[Child]) - 2
            [] Ln(Child) \in 3 .. 4 -> Len(sent[Child]) \in Len(got[Child]) .. 2 * Len(got[Child]) - 1
            [] OTHER -> Len(sent[Child]) \in Len(got[Child]) .. 2 * Len(got[Child])

BcInv == BcPlaces /\ BcFlow /\ (Over(Parent) \/ BcParent) /\ BcChild

Demo1Inv ==
    /\ In(Child, "unborn")
    /\ Over(Parent) \/ (In(Parent, "demo1") /\ Ln(Parent) \in 1 .. 5)
    /\ In(Parent, "demo1") /\ Ln(Parent) < 5 =>
          /\ Flow(sent[Parent], got[Parent], pipe[0])
          /\ Numbered(sent[Parent])
          /\ Len(sent[Parent]) <= typed
          /\ Ln(Parent) = 1 => sent[Parent] = <<>>
          /\ Ln(Parent) = 3 => Len(sent[Parent]) < typed
          /\ Len(pipe[0]) = IF Ln(Parent) = 4 THEN 1 ELSE 0

Demo2Inv ==
    \/ In(Parent, "demo2") /\ Ln(Parent) \in 1 .. 2 /\ In(Child, "unborn")
    \/ Over(Parent) /\ In(Child, "unborn")
    \/ /\ Over(Parent) \/ (In(Parent, "demo2") /\ Ln(Parent) \in 3 .. 5)
       /\ In(Child, "demo2_child") /\ Ln(Child) = 1

Demo3Inv ==
    /\ \/ In(Parent, "demo3") /\ Ln(Parent) \in 1 .. 2 /\ In(Child, "unborn")
       \/ Over(Parent) /\ In(Child, "unborn")
       \/ /\ Over(Parent) \/ (In(Parent, "demo3") /\ Ln(Parent) \in 3 .. 7)
          /\ Over(Child) \/ (In(Child, "demo3_child") /\ Ln(Child) \in 1 .. 4)
    /\ Flow(sent[Parent], got[Child], pipe[0])
    /\ Len(sent[Parent]) <= 1
    /\ In(Parent, "demo3") /\ Ln(Parent) < 5 => sent[Parent] = <<>>
    /\ In(Child, "unborn") \/ (In(Child, "demo3_child") /\ Ln(Child) < 3) => got[Child] = <<>>
    /\ Over(Child) \/ (In(Child, "demo3_child") /\ Ln(Child) > 2) =>
          /\ pipe[0] = <<>>
          /\ In(Parent, "demo3") => Ln(Parent) > 4

\* pipe_demo_4.c and popen.c: the child, or its command, writes and the parent,
\* or its command, reads up to the end.
Writes ==
    \/ In(Child, "demo4_child") /\ Ln(Child) \in 1 .. 5
    \/ In(Child, "writer") /\ Ln(Child) \in 1 .. MaxLines + 1

Written ==
    /\ Flow(sent[Child], got[Parent], pipe[0])
    /\ Len(sent[Child]) <= MaxLines
    /\ In(Child, "unborn") \/ In(Child, "demo4_child") => sent[Child] = <<>>
    /\ In(Child, "writer") => Len(sent[Child]) = Ln(Child) - 1

AllRead == pipe[0] = <<>> /\ Over(Child)

Demo4Inv ==
    /\ Written
    /\ \/ In(Parent, "demo4") /\ Ln(Parent) \in 1 .. 2 /\ In(Child, "unborn")
       \/ In(Parent, "dead") /\ In(Child, "unborn")
       \/ /\ Writes \/ Over(Child)
          /\ \/ In(Parent, "demo4") /\ Ln(Parent) \in 3 .. 7
             \/ In(Parent, "reader") /\ Ln(Parent) = 1
             \/ In(Parent, "dead")
             \/ ((In(Parent, "reader") /\ Ln(Parent) = 2) \/ In(Parent, "done")) /\ AllRead

PopenInv ==
    /\ Written
    /\ \/ In(Parent, "popen") /\ Ln(Parent) \in 1 .. 2 /\ In(Child, "unborn")
       \/ In(Parent, "dead") /\ In(Child, "unborn")
       \/ /\ Writes \/ Over(Child)
          /\ \/ In(Parent, "popen") /\ Ln(Parent) \in 3 .. 4
             \/ In(Parent, "dead")
             \/ ((In(Parent, "popen") /\ Ln(Parent) \in 5 .. 7) \/ In(Parent, "done")) /\ AllRead

\* The tables, and of the program that runs what it has sent and read.
PipesInv ==
    /\ PipeTypes
    /\ Table(Parent) /\ Table(Child)
    /\ program = "bc" => BcInv
    /\ program = "demo1" => Demo1Inv
    /\ program = "demo2" => Demo2Inv
    /\ program = "demo3" => Demo3Inv
    /\ program = "demo4" => Demo4Inv
    /\ program = "popen" => PopenInv
    /\ program \notin Pipe!Program => In(Parent, "unborn") /\ In(Child, "unborn")

----------------------------------------------------------------------------
(* One step: where a process goes and what it then holds.                    *)

PipeStep(p) == Pipe!Step(p) \/ Pipe!DoTyped(p) \/ Pipe!Dies(p)

\* p goes to step ln of fn; the other process stays as it is.
Moves(p, fn, ln) ==
    /\ pipe_at' \in [Pipe!Process -> [fn : Names, ln : Nat]]
    /\ fds' \in [Pipe!Process -> [Pipe!Fd -> Pipe!Open]]
    /\ pipe_at'[p].fn = fn /\ pipe_at'[p].ln = ln
    /\ \A q \in Pipe!Process \ {p} : pipe_at'[q] = pipe_at[q] /\ fds'[q] = fds[q]

SameData == UNCHANGED <<program, pipe, buf, typed, sent, got>>

\* p has the same open as before, but for the descriptors of F.
KeepsBut(p, F) == \A f \in Pipe!Fd \ F : fds'[p][f] = fds[p][f]

\* The constants of Pipes.
LEMMA PipeConstants ==
    /\ PipeSize \in Nat \ {0} /\ MaxLines \in Nat \ {0}
    /\ Pipe!Process = {Parent, Child} /\ Parent = "parent" /\ Child = "child"
    /\ {Pipe!Terminal, Pipe!Closed} \subseteq Pipe!Open
    /\ \A j \in 0 .. 1 : {Pipe!ReadEnd(j), Pipe!WriteEnd(j)} \subseteq Pipe!Open
    /\ Pipe!Fd = {"in", "out", "r0", "w0", "r1", "w1"} /\ Pipe!Pipe = {0, 1}
<1>1. PipeSize \in Nat \ {0} /\ MaxLines \in Nat \ {0}
    BY DemosAssumption
<1>2. Pipe!Pipe = {0, 1} /\ 0 .. 1 = {0, 1}
    BY DEF Pipe!Pipe
<1>3. \A j \in {0, 1} : {Pipe!ReadEnd(j), Pipe!WriteEnd(j)} \subseteq Pipe!Open
    BY <1>2 DEF Pipe!Open
<1>4. {Pipe!Terminal, Pipe!Closed} \subseteq Pipe!Open
    BY DEF Pipe!Open
<1> QED BY <1>1, <1>2, <1>3, <1>4 DEF Pipe!Process, Parent, Child, Pipe!Parent, Pipe!Child, Pipe!Fd

\* The two ends of the two pipes, the terminal and a closed descriptor differ.
LEMMA EndsDiffer ==
    /\ Pipe!Terminal # Pipe!Closed /\ Pipe!Terminal[2] = "terminal" /\ Pipe!Closed[2] = "closed"
    /\ \A j \in {0, 1} : /\ Pipe!ReadEnd(j)[1] = j /\ Pipe!ReadEnd(j)[2] = "read"
                         /\ Pipe!WriteEnd(j)[1] = j /\ Pipe!WriteEnd(j)[2] = "write"
BY DEF Pipe!Terminal, Pipe!Closed, Pipe!ReadEnd, Pipe!WriteEnd

\* One call is made at a time.
LEMMA ActsAs ==
    ASSUME NEW p \in Pipe!Process, PipeStep(p)
    PROVE  /\ Pipe!Alive(p)
           /\ Pipe!Dies(p) \/ \/ Pipe!Calls(p).call = "pipe" /\ Pipe!DoPipe(p)
                              \/ Pipe!Calls(p).call = "fork" /\ Pipe!DoFork(p)
                              \/ Pipe!Calls(p).call = "exec" /\ Pipe!DoExec(p)
                              \/ Pipe!Calls(p).call = "call" /\ Pipe!DoCall(p)
                              \/ Pipe!Calls(p).call = "close" /\ Pipe!DoClose(p)
                              \/ Pipe!Calls(p).call = "dup2" /\ Pipe!DoDup2(p)
                              \/ Pipe!Calls(p).call = "fdopen" /\ Pipe!DoFdopen(p)
                              \/ Pipe!Calls(p).call = "typed" /\ Pipe!DoTyped(p)
                              \/ Pipe!Calls(p).call = "fprintf" /\ Pipe!DoFprintf(p)
                              \/ Pipe!Calls(p).call = "fflush" /\ Pipe!DoFflush(p)
                              \/ Pipe!Calls(p).call = "write" /\ Pipe!DoWrite(p)
                              \/ Pipe!Calls(p).call = "read" /\ Pipe!DoRead(p)
                              \/ Pipe!Calls(p).call = "wrap" /\ Pipe!DoWrap(p)
                              \/ Pipe!Calls(p).call = "wait" /\ Pipe!DoWait(p)
                              \/ Pipe!Calls(p).call \in {"exit", "oops"} /\ Pipe!DoExit(p)
<1>1. Pipe!Dies(p) => Pipe!Alive(p)
    BY DEF Pipe!Dies, Pipe!Command, Pipe!Alive
<1> QED BY <1>1 DEF PipeStep, Pipe!Step, Pipe!Does, Pipe!DoPipe, Pipe!DoFork, Pipe!DoExec,
        Pipe!DoCall, Pipe!DoClose, Pipe!DoDup2, Pipe!DoFdopen, Pipe!DoTyped, Pipe!DoFprintf,
        Pipe!DoFflush, Pipe!DoWrite, Pipe!DoRead, Pipe!DoWrap, Pipe!DoWait, Pipe!DoExit

\* To the next step, to another function, and to the end.
LEMMA GotoIs ==
    ASSUME PipeTypes, NEW p \in Pipe!Process, NEW k \in Nat, Pipe!Goto(p, k), UNCHANGED fds
    PROVE  Moves(p, pipe_at[p].fn, k) /\ KeepsBut(p, {})
BY DEF PipeTypes, Pipe!Goto, Moves, KeepsBut, In, Ln

LEMMA EnterIs ==
    ASSUME PipeTypes, NEW p \in Pipe!Process, NEW fn \in Names, Pipe!Enter(p, fn), UNCHANGED fds
    PROVE  Moves(p, fn, 1) /\ KeepsBut(p, {})
BY DEF PipeTypes, Pipe!Enter, Moves, KeepsBut, In, Ln

LEMMA EndIs ==
    ASSUME PipeTypes, NEW p \in Pipe!Process, NEW how \in {"done", "dead"}, Pipe!End(p, how)
    PROVE  Moves(p, how, 0) /\ Over(p)' /\ Table(p)'
<1>1. Moves(p, how, 0)
    <2>1. /\ pipe_at' = [pipe_at EXCEPT ![p] = [fn |-> how, ln |-> 0]]
          /\ fds' = [fds EXCEPT ![p] = [f \in Pipe!Fd |-> Pipe!Closed]]
        BY DEF Pipe!End
    <2>2. [f \in Pipe!Fd |-> Pipe!Closed] \in [Pipe!Fd -> Pipe!Open]
        BY PipeConstants
    <2>3. fds' \in [Pipe!Process -> [Pipe!Fd -> Pipe!Open]]
        BY <2>1, <2>2 DEF PipeTypes
    <2>4. pipe_at' \in [Pipe!Process -> [fn : Names, ln : Nat]]
        <3>1. [fn |-> how, ln |-> 0] \in [fn : Names, ln : Nat]
            BY DEF Names
        <3> QED BY <2>1, <3>1 DEF PipeTypes
    <2> QED BY <2>1, <2>3, <2>4 DEF PipeTypes, Moves, In, Ln
<1>2. \A f \in Pipe!Fd : fds'[p][f] = Pipe!Closed
    BY DEF PipeTypes, Pipe!End
<1>3. OverTable(p)'
    BY <1>2 DEF OverTable, Holds, Off, Pipe!Fd
<1> QED BY <1>1, <1>3 DEF Moves, Over, In, Table

\* close and dup2 change one descriptor of one process.
LEMMA CloseIs ==
    ASSUME PipeTypes, NEW p \in Pipe!Process, Pipe!DoClose(p), NEW f \in Pipe!Fd,
           Pipe!Calls(p).fd = f
    PROVE  /\ Moves(p, pipe_at[p].fn, Ln(p) + 1) /\ KeepsBut(p, {f}) /\ SameData
           /\ fds'[p][f] = Pipe!Closed
<1>1. SameData
    BY DEF Pipe!DoClose, SameData, Pipe!messages
<1>2. fds' = [fds EXCEPT ![p][f] = Pipe!Closed]
    BY DEF Pipe!DoClose
<1>3. pipe_at' = [pipe_at EXCEPT ![p].ln = pipe_at[p].ln + 1]
    BY DEF Pipe!DoClose, Pipe!NextStep, Pipe!Goto
<1> QED BY <1>1, <1>2, <1>3, PipeConstants DEF PipeTypes, Moves, KeepsBut, In, Ln

LEMMA Dup2Is ==
    ASSUME PipeTypes, NEW p \in Pipe!Process, Pipe!DoDup2(p),
           NEW f \in Pipe!Fd, Pipe!Calls(p).fd = f, NEW g \in Pipe!Fd, Pipe!Calls(p).to = g
    PROVE  /\ SameData
           /\ \/ Pipe!End(p, "dead")
              \/ /\ Moves(p, pipe_at[p].fn, Ln(p) + 1) /\ KeepsBut(p, {g})
                 /\ fds'[p][g] = fds[p][f]
<1>1. SameData
    <2>1. UNCHANGED <<program, Pipe!messages>>
        BY DEF Pipe!DoDup2
    <2> QED BY <2>1 DEF SameData, Pipe!messages
<1>2. CASE ~ Pipe!End(p, "dead")
    <2>1. fds[p][f] \in Pipe!Open
        BY DEF PipeTypes
    <2>2. pipe_at' = [pipe_at EXCEPT ![p].ln = pipe_at[p].ln + 1]
        BY <1>2 DEF Pipe!DoDup2, Pipe!NextStep, Pipe!Goto
    <2>3. fds' = [fds EXCEPT ![p][g] = fds[p][f]]
        BY <1>2 DEF Pipe!DoDup2
    <2>4. fds' \in [Pipe!Process -> [Pipe!Fd -> Pipe!Open]]
        BY <2>1, <2>3 DEF PipeTypes
    <2>5. pipe_at' \in [Pipe!Process -> [fn : Names, ln : Nat]]
        <3>1. Ln(p) + 1 \in Nat /\ pipe_at' = [pipe_at EXCEPT ![p].ln = Ln(p) + 1]
            BY <2>2 DEF PipeTypes, Ln
        <3> QED BY <3>1 DEF PipeTypes
    <2>6. fds'[p][g] = fds[p][f] /\ KeepsBut(p, {g})
        BY <2>3 DEF PipeTypes, KeepsBut
    <2>7. \A q \in Pipe!Process \ {p} : pipe_at'[q] = pipe_at[q] /\ fds'[q] = fds[q]
        BY <2>2, <2>3 DEF PipeTypes
    <2>8. pipe_at'[p].fn = pipe_at[p].fn /\ pipe_at'[p].ln = Ln(p) + 1
        BY <2>2 DEF PipeTypes, In, Ln
    <2> QED BY <1>1, <2>4, <2>5, <2>6, <2>7, <2>8 DEF Moves
<1> QED BY <1>1, <1>2

\* What does not move keeps what it holds.
LEMMA TableStays ==
    ASSUME NEW p, UNCHANGED <<pipe_at[p], fds[p]>>, Table(p) PROVE Table(p)'
<1> USE DEF Holds, Ln, Since, Until
<1>1. /\ NoPipeTable(p) => NoPipeTable(p)'
      /\ OverTable(p) => OverTable(p)'
      /\ BcTable(p) => BcTable(p)'
      /\ BeBcTable(p) => BeBcTable(p)'
      /\ BeDcTable(p) => BeDcTable(p)'
      /\ DcTable(p) => DcTable(p)'
    BY DEF NoPipeTable, OverTable, BcTable, BeBcTable, BeDcTable, DcTable
<1>2. /\ DemoTable(p) => DemoTable(p)'
      /\ Demo2ChildTable(p) => Demo2ChildTable(p)'
      /\ Demo3Table(p) => Demo3Table(p)'
      /\ Demo3ChildTable(p) => Demo3ChildTable(p)'
    BY DEF DemoTable, Demo2ChildTable, Demo3Table, Demo3ChildTable
<1>3. /\ Demo4Table(p) => Demo4Table(p)'
      /\ Demo4ChildTable(p) => Demo4ChildTable(p)'
      /\ PopenTable(p) => PopenTable(p)'
      /\ ReaderTable(p) => ReaderTable(p)'
      /\ WriterTable(p) => WriterTable(p)'
    BY DEF Demo4Table, Demo4ChildTable, PopenTable, ReaderTable, WriterTable
<1>4. \A fn : In(p, fn)' = In(p, fn)
    BY DEF In
<1> QED BY <1>1, <1>2, <1>3, <1>4 DEF Table

\* A step that moves no message keeps the types of the data.
LEMMA SameDataTypes ==
    ASSUME PipeTypes, NEW p, NEW fn, NEW ln, Moves(p, fn, ln), SameData PROVE PipeTypes'
BY DEF PipeTypes, Moves, SameData

\* A process that ends, and one that is killed.
LEMMA Ending ==
    ASSUME PipeTypes, NEW p \in Pipe!Process, NEW how \in {"done", "dead"}, Pipe!End(p, how), SameData
    PROVE  PipeTypes' /\ Table(p)' /\ Moves(p, how, 0)
BY EndIs, SameDataTypes

LEMMA Dying ==
    ASSUME PipeTypes, NEW p \in Pipe!Process, Pipe!Dies(p)
    PROVE  PipeTypes' /\ Table(p)' /\ Moves(p, "dead", 0) /\ SameData
<1>1. UNCHANGED <<program, Pipe!messages>> /\ Pipe!End(p, "dead")
    BY DEF Pipe!Dies
<1>2. SameData
    BY <1>1 DEF SameData, Pipe!messages
<1> QED BY <1>1, <1>2, Ending

\* exit, and oops, in any function.
LEMMA Exits ==
    ASSUME PipeTypes, NEW p \in Pipe!Process, PipeStep(p), ~ Pipe!Dies(p),
           Pipe!Calls(p).call = "exit"
    PROVE  PipeTypes' /\ Table(p)' /\ Moves(p, "done", 0) /\ SameData
<1>1. Pipe!DoExit(p)
    BY ActsAs
<1>2. UNCHANGED <<program, Pipe!messages>> /\ Pipe!End(p, "done")
    BY <1>1 DEF Pipe!DoExit, Pipe!Does
<1>3. SameData
    BY <1>2 DEF SameData, Pipe!messages
<1> QED BY <1>2, <1>3, Ending

LEMMA GoesOops ==
    ASSUME PipeTypes, NEW p \in Pipe!Process, PipeStep(p), ~ Pipe!Dies(p),
           Pipe!Calls(p).call = "oops"
    PROVE  PipeTypes' /\ Table(p)' /\ Moves(p, "dead", 0) /\ SameData
<1>1. Pipe!DoExit(p)
    BY ActsAs
<1>2. UNCHANGED <<program, Pipe!messages>> /\ Pipe!End(p, "dead")
    BY <1>1 DEF Pipe!DoExit, Pipe!Does
<1>3. SameData
    BY <1>2 DEF SameData, Pipe!messages
<1> QED BY <1>2, <1>3, Ending

\* pipe fills two descriptors, or fails.
LEMMA MakesPipes ==
    ASSUME PipeTypes, NEW p \in Pipe!Process, PipeStep(p), ~ Pipe!Dies(p),
           NEW ids, Pipe!Calls(p) = Pipe!MakePipes(ids), Ln(p) = 1,
           fds[p]["in"] = Tty, fds[p]["out"] = Tty
    PROVE  /\ PipeTypes' /\ SameData
           /\ \/ Moves(p, "dead", 0) /\ Table(p)'
              \/ /\ Moves(p, pipe_at[p].fn, 2)
                 /\ 1 \in ids => Holds(p, Tty, Tty, R(0), W(0), R(1), W(1))'
                 /\ 1 \notin ids => Holds(p, Tty, Tty, R(0), W(0), Off, Off)'
<1>1. Pipe!DoPipe(p) /\ Pipe!Calls(p).ids = ids
    BY ActsAs DEF Pipe!MakePipes
<1>2. SameData
    BY <1>1 DEF Pipe!DoPipe, SameData, Pipe!messages
<1>3. CASE Pipe!End(p, "dead")
    BY <1>2, <1>3, Ending
<1>4. CASE ~ Pipe!End(p, "dead")
    <2> DEFINE r1 == IF 1 \in ids THEN R(1) ELSE Off
               w1 == IF 1 \in ids THEN W(1) ELSE Off
    <2>1. pipe_at' = [pipe_at EXCEPT ![p].ln = 2]
        BY <1>1, <1>4 DEF Pipe!DoPipe, Pipe!NextStep, Pipe!Goto, Ln
    <2>2. fds' = [fds EXCEPT ![p]["r0"] = R(0), ![p]["w0"] = W(0), ![p]["r1"] = r1, ![p]["w1"] = w1]
        BY <1>1, <1>4 DEF Pipe!DoPipe, R, W, Off
    <2>3. {R(0), W(0), r1, w1} \subseteq Pipe!Open
        BY PipeConstants DEF R, W, Off
    <2> HIDE DEF r1, w1
    <2>4. fds' \in [Pipe!Process -> [Pipe!Fd -> Pipe!Open]]
        BY <2>2, <2>3 DEF PipeTypes
    <2>5. pipe_at' \in [Pipe!Process -> [fn : Names, ln : Nat]]
        BY <2>1 DEF PipeTypes
    <2>6. \A q \in Pipe!Process \ {p} : pipe_at'[q] = pipe_at[q] /\ fds'[q] = fds[q]
        BY <2>1, <2>2 DEF PipeTypes
    <2>7. Moves(p, pipe_at[p].fn, 2)
        BY <2>1, <2>4, <2>5, <2>6 DEF PipeTypes, Moves, In, Ln
    <2>8. /\ fds'[p]["in"] = Tty /\ fds'[p]["out"] = Tty
          /\ fds'[p]["r0"] = R(0) /\ fds'[p]["w0"] = W(0)
          /\ fds'[p]["r1"] = r1 /\ fds'[p]["w1"] = w1
        <3>1. fds[p] \in [Pipe!Fd -> Pipe!Open] /\ p \in DOMAIN fds
            BY DEF PipeTypes
        <3>2. fds'[p] = [fds[p] EXCEPT !["r0"] = R(0), !["w0"] = W(0), !["r1"] = r1, !["w1"] = w1]
            BY <2>2, <3>1
        <3>3. Pipe!Fd = {"in", "out", "r0", "w0", "r1", "w1"}
            BY PipeConstants
        <3> QED BY <3>1, <3>2, <3>3
    <2>9. /\ 1 \in ids => Holds(p, Tty, Tty, R(0), W(0), R(1), W(1))'
          /\ 1 \notin ids => Holds(p, Tty, Tty, R(0), W(0), Off, Off)'
        BY <2>8 DEF Holds, r1, w1
    <2> QED BY <1>2, <2>7, <2>9, SameDataTypes
<1> QED BY <1>3, <1>4

\* fork gives the child the descriptors of the parent, or fails.
LEMMA Forks ==
    ASSUME PipeTypes, PipeStep(Parent), ~ Pipe!Dies(Parent),
           NEW fn \in Names, Pipe!Calls(Parent) = Pipe!Fork(fn)
    PROVE  /\ PipeTypes' /\ SameData
           /\ \/ Moves(Parent, "dead", 0) /\ Table(Parent)'
              \/ /\ pipe_at'[Parent].fn = pipe_at[Parent].fn /\ Ln(Parent)' = Ln(Parent) + 1
                 /\ In(Child, fn)' /\ Ln(Child)' = 1
                 /\ fds'[Parent] = fds[Parent] /\ fds'[Child] = fds[Parent]
<1> Parent \in Pipe!Process /\ Child \in Pipe!Process /\ Parent # Child
    BY PipeConstants
<1>1. Pipe!DoFork(Parent) /\ Pipe!Calls(Parent).fn = fn
    BY ActsAs DEF Pipe!Fork
<1>2. SameData
    BY <1>1 DEF Pipe!DoFork, SameData, Pipe!messages
<1>3. CASE Pipe!End(Parent, "dead")
    BY <1>2, <1>3, Ending
<1>4. CASE ~ Pipe!End(Parent, "dead")
    <2>1. /\ pipe_at' = [pipe_at EXCEPT ![Parent].ln = Ln(Parent) + 1, ![Child] = [fn |-> fn, ln |-> 1]]
          /\ fds' = [fds EXCEPT ![Child] = fds[Parent]]
        BY <1>1, <1>4 DEF Pipe!DoFork, Ln, Child
    <2>2. pipe_at' \in [Pipe!Process -> [fn : Names, ln : Nat]]
        <3>1. [fn |-> fn, ln |-> 1] \in [fn : Names, ln : Nat] /\ Ln(Parent) + 1 \in Nat
            BY DEF PipeTypes, Ln
        <3> QED BY <2>1, <3>1 DEF PipeTypes
    <2>3. fds' \in [Pipe!Process -> [Pipe!Fd -> Pipe!Open]]
        BY <2>1 DEF PipeTypes
    <2>4. PipeTypes'
        BY <1>2, <2>2, <2>3 DEF PipeTypes, SameData
    <2>5. pipe_at'[Parent].fn = pipe_at[Parent].fn /\ Ln(Parent)' = Ln(Parent) + 1
        BY <2>1 DEF PipeTypes, In, Ln
    <2>6. In(Child, fn)' /\ Ln(Child)' = 1
        BY <2>1 DEF PipeTypes, In, Ln
    <2> QED BY <1>2, <2>1, <2>4, <2>5, <2>6 DEF PipeTypes
<1> QED BY <1>3, <1>4

\* The calls that only go on: exec, a call of a function, close, dup2, fdopen,
\* the end of a loop, and wait.
LEMMA Execs ==
    ASSUME PipeTypes, NEW p \in Pipe!Process, PipeStep(p), ~ Pipe!Dies(p),
           NEW fn \in Names, Pipe!Calls(p) = Pipe!Exec(fn)
    PROVE  /\ PipeTypes' /\ SameData /\ KeepsBut(p, {})
           /\ Moves(p, fn, 1) \/ Moves(p, pipe_at[p].fn, Ln(p) + 1)
<1>1. Pipe!DoExec(p) /\ Pipe!Calls(p).fn = fn
    BY ActsAs DEF Pipe!Exec
<1>2. SameData /\ UNCHANGED fds
    BY <1>1 DEF Pipe!DoExec, SameData, Pipe!messages
<1>3. Pipe!Enter(p, fn) \/ Pipe!Goto(p, Ln(p) + 1)
    BY <1>1 DEF Pipe!DoExec, Pipe!NextStep, Ln
<1>4. Ln(p) + 1 \in Nat
    BY DEF PipeTypes, Ln
<1> QED BY <1>2, <1>3, <1>4, EnterIs, GotoIs, SameDataTypes

LEMMA EntersFunction ==
    ASSUME PipeTypes, NEW p \in Pipe!Process, PipeStep(p), ~ Pipe!Dies(p),
           NEW fn \in Names, Pipe!Calls(p) = Pipe!Call(fn)
    PROVE  PipeTypes' /\ SameData /\ KeepsBut(p, {}) /\ Moves(p, fn, 1)
<1>1. Pipe!DoCall(p) /\ Pipe!Calls(p).fn = fn
    BY ActsAs DEF Pipe!Call
<1>2. SameData /\ UNCHANGED fds /\ Pipe!Enter(p, fn)
    BY <1>1 DEF Pipe!DoCall, SameData, Pipe!messages
<1> QED BY <1>2, EnterIs, SameDataTypes

LEMMA Closes ==
    ASSUME PipeTypes, NEW p \in Pipe!Process, PipeStep(p), ~ Pipe!Dies(p),
           NEW f \in Pipe!Fd, Pipe!Calls(p) = Pipe!Close(f)
    PROVE  /\ PipeTypes' /\ SameData /\ KeepsBut(p, {f}) /\ fds'[p][f] = Off
           /\ Moves(p, pipe_at[p].fn, Ln(p) + 1)
<1>1. Pipe!DoClose(p) /\ Pipe!Calls(p).fd = f
    BY ActsAs DEF Pipe!Close
<1> QED BY <1>1, CloseIs, SameDataTypes DEF Off

LEMMA Dups ==
    ASSUME PipeTypes, NEW p \in Pipe!Process, PipeStep(p), ~ Pipe!Dies(p),
           NEW f \in Pipe!Fd, NEW g \in Pipe!Fd, Pipe!Calls(p) = Pipe!Dup2(f, g)
    PROVE  /\ PipeTypes' /\ SameData
           /\ \/ Moves(p, "dead", 0) /\ Table(p)'
              \/ /\ Moves(p, pipe_at[p].fn, Ln(p) + 1) /\ KeepsBut(p, {g})
                 /\ fds'[p][g] = fds[p][f]
<1>1. Pipe!DoDup2(p) /\ Pipe!Calls(p).fd = f /\ Pipe!Calls(p).to = g
    BY ActsAs DEF Pipe!Dup2
<1>2. CASE Pipe!End(p, "dead")
    BY <1>1, <1>2, Dup2Is, Ending
<1>3. CASE ~ Pipe!End(p, "dead")
    BY <1>1, <1>3, Dup2Is, SameDataTypes
<1> QED BY <1>2, <1>3

LEMMA Fdopens ==
    ASSUME PipeTypes, NEW p \in Pipe!Process, PipeStep(p), ~ Pipe!Dies(p),
           Pipe!Calls(p).call = "fdopen"
    PROVE  /\ PipeTypes' /\ SameData
           /\ \/ Moves(p, "dead", 0) /\ Table(p)'
              \/ Moves(p, pipe_at[p].fn, Ln(p) + 1) /\ KeepsBut(p, {})
<1>1. Pipe!DoFdopen(p)
    BY ActsAs
<1>2. SameData
    BY <1>1 DEF Pipe!DoFdopen, SameData, Pipe!messages
<1>3. CASE Pipe!End(p, "dead")
    BY <1>2, <1>3, Ending
<1>4. CASE ~ Pipe!End(p, "dead")
    <2>1. Pipe!Goto(p, Ln(p) + 1) /\ UNCHANGED fds
        BY <1>1, <1>4 DEF Pipe!DoFdopen, Pipe!NextStep, Ln
    <2>2. Ln(p) + 1 \in Nat
        BY DEF PipeTypes, Ln
    <2> QED BY <1>2, <2>1, <2>2, GotoIs, SameDataTypes
<1> QED BY <1>3, <1>4

LEMMA Wraps ==
    ASSUME PipeTypes, NEW p \in Pipe!Process, PipeStep(p), ~ Pipe!Dies(p),
           NEW short \in Nat, NEW long \in Nat, Pipe!Calls(p) = Pipe!Wrap(short, long)
    PROVE  /\ PipeTypes' /\ SameData /\ KeepsBut(p, {})
           /\ Moves(p, pipe_at[p].fn, short) \/ Moves(p, pipe_at[p].fn, long)
<1>1. /\ Pipe!DoWrap(p) /\ Pipe!Calls(p).short = short /\ Pipe!Calls(p).long = long
    BY ActsAs DEF Pipe!Wrap
<1>2. SameData /\ UNCHANGED fds
    BY <1>1 DEF Pipe!DoWrap, SameData, Pipe!messages
<1>3. Pipe!Goto(p, short) \/ Pipe!Goto(p, long)
    BY <1>1 DEF Pipe!DoWrap
<1> QED BY <1>2, <1>3, GotoIs, SameDataTypes

LEMMA WaitsFor ==
    ASSUME PipeTypes, NEW p \in Pipe!Process, PipeStep(p), ~ Pipe!Dies(p),
           Pipe!Calls(p).call = "wait"
    PROVE  /\ PipeTypes' /\ SameData /\ KeepsBut(p, {})
           /\ Over(Child) /\ Moves(p, pipe_at[p].fn, Ln(p) + 1)
<1>1. Pipe!DoWait(p)
    BY ActsAs
<1>2. SameData /\ UNCHANGED fds /\ Pipe!Goto(p, Ln(p) + 1) /\ Over(Child)
    BY <1>1 DEF Pipe!DoWait, SameData, Pipe!messages, Pipe!NextStep, Ln, Pipe!Gone, Over, Child
<1>3. Ln(p) + 1 \in Nat
    BY DEF PipeTypes, Ln
<1> QED BY <1>2, <1>3, GotoIs, SameDataTypes

----------------------------------------------------------------------------
(* The calls that move messages.                                            *)

Messages == Seq(Pipe!Message)

\* A history with one more message.
LEMMA RecordIs ==
    ASSUME NEW h \in Messages, NEW m \in Messages, NEW b \in Nat, Len(h) + Len(m) <= b
    PROVE  Pipe!Record(h, m, b) = h \o m
<1>1. h \o m \in Messages /\ Len(h \o m) = Len(h) + Len(m)
    BY DEF Messages
<1>2. Pipe!Record(h, m, b) = SubSeq(h \o m, 1, Len(h \o m))
    <2>1. CASE Len(h \o m) < b
        BY <2>1 DEF Pipe!Record
    <2>2. CASE ~ Len(h \o m) < b
        <3>1. Len(h \o m) = b
            BY <1>1, <2>2 DEF Messages
        <3> QED BY <3>1 DEF Pipe!Record
    <2> QED BY <2>1, <2>2
<1> QED BY <1>1, <1>2 DEF Messages

\* A history never grows beyond its bound, and is a sequence of messages.
LEMMA RecordType ==
    ASSUME NEW h \in Messages, NEW m \in Messages, NEW b \in Nat
    PROVE  Pipe!Record(h, m, b) \in Messages
<1>1. h \o m \in Messages /\ Len(h \o m) = Len(h) + Len(m) /\ Len(h \o m) \in Nat
    BY DEF Messages
<1>2. PICK n \in 0 .. Len(h \o m) : Pipe!Record(h, m, b) = SubSeq(h \o m, 1, n)
    <2>1. CASE Len(h \o m) < b
        BY <1>1, <2>1 DEF Pipe!Record
    <2>2. CASE ~ Len(h \o m) < b
        BY <1>1, <2>2 DEF Pipe!Record
    <2> QED BY <2>1, <2>2
<1> QED BY <1>1, <1>2 DEF Messages

\* What is written comes last on the way; what is read was first on it.
LEMMA FlowWrite ==
    ASSUME NEW s \in Messages, NEW g \in Messages, NEW w \in Messages, NEW m \in Pipe!Message,
           Flow(s, g, w)
    PROVE  Flow(Append(s, m), g, Append(w, m))
<1> DEFINE t == Append(s, m)
           x == Append(w, m)
<1>1. /\ Len(t) = Len(s) + 1 /\ t[Len(s) + 1] = m /\ \A j \in 1 .. Len(s) : t[j] = s[j]
      /\ Len(x) = Len(w) + 1 /\ x[Len(w) + 1] = m /\ \A j \in 1 .. Len(w) : x[j] = w[j]
      /\ Len(s) \in Nat /\ Len(w) \in Nat /\ Len(g) \in Nat
    BY DEF Messages
<1> HIDE DEF t, x
<1>2. Len(t) = Len(g) + Len(x)
    BY <1>1 DEF Flow
<1>3. ASSUME NEW j \in 1 .. Len(g) PROVE g[j] = t[j]
    BY <1>1 DEF Flow
<1>4. ASSUME NEW j \in 1 .. Len(x) PROVE x[j] = t[Len(g) + j]
    <2>1. CASE j \in 1 .. Len(w)
        BY <1>1, <2>1 DEF Flow
    <2>2. CASE j = Len(w) + 1
        BY <1>1, <2>2 DEF Flow
    <2> QED BY <1>1, <2>1, <2>2
<1> QED BY <1>2, <1>3, <1>4 DEF Flow, t, x

LEMMA FlowRead ==
    ASSUME NEW s \in Messages, NEW g \in Messages, NEW w \in Messages, NEW n \in 1 .. Len(w),
           Flow(s, g, w)
    PROVE  Flow(s, g \o SubSeq(w, 1, n), SubSeq(w, n + 1, Len(w)))
<1> DEFINE a == SubSeq(w, 1, n)
           b == SubSeq(w, n + 1, Len(w))
<1>1. /\ a \in Messages /\ Len(a) = n /\ \A j \in 1 .. n : a[j] = w[j]
      /\ b \in Messages /\ Len(b) = Len(w) - n /\ \A j \in 1 .. Len(w) - n : b[j] = w[n + j]
    BY DEF Messages
<1> HIDE DEF a, b
<1>2. /\ g \o a \in Messages /\ Len(g \o a) = Len(g) + n
      /\ \A j \in 1 .. Len(g) : (g \o a)[j] = g[j]
      /\ \A j \in Len(g) + 1 .. Len(g) + n : (g \o a)[j] = a[j - Len(g)]
    <2>1. g \o a \in Messages /\ Len(g \o a) = Len(g) + Len(a)
        BY <1>1, ConcatProperties DEF Messages
    <2>2. \A j \in 1 .. Len(g) + Len(a) :
              (g \o a)[j] = IF j <= Len(g) THEN g[j] ELSE a[j - Len(g)]
        BY <1>1 DEF Messages
    <2>3. Len(g) \in Nat /\ Len(a) = n /\ n \in Nat
        BY <1>1 DEF Messages
    <2> HIDE DEF Messages
    <2> QED BY <2>1, <2>2, <2>3
<1>3. Len(s) = Len(g \o a) + Len(b)
    BY <1>1, <1>2 DEF Flow, Messages
<1>4. ASSUME NEW j \in 1 .. Len(g \o a) PROVE (g \o a)[j] = s[j]
    <2>1. CASE j <= Len(g)
        BY <1>2, <2>1 DEF Flow, Messages
    <2>2. CASE j > Len(g)
        <3>1. j - Len(g) \in 1 .. n /\ j - Len(g) \in 1 .. Len(w)
            BY <1>2, <2>2 DEF Messages
        <3>2. (g \o a)[j] = w[j - Len(g)] /\ w[j - Len(g)] = s[Len(g) + (j - Len(g))]
            <4>1. j \in Len(g) + 1 .. Len(g) + n /\ Len(g) \in Nat
                BY <1>2, <2>2 DEF Messages
            <4> QED BY <1>1, <1>2, <3>1, <4>1 DEF Flow
        <3> QED BY <3>2 DEF Messages
    <2> QED BY <1>2, <2>1, <2>2 DEF Messages
<1>5. ASSUME NEW j \in 1 .. Len(b) PROVE b[j] = s[Len(g \o a) + j]
    <2>1. n + j \in 1 .. Len(w) /\ b[j] = w[n + j]
        BY <1>1 DEF Messages
    <2>2. w[n + j] = s[Len(g) + (n + j)]
        BY <2>1 DEF Flow
    <2> QED BY <1>2, <2>1, <2>2 DEF Messages
<1> QED BY <1>3, <1>4, <1>5 DEF Flow, a, b

\* The next message of who numbers its messages.
LEMMA NumberedGrows ==
    ASSUME NEW s \in Messages, NEW m \in Pipe!Message, Numbered(s),
           m.no = Len(s) + 1, m.part = 1
    PROVE  Numbered(Append(s, m))
BY DEF Messages, Numbered

\* To take the first n messages of w \o v, n at most Len(w), leaves v alone.
LEMMA ReadBefore ==
    ASSUME NEW w \in Messages, NEW v \in Messages, NEW n \in 1 .. Len(w)
    PROVE  /\ SubSeq(w \o v, 1, n) = SubSeq(w, 1, n) /\ n \in 1 .. Len(w \o v)
           /\ SubSeq(w \o v, n + 1, Len(w \o v)) = SubSeq(w, n + 1, Len(w)) \o v
<1> DEFINE b == SubSeq(w, n + 1, Len(w))
           x == w \o v
<1>1. /\ x \in Messages /\ Len(x) = Len(w) + Len(v)
      /\ \A j \in 1 .. Len(w) + Len(v) : x[j] = IF j <= Len(w) THEN w[j] ELSE v[j - Len(w)]
      /\ Len(w) \in Nat /\ Len(v) \in Nat /\ n \in Nat
    BY ConcatProperties DEF Messages
<1>2. /\ b \in Messages /\ Len(b) = Len(w) - n
      /\ \A j \in 1 .. Len(w) - n : b[j] = w[n + j]
    BY DEF Messages
<1>3. /\ b \o v \in Messages /\ Len(b \o v) = Len(w) - n + Len(v)
      /\ \A j \in 1 .. Len(w) - n + Len(v) :
            (b \o v)[j] = IF j <= Len(w) - n THEN b[j] ELSE v[j - (Len(w) - n)]
    BY <1>1, <1>2, ConcatProperties DEF Messages
<1> HIDE DEF b, x
<1>4. SubSeq(x, 1, n) = SubSeq(w, 1, n)
    BY <1>1 DEF Messages
<1>5. SubSeq(x, n + 1, Len(x)) = b \o v
    <2> DEFINE y == SubSeq(x, n + 1, Len(x))
    <2>1. /\ y \in Messages /\ Len(y) = Len(x) - n
          /\ \A j \in 1 .. Len(x) - n : y[j] = x[n + j]
        BY <1>1 DEF Messages
    <2> HIDE DEF y
    <2>2. ASSUME NEW j \in 1 .. Len(x) - n PROVE x[n + j] = (b \o v)[j]
        <3>1. /\ j \in 1 .. Len(w) - n + Len(v) /\ n + j \in 1 .. Len(w) + Len(v)
              /\ n + j <= Len(w) <=> j <= Len(w) - n
              /\ n + j - Len(w) = j - (Len(w) - n)
            BY <1>1
        <3>2. x[n + j] = IF n + j <= Len(w) THEN w[n + j] ELSE v[n + j - Len(w)]
            BY <1>1, <3>1
        <3>3. (b \o v)[j] = IF j <= Len(w) - n THEN b[j] ELSE v[j - (Len(w) - n)]
            BY <1>3, <3>1
        <3>4. j <= Len(w) - n => b[j] = w[n + j]
            <4>1. j <= Len(w) - n => j \in 1 .. Len(w) - n
                BY <1>1, <3>1
            <4> QED BY <1>2, <4>1
        <3> QED BY <3>1, <3>2, <3>3, <3>4
    <2>3. Len(y) = Len(b \o v)
        BY <1>1, <1>3, <2>1
    <2>4. \A j \in 1 .. Len(y) : y[j] = (b \o v)[j]
        BY <2>1, <2>2
    <2>5. y = b \o v
        BY <1>3, <2>1, <2>3, <2>4, SeqEqual DEF Messages
    <2> QED BY <2>5 DEF y
<1>6. n \in 1 .. Len(x)
    BY <1>1
<1> QED BY <1>4, <1>5, <1>6 DEF b, x

\* To append to what follows is to append to the whole.
LEMMA AppendBehind ==
    ASSUME NEW w \in Messages, NEW v \in Messages, NEW m \in Pipe!Message
    PROVE  w \o Append(v, m) = Append(w \o v, m)
BY ConcatAssociative, AppendProperties DEF Messages

\* The next message of p.
LEMMA ItsType ==
    ASSUME PipeTypes, NEW p \in Pipe!Process, NEW answer \in BOOLEAN, answer => got[p] # <<>>
    PROVE  /\ Pipe!Its(p, answer) \in Pipe!Message
           /\ ~ answer => Pipe!Its(p, answer).no = Len(sent[p]) + 1 /\ Pipe!Its(p, answer).part = 1
           /\ answer => /\ Pipe!Its(p, answer).no = got[p][Len(got[p])].no
                        /\ Pipe!Its(p, answer).part =
                              IF \E j \in DOMAIN sent[p] : sent[p][j].no = got[p][Len(got[p])].no
                              THEN 2 ELSE 1
<1>1. sent[p] \in Seq(Pipe!Message) /\ got[p] \in Seq(Pipe!Message)
    BY DEF PipeTypes
<1>2. CASE answer
    <2>1. got[p][Len(got[p])] \in Pipe!Message
        BY <1>1, <1>2
    <2> QED BY <1>2, <2>1 DEF Pipe!Its, Pipe!Message
<1>3. CASE ~ answer
    BY <1>1, <1>3 DEF Pipe!Its, Pipe!Message
<1> QED BY <1>2, <1>3

\* A step that moves one message keeps the types.
LEMMA Types ==
    ASSUME PipeTypes, NEW p, NEW fn, NEW ln, NEW j \in {0, 1}, NEW q \in Pipe!Process,
           NEW w \in Messages, Len(w) <= PipeSize, NEW v \in Messages, NEW s \in Messages,
           NEW g \in Messages, Moves(p, fn, ln),
           pipe' = pipe \/ pipe' = [pipe EXCEPT ![j] = w], buf' = buf \/ buf' = v,
           typed' = typed \/ (typed < MaxLines /\ typed' = typed + 1),
           sent' = sent \/ sent' = [sent EXCEPT ![q] = s],
           got' = got \/ got' = [got EXCEPT ![q] = g]
    PROVE  PipeTypes'
<1>1. pipe' \in [Pipe!Pipe -> Messages] /\ \A k \in Pipe!Pipe : Len(pipe'[k]) <= PipeSize
    <2>1. pipe \in [Pipe!Pipe -> Messages] /\ \A k \in Pipe!Pipe : Len(pipe[k]) <= PipeSize
        BY DEF PipeTypes, Messages
    <2> QED BY <2>1
<1>2. buf' \in Messages /\ typed' \in 0 .. MaxLines
    <2>1. buf \in Messages
        BY DEF PipeTypes, Messages
    <2>2. typed \in 0 .. MaxLines /\ MaxLines \in Nat
        BY PipeConstants DEF PipeTypes
    <2> QED BY <2>1, <2>2
<1>3. sent' \in [Pipe!Process -> Messages] /\ got' \in [Pipe!Process -> Messages]
    BY DEF PipeTypes, Messages
<1> QED BY <1>1, <1>2, <1>3 DEF PipeTypes, Messages, Moves

\* A line is typed, or the user has ended.
LEMMA TypesALine ==
    ASSUME PipeTypes, NEW p \in Pipe!Process, PipeStep(p), ~ Pipe!Dies(p),
           NEW line \in Nat, NEW error \in Nat, NEW eof \in Nat,
           Pipe!Calls(p) = Pipe!Typed(line, error, eof)
    PROVE  /\ PipeTypes' /\ KeepsBut(p, {}) /\ UNCHANGED <<program, pipe, buf, sent, got>>
           /\ \/ /\ typed' = typed + 1
                 /\ Moves(p, pipe_at[p].fn, line) \/ Moves(p, pipe_at[p].fn, error)
              \/ typed' = typed /\ Moves(p, pipe_at[p].fn, eof)
<1>1. /\ Pipe!DoTyped(p) /\ Pipe!Calls(p).line = line /\ Pipe!Calls(p).error = error
      /\ Pipe!Calls(p).eof = eof
    BY ActsAs DEF Pipe!Typed
<1>2. UNCHANGED <<program, fds, pipe, buf, sent, got>>
    BY <1>1 DEF Pipe!DoTyped
<1>3. \/ /\ typed < MaxLines /\ typed' = typed + 1
         /\ Pipe!Goto(p, line) \/ Pipe!Goto(p, error)
      \/ typed' = typed /\ Pipe!Goto(p, eof)
    BY <1>1 DEF Pipe!DoTyped
<1>4. KeepsBut(p, {})
    BY <1>2 DEF KeepsBut
<1>5. \/ /\ typed < MaxLines /\ typed' = typed + 1
         /\ Moves(p, pipe_at[p].fn, line) \/ Moves(p, pipe_at[p].fn, error)
      \/ typed' = typed /\ Moves(p, pipe_at[p].fn, eof)
    BY <1>2, <1>3, GotoIs
<1>6. typed' \in 0 .. MaxLines
    <2>1. typed' = typed \/ (typed < MaxLines /\ typed' = typed + 1)
        BY <1>3
    <2>2. typed \in 0 .. MaxLines /\ MaxLines \in Nat
        BY PipeConstants DEF PipeTypes
    <2> QED BY <2>1, <2>2
<1>7. pipe_at' \in [Pipe!Process -> [fn : Names, ln : Nat]]
    BY <1>5 DEF Moves
<1>8. PipeTypes'
    BY <1>2, <1>6, <1>7 DEF PipeTypes
<1> QED BY <1>2, <1>4, <1>5, <1>8

\* p puts its next message into the buffer of its stream.
Buffers(p) ==
    \E m \in Pipe!Message : /\ m.no = Len(sent[p]) + 1 /\ m.part = 1
                            /\ buf' = Append(buf, m)
                            /\ sent' = [sent EXCEPT ![p] = Append(@, m)]

LEMMA Fprintfs ==
    ASSUME PipeTypes, NEW p \in Pipe!Process, PipeStep(p), ~ Pipe!Dies(p),
           Pipe!Calls(p).call = "fprintf", Len(sent[p]) < Pipe!MaxGot
    PROVE  /\ PipeTypes' /\ KeepsBut(p, {}) /\ UNCHANGED <<program, pipe, typed, got>>
           /\ Moves(p, pipe_at[p].fn, Ln(p) + 1)
           /\ Buffers(p)
<1> DEFINE m == Pipe!Its(p, FALSE)
<1>1. Pipe!DoFprintf(p)
    BY ActsAs
<1>2. m \in Pipe!Message /\ m.no = Len(sent[p]) + 1 /\ m.part = 1
    BY ItsType
<1>3. /\ UNCHANGED <<program, fds, pipe, typed, got>> /\ Pipe!Goto(p, Ln(p) + 1)
      /\ buf' = Append(buf, m) /\ Pipe!Sends(p, m)
    BY <1>1 DEF Pipe!DoFprintf, Pipe!NextStep, Ln
<1> HIDE DEF m
<1>4. sent[p] \in Messages /\ buf \in Messages /\ Pipe!MaxGot \in Nat /\ Ln(p) + 1 \in Nat
    BY PipeConstants DEF PipeTypes, Messages, Pipe!MaxGot, Ln
<1>5. Pipe!Record(sent[p], <<m>>, Pipe!MaxGot) = Append(sent[p], m)
    <2>1. <<m>> \in Messages /\ Len(<<m>>) = 1 /\ Len(sent[p]) \in Nat
        BY <1>2, <1>4 DEF Messages
    <2>2. Len(sent[p]) + Len(<<m>>) <= Pipe!MaxGot
        BY <1>4, <2>1
    <2>3. Pipe!Record(sent[p], <<m>>, Pipe!MaxGot) = sent[p] \o <<m>>
        BY <1>4, <2>1, <2>2, RecordIs
    <2> QED BY <1>2, <1>4, <2>3, AppendIsConcat DEF Messages
<1>6. sent' = [sent EXCEPT ![p] = Append(@, m)]
    BY <1>3, <1>5 DEF Pipe!Sends
<1>7. Append(sent[p], m) \in Messages /\ Append(buf, m) \in Messages
    BY <1>2, <1>4, AppendProperties DEF Messages
<1>8. Moves(p, pipe_at[p].fn, Ln(p) + 1) /\ KeepsBut(p, {})
    BY <1>3, <1>4, GotoIs
<1>9. PipeTypes'
    BY <1>3, <1>6, <1>7, <1>8 DEF PipeTypes, Moves, Messages
<1>10. Buffers(p)
    BY <1>2, <1>3, <1>6 DEF Buffers
<1> QED BY <1>3, <1>8, <1>9, <1>10

\* p puts m into pipe j; p takes up to most messages out of it.
Puts(p, j, m) ==
    /\ pipe' = [pipe EXCEPT ![j] = Append(@, m)]
    /\ \E s \in Messages : /\ sent' = [sent EXCEPT ![p] = s]
                           /\ Len(sent[p]) < Pipe!MaxGot => s = Append(sent[p], m)

Takes(p, j, most) ==
    \E n \in 1 .. Len(pipe[j]), g \in Messages :
        /\ n <= most
        /\ pipe' = [pipe EXCEPT ![j] = SubSeq(@, n + 1, Len(@))]
        /\ got' = [got EXCEPT ![p] = g]
        /\ Len(got[p]) + n <= Pipe!MaxGot => g = got[p] \o SubSeq(pipe[j], 1, n)

\* A message goes into a pipe.
LEMMA SendsIs ==
    ASSUME PipeTypes, NEW p \in Pipe!Process, NEW m \in Pipe!Message, Pipe!Sends(p, m)
    PROVE  \E s \in Messages : /\ sent' = [sent EXCEPT ![p] = s]
                               /\ Len(sent[p]) < Pipe!MaxGot => s = Append(sent[p], m)
<1> DEFINE s == Pipe!Record(sent[p], <<m>>, Pipe!MaxGot)
<1>1. sent[p] \in Messages /\ <<m>> \in Messages /\ Len(<<m>>) = 1 /\ Pipe!MaxGot \in Nat
    BY PipeConstants DEF PipeTypes, Messages, Pipe!MaxGot
<1>2. s \in Messages
    BY <1>1, RecordType
<1>3. ASSUME Len(sent[p]) < Pipe!MaxGot PROVE s = Append(sent[p], m)
    <2>1. Len(sent[p]) \in Nat
        BY <1>1 DEF Messages
    <2>2. Len(sent[p]) + Len(<<m>>) <= Pipe!MaxGot
        BY <1>1, <1>3, <2>1
    <2>3. s = sent[p] \o <<m>>
        BY <1>1, <2>2, RecordIs
    <2> QED BY <1>1, <2>3, AppendIsConcat DEF Messages
<1>4. sent' = [sent EXCEPT ![p] = s]
    BY DEF Pipe!Sends
<1> HIDE DEF s
<1> QED BY <1>2, <1>3, <1>4

\* fflush sends the buffer, write one message.
LEMMA Fflushes ==
    ASSUME PipeTypes, NEW p \in Pipe!Process, PipeStep(p), ~ Pipe!Dies(p),
           NEW f \in Pipe!Fd, NEW j \in {0, 1}, Pipe!Calls(p) = Pipe!Fflush(f),
           fds[p][f] = W(j)
    PROVE  /\ PipeTypes' /\ UNCHANGED <<program, typed, sent, got>>
           /\ \/ Moves(p, "dead", 0) /\ Table(p)' /\ UNCHANGED <<pipe, buf>>
              \/ /\ Moves(p, pipe_at[p].fn, Ln(p) + 1) /\ KeepsBut(p, {})
                 /\ pipe' = [pipe EXCEPT ![j] = @ \o buf] /\ buf' = <<>>
<1>1. Pipe!DoFflush(p) /\ Pipe!Calls(p).fd = f /\ fds[p][f][1] = j
    BY ActsAs, EndsDiffer DEF Pipe!Fflush, W
<1>2. UNCHANGED <<program, typed, sent, got>>
    BY <1>1 DEF Pipe!DoFflush
<1>3. CASE Pipe!End(p, "dead") /\ UNCHANGED <<pipe, buf>>
    BY <1>2, <1>3, Ending DEF SameData
<1>4. CASE ~ (Pipe!End(p, "dead") /\ UNCHANGED <<pipe, buf>>)
    <2>1. /\ Len(pipe[j]) + Len(buf) <= PipeSize
          /\ pipe' = [pipe EXCEPT ![j] = pipe[j] \o buf] /\ buf' = <<>>
          /\ Pipe!Goto(p, Ln(p) + 1) /\ UNCHANGED fds
        BY <1>1, <1>4 DEF Pipe!DoFflush, Pipe!NextStep, Ln
    <2>2. pipe[j] \in Messages /\ buf \in Messages /\ Ln(p) + 1 \in Nat
        BY PipeConstants DEF PipeTypes, Messages, Ln
    <2>3. pipe[j] \o buf \in Messages /\ Len(pipe[j] \o buf) = Len(pipe[j]) + Len(buf)
        BY <2>2, ConcatProperties DEF Messages
    <2>4. Moves(p, pipe_at[p].fn, Ln(p) + 1) /\ KeepsBut(p, {})
        BY <2>1, <2>2, GotoIs
    <2>5. <<>> \in Messages
        BY DEF Messages
    <2>6. PipeTypes'
        <3> DEFINE w == pipe[j] \o buf
        <3>1. w \in Messages /\ Len(w) <= PipeSize /\ pipe' = [pipe EXCEPT ![j] = w]
            BY <2>1, <2>3
        <3> HIDE DEF w
        <3> QED BY <1>2, <2>1, <2>4, <2>5, <3>1, Types
    <2> QED BY <1>2, <2>1, <2>4, <2>6
<1> QED BY <1>3, <1>4

LEMMA WritesTo ==
    ASSUME PipeTypes, NEW p \in Pipe!Process, PipeStep(p), ~ Pipe!Dies(p),
           NEW f \in Pipe!Fd, NEW j \in {0, 1}, NEW next \in Nat, NEW answer \in BOOLEAN,
           Pipe!Calls(p) = [call |-> "write", fd |-> f, next |-> next, answer |-> answer],
           fds[p][f] = W(j), answer => got[p] # <<>>
    PROVE  /\ PipeTypes' /\ UNCHANGED <<program, buf, typed, got>>
           /\ \/ /\ Moves(p, "dead", 0) /\ Table(p)' /\ UNCHANGED <<pipe, sent>>
                 /\ Pipe!Holders(R(j)) = {}
              \/ /\ Moves(p, pipe_at[p].fn, next) /\ KeepsBut(p, {})
                 /\ Puts(p, j, Pipe!Its(p, answer))
<1> DEFINE m == Pipe!Its(p, answer)
<1>1. /\ Pipe!DoWrite(p) /\ Pipe!Calls(p).fd = f /\ Pipe!Calls(p).next = next
      /\ Pipe!Calls(p).answer = answer
    BY ActsAs
<1>2. UNCHANGED <<program, buf, typed, got>>
    BY <1>1 DEF Pipe!DoWrite
<1>3. fds[p][f][1] = j /\ fds[p][f][2] = "write" /\ fds[p][f] # Tty
    BY EndsDiffer DEF W, Tty
<1>4. CASE Pipe!End(p, "dead") /\ UNCHANGED <<pipe, sent>> /\ Pipe!Holders(R(j)) = {}
    BY <1>2, <1>4, Ending DEF SameData
<1>5. CASE ~ (Pipe!End(p, "dead") /\ UNCHANGED <<pipe, sent>> /\ Pipe!Holders(R(j)) = {})
    <2>1. /\ Len(pipe[j]) < PipeSize
          /\ pipe' = [pipe EXCEPT ![j] = Append(pipe[j], m)]
          /\ Pipe!Goto(p, next) /\ Pipe!Sends(p, m) /\ UNCHANGED fds
        BY <1>1, <1>3, <1>5 DEF Pipe!DoWrite, Tty, R
    <2>2. m \in Pipe!Message
        BY ItsType
    <2> HIDE DEF m
    <2>3. pipe[j] \in Messages /\ Len(pipe[j]) \in Nat
        BY PipeConstants DEF PipeTypes, Messages
    <2>4. Moves(p, pipe_at[p].fn, next) /\ KeepsBut(p, {})
        BY <2>1, GotoIs
    <2>5. PICK s \in Messages : /\ sent' = [sent EXCEPT ![p] = s]
                                /\ Len(sent[p]) < Pipe!MaxGot => s = Append(sent[p], m)
        BY <2>1, <2>2, SendsIs
    <2>6. PipeTypes'
        <3> DEFINE w == Append(pipe[j], m)
        <3>1. w \in Messages /\ Len(w) = Len(pipe[j]) + 1
            BY <2>2, <2>3, AppendProperties DEF Messages
        <3>2. w \in Messages /\ Len(w) <= PipeSize /\ pipe' = [pipe EXCEPT ![j] = w]
            BY <2>1, <2>3, <3>1, PipeConstants
        <3> HIDE DEF w
        <3> QED BY <1>2, <2>4, <2>5, <3>2, Types
    <2>7. Puts(p, j, m)
        BY <2>1, <2>5 DEF Puts
    <2> QED BY <1>2, <2>4, <2>6, <2>7 DEF m
<1> QED BY <1>4, <1>5

\* A sequence is its beginning and the rest of it.
LEMMA SplitIs ==
    ASSUME NEW w \in Messages, NEW n \in 1 .. Len(w)
    PROVE  /\ SubSeq(w, 1, n) \in Messages /\ Len(SubSeq(w, 1, n)) = n
           /\ SubSeq(w, n + 1, Len(w)) \in Messages
           /\ Len(SubSeq(w, n + 1, Len(w))) = Len(w) - n
BY DEF Messages

\* read takes the first messages, or there is nobody left who could write.
LEMMA Reads ==
    ASSUME PipeTypes, NEW p \in Pipe!Process, PipeStep(p), ~ Pipe!Dies(p),
           NEW f \in Pipe!Fd, NEW j \in {0, 1}, NEW line \in Nat, NEW eof \in Nat,
           NEW most \in Nat \ {0},
           Pipe!Calls(p) = [call |-> "read", fd |-> f, line |-> line, eof |-> eof, most |-> most],
           fds[p][f] = R(j)
    PROVE  /\ PipeTypes' /\ UNCHANGED <<program, buf, typed, sent>> /\ KeepsBut(p, {})
           /\ \/ /\ Moves(p, pipe_at[p].fn, eof) /\ UNCHANGED <<pipe, got>>
                 /\ pipe[j] = <<>> /\ Pipe!Holders(W(j)) = {}
              \/ Moves(p, pipe_at[p].fn, line) /\ Takes(p, j, most)
<1>1. /\ Pipe!DoRead(p) /\ Pipe!Calls(p).fd = f /\ Pipe!Calls(p).line = line
      /\ Pipe!Calls(p).eof = eof /\ Pipe!Calls(p).most = most
    BY ActsAs
<1>2. UNCHANGED <<program, fds, buf, typed, sent>>
    BY <1>1 DEF Pipe!DoRead
<1>3. fds[p][f][1] = j /\ fds[p][f][2] = "read"
    BY EndsDiffer DEF R
<1>4. pipe[j] \in Messages /\ got[p] \in Messages /\ Pipe!MaxGot \in Nat
    BY PipeConstants DEF PipeTypes, Messages, Pipe!MaxGot
<1>5. CASE /\ Pipe!Goto(p, eof) /\ UNCHANGED <<pipe, got>>
           /\ pipe[j] = <<>> /\ Pipe!Holders(W(j)) = {}
    <2>1. Moves(p, pipe_at[p].fn, eof) /\ KeepsBut(p, {})
        BY <1>2, <1>5, GotoIs
    <2>2. PipeTypes'
        BY <1>2, <1>5, <2>1, SameDataTypes DEF SameData
    <2> QED BY <1>2, <1>5, <2>1, <2>2
<1>6. CASE ~ /\ Pipe!Goto(p, eof) /\ UNCHANGED <<pipe, got>>
             /\ pipe[j] = <<>> /\ Pipe!Holders(W(j)) = {}
    <2>1. Pipe!Goto(p, line)
        BY <1>1, <1>3, <1>6 DEF Pipe!DoRead, W
    <2>2. PICK n \in 1 .. most :
              /\ n <= Len(pipe[j])
              /\ pipe' = [pipe EXCEPT ![j] = SubSeq(pipe[j], n + 1, Len(pipe[j]))]
              /\ got' = [got EXCEPT ![p] =
                            Pipe!Record(got[p], SubSeq(pipe[j], 1, n), Pipe!MaxGot)]
        BY <1>1, <1>3, <1>6 DEF Pipe!DoRead, W
    <2> DEFINE r == SubSeq(pipe[j], 1, n)
               w == SubSeq(pipe[j], n + 1, Len(pipe[j]))
               g == Pipe!Record(got[p], r, Pipe!MaxGot)
    <2>3. n \in 1 .. Len(pipe[j]) /\ n <= most /\ Len(pipe[j]) \in Nat /\ n \in Nat
        BY <1>4, <2>2 DEF Messages
    <2>4. r \in Messages /\ Len(r) = n /\ w \in Messages /\ Len(w) = Len(pipe[j]) - n
        BY <1>4, <2>3, SplitIs
    <2>5. g \in Messages
        BY <1>4, <2>4, RecordType
    <2>6. Len(got[p]) + n <= Pipe!MaxGot => g = got[p] \o r
        BY <1>4, <2>4, RecordIs
    <2>7. pipe' = [pipe EXCEPT ![j] = w] /\ got' = [got EXCEPT ![p] = g]
        BY <2>2
    <2>8. Moves(p, pipe_at[p].fn, line) /\ KeepsBut(p, {})
        BY <1>2, <2>1, GotoIs
    <2>9. Len(w) <= PipeSize
        <3>1. Len(pipe[j]) <= PipeSize
            BY PipeConstants DEF PipeTypes
        <3> QED BY <2>3, <2>4, <3>1, PipeConstants
    <2>10. Takes(p, j, most)
        BY <2>3, <2>5, <2>6, <2>7 DEF Takes
    <2> HIDE DEF w, g, r
    <2>11. PipeTypes'
        BY <1>2, <2>4, <2>5, <2>7, <2>8, <2>9, Types
    <2> QED BY <1>2, <2>8, <2>10, <2>11
<1> QED BY <1>5, <1>6

----------------------------------------------------------------------------
(* The functions of bc_demo_1.c, and dc.                                    *)

\* What bc does, step by step: each line of its program and the next place.
LEMMA BcSteps ==
    ASSUME PipeTypes, PipeStep(Parent), In(Parent, "bc"), Ln(Parent) \in 1 .. 3, BcTable(Parent)
    PROVE  /\ PipeTypes' /\ SameData /\ Table(Parent)'
           /\ \/ Moves(Parent, "dead", 0)
              \/ Ln(Parent) = 1 /\ Moves(Parent, "bc", 2)
              \/ /\ Ln(Parent) = 2 /\ In(Parent, "bc")' /\ Ln(Parent)' = 3
                 /\ In(Child, "be_dc")' /\ Ln(Child)' = 1 /\ Table(Child)'
              \/ Ln(Parent) = 3 /\ Moves(Parent, "be_bc", 1)
<1> DEFINE p == Parent
<1>1. p \in Pipe!Process /\ Child \in Pipe!Process
    BY PipeConstants
<1>2. ~ Pipe!Dies(p) /\ Pipe!Calls(p) = Pipe!BcMain[Ln(p)] /\ pipe_at[p].fn = "bc"
    BY DEF Pipe!Dies, Pipe!Command, In, Pipe!Calls, Pipe!Code, Ln
<1>3. CASE Ln(p) = 1
    <2>1. Pipe!Calls(p) = Pipe!MakePipes({0, 1})
        BY <1>2, <1>3 DEF Pipe!BcMain
    <2>2. fds[p]["in"] = Tty /\ fds[p]["out"] = Tty
        BY DEF BcTable, Holds
    <2>3. /\ PipeTypes' /\ SameData
          /\ \/ Moves(p, "dead", 0) /\ Table(p)'
             \/ Moves(p, "bc", 2) /\ Holds(p, Tty, Tty, R(0), W(0), R(1), W(1))'
        <3>1. 1 \in {0, 1}
            OBVIOUS
        <3> QED BY <1>1, <1>2, <1>3, <2>1, <2>2, <3>1, MakesPipes
    <2>4. Moves(p, "bc", 2) /\ Holds(p, Tty, Tty, R(0), W(0), R(1), W(1))' => BcTable(p)'
        BY DEF Moves, BcTable, Holds, Since, In, Ln
    <2>5. Moves(p, "bc", 2) /\ BcTable(p)' => Table(p)'
        BY DEF Moves, In, Table, Ln
    <2> QED BY <1>3, <2>3, <2>4, <2>5
<1>4. CASE Ln(p) = 2
    <2>1. Pipe!Calls(p) = Pipe!Fork("be_dc") /\ "be_dc" \in Names
        BY <1>2, <1>4 DEF Pipe!BcMain, Names
    <2>2. /\ PipeTypes' /\ SameData
          /\ \/ Moves(p, "dead", 0) /\ Table(p)'
             \/ /\ pipe_at'[p].fn = "bc" /\ Ln(p)' = Ln(p) + 1
                /\ In(Child, "be_dc")' /\ Ln(Child)' = 1
                /\ fds'[p] = fds[p] /\ fds'[Child] = fds[p]
        BY <1>1, <1>2, <2>1, Forks
    <2>3. Holds(p, Tty, Tty, R(0), W(0), R(1), W(1))
        BY <1>4 DEF BcTable, Since, Holds
    <2>4. Ln(p)' = Ln(p) + 1 /\ fds'[p] = fds[p] => Ln(p)' = 3 /\ BcTable(p)'
        BY <1>4, <2>3 DEF BcTable, Since, Holds
    <2>5. Ln(Child)' = 1 /\ fds'[Child] = fds[p] => BeDcTable(Child)'
        BY <2>3 DEF BeDcTable, Since, Until, Holds
    <2>6. pipe_at'[p].fn = "bc" /\ BcTable(p)' => In(p, "bc")' /\ Table(p)'
        BY DEF In, Table
    <2>7. In(Child, "be_dc")' /\ BeDcTable(Child)' => Table(Child)'
        BY DEF In, Table
    <2> QED BY <1>4, <2>2, <2>4, <2>5, <2>6, <2>7
<1>5. CASE Ln(p) = 3
    <2>1. Pipe!Calls(p) = Pipe!Call("be_bc") /\ "be_bc" \in Names
        BY <1>2, <1>5 DEF Pipe!BcMain, Names
    <2>2. PipeTypes' /\ SameData /\ KeepsBut(p, {}) /\ Moves(p, "be_bc", 1)
        BY <1>1, <1>2, <2>1, EntersFunction
    <2>3. BeBcTable(p)'
        BY <1>5, <2>2, PipeConstants DEF BcTable, BeBcTable, Since, Until, Holds, Moves, KeepsBut, In, Ln
    <2>4. Table(p)'
        BY <2>2, <2>3 DEF Moves, In, Table, Ln
    <2> QED BY <1>5, <2>2, <2>4
<1> QED BY <1>3, <1>4, <1>5

\* main's wait for dc.
LEMMA WaitSteps ==
    ASSUME PipeTypes, PipeStep(Parent), In(Parent, "bc_main_wait"), Ln(Parent) \in 1 .. 2,
           NoPipeTable(Parent)
    PROVE  /\ PipeTypes' /\ SameData /\ Table(Parent)'
           /\ \/ Ln(Parent) = 1 /\ Over(Child) /\ Moves(Parent, "bc_main_wait", 2)
              \/ Ln(Parent) = 2 /\ Moves(Parent, "done", 0)
<1> DEFINE p == Parent
<1>1. p \in Pipe!Process
    BY PipeConstants
<1>2. ~ Pipe!Dies(p) /\ Pipe!Calls(p) = Pipe!BcMainWait[Ln(p)] /\ pipe_at[p].fn = "bc_main_wait"
    BY DEF Pipe!Dies, Pipe!Command, In, Pipe!Calls, Pipe!Code, Ln
<1>3. CASE Ln(p) = 1
    <2>1. Pipe!Calls(p).call = "wait"
        BY <1>2, <1>3 DEF Pipe!BcMainWait, Pipe!Wait
    <2>2. /\ PipeTypes' /\ SameData /\ KeepsBut(p, {}) /\ Over(Child)
          /\ Moves(p, "bc_main_wait", 2)
        BY <1>1, <1>2, <1>3, <2>1, WaitsFor
    <2>3. NoPipeTable(p)'
        BY <2>2, PipeConstants DEF NoPipeTable, Holds, KeepsBut
    <2>4. Table(p)'
        BY <2>2, <2>3 DEF Moves, In, Table, Ln
    <2> QED BY <1>3, <2>2, <2>4
<1>4. CASE Ln(p) = 2
    <2>1. Pipe!Calls(p).call = "exit"
        BY <1>2, <1>4 DEF Pipe!BcMainWait, Pipe!Exit
    <2> QED BY <1>1, <1>2, <1>4, <2>1, Exits
<1> QED BY <1>3, <1>4

\* The child of bc, up to its exec.
LEMMA BeDcSteps ==
    ASSUME PipeTypes, PipeStep(Child), In(Child, "be_dc"), Ln(Child) \in 1 .. 8, BeDcTable(Child)
    PROVE  /\ PipeTypes' /\ SameData /\ Table(Child)'
           /\ \/ Moves(Child, "dead", 0)
              \/ Ln(Child) < 8 /\ Moves(Child, "be_dc", Ln(Child) + 1)
              \/ Ln(Child) = 7 /\ Moves(Child, "dc", 1)
<1> DEFINE p == Child
<1>1. p \in Pipe!Process
    BY PipeConstants
<1>2. ~ Pipe!Dies(p) /\ Pipe!Calls(p) = Pipe!BeDc[Ln(p)] /\ pipe_at[p].fn = "be_dc"
    BY DEF Pipe!Dies, Pipe!Command, In, Pipe!Calls, Pipe!Code, Ln
<1>3. CASE Ln(p) \in {1, 4}
    <2>1. PICK f \in Pipe!Fd, g \in Pipe!Fd : /\ Pipe!Calls(p) = Pipe!Dup2(f, g)
                                              /\ Ln(p) = 1 => f = "r0" /\ g = "in"
                                              /\ Ln(p) = 4 => f = "w1" /\ g = "out"
        BY <1>2, <1>3, PipeConstants DEF Pipe!BeDc
    <2>2. /\ PipeTypes' /\ SameData
          /\ \/ Moves(p, "dead", 0) /\ Table(p)'
             \/ Moves(p, "be_dc", Ln(p) + 1) /\ KeepsBut(p, {g}) /\ fds'[p][g] = fds[p][f]
        BY <1>1, <1>2, <2>1, Dups
    <2>3. ASSUME Moves(p, "be_dc", Ln(p) + 1), KeepsBut(p, {g}), fds'[p][g] = fds[p][f]
          PROVE  Table(p)'
        <3>1. BeDcTable(p)'
            BY <1>3, <2>1, <2>3, PipeConstants DEF BeDcTable, Holds, Since, Until, Moves, KeepsBut, In, Ln
        <3> QED BY <2>3, <3>1 DEF Table, Moves, In, Ln
    <2> QED BY <1>3, <2>2, <2>3
<1>4. CASE Ln(p) \in {2, 3, 5, 6}
    <2>1. PICK f \in Pipe!Fd : /\ Pipe!Calls(p) = Pipe!Close(f)
                               /\ Ln(p) = 2 => f = "r0"
                               /\ Ln(p) = 3 => f = "w0"
                               /\ Ln(p) = 5 => f = "w1"
                               /\ Ln(p) = 6 => f = "r1"
        BY <1>2, <1>4, PipeConstants DEF Pipe!BeDc
    <2>2. /\ PipeTypes' /\ SameData /\ Moves(p, "be_dc", Ln(p) + 1)
          /\ KeepsBut(p, {f}) /\ fds'[p][f] = Off
        BY <1>1, <1>2, <2>1, Closes
    <2>3. BeDcTable(p)'
        BY <1>4, <2>1, <2>2, PipeConstants DEF BeDcTable, Holds, Since, Until, Moves, KeepsBut, In, Ln
    <2>4. Table(p)'
        BY <2>2, <2>3 DEF Table, Moves, In, Ln
    <2> QED BY <1>4, <2>2, <2>4
<1>5. CASE Ln(p) = 7
    <2>1. Pipe!Calls(p) = Pipe!Exec("dc") /\ "dc" \in Names
        BY <1>2, <1>5 DEF Pipe!BeDc, Names
    <2>2. /\ PipeTypes' /\ SameData /\ KeepsBut(p, {})
          /\ Moves(p, "dc", 1) \/ Moves(p, "be_dc", 8)
        BY <1>1, <1>2, <1>5, <2>1, Execs
    <2>3. Holds(p, R(0), W(1), Off, Off, Off, Off)'
        BY <1>5, <2>2, PipeConstants DEF BeDcTable, Holds, Since, Until, KeepsBut
    <2>4. CASE Moves(p, "dc", 1)
        BY <1>5, <2>2, <2>3, <2>4 DEF DcTable, Table, Moves, In, Ln
    <2>5. CASE Moves(p, "be_dc", 8)
        <3>1. BeDcTable(p)'
            BY <2>3, <2>5 DEF BeDcTable, Moves, Since, Until, Holds, In, Ln
        <3>2. Table(p)'
            BY <2>5, <3>1 DEF Table, Moves, In, Ln
        <3> QED BY <1>5, <2>2, <2>5, <3>2
    <2> QED BY <2>2, <2>4, <2>5
<1>6. CASE Ln(p) = 8
    <2>1. Pipe!Calls(p).call = "oops"
        BY <1>2, <1>6 DEF Pipe!BeDc, Pipe!Oops
    <2> QED BY <1>1, <1>2, <2>1, GoesOops
<1> QED BY <1>3, <1>4, <1>5, <1>6

\* The closes of be_bc.
LEMMA BeBcCloses ==
    ASSUME PipeTypes, PipeStep(Parent), In(Parent, "be_bc"), Ln(Parent) \in {1, 2, 8, 9},
           BeBcTable(Parent)
    PROVE  PipeTypes' /\ SameData /\ Table(Parent)' /\ Moves(Parent, "be_bc", Ln(Parent) + 1)
<1> DEFINE p == Parent
<1>1. p \in Pipe!Process
    BY PipeConstants
<1>2. ~ Pipe!Dies(p) /\ Pipe!Calls(p) = Pipe!BeBc[Ln(p)] /\ pipe_at[p].fn = "be_bc"
    BY DEF Pipe!Dies, Pipe!Command, In, Pipe!Calls, Pipe!Code, Ln
<1>3. PICK f \in Pipe!Fd : /\ Pipe!Calls(p) = Pipe!Close(f)
                           /\ Ln(p) = 1 => f = "r0"
                           /\ Ln(p) = 2 => f = "w1"
                           /\ Ln(p) = 8 => f = "w0"
                           /\ Ln(p) = 9 => f = "r1"
    BY <1>2, PipeConstants DEF Pipe!BeBc
<1>4. /\ PipeTypes' /\ SameData /\ Moves(p, "be_bc", Ln(p) + 1)
      /\ KeepsBut(p, {f}) /\ fds'[p][f] = Off
    BY <1>1, <1>2, <1>3, Closes
<1>5. BeBcTable(p)'
    BY <1>3, <1>4, PipeConstants DEF BeBcTable, Holds, Until, Moves, KeepsBut, Ln
<1>6. Table(p)'
    BY <1>4, <1>5 DEF Table, Moves, In
<1> QED BY <1>4, <1>6

\* be_bc: ask, send, read the answer.
LEMMA BeBcSteps ==
    ASSUME PipeTypes, PipeStep(Parent), In(Parent, "be_bc"), Ln(Parent) \in 1 .. 10,
           BeBcTable(Parent), Ln(Parent) = 5 => Len(sent[Parent]) < Pipe!MaxGot
    PROVE  /\ PipeTypes' /\ Table(Parent)' /\ program' = program
           /\ \/ Moves(Parent, "dead", 0) /\ SameData
              \/ Ln(Parent) \in {1, 2, 8, 9} /\ SameData /\ Moves(Parent, "be_bc", Ln(Parent) + 1)
              \/ Ln(Parent) = 3 /\ SameData /\ Moves(Parent, "be_bc", 4)
              \/ /\ Ln(Parent) = 4 /\ UNCHANGED <<pipe, buf, sent, got>>
                 /\ \/ /\ typed' = typed + 1
                       /\ Moves(Parent, "be_bc", 5) \/ Moves(Parent, "be_bc", 4)
                    \/ typed' = typed /\ Moves(Parent, "be_bc", 8)
              \/ /\ Ln(Parent) = 5 /\ UNCHANGED <<pipe, typed, got>> /\ Moves(Parent, "be_bc", 6)
                 /\ Buffers(Parent)
              \/ /\ Ln(Parent) = 6 /\ UNCHANGED <<typed, sent, got>> /\ Moves(Parent, "be_bc", 7)
                 /\ pipe' = [pipe EXCEPT ![0] = @ \o buf] /\ buf' = <<>>
              \/ /\ Ln(Parent) = 7 /\ UNCHANGED <<buf, typed, sent>>
                 /\ \/ Moves(Parent, "be_bc", 4) /\ Takes(Parent, 1, 1)
                    \/ Moves(Parent, "be_bc", 8) /\ UNCHANGED <<pipe, got>>
              \/ Ln(Parent) = 10 /\ SameData /\ Moves(Parent, "bc_main_wait", 1)
<1> DEFINE p == Parent
<1>1. p \in Pipe!Process /\ {"w0", "r1"} \subseteq Pipe!Fd
    BY PipeConstants
<1>2. ~ Pipe!Dies(p) /\ Pipe!Calls(p) = Pipe!BeBc[Ln(p)] /\ pipe_at[p].fn = "be_bc"
    BY DEF Pipe!Dies, Pipe!Command, In, Pipe!Calls, Pipe!Code, Ln
<1>3. CASE Ln(p) \in {1, 2, 8, 9}
    BY <1>3, BeBcCloses DEF SameData
<1>4. ASSUME Ln(p) \in 3 .. 7, NEW k \in 4 .. 8, Moves(p, "be_bc", k), KeepsBut(p, {})
      PROVE  Table(p)'
    <2>1. BeBcTable(p)'
        BY <1>4, PipeConstants DEF BeBcTable, Holds, Until, Moves, KeepsBut, Ln
    <2> QED BY <1>4, <2>1 DEF Table, Moves, In
<1>5. CASE Ln(p) = 3
    <2>1. Pipe!Calls(p).call = "fdopen"
        BY <1>2, <1>5 DEF Pipe!BeBc, Pipe!Fdopen
    <2>2. /\ PipeTypes' /\ SameData
          /\ \/ Moves(p, "dead", 0) /\ Table(p)'
             \/ Moves(p, "be_bc", 4) /\ KeepsBut(p, {})
        BY <1>1, <1>2, <1>5, <2>1, Fdopens
    <2> QED BY <1>4, <1>5, <2>2 DEF SameData
<1>6. CASE Ln(p) = 4
    <2>1. Pipe!Calls(p) = Pipe!Typed(5, 4, 8)
        BY <1>2, <1>6 DEF Pipe!BeBc
    <2>2. /\ PipeTypes' /\ KeepsBut(p, {}) /\ UNCHANGED <<program, pipe, buf, sent, got>>
          /\ \/ /\ typed' = typed + 1
                /\ Moves(p, "be_bc", 5) \/ Moves(p, "be_bc", 4)
             \/ typed' = typed /\ Moves(p, "be_bc", 8)
        BY <1>1, <1>2, <2>1, TypesALine
    <2> QED BY <1>4, <1>6, <2>2
<1>7. CASE Ln(p) = 5
    <2>1. Pipe!Calls(p).call = "fprintf"
        BY <1>2, <1>7 DEF Pipe!BeBc, Pipe!Fprintf
    <2>2. /\ PipeTypes' /\ KeepsBut(p, {}) /\ UNCHANGED <<program, pipe, typed, got>>
          /\ Moves(p, "be_bc", 6) /\ Buffers(p)
        BY <1>1, <1>2, <1>7, <2>1, Fprintfs
    <2> QED BY <1>4, <1>7, <2>2
<1>8. CASE Ln(p) = 6
    <2>1. Pipe!Calls(p) = Pipe!Fflush("w0")
        BY <1>2, <1>8 DEF Pipe!BeBc
    <2>2. fds[p]["w0"] = W(0)
        BY <1>8 DEF BeBcTable, Holds, Until
    <2>3. /\ PipeTypes' /\ UNCHANGED <<program, typed, sent, got>>
          /\ \/ Moves(p, "dead", 0) /\ Table(p)' /\ UNCHANGED <<pipe, buf>>
             \/ /\ Moves(p, "be_bc", 7) /\ KeepsBut(p, {})
                /\ pipe' = [pipe EXCEPT ![0] = @ \o buf] /\ buf' = <<>>
        BY <1>1, <1>2, <1>8, <2>1, <2>2, Fflushes
    <2>4. UNCHANGED <<program, typed, sent, got, pipe, buf>> => SameData
        BY DEF SameData
    <2> QED BY <1>4, <1>8, <2>3, <2>4
<1>9. CASE Ln(p) = 7
    <2>1. Pipe!Calls(p) = [call |-> "read", fd |-> "r1", line |-> 4, eof |-> 8, most |-> 1]
        BY <1>2, <1>9 DEF Pipe!BeBc, Pipe!Fgets
    <2>2. fds[p]["r1"] = R(1)
        BY <1>9 DEF BeBcTable, Holds, Until
    <2>3. /\ PipeTypes' /\ UNCHANGED <<program, buf, typed, sent>> /\ KeepsBut(p, {})
          /\ \/ Moves(p, "be_bc", 8) /\ UNCHANGED <<pipe, got>>
             \/ Moves(p, "be_bc", 4) /\ Takes(p, 1, 1)
        BY <1>1, <1>2, <2>1, <2>2, Reads
    <2> QED BY <1>4, <1>9, <2>3
<1>10. CASE Ln(p) = 10
    <2>1. Pipe!Calls(p) = Pipe!Call("bc_main_wait") /\ "bc_main_wait" \in Names
        BY <1>2, <1>10 DEF Pipe!BeBc, Names
    <2>2. PipeTypes' /\ SameData /\ KeepsBut(p, {}) /\ Moves(p, "bc_main_wait", 1)
        BY <1>1, <1>2, <2>1, EntersFunction
    <2>3. NoPipeTable(p)'
        BY <1>10, <2>2, PipeConstants DEF BeBcTable, NoPipeTable, Until, Holds, KeepsBut
    <2>4. Table(p)'
        BY <2>2, <2>3 DEF Moves, In, Table
    <2> QED BY <1>10, <2>2, <2>4 DEF SameData
<1> QED BY <1>3, <1>5, <1>6, <1>7, <1>8, <1>9, <1>10

\* What dc does with a request, when its turn has come, or it ends.
DcStep ==
    \/ SameData /\ Moves(Child, "dead", 0)
    \/ Ln(Child) = 5 /\ SameData /\ Moves(Child, "done", 0)
    \/ /\ Ln(Child) = 1 /\ UNCHANGED sent
       /\ \/ Moves(Child, "dc", 2) /\ Takes(Child, 0, 1)
          \/ Moves(Child, "dc", 5) /\ UNCHANGED <<pipe, got>>
    \/ /\ Ln(Child) = 2 /\ UNCHANGED got /\ Moves(Child, "dc", 3)
       /\ Puts(Child, 1, Pipe!Its(Child, TRUE))
    \/ /\ Ln(Child) = 3 /\ SameData
       /\ Moves(Child, "dc", 1) \/ Moves(Child, "dc", 4)
    \/ /\ Ln(Child) = 4 /\ UNCHANGED got /\ Moves(Child, "dc", 1)
       /\ Puts(Child, 1, Pipe!Its(Child, TRUE))

\* dc: read a request, and answer it.
LEMMA DcSteps ==
    ASSUME PipeTypes, PipeStep(Child), In(Child, "dc"), Ln(Child) \in 1 .. 5, DcTable(Child),
           Ln(Child) \in 2 .. 4 => got[Child] # <<>>
    PROVE  PipeTypes' /\ Table(Child)' /\ UNCHANGED <<program, buf, typed>> /\ DcStep
<1> DEFINE p == Child
           m == Pipe!Its(p, TRUE)
<1>1. p \in Pipe!Process /\ {"in", "out"} \subseteq Pipe!Fd
    BY PipeConstants
<1>2. Pipe!Calls(p) = Pipe!Dc[Ln(p)] /\ pipe_at[p].fn = "dc"
    BY DEF In, Pipe!Calls, Pipe!Code, Ln
<1>3. fds[p]["in"] = R(0) /\ fds[p]["out"] = W(1)
    BY DEF DcTable, Holds
<1>4. CASE Pipe!Dies(p)
    BY <1>1, <1>4, Dying DEF SameData, DcStep
<1>5. ASSUME NEW k \in 1 .. 5, Moves(p, "dc", k), KeepsBut(p, {}) PROVE Table(p)'
    <2>1. DcTable(p)'
        BY <1>5, PipeConstants DEF DcTable, Holds, KeepsBut
    <2> QED BY <1>5, <2>1 DEF Table, Moves, In
<1>6. CASE Ln(p) = 1 /\ ~ Pipe!Dies(p)
    <2>1. Pipe!Calls(p) = [call |-> "read", fd |-> "in", line |-> 2, eof |-> 5, most |-> 1]
        BY <1>2, <1>6 DEF Pipe!Dc, Pipe!Fgets
    <2>2. /\ PipeTypes' /\ UNCHANGED <<program, buf, typed, sent>> /\ KeepsBut(p, {})
          /\ \/ Moves(p, "dc", 5) /\ UNCHANGED <<pipe, got>>
             \/ Moves(p, "dc", 2) /\ Takes(p, 0, 1)
        BY <1>1, <1>2, <1>3, <1>6, <2>1, Reads
    <2> QED BY <1>5, <1>6, <2>2 DEF DcStep
<1>7. ASSUME Ln(p) \in {2, 4}, ~ Pipe!Dies(p), NEW next \in 1 .. 3,
             Pipe!Calls(p) = [call |-> "write", fd |-> "out", next |-> next, answer |-> TRUE]
      PROVE  /\ PipeTypes' /\ Table(p)' /\ UNCHANGED <<program, buf, typed, got>>
             /\ \/ Moves(p, "dead", 0) /\ SameData
                \/ Moves(p, "dc", next) /\ Puts(p, 1, m)
    <2>1. got[p] # <<>> /\ "out" \in Pipe!Fd /\ next \in Nat
        BY <1>1, <1>7
    <2>2. /\ PipeTypes' /\ UNCHANGED <<program, buf, typed, got>>
          /\ \/ Moves(p, "dead", 0) /\ Table(p)' /\ UNCHANGED <<pipe, sent>>
             \/ Moves(p, "dc", next) /\ KeepsBut(p, {}) /\ Puts(p, 1, m)
        BY <1>1, <1>2, <1>3, <1>7, <2>1, WritesTo
    <2> HIDE DEF m
    <2> QED BY <1>5, <1>7, <2>2 DEF SameData
<1>10. CASE Ln(p) = 2 /\ ~ Pipe!Dies(p)
    <2>1. Pipe!Calls(p) = [call |-> "write", fd |-> "out", next |-> 3, answer |-> TRUE]
        BY <1>2, <1>10 DEF Pipe!Dc, Pipe!Answer
    <2>2. 3 \in 1 .. 3
        OBVIOUS
    <2> HIDE DEF m
    <2>3. /\ PipeTypes' /\ Table(p)' /\ UNCHANGED <<program, buf, typed, got>>
          /\ \/ Moves(p, "dead", 0) /\ SameData
             \/ Moves(p, "dc", 3) /\ Puts(p, 1, m)
        BY <1>7, <1>10, <2>1, <2>2
    <2> QED BY <1>10, <2>3 DEF DcStep, m
<1>11. CASE Ln(p) = 4 /\ ~ Pipe!Dies(p)
    <2>1. Pipe!Calls(p) = [call |-> "write", fd |-> "out", next |-> 1, answer |-> TRUE]
        BY <1>2, <1>11 DEF Pipe!Dc, Pipe!Answer
    <2>2. 1 \in 1 .. 3
        OBVIOUS
    <2> HIDE DEF m
    <2>3. /\ PipeTypes' /\ Table(p)' /\ UNCHANGED <<program, buf, typed, got>>
          /\ \/ Moves(p, "dead", 0) /\ SameData
             \/ Moves(p, "dc", 1) /\ Puts(p, 1, m)
        BY <1>7, <1>11, <2>1, <2>2
    <2> QED BY <1>11, <2>3 DEF DcStep, m
<1>8. CASE Ln(p) = 3 /\ ~ Pipe!Dies(p)
    <2>1. Pipe!Calls(p) = Pipe!Wrap(1, 4)
        BY <1>2, <1>8 DEF Pipe!Dc
    <2>2. /\ PipeTypes' /\ SameData /\ KeepsBut(p, {})
          /\ Moves(p, "dc", 1) \/ Moves(p, "dc", 4)
        BY <1>1, <1>2, <1>8, <2>1, Wraps
    <2> QED BY <1>5, <1>8, <2>2 DEF SameData, DcStep
<1>9. CASE Ln(p) = 5 /\ ~ Pipe!Dies(p)
    <2>1. Pipe!Calls(p).call = "exit"
        BY <1>2, <1>9 DEF Pipe!Dc, Pipe!Exit
    <2> QED BY <1>1, <1>9, <2>1, Exits DEF SameData, DcStep
<1> QED BY <1>4, <1>6, <1>8, <1>9, <1>10, <1>11

----------------------------------------------------------------------------
(* The functions of pipe_demo_1.c to pipe_demo_4.c and of popen.c, and the  *)
(* commands.                                                                *)

\* A pipe of one of the smaller programs.
LEMMA MakesOnePipe ==
    ASSUME PipeTypes, NEW p \in Pipe!Process, PipeStep(p), ~ Pipe!Dies(p),
           Pipe!Calls(p) = Pipe!MakePipes({0}), Ln(p) = 1,
           Holds(p, Tty, Tty, Off, Off, Off, Off)
    PROVE  /\ PipeTypes' /\ SameData
           /\ \/ Moves(p, "dead", 0) /\ Table(p)'
              \/ Moves(p, pipe_at[p].fn, 2) /\ Holds(p, Tty, Tty, R(0), W(0), Off, Off)'
<1>1. fds[p]["in"] = Tty /\ fds[p]["out"] = Tty
    BY DEF Holds
<1>2. 1 \notin {0}
    OBVIOUS
<1> QED BY <1>1, <1>2, MakesPipes

Demo1Step ==
    \/ Moves(Parent, "dead", 0)
    \/ Ln(Parent) = 1 /\ SameData /\ Moves(Parent, "demo1", 2)
    \/ /\ Ln(Parent) = 2 /\ UNCHANGED <<pipe, buf, sent, got>>
       /\ \/ typed' = typed + 1 /\ Moves(Parent, "demo1", 3)
          \/ typed' = typed /\ Moves(Parent, "demo1", 5)
    \/ /\ Ln(Parent) = 3 /\ UNCHANGED <<buf, typed, got>> /\ Moves(Parent, "demo1", 4)
       /\ Puts(Parent, 0, Pipe!Its(Parent, FALSE))
    \/ /\ Ln(Parent) = 4 /\ UNCHANGED <<buf, typed, sent>>
       /\ \/ Moves(Parent, "demo1", 2) /\ Takes(Parent, 0, PipeSize)
          \/ Moves(Parent, "demo1", 5) /\ UNCHANGED <<pipe, got>>
    \/ Ln(Parent) = 5 /\ SameData /\ Moves(Parent, "done", 0)

\* The programs, step by step.
LEMMA Demo1Steps ==
    ASSUME PipeTypes, PipeStep(Parent), In(Parent, "demo1"), Ln(Parent) \in 1 .. 5,
           DemoTable(Parent)
    PROVE  PipeTypes' /\ Table(Parent)' /\ program' = program /\ Demo1Step
<1> DEFINE p == Parent
           m == Pipe!Its(p, FALSE)
<1>1. p \in Pipe!Process /\ {"w0", "r0"} \subseteq Pipe!Fd
    BY PipeConstants
<1>2. ~ Pipe!Dies(p) /\ Pipe!Calls(p) = Pipe!Demo1Main[Ln(p)] /\ pipe_at[p].fn = "demo1"
    BY DEF Pipe!Dies, Pipe!Command, In, Pipe!Calls, Pipe!Code, Ln
<1>3. ASSUME Ln(p) > 1, NEW k \in 2 .. 5, Moves(p, "demo1", k), KeepsBut(p, {}) PROVE Table(p)'
    <2>1. DemoTable(p)'
        BY <1>3, PipeConstants DEF DemoTable, Holds, Since, Moves, KeepsBut, Ln
    <2> QED BY <1>3, <2>1 DEF Table, Moves, In
<1>4. CASE Ln(p) = 1
    <2>1. Pipe!Calls(p) = Pipe!MakePipes({0})
        BY <1>2, <1>4 DEF Pipe!Demo1Main
    <2>2. Holds(p, Tty, Tty, Off, Off, Off, Off)
        BY <1>4 DEF DemoTable, Since, Holds
    <2>3. /\ PipeTypes' /\ SameData
          /\ \/ Moves(p, "dead", 0) /\ Table(p)'
             \/ Moves(p, "demo1", 2) /\ Holds(p, Tty, Tty, R(0), W(0), Off, Off)'
        BY <1>1, <1>2, <1>4, <2>1, <2>2, MakesOnePipe
    <2>4. Moves(p, "demo1", 2) /\ Holds(p, Tty, Tty, R(0), W(0), Off, Off)' => DemoTable(p)'
        BY DEF Moves, DemoTable, Holds, Since, Ln
    <2>5. Moves(p, "demo1", 2) /\ DemoTable(p)' => Table(p)'
        BY DEF Moves, In, Table
    <2>6. program' = program
        BY <2>3 DEF SameData
    <2> QED BY <1>4, <2>3, <2>4, <2>5, <2>6 DEF Demo1Step
<1>5. CASE Ln(p) = 2
    <2>1. Pipe!Calls(p) = Pipe!Typed(3, 3, 5)
        BY <1>2, <1>5 DEF Pipe!Demo1Main
    <2>2. /\ PipeTypes' /\ KeepsBut(p, {}) /\ UNCHANGED <<program, pipe, buf, sent, got>>
          /\ \/ typed' = typed + 1 /\ Moves(p, "demo1", 3)
             \/ typed' = typed /\ Moves(p, "demo1", 5)
        BY <1>1, <1>2, <2>1, TypesALine
    <2> QED BY <1>3, <1>5, <2>2 DEF Demo1Step
<1>6. CASE Ln(p) = 3
    <2>1. Pipe!Calls(p) = [call |-> "write", fd |-> "w0", next |-> 4, answer |-> FALSE]
        BY <1>2, <1>6 DEF Pipe!Demo1Main, Pipe!Write
    <2>2. fds[p]["w0"] = W(0)
        BY <1>6 DEF DemoTable, Since, Holds
    <2>3. /\ PipeTypes' /\ UNCHANGED <<program, buf, typed, got>>
          /\ \/ Moves(p, "dead", 0) /\ Table(p)'
             \/ Moves(p, "demo1", 4) /\ KeepsBut(p, {}) /\ Puts(p, 0, m)
        BY <1>1, <1>2, <2>1, <2>2, WritesTo
    <2> HIDE DEF m
    <2>4. Moves(p, "demo1", 4) /\ KeepsBut(p, {}) => Table(p)'
        BY <1>3, <1>6
    <2> QED BY <1>6, <2>3, <2>4 DEF Demo1Step, m
<1>7. CASE Ln(p) = 4
    <2>1. Pipe!Calls(p) = [call |-> "read", fd |-> "r0", line |-> 2, eof |-> 5, most |-> PipeSize]
        BY <1>2, <1>7 DEF Pipe!Demo1Main, Pipe!Read
    <2>2. fds[p]["r0"] = R(0)
        BY <1>7 DEF DemoTable, Since, Holds
    <2>3. /\ PipeTypes' /\ UNCHANGED <<program, buf, typed, sent>> /\ KeepsBut(p, {})
          /\ \/ Moves(p, "demo1", 5) /\ UNCHANGED <<pipe, got>>
             \/ Moves(p, "demo1", 2) /\ Takes(p, 0, PipeSize)
        BY <1>1, <1>2, <2>1, <2>2, Reads, PipeConstants
    <2> QED BY <1>3, <1>7, <2>3 DEF Demo1Step
<1>8. CASE Ln(p) = 5
    <2>1. Pipe!Calls(p).call = "exit"
        BY <1>2, <1>8 DEF Pipe!Demo1Main, Pipe!Exit
    <2> QED BY <1>1, <1>2, <1>8, <2>1, Exits DEF SameData, Demo1Step
<1> QED BY <1>4, <1>5, <1>6, <1>7, <1>8

LEMMA Demo2Steps ==
    ASSUME PipeTypes, PipeStep(Parent), In(Parent, "demo2"), Ln(Parent) \in 1 .. 5,
           DemoTable(Parent)
    PROVE  /\ PipeTypes' /\ Table(Parent)' /\ program' = program
           /\ \/ Moves(Parent, "dead", 0) \/ Moves(Parent, "done", 0)
              \/ Ln(Parent) = 1 /\ Moves(Parent, "demo2", 2)
              \/ /\ Ln(Parent) = 2 /\ In(Parent, "demo2")' /\ Ln(Parent)' = 3
                 /\ In(Child, "demo2_child")' /\ Ln(Child)' = 1 /\ Table(Child)'
              \/ Ln(Parent) = 3 /\ Moves(Parent, "demo2", 4)
              \/ Ln(Parent) = 4 /\ Moves(Parent, "demo2", 5)
<1> DEFINE p == Parent
<1>1. p \in Pipe!Process /\ Child \in Pipe!Process /\ {"w0", "r0"} \subseteq Pipe!Fd
    BY PipeConstants
<1>2. ~ Pipe!Dies(p) /\ Pipe!Calls(p) = Pipe!Demo2Main[Ln(p)] /\ pipe_at[p].fn = "demo2"
    BY DEF Pipe!Dies, Pipe!Command, In, Pipe!Calls, Pipe!Code, Ln
<1>3. ASSUME Ln(p) > 1, NEW k \in 2 .. 5, Moves(p, "demo2", k), KeepsBut(p, {}) PROVE Table(p)'
    <2>1. DemoTable(p)'
        BY <1>3, PipeConstants DEF DemoTable, Holds, Since, Moves, KeepsBut, Ln
    <2> QED BY <1>3, <2>1 DEF Table, Moves, In
<1>4. CASE Ln(p) = 1
    <2>1. Pipe!Calls(p) = Pipe!MakePipes({0})
        BY <1>2, <1>4 DEF Pipe!Demo2Main
    <2>2. Holds(p, Tty, Tty, Off, Off, Off, Off)
        BY <1>4 DEF DemoTable, Since, Holds
    <2>3. /\ PipeTypes' /\ SameData
          /\ \/ Moves(p, "dead", 0) /\ Table(p)'
             \/ Moves(p, "demo2", 2) /\ Holds(p, Tty, Tty, R(0), W(0), Off, Off)'
        BY <1>1, <1>2, <1>4, <2>1, <2>2, MakesOnePipe
    <2>4. Moves(p, "demo2", 2) /\ Holds(p, Tty, Tty, R(0), W(0), Off, Off)' => DemoTable(p)'
        BY DEF Moves, DemoTable, Holds, Since, Ln
    <2>5. Moves(p, "demo2", 2) /\ DemoTable(p)' => Table(p)'
        BY DEF Moves, In, Table
    <2>6. program' = program
        BY <2>3 DEF SameData
    <2> QED BY <1>4, <2>3, <2>4, <2>5, <2>6
<1>5. CASE Ln(p) = 2
    <2>1. Pipe!Calls(p) = Pipe!Fork("demo2_child") /\ "demo2_child" \in Names
        BY <1>2, <1>5 DEF Pipe!Demo2Main, Names
    <2>2. /\ PipeTypes' /\ SameData
          /\ \/ Moves(p, "dead", 0) /\ Table(p)'
             \/ /\ pipe_at'[p].fn = "demo2" /\ Ln(p)' = Ln(p) + 1
                /\ In(Child, "demo2_child")' /\ Ln(Child)' = 1
                /\ fds'[p] = fds[p] /\ fds'[Child] = fds[p]
        BY <1>1, <1>2, <2>1, Forks
    <2>3. Holds(p, Tty, Tty, R(0), W(0), Off, Off)
        BY <1>5 DEF DemoTable, Since, Holds
    <2>4. Ln(p)' = Ln(p) + 1 /\ fds'[p] = fds[p] => Ln(p)' = 3 /\ DemoTable(p)'
        BY <1>5, <2>3 DEF DemoTable, Since, Holds
    <2>5. fds'[Child] = fds[p] => Demo2ChildTable(Child)'
        BY <2>3 DEF Demo2ChildTable, Holds
    <2>6. pipe_at'[p].fn = "demo2" /\ DemoTable(p)' => In(p, "demo2")' /\ Table(p)'
        BY DEF In, Table
    <2>7. In(Child, "demo2_child")' /\ Demo2ChildTable(Child)' => Table(Child)'
        BY DEF In, Table
    <2>8. program' = program
        BY <2>2 DEF SameData
    <2> QED BY <1>5, <2>2, <2>4, <2>5, <2>6, <2>7, <2>8
<1>6. CASE Ln(p) = 3
    <2>1. Pipe!Calls(p) = [call |-> "write", fd |-> "w0", next |-> 4, answer |-> FALSE]
        BY <1>2, <1>6 DEF Pipe!Demo2Main, Pipe!Write
    <2>2. fds[p]["w0"] = W(0)
        BY <1>6 DEF DemoTable, Since, Holds
    <2>3. /\ PipeTypes' /\ program' = program
          /\ \/ Moves(p, "dead", 0) /\ Table(p)'
             \/ Moves(p, "demo2", 4) /\ KeepsBut(p, {})
        BY <1>1, <1>2, <2>1, <2>2, WritesTo
    <2> QED BY <1>3, <1>6, <2>3
<1>7. CASE Ln(p) = 4
    <2>1. Pipe!Calls(p) = [call |-> "read", fd |-> "r0", line |-> 5, eof |-> 5, most |-> PipeSize]
        BY <1>2, <1>7 DEF Pipe!Demo2Main, Pipe!Read
    <2>2. fds[p]["r0"] = R(0)
        BY <1>7 DEF DemoTable, Since, Holds
    <2>3. PipeTypes' /\ program' = program /\ KeepsBut(p, {}) /\ Moves(p, "demo2", 5)
        BY <1>1, <1>2, <2>1, <2>2, Reads, PipeConstants
    <2> QED BY <1>3, <1>7, <2>3
<1>8. CASE Ln(p) = 5
    <2>1. Pipe!Calls(p).call = "exit"
        BY <1>2, <1>8 DEF Pipe!Demo2Main, Pipe!Exit
    <2> QED BY <1>1, <1>2, <1>8, <2>1, Exits DEF SameData
<1> QED BY <1>4, <1>5, <1>6, <1>7, <1>8

LEMMA Demo2ChildSteps ==
    ASSUME PipeTypes, PipeStep(Child), In(Child, "demo2_child"), Ln(Child) = 1,
           Demo2ChildTable(Child)
    PROVE  PipeTypes' /\ Table(Child)' /\ program' = program /\ Moves(Child, "demo2_child", 1)
<1> DEFINE p == Child
<1>1. p \in Pipe!Process /\ {"w0", "r0"} \subseteq Pipe!Fd
    BY PipeConstants
<1>2. ~ Pipe!Dies(p) /\ Pipe!Calls(p) = Pipe!Demo2Child[1] /\ pipe_at[p].fn = "demo2_child"
    BY DEF Pipe!Dies, Pipe!Command, In, Pipe!Calls, Pipe!Code, Ln
<1>3. Pipe!Calls(p) = [call |-> "write", fd |-> "w0", next |-> 1, answer |-> FALSE]
    BY <1>2 DEF Pipe!Demo2Child, Pipe!Write
<1>4. fds[p]["w0"] = W(0) /\ p \in Pipe!Holders(R(0))
    BY <1>1 DEF Demo2ChildTable, Holds, Pipe!Holders
<1>5. /\ PipeTypes' /\ program' = program
      /\ Moves(p, "demo2_child", 1) /\ KeepsBut(p, {})
    BY <1>1, <1>2, <1>3, <1>4, WritesTo
<1>6. Demo2ChildTable(p)'
    BY <1>5, PipeConstants DEF Demo2ChildTable, Holds, KeepsBut
<1> QED BY <1>5, <1>6 DEF Table, Moves, In

Demo3Step ==
    \/ Moves(Parent, "dead", 0) /\ SameData
    \/ Ln(Parent) = 1 /\ SameData /\ Moves(Parent, "demo3", 2)
    \/ /\ Ln(Parent) = 2 /\ SameData /\ In(Parent, "demo3")' /\ Ln(Parent)' = 3
       /\ In(Child, "demo3_child")' /\ Ln(Child)' = 1 /\ Table(Child)'
    \/ Ln(Parent) \in {3, 5, 6} /\ SameData /\ Moves(Parent, "demo3", Ln(Parent) + 1)
    \/ /\ Ln(Parent) = 4 /\ UNCHANGED <<buf, typed, got>> /\ Moves(Parent, "demo3", 5)
       /\ Puts(Parent, 0, Pipe!Its(Parent, FALSE))
    \/ Ln(Parent) = 7 /\ SameData /\ Moves(Parent, "done", 0)

LEMMA Demo3Steps ==
    ASSUME PipeTypes, PipeStep(Parent), In(Parent, "demo3"), Ln(Parent) \in 1 .. 7,
           Demo3Table(Parent)
    PROVE  PipeTypes' /\ Table(Parent)' /\ program' = program /\ Demo3Step
<1> DEFINE p == Parent
           m == Pipe!Its(p, FALSE)
<1>1. p \in Pipe!Process /\ Child \in Pipe!Process /\ {"w0", "r0"} \subseteq Pipe!Fd
    BY PipeConstants
<1>2. ~ Pipe!Dies(p) /\ Pipe!Calls(p) = Pipe!Demo3Main[Ln(p)] /\ pipe_at[p].fn = "demo3"
    BY DEF Pipe!Dies, Pipe!Command, In, Pipe!Calls, Pipe!Code, Ln
<1>3. Demo3Table(p)' /\ pipe_at'[p].fn = "demo3" => Table(p)'
    BY DEF Table, In
<1>4. CASE Ln(p) = 1
    <2>1. Pipe!Calls(p) = Pipe!MakePipes({0})
        BY <1>2, <1>4 DEF Pipe!Demo3Main
    <2>2. Holds(p, Tty, Tty, Off, Off, Off, Off)
        BY <1>4 DEF Demo3Table, Since, Holds
    <2>3. /\ PipeTypes' /\ SameData
          /\ \/ Moves(p, "dead", 0) /\ Table(p)'
             \/ Moves(p, "demo3", 2) /\ Holds(p, Tty, Tty, R(0), W(0), Off, Off)'
        BY <1>1, <1>2, <1>4, <2>1, <2>2, MakesOnePipe
    <2>4. Moves(p, "demo3", 2) /\ Holds(p, Tty, Tty, R(0), W(0), Off, Off)' => Demo3Table(p)'
        BY DEF Moves, Demo3Table, Holds, Since, Until, Ln
    <2>5. program' = program
        BY <2>3 DEF SameData
    <2>6. Moves(p, "demo3", 2) => pipe_at'[p].fn = "demo3"
        BY DEF Moves
    <2> QED BY <1>3, <1>4, <2>3, <2>4, <2>5, <2>6 DEF Demo3Step
<1>5. CASE Ln(p) = 2
    <2>1. Pipe!Calls(p) = Pipe!Fork("demo3_child") /\ "demo3_child" \in Names
        BY <1>2, <1>5 DEF Pipe!Demo3Main, Names
    <2>2. /\ PipeTypes' /\ SameData
          /\ \/ Moves(p, "dead", 0) /\ Table(p)'
             \/ /\ pipe_at'[p].fn = "demo3" /\ Ln(p)' = Ln(p) + 1
                /\ In(Child, "demo3_child")' /\ Ln(Child)' = 1
                /\ fds'[p] = fds[p] /\ fds'[Child] = fds[p]
        BY <1>1, <1>2, <2>1, Forks
    <2>3. Holds(p, Tty, Tty, R(0), W(0), Off, Off)
        BY <1>5 DEF Demo3Table, Since, Until, Holds
    <2>4. Ln(p)' = Ln(p) + 1 /\ fds'[p] = fds[p] => Ln(p)' = 3 /\ Demo3Table(p)'
        BY <1>5, <2>3 DEF Demo3Table, Holds, Since, Until
    <2>5. fds'[Child] = fds[p] /\ Ln(Child)' = 1 => Demo3ChildTable(Child)'
        BY <2>3 DEF Demo3ChildTable, Holds, Until
    <2>6. pipe_at'[p].fn = "demo3" => In(p, "demo3")'
        BY DEF In
    <2>7. In(Child, "demo3_child")' /\ Demo3ChildTable(Child)' => Table(Child)'
        BY DEF In, Table
    <2>8. program' = program
        BY <2>2 DEF SameData
    <2> QED BY <1>3, <1>5, <2>2, <2>4, <2>5, <2>6, <2>7, <2>8 DEF Demo3Step
<1>6. CASE Ln(p) \in {3, 5}
    <2>1. PICK f \in Pipe!Fd : /\ Pipe!Calls(p) = Pipe!Close(f)
                               /\ Ln(p) = 3 => f = "r0"
                               /\ Ln(p) = 5 => f = "w0"
        BY <1>2, <1>6, PipeConstants DEF Pipe!Demo3Main
    <2>2. /\ PipeTypes' /\ SameData /\ Moves(p, "demo3", Ln(p) + 1)
          /\ KeepsBut(p, {f}) /\ fds'[p][f] = Off
        BY <1>1, <1>2, <2>1, Closes
    <2>3. Demo3Table(p)' /\ pipe_at'[p].fn = "demo3"
        BY <1>6, <2>1, <2>2, PipeConstants DEF Demo3Table, Holds, Since, Until, Moves, KeepsBut, Ln
    <2>4. program' = program
        BY <2>2 DEF SameData
    <2> QED BY <1>3, <1>6, <2>2, <2>3, <2>4 DEF Demo3Step
<1>7. CASE Ln(p) = 4
    <2>1. Pipe!Calls(p) = [call |-> "write", fd |-> "w0", next |-> 5, answer |-> FALSE]
        BY <1>2, <1>7 DEF Pipe!Demo3Main, Pipe!Write
    <2>2. fds[p]["w0"] = W(0)
        BY <1>7 DEF Demo3Table, Since, Until, Holds
    <2>3. /\ PipeTypes' /\ UNCHANGED <<program, buf, typed, got>>
          /\ \/ Moves(p, "dead", 0) /\ Table(p)' /\ UNCHANGED <<pipe, sent>>
             \/ Moves(p, "demo3", 5) /\ KeepsBut(p, {}) /\ Puts(p, 0, m)
        BY <1>1, <1>2, <2>1, <2>2, WritesTo
    <2> HIDE DEF m
    <2>4. Moves(p, "demo3", 5) /\ KeepsBut(p, {}) => Demo3Table(p)' /\ pipe_at'[p].fn = "demo3"
        BY <1>7, PipeConstants DEF Demo3Table, Holds, Since, Until, Moves, KeepsBut, Ln
    <2>5. UNCHANGED <<program, buf, typed, got, pipe, sent>> => SameData
        BY DEF SameData
    <2> QED BY <1>3, <1>7, <2>3, <2>4, <2>5 DEF Demo3Step, m
<1>8. CASE Ln(p) = 6
    <2>1. Pipe!Calls(p).call = "wait"
        BY <1>2, <1>8 DEF Pipe!Demo3Main, Pipe!Wait
    <2>2. PipeTypes' /\ SameData /\ KeepsBut(p, {}) /\ Moves(p, "demo3", Ln(p) + 1)
        BY <1>1, <1>2, <2>1, WaitsFor
    <2>3. Demo3Table(p)' /\ pipe_at'[p].fn = "demo3"
        BY <1>8, <2>2, PipeConstants DEF Demo3Table, Holds, Since, Until, Moves, KeepsBut, Ln
    <2>4. program' = program
        BY <2>2 DEF SameData
    <2> QED BY <1>3, <1>8, <2>2, <2>3, <2>4 DEF Demo3Step
<1>9. CASE Ln(p) = 7
    <2>1. Pipe!Calls(p).call = "exit"
        BY <1>2, <1>9 DEF Pipe!Demo3Main, Pipe!Exit
    <2> QED BY <1>1, <1>2, <1>9, <2>1, Exits DEF SameData, Demo3Step
<1> QED BY <1>4, <1>5, <1>6, <1>7, <1>8, <1>9

LEMMA Demo3ChildSteps ==
    ASSUME PipeTypes, PipeStep(Child), In(Child, "demo3_child"), Ln(Child) \in 1 .. 4,
           Demo3ChildTable(Child)
    PROVE  /\ PipeTypes' /\ Table(Child)' /\ UNCHANGED <<program, buf, typed, sent>>
           /\ \/ Ln(Child) \in {1, 3} /\ SameData /\ Moves(Child, "demo3_child", Ln(Child) + 1)
              \/ /\ Ln(Child) = 2 /\ Moves(Child, "demo3_child", 3)
                 /\ \/ Takes(Child, 0, PipeSize)
                    \/ /\ UNCHANGED <<pipe, got>>
                       /\ pipe[0] = <<>> /\ Pipe!Holders(W(0)) = {}
              \/ Ln(Child) = 4 /\ SameData /\ Moves(Child, "done", 0)
<1> DEFINE p == Child
<1>1. p \in Pipe!Process /\ {"w0", "r0"} \subseteq Pipe!Fd
    BY PipeConstants
<1>2. /\ ~ Pipe!Dies(p) /\ Pipe!Calls(p) = Pipe!Demo3Child[Ln(p)]
      /\ pipe_at[p].fn = "demo3_child"
    BY DEF Pipe!Dies, Pipe!Command, In, Pipe!Calls, Pipe!Code, Ln
<1>3. Demo3ChildTable(p)' /\ pipe_at'[p].fn = "demo3_child" => Table(p)'
    BY DEF Table, In
<1>4. CASE Ln(p) \in {1, 3}
    <2>1. PICK f \in Pipe!Fd : /\ Pipe!Calls(p) = Pipe!Close(f)
                               /\ Ln(p) = 1 => f = "w0"
                               /\ Ln(p) = 3 => f = "r0"
        BY <1>2, <1>4, PipeConstants DEF Pipe!Demo3Child
    <2>2. /\ PipeTypes' /\ SameData /\ Moves(p, "demo3_child", Ln(p) + 1)
          /\ KeepsBut(p, {f}) /\ fds'[p][f] = Off
        BY <1>1, <1>2, <2>1, Closes
    <2>3. Demo3ChildTable(p)' /\ pipe_at'[p].fn = "demo3_child"
        BY <1>4, <2>1, <2>2, PipeConstants DEF Demo3ChildTable, Holds, Until, Moves, KeepsBut, Ln
    <2>4. UNCHANGED <<program, buf, typed, sent>>
        BY <2>2 DEF SameData
    <2> QED BY <1>3, <1>4, <2>2, <2>3, <2>4
<1>5. CASE Ln(p) = 2
    <2>1. Pipe!Calls(p) = [call |-> "read", fd |-> "r0", line |-> 3, eof |-> 3, most |-> PipeSize]
        BY <1>2, <1>5 DEF Pipe!Demo3Child, Pipe!Read
    <2>2. fds[p]["r0"] = R(0)
        BY <1>5 DEF Demo3ChildTable, Until, Holds
    <2>3. /\ PipeTypes' /\ UNCHANGED <<program, buf, typed, sent>> /\ KeepsBut(p, {})
          /\ Moves(p, "demo3_child", 3)
          /\ \/ UNCHANGED <<pipe, got>> /\ pipe[0] = <<>> /\ Pipe!Holders(W(0)) = {}
             \/ Takes(p, 0, PipeSize)
        BY <1>1, <1>2, <2>1, <2>2, Reads, PipeConstants
    <2>4. Demo3ChildTable(p)' /\ pipe_at'[p].fn = "demo3_child"
        BY <1>5, <2>3, PipeConstants DEF Demo3ChildTable, Holds, Until, Moves, KeepsBut, Ln
    <2> QED BY <1>3, <1>5, <2>3, <2>4
<1>6. CASE Ln(p) = 4
    <2>1. Pipe!Calls(p).call = "exit"
        BY <1>2, <1>6 DEF Pipe!Demo3Child, Pipe!Exit
    <2> QED BY <1>1, <1>2, <1>6, <2>1, Exits DEF SameData
<1> QED BY <1>4, <1>5, <1>6

LEMMA Demo4Steps ==
    ASSUME PipeTypes, PipeStep(Parent), In(Parent, "demo4"), Ln(Parent) \in 1 .. 7,
           Demo4Table(Parent)
    PROVE  /\ PipeTypes' /\ Table(Parent)' /\ SameData
           /\ \/ Moves(Parent, "dead", 0)
              \/ Ln(Parent) = 1 /\ Moves(Parent, "demo4", 2)
              \/ /\ Ln(Parent) = 2 /\ In(Parent, "demo4")' /\ Ln(Parent)' = 3
                 /\ In(Child, "demo4_child")' /\ Ln(Child)' = 1 /\ Table(Child)'
              \/ Ln(Parent) \in 3 .. 6 /\ Moves(Parent, "demo4", Ln(Parent) + 1)
              \/ Ln(Parent) = 6 /\ Moves(Parent, "reader", 1)
<1> DEFINE p == Parent
<1>1. p \in Pipe!Process /\ Child \in Pipe!Process /\ {"in", "r0"} \subseteq Pipe!Fd
    BY PipeConstants
<1>2. ~ Pipe!Dies(p) /\ Pipe!Calls(p) = Pipe!Demo4Main[Ln(p)] /\ pipe_at[p].fn = "demo4"
    BY DEF Pipe!Dies, Pipe!Command, In, Pipe!Calls, Pipe!Code, Ln
<1>3. Demo4Table(p)' /\ pipe_at'[p].fn = "demo4" => Table(p)'
    BY DEF Table, In
<1>4. CASE Ln(p) = 1
    <2>1. Pipe!Calls(p) = Pipe!MakePipes({0})
        BY <1>2, <1>4 DEF Pipe!Demo4Main
    <2>2. Holds(p, Tty, Tty, Off, Off, Off, Off)
        BY <1>4 DEF Demo4Table, Since, Holds
    <2>3. /\ PipeTypes' /\ SameData
          /\ \/ Moves(p, "dead", 0) /\ Table(p)'
             \/ Moves(p, "demo4", 2) /\ Holds(p, Tty, Tty, R(0), W(0), Off, Off)'
        BY <1>1, <1>2, <1>4, <2>1, <2>2, MakesOnePipe
    <2>4. Moves(p, "demo4", 2) /\ Holds(p, Tty, Tty, R(0), W(0), Off, Off)' => Demo4Table(p)'
        BY DEF Moves, Demo4Table, Holds, Since, Until, Ln
    <2>5. Moves(p, "demo4", 2) => pipe_at'[p].fn = "demo4"
        BY DEF Moves
    <2> QED BY <1>3, <1>4, <2>3, <2>4, <2>5
<1>5. CASE Ln(p) = 2
    <2>1. Pipe!Calls(p) = Pipe!Fork("demo4_child") /\ "demo4_child" \in Names
        BY <1>2, <1>5 DEF Pipe!Demo4Main, Names
    <2>2. /\ PipeTypes' /\ SameData
          /\ \/ Moves(p, "dead", 0) /\ Table(p)'
             \/ /\ pipe_at'[p].fn = "demo4" /\ Ln(p)' = Ln(p) + 1
                /\ In(Child, "demo4_child")' /\ Ln(Child)' = 1
                /\ fds'[p] = fds[p] /\ fds'[Child] = fds[p]
        BY <1>1, <1>2, <2>1, Forks
    <2>3. Holds(p, Tty, Tty, R(0), W(0), Off, Off)
        BY <1>5 DEF Demo4Table, Since, Until, Holds
    <2>4. Ln(p)' = Ln(p) + 1 /\ fds'[p] = fds[p] => Ln(p)' = 3 /\ Demo4Table(p)'
        BY <1>5, <2>3 DEF Demo4Table, Holds, Since, Until
    <2>5. fds'[Child] = fds[p] /\ Ln(Child)' = 1 => Demo4ChildTable(Child)'
        BY <2>3 DEF Demo4ChildTable, Holds, Since, Until
    <2>6. pipe_at'[p].fn = "demo4" => In(p, "demo4")'
        BY DEF In
    <2>7. In(Child, "demo4_child")' /\ Demo4ChildTable(Child)' => Table(Child)'
        BY DEF In, Table
    <2> QED BY <1>3, <1>5, <2>2, <2>4, <2>5, <2>6, <2>7
<1>6. CASE Ln(p) \in {3, 5}
    <2>1. PICK f \in Pipe!Fd : /\ Pipe!Calls(p) = Pipe!Close(f)
                               /\ Ln(p) = 3 => f = "w0"
                               /\ Ln(p) = 5 => f = "r0"
        BY <1>2, <1>6, PipeConstants DEF Pipe!Demo4Main
    <2>2. /\ PipeTypes' /\ SameData /\ Moves(p, "demo4", Ln(p) + 1)
          /\ KeepsBut(p, {f}) /\ fds'[p][f] = Off
        BY <1>1, <1>2, <2>1, Closes
    <2>3. Demo4Table(p)' /\ pipe_at'[p].fn = "demo4"
        BY <1>6, <2>1, <2>2, PipeConstants DEF Demo4Table, Holds, Since, Until, Moves, KeepsBut, Ln
    <2> QED BY <1>3, <1>6, <2>2, <2>3
<1>7. CASE Ln(p) = 4
    <2>1. Pipe!Calls(p) = Pipe!Dup2("r0", "in")
        BY <1>2, <1>7 DEF Pipe!Demo4Main
    <2>2. /\ PipeTypes' /\ SameData
          /\ \/ Moves(p, "dead", 0) /\ Table(p)'
             \/ /\ Moves(p, "demo4", Ln(p) + 1) /\ KeepsBut(p, {"in"})
                /\ fds'[p]["in"] = fds[p]["r0"]
        BY <1>1, <1>2, <2>1, Dups
    <2>3. Moves(p, "demo4", Ln(p) + 1) /\ KeepsBut(p, {"in"}) /\ fds'[p]["in"] = fds[p]["r0"]
             => Demo4Table(p)' /\ pipe_at'[p].fn = "demo4"
        BY <1>7, PipeConstants DEF Demo4Table, Holds, Since, Until, Moves, KeepsBut, Ln
    <2> QED BY <1>3, <1>7, <2>2, <2>3
<1>8. CASE Ln(p) = 6
    <2>1. Pipe!Calls(p) = Pipe!Exec("reader") /\ "reader" \in Names
        BY <1>2, <1>8 DEF Pipe!Demo4Main, Names
    <2>2. /\ PipeTypes' /\ SameData /\ KeepsBut(p, {})
          /\ Moves(p, "reader", 1) \/ Moves(p, "demo4", Ln(p) + 1)
        BY <1>1, <1>2, <2>1, Execs
    <2>3. Holds(p, R(0), Tty, Off, Off, Off, Off)'
        BY <1>8, <2>2, PipeConstants DEF Demo4Table, Holds, Since, Until, KeepsBut
    <2>4. Moves(p, "demo4", Ln(p) + 1) => Demo4Table(p)' /\ pipe_at'[p].fn = "demo4"
        BY <1>8, <2>3 DEF Demo4Table, Holds, Since, Until, Moves, Ln
    <2>5. Moves(p, "reader", 1) => Table(p)'
        BY <2>3 DEF ReaderTable, Table, Moves, In
    <2> QED BY <1>3, <1>8, <2>2, <2>4, <2>5
<1>9. CASE Ln(p) = 7
    <2>1. Pipe!Calls(p).call = "oops"
        BY <1>2, <1>9 DEF Pipe!Demo4Main, Pipe!Oops
    <2> QED BY <1>1, <1>2, <2>1, GoesOops
<1> QED BY <1>4, <1>5, <1>6, <1>7, <1>8, <1>9

LEMMA Demo4ChildSteps ==
    ASSUME PipeTypes, PipeStep(Child), In(Child, "demo4_child"), Ln(Child) \in 1 .. 5,
           Demo4ChildTable(Child)
    PROVE  /\ PipeTypes' /\ Table(Child)' /\ SameData
           /\ \/ Moves(Child, "dead", 0)
              \/ Ln(Child) < 5 /\ Moves(Child, "demo4_child", Ln(Child) + 1)
              \/ Ln(Child) = 4 /\ Moves(Child, "writer", 1)
<1> DEFINE p == Child
<1>1. p \in Pipe!Process /\ {"out", "r0", "w0"} \subseteq Pipe!Fd
    BY PipeConstants
<1>2. /\ ~ Pipe!Dies(p) /\ Pipe!Calls(p) = Pipe!Demo4Child[Ln(p)]
      /\ pipe_at[p].fn = "demo4_child"
    BY DEF Pipe!Dies, Pipe!Command, In, Pipe!Calls, Pipe!Code, Ln
<1>3. Demo4ChildTable(p)' /\ pipe_at'[p].fn = "demo4_child" => Table(p)'
    BY DEF Table, In
<1>4. CASE Ln(p) \in {1, 3}
    <2>1. PICK f \in Pipe!Fd : /\ Pipe!Calls(p) = Pipe!Close(f)
                               /\ Ln(p) = 1 => f = "r0"
                               /\ Ln(p) = 3 => f = "w0"
        BY <1>2, <1>4, PipeConstants DEF Pipe!Demo4Child
    <2>2. /\ PipeTypes' /\ SameData /\ Moves(p, "demo4_child", Ln(p) + 1)
          /\ KeepsBut(p, {f}) /\ fds'[p][f] = Off
        BY <1>1, <1>2, <2>1, Closes
    <2>3. Demo4ChildTable(p)' /\ pipe_at'[p].fn = "demo4_child"
        BY <1>4, <2>1, <2>2, PipeConstants
           DEF Demo4ChildTable, Holds, Since, Until, Moves, KeepsBut, Ln
    <2> QED BY <1>3, <1>4, <2>2, <2>3
<1>5. CASE Ln(p) = 2
    <2>1. Pipe!Calls(p) = Pipe!Dup2("w0", "out")
        BY <1>2, <1>5 DEF Pipe!Demo4Child
    <2>2. /\ PipeTypes' /\ SameData
          /\ \/ Moves(p, "dead", 0) /\ Table(p)'
             \/ /\ Moves(p, "demo4_child", Ln(p) + 1) /\ KeepsBut(p, {"out"})
                /\ fds'[p]["out"] = fds[p]["w0"]
        BY <1>1, <1>2, <2>1, Dups
    <2>3. ASSUME Moves(p, "demo4_child", Ln(p) + 1), KeepsBut(p, {"out"}),
                 fds'[p]["out"] = fds[p]["w0"]
          PROVE  Demo4ChildTable(p)' /\ pipe_at'[p].fn = "demo4_child"
        BY <1>5, <2>3, PipeConstants DEF Demo4ChildTable, Holds, Since, Until, Moves, KeepsBut, Ln
    <2> QED BY <1>3, <1>5, <2>2, <2>3
<1>6. CASE Ln(p) = 4
    <2>1. Pipe!Calls(p) = Pipe!Exec("writer") /\ "writer" \in Names
        BY <1>2, <1>6 DEF Pipe!Demo4Child, Names
    <2>2. /\ PipeTypes' /\ SameData /\ KeepsBut(p, {})
          /\ Moves(p, "writer", 1) \/ Moves(p, "demo4_child", Ln(p) + 1)
        BY <1>1, <1>2, <2>1, Execs
    <2>3. Holds(p, Tty, W(0), Off, Off, Off, Off)'
        BY <1>6, <2>2, PipeConstants DEF Demo4ChildTable, Holds, Since, Until, KeepsBut
    <2>4. Moves(p, "demo4_child", Ln(p) + 1)
             => Demo4ChildTable(p)' /\ pipe_at'[p].fn = "demo4_child"
        BY <1>6, <2>3 DEF Demo4ChildTable, Holds, Since, Until, Moves, Ln
    <2>5. Moves(p, "writer", 1) => Table(p)'
        BY <2>3 DEF WriterTable, Table, Moves, In
    <2> QED BY <1>3, <1>6, <2>2, <2>4, <2>5
<1>7. CASE Ln(p) = 5
    <2>1. Pipe!Calls(p).call = "oops"
        BY <1>2, <1>7 DEF Pipe!Demo4Child, Pipe!Oops
    <2> QED BY <1>1, <1>2, <2>1, GoesOops
<1> QED BY <1>4, <1>5, <1>6, <1>7

PopenStep ==
    \/ Moves(Parent, "dead", 0) /\ SameData
    \/ Ln(Parent) = 1 /\ SameData /\ Moves(Parent, "popen", 2)
    \/ /\ Ln(Parent) = 2 /\ SameData /\ In(Parent, "popen")' /\ Ln(Parent)' = 3
       /\ In(Child, "demo4_child")' /\ Ln(Child)' = 1 /\ Table(Child)'
    \/ Ln(Parent) \in {3, 5, 6} /\ SameData /\ Moves(Parent, "popen", Ln(Parent) + 1)
    \/ /\ Ln(Parent) = 4 /\ UNCHANGED <<buf, typed, sent>>
       /\ \/ Moves(Parent, "popen", 4) /\ Takes(Parent, 0, 1)
          \/ /\ Moves(Parent, "popen", 5) /\ UNCHANGED <<pipe, got>>
             /\ pipe[0] = <<>> /\ Pipe!Holders(W(0)) = {}
    \/ Ln(Parent) = 7 /\ SameData /\ Moves(Parent, "done", 0)

LEMMA PopenSteps ==
    ASSUME PipeTypes, PipeStep(Parent), In(Parent, "popen"), Ln(Parent) \in 1 .. 7,
           PopenTable(Parent)
    PROVE  PipeTypes' /\ Table(Parent)' /\ program' = program /\ PopenStep
<1> DEFINE p == Parent
<1>1. p \in Pipe!Process /\ Child \in Pipe!Process /\ {"w0", "r0"} \subseteq Pipe!Fd
    BY PipeConstants
<1>2. ~ Pipe!Dies(p) /\ Pipe!Calls(p) = Pipe!PopenMain[Ln(p)] /\ pipe_at[p].fn = "popen"
    BY DEF Pipe!Dies, Pipe!Command, In, Pipe!Calls, Pipe!Code, Ln
<1>3. PopenTable(p)' /\ pipe_at'[p].fn = "popen" => Table(p)'
    BY DEF Table, In
<1>4. CASE Ln(p) = 1
    <2>1. Pipe!Calls(p) = Pipe!MakePipes({0})
        BY <1>2, <1>4 DEF Pipe!PopenMain
    <2>2. Holds(p, Tty, Tty, Off, Off, Off, Off)
        BY <1>4 DEF PopenTable, Since, Holds
    <2>3. /\ PipeTypes' /\ SameData
          /\ \/ Moves(p, "dead", 0) /\ Table(p)'
             \/ Moves(p, "popen", 2) /\ Holds(p, Tty, Tty, R(0), W(0), Off, Off)'
        BY <1>1, <1>2, <1>4, <2>1, <2>2, MakesOnePipe
    <2>4. Moves(p, "popen", 2) /\ Holds(p, Tty, Tty, R(0), W(0), Off, Off)' => PopenTable(p)'
        BY DEF Moves, PopenTable, Holds, Since, Until, Ln
    <2>5. program' = program
        BY <2>3 DEF SameData
    <2>6. Moves(p, "popen", 2) => pipe_at'[p].fn = "popen"
        BY DEF Moves
    <2> QED BY <1>3, <1>4, <2>3, <2>4, <2>5, <2>6 DEF PopenStep
<1>5. CASE Ln(p) = 2
    <2>1. Pipe!Calls(p) = Pipe!Fork("demo4_child") /\ "demo4_child" \in Names
        BY <1>2, <1>5 DEF Pipe!PopenMain, Names
    <2>2. /\ PipeTypes' /\ SameData
          /\ \/ Moves(p, "dead", 0) /\ Table(p)'
             \/ /\ pipe_at'[p].fn = "popen" /\ Ln(p)' = Ln(p) + 1
                /\ In(Child, "demo4_child")' /\ Ln(Child)' = 1
                /\ fds'[p] = fds[p] /\ fds'[Child] = fds[p]
        BY <1>1, <1>2, <2>1, Forks
    <2>3. Holds(p, Tty, Tty, R(0), W(0), Off, Off)
        BY <1>5 DEF PopenTable, Since, Until, Holds
    <2>4. Ln(p)' = Ln(p) + 1 /\ fds'[p] = fds[p] => Ln(p)' = 3 /\ PopenTable(p)'
        BY <1>5, <2>3 DEF PopenTable, Holds, Since, Until
    <2>5. fds'[Child] = fds[p] /\ Ln(Child)' = 1 => Demo4ChildTable(Child)'
        BY <2>3 DEF Demo4ChildTable, Holds, Since, Until
    <2>6. pipe_at'[p].fn = "popen" => In(p, "popen")'
        BY DEF In
    <2>7. In(Child, "demo4_child")' /\ Demo4ChildTable(Child)' => Table(Child)'
        BY DEF In, Table
    <2>8. program' = program
        BY <2>2 DEF SameData
    <2> QED BY <1>3, <1>5, <2>2, <2>4, <2>5, <2>6, <2>7, <2>8 DEF PopenStep
<1>6. CASE Ln(p) \in {3, 5}
    <2>1. PICK f \in Pipe!Fd : /\ Pipe!Calls(p) = Pipe!Close(f)
                               /\ Ln(p) = 3 => f = "w0"
                               /\ Ln(p) = 5 => f = "r0"
        BY <1>2, <1>6, PipeConstants DEF Pipe!PopenMain
    <2>2. /\ PipeTypes' /\ SameData /\ Moves(p, "popen", Ln(p) + 1)
          /\ KeepsBut(p, {f}) /\ fds'[p][f] = Off
        BY <1>1, <1>2, <2>1, Closes
    <2>3. PopenTable(p)' /\ pipe_at'[p].fn = "popen"
        BY <1>6, <2>1, <2>2, PipeConstants DEF PopenTable, Holds, Since, Until, Moves, KeepsBut, Ln
    <2>4. program' = program
        BY <2>2 DEF SameData
    <2> QED BY <1>3, <1>6, <2>2, <2>3, <2>4 DEF PopenStep
<1>7. CASE Ln(p) = 4
    <2>1. Pipe!Calls(p) = [call |-> "read", fd |-> "r0", line |-> 4, eof |-> 5, most |-> 1]
        BY <1>2, <1>7 DEF Pipe!PopenMain, Pipe!Fgets
    <2>2. fds[p]["r0"] = R(0)
        BY <1>7 DEF PopenTable, Since, Until, Holds
    <2>3. /\ PipeTypes' /\ UNCHANGED <<program, buf, typed, sent>> /\ KeepsBut(p, {})
          /\ \/ /\ Moves(p, "popen", 5) /\ UNCHANGED <<pipe, got>>
                /\ pipe[0] = <<>> /\ Pipe!Holders(W(0)) = {}
             \/ Moves(p, "popen", 4) /\ Takes(p, 0, 1)
        BY <1>1, <1>2, <2>1, <2>2, Reads
    <2>4. ASSUME NEW k \in 4 .. 5, Moves(p, "popen", k)
          PROVE  PopenTable(p)' /\ pipe_at'[p].fn = "popen"
        BY <1>7, <2>3, <2>4, PipeConstants DEF PopenTable, Holds, Since, Until, Moves, KeepsBut, Ln
    <2> QED BY <1>3, <1>7, <2>3, <2>4 DEF PopenStep
<1>8. CASE Ln(p) = 6
    <2>1. Pipe!Calls(p).call = "wait"
        BY <1>2, <1>8 DEF Pipe!PopenMain, Pipe!Wait
    <2>2. PipeTypes' /\ SameData /\ KeepsBut(p, {}) /\ Moves(p, "popen", Ln(p) + 1)
        BY <1>1, <1>2, <2>1, WaitsFor
    <2>3. PopenTable(p)' /\ pipe_at'[p].fn = "popen"
        BY <1>8, <2>2, PipeConstants DEF PopenTable, Holds, Since, Until, Moves, KeepsBut, Ln
    <2>4. program' = program
        BY <2>2 DEF SameData
    <2> QED BY <1>3, <1>8, <2>2, <2>3, <2>4 DEF PopenStep
<1>9. CASE Ln(p) = 7
    <2>1. Pipe!Calls(p).call = "exit"
        BY <1>2, <1>9 DEF Pipe!PopenMain, Pipe!Exit
    <2> QED BY <1>1, <1>2, <1>9, <2>1, Exits DEF SameData, PopenStep
<1> QED BY <1>4, <1>5, <1>6, <1>7, <1>8, <1>9

ReaderStep ==
    \/ Moves(Parent, "dead", 0) /\ SameData
    \/ /\ Ln(Parent) = 1 /\ UNCHANGED <<buf, typed, sent>>
       /\ \/ Moves(Parent, "reader", 1) /\ Takes(Parent, 0, 1)
          \/ /\ Moves(Parent, "reader", 2) /\ UNCHANGED <<pipe, got>>
             /\ pipe[0] = <<>> /\ Pipe!Holders(W(0)) = {}
    \/ Ln(Parent) = 2 /\ SameData /\ Moves(Parent, "done", 0)

LEMMA ReaderSteps ==
    ASSUME PipeTypes, PipeStep(Parent), In(Parent, "reader"), Ln(Parent) \in 1 .. 2,
           ReaderTable(Parent)
    PROVE  PipeTypes' /\ Table(Parent)' /\ program' = program /\ ReaderStep
<1> DEFINE p == Parent
<1>1. p \in Pipe!Process /\ "in" \in Pipe!Fd
    BY PipeConstants
<1>2. Pipe!Calls(p) = Pipe!Reader[Ln(p)] /\ pipe_at[p].fn = "reader"
    BY DEF In, Pipe!Calls, Pipe!Code, Ln
<1>3. CASE Pipe!Dies(p)
    BY <1>1, <1>3, Dying DEF SameData, ReaderStep
<1>4. CASE Ln(p) = 1 /\ ~ Pipe!Dies(p)
    <2>1. Pipe!Calls(p) = [call |-> "read", fd |-> "in", line |-> 1, eof |-> 2, most |-> 1]
        BY <1>2, <1>4 DEF Pipe!Reader, Pipe!Fgets
    <2>2. fds[p]["in"] = R(0)
        BY DEF ReaderTable, Holds
    <2>3. /\ PipeTypes' /\ UNCHANGED <<program, buf, typed, sent>> /\ KeepsBut(p, {})
          /\ \/ /\ Moves(p, "reader", 2) /\ UNCHANGED <<pipe, got>>
                /\ pipe[0] = <<>> /\ Pipe!Holders(W(0)) = {}
             \/ Moves(p, "reader", 1) /\ Takes(p, 0, 1)
        BY <1>1, <1>2, <1>4, <2>1, <2>2, Reads
    <2>4. ReaderTable(p)'
        BY <2>3, PipeConstants DEF ReaderTable, Holds, KeepsBut
    <2>5. Table(p)'
        BY <2>3, <2>4 DEF Table, In, Moves
    <2> QED BY <1>4, <2>3, <2>5 DEF ReaderStep
<1>5. CASE Ln(p) = 2 /\ ~ Pipe!Dies(p)
    <2>1. Pipe!Calls(p).call = "exit"
        BY <1>2, <1>5 DEF Pipe!Reader, Pipe!Exit
    <2> QED BY <1>1, <1>5, <2>1, Exits DEF SameData, ReaderStep
<1> QED BY <1>3, <1>4, <1>5

WriterStep ==
    \/ Over(Child)' /\ SameData
    \/ /\ Ln(Child) <= MaxLines /\ UNCHANGED <<buf, typed, got>>
       /\ Moves(Child, "writer", Ln(Child) + 1) /\ Puts(Child, 0, Pipe!Its(Child, FALSE))

LEMMA WriterSteps ==
    ASSUME PipeTypes, PipeStep(Child), In(Child, "writer"), Ln(Child) \in 1 .. MaxLines + 1,
           WriterTable(Child)
    PROVE  /\ PipeTypes' /\ Table(Child)' /\ program' = program /\ WriterStep
           /\ \A q \in Pipe!Process \ {Child} : pipe_at'[q] = pipe_at[q] /\ fds'[q] = fds[q]
<1> DEFINE p == Child
           m == Pipe!Its(p, FALSE)
<1>1. p \in Pipe!Process /\ "out" \in Pipe!Fd
    BY PipeConstants
<1>2. Pipe!Calls(p) = Pipe!Writer[Ln(p)] /\ pipe_at[p].fn = "writer"
    BY DEF In, Pipe!Calls, Pipe!Code, Ln
<1>3. ASSUME NEW how \in {"dead", "done"}, Moves(p, how, 0), SameData, PipeTypes', Table(p)'
      PROVE  /\ PipeTypes' /\ Table(p)' /\ program' = program /\ WriterStep
             /\ \A q \in Pipe!Process \ {p} : pipe_at'[q] = pipe_at[q] /\ fds'[q] = fds[q]
    BY <1>3 DEF Moves, Over, In, SameData, WriterStep
<1>4. CASE Pipe!Dies(p)
    BY <1>1, <1>3, <1>4, Dying
<1>5. CASE Ln(p) <= MaxLines /\ ~ Pipe!Dies(p)
    <2>1. Pipe!Calls(p) = [call |-> "write", fd |-> "out", next |-> Ln(p) + 1, answer |-> FALSE]
        BY <1>2, <1>5 DEF Pipe!Writer, Pipe!Write
    <2>2. fds[p]["out"] = W(0) /\ Ln(p) + 1 \in Nat
        BY DEF WriterTable, Holds
    <2>3. /\ PipeTypes' /\ UNCHANGED <<program, buf, typed, got>>
          /\ \/ Moves(p, "dead", 0) /\ Table(p)' /\ UNCHANGED <<pipe, sent>>
             \/ Moves(p, "writer", Ln(p) + 1) /\ KeepsBut(p, {}) /\ Puts(p, 0, m)
        BY <1>1, <1>2, <1>5, <2>1, <2>2, WritesTo
    <2> HIDE DEF m
    <2>4. CASE Moves(p, "dead", 0) /\ Table(p)' /\ UNCHANGED <<pipe, sent>>
        BY <1>3, <2>3, <2>4 DEF SameData
    <2>5. CASE Moves(p, "writer", Ln(p) + 1) /\ KeepsBut(p, {}) /\ Puts(p, 0, m)
        <3>1. WriterTable(p)'
            BY <2>5, PipeConstants DEF WriterTable, Holds, KeepsBut
        <3>2. Table(p)'
            BY <2>5, <3>1 DEF Table, In, Moves
        <3>3. WriterStep
            BY <1>5, <2>3, <2>5 DEF WriterStep, m
        <3> QED BY <2>3, <2>5, <3>2, <3>3 DEF Moves
    <2> QED BY <2>3, <2>4, <2>5
<1>6. CASE Ln(p) = MaxLines + 1 /\ ~ Pipe!Dies(p)
    <2>1. Pipe!Calls(p).call = "exit"
        BY <1>2, <1>6, PipeConstants DEF Pipe!Writer, Pipe!Exit
    <2> QED BY <1>1, <1>3, <1>6, <2>1, Exits
<1> QED BY <1>4, <1>5, <1>6, PipeConstants

----------------------------------------------------------------------------
(* bc_demo_1.c: bc and dc.                                                  *)

\* Who does not move.
LEMMA OtherStays ==
    ASSUME NEW p \in Pipe!Process, NEW q \in Pipe!Process \ {p}, NEW fn, NEW ln, Moves(p, fn, ln),
           Table(q)
    PROVE  Table(q)' /\ pipe_at'[q] = pipe_at[q]
BY TableStays DEF Moves

\* What the parts of BcInv need to stay as they are.
LEMMA BcChildStays ==
    ASSUME BcChild, pipe_at'[Child] = pipe_at[Child], sent'[Child] = sent[Child],
           got'[Child] = got[Child]
    PROVE  BcChild'
<1>1. \A fn : In(Child, fn)' = In(Child, fn)
    BY DEF In
<1>2. Ln(Child)' = Ln(Child) /\ Over(Child)' = Over(Child)
    BY DEF Ln, Over
<1>3. Answers(sent[Child], Len(got[Child]))'
    BY <1>1, <1>2 DEF BcChild, Answers
<1> QED BY <1>1, <1>2, <1>3 DEF BcChild

LEMMA BcParentStays ==
    ASSUME BcParent, pipe_at'[Parent] = pipe_at[Parent], sent'[Parent] = sent[Parent],
           got'[Parent] = got[Parent], buf' = buf, typed' = typed
    PROVE  BcParent'
BY DEF BcParent, In, Ln

LEMMA BcFlowStays ==
    ASSUME BcFlow, SameData PROVE BcFlow'
BY DEF BcFlow, SameData, Flow, Numbered

\* Of what bc sends there is never too much to remember.
LEMMA BcLengths ==
    ASSUME PipeTypes, BcFlow
    PROVE  /\ Len(sent[Parent]) \in 0 .. MaxLines /\ Len(got[Child]) \in 0 .. Len(sent[Parent])
           /\ Len(got[Child]) + Len(pipe[0]) <= Len(sent[Parent])
           /\ Pipe!MaxGot = 2 * MaxLines
<1>1. /\ sent[Parent] \in Messages /\ got[Child] \in Messages /\ pipe[0] \in Messages
      /\ buf \in Messages /\ typed \in 0 .. MaxLines
    BY PipeConstants DEF PipeTypes, Messages
<1>2. /\ Len(sent[Parent]) \in Nat /\ Len(got[Child]) \in Nat /\ Len(pipe[0]) \in Nat
      /\ Len(buf) \in Nat /\ Len(pipe[0] \o buf) = Len(pipe[0]) + Len(buf)
    BY <1>1, ConcatProperties DEF Messages
<1>3. Len(sent[Parent]) = Len(got[Child]) + Len(pipe[0] \o buf) /\ Len(sent[Parent]) <= typed
    BY DEF BcFlow, Flow
<1> HIDE DEF Messages
<1>4. typed \in 0 .. MaxLines /\ MaxLines \in Nat
    BY <1>1, PipeConstants
<1>5. ASSUME NEW s \in Nat, NEW g \in Nat, NEW w \in Nat, NEW b \in Nat,
             s = g + (w + b), s <= typed
      PROVE  s \in 0 .. MaxLines /\ g \in 0 .. s /\ g + w <= s
    BY <1>4, <1>5
<1>6. Len(sent[Parent]) = Len(got[Child]) + (Len(pipe[0]) + Len(buf))
    BY <1>2, <1>3
<1>7. Pipe!MaxGot = 2 * MaxLines
    BY DEF Pipe!MaxGot
<1> QED BY <1>2, <1>3, <1>5, <1>6, <1>7

\* A step of bc that moves no message keeps BcFlow.
LEMMA BcMoves ==
    ASSUME PipeTypes, Table(Parent), Table(Child), BcInv, PipeStep(Parent), In(Parent, "bc")
    PROVE  PipeTypes' /\ Table(Parent)' /\ Table(Child)' /\ program' = program /\ BcInv'
<1>1. /\ Parent \in Pipe!Process /\ Child \in Pipe!Process /\ Parent # Child
    BY PipeConstants
<1>2. Ln(Parent) \in 1 .. 3 /\ BcTable(Parent)
    BY DEF BcInv, BcPlaces, In, Over, Table
<1>3. /\ PipeTypes' /\ SameData /\ Table(Parent)'
      /\ \/ Moves(Parent, "dead", 0)
         \/ Ln(Parent) = 1 /\ Moves(Parent, "bc", 2)
         \/ /\ Ln(Parent) = 2 /\ In(Parent, "bc")' /\ Ln(Parent)' = 3
            /\ In(Child, "be_dc")' /\ Ln(Child)' = 1 /\ Table(Child)'
         \/ Ln(Parent) = 3 /\ Moves(Parent, "be_bc", 1)
    BY <1>2, BcSteps
<1>4. BcFlow' /\ program' = program
    BY <1>3, BcFlowStays DEF BcInv, SameData
<1>5. buf = <<>> /\ Len(got[Parent]) = Len(sent[Parent])
    BY DEF BcInv, BcParent, In, Over
<1>6. CASE Moves(Parent, "dead", 0)
    <2>1. Table(Child)' /\ pipe_at'[Child] = pipe_at[Child]
        BY <1>1, <1>6, OtherStays
    <2>2. BcChild'
        BY <1>3, <2>1, BcChildStays DEF BcInv, SameData
    <2>3. Over(Parent)'
        BY <1>6 DEF Moves, Over, In
    <2>4. BcPlaces'
        BY <2>1, <2>3 DEF BcInv, BcPlaces, In, Ln, Over
    <2> QED BY <1>3, <1>4, <2>1, <2>2, <2>3, <2>4 DEF BcInv
<1>7. CASE Ln(Parent) = 1 /\ Moves(Parent, "bc", 2)
    <2>1. Table(Child)' /\ pipe_at'[Child] = pipe_at[Child]
        BY <1>1, <1>7, OtherStays
    <2>2. BcChild'
        BY <1>3, <2>1, BcChildStays DEF BcInv, SameData
    <2>3. BcParent'
        BY <1>3, <1>5, <1>7 DEF BcParent, Moves, In, Ln, SameData
    <2>4. BcPlaces'
        BY <1>7, <2>1 DEF BcInv, BcPlaces, Moves, In, Ln, Over
    <2> QED BY <1>3, <1>4, <2>1, <2>2, <2>3, <2>4 DEF BcInv
<1>8. CASE Ln(Parent) = 3 /\ Moves(Parent, "be_bc", 1)
    <2>1. Table(Child)' /\ pipe_at'[Child] = pipe_at[Child]
        BY <1>1, <1>8, OtherStays
    <2>2. BcChild'
        BY <1>3, <2>1, BcChildStays DEF BcInv, SameData
    <2>3. BcParent'
        BY <1>3, <1>5, <1>8 DEF BcParent, Moves, In, Ln, SameData
    <2>4. BcPlaces'
        BY <1>8, <2>1 DEF BcInv, BcPlaces, Moves, In, Ln, Over
    <2> QED BY <1>3, <1>4, <2>1, <2>2, <2>3, <2>4 DEF BcInv
<1>9. CASE /\ Ln(Parent) = 2 /\ In(Parent, "bc")' /\ Ln(Parent)' = 3
           /\ In(Child, "be_dc")' /\ Ln(Child)' = 1 /\ Table(Child)'
    <2>1. In(Child, "unborn")
        BY <1>9 DEF BcInv, BcPlaces, In, Over
    <2>2. sent[Child] = <<>> /\ got[Child] = <<>> /\ Answers(sent[Child], Len(got[Child]))
        BY <2>1 DEF BcInv, BcChild
    <2>3. sent'[Child] = <<>> /\ got'[Child] = <<>>
        BY <1>3, <2>2 DEF SameData
    <2>4. Answers(sent[Child], Len(got[Child]))'
        <3>1. Len(sent'[Child]) = 0 /\ Len(got'[Child]) = 0
            BY <2>3
        <3>2. 0 \in 0 .. 0 /\ ~ In(Child, "dc")'
            BY <1>9 DEF In
        <3> QED BY <3>1, <3>2 DEF Answers, FirstLines, SecondLine
    <2>5. BcChild'
        BY <1>9, <2>3, <2>4 DEF BcChild, In
    <2>6. BcParent'
        BY <1>3, <1>5, <1>9 DEF BcParent, In, SameData
    <2>7. BcPlaces'
        BY <1>9 DEF BcPlaces
    <2> QED BY <1>3, <1>4, <1>9, <2>5, <2>6, <2>7 DEF BcInv
<1> QED BY <1>3, <1>6, <1>7, <1>8, <1>9

\* PipeTypes, for the sequences of a state.
LEMMA PipeTypesAre ==
    ASSUME PipeTypes
    PROVE  /\ \A p \in Pipe!Process : sent[p] \in Messages /\ got[p] \in Messages
           /\ pipe[0] \in Messages /\ pipe[1] \in Messages /\ buf \in Messages
           /\ typed \in 0 .. MaxLines
           /\ DOMAIN pipe = {0, 1} /\ DOMAIN sent = Pipe!Process /\ DOMAIN got = Pipe!Process
BY PipeConstants DEF PipeTypes, Messages

\* bc puts a request into the buffer of fpout.
LEMMA BcAsks ==
    ASSUME PipeTypes, BcFlow, UNCHANGED <<pipe, typed, got>>, Buffers(Parent),
           buf = <<>>, Len(sent[Parent]) < typed
    PROVE  /\ BcFlow' /\ Len(buf') = 1 /\ Len(sent'[Parent]) = Len(sent[Parent]) + 1
           /\ sent'[Child] = sent[Child]
<1> Parent \in Pipe!Process /\ Child \in Pipe!Process /\ Parent # Child
    BY PipeConstants
<1>1. PICK m \in Pipe!Message : /\ m.no = Len(sent[Parent]) + 1 /\ m.part = 1
                                /\ buf' = Append(buf, m)
                                /\ sent' = [sent EXCEPT ![Parent] = Append(sent[Parent], m)]
    BY DEF Buffers
<1>2. sent'[Parent] = Append(sent[Parent], m) /\ sent'[Child] = sent[Child]
    BY <1>1, PipeTypesAre
<1>3. sent[Parent] \in Messages /\ got[Child] \in Messages /\ pipe[0] \in Messages
    BY PipeTypesAre
<1>4. pipe[0] \o buf \in Messages /\ pipe[0] \o buf' = Append(pipe[0] \o buf, m)
    BY <1>1, <1>3, AppendBehind, PipeTypesAre, ConcatProperties DEF Messages
<1>5. Flow(sent'[Parent], got[Child], pipe[0] \o buf')
    <2>1. Flow(sent[Parent], got[Child], pipe[0] \o buf)
        BY DEF BcFlow
    <2> QED BY <1>2, <1>3, <1>4, <2>1, FlowWrite
<1>6. Numbered(sent'[Parent])
    BY <1>1, <1>2, <1>3, NumberedGrows DEF BcFlow
<1>7. Len(sent'[Parent]) = Len(sent[Parent]) + 1 /\ Len(buf') = 1
    BY <1>1, <1>2, <1>3 DEF Messages
<1>8. Len(sent'[Parent]) <= typed
    <2>1. typed \in Nat /\ Len(sent[Parent]) \in Nat
        BY <1>3, PipeTypesAre DEF Messages
    <2> QED BY <1>7, <2>1
<1>9. Flow(sent'[Child], got[Parent], pipe[1])
    BY <1>2 DEF BcFlow
<1>10. BcFlow'
    <2>1. pipe' = pipe /\ typed' = typed /\ got' = got
        OBVIOUS
    <2> QED BY <1>5, <1>6, <1>8, <1>9, <2>1 DEF BcFlow, Flow, Numbered
<1> QED BY <1>2, <1>7, <1>10

\* The request goes into the pipe to dc.
LEMMA BcFlushes ==
    ASSUME PipeTypes, BcFlow, UNCHANGED <<typed, sent, got>>,
           pipe' = [pipe EXCEPT ![0] = @ \o buf], buf' = <<>>
    PROVE  BcFlow'
<1>1. pipe[0] \in Messages /\ buf \in Messages /\ DOMAIN pipe = {0, 1}
    BY PipeTypesAre
<1>2. pipe'[0] = pipe[0] \o buf /\ pipe'[1] = pipe[1]
    BY <1>1
<1>3. pipe'[0] \o buf' = pipe[0] \o buf
    BY <1>1, <1>2, ConcatProperties, ConcatEmptySeq DEF Messages
<1> QED BY <1>2, <1>3 DEF BcFlow, Flow, Numbered

\* bc prints a line of dc.
LEMMA BcReads ==
    ASSUME PipeTypes, BcFlow, UNCHANGED <<buf, typed, sent>>, Takes(Parent, 1, 1),
           Len(got[Parent]) < Pipe!MaxGot
    PROVE  /\ BcFlow' /\ Len(got'[Parent]) = Len(got[Parent]) + 1 /\ got'[Child] = got[Child]
<1> Parent \in Pipe!Process /\ Child \in Pipe!Process /\ Parent # Child
    BY PipeConstants
<1>1. PICK n \in 1 .. Len(pipe[1]), g \in Messages :
          /\ n <= 1
          /\ pipe' = [pipe EXCEPT ![1] = SubSeq(pipe[1], n + 1, Len(pipe[1]))]
          /\ got' = [got EXCEPT ![Parent] = g]
          /\ Len(got[Parent]) + n <= Pipe!MaxGot => g = got[Parent] \o SubSeq(pipe[1], 1, n)
    BY DEF Takes
<1>2. /\ got[Parent] \in Messages /\ pipe[1] \in Messages /\ sent[Child] \in Messages
      /\ Len(got[Parent]) \in Nat /\ Pipe!MaxGot \in Nat
    BY PipeTypesAre, PipeConstants DEF Messages, Pipe!MaxGot
<1>3. n = 1
    BY <1>1
<1>4. got'[Parent] = got[Parent] \o SubSeq(pipe[1], 1, n) /\ got'[Child] = got[Child]
    <2>1. Len(got[Parent]) + n <= Pipe!MaxGot
        BY <1>2, <1>3
    <2> QED BY <1>1, <2>1, PipeTypesAre
<1>5. pipe'[1] = SubSeq(pipe[1], n + 1, Len(pipe[1])) /\ pipe'[0] = pipe[0]
    BY <1>1, PipeTypesAre
<1>6. Flow(sent[Child], got'[Parent], pipe'[1])
    <2>1. Flow(sent[Child], got[Parent], pipe[1])
        BY DEF BcFlow
    <2> QED BY <1>2, <1>4, <1>5, <2>1, FlowRead
<1>7. Len(got'[Parent]) = Len(got[Parent]) + 1
    <2>1. SubSeq(pipe[1], 1, n) \in Messages /\ Len(SubSeq(pipe[1], 1, n)) = 1
        BY <1>2, <1>3, SplitIs
    <2> QED BY <1>2, <1>4, <2>1, ConcatProperties DEF Messages
<1>8. BcFlow'
    BY <1>4, <1>5, <1>6 DEF BcFlow, Flow, Numbered
<1> QED BY <1>4, <1>7, <1>8

\* dc reads a request.
LEMMA DcReads ==
    ASSUME PipeTypes, BcFlow, UNCHANGED <<buf, typed, sent>>, Takes(Child, 0, 1)
    PROVE  /\ BcFlow' /\ Len(got'[Child]) = Len(got[Child]) + 1 /\ got'[Parent] = got[Parent]
<1> Parent \in Pipe!Process /\ Child \in Pipe!Process /\ Parent # Child
    BY PipeConstants
<1>1. PICK n \in 1 .. Len(pipe[0]), g \in Messages :
          /\ n <= 1
          /\ pipe' = [pipe EXCEPT ![0] = SubSeq(pipe[0], n + 1, Len(pipe[0]))]
          /\ got' = [got EXCEPT ![Child] = g]
          /\ Len(got[Child]) + n <= Pipe!MaxGot => g = got[Child] \o SubSeq(pipe[0], 1, n)
    BY DEF Takes
<1>2. /\ got[Child] \in Messages /\ pipe[0] \in Messages /\ sent[Parent] \in Messages
      /\ buf \in Messages /\ pipe[0] \o buf \in Messages /\ Len(got[Child]) \in Nat
      /\ Len(pipe[0]) \in Nat
    BY PipeTypesAre, ConcatProperties DEF Messages
<1>3. n = 1
    BY <1>1
<1>4. got'[Child] = got[Child] \o SubSeq(pipe[0], 1, n) /\ got'[Parent] = got[Parent]
    <2>1. Len(got[Child]) + Len(pipe[0]) <= Len(sent[Parent])
          /\ Len(sent[Parent]) \in 0 .. MaxLines /\ Pipe!MaxGot = 2 * MaxLines
        BY BcLengths
    <2>2. ASSUME NEW c \in Nat, NEW w \in Nat, NEW s \in 0 .. MaxLines, c + w <= s, n <= w
          PROVE  c + n <= 2 * MaxLines
        BY <1>3, <2>2, PipeConstants
    <2>3. n <= Len(pipe[0])
        BY <1>1, <1>2
    <2>4. Len(got[Child]) + n <= 2 * MaxLines
        BY <1>2, <2>1, <2>2, <2>3
    <2>5. Len(got[Child]) + n <= Pipe!MaxGot
        BY <2>1, <2>4
    <2> QED BY <1>1, <2>5, PipeTypesAre
<1>5. pipe'[0] = SubSeq(pipe[0], n + 1, Len(pipe[0])) /\ pipe'[1] = pipe[1]
    BY <1>1, PipeTypesAre
<1>6. Flow(sent[Parent], got'[Child], pipe'[0] \o buf)
    <2>1. Flow(sent[Parent], got[Child], pipe[0] \o buf)
        BY DEF BcFlow
    <2>2. /\ SubSeq(pipe[0] \o buf, 1, n) = SubSeq(pipe[0], 1, n) /\ n \in 1 .. Len(pipe[0] \o buf)
          /\ SubSeq(pipe[0] \o buf, n + 1, Len(pipe[0] \o buf))
                = SubSeq(pipe[0], n + 1, Len(pipe[0])) \o buf
        BY <1>2, ReadBefore
    <2>3. Flow(sent[Parent], got[Child] \o SubSeq(pipe[0] \o buf, 1, n),
               SubSeq(pipe[0] \o buf, n + 1, Len(pipe[0] \o buf)))
        BY <1>2, <2>1, <2>2, FlowRead
    <2> QED BY <1>4, <1>5, <2>2, <2>3
<1>7. Len(got'[Child]) = Len(got[Child]) + 1
    <2>1. SubSeq(pipe[0], 1, n) \in Messages /\ Len(SubSeq(pipe[0], 1, n)) = 1
        BY <1>2, <1>3, SplitIs
    <2> QED BY <1>2, <1>4, <2>1, ConcatProperties DEF Messages
<1>8. BcFlow'
    BY <1>4, <1>5, <1>6 DEF BcFlow, Flow, Numbered
<1> QED BY <1>4, <1>7, <1>8

\* dc writes a line.
LEMMA DcWrites ==
    ASSUME PipeTypes, BcFlow, UNCHANGED <<buf, typed, got>>, NEW m \in Pipe!Message,
           Puts(Child, 1, m), Len(sent[Child]) < Pipe!MaxGot
    PROVE  BcFlow' /\ sent'[Child] = Append(sent[Child], m) /\ sent'[Parent] = sent[Parent]
<1> Parent \in Pipe!Process /\ Child \in Pipe!Process /\ Parent # Child
    BY PipeConstants
<1>1. /\ pipe' = [pipe EXCEPT ![1] = Append(pipe[1], m)]
      /\ sent' = [sent EXCEPT ![Child] = Append(sent[Child], m)]
    <2>1. PICK s \in Messages : /\ sent' = [sent EXCEPT ![Child] = s]
                                /\ Len(sent[Child]) < Pipe!MaxGot => s = Append(sent[Child], m)
        BY DEF Puts
    <2>2. s = Append(sent[Child], m)
        BY <2>1
    <2> QED BY <2>1, <2>2 DEF Puts
<1>2. sent'[Child] = Append(sent[Child], m) /\ sent'[Parent] = sent[Parent]
    BY <1>1, PipeTypesAre
<1>3. pipe'[1] = Append(pipe[1], m) /\ pipe'[0] = pipe[0]
    BY <1>1, PipeTypesAre
<1>4. Flow(sent'[Child], got[Parent], pipe'[1])
    <2>1. Flow(sent[Child], got[Parent], pipe[1])
        BY DEF BcFlow
    <2> QED BY <1>2, <1>3, <2>1, FlowWrite, PipeTypesAre
<1>5. BcFlow'
    BY <1>2, <1>3, <1>4 DEF BcFlow, Flow, Numbered
<1> QED BY <1>2, <1>5

\* bc keeps its invariant: be_bc, the wait for dc, and the child up to dc.
LEMMA BeBcMoves ==
    ASSUME PipeTypes, Table(Parent), Table(Child), BcInv, PipeStep(Parent), In(Parent, "be_bc")
    PROVE  PipeTypes' /\ Table(Parent)' /\ Table(Child)' /\ program' = program /\ BcInv'
<1> DEFINE k == Len(sent[Parent])
           g == Len(got[Parent])
<1>1. /\ Parent \in Pipe!Process /\ Child \in Pipe!Process /\ Parent # Child
    BY PipeConstants
<1>2. /\ Ln(Parent) \in 1 .. 10 /\ BeBcTable(Parent) /\ pipe_at[Parent].fn = "be_bc"
      /\ ~ Over(Parent) /\ BcFlow /\ BcParent /\ BcChild
    BY DEF BcInv, BcPlaces, In, Over, Table
<1>3. k \in 0 .. MaxLines /\ Pipe!MaxGot = 2 * MaxLines /\ g \in Nat
      /\ typed \in 0 .. MaxLines /\ MaxLines \in Nat
    BY <1>1, <1>2, BcLengths, PipeTypesAre, PipeConstants DEF Messages
<1>4. /\ IF Ln(Parent) = 6 THEN Len(buf) = 1 ELSE buf = <<>>
      /\ Ln(Parent) = 5 => k < typed
      /\ Ln(Parent) \in 6 .. 7 => g = k - 1
      /\ Ln(Parent) \in 1 .. 5 => g = k
    BY <1>2 DEF BcParent, In
<1>5. Ln(Parent) = 5 => k < Pipe!MaxGot
    BY <1>3, <1>4
<1>6. /\ PipeTypes' /\ Table(Parent)' /\ program' = program
      /\ \/ Moves(Parent, "dead", 0) /\ SameData
         \/ Ln(Parent) \in {1, 2, 8, 9} /\ SameData /\ Moves(Parent, "be_bc", Ln(Parent) + 1)
         \/ Ln(Parent) = 3 /\ SameData /\ Moves(Parent, "be_bc", 4)
         \/ /\ Ln(Parent) = 4 /\ UNCHANGED <<pipe, buf, sent, got>>
            /\ \/ /\ typed' = typed + 1
                  /\ Moves(Parent, "be_bc", 5) \/ Moves(Parent, "be_bc", 4)
               \/ typed' = typed /\ Moves(Parent, "be_bc", 8)
         \/ /\ Ln(Parent) = 5 /\ UNCHANGED <<pipe, typed, got>> /\ Moves(Parent, "be_bc", 6)
            /\ Buffers(Parent)
         \/ /\ Ln(Parent) = 6 /\ UNCHANGED <<typed, sent, got>> /\ Moves(Parent, "be_bc", 7)
            /\ pipe' = [pipe EXCEPT ![0] = @ \o buf] /\ buf' = <<>>
         \/ /\ Ln(Parent) = 7 /\ UNCHANGED <<buf, typed, sent>>
            /\ \/ Moves(Parent, "be_bc", 4) /\ Takes(Parent, 1, 1)
               \/ Moves(Parent, "be_bc", 8) /\ UNCHANGED <<pipe, got>>
         \/ Ln(Parent) = 10 /\ SameData /\ Moves(Parent, "bc_main_wait", 1)
    BY <1>2, <1>5, BeBcSteps
<1>7. \E fn, ln : /\ Moves(Parent, fn, ln)
                  /\ \/ fn = "dead"
                     \/ fn = "be_bc" /\ ln \in 1 .. 10
                     \/ fn = "bc_main_wait" /\ ln = 1
    BY <1>6
<1>8. /\ Table(Child)' /\ pipe_at'[Child] = pipe_at[Child] /\ BcPlaces'
    <2>1. PICK fn, ln : /\ Moves(Parent, fn, ln)
                        /\ \/ fn = "dead"
                           \/ fn = "be_bc" /\ ln \in 1 .. 10
                           \/ fn = "bc_main_wait" /\ ln = 1
        BY <1>7
    <2>2. Table(Child)' /\ pipe_at'[Child] = pipe_at[Child]
        BY <1>1, <2>1, OtherStays
    <2>3. /\ \/ In(Child, "be_dc") /\ Ln(Child) \in 1 .. 8
             \/ In(Child, "dc") /\ Ln(Child) \in 1 .. 5
             \/ Over(Child)
        BY <1>2 DEF BcInv, BcPlaces, In, Over
    <2>4. BcPlaces'
        BY <2>1, <2>2, <2>3 DEF BcPlaces, Moves, In, Ln, Over
    <2> QED BY <2>2, <2>4
<1>9. sent'[Child] = sent[Child] /\ got'[Child] = got[Child] => BcChild'
    BY <1>2, <1>8, BcChildStays
<1> HIDE DEF k, g
<1>10. CASE Moves(Parent, "dead", 0) /\ SameData
    <2>1. BcFlow' /\ BcChild'
        BY <1>2, <1>9, <1>10, BcFlowStays DEF SameData
    <2>2. Over(Parent)'
        BY <1>10 DEF Moves, Over, In
    <2> QED BY <1>6, <1>8, <2>1, <2>2 DEF BcInv
<1>11. CASE /\ Ln(Parent) \in {1, 2, 3, 8, 9} /\ SameData
            /\ Moves(Parent, "be_bc", Ln(Parent) + 1)
    <2>1. BcFlow' /\ BcChild'
        BY <1>2, <1>9, <1>11, BcFlowStays DEF SameData
    <2>2. BcParent'
        BY <1>4, <1>11 DEF BcParent, Moves, In, Ln, SameData, k, g
    <2> QED BY <1>6, <1>8, <2>1, <2>2 DEF BcInv
<1>12. CASE /\ Ln(Parent) = 4 /\ UNCHANGED <<pipe, buf, sent, got>>
            /\ \/ /\ typed' = typed + 1
                  /\ Moves(Parent, "be_bc", 5) \/ Moves(Parent, "be_bc", 4)
               \/ typed' = typed /\ Moves(Parent, "be_bc", 8)
    <2>1. k <= typed
        BY <1>2 DEF BcFlow, k
    <2>2. k <= typed' /\ (typed' = typed + 1 => k < typed')
        BY <1>3, <1>12, <2>1
    <2>3. BcFlow' /\ BcChild'
        BY <1>2, <1>9, <1>12, <2>2 DEF BcFlow, Flow, Numbered, k
    <2>4. BcParent'
        BY <1>4, <1>12, <2>2 DEF BcParent, Moves, In, Ln, k, g
    <2> QED BY <1>6, <1>8, <2>3, <2>4 DEF BcInv
<1>13. CASE /\ Ln(Parent) = 5 /\ UNCHANGED <<pipe, typed, got>> /\ Moves(Parent, "be_bc", 6)
            /\ Buffers(Parent)
    <2>1. buf = <<>> /\ k < typed /\ g = k
        BY <1>4, <1>13
    <2>2. /\ BcFlow' /\ Len(buf') = 1 /\ Len(sent'[Parent]) = k + 1
          /\ sent'[Child] = sent[Child]
        BY <1>2, <1>13, <2>1, BcAsks DEF k
    <2>3. BcChild'
        BY <1>9, <1>13, <2>2
    <2>4. Len(got'[Parent]) = Len(sent'[Parent]) - 1
        BY <1>3, <1>13, <2>1, <2>2 DEF g
    <2>5. BcParent'
        BY <1>13, <2>2, <2>4 DEF BcParent, Moves, In, Ln
    <2> QED BY <1>6, <1>8, <2>2, <2>3, <2>5 DEF BcInv
<1>14. CASE /\ Ln(Parent) = 6 /\ UNCHANGED <<typed, sent, got>> /\ Moves(Parent, "be_bc", 7)
            /\ pipe' = [pipe EXCEPT ![0] = @ \o buf] /\ buf' = <<>>
    <2>1. BcFlow' /\ BcChild'
        BY <1>2, <1>9, <1>14, BcFlushes
    <2>2. BcParent'
        BY <1>4, <1>14 DEF BcParent, Moves, In, Ln, k, g
    <2> QED BY <1>6, <1>8, <2>1, <2>2 DEF BcInv
<1>15. CASE /\ Ln(Parent) = 7 /\ UNCHANGED <<buf, typed, sent>>
            /\ Moves(Parent, "be_bc", 4) /\ Takes(Parent, 1, 1)
    <2>1. g < Pipe!MaxGot /\ g = k - 1
        BY <1>3, <1>4, <1>15
    <2>2. BcFlow' /\ Len(got'[Parent]) = g + 1 /\ got'[Child] = got[Child]
        BY <1>2, <1>15, <2>1, BcReads DEF g
    <2>3. BcChild'
        BY <1>9, <1>15, <2>2
    <2>4. Len(got'[Parent]) = Len(sent'[Parent])
        BY <1>3, <1>15, <2>1, <2>2 DEF k
    <2>5. BcParent'
        BY <1>4, <1>15, <2>4 DEF BcParent, Moves, In, Ln
    <2> QED BY <1>6, <1>8, <2>2, <2>3, <2>5 DEF BcInv
<1>16. CASE /\ Ln(Parent) = 7 /\ UNCHANGED <<buf, typed, sent>>
            /\ Moves(Parent, "be_bc", 8) /\ UNCHANGED <<pipe, got>>
    <2>1. BcFlow' /\ BcChild'
        BY <1>2, <1>9, <1>16 DEF BcFlow, Flow, Numbered
    <2>2. BcParent'
        BY <1>4, <1>16 DEF BcParent, Moves, In, Ln
    <2> QED BY <1>6, <1>8, <2>1, <2>2 DEF BcInv
<1>17. CASE Ln(Parent) = 10 /\ SameData /\ Moves(Parent, "bc_main_wait", 1)
    <2>1. BcFlow' /\ BcChild'
        BY <1>2, <1>9, <1>17, BcFlowStays DEF SameData
    <2>2. BcParent'
        BY <1>4, <1>17 DEF BcParent, Moves, In, Ln, SameData
    <2> QED BY <1>6, <1>8, <2>1, <2>2 DEF BcInv
<1> QED BY <1>6, <1>10, <1>11, <1>12, <1>13, <1>14, <1>15, <1>16, <1>17

LEMMA WaitMoves ==
    ASSUME PipeTypes, Table(Parent), Table(Child), BcInv, PipeStep(Parent),
           In(Parent, "bc_main_wait")
    PROVE  PipeTypes' /\ Table(Parent)' /\ Table(Child)' /\ program' = program /\ BcInv'
<1>1. /\ Parent \in Pipe!Process /\ Child \in Pipe!Process /\ Parent # Child
    BY PipeConstants
<1>2. /\ Ln(Parent) \in 1 .. 2 /\ NoPipeTable(Parent)
      /\ ~ Over(Parent) /\ BcFlow /\ BcParent /\ BcChild
    BY DEF BcInv, BcPlaces, In, Over, Table
<1>3. /\ PipeTypes' /\ SameData /\ Table(Parent)'
      /\ \/ Moves(Parent, "bc_main_wait", 2)
         \/ Moves(Parent, "done", 0)
    BY <1>2, WaitSteps
<1>4. Table(Child)' /\ pipe_at'[Child] = pipe_at[Child]
    BY <1>1, <1>3, OtherStays
<1>5. BcFlow' /\ BcChild' /\ program' = program
    BY <1>2, <1>3, <1>4, BcChildStays, BcFlowStays DEF SameData
<1>6. /\ \/ In(Child, "be_dc") /\ Ln(Child) \in 1 .. 8
         \/ In(Child, "dc") /\ Ln(Child) \in 1 .. 5
         \/ Over(Child)
    BY DEF BcInv, BcPlaces, In, Over
<1>7. BcPlaces'
    BY <1>3, <1>4, <1>6 DEF BcPlaces, Moves, In, Ln, Over
<1>8. buf = <<>>
    BY <1>2 DEF BcParent, In
<1>9. Over(Parent)' \/ BcParent'
    BY <1>3, <1>8 DEF BcParent, Moves, In, Over, SameData
<1> QED BY <1>3, <1>4, <1>5, <1>7, <1>9 DEF BcInv

LEMMA BeDcMoves ==
    ASSUME PipeTypes, Table(Parent), Table(Child), BcInv, PipeStep(Child), In(Child, "be_dc")
    PROVE  PipeTypes' /\ Table(Parent)' /\ Table(Child)' /\ program' = program /\ BcInv'
<1>1. /\ Parent \in Pipe!Process /\ Child \in Pipe!Process /\ Parent # Child
    BY PipeConstants
<1>2. Ln(Child) \in 1 .. 8 /\ BeDcTable(Child) /\ BcFlow /\ BcChild
    BY DEF BcInv, BcPlaces, In, Over, Table
<1>3. /\ PipeTypes' /\ SameData /\ Table(Child)'
      /\ \/ Moves(Child, "dead", 0)
         \/ Ln(Child) < 8 /\ Moves(Child, "be_dc", Ln(Child) + 1)
         \/ Ln(Child) = 7 /\ Moves(Child, "dc", 1)
    BY <1>2, BeDcSteps
<1>4. Table(Parent)' /\ pipe_at'[Parent] = pipe_at[Parent]
    BY <1>1, <1>3, OtherStays
<1>5. BcFlow' /\ program' = program
    BY <1>2, <1>3, BcFlowStays DEF SameData
<1>6. /\ \/ In(Parent, "bc") /\ Ln(Parent) = 3
         \/ In(Parent, "be_bc") /\ Ln(Parent) \in 1 .. 10
         \/ In(Parent, "bc_main_wait") /\ Ln(Parent) \in 1 .. 2
         \/ Over(Parent)
    BY DEF BcInv, BcPlaces, In, Over
<1>7. BcPlaces'
    BY <1>2, <1>3, <1>4, <1>6 DEF BcPlaces, Moves, In, Ln, Over
<1>8. sent'[Child] = <<>> /\ got'[Child] = <<>>
    BY <1>2, <1>3 DEF BcChild, SameData
<1>9. BcChild'
    <2>1. Len(sent'[Child]) = 0 /\ Len(got'[Child]) = 0
        BY <1>8
    <2>2. ~ (In(Child, "dc") /\ Ln(Child) = 2)'
        BY <1>3 DEF Moves, In, Ln
    <2>3. Answers(sent[Child], Len(got[Child]))'
        BY <2>1, <2>2 DEF Answers, FirstLines, SecondLine
    <2>4. In(Child, "dc")' => Ln(Child)' = 1
        BY <1>3 DEF Moves, In, Ln
    <2> QED BY <1>8, <2>1, <2>3, <2>4 DEF BcChild
<1>10. (Over(Parent) \/ BcParent)'
    <2>1. CASE Over(Parent)
        BY <1>4, <2>1 DEF Over, In
    <2>2. CASE BcParent
        BY <1>3, <1>4, <2>2, BcParentStays DEF SameData
    <2> QED BY <2>1, <2>2 DEF BcInv
<1> QED BY <1>3, <1>4, <1>5, <1>7, <1>9, <1>10 DEF BcInv

\* The requests that dc has read are the first ones of bc, in their order.
LEMMA TheRequest ==
    ASSUME PipeTypes, BcFlow, got[Child] # <<>>
    PROVE  /\ Len(got[Child]) \in Nat \ {0}
           /\ got[Child][Len(got[Child])].no = Len(got[Child])
<1>1. got[Child] \in Messages /\ Child \in Pipe!Process
    BY PipeTypesAre, PipeConstants
<1>2. Len(got[Child]) \in Nat \ {0}
    BY <1>1 DEF Messages
<1>3. Len(got[Child]) \in 1 .. Len(sent[Parent])
    BY <1>2, BcLengths
<1>4. got[Child][Len(got[Child])] = sent[Parent][Len(got[Child])]
    BY <1>2 DEF BcFlow, Flow
<1>5. sent[Parent][Len(got[Child])].no = Len(got[Child])
    BY <1>3 DEF BcFlow, Numbered
<1> QED BY <1>2, <1>4, <1>5

\* The answers after the first line of an answer, and after its second one.
LEMMA AnswerGrows ==
    ASSUME NEW s \in Messages, NEW m \in Pipe!Message, NEW n \in Nat \ {0}, m.no = n,
           Answers(s, n), ~ Over(Child), In(Child, "dc"), Ln(Child) \in {2, 4},
           m.part = IF \E j \in DOMAIN s : s[j].no = n THEN 2 ELSE 1,
           In(Child, "dc")', (Ln(Child) = 2 /\ Ln(Child)' = 3) \/ (Ln(Child) = 4 /\ Ln(Child)' = 1),
           NEW t, t = Append(s, m)
    PROVE  \E k \in 0 .. Len(t) :
               FirstLines(t, k) /\ SecondLine(t, k) /\ (k = Len(t) => n = k)
<1>1. PICK k \in 0 .. Len(s) :
          /\ FirstLines(s, k) /\ SecondLine(s, k)
          /\ k = Len(s) => n = IF Ln(Child) = 2 THEN k + 1 ELSE k
    BY DEF Answers
<1>2. /\ Len(s) \in Nat /\ Len(t) = Len(s) + 1 /\ t[Len(s) + 1] = m
      /\ \A j \in 1 .. Len(s) : t[j] = s[j]
      /\ DOMAIN s = 1 .. Len(s)
    BY DEF Messages
<1>3. FirstLines(t, k)
    <2> DEFINE l == Len(s)
    <2>0. l \in Nat /\ k \in 0 .. l
        BY <1>1, <1>2
    <2> HIDE DEF l
    <2>1. \A j \in 1 .. k : j \in 1 .. l
        BY <2>0
    <2>2. \A j \in 1 .. k : t[j] = s[j]
        BY <1>2, <2>1 DEF l
    <2> QED BY <1>1, <2>2 DEF FirstLines
<1>4. k \in 0 .. Len(t) /\ k # Len(t)
    <2>1. \A l \in Nat : k \in 0 .. l => k \in 0 .. l + 1 /\ k # l + 1
        OBVIOUS
    <2> QED BY <1>2, <2>1
<1>5. CASE k < Len(s)
    <2>1. k + 1 \in 1 .. Len(s) /\ k < Len(t)
        BY <1>2, <1>5
    <2>2. t[k + 1] = s[k + 1]
        BY <1>2, <2>1
    <2>3. SecondLine(t, k)
        BY <1>1, <1>5, <2>2 DEF SecondLine
    <2> QED BY <1>3, <1>4, <2>3
<1>6. CASE k = Len(s) /\ Ln(Child) = 2
    <2>1. n = k + 1
        BY <1>1, <1>6
    <2>2. \A j \in 1 .. k : s[j].no = j /\ j # n
        BY <1>1, <2>1 DEF FirstLines
    <2>3. ~ \E j \in DOMAIN s : s[j].no = n
        BY <1>2, <1>6, <2>2
    <2>4. t[k + 1].no = k + 1 /\ t[k + 1].part = 1
        <3>1. m.part = 1
            BY <2>3
        <3> QED BY <1>2, <1>6, <2>1, <3>1
    <2>5. \A j \in 1 .. k + 1 : j \in 1 .. k \/ j = k + 1
        BY <1>1
    <2>6. FirstLines(t, k + 1)
        BY <1>3, <2>4, <2>5 DEF FirstLines
    <2>7. k + 1 \in 0 .. Len(t) /\ k + 1 = Len(t)
        BY <1>1, <1>2, <1>6
    <2>8. SecondLine(t, k + 1)
        <3>1. ~ (k + 1 < Len(t))
            BY <1>1, <2>7
        <3> QED BY <3>1 DEF SecondLine
    <2> QED BY <2>1, <2>6, <2>7, <2>8
<1>7. CASE k = Len(s) /\ Ln(Child) = 4
    <2>1. n = k
        BY <1>1, <1>7
    <2>2. k \in 1 .. k /\ k \in DOMAIN s /\ k > 0
        BY <1>1, <1>2, <1>7, <2>1
    <2>3. s[k].no = n
        BY <1>1, <2>1, <2>2 DEF FirstLines
    <2>4. m.part = 2
        BY <2>2, <2>3
    <2>5. SecondLine(t, k)
        BY <1>2, <1>7, <2>1, <2>2, <2>4 DEF SecondLine
    <2> QED BY <1>3, <1>4, <2>5
<1> QED
    <2>1. k < Len(s) \/ k = Len(s)
        BY <1>1, <1>2
    <2> QED BY <1>5, <1>6, <1>7, <2>1

\* dc keeps it: each of its lines answers its latest request.
LEMMA DcMoves ==
    ASSUME PipeTypes, Table(Parent), Table(Child), BcInv, PipeStep(Child), In(Child, "dc")
    PROVE  PipeTypes' /\ Table(Parent)' /\ Table(Child)' /\ program' = program /\ BcInv'
<1> DEFINE n == Len(got[Child])
           k == Len(sent[Child])
           m == Pipe!Its(Child, TRUE)
<1>1. /\ Parent \in Pipe!Process /\ Child \in Pipe!Process /\ Parent # Child
    BY PipeConstants
<1>2. /\ Ln(Child) \in 1 .. 5 /\ DcTable(Child) /\ BcFlow /\ BcChild /\ ~ Over(Child)
    BY DEF BcInv, BcPlaces, In, Over, Table
<1>3. Ln(Child) \in 2 .. 4 => got[Child] # <<>>
    BY <1>2 DEF BcChild
<1>4. /\ PipeTypes' /\ Table(Child)' /\ UNCHANGED <<program, buf, typed>> /\ DcStep
    BY <1>2, <1>3, DcSteps
<1>5. \E fn, ln : /\ Moves(Child, fn, ln)
                  /\ \/ fn \in {"dead", "done"}
                     \/ fn = "dc" /\ ln \in 1 .. 5
    <2>1. \/ Moves(Child, "dead", 0) \/ Moves(Child, "done", 0)
          \/ Moves(Child, "dc", 1) \/ Moves(Child, "dc", 2) \/ Moves(Child, "dc", 3)
          \/ Moves(Child, "dc", 4) \/ Moves(Child, "dc", 5)
        BY <1>4 DEF DcStep
    <2>2. {1, 2, 3, 4, 5} = 1 .. 5
        OBVIOUS
    <2> QED BY <2>1, <2>2
<1>6. /\ Table(Parent)' /\ pipe_at'[Parent] = pipe_at[Parent] /\ BcPlaces'
    <2>1. PICK fn, ln : /\ Moves(Child, fn, ln)
                        /\ \/ fn \in {"dead", "done"}
                           \/ fn = "dc" /\ ln \in 1 .. 5
        BY <1>5
    <2>2. Table(Parent)' /\ pipe_at'[Parent] = pipe_at[Parent]
        BY <1>1, <2>1, OtherStays
    <2>3. /\ \/ In(Parent, "bc") /\ Ln(Parent) = 3
             \/ In(Parent, "be_bc") /\ Ln(Parent) \in 1 .. 10
             \/ In(Parent, "bc_main_wait") /\ Ln(Parent) \in 1 .. 2
             \/ Over(Parent)
        BY DEF BcInv, BcPlaces, In, Over
    <2>4. BcPlaces'
        BY <2>1, <2>2, <2>3 DEF BcPlaces, Moves, In, Ln, Over
    <2> QED BY <2>2, <2>4
<1>7. sent'[Parent] = sent[Parent] /\ got'[Parent] = got[Parent] => (Over(Parent) \/ BcParent)'
    <2>1. CASE Over(Parent)
        BY <1>6, <2>1 DEF Over, In
    <2>2. CASE BcParent
        BY <1>4, <1>6, <2>2, BcParentStays
    <2> QED BY <2>1, <2>2 DEF BcInv
<1>8. n \in 0 .. MaxLines /\ k \in Nat /\ Pipe!MaxGot = 2 * MaxLines /\ MaxLines \in Nat
    <2>1. sent[Child] \in Messages /\ MaxLines \in Nat
        BY <1>1, PipeTypesAre, PipeConstants
    <2>2. n \in 0 .. Len(sent[Parent]) /\ Len(sent[Parent]) \in 0 .. MaxLines
          /\ Pipe!MaxGot = 2 * MaxLines
        BY <1>2, BcLengths
    <2>3. \A s \in 0 .. MaxLines : \A c \in 0 .. s : c \in 0 .. MaxLines
        BY <2>1
    <2> QED BY <2>1, <2>2, <2>3 DEF Messages
<1>9. /\ Answers(sent[Child], n)
      /\ Ln(Child) = 2 => k \in n - 1 .. 2 * n - 2
      /\ Ln(Child) \in 3 .. 4 => k \in n .. 2 * n - 1
      /\ Ln(Child) \in {1, 5} => k \in n .. 2 * n
    BY <1>2 DEF BcChild
<1>10. Ln(Child) \in 2 .. 4 => n \in Nat \ {0} /\ m \in Pipe!Message /\ m.no = n
                               /\ m.part = IF \E j \in DOMAIN sent[Child] : sent[Child][j].no = n
                                           THEN 2 ELSE 1
    BY <1>1, <1>2, <1>3, ItsType, TheRequest
<1> HIDE DEF n, k, m
<1>11. CASE SameData /\ (Moves(Child, "dead", 0) \/ Moves(Child, "done", 0))
    <2>1. BcFlow' /\ (Over(Parent) \/ BcParent)'
        BY <1>2, <1>7, <1>11, BcFlowStays DEF SameData
    <2>2. Over(Child)' /\ ~ In(Child, "dc")' /\ ~ In(Child, "be_dc")' /\ ~ In(Child, "unborn")'
        BY <1>11 DEF Moves, Over, In
    <2>3. Answers(sent[Child], Len(got[Child]))'
        BY <1>9, <1>11, <2>2 DEF Answers, SameData
    <2>4. BcChild'
        BY <2>2, <2>3 DEF BcChild
    <2> QED BY <1>4, <1>6, <2>1, <2>4 DEF BcInv
<1>12. CASE Ln(Child) = 1 /\ UNCHANGED sent /\ Moves(Child, "dc", 2) /\ Takes(Child, 0, 1)
    <2>1. BcFlow' /\ Len(got'[Child]) = n + 1 /\ got'[Parent] = got[Parent]
        BY <1>2, <1>4, <1>12, DcReads DEF n
    <2>2. In(Child, "dc")' /\ Ln(Child)' = 2
        BY <1>12 DEF Moves, In, Ln
    <2>3. Answers(sent[Child], Len(got[Child]))'
        <3>1. PICK a \in 0 .. Len(sent[Child]) :
                  /\ FirstLines(sent[Child], a) /\ SecondLine(sent[Child], a)
                  /\ a = Len(sent[Child]) => n = a
            BY <1>2, <1>9, <1>12 DEF Answers
        <3>2. a = Len(sent[Child]) => Len(got'[Child]) = a + 1
            BY <2>1, <3>1
        <3> QED BY <1>12, <2>2, <3>1, <3>2 DEF Answers
    <2>4. k \in (n + 1) - 1 .. 2 * (n + 1) - 2
        BY <1>8, <1>9, <1>12
    <2>5. got'[Child] # <<>>
        <3>1. n + 1 # 0
            BY <1>8
        <3> QED BY <2>1, <3>1
    <2>6. BcChild'
        BY <1>12, <2>1, <2>2, <2>3, <2>4, <2>5 DEF BcChild, In, k
    <2> QED BY <1>4, <1>6, <1>7, <1>12, <2>1, <2>6 DEF BcInv
<1>13. CASE /\ SameData
            /\ \/ Ln(Child) = 1 /\ Moves(Child, "dc", 5)
               \/ Ln(Child) = 3 /\ Moves(Child, "dc", 1)
               \/ Ln(Child) = 3 /\ Moves(Child, "dc", 4)
    <2>1. BcFlow' /\ (Over(Parent) \/ BcParent)'
        BY <1>2, <1>7, <1>13, BcFlowStays DEF SameData
    <2>2. In(Child, "dc")' /\ Ln(Child)' \in {1, 4, 5} /\ (Ln(Child)' = 4 => Ln(Child) = 3)
        BY <1>13 DEF Moves, In, Ln
    <2>3. Answers(sent[Child], Len(got[Child]))'
        BY <1>2, <1>9, <1>13, <2>2 DEF Answers, SameData, n, Over, In
    <2>4. IF Ln(Child)' = 4 THEN k \in n .. 2 * n - 1 ELSE k \in n .. 2 * n
        BY <1>8, <1>9, <1>13, <2>2
    <2>5. Len(sent'[Child]) = k /\ Len(got'[Child]) = n /\ (Ln(Child)' = 4 => got'[Child] # <<>>)
        BY <1>3, <1>13, <2>2 DEF SameData, n, k
    <2>6. BcChild'
        BY <2>2, <2>3, <2>4, <2>5 DEF BcChild, In
    <2> QED BY <1>4, <1>6, <2>1, <2>6 DEF BcInv
<1>14. CASE /\ UNCHANGED got /\ Puts(Child, 1, m)
            /\ \/ Ln(Child) = 2 /\ Moves(Child, "dc", 3)
               \/ Ln(Child) = 4 /\ Moves(Child, "dc", 1)
    <2>1. k < Pipe!MaxGot
        BY <1>8, <1>9, <1>14
    <2>2. BcFlow' /\ sent'[Child] = Append(sent[Child], m) /\ sent'[Parent] = sent[Parent]
        BY <1>2, <1>4, <1>10, <1>14, <2>1, DcWrites DEF k
    <2>3. In(Child, "dc")' /\ \/ Ln(Child) = 2 /\ Ln(Child)' = 3
                              \/ Ln(Child) = 4 /\ Ln(Child)' = 1
        BY <1>14 DEF Moves, In, Ln
    <2>4. sent[Child] \in Messages
        BY <1>1, PipeTypesAre
    <2>5. Answers(sent[Child], Len(got[Child]))'
        <3> DEFINE t == sent'[Child]
        <3>1. \E a \in 0 .. Len(t) :
                  FirstLines(t, a) /\ SecondLine(t, a) /\ (a = Len(t) => n = a)
            <4>1. n \in Nat \ {0} /\ m \in Pipe!Message /\ m.no = n
                  /\ m.part = IF \E j \in DOMAIN sent[Child] : sent[Child][j].no = n
                              THEN 2 ELSE 1
                BY <1>10, <1>14
            <4> QED BY <1>2, <1>9, <2>2, <2>3, <2>4, <4>1, AnswerGrows
        <3>2. Len(got'[Child]) = n /\ Ln(Child)' # 2
            BY <1>14, <2>3 DEF n
        <3> QED BY <3>1, <3>2 DEF Answers
    <2>6. Len(sent'[Child]) = k + 1 /\ Len(got'[Child]) = n /\ got'[Child] = got[Child]
        BY <1>14, <2>2, <2>4 DEF Messages, k, n
    <2>7. IF Ln(Child)' = 3 THEN k + 1 \in n .. 2 * n - 1 ELSE k + 1 \in n .. 2 * n
        BY <1>8, <1>9, <2>3
    <2>8. BcChild'
        BY <1>3, <2>3, <2>5, <2>6, <2>7 DEF BcChild, In
    <2> QED BY <1>4, <1>6, <1>7, <1>14, <2>2, <2>8 DEF BcInv
<1> QED
    <2>1. \/ SameData /\ (Moves(Child, "dead", 0) \/ Moves(Child, "done", 0))
          \/ Ln(Child) = 1 /\ UNCHANGED sent /\ Moves(Child, "dc", 2) /\ Takes(Child, 0, 1)
          \/ /\ SameData
             /\ \/ Ln(Child) = 1 /\ Moves(Child, "dc", 5)
                \/ Ln(Child) = 3 /\ Moves(Child, "dc", 1)
                \/ Ln(Child) = 3 /\ Moves(Child, "dc", 4)
          \/ /\ UNCHANGED got /\ Puts(Child, 1, m)
             /\ \/ Ln(Child) = 2 /\ Moves(Child, "dc", 3)
                \/ Ln(Child) = 4 /\ Moves(Child, "dc", 1)
        BY <1>4 DEF DcStep, SameData, m
    <2> QED BY <1>11, <1>12, <1>13, <1>14, <2>1

\* Every step of bc_demo_1.c.
LEMMA BcKeeps ==
    ASSUME PipeTypes, Table(Parent), Table(Child), BcInv, NEW p \in Pipe!Process, PipeStep(p)
    PROVE  PipeTypes' /\ Table(Parent)' /\ Table(Child)' /\ program' = program /\ BcInv'
<1>1. ~ In(p, "unborn") /\ ~ Over(p)
    BY ActsAs DEF Pipe!Alive, In, Over
<1>2. CASE p = Parent
    BY <1>1, <1>2, BcMoves, BeBcMoves, WaitMoves DEF BcInv, BcPlaces
<1>3. CASE p = Child
    BY <1>1, <1>3, BeDcMoves, DcMoves DEF BcInv, BcPlaces
<1> QED BY <1>2, <1>3, PipeConstants

----------------------------------------------------------------------------
(* The other programs use one pipe.                                         *)

\* Pipe 0 is in bounds.
LEMMA OnePipe ==
    /\ Parent \in Pipe!Process /\ Child \in Pipe!Process /\ Parent # Child
    /\ MaxLines \in Nat \ {0} /\ PipeSize \in Nat \ {0} /\ Pipe!MaxGot = 2 * MaxLines
BY PipeConstants DEF Pipe!MaxGot

\* Flow(sent, got, pipe[0]) when a message is written, and when some are read.
LEMMA WriteFlows ==
    ASSUME PipeTypes, NEW p \in Pipe!Process, NEW q \in Pipe!Process, NEW m \in Pipe!Message,
           Flow(sent[p], got[q], pipe[0]), Puts(p, 0, m), got' = got,
           Len(sent[p]) < Pipe!MaxGot
    PROVE  /\ Flow(sent[p], got[q], pipe[0])'
           /\ sent'[p] = Append(sent[p], m) /\ pipe'[0] = Append(pipe[0], m)
           /\ Len(sent'[p]) = Len(sent[p]) + 1 /\ Len(pipe'[0]) = Len(pipe[0]) + 1
<1>1. /\ pipe' = [pipe EXCEPT ![0] = Append(pipe[0], m)]
      /\ sent' = [sent EXCEPT ![p] = Append(sent[p], m)]
    <2>1. PICK s \in Messages : /\ sent' = [sent EXCEPT ![p] = s]
                                /\ Len(sent[p]) < Pipe!MaxGot => s = Append(sent[p], m)
        BY DEF Puts
    <2> QED BY <2>1 DEF Puts
<1>2. /\ sent[p] \in Messages /\ got[q] \in Messages /\ pipe[0] \in Messages
      /\ DOMAIN pipe = {0, 1} /\ DOMAIN sent = Pipe!Process
    BY PipeTypesAre
<1>3. sent'[p] = Append(sent[p], m) /\ pipe'[0] = Append(pipe[0], m)
    BY <1>1, <1>2
<1>4. Flow(Append(sent[p], m), got[q], Append(pipe[0], m))
    BY <1>2, FlowWrite
<1>5. \A s \in Messages : Len(Append(s, m)) = Len(s) + 1
    BY DEF Messages
<1> QED BY <1>2, <1>3, <1>4, <1>5

LEMMA ReadFlows ==
    ASSUME PipeTypes, NEW p \in Pipe!Process, NEW q \in Pipe!Process, NEW most,
           Flow(sent[p], got[q], pipe[0]), Takes(q, 0, most), sent' = sent,
           Len(sent[p]) <= Pipe!MaxGot
    PROVE  /\ Flow(sent[p], got[q], pipe[0])'
           /\ pipe[0] # <<>> /\ (Len(pipe[0]) = 1 => pipe'[0] = <<>>)
<1>1. PICK n \in 1 .. Len(pipe[0]), g \in Messages :
          /\ pipe' = [pipe EXCEPT ![0] = SubSeq(pipe[0], n + 1, Len(pipe[0]))]
          /\ got' = [got EXCEPT ![q] = g]
          /\ Len(got[q]) + n <= Pipe!MaxGot => g = got[q] \o SubSeq(pipe[0], 1, n)
    BY DEF Takes
<1>2. /\ sent[p] \in Messages /\ got[q] \in Messages /\ pipe[0] \in Messages
      /\ DOMAIN pipe = {0, 1} /\ DOMAIN got = Pipe!Process
    BY PipeTypesAre
<1>3. Len(sent[p]) \in Nat /\ Len(got[q]) \in Nat /\ Len(pipe[0]) \in Nat
      /\ Pipe!MaxGot \in Nat /\ Len(sent[p]) = Len(got[q]) + Len(pipe[0])
    BY <1>2, OnePipe DEF Messages, Flow
<1>4. Len(got[q]) + n <= Pipe!MaxGot
    <2>1. ASSUME NEW s \in Nat, NEW g1 \in Nat, NEW w \in Nat, NEW b \in Nat, NEW n1 \in 1 .. w,
                 s = g1 + w, s <= b
          PROVE  g1 + n1 <= b
        BY <2>1
    <2> QED BY <1>3, <2>1
<1>5. got'[q] = got[q] \o SubSeq(pipe[0], 1, n)
      /\ pipe'[0] = SubSeq(pipe[0], n + 1, Len(pipe[0]))
    BY <1>1, <1>2, <1>4
<1>6. Flow(sent[p], got[q] \o SubSeq(pipe[0], 1, n), SubSeq(pipe[0], n + 1, Len(pipe[0])))
    BY <1>2, FlowRead
<1>7. Flow(sent[p], got[q], pipe[0])'
    BY <1>5, <1>6
<1>8. Len(pipe[0]) # 0
    BY <1>3
<1>9. Len(pipe[0]) = 1 => pipe'[0] = <<>>
    <2>1. SubSeq(pipe[0], n + 1, Len(pipe[0])) \in Messages
          /\ Len(SubSeq(pipe[0], n + 1, Len(pipe[0]))) = Len(pipe[0]) - n
        BY <1>2, SplitIs
    <2>2. Len(pipe[0]) = 1 => Len(pipe[0]) - n = 0
        BY <1>3
    <2>3. \A w \in Messages : Len(w) = 0 => w = <<>>
        BY DEF Messages
    <2> QED BY <1>5, <2>1, <2>2, <2>3
<1> QED BY <1>7, <1>8, <1>9

\* Whom a reader at the end of file has not to expect any more.
LEMMA NobodyWrites ==
    ASSUME NEW p \in Pipe!Process, Pipe!Holders(W(0)) = {}, NEW f \in Pipe!Fd
    PROVE  fds[p][f] # W(0)
BY DEF Pipe!Holders

\* pipe_demo_1.c and pipe_demo_2.c keep their invariants.
LEMMA Demo1Keeps ==
    ASSUME PipeTypes, Table(Parent), Table(Child), Demo1Inv, NEW p \in Pipe!Process, PipeStep(p)
    PROVE  PipeTypes' /\ Table(Parent)' /\ Table(Child)' /\ program' = program /\ Demo1Inv'
<1> DEFINE k == Len(sent[Parent])
           m == Pipe!Its(Parent, FALSE)
<1>1. p = Parent /\ In(Parent, "demo1") /\ Ln(Parent) \in 1 .. 5
    BY ActsAs, PipeConstants DEF Demo1Inv, Pipe!Alive, In, Over
<1>2. PipeTypes' /\ Table(Parent)' /\ program' = program /\ Demo1Step
    BY <1>1, Demo1Steps DEF Table
<1>3. \E fn, ln : Moves(Parent, fn, ln)
    BY <1>2 DEF Demo1Step
<1>4. Table(Child)' /\ In(Child, "unborn")'
    BY <1>3, OnePipe, OtherStays DEF Demo1Inv, In
<1>5. k \in Nat /\ typed \in 0 .. MaxLines /\ (Ln(Parent) < 5 => k <= typed)
    BY <1>1, OnePipe, PipeTypesAre DEF Messages, Demo1Inv
<1>6. Len(pipe[0]) \in Nat /\ Len(pipe'[0]) \in Nat
    <2>1. pipe[0] \in Seq(Pipe!Message) /\ pipe'[0] \in Seq(Pipe!Message)
        BY <1>2, PipeConstants DEF PipeTypes
    <2> QED BY <2>1
<1>7. m \in Pipe!Message /\ m.no = k + 1 /\ m.part = 1
    BY OnePipe, ItsType
<1> HIDE DEF k, m
<1>8. CASE Moves(Parent, "dead", 0) \/ (SameData /\ Moves(Parent, "done", 0))
    <2>1. Over(Parent)' /\ ~ In(Parent, "demo1")'
        BY <1>8 DEF Moves, Over, In
    <2> QED BY <1>2, <1>4, <2>1 DEF Demo1Inv
<1>9. CASE Ln(Parent) = 1 /\ SameData /\ Moves(Parent, "demo1", 2)
    <2>1. In(Parent, "demo1")' /\ Ln(Parent)' = 2
        BY <1>9 DEF Moves, Ln, In
    <2>2. /\ Flow(sent[Parent], got[Parent], pipe[0]) /\ Numbered(sent[Parent])
          /\ Len(sent[Parent]) <= typed /\ Len(pipe[0]) = 0
        BY <1>1, <1>9 DEF Demo1Inv
    <2>3. /\ Flow(sent[Parent], got[Parent], pipe[0])' /\ Numbered(sent[Parent])'
          /\ Len(sent'[Parent]) <= typed' /\ Len(pipe'[0]) = 0
        BY <1>9, <2>2 DEF SameData, Flow, Numbered
    <2> QED BY <1>2, <1>4, <2>1, <2>3 DEF Demo1Inv
<1>10. CASE /\ Ln(Parent) = 2 /\ UNCHANGED <<pipe, buf, sent, got>>
            /\ typed' = typed + 1 /\ Moves(Parent, "demo1", 3)
    <2>1. In(Parent, "demo1")' /\ Ln(Parent)' = 3
        BY <1>10 DEF Moves, Ln, In
    <2>2. k < typed'
        BY <1>5, <1>10
    <2>3. /\ Flow(sent[Parent], got[Parent], pipe[0]) /\ Numbered(sent[Parent])
          /\ Len(pipe[0]) = 0
        BY <1>1, <1>10 DEF Demo1Inv
    <2>4. /\ Flow(sent[Parent], got[Parent], pipe[0])' /\ Numbered(sent[Parent])'
          /\ Len(sent'[Parent]) < typed' /\ Len(pipe'[0]) = 0
        BY <1>10, <2>2, <2>3 DEF Flow, Numbered, k
    <2>5. Len(sent'[Parent]) <= typed'
        BY <1>5, <1>10, <2>2 DEF k
    <2> QED BY <1>2, <1>4, <2>1, <2>4, <2>5 DEF Demo1Inv
<1>11. CASE Moves(Parent, "demo1", 5)
    <2>1. In(Parent, "demo1")' /\ Ln(Parent)' = 5
        BY <1>11 DEF Moves, Ln, In
    <2> QED BY <1>2, <1>4, <2>1 DEF Demo1Inv
<1>12. CASE /\ Ln(Parent) = 3 /\ UNCHANGED <<buf, typed, got>> /\ Moves(Parent, "demo1", 4)
            /\ Puts(Parent, 0, m)
    <2>1. In(Parent, "demo1")' /\ Ln(Parent)' = 4
        BY <1>12 DEF Moves, Ln, In
    <2>2. /\ Flow(sent[Parent], got[Parent], pipe[0]) /\ Numbered(sent[Parent])
          /\ k < typed /\ Len(pipe[0]) = 0
        BY <1>1, <1>12 DEF Demo1Inv, k
    <2>3. k < Pipe!MaxGot
        BY <1>5, <2>2, OnePipe
    <2>4. /\ Flow(sent[Parent], got[Parent], pipe[0])' /\ sent'[Parent] = Append(sent[Parent], m)
          /\ Len(sent'[Parent]) = k + 1 /\ Len(pipe'[0]) = 1
        BY <1>7, <1>12, <2>2, <2>3, OnePipe, WriteFlows DEF k
    <2>5. Numbered(sent[Parent])'
        BY <1>7, <2>2, <2>4, NumberedGrows, PipeTypesAre, OnePipe DEF k
    <2>6. Len(sent'[Parent]) <= typed'
        BY <1>5, <1>12, <2>2, <2>4
    <2> QED BY <1>2, <1>4, <2>1, <2>4, <2>5, <2>6 DEF Demo1Inv
<1>13. CASE /\ Ln(Parent) = 4 /\ UNCHANGED <<buf, typed, sent>>
            /\ Moves(Parent, "demo1", 2) /\ Takes(Parent, 0, PipeSize)
    <2>1. In(Parent, "demo1")' /\ Ln(Parent)' = 2
        BY <1>13 DEF Moves, Ln, In
    <2>2. /\ Flow(sent[Parent], got[Parent], pipe[0]) /\ Numbered(sent[Parent])
          /\ k <= typed /\ Len(pipe[0]) = 1
        BY <1>1, <1>13 DEF Demo1Inv, k
    <2>3. k <= Pipe!MaxGot
        BY <1>5, <2>2, OnePipe
    <2>4. Flow(sent[Parent], got[Parent], pipe[0])' /\ pipe'[0] = <<>>
        BY <1>13, <2>2, <2>3, OnePipe, ReadFlows DEF k
    <2>5. Numbered(sent[Parent])' /\ Len(sent'[Parent]) <= typed' /\ Len(pipe'[0]) = 0
        BY <1>13, <2>2, <2>4 DEF k, Numbered
    <2> QED BY <1>2, <1>4, <2>1, <2>4, <2>5 DEF Demo1Inv
<1> QED BY <1>2, <1>8, <1>9, <1>10, <1>11, <1>12, <1>13 DEF Demo1Step, m

LEMMA Demo2Keeps ==
    ASSUME PipeTypes, Table(Parent), Table(Child), Demo2Inv, NEW p \in Pipe!Process, PipeStep(p)
    PROVE  PipeTypes' /\ Table(Parent)' /\ Table(Child)' /\ program' = program /\ Demo2Inv'
<1>1. ~ In(p, "unborn") /\ ~ Over(p)
    BY ActsAs DEF Pipe!Alive, In, Over
<1>2. CASE p = Parent
    <2>1. In(Parent, "demo2") /\ Ln(Parent) \in 1 .. 5
        BY <1>1, <1>2 DEF Demo2Inv
    <2>2. /\ PipeTypes' /\ Table(Parent)' /\ program' = program
          /\ \/ Moves(Parent, "dead", 0) \/ Moves(Parent, "done", 0)
             \/ Ln(Parent) = 1 /\ Moves(Parent, "demo2", 2)
             \/ /\ Ln(Parent) = 2 /\ In(Parent, "demo2")' /\ Ln(Parent)' = 3
                /\ In(Child, "demo2_child")' /\ Ln(Child)' = 1 /\ Table(Child)'
             \/ Ln(Parent) = 3 /\ Moves(Parent, "demo2", 4)
             \/ Ln(Parent) = 4 /\ Moves(Parent, "demo2", 5)
        BY <1>2, <2>1, Demo2Steps DEF Table
    <2>3. CASE /\ Ln(Parent) = 2 /\ In(Parent, "demo2")' /\ Ln(Parent)' = 3
               /\ In(Child, "demo2_child")' /\ Ln(Child)' = 1 /\ Table(Child)'
        BY <2>2, <2>3 DEF Demo2Inv
    <2>4. CASE \E fn, ln : /\ Moves(Parent, fn, ln)
                           /\ \/ fn \in {"dead", "done"}
                              \/ fn = "demo2" /\ ln = 2 /\ Ln(Parent) = 1
                              \/ fn = "demo2" /\ ln \in 4 .. 5 /\ Ln(Parent) \in 3 .. 4
        <3>1. PICK fn, ln : /\ Moves(Parent, fn, ln)
                            /\ \/ fn \in {"dead", "done"}
                               \/ fn = "demo2" /\ ln = 2 /\ Ln(Parent) = 1
                               \/ fn = "demo2" /\ ln \in 4 .. 5 /\ Ln(Parent) \in 3 .. 4
            BY <2>4
        <3>2. Table(Child)' /\ pipe_at'[Child] = pipe_at[Child]
            BY <3>1, OnePipe, OtherStays
        <3>3. Demo2Inv'
            BY <2>1, <3>1, <3>2 DEF Demo2Inv, Moves, In, Ln, Over
        <3> QED BY <2>2, <3>2, <3>3
    <2> QED
        <3>1. 4 \in 4 .. 5 /\ 5 \in 4 .. 5 /\ 3 \in 3 .. 4 /\ 4 \in 3 .. 4
            OBVIOUS
        <3> QED BY <2>2, <2>3, <2>4, <3>1
<1>3. CASE p = Child
    <2>1. In(Child, "demo2_child") /\ Ln(Child) = 1
        BY <1>1, <1>3 DEF Demo2Inv
    <2>2. /\ PipeTypes' /\ Table(Child)' /\ program' = program
          /\ Moves(Child, "demo2_child", 1)
        BY <1>3, <2>1, Demo2ChildSteps DEF Table
    <2>3. Table(Parent)' /\ pipe_at'[Parent] = pipe_at[Parent]
        BY <2>2, OnePipe, OtherStays
    <2>4. Demo2Inv'
        BY <2>1, <2>2, <2>3 DEF Demo2Inv, Moves, In, Ln, Over
    <2> QED BY <2>2, <2>3, <2>4
<1> QED BY <1>2, <1>3, PipeConstants

\* pipe_demo_3.c: the parent writes one message, the child reads once.
LEMMA Demo3Keeps ==
    ASSUME PipeTypes, Table(Parent), Table(Child), Demo3Inv, NEW p \in Pipe!Process, PipeStep(p)
    PROVE  PipeTypes' /\ Table(Parent)' /\ Table(Child)' /\ program' = program /\ Demo3Inv'
<1> DEFINE k == Len(sent[Parent])
           Places ==
               \/ In(Parent, "demo3") /\ Ln(Parent) \in 1 .. 2 /\ In(Child, "unborn")
               \/ Over(Parent) /\ In(Child, "unborn")
               \/ /\ Over(Parent) \/ (In(Parent, "demo3") /\ Ln(Parent) \in 3 .. 7)
                  /\ Over(Child) \/ (In(Child, "demo3_child") /\ Ln(Child) \in 1 .. 4)
           Early == In(Child, "unborn") \/ (In(Child, "demo3_child") /\ Ln(Child) < 3)
           Late == Over(Child) \/ (In(Child, "demo3_child") /\ Ln(Child) > 2)
<1>1. ~ In(p, "unborn") /\ ~ Over(p)
    BY ActsAs DEF Pipe!Alive, In, Over
<1>2. /\ Places /\ Flow(sent[Parent], got[Child], pipe[0]) /\ k <= 1
      /\ In(Parent, "demo3") /\ Ln(Parent) < 5 => sent[Parent] = <<>>
      /\ Early => got[Child] = <<>>
      /\ Late => pipe[0] = <<>> /\ (In(Parent, "demo3") => Ln(Parent) > 4)
    BY DEF Demo3Inv
<1>3. k \in 0 .. 1 /\ k <= Pipe!MaxGot /\ 1 <= Pipe!MaxGot
    <2>1. k \in Nat
        BY OnePipe, PipeTypesAre DEF Messages
    <2>2. \A b \in Nat \ {0} : \A c \in Nat : c <= 1 => c \in 0 .. 1 /\ c <= 2 * b /\ 1 <= 2 * b
        OBVIOUS
    <2> HIDE DEF k
    <2> QED BY <1>2, <2>1, <2>2, OnePipe
<1>4. /\ In(Parent, "demo3") => Ln(Parent) \in 1 .. 7
      /\ In(Parent, "demo3") /\ ~ In(Child, "unborn") => Ln(Parent) \in 3 .. 7
    BY <1>2 DEF In, Over
<1>5. CASE p = Parent
    <2>1. In(Parent, "demo3") /\ Ln(Parent) \in 1 .. 7
        BY <1>1, <1>2, <1>5
    <2>2. PipeTypes' /\ Table(Parent)' /\ program' = program /\ Demo3Step
        BY <1>5, <2>1, Demo3Steps DEF Table
    <2>3. CASE /\ Ln(Parent) = 2 /\ SameData /\ In(Parent, "demo3")' /\ Ln(Parent)' = 3
               /\ In(Child, "demo3_child")' /\ Ln(Child)' = 1 /\ Table(Child)'
        <3>1. sent[Parent] = <<>> /\ got[Child] = <<>>
            BY <1>2, <2>1, <2>3 DEF In, Over
        <3>2. /\ Flow(sent[Parent], got[Child], pipe[0])' /\ Len(sent'[Parent]) <= 1
              /\ sent'[Parent] = <<>> /\ got'[Child] = <<>>
            BY <1>2, <2>3, <3>1 DEF SameData, Flow
        <3>3. ~ Over(Child)'
            BY <2>3 DEF In, Over
        <3> QED BY <2>2, <2>3, <3>2, <3>3 DEF Demo3Inv
    <2>4. CASE /\ SameData
               /\ \/ Moves(Parent, "dead", 0)
                  \/ Ln(Parent) = 1 /\ Moves(Parent, "demo3", 2)
                  \/ Ln(Parent) \in {3, 5, 6} /\ Moves(Parent, "demo3", Ln(Parent) + 1)
                  \/ Ln(Parent) = 7 /\ Moves(Parent, "done", 0)
        <3>1. Table(Child)' /\ pipe_at'[Child] = pipe_at[Child]
            BY <2>4, OnePipe, OtherStays
        <3>2. Places'
            BY <1>2, <2>1, <2>4, <3>1 DEF Moves, In, Ln, Over
        <3>3. Early' = Early /\ Late' = Late
            BY <3>1 DEF In, Ln, Over
        <3>4. /\ In(Parent, "demo3")' /\ Ln(Parent)' < 5 => Ln(Parent) < 5
              /\ Ln(Parent) > 4 => (In(Parent, "demo3")' => Ln(Parent)' > 4)
            BY <2>1, <2>4 DEF Moves, In, Ln
        <3>5. /\ Flow(sent[Parent], got[Child], pipe[0])' /\ Len(sent'[Parent]) <= 1
              /\ In(Parent, "demo3")' /\ Ln(Parent)' < 5 => sent'[Parent] = <<>>
              /\ Early' => got'[Child] = <<>>
              /\ Late' => pipe'[0] = <<>> /\ (In(Parent, "demo3")' => Ln(Parent)' > 4)
            BY <1>2, <2>1, <2>4, <3>3, <3>4 DEF SameData, Flow
        <3> QED BY <2>2, <3>1, <3>2, <3>5 DEF Demo3Inv
    <2>5. CASE /\ Ln(Parent) = 4 /\ UNCHANGED <<buf, typed, got>> /\ Moves(Parent, "demo3", 5)
               /\ Puts(Parent, 0, Pipe!Its(Parent, FALSE))
        <3>1. Table(Child)' /\ pipe_at'[Child] = pipe_at[Child]
            BY <2>5, OnePipe, OtherStays
        <3>2. In(Parent, "demo3")' /\ Ln(Parent)' = 5
            BY <2>5 DEF Moves, In, Ln
        <3>3. sent[Parent] = <<>> /\ k = 0 /\ ~ Late /\ k < Pipe!MaxGot
            <4>1. sent[Parent] = <<>>
                BY <1>2, <2>1, <2>5
            <4>2. ~ Late
                BY <1>2, <2>1, <2>5
            <4>3. 0 < Pipe!MaxGot
                BY OnePipe
            <4> QED BY <4>1, <4>2, <4>3
        <3>4. Early' = Early /\ ~ Late'
            BY <3>1, <3>3 DEF In, Ln, Over
        <3>5. /\ Flow(sent[Parent], got[Child], pipe[0])' /\ Len(sent'[Parent]) = k + 1
            BY <1>2, <2>5, <3>3, OnePipe, ItsType, WriteFlows
        <3>6. Places'
            <4>1. \A q \in {Child} : In(q, "demo3_child")' = In(q, "demo3_child") /\ Ln(q)' = Ln(q)
                                     /\ Over(q)' = Over(q)
                BY <3>1 DEF In, Ln, Over
            <4>2. Over(Child) \/ (In(Child, "demo3_child") /\ Ln(Child) \in 1 .. 4)
                BY <1>2, <2>1, <2>5 DEF In, Over
            <4>3. 5 \in 3 .. 7
                OBVIOUS
            <4> QED BY <3>2, <4>1, <4>2, <4>3
        <3>7. Early' => got'[Child] = <<>>
            BY <1>2, <2>5, <3>4
        <3>8. Len(sent'[Parent]) <= 1
            BY <3>3, <3>5
        <3> QED BY <2>2, <3>1, <3>2, <3>4, <3>5, <3>6, <3>7, <3>8 DEF Demo3Inv
    <2> QED BY <2>2, <2>3, <2>4, <2>5 DEF Demo3Step
<1>6. CASE p = Child
    <2>1. In(Child, "demo3_child") /\ Ln(Child) \in 1 .. 4 /\ ~ In(Child, "unborn") /\ ~ Over(Child)
        BY <1>1, <1>2, <1>6
    <2>2. /\ PipeTypes' /\ Table(Child)' /\ UNCHANGED <<program, buf, typed, sent>>
          /\ \/ Ln(Child) \in {1, 3} /\ SameData /\ Moves(Child, "demo3_child", Ln(Child) + 1)
             \/ /\ Ln(Child) = 2 /\ Moves(Child, "demo3_child", 3)
                /\ \/ Takes(Child, 0, PipeSize)
                   \/ /\ UNCHANGED <<pipe, got>>
                      /\ pipe[0] = <<>> /\ Pipe!Holders(W(0)) = {}
             \/ Ln(Child) = 4 /\ SameData /\ Moves(Child, "done", 0)
        BY <1>6, <2>1, Demo3ChildSteps DEF Table
    <2>3. \/ Moves(Child, "demo3_child", Ln(Child) + 1) /\ Ln(Child) \in {1, 2, 3}
          \/ Moves(Child, "done", 0) /\ Ln(Child) = 4
        BY <2>2
    <2>4. Table(Parent)' /\ pipe_at'[Parent] = pipe_at[Parent]
        BY <2>3, OnePipe, OtherStays
    <2>5. Places'
        BY <1>2, <2>1, <2>3, <2>4 DEF Moves, In, Ln, Over
    <2>6. In(Parent, "demo3")' = In(Parent, "demo3") /\ Ln(Parent)' = Ln(Parent)
        BY <2>4 DEF In, Ln
    <2>7. Early' => Ln(Child) = 1
        BY <2>1, <2>3 DEF Moves, In, Ln
    <2>8. Late' => Ln(Child) > 1
        BY <2>1, <2>3 DEF Moves, In, Ln, Over
    <2>9. CASE SameData /\ Ln(Child) # 2
        <3>1. /\ Flow(sent[Parent], got[Child], pipe[0])' /\ Len(sent'[Parent]) <= 1
              /\ In(Parent, "demo3")' /\ Ln(Parent)' < 5 => sent'[Parent] = <<>>
            BY <1>2, <2>6, <2>9 DEF SameData, Flow
        <3>2. /\ Early' => got'[Child] = <<>>
              /\ Late' => pipe'[0] = <<>> /\ (In(Parent, "demo3")' => Ln(Parent)' > 4)
            BY <1>2, <2>1, <2>6, <2>7, <2>8, <2>9 DEF SameData
        <3> QED BY <2>2, <2>4, <2>5, <3>1, <3>2 DEF Demo3Inv
    <2>10. CASE Ln(Child) = 2 /\ Takes(Child, 0, PipeSize)
        <3>1. Flow(sent[Parent], got[Child], pipe[0])' /\ pipe[0] # <<>>
              /\ (Len(pipe[0]) = 1 => pipe'[0] = <<>>)
            BY <1>2, <1>3, <2>2, <2>10, OnePipe, ReadFlows
        <3>2. Len(pipe[0]) \in Nat /\ Len(got[Child]) \in Nat /\ Len(pipe[0]) # 0
            BY <3>1, OnePipe, PipeTypesAre DEF Messages
        <3>3. Len(pipe[0]) = 1 /\ k = 1
            <4>1. k = Len(got[Child]) + Len(pipe[0])
                BY <1>2 DEF Flow
            <4>2. ASSUME NEW a \in 0 .. 1, NEW b \in Nat, NEW c \in Nat, c # 0, a = b + c
                  PROVE  c = 1 /\ a = 1
                BY <4>2
            <4> HIDE DEF k
            <4> QED BY <1>3, <3>2, <4>1, <4>2
        <3>4. sent[Parent] # <<>>
            BY <3>3
        <3>5. In(Parent, "demo3") => Ln(Parent) > 4
            BY <1>2, <1>4, <3>4
        <3>6. ~ Early'
            BY <2>7, <2>10
        <3> QED BY <1>2, <2>2, <2>4, <2>5, <2>6, <3>1, <3>3, <3>5, <3>6 DEF Demo3Inv
    <2>11. CASE /\ Ln(Child) = 2 /\ UNCHANGED <<pipe, got>>
                /\ pipe[0] = <<>> /\ Pipe!Holders(W(0)) = {}
        <3>1. fds[Parent]["w0"] # W(0)
            BY <2>11, OnePipe, PipeConstants, NobodyWrites
        <3>2. In(Parent, "demo3") => Ln(Parent) > 4
            <4>1. CASE In(Parent, "demo3")
                <5>1. Ln(Parent) \in 3 .. 7 /\ fds[Parent]["w0"] = Since(Parent, 1, Off, Until(Parent, 5, W(0)))
                    BY <1>4, <2>1, <4>1 DEF Table, Demo3Table, Holds
                <5>2. Ln(Parent) > 5
                    BY <3>1, <5>1 DEF Since, Until
                <5> QED BY <5>1, <5>2
            <4> QED BY <4>1
        <3>3. ~ Early'
            BY <2>7, <2>11
        <3>4. Flow(sent[Parent], got[Child], pipe[0])'
            BY <1>2, <2>2, <2>11 DEF Flow
        <3> QED BY <1>2, <2>2, <2>4, <2>5, <2>6, <2>11, <3>2, <3>3, <3>4 DEF Demo3Inv
    <2> QED BY <2>2, <2>9, <2>10, <2>11
<1> QED BY <1>5, <1>6, PipeConstants

\* pipe_demo_4.c and popen.c: what keeps what the writer has written.
LEMMA WrittenStays ==
    ASSUME Written, UNCHANGED <<pipe, sent, got>>, pipe_at'[Child] = pipe_at[Child]
    PROVE  Written' /\ (Writes \/ Over(Child))' = (Writes \/ Over(Child))
           /\ Over(Child)' = Over(Child) /\ In(Child, "unborn")' = In(Child, "unborn")
<1>1. \A fn : In(Child, fn)' = In(Child, fn)
    BY DEF In
<1>2. Ln(Child)' = Ln(Child) /\ Over(Child)' = Over(Child)
    BY DEF Ln, Over
<1>3. Written'
    BY <1>1, <1>2 DEF Written, Flow
<1> QED BY <1>1, <1>2, <1>3 DEF Writes

\* A read of the parent takes from pipe[0], or everything is read.
LEMMA ReaderTakes ==
    ASSUME PipeTypes, Written, Takes(Parent, 0, 1), sent' = sent,
           pipe_at'[Child] = pipe_at[Child]
    PROVE  Written' /\ (Writes \/ Over(Child))' = (Writes \/ Over(Child))
<1>1. \A fn : In(Child, fn)' = In(Child, fn)
    BY DEF In
<1>2. Ln(Child)' = Ln(Child) /\ Over(Child)' = Over(Child)
    BY DEF Ln, Over
<1>3. Len(sent[Child]) <= Pipe!MaxGot
    <2>1. Len(sent[Child]) \in Nat /\ Len(sent[Child]) <= MaxLines
        BY OnePipe, PipeTypesAre DEF Messages, Written
    <2>2. \A a \in Nat, b \in Nat : a <= b => a <= 2 * b
        OBVIOUS
    <2> QED BY <2>1, <2>2, OnePipe
<1>4. Flow(sent[Child], got[Parent], pipe[0])'
    BY <1>3, OnePipe, ReadFlows DEF Written
<1>5. Written'
    BY <1>1, <1>2, <1>4 DEF Written
<1> QED BY <1>1, <1>2, <1>5 DEF Writes

\* End of file is not before the writer has ended.
LEMMA WriterHasEnded ==
    ASSUME Table(Child), Writes \/ Over(Child), Pipe!Holders(W(0)) = {}
    PROVE  Over(Child)
<1>1. fds[Child]["w0"] # W(0) /\ fds[Child]["out"] # W(0)
    BY OnePipe, PipeConstants, NobodyWrites
<1>2. CASE In(Child, "demo4_child") /\ Ln(Child) \in 1 .. 5
    <2>1. /\ fds[Child]["out"] = Since(Child, 2, Tty, W(0))
          /\ fds[Child]["w0"] = Until(Child, 3, W(0))
        BY <1>2 DEF Table, Demo4ChildTable, Holds
    <2>2. Ln(Child) > 3 /\ ~ (Ln(Child) > 2)
        BY <1>1, <1>2, <2>1 DEF Since, Until
    <2> QED BY <1>2, <2>2
<1>3. CASE In(Child, "writer")
    BY <1>1, <1>3 DEF Table, WriterTable, Holds
<1> QED BY <1>2, <1>3 DEF Writes

\* The writer puts its next line into pipe[0], or ends.
LEMMA WriterKeeps ==
    ASSUME PipeTypes, Table(Parent), Table(Child), Written, Writes, PipeStep(Child)
    PROVE  /\ PipeTypes' /\ Table(Parent)' /\ Table(Child)' /\ program' = program
           /\ Written' /\ (Writes \/ Over(Child))'
           /\ pipe_at'[Parent] = pipe_at[Parent]
<1>1. CASE In(Child, "demo4_child") /\ Ln(Child) \in 1 .. 5
    <2>1. /\ PipeTypes' /\ Table(Child)' /\ SameData
          /\ \/ Moves(Child, "dead", 0)
             \/ Ln(Child) < 5 /\ Moves(Child, "demo4_child", Ln(Child) + 1)
             \/ Ln(Child) = 4 /\ Moves(Child, "writer", 1)
        BY <1>1, Demo4ChildSteps DEF Table
    <2>2. \E fn, ln : Moves(Child, fn, ln)
        BY <2>1
    <2>3. Table(Parent)' /\ pipe_at'[Parent] = pipe_at[Parent]
        BY <2>2, OnePipe, OtherStays
    <2>4. sent[Child] = <<>>
        BY <1>1 DEF Written
    <2>5. \/ Over(Child)' /\ ~ In(Child, "writer")' /\ ~ In(Child, "unborn")'
             /\ ~ In(Child, "demo4_child")'
          \/ In(Child, "demo4_child")' /\ Ln(Child)' \in 1 .. 5 /\ ~ In(Child, "writer")'
          \/ In(Child, "writer")' /\ Ln(Child)' = 1
        BY <1>1, <2>1 DEF Moves, In, Ln, Over
    <2>6. /\ Flow(sent[Child], got[Parent], pipe[0])' /\ Len(sent'[Child]) <= MaxLines
          /\ sent'[Child] = <<>> /\ Len(sent'[Child]) = 0
        BY <2>1, <2>4 DEF SameData, Written, Flow
    <2>7. 1 \in 1 .. MaxLines + 1
        BY OnePipe
    <2>8. Written' /\ (Writes \/ Over(Child))'
        BY <2>5, <2>6, <2>7 DEF Written, Writes
    <2> QED BY <2>1, <2>3, <2>8 DEF SameData
<1>2. CASE In(Child, "writer") /\ Ln(Child) \in 1 .. MaxLines + 1
    <2> DEFINE k == Len(sent[Child])
               m == Pipe!Its(Child, FALSE)
    <2>1. /\ PipeTypes' /\ Table(Child)' /\ program' = program /\ WriterStep
          /\ \A q \in Pipe!Process \ {Child} : pipe_at'[q] = pipe_at[q] /\ fds'[q] = fds[q]
        BY <1>2, WriterSteps DEF Table
    <2>2. Table(Parent)' /\ pipe_at'[Parent] = pipe_at[Parent]
        BY <2>1, OnePipe, TableStays
    <2>3. k = Ln(Child) - 1 /\ k \in Nat /\ Flow(sent[Child], got[Parent], pipe[0])
        BY <1>2, OnePipe, PipeTypesAre DEF Written, Messages
    <2>4. m \in Pipe!Message
        BY OnePipe, ItsType
    <2> HIDE DEF k, m
    <2>5. CASE Over(Child)' /\ SameData
        <3>1. ~ In(Child, "writer")' /\ ~ In(Child, "unborn")' /\ ~ In(Child, "demo4_child")'
            BY <2>5 DEF Over, In
        <3>2. Written'
            BY <2>5, <3>1 DEF Written, SameData, Flow
        <3> QED BY <2>1, <2>2, <2>5, <3>2
    <2>6. CASE /\ Ln(Child) <= MaxLines /\ UNCHANGED <<buf, typed, got>>
               /\ Moves(Child, "writer", Ln(Child) + 1) /\ Puts(Child, 0, m)
        <3>1. In(Child, "writer")' /\ Ln(Child)' = Ln(Child) + 1
              /\ ~ In(Child, "unborn")' /\ ~ In(Child, "demo4_child")'
            BY <2>6 DEF Moves, In, Ln
        <3>2. k < Pipe!MaxGot /\ k + 1 <= MaxLines /\ k + 1 = Ln(Child)' - 1
              /\ Ln(Child)' \in 1 .. MaxLines + 1
            BY <1>2, <2>3, <2>6, <3>1, OnePipe
        <3>3. /\ Flow(sent[Child], got[Parent], pipe[0])' /\ Len(sent'[Child]) = k + 1
            BY <2>3, <2>4, <2>6, <3>2, OnePipe, WriteFlows DEF k
        <3>4. Written' /\ Writes'
            BY <3>1, <3>2, <3>3 DEF Written, Writes
        <3> QED BY <2>1, <2>2, <3>4
    <2> QED BY <2>1, <2>5, <2>6 DEF WriterStep, m
<1> QED BY <1>1, <1>2 DEF Writes

\* pipe_demo_4.c.
LEMMA Demo4Keeps ==
    ASSUME PipeTypes, Table(Parent), Table(Child), Demo4Inv, NEW p \in Pipe!Process, PipeStep(p)
    PROVE  PipeTypes' /\ Table(Parent)' /\ Table(Child)' /\ program' = program /\ Demo4Inv'
<1> DEFINE Reading ==
               \/ In(Parent, "demo4") /\ Ln(Parent) \in 3 .. 7
               \/ In(Parent, "reader") /\ Ln(Parent) = 1
               \/ In(Parent, "dead")
           HasRead == (In(Parent, "reader") /\ Ln(Parent) = 2) \/ In(Parent, "done")
<1>1. ~ In(p, "unborn") /\ ~ Over(p)
    BY ActsAs DEF Pipe!Alive, In, Over
<1>2. /\ Written
      /\ \/ In(Parent, "demo4") /\ Ln(Parent) \in 1 .. 2 /\ In(Child, "unborn")
         \/ In(Parent, "dead") /\ In(Child, "unborn")
         \/ (Writes \/ Over(Child)) /\ (Reading \/ (HasRead /\ AllRead))
    BY DEF Demo4Inv
<1>3. CASE p = Child
    <2>1. Writes /\ (Reading \/ (HasRead /\ AllRead)) /\ ~ AllRead
        BY <1>1, <1>2, <1>3 DEF AllRead
    <2>2. /\ PipeTypes' /\ Table(Parent)' /\ Table(Child)' /\ program' = program
          /\ Written' /\ (Writes \/ Over(Child))'
          /\ pipe_at'[Parent] = pipe_at[Parent]
        BY <1>2, <1>3, <2>1, WriterKeeps
    <2>3. Reading'
        BY <2>1, <2>2 DEF In, Ln
    <2> QED BY <2>2, <2>3 DEF Demo4Inv
<1>4. CASE p = Parent /\ In(Parent, "demo4")
    <2>1. /\ Ln(Parent) \in 1 .. 7 /\ (Ln(Parent) \in 1 .. 2 <=> In(Child, "unborn"))
          /\ Ln(Parent) \in 3 .. 7 => Writes \/ Over(Child)
        BY <1>2, <1>4 DEF In, Over, Writes
    <2>2. /\ PipeTypes' /\ Table(Parent)' /\ SameData
          /\ \/ Moves(Parent, "dead", 0)
             \/ Ln(Parent) = 1 /\ Moves(Parent, "demo4", 2)
             \/ /\ Ln(Parent) = 2 /\ In(Parent, "demo4")' /\ Ln(Parent)' = 3
                /\ In(Child, "demo4_child")' /\ Ln(Child)' = 1 /\ Table(Child)'
             \/ Ln(Parent) \in 3 .. 6 /\ Moves(Parent, "demo4", Ln(Parent) + 1)
             \/ Ln(Parent) = 6 /\ Moves(Parent, "reader", 1)
        BY <1>4, <2>1, Demo4Steps DEF Table
    <2>3. CASE /\ Ln(Parent) = 2 /\ In(Parent, "demo4")' /\ Ln(Parent)' = 3
               /\ In(Child, "demo4_child")' /\ Ln(Child)' = 1 /\ Table(Child)'
        <3>1. sent[Child] = <<>>
            BY <1>2, <2>1, <2>3 DEF Written
        <3>2. ~ In(Child, "writer")'
            BY <2>3 DEF In
        <3>3. Written'
            BY <1>2, <2>2, <2>3, <3>1, <3>2 DEF Written, SameData, Flow
        <3>4. Writes' /\ Reading'
            BY <2>3 DEF Writes
        <3> QED BY <2>2, <2>3, <3>3, <3>4 DEF Demo4Inv, SameData
    <2>4. CASE \/ Moves(Parent, "dead", 0)
               \/ Ln(Parent) = 1 /\ Moves(Parent, "demo4", 2)
               \/ Ln(Parent) \in 3 .. 6 /\ Moves(Parent, "demo4", Ln(Parent) + 1)
               \/ Ln(Parent) = 6 /\ Moves(Parent, "reader", 1)
        <3>1. \E fn, ln : Moves(Parent, fn, ln)
            BY <2>4
        <3>2. Table(Child)' /\ pipe_at'[Child] = pipe_at[Child]
            BY <3>1, OnePipe, OtherStays
        <3>3. /\ Written' /\ (Writes \/ Over(Child))' = (Writes \/ Over(Child))
              /\ In(Child, "unborn")' = In(Child, "unborn")
            BY <1>2, <2>2, <3>2, WrittenStays DEF SameData
        <3>4. \/ In(Parent, "dead")'
              \/ In(Parent, "demo4")' /\ Ln(Parent)' = 2 /\ Ln(Parent) = 1
              \/ Reading' /\ Ln(Parent) \in 3 .. 7
            BY <2>4 DEF Moves, In, Ln
        <3>5. Demo4Inv'
            BY <1>2, <1>4, <2>1, <3>3, <3>4 DEF Demo4Inv
        <3> QED BY <2>2, <3>2, <3>5 DEF SameData
    <2> QED BY <2>2, <2>3, <2>4
<1>5. CASE p = Parent /\ In(Parent, "reader")
    <2>1. /\ Ln(Parent) \in 1 .. 2 /\ (Writes \/ Over(Child))
          /\ Ln(Parent) = 2 => AllRead
        BY <1>2, <1>5 DEF In
    <2>2. PipeTypes' /\ Table(Parent)' /\ program' = program /\ ReaderStep
        BY <1>5, <2>1, ReaderSteps DEF Table
    <2>3. \E fn, ln : Moves(Parent, fn, ln)
        BY <2>2 DEF ReaderStep
    <2>4. Table(Child)' /\ pipe_at'[Child] = pipe_at[Child]
        BY <2>3, OnePipe, OtherStays
    <2>5. CASE Moves(Parent, "dead", 0) /\ SameData
        <3>1. Written' /\ (Writes \/ Over(Child))'
            BY <1>2, <2>1, <2>4, <2>5, WrittenStays DEF SameData
        <3>2. Reading'
            BY <2>5 DEF Moves, In
        <3> QED BY <2>2, <2>4, <3>1, <3>2 DEF Demo4Inv
    <2>6. CASE Ln(Parent) = 1 /\ sent' = sent /\ Moves(Parent, "reader", 1) /\ Takes(Parent, 0, 1)
        <3>1. Written' /\ (Writes \/ Over(Child))'
            BY <1>2, <2>1, <2>4, <2>6, ReaderTakes
        <3>2. Reading'
            BY <2>6 DEF Moves, In, Ln
        <3> QED BY <2>2, <2>4, <3>1, <3>2 DEF Demo4Inv
    <2>7. CASE /\ Ln(Parent) = 1 /\ Moves(Parent, "reader", 2) /\ UNCHANGED <<pipe, sent, got>>
               /\ pipe[0] = <<>> /\ Pipe!Holders(W(0)) = {}
        <3>1. Over(Child)
            BY <2>1, <2>7, WriterHasEnded
        <3>2. Written' /\ (Writes \/ Over(Child))' /\ AllRead'
            BY <1>2, <2>1, <2>4, <2>7, <3>1, WrittenStays DEF AllRead
        <3>3. HasRead'
            BY <2>7 DEF Moves, In, Ln
        <3> QED BY <2>2, <2>4, <3>2, <3>3 DEF Demo4Inv
    <2>8. CASE Ln(Parent) = 2 /\ SameData /\ Moves(Parent, "done", 0)
        <3>1. Written' /\ (Writes \/ Over(Child))' /\ AllRead'
            BY <1>2, <2>1, <2>4, <2>8, WrittenStays DEF AllRead, SameData
        <3>2. HasRead'
            BY <2>8 DEF Moves, In
        <3> QED BY <2>2, <2>4, <3>1, <3>2 DEF Demo4Inv
    <2> QED BY <2>2, <2>5, <2>6, <2>7, <2>8 DEF ReaderStep
<1>6. p = Parent => In(Parent, "demo4") \/ In(Parent, "reader")
    BY <1>1, <1>2 DEF In, Over
<1> QED BY <1>3, <1>4, <1>5, <1>6, OnePipe, PipeConstants

\* popen.c.
LEMMA PopenKeeps ==
    ASSUME PipeTypes, Table(Parent), Table(Child), PopenInv, NEW p \in Pipe!Process, PipeStep(p)
    PROVE  PipeTypes' /\ Table(Parent)' /\ Table(Child)' /\ program' = program /\ PopenInv'
<1> DEFINE Reading ==
               \/ In(Parent, "popen") /\ Ln(Parent) \in 3 .. 4
               \/ In(Parent, "dead")
           HasRead ==
               \/ In(Parent, "popen") /\ Ln(Parent) \in 5 .. 7
               \/ In(Parent, "done")
<1>1. ~ In(p, "unborn") /\ ~ Over(p)
    BY ActsAs DEF Pipe!Alive, In, Over
<1>2. /\ Written
      /\ \/ In(Parent, "popen") /\ Ln(Parent) \in 1 .. 2 /\ In(Child, "unborn")
         \/ In(Parent, "dead") /\ In(Child, "unborn")
         \/ (Writes \/ Over(Child)) /\ (Reading \/ (HasRead /\ AllRead))
    BY DEF PopenInv
<1>3. CASE p = Child
    <2>1. Writes /\ (Reading \/ (HasRead /\ AllRead)) /\ ~ AllRead
        BY <1>1, <1>2, <1>3 DEF AllRead
    <2>2. /\ PipeTypes' /\ Table(Parent)' /\ Table(Child)' /\ program' = program
          /\ Written' /\ (Writes \/ Over(Child))'
          /\ pipe_at'[Parent] = pipe_at[Parent]
        BY <1>2, <1>3, <2>1, WriterKeeps
    <2>3. Reading'
        BY <2>1, <2>2 DEF In, Ln
    <2> QED BY <2>2, <2>3 DEF PopenInv
<1>4. CASE p = Parent
    <2>1. /\ In(Parent, "popen") /\ Ln(Parent) \in 1 .. 7
          /\ Ln(Parent) \in 1 .. 2 => In(Child, "unborn")
          /\ Ln(Parent) \in 3 .. 7 => Writes \/ Over(Child)
          /\ Ln(Parent) \in 5 .. 7 => AllRead
        BY <1>1, <1>2, <1>4 DEF In, Over
    <2>2. PipeTypes' /\ Table(Parent)' /\ program' = program /\ PopenStep
        BY <1>4, <2>1, PopenSteps DEF Table
    <2>3. CASE /\ Ln(Parent) = 2 /\ SameData /\ In(Parent, "popen")' /\ Ln(Parent)' = 3
               /\ In(Child, "demo4_child")' /\ Ln(Child)' = 1 /\ Table(Child)'
        <3>1. sent[Child] = <<>>
            BY <1>2, <2>1, <2>3 DEF Written
        <3>2. ~ In(Child, "writer")'
            BY <2>3 DEF In
        <3>3. Written'
            BY <1>2, <2>3, <3>1, <3>2 DEF Written, SameData, Flow
        <3>4. Writes' /\ Reading'
            <4>1. 1 \in 1 .. 5 /\ 3 \in 3 .. 4
                OBVIOUS
            <4> QED BY <2>3, <4>1 DEF Writes
        <3> QED BY <2>2, <2>3, <3>3, <3>4 DEF PopenInv
    <2>4. CASE SameData /\ Moves(Parent, "dead", 0)
        <3>1. Table(Child)' /\ pipe_at'[Child] = pipe_at[Child]
            BY <2>4, OnePipe, OtherStays
        <3>2. /\ Written' /\ (Writes \/ Over(Child))' = (Writes \/ Over(Child))
              /\ In(Child, "unborn")' = In(Child, "unborn")
            BY <1>2, <2>4, <3>1, WrittenStays DEF SameData
        <3>3. In(Parent, "dead")'
            BY <2>4 DEF Moves, In
        <3>4. PopenInv'
            BY <1>2, <3>2, <3>3 DEF PopenInv
        <3> QED BY <2>2, <3>1, <3>4
    <2>5. CASE SameData /\ \/ Ln(Parent) = 1 /\ Moves(Parent, "popen", 2)
                           \/ Ln(Parent) \in {3, 5, 6} /\ Moves(Parent, "popen", Ln(Parent) + 1)
                           \/ Ln(Parent) = 7 /\ Moves(Parent, "done", 0)
        <3>1. \E fn, ln : Moves(Parent, fn, ln)
            BY <2>5
        <3>2. Table(Child)' /\ pipe_at'[Child] = pipe_at[Child]
            BY <3>1, OnePipe, OtherStays
        <3>3. /\ Written' /\ (Writes \/ Over(Child))' = (Writes \/ Over(Child))
              /\ In(Child, "unborn")' = In(Child, "unborn")
              /\ Over(Child)' = Over(Child)
            BY <1>2, <2>5, <3>2, WrittenStays DEF SameData
        <3>4. AllRead' = AllRead
            BY <2>5, <3>3 DEF AllRead, SameData
        <3>5. \/ Ln(Parent) = 1 /\ In(Parent, "popen")' /\ Ln(Parent)' = 2
              \/ Ln(Parent) = 3 /\ Reading'
              \/ Ln(Parent) \in 5 .. 7 /\ HasRead'
            BY <2>5 DEF Moves, In, Ln
        <3>6. PopenInv'
            BY <1>2, <2>1, <3>3, <3>4, <3>5 DEF PopenInv
        <3> QED BY <2>2, <3>2, <3>6
    <2>6. CASE Ln(Parent) = 4 /\ sent' = sent /\ Moves(Parent, "popen", 4) /\ Takes(Parent, 0, 1)
        <3>1. Table(Child)' /\ pipe_at'[Child] = pipe_at[Child]
            BY <2>6, OnePipe, OtherStays
        <3>2. Written' /\ (Writes \/ Over(Child))'
            BY <1>2, <2>1, <2>6, <3>1, ReaderTakes
        <3>3. Reading'
            BY <2>6 DEF Moves, In, Ln
        <3> QED BY <2>2, <3>1, <3>2, <3>3 DEF PopenInv
    <2>7. CASE /\ Ln(Parent) = 4 /\ Moves(Parent, "popen", 5) /\ UNCHANGED <<pipe, sent, got>>
               /\ pipe[0] = <<>> /\ Pipe!Holders(W(0)) = {}
        <3>1. Table(Child)' /\ pipe_at'[Child] = pipe_at[Child]
            BY <2>7, OnePipe, OtherStays
        <3>2. Over(Child)
            BY <2>1, <2>7, WriterHasEnded
        <3>3. Written' /\ (Writes \/ Over(Child))' /\ AllRead'
            BY <1>2, <2>1, <2>7, <3>1, <3>2, WrittenStays DEF AllRead
        <3>4. HasRead'
            BY <2>7 DEF Moves, In, Ln
        <3> QED BY <2>2, <3>1, <3>3, <3>4 DEF PopenInv
    <2> QED BY <2>2, <2>3, <2>4, <2>5, <2>6, <2>7 DEF PopenStep
<1> QED BY <1>3, <1>4, PipeConstants

----------------------------------------------------------------------------
(* All of them.                                                             *)

\* At the start nothing is open and nothing was sent.
LEMMA PipesStart ==
    ASSUME Pipe!Start
    PROVE  PipesInv
<1>1. /\ pipe_at = [p \in Pipe!Process |-> IF p = Parent /\ program \in Pipe!Program
                                           THEN [fn |-> program, ln |-> 1]
                                           ELSE [fn |-> "unborn", ln |-> 0]]
      /\ fds = [p \in Pipe!Process |-> [f \in Pipe!Fd |-> IF f \in {"in", "out"} THEN Tty ELSE Off]]
      /\ pipe = [j \in Pipe!Pipe |-> <<>>] /\ buf = <<>> /\ typed = 0
      /\ sent = [p \in Pipe!Process |-> <<>>] /\ got = [p \in Pipe!Process |-> <<>>]
    BY DEF Pipe!Start, Parent, Tty, Off
<1>2. <<>> \in Messages /\ Len(<<>>) = 0
    BY DEF Messages
<1>3. PipeTypes
    <2>1. pipe_at \in [Pipe!Process -> [fn : Names, ln : Nat]]
        <3>1. program \in Pipe!Program => program \in Names
            BY DEF Pipe!Program, Names
        <3>2. "unborn" \in Names
            BY DEF Names
        <3> QED BY <1>1, <3>1, <3>2
    <2>2. fds \in [Pipe!Process -> [Pipe!Fd -> Pipe!Open]]
        BY <1>1, PipeConstants DEF Tty, Off
    <2>3. pipe \in [Pipe!Pipe -> Messages] /\ \A j \in Pipe!Pipe : pipe[j] = <<>>
        BY <1>1, <1>2
    <2>4. sent \in [Pipe!Process -> Messages] /\ got \in [Pipe!Process -> Messages]
        BY <1>1, <1>2
    <2>5. buf \in Messages /\ typed \in 0 .. MaxLines
        BY <1>1, <1>2, OnePipe
    <2>6. \A j \in Pipe!Pipe : Len(pipe[j]) <= PipeSize
        BY <1>2, <2>3, OnePipe
    <2> QED BY <2>1, <2>2, <2>3, <2>4, <2>5, <2>6 DEF PipeTypes, Messages
<1>4. /\ \A p \in Pipe!Process : NoPipeTable(p)
      /\ In(Child, "unborn") /\ Ln(Child) = 0
      /\ program \in Pipe!Program => In(Parent, program) /\ Ln(Parent) = 1
      /\ program \notin Pipe!Program => In(Parent, "unborn")
    BY <1>1, OnePipe, PipeConstants DEF NoPipeTable, Holds, In, Ln
<1>5. /\ sent[Parent] = <<>> /\ sent[Child] = <<>> /\ got[Parent] = <<>> /\ got[Child] = <<>>
      /\ pipe[0] = <<>> /\ pipe[1] = <<>> /\ buf = <<>> /\ typed = 0
    BY <1>1, OnePipe, PipeConstants
<1>6. Table(Child)
    BY <1>4, OnePipe DEF Table, In
<1>7. Table(Parent)
    <2>1. CASE program \in Pipe!Program
        <3>1. Holds(Parent, Tty, Tty, Off, Off, Off, Off) /\ Ln(Parent) = 1
            BY <1>4, <2>1, OnePipe DEF NoPipeTable
        <3>2. /\ BcTable(Parent) /\ DemoTable(Parent) /\ Demo3Table(Parent) /\ Demo4Table(Parent)
              /\ PopenTable(Parent)
            BY <3>1 DEF BcTable, DemoTable, Demo3Table, Demo4Table, PopenTable, Since
        <3>3. In(Parent, "bc") \/ In(Parent, "demo1") \/ In(Parent, "demo2") \/ In(Parent, "demo3")
              \/ In(Parent, "demo4") \/ In(Parent, "popen")
            BY <1>4, <2>1 DEF Pipe!Program
        <3> QED BY <3>2, <3>3 DEF Table, In
    <2>2. CASE program \notin Pipe!Program
        BY <1>4, <2>2, OnePipe DEF Table, In
    <2> QED BY <2>1, <2>2
<1>8. Flow(<<>>, <<>>, <<>>) /\ Numbered(<<>>) /\ <<>> \o <<>> = <<>>
    BY <1>2 DEF Flow, Numbered
<1>9. ~ Over(Child) /\ ~ In(Child, "dc") /\ ~ In(Child, "demo3_child") /\ ~ In(Child, "writer")
    BY <1>4 DEF Over, In
<1>10. program = "bc" => BcInv
    <2>1. SUFFICES ASSUME program = "bc" PROVE BcInv
        OBVIOUS
    <2>2. In(Parent, "bc") /\ Ln(Parent) = 1
        BY <1>4, <2>1 DEF Pipe!Program
    <2>3. ~ In(Parent, "be_bc") /\ ~ In(Parent, "bc_main_wait")
        BY <2>2 DEF In
    <2>4. BcPlaces
        BY <1>4, <2>2 DEF BcPlaces
    <2>5. BcFlow
        BY <1>2, <1>5, <1>8 DEF BcFlow
    <2>6. BcParent
        BY <1>2, <1>5, <2>3 DEF BcParent
    <2>7. Answers(<<>>, 0)
        BY <1>2, <1>9 DEF Answers, FirstLines, SecondLine
    <2>8. BcChild
        BY <1>2, <1>5, <1>9, <2>7 DEF BcChild
    <2> QED BY <2>4, <2>5, <2>6, <2>8 DEF BcInv
<1>11. program = "demo1" => Demo1Inv
    BY <1>2, <1>4, <1>5, <1>8 DEF Demo1Inv, Pipe!Program
<1>12. program = "demo2" => Demo2Inv
    BY <1>4 DEF Demo2Inv, Pipe!Program
<1>13. program = "demo3" => Demo3Inv
    BY <1>2, <1>4, <1>5, <1>8, <1>9 DEF Demo3Inv, Pipe!Program
<1>14. Written
    BY <1>2, <1>5, <1>8, <1>9, OnePipe DEF Written
<1>15. program = "demo4" => Demo4Inv
    BY <1>4, <1>14 DEF Demo4Inv, Pipe!Program
<1>16. program = "popen" => PopenInv
    BY <1>4, <1>14 DEF PopenInv, Pipe!Program
<1> QED BY <1>3, <1>4, <1>6, <1>7, <1>10, <1>11, <1>12, <1>13, <1>15, <1>16 DEF PipesInv

\* Every step of the six programs keeps PipesInv.
LEMMA PipesKeep ==
    ASSUME PipesInv, Pipe!Next
    PROVE  PipesInv'
<1>1. PICK p \in Pipe!Process : PipeStep(p)
    BY DEF Pipe!Next, PipeStep
<1>2. /\ PipeTypes /\ Table(Parent) /\ Table(Child)
      /\ program = "bc" => BcInv
      /\ program = "demo1" => Demo1Inv
      /\ program = "demo2" => Demo2Inv
      /\ program = "demo3" => Demo3Inv
      /\ program = "demo4" => Demo4Inv
      /\ program = "popen" => PopenInv
      /\ program \notin Pipe!Program => In(Parent, "unborn") /\ In(Child, "unborn")
    BY DEF PipesInv
<1>3. program \in Pipe!Program
    BY <1>1, <1>2, ActsAs, PipeConstants DEF Pipe!Alive, In
<1>4. CASE program = "bc"
    BY <1>1, <1>2, <1>4, BcKeeps DEF PipesInv, Pipe!Program
<1>5. CASE program = "demo1"
    BY <1>1, <1>2, <1>5, Demo1Keeps DEF PipesInv, Pipe!Program
<1>6. CASE program = "demo2"
    BY <1>1, <1>2, <1>6, Demo2Keeps DEF PipesInv, Pipe!Program
<1>7. CASE program = "demo3"
    BY <1>1, <1>2, <1>7, Demo3Keeps DEF PipesInv, Pipe!Program
<1>8. CASE program = "demo4"
    BY <1>1, <1>2, <1>8, Demo4Keeps DEF PipesInv, Pipe!Program
<1>9. CASE program = "popen"
    BY <1>1, <1>2, <1>9, PopenKeeps DEF PipesInv, Pipe!Program
<1> QED BY <1>3, <1>4, <1>5, <1>6, <1>7, <1>8, <1>9 DEF Pipe!Program

\* The steps of the programs of the other modules keep it.
LEMMA PipesStay == PipesInv /\ UNCHANGED <<program, pipeVars>> => PipesInv'
<1> SUFFICES ASSUME PipesInv, UNCHANGED <<program, pipeVars>> PROVE PipesInv'
    OBVIOUS
<1>1. UNCHANGED <<program, pipe_at, fds, pipe, buf, typed, sent, got>>
    BY DEF pipeVars
<1>2. PipeTypes'
    BY <1>1 DEF PipesInv, PipeTypes
<1>3. Table(Parent)' /\ Table(Child)'
    BY <1>1, TableStays DEF PipesInv
<1>4. /\ In(Child, "unborn")' = In(Child, "unborn") /\ In(Parent, "unborn")' = In(Parent, "unborn")
    BY <1>1 DEF In
<1>5. program = "bc" => BcInv'
    <2>1. SUFFICES ASSUME program = "bc" PROVE BcInv'
        OBVIOUS
    <2>2. BcPlaces'
        BY <1>1, <2>1 DEF PipesInv, BcInv, BcPlaces, In, Ln, Over
    <2>3. BcFlow'
        BY <1>1, <2>1, BcFlowStays DEF PipesInv, BcInv, SameData
    <2>4. (Over(Parent) \/ BcParent)'
        <3>1. CASE Over(Parent)
            BY <1>1, <3>1 DEF Over, In
        <3>2. CASE BcParent
            BY <1>1, <3>2, BcParentStays
        <3> QED BY <2>1, <3>1, <3>2 DEF PipesInv, BcInv
    <2>5. BcChild'
        BY <1>1, <2>1, BcChildStays DEF PipesInv, BcInv
    <2> QED BY <2>2, <2>3, <2>4, <2>5 DEF BcInv
<1>6. program = "demo1" => Demo1Inv'
    BY <1>1 DEF PipesInv, Demo1Inv, In, Ln, Over, Flow, Numbered
<1>7. program = "demo2" => Demo2Inv'
    BY <1>1 DEF PipesInv, Demo2Inv, In, Ln, Over
<1>8. program = "demo3" => Demo3Inv'
    BY <1>1 DEF PipesInv, Demo3Inv, In, Ln, Over, Flow
<1>9. /\ Written => Written' /\ (Writes \/ Over(Child))' = (Writes \/ Over(Child))
                            /\ Over(Child)' = Over(Child)
      /\ AllRead' = AllRead
    BY <1>1, WrittenStays DEF AllRead, Over, In
<1>10. program = "demo4" => Demo4Inv'
    BY <1>1, <1>9 DEF PipesInv, Demo4Inv, In, Ln
<1>11. program = "popen" => PopenInv'
    BY <1>1, <1>9 DEF PipesInv, PopenInv, In, Ln
<1> QED BY <1>1, <1>2, <1>3, <1>4, <1>5, <1>6, <1>7, <1>8, <1>10, <1>11 DEF PipesInv

----------------------------------------------------------------------------
(* Who waits, and for what.                                                 *)

ReadWaits(j) == pipe[j] = <<>> /\ Pipe!Holders(W(j)) # {}
WriteWaits(j) == Len(pipe[j]) = PipeSize /\ Pipe!Holders(R(j)) # {}
FlushWaits == Len(pipe[0]) + Len(buf) > PipeSize /\ Pipe!Holders(R(0)) # {}
Asks(p) == Pipe!Does(p, "typed")

\* A call that does not wait.
LEMMA GoesOn ==
    ASSUME NEW p, Pipe!Calls(p).call \notin {"read", "write", "fflush", "wait"}
    PROVE  ~ Pipe!Waits(p)
BY DEF Pipe!Waits, Pipe!Does

\* What it is to wait, for each of the calls that can.
LEMMA WaitsToRead ==
    ASSUME NEW p, NEW f, NEW j \in {0, 1}, Pipe!Waits(p), Pipe!Calls(p).call = "read",
           Pipe!Calls(p).fd = f, fds[p][f] = R(j)
    PROVE  ReadWaits(j)
<1>1. /\ pipe[fds[p][f][1]] = <<>>
      /\ Pipe!Holders(Pipe!WriteEnd(fds[p][f][1])) # {}
    BY DEF Pipe!Waits, Pipe!Does
<1> QED BY <1>1, EndsDiffer DEF ReadWaits, R, W

LEMMA WaitsToWrite ==
    ASSUME NEW p, NEW f, NEW j \in {0, 1}, Pipe!Waits(p), Pipe!Calls(p).call = "write",
           Pipe!Calls(p).fd = f, fds[p][f] = W(j)
    PROVE  WriteWaits(j)
<1>1. /\ Len(pipe[fds[p][f][1]]) = PipeSize
      /\ Pipe!Holders(Pipe!ReadEnd(fds[p][f][1])) # {}
    BY DEF Pipe!Waits, Pipe!Does
<1> QED BY <1>1, EndsDiffer DEF WriteWaits, R, W

LEMMA WaitsToFlush ==
    ASSUME NEW p, NEW f, Pipe!Waits(p), Pipe!Calls(p).call = "fflush",
           Pipe!Calls(p).fd = f, fds[p][f] = W(0)
    PROVE  FlushWaits
<1>1. /\ Len(pipe[fds[p][f][1]]) + Len(buf) > PipeSize
      /\ Pipe!Holders(Pipe!ReadEnd(fds[p][f][1])) # {}
    BY DEF Pipe!Waits, Pipe!Does
<1> QED BY <1>1, EndsDiffer DEF FlushWaits, R, W

LEMMA WaitsForChild ==
    ASSUME NEW p, Pipe!Waits(p), Pipe!Calls(p).call = "wait"
    PROVE  ~ Over(Child)
BY DEF Pipe!Waits, Pipe!Does, Pipe!Gone, Over, Child, In

\* Where each function can wait.
LEMMA BcWaits ==
    ASSUME NEW p, In(p, "bc"), Ln(p) \in 1 .. 3
    PROVE  ~ Pipe!Waits(p) /\ ~ Asks(p)
<1>1. Pipe!Calls(p) = Pipe!BcMain[Ln(p)]
    BY DEF In, Pipe!Calls, Pipe!Code, Ln
<1>2. Pipe!Calls(p).call \in {"pipe", "fork", "call"}
    BY <1>1 DEF Pipe!BcMain, Pipe!MakePipes, Pipe!Fork, Pipe!Call
<1> QED BY <1>2, GoesOn DEF Asks, Pipe!Does

LEMMA BeBcWaits ==
    ASSUME NEW p, In(p, "be_bc"), Ln(p) \in 1 .. 10, BeBcTable(p)
    PROVE  /\ Pipe!Waits(p) => \/ Ln(p) = 6 /\ FlushWaits
                               \/ Ln(p) = 7 /\ ReadWaits(1)
           /\ Asks(p) => Ln(p) = 4
<1>1. Pipe!Calls(p) = Pipe!BeBc[Ln(p)]
    BY DEF In, Pipe!Calls, Pipe!Code, Ln
<1>2. CASE Ln(p) \in {1, 2, 8, 9}
    <2>1. Pipe!Calls(p).call = "close"
        BY <1>1, <1>2 DEF Pipe!BeBc, Pipe!Close
    <2> QED BY <2>1, GoesOn DEF Asks, Pipe!Does
<1>3. CASE Ln(p) \in {3, 5, 10}
    <2>1. Pipe!Calls(p).call \in {"fdopen", "fprintf", "call"}
        BY <1>1, <1>3 DEF Pipe!BeBc, Pipe!Fdopen, Pipe!Fprintf, Pipe!Call
    <2> QED BY <2>1, GoesOn DEF Asks, Pipe!Does
<1>4. CASE Ln(p) = 4
    <2>1. Pipe!Calls(p).call = "typed"
        BY <1>1, <1>4 DEF Pipe!BeBc, Pipe!Typed
    <2> QED BY <1>4, <2>1, GoesOn
<1>5. CASE Ln(p) = 6
    <2>1. Pipe!Calls(p).call = "fflush" /\ Pipe!Calls(p).fd = "w0"
        BY <1>1, <1>5 DEF Pipe!BeBc, Pipe!Fflush
    <2>2. fds[p]["w0"] = W(0)
        BY <1>5 DEF BeBcTable, Holds, Until
    <2> QED BY <1>5, <2>1, <2>2, WaitsToFlush DEF Asks, Pipe!Does
<1>6. CASE Ln(p) = 7
    <2>1. Pipe!Calls(p).call = "read" /\ Pipe!Calls(p).fd = "r1"
        BY <1>1, <1>6 DEF Pipe!BeBc, Pipe!Fgets
    <2>2. fds[p]["r1"] = R(1)
        BY <1>6 DEF BeBcTable, Holds, Until
    <2> QED BY <1>6, <2>1, <2>2, WaitsToRead DEF Asks, Pipe!Does
<1> QED BY <1>2, <1>3, <1>4, <1>5, <1>6

LEMMA MainWaits ==
    ASSUME NEW p, In(p, "bc_main_wait"), Ln(p) \in 1 .. 2
    PROVE  (Pipe!Waits(p) => ~ Over(Child)) /\ ~ Asks(p)
<1>1. Pipe!Calls(p) = Pipe!BcMainWait[Ln(p)]
    BY DEF In, Pipe!Calls, Pipe!Code, Ln
<1>2. Pipe!Calls(p).call \in {"wait", "exit"}
    BY <1>1 DEF Pipe!BcMainWait, Pipe!Wait, Pipe!Exit
<1> QED BY <1>2, GoesOn, WaitsForChild DEF Asks, Pipe!Does

LEMMA BeDcWaits ==
    ASSUME NEW p, In(p, "be_dc"), Ln(p) \in 1 .. 8
    PROVE  ~ Pipe!Waits(p)
<1>1. Pipe!Calls(p) = Pipe!BeDc[Ln(p)]
    BY DEF In, Pipe!Calls, Pipe!Code, Ln
<1>2. Pipe!Calls(p).call \in {"dup2", "close", "exec", "oops"}
    BY <1>1 DEF Pipe!BeDc, Pipe!Dup2, Pipe!Close, Pipe!Exec, Pipe!Oops
<1> QED BY <1>2, GoesOn

LEMMA DcWaits ==
    ASSUME NEW p, In(p, "dc"), Ln(p) \in 1 .. 5, DcTable(p), Pipe!Waits(p)
    PROVE  \/ Ln(p) = 1 /\ ReadWaits(0)
           \/ Ln(p) \in {2, 4} /\ WriteWaits(1)
<1>1. Pipe!Calls(p) = Pipe!Dc[Ln(p)]
    BY DEF In, Pipe!Calls, Pipe!Code, Ln
<1>2. fds[p]["in"] = R(0) /\ fds[p]["out"] = W(1)
    BY DEF DcTable, Holds
<1>3. CASE Ln(p) \in {3, 5}
    <2>1. Pipe!Calls(p).call \in {"wrap", "exit"}
        BY <1>1, <1>3 DEF Pipe!Dc, Pipe!Wrap, Pipe!Exit
    <2> QED BY <2>1, GoesOn
<1>4. CASE Ln(p) = 1
    <2>1. Pipe!Calls(p).call = "read" /\ Pipe!Calls(p).fd = "in"
        BY <1>1, <1>4 DEF Pipe!Dc, Pipe!Fgets
    <2> QED BY <1>2, <1>4, <2>1, WaitsToRead
<1>5. CASE Ln(p) \in {2, 4}
    <2>1. Pipe!Calls(p).call = "write" /\ Pipe!Calls(p).fd = "out"
        BY <1>1, <1>5 DEF Pipe!Dc, Pipe!Answer
    <2> QED BY <1>2, <1>5, <2>1, WaitsToWrite
<1> QED BY <1>3, <1>4, <1>5

LEMMA Demo1Waits ==
    ASSUME NEW p, In(p, "demo1"), Ln(p) \in 1 .. 5, DemoTable(p)
    PROVE  /\ Pipe!Waits(p) => \/ Ln(p) = 3 /\ WriteWaits(0)
                               \/ Ln(p) = 4 /\ ReadWaits(0)
           /\ Asks(p) => Ln(p) = 2
<1>1. Pipe!Calls(p) = Pipe!Demo1Main[Ln(p)]
    BY DEF In, Pipe!Calls, Pipe!Code, Ln
<1>2. Ln(p) > 1 => fds[p]["r0"] = R(0) /\ fds[p]["w0"] = W(0)
    BY DEF DemoTable, Holds, Since
<1>3. CASE Ln(p) \in {1, 2, 5}
    <2>1. /\ Pipe!Calls(p).call \in {"pipe", "typed", "exit"}
          /\ Pipe!Calls(p).call = "typed" => Ln(p) = 2
        BY <1>1, <1>3 DEF Pipe!Demo1Main, Pipe!MakePipes, Pipe!Typed, Pipe!Exit
    <2> QED BY <2>1, GoesOn DEF Asks, Pipe!Does
<1>4. CASE Ln(p) = 3
    <2>1. Pipe!Calls(p).call = "write" /\ Pipe!Calls(p).fd = "w0"
        BY <1>1, <1>4 DEF Pipe!Demo1Main, Pipe!Write
    <2> QED BY <1>2, <1>4, <2>1, WaitsToWrite DEF Asks, Pipe!Does
<1>5. CASE Ln(p) = 4
    <2>1. Pipe!Calls(p).call = "read" /\ Pipe!Calls(p).fd = "r0"
        BY <1>1, <1>5 DEF Pipe!Demo1Main, Pipe!Read
    <2> QED BY <1>2, <1>5, <2>1, WaitsToRead DEF Asks, Pipe!Does
<1> QED BY <1>3, <1>4, <1>5

LEMMA Demo2Waits ==
    ASSUME NEW p, In(p, "demo2"), Ln(p) \in 1 .. 5
    PROVE  (Ln(p) \in 1 .. 2 => ~ Pipe!Waits(p)) /\ ~ Asks(p)
<1>1. Pipe!Calls(p) = Pipe!Demo2Main[Ln(p)]
    BY DEF In, Pipe!Calls, Pipe!Code, Ln
<1>2. /\ Pipe!Calls(p).call \in {"pipe", "fork", "write", "read", "exit"}
      /\ Ln(p) \in 1 .. 2 => Pipe!Calls(p).call \in {"pipe", "fork"}
    BY <1>1 DEF Pipe!Demo2Main, Pipe!MakePipes, Pipe!Fork, Pipe!Write, Pipe!Read, Pipe!Exit
<1> QED BY <1>2, GoesOn DEF Asks, Pipe!Does

LEMMA Demo3Waits ==
    ASSUME NEW p, In(p, "demo3"), Ln(p) \in 1 .. 7, Demo3Table(p)
    PROVE  /\ Pipe!Waits(p) => \/ Ln(p) = 4 /\ WriteWaits(0)
                               \/ Ln(p) = 6 /\ ~ Over(Child)
           /\ ~ Asks(p)
<1>1. Pipe!Calls(p) = Pipe!Demo3Main[Ln(p)]
    BY DEF In, Pipe!Calls, Pipe!Code, Ln
<1>2. CASE Ln(p) \in {1, 2, 3, 5, 7}
    <2>1. Pipe!Calls(p).call \in {"pipe", "fork", "close", "exit"}
        BY <1>1, <1>2 DEF Pipe!Demo3Main, Pipe!MakePipes, Pipe!Fork, Pipe!Close, Pipe!Exit
    <2> QED BY <2>1, GoesOn DEF Asks, Pipe!Does
<1>3. CASE Ln(p) = 4
    <2>1. Pipe!Calls(p).call = "write" /\ Pipe!Calls(p).fd = "w0"
        BY <1>1, <1>3 DEF Pipe!Demo3Main, Pipe!Write
    <2>2. fds[p]["w0"] = W(0)
        BY <1>3 DEF Demo3Table, Holds, Since, Until
    <2> QED BY <1>3, <2>1, <2>2, WaitsToWrite DEF Asks, Pipe!Does
<1>4. CASE Ln(p) = 6
    <2>1. Pipe!Calls(p).call = "wait"
        BY <1>1, <1>4 DEF Pipe!Demo3Main, Pipe!Wait
    <2> QED BY <1>4, <2>1, WaitsForChild DEF Asks, Pipe!Does
<1> QED BY <1>2, <1>3, <1>4

LEMMA Demo3ChildWaits ==
    ASSUME NEW p, In(p, "demo3_child"), Ln(p) \in 1 .. 4, Demo3ChildTable(p), Pipe!Waits(p)
    PROVE  Ln(p) = 2 /\ ReadWaits(0)
<1>1. Pipe!Calls(p) = Pipe!Demo3Child[Ln(p)]
    BY DEF In, Pipe!Calls, Pipe!Code, Ln
<1>2. CASE Ln(p) \in {1, 3, 4}
    <2>1. Pipe!Calls(p).call \in {"close", "exit"}
        BY <1>1, <1>2 DEF Pipe!Demo3Child, Pipe!Close, Pipe!Exit
    <2> QED BY <2>1, GoesOn
<1>3. CASE Ln(p) = 2
    <2>1. Pipe!Calls(p).call = "read" /\ Pipe!Calls(p).fd = "r0"
        BY <1>1, <1>3 DEF Pipe!Demo3Child, Pipe!Read
    <2>2. fds[p]["r0"] = R(0)
        BY <1>3 DEF Demo3ChildTable, Holds, Until
    <2> QED BY <1>3, <2>1, <2>2, WaitsToRead
<1> QED BY <1>2, <1>3

LEMMA Demo4Waits ==
    ASSUME NEW p
    PROVE  /\ In(p, "demo4") /\ Ln(p) \in 1 .. 7 => ~ Pipe!Waits(p) /\ ~ Asks(p)
           /\ In(p, "demo4_child") /\ Ln(p) \in 1 .. 5 => ~ Pipe!Waits(p)
<1>1. ASSUME In(p, "demo4"), Ln(p) \in 1 .. 7 PROVE ~ Pipe!Waits(p) /\ ~ Asks(p)
    <2>1. Pipe!Calls(p) = Pipe!Demo4Main[Ln(p)]
        BY <1>1 DEF In, Pipe!Calls, Pipe!Code, Ln
    <2>2. Pipe!Calls(p).call \in {"pipe", "fork", "close", "dup2", "exec", "oops"}
        BY <1>1, <2>1 DEF Pipe!Demo4Main, Pipe!MakePipes, Pipe!Fork, Pipe!Close, Pipe!Dup2,
                          Pipe!Exec, Pipe!Oops
    <2> QED BY <2>2, GoesOn DEF Asks, Pipe!Does
<1>2. ASSUME In(p, "demo4_child"), Ln(p) \in 1 .. 5 PROVE ~ Pipe!Waits(p)
    <2>1. Pipe!Calls(p) = Pipe!Demo4Child[Ln(p)]
        BY <1>2 DEF In, Pipe!Calls, Pipe!Code, Ln
    <2>2. Pipe!Calls(p).call \in {"close", "dup2", "exec", "oops"}
        BY <1>2, <2>1 DEF Pipe!Demo4Child, Pipe!Close, Pipe!Dup2, Pipe!Exec, Pipe!Oops
    <2> QED BY <2>2, GoesOn
<1> QED BY <1>1, <1>2

LEMMA PopenWaits ==
    ASSUME NEW p, In(p, "popen"), Ln(p) \in 1 .. 7, PopenTable(p)
    PROVE  /\ Pipe!Waits(p) => \/ Ln(p) = 4 /\ ReadWaits(0)
                               \/ Ln(p) = 6 /\ ~ Over(Child)
           /\ ~ Asks(p)
<1>1. Pipe!Calls(p) = Pipe!PopenMain[Ln(p)]
    BY DEF In, Pipe!Calls, Pipe!Code, Ln
<1>2. CASE Ln(p) \in {1, 2, 3, 5, 7}
    <2>1. Pipe!Calls(p).call \in {"pipe", "fork", "close", "exit"}
        BY <1>1, <1>2 DEF Pipe!PopenMain, Pipe!MakePipes, Pipe!Fork, Pipe!Close, Pipe!Exit
    <2> QED BY <2>1, GoesOn DEF Asks, Pipe!Does
<1>3. CASE Ln(p) = 4
    <2>1. Pipe!Calls(p).call = "read" /\ Pipe!Calls(p).fd = "r0"
        BY <1>1, <1>3 DEF Pipe!PopenMain, Pipe!Fgets
    <2>2. fds[p]["r0"] = R(0)
        BY <1>3 DEF PopenTable, Holds, Since, Until
    <2> QED BY <1>3, <2>1, <2>2, WaitsToRead DEF Asks, Pipe!Does
<1>4. CASE Ln(p) = 6
    <2>1. Pipe!Calls(p).call = "wait"
        BY <1>1, <1>4 DEF Pipe!PopenMain, Pipe!Wait
    <2> QED BY <1>4, <2>1, WaitsForChild DEF Asks, Pipe!Does
<1> QED BY <1>2, <1>3, <1>4

LEMMA ReaderWaits ==
    ASSUME NEW p, In(p, "reader"), Ln(p) \in 1 .. 2, ReaderTable(p)
    PROVE  (Pipe!Waits(p) => ReadWaits(0)) /\ ~ Asks(p)
<1>1. Pipe!Calls(p) = Pipe!Reader[Ln(p)]
    BY DEF In, Pipe!Calls, Pipe!Code, Ln
<1>2. /\ Pipe!Calls(p).call \in {"read", "exit"}
      /\ Pipe!Calls(p).call = "read" => Pipe!Calls(p).fd = "in"
    BY <1>1 DEF Pipe!Reader, Pipe!Fgets, Pipe!Exit
<1>3. fds[p]["in"] = R(0)
    BY DEF ReaderTable, Holds
<1> QED BY <1>2, <1>3, GoesOn, WaitsToRead DEF Asks, Pipe!Does

LEMMA WriterWaits ==
    ASSUME NEW p, In(p, "writer"), Ln(p) \in 1 .. MaxLines + 1, WriterTable(p), Pipe!Waits(p)
    PROVE  WriteWaits(0)
<1>1. Pipe!Calls(p) = Pipe!Writer[Ln(p)]
    BY DEF In, Pipe!Calls, Pipe!Code, Ln
<1>2. /\ Pipe!Calls(p).call \in {"write", "exit"}
      /\ Pipe!Calls(p).call = "write" => Pipe!Calls(p).fd = "out"
    BY <1>1 DEF Pipe!Writer, Pipe!Write, Pipe!Exit
<1>3. fds[p]["out"] = W(0)
    BY DEF WriterTable, Holds
<1> QED BY <1>2, <1>3, GoesOn, WaitsToWrite

\* Nobody holds the end of a pipe when neither process has it in its table.
Without(p, end) == \A f \in Pipe!Fd : fds[p][f] # end

LEMMA NobodyHolds ==
    ASSUME NEW end, Without(Parent, end), Without(Child, end)
    PROVE  Pipe!Holders(end) = {}
BY PipeConstants DEF Pipe!Holders, Without

\* The descriptors of an end of a pipe, by the tables.
LEMMA EndsApart ==
    /\ \A j \in {0, 1} : R(j) # Tty /\ R(j) # Off /\ W(j) # Tty /\ W(j) # Off
    /\ \A j \in {0, 1}, l \in {0, 1} : R(j) # W(l)
    /\ R(0) # R(1) /\ W(0) # W(1)
BY EndsDiffer DEF R, W, Tty, Off

LEMMA OverHolds ==
    ASSUME NEW p, Table(p), Over(p), NEW j \in {0, 1}
    PROVE  Without(p, R(j)) /\ Without(p, W(j))
<1>1. \A f \in Pipe!Fd : fds[p][f] = Off
    BY PipeConstants DEF Table, OverTable, Holds, In, Over
<1> QED BY <1>1, EndsApart DEF Without

LEMMA MainHolds ==
    ASSUME NEW p, Table(p), In(p, "bc_main_wait"), NEW j \in {0, 1}
    PROVE  Without(p, R(j)) /\ Without(p, W(j))
<1>1. \A f \in Pipe!Fd : fds[p][f] = Tty \/ fds[p][f] = Off
    BY PipeConstants DEF Table, NoPipeTable, Holds, In
<1> QED BY <1>1, EndsApart DEF Without

LEMMA DcHolds ==
    ASSUME NEW p, Table(p), In(p, "dc")
    PROVE  Without(p, W(0)) /\ Without(p, R(1))
<1>1. \A f \in Pipe!Fd : fds[p][f] \in {R(0), W(1), Off}
    BY PipeConstants DEF Table, DcTable, Holds, In
<1> QED BY <1>1, EndsApart DEF Without

LEMMA BeBcHolds ==
    ASSUME NEW p, Table(p), In(p, "be_bc"), Ln(p) \in 6 .. 7
    PROVE  Without(p, R(0)) /\ Without(p, W(1))
<1>1. \A f \in Pipe!Fd : fds[p][f] \in {W(0), R(1), Tty, Off}
    BY PipeConstants DEF Table, BeBcTable, Holds, In, Until
<1> QED BY <1>1, EndsApart DEF Without

LEMMA Demo3Holds ==
    ASSUME NEW p, Table(p)
    PROVE  /\ In(p, "demo3") /\ Ln(p) = 6 => Without(p, W(0))
           /\ In(p, "demo3_child") /\ Ln(p) = 2 => Without(p, W(0))
<1>1. ASSUME In(p, "demo3"), Ln(p) = 6 PROVE \A f \in Pipe!Fd : fds[p][f] \in {Tty, Off}
    BY <1>1, PipeConstants DEF Table, Demo3Table, Holds, In, Since, Until
<1>2. ASSUME In(p, "demo3_child"), Ln(p) = 2 PROVE \A f \in Pipe!Fd : fds[p][f] \in {Tty, Off, R(0)}
    BY <1>2, PipeConstants DEF Table, Demo3ChildTable, Holds, In, Until
<1> QED BY <1>1, <1>2, EndsApart DEF Without

LEMMA ReaderHolds ==
    ASSUME NEW p, Table(p)
    PROVE  /\ In(p, "reader") => Without(p, W(0))
           /\ In(p, "popen") /\ Ln(p) = 4 => Without(p, W(0))
           /\ In(p, "writer") => Without(p, R(0))
<1>1. ASSUME In(p, "reader") PROVE \A f \in Pipe!Fd : fds[p][f] \in {Tty, Off, R(0)}
    BY <1>1, PipeConstants DEF Table, ReaderTable, Holds, In
<1>2. ASSUME In(p, "popen"), Ln(p) = 4 PROVE \A f \in Pipe!Fd : fds[p][f] \in {Tty, Off, R(0)}
    BY <1>2, PipeConstants DEF Table, PopenTable, Holds, In, Since, Until
<1>3. ASSUME In(p, "writer") PROVE \A f \in Pipe!Fd : fds[p][f] \in {Tty, Off, W(0)}
    BY <1>3, PipeConstants DEF Table, WriterTable, Holds, In
<1> QED BY <1>1, <1>2, <1>3, EndsApart DEF Without

----------------------------------------------------------------------------
(* What the invariant says when bc asks, and when a reader is done.         *)

\* The first lines of the answers are among the lines.
LEMMA FirstAnswer ==
    ASSUME NEW x \in Pipe!Message, NEW k \in Nat, x.no = k, x.part = 1
    PROVE  x = [no |-> k, part |-> 1]
BY DEF Pipe!Message

\* When bc asks, every request before has its answer.
LEMMA AnswersPromise ==
    ASSUME PipesInv, Pipe!Does(Parent, "typed"), sent[Parent] # <<>>
    PROVE  LET k == Len(sent[Parent])
           IN  /\ Len(got[Parent]) = k
               /\ \/ got[Parent][k] = [no |-> k, part |-> 1]
                  \/ \E j \in DOMAIN sent[Child] :
                        sent[Child][j].no < k /\ sent[Child][j].part = 2
<1> DEFINE k == Len(sent[Parent])
<1>1. /\ sent[Parent] \in Messages /\ got[Parent] \in Messages /\ sent[Child] \in Messages
      /\ pipe[0] \in Messages /\ pipe[1] \in Messages
    BY OnePipe, PipeTypesAre DEF PipesInv
<1>2. k \in Nat /\ k > 0
    BY <1>1 DEF Messages
<1>3. Asks(Parent) /\ ~ In(Parent, "unborn") /\ ~ Over(Parent)
    BY DEF Asks, Pipe!Does, Pipe!Alive, In, Over, Parent
<1>4. Table(Parent) /\ program \in Pipe!Program
    BY <1>3 DEF PipesInv
<1> HIDE DEF k
<1>5. CASE program = "bc"
    <2>1. BcPlaces /\ BcFlow /\ BcParent /\ BcChild
        BY <1>3, <1>5 DEF PipesInv, BcInv
    <2>2. In(Parent, "be_bc") /\ Ln(Parent) \in 1 .. 10
        BY <1>3, <2>1, BcWaits, MainWaits DEF BcPlaces
    <2>3. Ln(Parent) = 4
        BY <1>3, <1>4, <2>2, BeBcWaits DEF Table
    <2>4. Len(got[Parent]) = k
        BY <2>1, <2>2, <2>3 DEF BcParent, In, k
    <2>5. k \in 1 .. Len(sent[Child]) /\ got[Parent][k] = sent[Child][k]
        <3>1. Len(sent[Child]) = k + Len(pipe[1]) /\ \A j \in 1 .. k : got[Parent][j] = sent[Child][j]
            BY <2>1, <2>4 DEF BcFlow, Flow
        <3>2. Len(pipe[1]) \in Nat
            BY <1>1 DEF Messages
        <3>3. k \in 1 .. k /\ k \in 1 .. k + Len(pipe[1])
            BY <1>2, <3>2
        <3> QED BY <3>1, <3>3
    <2>6. PICK m \in 0 .. Len(sent[Child]) :
              FirstLines(sent[Child], m) /\ SecondLine(sent[Child], m)
        BY <2>1 DEF BcChild, Answers
    <2>7. CASE k <= m
        <3>1. k \in 1 .. m
            BY <1>2, <2>6, <2>7
        <3>2. sent[Child][k].no = k /\ sent[Child][k].part = 1
            BY <2>6, <3>1 DEF FirstLines
        <3>3. sent[Child][k] \in Pipe!Message
            BY <1>1, <2>5 DEF Messages
        <3>4. got[Parent][k] = [no |-> k, part |-> 1]
            BY <1>2, <2>5, <3>2, <3>3, FirstAnswer
        <3> QED BY <2>4, <3>4 DEF k
    <2>8. CASE m < k
        <3>1. Len(sent[Child]) \in Nat /\ DOMAIN sent[Child] = 1 .. Len(sent[Child])
            BY <1>1 DEF Messages
        <3>2. m < Len(sent[Child]) /\ m + 1 \in 1 .. Len(sent[Child])
            BY <2>5, <2>6, <2>8, <3>1
        <3>3. sent[Child][m + 1].no = m /\ sent[Child][m + 1].part = 2
            BY <2>6, <3>2 DEF SecondLine
        <3>4. \E j \in DOMAIN sent[Child] : sent[Child][j].no < k /\ sent[Child][j].part = 2
            BY <2>8, <3>1, <3>2, <3>3
        <3> QED BY <2>4, <3>4 DEF k
    <2> QED BY <1>2, <2>6, <2>7, <2>8
<1>6. CASE program = "demo1"
    <2>1. In(Parent, "demo1") /\ Ln(Parent) \in 1 .. 5
        BY <1>3, <1>6 DEF PipesInv, Demo1Inv
    <2>2. Ln(Parent) = 2
        BY <1>3, <1>4, <2>1, Demo1Waits DEF Table
    <2>3. /\ Flow(sent[Parent], got[Parent], pipe[0]) /\ Numbered(sent[Parent])
          /\ Len(pipe[0]) = 0
        BY <1>6, <2>1, <2>2 DEF PipesInv, Demo1Inv
    <2>4. Len(got[Parent]) = k /\ k \in 1 .. k
        <3>1. k = Len(got[Parent]) + 0 /\ Len(got[Parent]) \in Nat
            BY <1>1, <2>3 DEF Flow, Messages, k
        <3> QED BY <1>2, <3>1
    <2>5. got[Parent][k] = sent[Parent][k] /\ sent[Parent][k].no = k /\ sent[Parent][k].part = 1
        BY <2>3, <2>4 DEF Flow, Numbered, k
    <2>6. sent[Parent][k] \in Pipe!Message
        BY <1>1, <2>4 DEF Messages, k
    <2>7. got[Parent][k] = [no |-> k, part |-> 1]
        BY <1>2, <2>5, <2>6, FirstAnswer
    <2> QED BY <2>4, <2>7 DEF k
<1>7. CASE program = "demo2"
    <2>1. In(Parent, "demo2") /\ Ln(Parent) \in 1 .. 5
        BY <1>3, <1>7 DEF PipesInv, Demo2Inv
    <2> QED BY <1>3, <2>1, Demo2Waits
<1>8. CASE program = "demo3"
    <2>1. In(Parent, "demo3") /\ Ln(Parent) \in 1 .. 7
        BY <1>3, <1>8 DEF PipesInv, Demo3Inv
    <2> QED BY <1>3, <1>4, <2>1, Demo3Waits DEF Table
<1>9. CASE program = "demo4"
    <2>1. \/ In(Parent, "demo4") /\ Ln(Parent) \in 1 .. 7
          \/ In(Parent, "reader") /\ Ln(Parent) \in 1 .. 2
        BY <1>3, <1>9 DEF PipesInv, Demo4Inv, Over, In
    <2> QED BY <1>3, <1>4, <2>1, Demo4Waits, ReaderWaits DEF Table
<1>10. CASE program = "popen"
    <2>1. In(Parent, "popen") /\ Ln(Parent) \in 1 .. 7
        BY <1>3, <1>10 DEF PipesInv, PopenInv, Over, In
    <2> QED BY <1>3, <1>4, <2>1, PopenWaits DEF Table
<1> QED BY <1>4, <1>5, <1>6, <1>7, <1>8, <1>9, <1>10 DEF Pipe!Program

\* When the reader is done, what was written has been read.
LEMMA AllHasArrived ==
    ASSUME NEW s \in Messages, NEW g \in Messages, Flow(s, g, <<>>)
    PROVE  g = s
<1>1. Len(s) = Len(g) /\ Len(s) \in Nat
    <2>1. Len(<<>>) = 0 /\ Len(g) \in Nat
        BY DEF Messages
    <2>2. Len(s) = Len(g) + Len(<<>>)
        BY DEF Flow
    <2> QED BY <2>1, <2>2
<1>2. \A j \in 1 .. Len(s) : s[j] = g[j]
    BY <1>1 DEF Flow
<1> QED BY <1>1, <1>2, SeqEqual DEF Messages

LEMMA ArrivalPromise == PipesInv => Pipe!EverythingArrives
<1> SUFFICES ASSUME PipesInv PROVE Pipe!EverythingArrives
    OBVIOUS
<1>1. /\ sent[Parent] \in Messages /\ got[Parent] \in Messages
      /\ sent[Child] \in Messages /\ got[Child] \in Messages
    BY OnePipe, PipeTypesAre DEF PipesInv
<1>2. ASSUME program \in {"demo4", "popen"}, In(Parent, "done") PROVE got[Parent] = sent[Child]
    <2>1. Written /\ AllRead
        BY <1>2 DEF PipesInv, Demo4Inv, PopenInv, In
    <2> QED BY <1>1, <2>1, AllHasArrived DEF Written, AllRead
<1>3. ASSUME program = "demo3", In(Child, "done") PROVE got[Child] = sent[Parent]
    <2>1. Flow(sent[Parent], got[Child], pipe[0]) /\ pipe[0] = <<>>
        BY <1>3 DEF PipesInv, Demo3Inv, In, Over
    <2> QED BY <1>1, <2>1, AllHasArrived
<1> QED BY <1>2, <1>3 DEF Pipe!EverythingArrives, In, Parent, Child

----------------------------------------------------------------------------
(* Everyone waits only where a pipe is full.                                *)

\* When bc waits for room and dc for room, an answer had two lines.
LEMMA FullPipes ==
    ASSUME PipesInv, program = "bc", In(Parent, "be_bc"), Ln(Parent) = 6, FlushWaits,
           In(Child, "dc"), Ln(Child) \in {2, 4}, WriteWaits(1)
    PROVE  /\ \A j \in Pipe!Pipe : Len(pipe[j]) = PipeSize
           /\ \E j \in DOMAIN sent[Child] : sent[Child][j].part = 2
<1>1. /\ PipeTypes /\ BcFlow /\ BcParent /\ BcChild
    BY DEF PipesInv, BcInv, Over, In
<1>2. /\ sent[Parent] \in Messages /\ got[Parent] \in Messages /\ sent[Child] \in Messages
      /\ got[Child] \in Messages /\ pipe[0] \in Messages /\ pipe[1] \in Messages
      /\ buf \in Messages /\ Len(pipe[0]) <= PipeSize
    BY <1>1, OnePipe, PipeTypesAre DEF PipeTypes, Pipe!Pipe
<1>3. /\ Len(buf) = 1 /\ Len(got[Parent]) = Len(sent[Parent]) - 1
      /\ Len(pipe[0]) + Len(buf) > PipeSize /\ Len(pipe[1]) = PipeSize
    BY <1>1 DEF BcParent, FlushWaits, WriteWaits
<1>4. Len(pipe[0]) = PipeSize
    <2>1. Len(pipe[0]) \in Nat
        BY <1>2 DEF Messages
    <2> QED BY <1>2, <1>3, <2>1, OnePipe
<1>5. /\ Len(sent[Parent]) = Len(got[Child]) + (PipeSize + 1)
      /\ Len(sent[Child]) = Len(got[Parent]) + PipeSize
    <2>1. Len(pipe[0] \o buf) = PipeSize + 1
        <3>1. Len(pipe[0] \o buf) = Len(pipe[0]) + Len(buf)
            BY <1>2, ConcatProperties DEF Messages
        <3> QED BY <1>3, <1>4, <3>1
    <2> QED BY <1>1, <1>3, <2>1 DEF BcFlow, Flow
<1>6. Len(sent[Child]) > Len(got[Child])
    <2>1. Len(sent[Parent]) \in Nat /\ Len(got[Child]) \in Nat
        BY <1>2 DEF Messages
    <2>2. ASSUME NEW sp \in Nat, NEW gc \in Nat, NEW gp, NEW sc,
                 gp = sp - 1, sp = gc + (PipeSize + 1), sc = gp + PipeSize
          PROVE  sc > gc
        BY <2>2, OnePipe
    <2> QED BY <1>3, <1>5, <2>1, <2>2
<1>7. PICK m \in 0 .. Len(sent[Child]) :
          /\ FirstLines(sent[Child], m) /\ SecondLine(sent[Child], m)
          /\ m = Len(sent[Child]) /\ ~ Over(Child) =>
                Len(got[Child]) = IF In(Child, "dc") /\ Ln(Child) = 2 THEN m + 1 ELSE m
    BY <1>1 DEF BcChild, Answers
<1>8. m < Len(sent[Child])
    <2>1. ~ Over(Child)
        BY DEF Over, In
    <2>2. Len(sent[Child]) \in Nat /\ Len(got[Child]) \in Nat
        BY <1>2 DEF Messages
    <2>3. m = Len(sent[Child]) => Len(got[Child]) >= Len(sent[Child])
        BY <1>7, <2>1, <2>2
    <2> QED BY <1>6, <1>7, <2>2, <2>3
<1>9. m + 1 \in DOMAIN sent[Child]
    BY <1>2, <1>7, <1>8 DEF Messages
<1>10. sent[Child][m + 1].part = 2
    BY <1>7, <1>8 DEF SecondLine
<1> QED BY <1>3, <1>4, <1>9, <1>10, PipeConstants

\* In which states nobody goes on, program by program.
LEMMA BcBlocks ==
    ASSUME PipesInv, program = "bc",
           Over(Parent) \/ In(Parent, "unborn") \/ Pipe!Waits(Parent),
           Over(Child) \/ In(Child, "unborn") \/ Pipe!Waits(Child),
           ~ ((Over(Parent) \/ In(Parent, "unborn")) /\ (Over(Child) \/ In(Child, "unborn")))
    PROVE  /\ \A j \in Pipe!Pipe : Len(pipe[j]) = PipeSize
           /\ \E j \in DOMAIN sent[Child] : sent[Child][j].part = 2
<1>1. PipeTypes /\ Table(Parent) /\ Table(Child) /\ BcPlaces /\ BcFlow /\ BcChild
      /\ (Over(Parent) \/ BcParent)
    BY DEF PipesInv, BcInv
<1>2. /\ pipe[0] \in Messages /\ pipe[1] \in Messages
      /\ Len(pipe[0]) \in Nat /\ Len(pipe[1]) \in Nat /\ Len(<<>>) = 0
    BY <1>1, PipeTypesAre DEF Messages
<1>3. \/ In(Child, "dc") /\ Ln(Child) \in 1 .. 5 /\ ~ Over(Child) /\ Pipe!Waits(Child)
      \/ Over(Child)
    <2>1. CASE In(Child, "unborn")
        <3>1. In(Parent, "bc") /\ Ln(Parent) \in 1 .. 3
            BY <1>1, <2>1 DEF BcPlaces, Over, In
        <3> QED BY <2>1, <3>1, BcWaits DEF Over, In
    <2>2. CASE In(Child, "be_dc") /\ Ln(Child) \in 1 .. 8
        BY <2>2, BeDcWaits DEF Over, In
    <2>3. CASE In(Child, "dc") /\ Ln(Child) \in 1 .. 5
        BY <2>3 DEF Over, In
    <2> QED BY <1>1, <2>1, <2>2, <2>3 DEF BcPlaces
<1>4. \/ Over(Parent)
      \/ In(Parent, "be_bc") /\ Ln(Parent) = 6 /\ FlushWaits
      \/ In(Parent, "be_bc") /\ Ln(Parent) = 7 /\ ReadWaits(1)
      \/ In(Parent, "bc_main_wait") /\ ~ Over(Child)
    <2>1. CASE In(Parent, "bc") /\ Ln(Parent) \in 1 .. 3
        BY <2>1, BcWaits DEF Over, In
    <2>2. CASE In(Parent, "be_bc") /\ Ln(Parent) \in 1 .. 10
        BY <1>1, <2>2, BeBcWaits DEF Over, In, Table
    <2>3. CASE In(Parent, "bc_main_wait") /\ Ln(Parent) \in 1 .. 2
        BY <2>3, MainWaits DEF Over, In
    <2>4. \/ In(Parent, "bc") /\ Ln(Parent) \in 1 .. 3
          \/ In(Parent, "be_bc") /\ Ln(Parent) \in 1 .. 10
          \/ In(Parent, "bc_main_wait") /\ Ln(Parent) \in 1 .. 2
          \/ Over(Parent)
        <3>1. Ln(Parent) = 3 \/ Ln(Parent) \in 1 .. 2 => Ln(Parent) \in 1 .. 3
            OBVIOUS
        <3> QED BY <1>1, <3>1 DEF BcPlaces
    <2> QED BY <2>1, <2>2, <2>3, <2>4
<1>5. CASE Over(Child)
    <2>1. ~ Over(Parent) /\ Without(Child, R(0)) /\ Without(Child, W(1))
        BY <1>1, <1>5, OverHolds
    <2>2. In(Parent, "be_bc") /\ Ln(Parent) \in 6 .. 7 /\ (FlushWaits \/ ReadWaits(1))
        BY <1>4, <1>5, <2>1
    <2>3. Without(Parent, R(0)) /\ Without(Parent, W(1))
        BY <1>1, <2>2, BeBcHolds
    <2>4. Pipe!Holders(R(0)) = {} /\ Pipe!Holders(W(1)) = {}
        BY <2>1, <2>3, NobodyHolds
    <2> QED BY <2>2, <2>4 DEF FlushWaits, ReadWaits
<1>6. CASE In(Child, "dc") /\ Ln(Child) \in 1 .. 5 /\ ~ Over(Child) /\ Pipe!Waits(Child)
    <2>1. \/ Ln(Child) = 1 /\ ReadWaits(0)
          \/ Ln(Child) \in {2, 4} /\ WriteWaits(1)
        BY <1>1, <1>6, DcWaits DEF Table
    <2>2. Without(Child, W(0)) /\ Without(Child, R(1))
        BY <1>1, <1>6, DcHolds
    <2>3. CASE Over(Parent) \/ In(Parent, "bc_main_wait")
        <3>1. Without(Parent, W(0)) /\ Without(Parent, R(1))
            BY <1>1, <2>3, OverHolds, MainHolds
        <3>2. Pipe!Holders(W(0)) = {} /\ Pipe!Holders(R(1)) = {}
            BY <2>2, <3>1, NobodyHolds
        <3> QED BY <2>1, <3>2 DEF ReadWaits, WriteWaits
    <2>4. CASE In(Parent, "be_bc") /\ Ln(Parent) = 6 /\ FlushWaits
        <3>1. CASE Ln(Child) = 1 /\ ReadWaits(0)
            <4>1. Len(buf) = 1
                BY <1>1, <2>4 DEF BcParent, Over, In
            <4>2. Len(pipe[0]) = 0 /\ Len(pipe[0]) + Len(buf) > PipeSize
                BY <1>2, <2>4, <3>1 DEF FlushWaits, ReadWaits
            <4> QED BY <4>1, <4>2, OnePipe
        <3>2. CASE Ln(Child) \in {2, 4} /\ WriteWaits(1)
            BY <1>6, <2>4, <3>2, FullPipes
        <3> QED BY <2>1, <3>1, <3>2
    <2>5. CASE In(Parent, "be_bc") /\ Ln(Parent) = 7 /\ ReadWaits(1)
        <3>1. pipe[1] = <<>> /\ Len(pipe[1]) = 0
            BY <1>2, <2>5 DEF ReadWaits
        <3>2. CASE Ln(Child) \in {2, 4} /\ WriteWaits(1)
            BY <3>1, <3>2, OnePipe DEF WriteWaits
        <3>3. CASE Ln(Child) = 1 /\ ReadWaits(0)
            <4>1. buf = <<>> /\ Len(got[Parent]) = Len(sent[Parent]) - 1
                BY <1>1, <2>5 DEF BcParent, Over, In
            <4>2. pipe[0] \o buf = <<>>
                BY <3>3, <4>1 DEF ReadWaits
            <4>3. Len(sent[Parent]) = Len(got[Child]) + 0 /\ Len(sent[Child]) = Len(got[Parent]) + 0
                BY <1>1, <1>2, <3>1, <4>2 DEF BcFlow, Flow
            <4>4. Len(sent[Child]) \in Len(got[Child]) .. 2 * Len(got[Child])
                BY <1>1, <1>6, <3>3 DEF BcChild
            <4>5. Len(got[Child]) \in Nat /\ Len(got[Parent]) \in Nat
                BY <1>1, OnePipe, PipeTypesAre DEF Messages
            <4> QED BY <4>1, <4>3, <4>4, <4>5
        <3> QED BY <2>1, <3>2, <3>3
    <2> QED BY <1>4, <2>3, <2>4, <2>5
<1> QED BY <1>3, <1>5, <1>6

LEMMA Demo1Blocks ==
    ASSUME PipesInv, program = "demo1", In(Parent, "demo1"), Pipe!Waits(Parent)
    PROVE  FALSE
<1>1. /\ Table(Parent) /\ Ln(Parent) \in 1 .. 5 /\ Len(<<>>) = 0
      /\ Ln(Parent) < 5 => Len(pipe[0]) = IF Ln(Parent) = 4 THEN 1 ELSE 0
    BY DEF PipesInv, Demo1Inv, Over, In
<1>2. \/ Ln(Parent) = 3 /\ WriteWaits(0)
      \/ Ln(Parent) = 4 /\ ReadWaits(0)
    BY <1>1, Demo1Waits DEF Table
<1> QED BY <1>1, <1>2, OnePipe DEF WriteWaits, ReadWaits

LEMMA Demo2Blocks ==
    ASSUME PipesInv, program = "demo2", Over(Parent) \/ In(Parent, "unborn") \/ Pipe!Waits(Parent),
           ~ ((Over(Parent) \/ In(Parent, "unborn")) /\ (Over(Child) \/ In(Child, "unborn")))
    PROVE  Child \in Pipe!Holders(R(0))
<1>1. Table(Child) /\ Demo2Inv
    BY DEF PipesInv
<1>2. CASE In(Parent, "demo2") /\ Ln(Parent) \in 1 .. 2
    BY <1>2, Demo2Waits DEF Over, In
<1>3. CASE In(Child, "demo2_child")
    <2>1. fds[Child]["r0"] = R(0)
        BY <1>1, <1>3 DEF Table, Demo2ChildTable, Holds
    <2> QED BY <2>1, PipeConstants DEF Pipe!Holders
<1> QED BY <1>1, <1>2, <1>3 DEF Demo2Inv

LEMMA Demo3Blocks ==
    ASSUME PipesInv, program = "demo3",
           Over(Parent) \/ In(Parent, "unborn") \/ Pipe!Waits(Parent),
           Over(Child) \/ In(Child, "unborn") \/ Pipe!Waits(Child),
           ~ ((Over(Parent) \/ In(Parent, "unborn")) /\ (Over(Child) \/ In(Child, "unborn")))
    PROVE  FALSE
<1>1. PipeTypes /\ Table(Parent) /\ Table(Child) /\ Demo3Inv
    BY DEF PipesInv
<1>2. Over(Child) \/ In(Child, "unborn") \/
         (In(Child, "demo3_child") /\ Ln(Child) = 2 /\ ReadWaits(0) /\ ~ Over(Child))
    BY <1>1, Demo3ChildWaits DEF Demo3Inv, Table, Over, In
<1>3. Over(Parent) \/ (In(Parent, "demo3") /\ \/ Ln(Parent) = 4 /\ WriteWaits(0)
                                              \/ Ln(Parent) = 6 /\ ~ Over(Child))
    <2>1. Over(Parent) \/ (In(Parent, "demo3") /\ Ln(Parent) \in 1 .. 7)
        BY <1>1 DEF Demo3Inv
    <2>2. ~ In(Parent, "unborn")
        BY <2>1 DEF Over, In
    <2> QED BY <1>1, <2>1, <2>2, Demo3Waits DEF Table
<1>4. CASE In(Parent, "demo3") /\ Ln(Parent) = 4 /\ WriteWaits(0)
    <2>1. sent[Parent] = <<>> /\ Flow(sent[Parent], got[Child], pipe[0])
        BY <1>1, <1>4 DEF Demo3Inv
    <2>2. Len(got[Child]) \in Nat /\ Len(pipe[0]) \in Nat /\ Len(<<>>) = 0
        BY <1>1, OnePipe, PipeTypesAre DEF Messages
    <2>3. 0 = Len(got[Child]) + Len(pipe[0])
        BY <2>1, <2>2 DEF Flow
    <2>4. Len(pipe[0]) = 0
        <3>1. \A a \in Nat, b \in Nat : 0 = a + b => b = 0
            OBVIOUS
        <3> QED BY <2>2, <2>3, <3>1
    <2> QED BY <1>4, <2>4, OnePipe DEF WriteWaits
<1>5. CASE In(Child, "demo3_child") /\ Ln(Child) = 2 /\ ReadWaits(0)
           /\ (Over(Parent) \/ (In(Parent, "demo3") /\ Ln(Parent) = 6))
    <2>1. Without(Child, W(0)) /\ Without(Parent, W(0))
        BY <1>1, <1>5, OverHolds, Demo3Holds
    <2> QED BY <1>5, <2>1, NobodyHolds DEF ReadWaits
<1>6. CASE In(Child, "unborn")
    BY <1>1, <1>2, <1>3, <1>6 DEF Demo3Inv, Over, In
<1> QED BY <1>2, <1>3, <1>4, <1>5, <1>6

LEMMA WriterBlocks ==
    ASSUME PipesInv, program \in {"demo4", "popen"},
           Over(Parent) \/ In(Parent, "unborn") \/ Pipe!Waits(Parent),
           Over(Child) \/ In(Child, "unborn") \/ Pipe!Waits(Child),
           ~ ((Over(Parent) \/ In(Parent, "unborn")) /\ (Over(Child) \/ In(Child, "unborn")))
    PROVE  FALSE
<1>1. PipeTypes /\ Table(Parent) /\ Table(Child)
    BY DEF PipesInv
<1>2. \/ Over(Parent)
      \/ In(Parent, "reader") /\ ReadWaits(0)
      \/ In(Parent, "popen") /\ Ln(Parent) = 4 /\ ReadWaits(0)
      \/ In(Parent, "popen") /\ Over(Child) /\ ~ Over(Child)
    <2>1. CASE program = "demo4"
        <3>1. \/ In(Parent, "demo4") /\ Ln(Parent) \in 1 .. 7
              \/ In(Parent, "reader") /\ Ln(Parent) \in 1 .. 2
              \/ Over(Parent)
            BY <2>1 DEF PipesInv, Demo4Inv, Over, In
        <3> QED BY <1>1, <3>1, Demo4Waits, ReaderWaits DEF Table, Over, In
    <2>2. CASE program = "popen"
        <3>1. \/ In(Parent, "popen") /\ Ln(Parent) \in 1 .. 7
              \/ Over(Parent)
            BY <2>2 DEF PipesInv, PopenInv, Over, In
        <3>2. In(Parent, "popen") /\ Ln(Parent) = 6 => Over(Child)
            BY <2>2 DEF PipesInv, PopenInv, Over, In, AllRead
        <3> QED BY <1>1, <3>1, <3>2, PopenWaits DEF Table, Over, In
    <2> QED BY <2>1, <2>2
<1>3. \/ Over(Child) \/ In(Child, "unborn")
      \/ In(Child, "writer") /\ WriteWaits(0)
    <2>1. Writes \/ Over(Child) \/ In(Child, "unborn")
        BY DEF PipesInv, Demo4Inv, PopenInv
    <2> QED BY <1>1, <2>1, Demo4Waits, WriterWaits DEF Table, Writes
<1>4. In(Child, "unborn") => Over(Parent)
    <2>1. ASSUME In(Child, "unborn")
          PROVE  Over(Parent) \/ (In(Parent, "demo4") /\ Ln(Parent) \in 1 .. 7)
                              \/ (In(Parent, "popen") /\ Ln(Parent) \in 1 .. 2)
        BY <2>1 DEF PipesInv, Demo4Inv, PopenInv, Over, In, Writes
    <2> QED BY <1>2, <2>1 DEF In, Over
<1>5. CASE Over(Parent)
    <2>1. In(Child, "writer") /\ WriteWaits(0)
        BY <1>3, <1>5
    <2>2. Without(Child, R(0)) /\ Without(Parent, R(0))
        BY <1>1, <1>5, <2>1, OverHolds, ReaderHolds
    <2> QED BY <2>1, <2>2, NobodyHolds DEF WriteWaits
<1>6. CASE /\ ReadWaits(0)
           /\ In(Parent, "reader") \/ (In(Parent, "popen") /\ Ln(Parent) = 4)
    <2>1. CASE Over(Child)
        <3>1. Without(Child, W(0)) /\ Without(Parent, W(0))
            BY <1>1, <1>6, <2>1, OverHolds, ReaderHolds
        <3> QED BY <1>6, <3>1, NobodyHolds DEF ReadWaits
    <2>2. CASE In(Child, "writer") /\ WriteWaits(0)
        <3>1. Len(<<>>) = 0
            OBVIOUS
        <3> QED BY <1>6, <2>2, <3>1, OnePipe DEF ReadWaits, WriteWaits
    <2> QED BY <1>3, <1>4, <1>6, <2>1, <2>2 DEF Over, In
<1> QED BY <1>2, <1>5, <1>6

\* Where everybody waits: the child of pipe_demo_2.c, or both pipes of bc full.
LEMMA BlockPromise == PipesInv => Pipe!OnlyFullPipesBlock
<1> SUFFICES ASSUME PipesInv, \E p \in Pipe!Process : Pipe!Alive(p),
                    \A p \in Pipe!Process : Pipe!Alive(p) => Pipe!Waits(p)
             PROVE  \/ program = "demo2" /\ Child \in Pipe!Holders(R(0))
                    \/ /\ program = "bc"
                       /\ \A j \in Pipe!Pipe : Len(pipe[j]) = PipeSize
                       /\ \E j \in DOMAIN sent[Child] : sent[Child][j].part = 2
    BY DEF Pipe!OnlyFullPipesBlock, Child, R
<1>1. \A p : Pipe!Alive(p) <=> ~ (Over(p) \/ In(p, "unborn"))
    BY DEF Pipe!Alive, Over, In
<1>2. /\ Over(Parent) \/ In(Parent, "unborn") \/ Pipe!Waits(Parent)
      /\ Over(Child) \/ In(Child, "unborn") \/ Pipe!Waits(Child)
      /\ ~ ((Over(Parent) \/ In(Parent, "unborn")) /\ (Over(Child) \/ In(Child, "unborn")))
    BY <1>1, PipeConstants
<1>3. program \in Pipe!Program
    BY <1>2 DEF PipesInv
<1>4. program = "demo1" => FALSE
    <2>1. ASSUME program = "demo1" PROVE In(Parent, "demo1") /\ Pipe!Waits(Parent)
        <3>1. In(Child, "unborn") /\ (Over(Parent) \/ In(Parent, "demo1"))
            BY <2>1 DEF PipesInv, Demo1Inv
        <3> QED BY <1>2, <3>1 DEF In, Over
    <2> QED BY <2>1, Demo1Blocks
<1> QED BY <1>2, <1>3, <1>4, BcBlocks, Demo2Blocks, Demo3Blocks, WriterBlocks DEF Pipe!Program
====
