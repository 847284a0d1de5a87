---- MODULE Pipes ----
(***************************************************************************)
(* The pipe programs of IPC/: bc_demo_1.c, where a parent turns what the    *)
(* user types into requests and dc, its child, computes; pipe_demo_1.c to   *)
(* pipe_demo_4.c; and popen.c.                                              *)
(*                                                                          *)
(* They are straight sequences of system calls, so each function is a       *)
(* sequence of calls (first half), and one action per call says what the    *)
(* kernel does with it (second half).  Sleeping is no step: every order of  *)
(* the calls of two processes is allowed.  A message is a line, or what one *)
(* write puts into the pipe; printing is part of the read it follows.       *)
(***************************************************************************)
EXTENDS Integers, Sequences

CONSTANTS
    PipeSize,    \* messages a pipe holds
    MaxLines     \* bound: lines the user types, lines a command writes

Parent == "parent"
Child == "child"
Process == {Parent, Child}

\* r0 and w0 are pipe_fd[0], pipe_fd[1], or todc; r1 and w1 are fromdc.
Fd == {"in", "out", "r0", "w0", "r1", "w1"}
Pipe == {0, 1}

\* What a descriptor refers to.
Terminal == <<-1, "terminal">>
Closed == <<-1, "closed">>
ReadEnd(i) == <<i, "read">>
WriteEnd(i) == <<i, "write">>
Open == {Terminal, Closed} \cup {ReadEnd(i) : i \in Pipe}
                           \cup {WriteEnd(i) : i \in Pipe}

----------------------------------------------------------------------------
(* System calls.  Where a call has several outcomes it names the next step  *)
(* of each; any other goes on with the step that follows it.                *)

MakePipes(ids) == [call |-> "pipe", ids |-> ids]
Fork(fn) == [call |-> "fork", fn |-> fn]
Exec(cmd) == [call |-> "exec", fn |-> cmd]
Call(fn) == [call |-> "call", fn |-> fn]
Close(fd) == [call |-> "close", fd |-> fd]
Dup2(fd, to) == [call |-> "dup2", fd |-> fd, to |-> to]
Fdopen == [call |-> "fdopen"]
Typed(line, error, eof) ==
    [call |-> "typed", line |-> line, error |-> error, eof |-> eof]
Fprintf == [call |-> "fprintf"]
Fflush(fd) == [call |-> "fflush", fd |-> fd]
Fgets(fd, line, eof) ==
    [call |-> "read", fd |-> fd, line |-> line, eof |-> eof, most |-> 1]
Read(fd, line, eof) ==
    [call |-> "read", fd |-> fd, line |-> line, eof |-> eof,
     most |-> PipeSize]
Write(fd, next) ==
    [call |-> "write", fd |-> fd, next |-> next, answer |-> FALSE]
Answer(fd, next) ==
    [call |-> "write", fd |-> fd, next |-> next, answer |-> TRUE]
Wrap(short, long) == [call |-> "wrap", short |-> short, long |-> long]
Wait == [call |-> "wait"]
Exit == [call |-> "exit"]
Oops == [call |-> "oops"]

----------------------------------------------------------------------------
(* bc_demo_1.c                                                             *)

BcMain == <<MakePipes({0, 1}), Fork("be_dc"), Call("be_bc")>>
BcMainWait == <<Wait, Exit>>

\* Mutant of BeBc: a line with a syntax error is sent as well.
BeBcSendsErrors == <<
    Close("r0"), Close("w1"), Fdopen,
    Typed(5, 11, 8),
    Fprintf, Fflush("w0"), Fgets("r1", 4, 8),
    Close("w0"), Close("r1"), Call("bc_main_wait"),
    Fprintf, Fflush("w0"), Typed(5, 11, 8)>>

\* fclose at 8 has nothing to flush: every request is flushed at 6.
BeBc == <<
    Close("r0"), Close("w1"), Fdopen,
    Typed(5, 4, 8),                              \* 4: while (fgets(stdin))
    Fprintf, Fflush("w0"), Fgets("r1", 4, 8),    \* 5, 6, 7
    Close("w0"), Close("r1"), Call("bc_main_wait")>>

\* Mutant of BeDc: the process goes on when execlp fails.
BeDcReturns == <<
    Dup2("r0", "in"), Close("r0"), Close("w0"),
    Dup2("w1", "out"), Close("w1"), Close("r1"),
    Exec("dc")>>

\* Mutant of BeDc: dc keeps the end that writes its own input.
BeDcKeepsWriteEnd == <<
    Dup2("r0", "in"), Close("r0"),
    Dup2("w1", "out"), Close("w1"), Close("r1"),
    Exec("dc"), Oops>>

BeDc == <<
    Dup2("r0", "in"), Close("r0"), Close("w0"),
    Dup2("w1", "out"), Close("w1"), Close("r1"),
    Exec("dc"), Oops>>

\* dc answers a request with one line, and one of more than 70 characters
\* with two.
Dc == <<Fgets("in", 2, 5), Answer("out", 3), Wrap(1, 4), Answer("out", 1),
        Exit>>

----------------------------------------------------------------------------
(* pipe_demo_1.c to pipe_demo_4.c, popen.c                                 *)

Demo1Main == <<MakePipes({0}), Typed(3, 3, 5), Write("w0", 4),
               Read("r0", 2, 5), Exit>>

\* The semicolon after the if leaves the parent's loop after one read.
Demo2Main == <<MakePipes({0}), Fork("demo2_child"), Write("w0", 4),
               Read("r0", 5, 5), Exit>>
Demo2Child == <<Write("w0", 1)>>

Demo3Main == <<MakePipes({0}), Fork("demo3_child"), Close("r0"), Write("w0", 5),
               Close("w0"), Wait, Exit>>
Demo3Child == <<Close("w0"), Read("r0", 3, 3), Close("r0"), Exit>>

Demo4Main == <<MakePipes({0}), Fork("demo4_child"), Close("w0"),
               Dup2("r0", "in"), Close("r0"), Exec("reader"), Oops>>
\* Mutant of Demo4Child: the command still writes to the terminal.
Demo4ChildNoDup == <<Close("r0"), Close("w0"), Exec("writer"), Oops>>

\* Mutant of Demo4Child: the command keeps the end that reads.
Demo4ChildKeepsReadEnd == <<Dup2("w0", "out"), Close("w0"), Exec("writer"),
                            Oops>>

Demo4Child == <<Close("r0"), Dup2("w0", "out"), Close("w0"),
                Exec("writer"), Oops>>

\* popen is a pipe, a child and a command in it; pclose a close and a wait.
PopenMain == <<MakePipes({0}), Fork("demo4_child"), Close("w0"),
               Fgets("r0", 4, 5), Close("r0"), Wait, Exit>>

\* The commands of argv: one writes lines, one reads lines to the end.
Writer == [i \in 1 .. MaxLines + 1 |->
              IF i <= MaxLines THEN Write("out", i + 1) ELSE Exit]
Reader == <<Fgets("in", 1, 2), Exit>>

Code == [
    bc |-> BcMain, bc_main_wait |-> BcMainWait, be_bc |-> BeBc,
    be_dc |-> BeDc, dc |-> Dc, demo1 |-> Demo1Main, demo2 |-> Demo2Main,
    demo2_child |-> Demo2Child, demo3 |-> Demo3Main,
    demo3_child |-> Demo3Child, demo4 |-> Demo4Main,
    demo4_child |-> Demo4Child, popen |-> PopenMain,
    writer |-> Writer, reader |-> Reader]

Program == {"bc", "demo1", "demo2", "demo3", "demo4", "popen"}
Command == {"dc", "writer", "reader"}

----------------------------------------------------------------------------
(* State                                                                   *)

VARIABLES
    program,     \* the program that runs
    at,          \* the function a process is in, and the step it takes next
    fds,         \* descriptor tables
    pipe,        \* messages in each pipe
    buf,         \* messages in the stdio buffer of be_bc's fpout
    typed,       \* lines the user has typed
    sent,        \* messages a process has written, the first MaxLines
    got          \* messages a process has read, the first ones

vars == <<program, at, fds, pipe, buf, typed, sent, got>>

\* Message no, or a part of it; dc answers message no with parts 1 and 2.
Message == [no : Nat, part : 1 .. 2]
MaxGot == 2 * MaxLines

\* A process is "unborn", in a function of Code, or gone: "done" when it has
\* come to its end, "dead" after oops, a signal or an early end.
TypeOK ==
    /\ \A p \in Process :
          \/ at[p].fn \in DOMAIN Code /\ at[p].ln \in DOMAIN Code[at[p].fn]
          \/ at[p].fn \in {"unborn", "done", "dead"} /\ at[p].ln = 0
    /\ fds \in [Process -> [Fd -> Open]]
    /\ \A i \in Pipe : pipe[i] \in Seq(Message) /\ Len(pipe[i]) <= PipeSize
    /\ buf \in Seq(Message)
    /\ typed \in 0 .. MaxLines
    /\ \A p \in Process : sent[p] \in Seq(Message) /\ got[p] \in Seq(Message)

Start ==
    /\ at = [p \in Process |-> IF p = Parent /\ program \in Program
                              THEN [fn |-> program, ln |-> 1]
                              ELSE [fn |-> "unborn", ln |-> 0]]
    /\ fds = [p \in Process |->
                 [f \in Fd |-> IF f \in {"in", "out"} THEN Terminal
                                                     ELSE Closed]]
    /\ pipe = [i \in Pipe |-> <<>>]
    /\ buf = <<>>
    /\ typed = 0
    /\ sent = [p \in Process |-> <<>>]
    /\ got = [p \in Process |-> <<>>]

Init == program \in Program /\ Start

----------------------------------------------------------------------------
(* The calls                                                               *)

Alive(p) == at[p].fn \notin {"unborn", "done", "dead"}
Gone(p) == at[p].fn \in {"done", "dead"}
Calls(p) == Code[at[p].fn][at[p].ln]
Does(p, call) == Alive(p) /\ Calls(p).call = call

Holders(end) == {p \in Process : \E f \in Fd : fds[p][f] = end}

Goto(p, ln) == at' = [at EXCEPT ![p].ln = ln]
NextStep(p) == Goto(p, at[p].ln + 1)
Enter(p, fn) == at' = [at EXCEPT ![p] = [fn |-> fn, ln |-> 1]]

\* The kernel closes what a process that ends has open.
End(p, how) ==
    /\ at' = [at EXCEPT ![p] = [fn |-> how, ln |-> 0]]
    /\ fds' = [fds EXCEPT ![p] = [f \in Fd |-> Closed]]

Record(history, messages, bound) ==
    LET all == history \o messages
    IN  SubSeq(all, 1, IF Len(all) < bound THEN Len(all) ELSE bound)

messages == <<pipe, buf, typed, sent, got>>

DoPipe(p) ==
    /\ Does(p, "pipe")
    /\ \/ /\ NextStep(p)
          /\ LET ids == Calls(p).ids
             IN  fds' = [fds EXCEPT
                    ![p]["r0"] = ReadEnd(0), ![p]["w0"] = WriteEnd(0),
                    ![p]["r1"] = IF 1 \in ids THEN ReadEnd(1) ELSE Closed,
                    ![p]["w1"] = IF 1 \in ids THEN WriteEnd(1) ELSE Closed]
       \/ End(p, "dead")
    /\ UNCHANGED <<program, messages>>

DoFork(p) ==
    /\ Does(p, "fork")
    /\ \/ /\ at' = [at EXCEPT ![p].ln = @ + 1,
                             ![Child] = [fn |-> Calls(p).fn, ln |-> 1]]
          /\ fds' = [fds EXCEPT ![Child] = fds[p]]
       \/ End(p, "dead")
    /\ UNCHANGED <<program, messages>>

\* execlp leaves the descriptors alone; it may fail.
DoExec(p) ==
    /\ Does(p, "exec")
    /\ Enter(p, Calls(p).fn) \/ NextStep(p)
    /\ UNCHANGED <<program, fds, messages>>

DoCall(p) ==
    /\ Does(p, "call")
    /\ Enter(p, Calls(p).fn)
    /\ UNCHANGED <<program, fds, messages>>

DoClose(p) ==
    /\ Does(p, "close")
    /\ NextStep(p)
    /\ fds' = [fds EXCEPT ![p][Calls(p).fd] = Closed]
    /\ UNCHANGED <<program, messages>>

DoDup2(p) ==
    /\ Does(p, "dup2")
    /\ \/ /\ fds[p][Calls(p).fd] # Closed
          /\ NextStep(p)
          /\ fds' = [fds EXCEPT ![p][Calls(p).to] = fds[p][Calls(p).fd]]
       \/ End(p, "dead")
    /\ UNCHANGED <<program, messages>>

DoFdopen(p) ==
    /\ Does(p, "fdopen")
    /\ \/ NextStep(p) /\ UNCHANGED fds
       \/ End(p, "dead")
    /\ UNCHANGED <<program, messages>>

\* The user types a line, one with a syntax error, or end of file.
DoTyped(p) ==
    /\ Does(p, "typed")
    /\ \/ /\ typed < MaxLines
          /\ typed' = typed + 1
          /\ Goto(p, Calls(p).line) \/ Goto(p, Calls(p).error)
       \/ /\ Goto(p, Calls(p).eof)
          /\ UNCHANGED typed
    /\ UNCHANGED <<program, fds, pipe, buf, sent, got>>

\* The next message of p: one of its own, or the next part of its answer.
Its(p, answer) ==
    IF answer
    THEN LET no == got[p][Len(got[p])].no
         IN  [no |-> no,
              part |-> IF \E i \in DOMAIN sent[p] : sent[p][i].no = no
                       THEN 2 ELSE 1]
    ELSE [no |-> Len(sent[p]) + 1, part |-> 1]

Sends(p, m) == sent' = [sent EXCEPT ![p] = Record(@, <<m>>, MaxGot)]

DoFprintf(p) ==
    /\ Does(p, "fprintf")
    /\ NextStep(p)
    /\ buf' = Append(buf, Its(p, FALSE))
    /\ Sends(p, Its(p, FALSE))
    /\ UNCHANGED <<program, fds, pipe, typed, got>>

DoFflush(p) ==
    /\ Does(p, "fflush")
    /\ LET i == fds[p][Calls(p).fd][1]
       IN  \/ /\ Holders(ReadEnd(i)) # {}
              /\ Len(pipe[i]) + Len(buf) <= PipeSize
              /\ pipe' = [pipe EXCEPT ![i] = @ \o buf]
              /\ buf' = <<>>
              /\ NextStep(p) /\ UNCHANGED fds
           \/ /\ Holders(ReadEnd(i)) = {}        \* SIGPIPE
              /\ End(p, "dead")
              /\ UNCHANGED <<pipe, buf>>
    /\ UNCHANGED <<program, typed, sent, got>>

\* A write waits for room in the pipe, is SIGPIPE when nobody can read it,
\* and fails on what is not open for writing.
DoWrite(p) ==
    /\ Does(p, "write")
    /\ LET end == fds[p][Calls(p).fd]
           m == Its(p, Calls(p).answer)
       IN  \/ /\ end = Terminal
              /\ Goto(p, Calls(p).next) /\ Sends(p, m)
              /\ UNCHANGED <<fds, pipe>>
           \/ /\ end[2] = "write" /\ Holders(ReadEnd(end[1])) # {}
              /\ Len(pipe[end[1]]) < PipeSize
              /\ pipe' = [pipe EXCEPT ![end[1]] = Append(@, m)]
              /\ Goto(p, Calls(p).next) /\ Sends(p, m)
              /\ UNCHANGED fds
           \/ /\ end[2] = "write" => Holders(ReadEnd(end[1])) = {}
              /\ end # Terminal
              /\ End(p, "dead")
              /\ UNCHANGED <<pipe, sent>>
    /\ UNCHANGED <<program, buf, typed, got>>

\* A read waits for a message, or for the last descriptor that could write
\* one to be closed: end of file.
DoRead(p) ==
    /\ Does(p, "read")
    /\ LET end == fds[p][Calls(p).fd]
       IN  \/ /\ end[2] = "read" /\ pipe[end[1]] # <<>>
              /\ \E n \in 1 .. Calls(p).most :
                    /\ n <= Len(pipe[end[1]])
                    /\ pipe' = [pipe EXCEPT
                          ![end[1]] = SubSeq(@, n + 1, Len(@))]
                    /\ got' = [got EXCEPT
                          ![p] = Record(@, SubSeq(pipe[end[1]], 1, n), MaxGot)]
              /\ Goto(p, Calls(p).line)
           \/ /\ end[2] = "read" =>
                    pipe[end[1]] = <<>> /\ Holders(WriteEnd(end[1])) = {}
              /\ Goto(p, Calls(p).eof)
              /\ UNCHANGED <<pipe, got>>
    /\ UNCHANGED <<program, fds, buf, typed, sent>>

DoWrap(p) ==
    /\ Does(p, "wrap")
    /\ \/ Goto(p, Calls(p).short)
       \/ Goto(p, Calls(p).long)
    /\ UNCHANGED <<program, fds, messages>>

DoWait(p) ==
    /\ Does(p, "wait")
    /\ Gone(Child)
    /\ NextStep(p)
    /\ UNCHANGED <<program, fds, messages>>

DoExit(p) ==
    /\ \/ Does(p, "exit") /\ End(p, "done")
       \/ Does(p, "oops") /\ End(p, "dead")
    /\ UNCHANGED <<program, messages>>

\* A command may end, or be killed, at any time.
Dies(p) ==
    /\ at[p].fn \in Command
    /\ End(p, "dead")
    /\ UNCHANGED <<program, messages>>

Step(p) ==
    \/ DoPipe(p) \/ DoFork(p) \/ DoExec(p) \/ DoCall(p) \/ DoClose(p)
    \/ DoDup2(p) \/ DoFdopen(p) \/ DoFprintf(p) \/ DoFflush(p)
    \/ DoWrite(p) \/ DoRead(p) \/ DoWrap(p) \/ DoWait(p) \/ DoExit(p)

Next == \E p \in Process : Step(p) \/ DoTyped(p) \/ Dies(p)

\* A process that can go on does; nobody has to type, or to kill.
Fairness == \A p \in Process : WF_vars(Step(p))

Spec == Init /\ [][Next]_vars /\ Fairness

----------------------------------------------------------------------------
(* Properties                                                              *)

\* When bc asks for the next line it has printed one line for every request,
\* and the last is dc's answer to the last request (get result from fpin),
\* unless an answer before it was longer than a line: from then on bc is
\* behind.  pipe_demo_1 has printed the line that was typed.
AnswersInStep ==
    Does(Parent, "typed") /\ sent[Parent] # <<>> =>
        LET k == Len(sent[Parent])
        IN  /\ Len(got[Parent]) = k
            /\ \/ got[Parent][k] = [no |-> k, part |-> 1]
               \/ \E i \in DOMAIN sent[Child] :
                     sent[Child][i].no < k /\ sent[Child][i].part = 2

\* A reader that came to its end has read all that was written and nothing
\* else: end of file comes after the last message, and to whom it is due.
EverythingArrives ==
    /\ program \in {"demo4", "popen"} /\ at[Parent].fn = "done" =>
          got[Parent] = sent[Child]
    /\ program = "demo3" /\ at[Child].fn = "done" =>
          got[Child] = sent[Parent]

Waits(p) ==
    \/ /\ Does(p, "read")
       /\ LET end == fds[p][Calls(p).fd]
          IN  /\ end[2] = "read" /\ pipe[end[1]] = <<>>
              /\ Holders(WriteEnd(end[1])) # {}
    \/ /\ Does(p, "write")
       /\ LET end == fds[p][Calls(p).fd]
          IN  /\ end[2] = "write" /\ Len(pipe[end[1]]) = PipeSize
              /\ Holders(ReadEnd(end[1])) # {}
    \/ /\ Does(p, "fflush")
       /\ LET end == fds[p][Calls(p).fd]
          IN  /\ Len(pipe[end[1]]) + Len(buf) > PipeSize
              /\ Holders(ReadEnd(end[1])) # {}
    \/ Does(p, "wait") /\ ~ Gone(Child)

\* The processes that are left never all wait for each other, except in two
\* programs where a pipe is full: the child of pipe_demo_2 writes into one it
\* holds the read end of; and when dc answers with more lines than bc reads,
\* bc fills the pipe to dc while dc cannot go on with the one to bc.
OnlyFullPipesBlock ==
    /\ \E p \in Process : Alive(p)
    /\ \A p \in Process : Alive(p) => Waits(p)
    => \/ program = "demo2" /\ Child \in Holders(ReadEnd(0))
       \/ /\ program = "bc"
          /\ \A i \in Pipe : Len(pipe[i]) = PipeSize
          /\ \E i \in DOMAIN sent[Child] : sent[Child][i].part = 2

\* Except in pipe_demo_2 the child does not outlive its parent for ever; and
\* where the parent has nothing to wait for but the child, it follows it.
WhenOneLeaves ==
    /\ program # "demo2" /\ Gone(Parent) ~> ~ Alive(Child)
    /\ program \in {"demo3", "demo4", "popen"} /\ Gone(Child) ~> Gone(Parent)

====
