---- MODULE SelectClient ----
(***************************************************************************)
(* The client of IPC/IO_select.c (lines 100 to 161): select on stdin and    *)
(* the socket, fgets for the one, read for the other.  A message is a line; *)
(* tcp_client and the server are not in the file, and the server may answer *)
(* each line with one of its own, in pieces of any length, and may close.   *)
(* The full-width comma of the declaration in line 113 is read as a comma.  *)
(***************************************************************************)
EXTENDS Integers

CONSTANT MaxLines       \* bound: lines the user types

Program == {"select"}
Fd == {"stdin", "socket"}

VARIABLES
    program,
    stdin,      \* what descriptor 0 is: "terminal" or "pipe"
    at,         \* where main is
    readmask,
    typed,      \* lines the user has typed, and
    ended,      \* whether end of file after them
    waiting,    \* lines in the terminal or the pipe
    buffered,   \* lines in the stdio buffer of stdin
    sent,       \* lines written to the socket
    answers,    \* lines to read from the socket
    answered,   \* lines the server has sent
    closed      \* whether the server has closed the connection

vars == <<program, stdin, at, readmask, typed, ended, waiting, buffered, sent,
          answers, answered, closed>>
user == <<typed, ended, stdin>>
server == <<answered, closed>>

TypeOK ==
    /\ stdin \in {"terminal", "pipe"}
    /\ at \in {"absent", "select", "test socket", "test stdin", "over"}
    /\ readmask \subseteq Fd
    /\ {typed, waiting, buffered, sent, answers, answered} \subseteq 0 .. MaxLines
    /\ {ended, closed} \subseteq BOOLEAN

\* Line 113 leaves readmask as it is: nothing reads it before line 123.
Start ==
    /\ stdin \in IF program \in Program THEN {"terminal", "pipe"}
                                        ELSE {"terminal"}
    /\ at = IF program \in Program THEN "select" ELSE "absent"
    /\ readmask = Fd
    /\ typed = 0 /\ ended = FALSE /\ waiting = 0 /\ buffered = 0 /\ sent = 0
    /\ answers = 0 /\ answered = 0 /\ closed = FALSE

Init == program \in Program /\ Start

----------------------------------------------------------------------------
(* The kernel's view: select does not see what stdio holds.                *)

Readable == {fd \in Fd : \/ fd = "stdin" /\ (waiting > 0 \/ ended)
                         \/ fd = "socket" /\ (answers > 0 \/ closed)}

allreads == Fd

\* Mutant of Asked: readmask is set before the loop, not in it.
AskedOnce == readmask

\* What the program asks select for.
Asked == allreads

Select ==
    /\ at = "select" /\ Asked \cap Readable # {}
    /\ readmask' = Asked \cap Readable
    /\ at' = "test socket"
    /\ UNCHANGED <<program, user, waiting, buffered, sent, answers, server>>

\* select, or the read of the socket, fails.
Error ==
    /\ at \in {"select", "test socket"}
    /\ at' = "over"
    /\ UNCHANGED <<program, user, readmask, waiting, buffered, sent, answers,
                   server>>

TestSocket ==
    /\ at = "test socket"
    /\ \/ "socket" \notin readmask /\ at' = "test stdin" /\ UNCHANGED answers
       \/ /\ "socket" \in readmask /\ answers > 0
          /\ \E n \in 1 .. answers : answers' = answers - n
          /\ at' = "test stdin"
       \/ /\ "socket" \in readmask /\ answers = 0       \* server terminated
          /\ at' = "over" /\ UNCHANGED answers
    /\ UNCHANGED <<program, user, readmask, waiting, buffered, sent, server>>

\* fgets reads when its buffer is empty: one line from a terminal, all there
\* is from a pipe.  NULL at the end of the input is no reason to stop.
Fgets ==
    IF buffered > 0 THEN buffered' = buffered - 1 /\ UNCHANGED waiting
    ELSE LET n == IF stdin = "terminal" THEN 1 ELSE waiting
         IN  buffered' = n - 1 /\ waiting' = waiting - n

\* The write is of no concern to the loop: rt < 0 is never true of a size_t.
\* When the server has closed, the write may be the one that gets a SIGPIPE.
TestStdin ==
    /\ at = "test stdin"
    /\ \/ /\ "stdin" \in readmask /\ buffered + waiting > 0
          /\ Fgets /\ sent' = sent + 1
          /\ at' = "select" \/ (closed /\ at' = "over")
       \/ /\ "stdin" \in readmask => buffered + waiting = 0
          /\ at' = "select"
          /\ UNCHANGED <<waiting, buffered, sent>>
    /\ UNCHANGED <<program, user, readmask, answers, server>>

----------------------------------------------------------------------------
(* The user and the server                                                 *)

Type ==
    /\ at \notin {"absent", "over"} /\ ~ ended
    /\ \/ /\ typed < MaxLines
          /\ typed' = typed + 1 /\ waiting' = waiting + 1 /\ UNCHANGED ended
       \/ ended' = TRUE /\ UNCHANGED <<typed, waiting>>
    /\ UNCHANGED <<program, stdin, at, readmask, buffered, sent, answers,
                   server>>

Serve ==
    /\ at \notin {"absent", "over"} /\ ~ closed
    /\ \/ /\ answered < sent
          /\ answered' = answered + 1 /\ answers' = answers + 1
          /\ UNCHANGED closed
       \/ closed' = TRUE /\ UNCHANGED <<answered, answers>>
    /\ UNCHANGED <<program, user, at, readmask, waiting, buffered, sent>>

Step == Select \/ TestSocket \/ TestStdin

Next == Step \/ Error \/ Type \/ Serve

\* The client goes on when it can.
Fairness == WF_vars(Step)

Spec == Init /\ [][Next]_vars /\ Fairness

----------------------------------------------------------------------------
(* Properties                                                              *)

\* While select blocks, no line of the server and no line typed at a terminal
\* waits to be read.  Of a pipe, fgets reads all the lines and gives one: the
\* rest waits in stdio's buffer until more is typed or answered, and only what
\* is still in the pipe is spoken of here.
NoLineWaits ==
    at = "select" /\ Asked \cap Readable = {} =>
        /\ waiting = 0 /\ answers = 0
        /\ stdin = "terminal" => sent = typed

\* So every line typed at a terminal is sent, or the client has ended.
EveryLineIsSent ==
    stdin = "terminal" /\ sent < typed ~> sent = typed \/ at = "over"

====
