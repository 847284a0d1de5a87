---- MODULE TimeService ----
(***************************************************************************)
(* IPC/time_serve_socketdemo.c and time_clint_socketdemo.c: a server that   *)
(* writes the time to one client after the other, through stdio, and        *)
(* clients that read once.  What the server sends in one write arrives as   *)
(* one segment: it is far smaller than a packet.                            *)
(***************************************************************************)
EXTENDS Integers, Sequences, TimeParameters

Program == {"time"}
TheTimeHereIs == "The time here is.."
Ctime == "ctime"
Part == {TheTimeHereIs, Ctime}
Answer == <<TheTimeHereIs, Ctime>>

VARIABLES
    program,
    server,     \* the call the server is at; "over" when it has ended
    serving,    \* the client whose connection is sock_fd
    buf,        \* what the stdio buffer of sock_fp holds
    queue,      \* connections to accept
    client,     \* the call a client is at; "done", "dead" after oops or a signal
    segments,   \* what is on its way to each client
    broken,     \* clients whose reset the server's kernel has received
    got         \* what the read of each client has returned

vars == <<program, server, serving, buf, queue, client, segments, broken, got>>
connections == <<queue, client, segments, got>>

TypeOK ==
    /\ server \in {"absent", "setup", "accept", "fdopen", "head", "time",
                   "fclose", "over"}
    /\ serving \in Client \cup {Nobody}
    /\ buf \in Seq(Part)
    /\ queue \in Seq(Client) /\ Len(queue) <= Qsize
    /\ client \in [Client -> {"absent", "connect", "read", "done", "dead"}]
    /\ broken \subseteq Client
    /\ segments \in [Client -> Seq(Seq(Part))]
    /\ got \in [Client -> Seq(Part)]

Start ==
    /\ server = IF program \in Program THEN "setup" ELSE "absent"
    /\ serving = Nobody /\ buf = <<>> /\ queue = <<>>
    /\ client = [c \in Client |->
                    IF program \in Program THEN "connect" ELSE "absent"]
    /\ segments = [c \in Client |-> <<>>]
    /\ broken = {}
    /\ got = [c \in Client |-> <<>>]

Init == program \in Program /\ Start

----------------------------------------------------------------------------
(* The server                                                              *)

\* socket, gethostbyname, bind and listen.
Setup ==
    /\ server = "setup"
    /\ server' = "accept" \/ server' = "over"
    /\ UNCHANGED <<program, serving, buf, broken, connections>>

\* A connection is accepted also when its client has left meanwhile.
Accept ==
    /\ server = "accept" /\ queue # <<>>
    /\ serving' = Head(queue) /\ queue' = Tail(queue)
    /\ server' = "fdopen"
    /\ UNCHANGED <<program, buf, client, segments, broken, got>>

AcceptFails ==
    /\ server = "accept" /\ server' = "over"
    /\ UNCHANGED <<program, serving, buf, broken, connections>>

Fdopen ==
    /\ server = "fdopen"
    /\ server' = "head" \/ server' = "over"
    /\ UNCHANGED <<program, serving, buf, broken, connections>>

Here == client[serving] \notin {"done", "dead"}

\* A write of data to sock_fd.  The first one to a client that has left is
\* answered by a reset; one after that is a SIGPIPE, which nobody handles.
Sends(data, next) ==
    IF serving \in broken
    THEN server' = "over" /\ UNCHANGED <<segments, broken>>
    ELSE /\ server' = next
         /\ IF Here
            THEN /\ segments' = [segments EXCEPT ![serving] = Append(@, data)]
                 /\ UNCHANGED broken
            ELSE broken' = broken \cup {serving} /\ UNCHANGED segments

\* Mutant of Fprintf: the stream is not buffered.
FprintfUnbuffered ==
    /\ \/ server = "head" /\ Sends(<<TheTimeHereIs>>, "time")
       \/ server = "time" /\ Sends(<<Ctime>>, "fclose")
    /\ UNCHANGED <<program, serving, buf, queue, client, got>>

\* Both lines stay in the buffer.
Fprintf ==
    /\ \/ server = "head" /\ server' = "time" /\ buf' = Append(buf, TheTimeHereIs)
       \/ server = "time" /\ server' = "fclose" /\ buf' = Append(buf, Ctime)
    /\ UNCHANGED <<program, serving, broken, connections>>

Fclose ==
    /\ server = "fclose"
    /\ IF buf = <<>> THEN server' = "accept" /\ UNCHANGED <<segments, broken>>
                     ELSE Sends(buf, "accept")
    /\ buf' = <<>> /\ serving' = Nobody
    /\ UNCHANGED <<program, queue, client, got>>

----------------------------------------------------------------------------
(* A client                                                                *)

\* connect waits for a place in the queue, and fails without a server.
Connect(c) ==
    /\ client[c] = "connect"
    /\ \/ /\ server \notin {"setup", "over"} /\ Len(queue) < Qsize
          /\ queue' = Append(queue, c)
          /\ client' = [client EXCEPT ![c] = "read"]
       \/ /\ server \in {"setup", "over"}
          /\ client' = [client EXCEPT ![c] = "dead"] /\ UNCHANGED queue
    /\ UNCHANGED <<program, server, serving, buf, segments, broken, got>>

Queued(c) == \E k \in DOMAIN queue : queue[k] = c

\* One read: what the first segment brings, or the end after the last one.
Read(c) ==
    /\ client[c] = "read"
    /\ \/ /\ segments[c] # <<>>
          /\ got' = [got EXCEPT ![c] = Head(segments[c])]
          /\ segments' = [segments EXCEPT ![c] = Tail(@)]
       \/ /\ segments[c] = <<>>
          /\ (c # serving /\ ~ Queued(c)) \/ server = "over"
          /\ UNCHANGED <<got, segments>>
    /\ client' = [client EXCEPT ![c] = "done"]
    /\ UNCHANGED <<program, server, serving, buf, queue, broken>>

Killed(c) ==
    /\ client[c] \in {"connect", "read"}
    /\ client' = [client EXCEPT ![c] = "dead"]
    /\ UNCHANGED <<program, server, serving, buf, queue, segments, broken, got>>

----------------------------------------------------------------------------
Serve == Setup \/ Accept \/ Fdopen \/ Fprintf \/ Fclose
Step(c) == Connect(c) \/ Read(c)

Next == Serve \/ AcceptFails \/ \E c \in Client : Step(c) \/ Killed(c)

\* Server and clients go on when they can; nobody has to be killed,
\* and accept need not fail.
Fairness == WF_vars(Serve) /\ \A c \in Client : WF_vars(Step(c))

Spec == Init /\ [][Next]_vars /\ Fairness

----------------------------------------------------------------------------
(* Properties                                                              *)

\* Clients that are killed at any time do not end the server: it never
\* writes to a connection that is known to be reset.
ClientsDoNotEndIt == server \in {"head", "time", "fclose"} => serving \notin broken

\* One read is enough for the whole answer: who reads anything has all of
\* it, and only who meets a server that has ended has nothing.
OneReadIsEnough ==
    \A c \in Client : client[c] = "done" =>
        got[c] = Answer \/ (got[c] = <<>> /\ server = "over")

\* Nobody waits for ever for the time.
ClientsLeave ==
    (\E c \in Client : client[c] = "read") ~> \A c \in Client : client[c] # "read"

====
