---- MODULE EpollServer ----
(***************************************************************************)
(* IPC/IO_epoll.c: one process with non-blocking, edge-triggered sockets    *)
(* sends its clients what they sent, in rot13.  Descriptor 0 stands for     *)
(* listen_fd.  n and i are used twice by the code: for the events of a      *)
(* batch and for the bytes of a read (one chunk here).                      *)
(*                                                                          *)
(* todo and stalled are history: the events of the batch that were not      *)
(* taken up yet, and the descriptors that are ready but will not be         *)
(* reported before something new happens to them.                           *)
(***************************************************************************)
EXTENDS Sockets, Functions

CONSTANT MAXEVENTS   \* 128

ASSUME EpollAssumption == MAXEVENTS \in Nat \ {0}

listen_fd == 0
Event == [fd : Fd \cup {listen_fd}, err : BOOLEAN]

VARIABLES
    pc,          \* the call the server makes next, or "exit"
    rdlist,      \* the kernel's list of descriptors something happened to, as a set
    events,
    n,
    i,
    socket_fd,
    todo,
    stalled

server == <<pc, rdlist, events, n, i, socket_fd, todo, stalled>>
vars == <<network, server>>

TypeOK ==
    /\ NetworkTypeOK
    /\ pc \in {"wait", "event", "read", "write", "exit"}
    /\ rdlist \subseteq Fd \cup {listen_fd}
    /\ events \in Seq(Event)
    /\ n \in -1 .. MAXEVENTS
    /\ i \in 0 .. MAXEVENTS + 1
    /\ socket_fd \in Fd \cup {listen_fd}
    /\ todo \in Seq(Event)
    /\ stalled \subseteq Fd \cup {listen_fd}

Init ==
    /\ NetworkInit
    /\ pc = "wait"
    /\ rdlist = {} /\ events = <<>>
    /\ n = 0 /\ i = 0 /\ socket_fd = 0
    /\ todo = <<>> /\ stalled = {}

----------------------------------------------------------------------------
(* The kernel's side of epoll                                              *)

IsReady(f) ==
    IF f = listen_fd THEN backlog # <<>>
    ELSE conn[f] # NoClient /\ Readable(conn[f])

\* What epoll_wait reports: all listed descriptors that are ready or as many as
\* there is room for, each once, in any order.
Report(f) == [fd |-> f, err |-> f # listen_fd /\ end[conn[f]] = "broken"]

Batches ==
    LET ready == {f \in rdlist : IsReady(f)}
        orders == {r \in UNION {[1 .. k -> ready] : k \in 1 .. MAXEVENTS} :
                      IsInjective(r) /\ (Len(r) < MAXEVENTS => Range(r) = ready)}
    IN  {[k \in DOMAIN r |-> Report(r[k])] : r \in orders}

Fds(list) == {list[k].fd : k \in DOMAIN list}

\* What it leaves listed: the descriptors it did not come to.
Unseen(batch) == IF Len(batch) < MAXEVENTS THEN {} ELSE rdlist \ Fds(batch)

----------------------------------------------------------------------------
(* The loop over the events                                                *)

epoll_wait ==
    /\ pc = "wait"
    /\ \E batch \in Batches :
          /\ events' = batch /\ todo' = batch
          /\ n' = Len(batch) /\ i' = 0
          /\ rdlist' = Unseen(batch)
          /\ stalled' = stalled \ Fds(batch)
    /\ pc' = "event"
    /\ UNCHANGED <<network, socket_fd>>

\* The events that n no longer counts are forgotten.  (i and n end with the
\* body of the loop; events and socket_fd are written before they are read.)
BatchEnds ==
    /\ pc = "event" /\ i >= n
    /\ pc' = "wait"
    /\ stalled' = stalled \cup Fds(todo)
    /\ events' = <<>> /\ n' = 0 /\ i' = 0 /\ socket_fd' = 0
    /\ UNCHANGED <<network, rdlist, todo>>

\* events[i] (the array starts with 0).
This == events[i + 1]

Takes ==
    /\ pc = "event" /\ i < n
    /\ todo' = Tail(todo)

\* Closing a descriptor also removes it from the list.
Forget(f) ==
    /\ rdlist' = rdlist \ {f}
    /\ stalled' = stalled \ {f}

\* Mutant of ErrorEvent: the event is taken for one of an open socket.
ErrorFallsThrough ==
    /\ Takes
    /\ This.err
    /\ close(This.fd)
    /\ Forget(This.fd)
    /\ socket_fd' = This.fd
    /\ pc' = "read"
    /\ UNCHANGED <<events, n, i>>

\* EPOLLERR or EPOLLHUP.
ErrorEvent ==
    /\ Takes
    /\ This.err
    /\ close(This.fd)
    /\ Forget(This.fd)
    /\ i' = i + 1
    /\ UNCHANGED <<pc, events, n, socket_fd>>

\* One connection is accepted for an edge; epoll_ctl lists it at once if it is
\* ready already.
AcceptEvent ==
    /\ Takes
    /\ This.fd = listen_fd
    /\ accept
    /\ rdlist' = IF Readable(Head(backlog)) THEN rdlist \cup {NewFd} ELSE rdlist
    /\ stalled' = IF Len(backlog) > 1 /\ listen_fd \notin rdlist
                  THEN stalled \cup {listen_fd} ELSE stalled
    /\ i' = i + 1
    /\ UNCHANGED <<pc, events, n, socket_fd>>

AcceptFails ==
    /\ Takes
    /\ This.fd = listen_fd
    /\ pc' = "exit"
    /\ UNCHANGED <<network, rdlist, events, n, i, socket_fd, stalled>>

SocketEvent ==
    /\ Takes
    /\ This.fd # listen_fd /\ ~This.err
    /\ socket_fd' = This.fd
    /\ pc' = "read"
    /\ UNCHANGED <<network, rdlist, events, n, i, stalled>>

----------------------------------------------------------------------------
(* The loop over the data of one connection                                *)

Peer == conn[socket_fd]

\* n is the number of bytes, and i has counted them when they are written.
Read ==
    /\ pc = "read"
    /\ read(socket_fd)
    /\ n' = 1 /\ i' = 1
    /\ pc' = "write"
    /\ UNCHANGED <<rdlist, events, socket_fd, todo, stalled>>

\* The break leaves n as it is, and i is increased.
LeaveLoop(result) ==
    /\ pc = "read"
    /\ inbox[Peer] = 0
    /\ n' = result
    /\ i' = i + 1
    /\ pc' = "event"
    /\ UNCHANGED <<events, socket_fd, todo>>

\* EAGAIN: everything is read.
ReadNothing ==
    /\ LeaveLoop(-1)
    /\ end[Peer] = "open"
    /\ UNCHANGED <<network, rdlist, stalled>>

\* Mutant of EndOfFile: the case n == 0 does not end the loop.
EndOfFileIgnored ==
    /\ pc = "read"
    /\ inbox[Peer] = 0 /\ end[Peer] = "fin"
    /\ UNCHANGED vars

EndOfFile ==
    /\ LeaveLoop(0)
    /\ end[Peer] = "fin"
    /\ close(socket_fd)
    /\ Forget(socket_fd)

ReadFails ==
    /\ pc = "read"
    /\ inbox[Peer] = 0 /\ end[Peer] = "broken"
    /\ pc' = "exit"
    /\ UNCHANGED <<network, rdlist, events, n, i, socket_fd, todo, stalled>>

\* Mutant of Write: the loop ends with the first chunk.
WriteOnce ==
    /\ pc = "write"
    /\ write(socket_fd)
    /\ i' = i + 1
    /\ pc' = "event"
    /\ UNCHANGED <<rdlist, events, n, socket_fd, todo, stalled>>

\* All of the chunk or, without a word, the part there is room for.
Write ==
    /\ pc = "write"
    /\ write(socket_fd)
    /\ pc' = "read"
    /\ UNCHANGED <<rdlist, events, n, i, socket_fd, todo, stalled>>

\* EAGAIN because the client does not read, or a broken connection.
WriteFails ==
    /\ pc = "write"
    /\ ~Writable(socket_fd)
    /\ pc' = "exit"
    /\ UNCHANGED <<network, rdlist, events, n, i, socket_fd, todo, stalled>>

ServerStep ==
    \/ epoll_wait \/ BatchEnds
    \/ ErrorEvent \/ AcceptEvent \/ AcceptFails \/ SocketEvent
    \/ Read \/ ReadNothing \/ EndOfFile \/ ReadFails \/ Write \/ WriteFails

----------------------------------------------------------------------------
(* What the clients do, and the edges it makes                             *)

Edge(f) ==
    /\ rdlist' = rdlist \cup {f}
    /\ stalled' = stalled \ {f}
    /\ UNCHANGED <<pc, events, n, i, socket_fd, todo>>

ClientStep(c) ==
    \/ Connect(c) /\ Edge(listen_fd)
    \/ /\ Send(c) \/ Finish(c) \/ BreakDown(c)
       /\ IF life[c] = "open"
          THEN Edge(CHOOSE f \in Fd : conn[f] = c)
          ELSE UNCHANGED server
    \/ Drain(c) /\ UNCHANGED server

Next == ServerStep \/ \E c \in Client : ClientStep(c)

\* The server runs when it can.
Spec == Init /\ [][Next]_vars /\ WF_vars(ServerStep)

----------------------------------------------------------------------------
(* Properties                                                              *)

\* "Every element of the array is an event that needs to be handled" (line
\* 31): the server comes back to epoll_wait with none of them left.
EveryEventIsHandled == pc = "wait" => todo = <<>>

\* No event of the batch outlives its descriptor, which the kernel would give
\* to another client: each is still open when its event is taken up, an event
\* of the listening socket finds somebody to accept (accept would end the
\* server), and the socket of the read loop is open.
EventsAreValid ==
    /\ pc = "event" /\ i < n => todo = SubSeq(events, i + 1, n)
    /\ pc # "wait" => \A f \in Fds(todo) : IsReady(f)
    /\ pc \in {"read", "write"} => conn[socket_fd] # NoClient

\* Edge-triggered: whatever is ready is listed, in the batch, or being read.
\* Only two things stall: the events dropped with the batch, and connections
\* beyond the first that came with one edge of the listening socket.
OnlyKnownStalls ==
    \A f \in Fd \cup {listen_fd} :
        IsReady(f) /\ f \notin stalled =>
            \/ f \in rdlist
            \/ pc # "wait" /\ f \in Fds(todo)
            \/ pc \in {"read", "write"} /\ socket_fd = f
            \/ pc = "exit"

\* What is ready is served, or stalls, or the server ends.
ServedOrStalled ==
    \A f \in Fd \cup {listen_fd} :
        IsReady(f) ~> (~IsReady(f) \/ f \in stalled \/ pc = "exit")
====
