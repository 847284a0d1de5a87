---- MODULE Sockets ----
(***************************************************************************)
(* What the servers of IPC/IO_poll.c and IPC/IO_epoll.c share: clients, and *)
(* the kernel's side of their connections.  None of it is code of the       *)
(* repository; it is what accept, read, write and close deal with.          *)
(*                                                                          *)
(* A chunk is what one read of the server takes.  A connection is broken    *)
(* when the kernel has a reset, or a timeout, to report for it.             *)
(***************************************************************************)
EXTENDS Integers, Sequences, FiniteSets

CONSTANTS
    Clients,     \* how many clients connect, each once
    MaxSent,     \* bound: chunks all clients send together
    SNDBUF       \* chunks the kernel keeps for a client that does not read

ASSUME SocketsAssumption ==
    /\ Clients \in Nat
    /\ MaxSent \in Nat
    /\ SNDBUF \in Nat \ {0}

\* Clients are numbered in the order in which they connect.
Client == 1 .. Clients
NoClient == 0

\* Descriptors of connections; the kernel gives out the lowest free one.
Fd == 1 .. Clients

VARIABLES
    backlog,     \* connected clients that were not accepted yet
    conn,        \* the server's descriptor table: a client, or NoClient
    life,        \* "new", "queued", "open" or "closed" (by the server)
    sent,        \* chunks the clients have sent
    inbox,       \* chunks the server has not read
    unread,      \* chunks the client has not read
    end          \* what the client did: "open", "fin" or "broken"

network == <<backlog, conn, life, sent, inbox, unread, end>>

NetworkTypeOK ==
    /\ backlog \in Seq(Client)
    /\ conn \in [Fd -> Client \cup {NoClient}]
    /\ life \in [Client -> {"new", "queued", "open", "closed"}]
    /\ sent \in 0 .. MaxSent
    /\ inbox \in [Client -> 0 .. MaxSent]
    /\ unread \in [Client -> 0 .. SNDBUF]
    /\ end \in [Client -> {"open", "fin", "broken"}]

NetworkInit ==
    /\ backlog = <<>>
    /\ conn = [f \in Fd |-> NoClient]
    /\ life = [c \in Client |-> "new"]
    /\ sent = 0
    /\ inbox = [c \in Client |-> 0]
    /\ unread = [c \in Client |-> 0]
    /\ end = [c \in Client |-> "open"]

----------------------------------------------------------------------------
(* Clients                                                                 *)

Alive(c) == life[c] \in {"queued", "open"}

Connect(c) ==
    /\ life[c] = "new"
    /\ \A d \in 1 .. c - 1 : life[d] # "new"
    /\ life' = [life EXCEPT ![c] = "queued"]
    /\ backlog' = Append(backlog, c)
    /\ UNCHANGED <<conn, sent, inbox, unread, end>>

Send(c) ==
    /\ Alive(c) /\ end[c] = "open" /\ sent < MaxSent
    /\ sent' = sent + 1
    /\ inbox' = [inbox EXCEPT ![c] = @ + 1]
    /\ UNCHANGED <<backlog, conn, life, unread, end>>

Finish(c) ==
    /\ Alive(c) /\ end[c] = "open"
    /\ end' = [end EXCEPT ![c] = "fin"]
    /\ UNCHANGED <<backlog, conn, life, sent, inbox, unread>>

\* Data that came before a reset can still be read.
BreakDown(c) ==
    /\ Alive(c) /\ end[c] # "broken"
    /\ end' = [end EXCEPT ![c] = "broken"]
    /\ UNCHANGED <<backlog, conn, life, sent, inbox, unread>>

\* A client reads one answer.
Drain(c) ==
    /\ end[c] # "broken" /\ unread[c] > 0
    /\ unread' = [unread EXCEPT ![c] = @ - 1]
    /\ UNCHANGED <<backlog, conn, life, sent, inbox, end>>

----------------------------------------------------------------------------
(* The calls of a server                                                   *)

\* read returns, with data, end of file or an error.
Readable(c) == inbox[c] > 0 \/ end[c] # "open"

NewFd == CHOOSE f \in Fd :
    conn[f] = NoClient /\ \A g \in Fd : conn[g] = NoClient => f <= g

accept ==
    /\ backlog # <<>>
    /\ backlog' = Tail(backlog)
    /\ conn' = [conn EXCEPT ![NewFd] = Head(backlog)]
    /\ life' = [life EXCEPT ![Head(backlog)] = "open"]
    /\ UNCHANGED <<sent, inbox, unread, end>>

read(f) ==
    /\ inbox[conn[f]] > 0
    /\ inbox' = [inbox EXCEPT ![conn[f]] = @ - 1]
    /\ UNCHANGED <<backlog, conn, life, sent, unread, end>>

\* The kernel has room for the chunk, and the connection is not broken.
Writable(f) == end[conn[f]] # "broken" /\ unread[conn[f]] < SNDBUF

write(f) ==
    /\ Writable(f)
    /\ unread' = [unread EXCEPT ![conn[f]] = @ + 1]
    /\ UNCHANGED <<backlog, conn, life, sent, inbox, end>>

close(f) ==
    /\ conn' = [conn EXCEPT ![f] = NoClient]
    /\ life' = [life EXCEPT ![conn[f]] = "closed"]
    /\ UNCHANGED <<backlog, sent, inbox, unread, end>>
====
