---- MODULE EpollServerProofs ----
(***************************************************************************)
(* EpollServer for any number of clients, any size of a batch and any       *)
(* SNDBUF: no event outlives its descriptor, and whatever is ready is        *)
(* listed, in the batch or being read, or is one of the known stalls.       *)
(***************************************************************************)
EXTENDS EpollServer, FiniteSetTheorems, SequenceTheorems, WellFoundedInduction, TLAPS

\* A client is in one place: not there yet, queued, behind one descriptor, or
\* closed.  This is what makes NewFd a free descriptor, and gives a client that
\* was accepted the descriptor an edge of it is for.
Places ==
    /\ \A f \in Fd : conn[f] # NoClient => life[conn[f]] = "open"
    /\ \A f, g \in Fd : conn[f] = conn[g] /\ conn[f] # NoClient => f = g
    /\ \A k \in 1 .. Len(backlog) : life[backlog[k]] = "queued"
    /\ \A j, k \in 1 .. Len(backlog) : backlog[j] = backlog[k] => j = k
    /\ \A c \in Client : life[c] = "open" => \E f \in Fd : conn[f] = c

\* What waits to be read was sent.
Inboxes == \A c \in Client : inbox[c] <= sent

Network == NetworkTypeOK /\ Places /\ Inboxes

ServerTypeOK ==
    /\ pc \in {"wait", "event", "read", "write", "exit"}
    /\ rdlist \subseteq Fd \cup {listen_fd}
    /\ events \in Seq(Event)
    /\ n \in -1 .. MAXEVENTS
    /\ i \in 0 .. MAXEVENTS + 1
    /\ socket_fd \in Fd \cup {listen_fd}
    /\ todo \in Seq(Event)
    /\ stalled \subseteq Fd \cup {listen_fd}

Ready == {f \in Fd \cup {listen_fd} : IsReady(f)}
Todo == {todo[k].fd : k \in 1 .. Len(todo)}
BeingRead == IF pc \in {"read", "write"} THEN {socket_fd} ELSE {}

\* The events to come are of different descriptors, ready ones.
Pending ==
    pc # "wait" =>
        /\ \A j, k \in 1 .. Len(todo) : todo[j].fd = todo[k].fd => j = k
        /\ \A k \in 1 .. Len(todo) : todo[k].err => todo[k].fd # listen_fd
        /\ Todo \subseteq Ready

\* The socket that is read is open, and no event to come is of it.
Reading ==
    pc \in {"read", "write"} =>
        /\ socket_fd \in Fd \ Todo /\ conn[socket_fd] # NoClient
        /\ i <= MAXEVENTS

\* i and n count the events, until they count bytes: then the batch is over.
Counters ==
    pc = "event" => i >= n \/ (n = Len(events) /\ todo = SubSeq(events, i + 1, n))

\* OnlyKnownStalls, as sets.
Known ==
    pc # "exit" =>
        Ready \subseteq stalled \cup rdlist \cup BeingRead
                            \cup (IF pc = "wait" THEN {} ELSE Todo)

Server == ServerTypeOK /\ Pending /\ Reading /\ Counters /\ Known

IInv == Network /\ Server

----------------------------------------------------------------------------
(* The network, whoever uses it                                            *)

LEMMA Constants ==
    /\ Clients \in Nat /\ MaxSent \in Nat /\ SNDBUF \in Nat \ {0}
    /\ MAXEVENTS \in Nat \ {0}
    /\ NoClient \notin Client /\ listen_fd \notin Fd
    /\ Client \subseteq Nat /\ Fd \subseteq Nat
BY SocketsAssumption, EpollAssumption DEF Client, Fd, NoClient, listen_fd

\* What is ready, now and after a step.
LEMMA ReadyIs ==
    /\ Ready \subseteq Fd \cup {listen_fd} /\ Ready' \subseteq Fd \cup {listen_fd}
    /\ listen_fd \in Ready <=> backlog # <<>>
    /\ listen_fd \in Ready' <=> backlog' # <<>>
    /\ \A f \in Fd : f \in Ready <=>
          conn[f] # NoClient /\ (inbox[conn[f]] > 0 \/ end[conn[f]] # "open")
    /\ \A f \in Fd : f \in Ready' <=>
          conn'[f] # NoClient /\ (inbox'[conn'[f]] > 0 \/ end'[conn'[f]] # "open")
<1>1. \A f \in Fd : f # listen_fd
    BY Constants
<1> QED BY <1>1 DEF Ready, IsReady, Readable

\* accept finds a free descriptor: with somebody in the queue, the others are
\* too few to have them all.
LEMMA NewFdIsFree ==
    ASSUME Network, backlog # <<>>
    PROVE  NewFd \in Fd /\ conn[NewFd] = NoClient
<1> DEFINE Unused == {f \in Fd : conn[f] = NoClient}
           c == Head(backlog)
<1>1. c \in Client /\ life[c] = "queued"
    <2>1. Len(backlog) \in Nat /\ Len(backlog) > 0 /\ Head(backlog) = backlog[1]
        BY DEF Network, NetworkTypeOK
    <2> QED BY <2>1 DEF Network, NetworkTypeOK, Places
<1>2. Unused # {}
    <2> SUFFICES ASSUME \A f \in Fd : conn[f] # NoClient PROVE FALSE
        OBVIOUS
    <2>1. conn \in [Fd -> Client \ {c}]
        BY <1>1 DEF Network, NetworkTypeOK, Places
    <2>2. Clients \in Nat /\ 1 \in Int /\ Clients \in Int
        BY Constants
    <2>3. IsFiniteSet(1 .. Clients) /\ Cardinality(1 .. Clients) = Clients
        BY <2>2, FS_Interval
    <2>4. IsFiniteSet(Client \ {c}) /\ Cardinality(Client \ {c}) = Clients - 1
        BY <1>1, <2>3, FS_RemoveElement DEF Client
    <2>5. Cardinality(Client \ {c}) < Cardinality(Fd)
        BY <2>2, <2>3, <2>4 DEF Fd
    <2>6. \E f, g \in Fd : f # g /\ conn[f] = conn[g]
        BY <2>1, <2>3, <2>4, <2>5, FS_PigeonHole DEF Fd
    <2> QED BY <2>6 DEF Network, Places
<1>3. Unused \subseteq Nat
    BY Constants
<1>4. \E f \in Unused : \A g \in Unused : f <= g
    <2> DEFINE Less == OpToRel(<, Nat)
    <2>1. IsWellFoundedOn(Less, Nat)
        BY NatLessThanWellFounded
    <2>2. \A x, y \in Nat : <<x, y>> \in Less <=> x < y
        BY DEF OpToRel
    <2> HIDE DEF Less
    <2>3. PICK f \in Unused : \A g \in Unused : ~ (<<g, f>> \in Less)
        BY <1>2, <1>3, <2>1, WFMin
    <2>4. ASSUME NEW g \in Unused PROVE f <= g
        <3>1. f \in Nat /\ g \in Nat /\ ~ (g < f)
            BY <1>3, <2>2, <2>3
        <3> QED BY <3>1
    <2> QED BY <2>4
<1>5. \E f \in Fd : conn[f] = NoClient /\ \A g \in Fd : conn[g] = NoClient => f <= g
    BY <1>4
<1> QED BY <1>5 DEF NewFd

\* accept: the first of the queue moves behind a descriptor that was free, and
\* the listening socket stays ready if there is another one.
LEMMA AcceptIs ==
    ASSUME Network, accept
    PROVE  /\ Network' /\ NewFd \in Fd /\ NewFd \notin Ready
           /\ Ready \ {listen_fd} \subseteq Ready'
           /\ Ready' \subseteq Ready \cup {NewFd}
           /\ NewFd \in Ready' => Readable(Head(backlog))
           /\ listen_fd \in Ready' => Len(backlog) > 1
<1> DEFINE new == NewFd
           c == Head(backlog)
<1>1. new \in Fd /\ conn[new] = NoClient
    BY NewFdIsFree DEF accept
<1>2. /\ conn' = [conn EXCEPT ![new] = c] /\ life' = [life EXCEPT ![c] = "open"]
      /\ backlog' = Tail(backlog) /\ UNCHANGED <<sent, inbox, unread, end>>
    BY DEF accept
<1> HIDE DEF new
<1>3. /\ Len(backlog) \in Nat /\ Len(backlog) > 0 /\ c = backlog[1]
      /\ c \in Client /\ life[c] = "queued"
      /\ backlog' \in Seq(Client) /\ Len(backlog') = Len(backlog) - 1
      /\ \A k \in 1 .. Len(backlog) - 1 : backlog'[k] = backlog[k + 1]
    <2>1. backlog \in Seq(Client) /\ backlog # <<>> /\ backlog' = Tail(backlog)
        BY <1>2 DEF Network, NetworkTypeOK, accept
    <2>2. /\ Len(backlog) \in Nat /\ Len(backlog) > 0 /\ c = backlog[1] /\ c \in Client
          /\ backlog' \in Seq(Client) /\ Len(backlog') = Len(backlog) - 1
          /\ \A k \in 1 .. Len(backlog) - 1 : backlog'[k] = backlog[k + 1]
        BY <2>1
    <2> QED BY <2>2 DEF Network, Places
<1>4. Readable(Head(backlog)) <=> inbox[c] > 0 \/ end[c] # "open"
    BY DEF Readable
<1> HIDE DEF c
<1>5. /\ conn \in [Fd -> Client \cup {NoClient}] /\ NoClient \notin Client
      /\ life \in [Client -> {"new", "queued", "open", "closed"}]
    BY Constants DEF Network, NetworkTypeOK
<1>6. conn'[new] = c /\ \A f \in Fd : f # new => conn'[f] = conn[f]
    BY <1>1, <1>2, <1>5
<1>7. \A f \in Fd : conn[f] # c
    BY <1>3, <1>5 DEF Network, Places
<1>8. NetworkTypeOK'
    BY <1>1, <1>2, <1>3, <1>5 DEF Network, NetworkTypeOK
<1>9. \A k \in 1 .. Len(backlog') :
         /\ k + 1 \in 1 .. Len(backlog) /\ backlog'[k] = backlog[k + 1]
         /\ backlog'[k] # c /\ backlog'[k] \in Client
    <2>1. \A k \in 1 .. Len(backlog') :
             k + 1 \in 1 .. Len(backlog) /\ backlog'[k] = backlog[k + 1] /\ k + 1 # 1
        BY <1>3
    <2>2. 1 \in 1 .. Len(backlog) /\ \A k \in 1 .. Len(backlog) : backlog[k] \in Client
        BY <1>3 DEF Network, NetworkTypeOK
    <2> QED BY <1>3, <2>1, <2>2 DEF Network, Places
<1>10. Places'
    <2>1. \A f \in Fd : conn'[f] # NoClient => life'[conn'[f]] = "open"
        BY <1>2, <1>3, <1>5, <1>6 DEF Network, Places
    <2>2. \A f, g \in Fd : conn'[f] = conn'[g] /\ conn'[f] # NoClient => f = g
        BY <1>6, <1>7 DEF Network, Places
    <2>3. \A k \in 1 .. Len(backlog') : life'[backlog'[k]] = "queued"
        BY <1>2, <1>5, <1>9 DEF Network, Places
    <2>4. \A j, k \in 1 .. Len(backlog') : backlog'[j] = backlog'[k] => j = k
        <3> SUFFICES ASSUME NEW j \in 1 .. Len(backlog'), NEW k \in 1 .. Len(backlog'),
                            backlog'[j] = backlog'[k]
                     PROVE  j = k
            OBVIOUS
        <3>1. j + 1 = k + 1
            BY <1>9 DEF Network, Places
        <3> QED BY <3>1
    <2>5. ASSUME NEW d \in Client, life'[d] = "open" PROVE \E f \in Fd : conn'[f] = d
        <3>1. CASE d = c
            BY <3>1, <1>1, <1>6
        <3>2. CASE d # c
            <4>1. PICK f \in Fd : conn[f] = d
                BY <3>2, <2>5, <1>2, <1>5 DEF Network, Places
            <4>2. f # new
                BY <4>1, <1>1, <1>5
            <4> QED BY <4>1, <4>2, <1>6
        <3> QED BY <3>1, <3>2
    <2> QED BY <2>1, <2>2, <2>3, <2>4, <2>5 DEF Places
<1>11. Inboxes'
    BY <1>2 DEF Network, Inboxes
<1>12. new \notin Ready
    BY <1>1, ReadyIs
<1>13. \A f \in Fd : f # new => (f \in Ready' <=> f \in Ready)
    BY <1>2, <1>6, ReadyIs
<1>14. new \in Ready' => inbox[c] > 0 \/ end[c] # "open"
    BY <1>1, <1>2, <1>6, ReadyIs
<1>15. listen_fd \in Ready /\ (listen_fd \in Ready' => Len(backlog) > 1)
    <2>1. backlog' = <<>> <=> Len(backlog') = 0
        BY <1>3
    <2>2. listen_fd \in Ready
        BY ReadyIs DEF accept
    <2>3. listen_fd \in Ready' => backlog' # <<>>
        BY ReadyIs
    <2> QED BY <1>3, <2>1, <2>2, <2>3
<1>16. Ready \ {listen_fd} \subseteq Ready' /\ Ready' \subseteq Ready \cup {new}
    <2>1. Ready \subseteq Fd \cup {listen_fd} /\ Ready' \subseteq Fd \cup {listen_fd}
        BY ReadyIs
    <2> QED BY <2>1, <1>12, <1>13, <1>15
<1> QED BY <1>1, <1>4, <1>8, <1>10, <1>11, <1>12, <1>14, <1>15, <1>16 DEF Network, new

\* close: the descriptor is free, and nothing else changes.
LEMMA CloseIs ==
    ASSUME Network, NEW f \in Fd, conn[f] # NoClient, close(f)
    PROVE  Network' /\ Ready' = Ready \ {f}
<1> DEFINE c == conn[f]
<1>1. /\ conn' = [conn EXCEPT ![f] = NoClient] /\ life' = [life EXCEPT ![c] = "closed"]
      /\ UNCHANGED <<backlog, sent, inbox, unread, end>>
    BY DEF close
<1>2. /\ conn \in [Fd -> Client \cup {NoClient}] /\ NoClient \notin Client
      /\ life \in [Client -> {"new", "queued", "open", "closed"}]
      /\ \A k \in 1 .. Len(backlog) : backlog[k] \in Client
    BY Constants DEF Network, NetworkTypeOK
<1>3. c \in Client /\ c # NoClient /\ life[c] = "open" /\ conn[f] = c
    BY <1>2 DEF Network, Places
<1>4. \A g \in Fd : g # f => conn'[g] = conn[g] /\ conn[g] # c
    BY <1>1, <1>2, <1>3 DEF Network, Places
<1>5. conn'[f] = NoClient
    BY <1>1, <1>2
<1> HIDE DEF c
<1>6. NetworkTypeOK'
    BY <1>1, <1>2 DEF Network, NetworkTypeOK
<1>7. Places'
    <2>1. \A g \in Fd : conn'[g] # NoClient => g # f /\ conn'[g] = conn[g] /\ conn[g] # c
        BY <1>4, <1>5
    <2>2. \A g \in Fd : conn'[g] # NoClient => life'[conn'[g]] = "open"
        BY <1>1, <1>2, <2>1 DEF Network, Places
    <2>3. \A g, h \in Fd : conn'[g] = conn'[h] /\ conn'[g] # NoClient => g = h
        BY <2>1 DEF Network, Places
    <2>4. \A k \in 1 .. Len(backlog') : life'[backlog'[k]] = "queued"
        BY <1>1, <1>2, <1>3 DEF Network, Places
    <2>5. \A j, k \in 1 .. Len(backlog') : backlog'[j] = backlog'[k] => j = k
        BY <1>1 DEF Network, Places
    <2>6. ASSUME NEW d \in Client, life'[d] = "open" PROVE \E g \in Fd : conn'[g] = d
        <3>1. d # c /\ life[d] = "open"
            BY <2>6, <1>1, <1>2
        <3>2. PICK g \in Fd : conn[g] = d
            BY <3>1 DEF Network, Places
        <3> QED BY <3>1, <3>2, <1>3, <1>4
    <2> QED BY <2>2, <2>3, <2>4, <2>5, <2>6 DEF Places
<1>8. Inboxes'
    BY <1>1 DEF Network, Inboxes
<1>9. Ready' = Ready \ {f}
    <2>1. f \notin Ready'
        BY <1>5, ReadyIs
    <2>2. \A g \in Fd : g # f => (g \in Ready' <=> g \in Ready)
        BY <1>1, <1>4, ReadyIs
    <2>3. listen_fd \in Ready' <=> listen_fd \in Ready
        BY <1>1, ReadyIs
    <2>4. Ready \subseteq Fd \cup {listen_fd} /\ Ready' \subseteq Fd \cup {listen_fd}
        BY ReadyIs
    <2>5. f # listen_fd
        BY Constants
    <2> QED BY <2>1, <2>2, <2>3, <2>4, <2>5
<1> QED BY <1>6, <1>7, <1>8, <1>9 DEF Network

\* read: only the descriptor itself may be ready no longer.
LEMMA ReadIs ==
    ASSUME Network, NEW f \in Fd, conn[f] # NoClient, read(f)
    PROVE  Network' /\ Ready' \subseteq Ready /\ Ready \ {f} \subseteq Ready'
<1> DEFINE c == conn[f]
<1>1. /\ inbox[c] > 0 /\ inbox' = [inbox EXCEPT ![c] = @ - 1]
      /\ UNCHANGED <<backlog, conn, life, sent, unread, end>>
    BY DEF read
<1>2. /\ conn \in [Fd -> Client \cup {NoClient}] /\ NoClient \notin Client
      /\ inbox \in [Client -> 0 .. MaxSent] /\ MaxSent \in Nat /\ sent \in Nat
    BY Constants DEF Network, NetworkTypeOK
<1>3. c \in Client /\ conn[f] = c
    BY <1>2
<1>4. \A g \in Fd : g # f => conn[g] # c
    BY <1>3 DEF Network, Places
<1> HIDE DEF c
<1>5. inbox[c] - 1 \in 0 .. MaxSent
    BY <1>1, <1>2, <1>3
<1>6. NetworkTypeOK'
    BY <1>1, <1>2, <1>3, <1>5 DEF Network, NetworkTypeOK
<1>7. Places'
    BY <1>1 DEF Network, Places
<1>8. Inboxes'
    BY <1>1, <1>2, <1>3 DEF Network, Inboxes
<1>9. \A g \in Fd : g # f => (g \in Ready' <=> g \in Ready)
    <2>1. \A d \in Client : d # c => inbox'[d] = inbox[d]
        BY <1>1, <1>2
    <2>2. \A g \in Fd : conn[g] # NoClient => conn[g] \in Client
        BY <1>2
    <2> QED BY <1>1, <1>4, <2>1, <2>2, ReadyIs
<1>10. f \in Ready /\ (listen_fd \in Ready' <=> listen_fd \in Ready)
    BY <1>1, <1>3, ReadyIs
<1>11. Ready \subseteq Fd \cup {listen_fd} /\ Ready' \subseteq Fd \cup {listen_fd}
    BY ReadyIs
<1> QED BY <1>6, <1>7, <1>8, <1>9, <1>10, <1>11 DEF Network

\* write and a client that reads: the kernel keeps one chunk more or less.
LEMMA UnreadIs ==
    ASSUME Network, unread' \in [Client -> 0 .. SNDBUF],
           UNCHANGED <<backlog, conn, life, sent, inbox, end>>
    PROVE  Network' /\ Ready' = Ready
<1>1. NetworkTypeOK'
    BY DEF Network, NetworkTypeOK
<1>2. Places' /\ Inboxes'
    BY DEF Network, Places, Inboxes
<1>3. Ready' = Ready
    BY DEF Ready, IsReady, Readable
<1> QED BY <1>1, <1>2, <1>3 DEF Network

LEMMA WriteIs ==
    ASSUME Network, NEW f \in Fd, conn[f] # NoClient, write(f)
    PROVE  Network' /\ Ready' = Ready
<1> DEFINE c == conn[f]
<1>1. /\ unread[c] < SNDBUF /\ unread' = [unread EXCEPT ![c] = @ + 1]
      /\ UNCHANGED <<backlog, conn, life, sent, inbox, end>>
    BY DEF write, Writable
<1>2. c \in Client /\ unread \in [Client -> 0 .. SNDBUF] /\ SNDBUF \in Nat
    BY Constants DEF Network, NetworkTypeOK
<1> HIDE DEF c
<1>3. unread[c] + 1 \in 0 .. SNDBUF
    BY <1>1, <1>2
<1>4. unread' \in [Client -> 0 .. SNDBUF]
    BY <1>1, <1>2, <1>3
<1> QED BY <1>1, <1>4, UnreadIs

LEMMA NetworkStays ==
    ASSUME Network, UNCHANGED network PROVE Network' /\ Ready' = Ready
<1>1. UNCHANGED <<backlog, conn, life, sent, inbox, unread, end>>
    BY DEF network
<1> QED BY <1>1, UnreadIs DEF Network, NetworkTypeOK

LEMMA ConnectIs ==
    ASSUME Network, NEW c \in Client, Connect(c)
    PROVE  Network' /\ UNCHANGED conn /\ Ready' = Ready \cup {listen_fd}
<1>1. /\ life[c] = "new" /\ life' = [life EXCEPT ![c] = "queued"]
      /\ backlog' = Append(backlog, c)
      /\ UNCHANGED <<conn, sent, inbox, unread, end>>
    BY DEF Connect
<1>2. /\ Len(backlog) \in Nat /\ Len(backlog') = Len(backlog) + 1
      /\ backlog' \in Seq(Client) /\ backlog' # <<>>
      /\ backlog'[Len(backlog) + 1] = c
      /\ \A k \in 1 .. Len(backlog) : backlog'[k] = backlog[k]
    <2>1. backlog \in Seq(Client) /\ backlog' = Append(backlog, c)
        BY <1>1 DEF Network, NetworkTypeOK
    <2> QED BY <2>1
<1>3. /\ conn \in [Fd -> Client \cup {NoClient}] /\ NoClient \notin Client
      /\ life \in [Client -> {"new", "queued", "open", "closed"}]
      /\ \A k \in 1 .. Len(backlog) : backlog[k] \in Client
    BY Constants DEF Network, NetworkTypeOK
<1>4. NetworkTypeOK'
    BY <1>1, <1>2 DEF Network, NetworkTypeOK
<1>5. Places'
    <2>1. \A k \in 1 .. Len(backlog') :
             \/ k \in 1 .. Len(backlog) /\ backlog'[k] = backlog[k]
             \/ k = Len(backlog) + 1 /\ backlog'[k] = c
        BY <1>2
    <2>2. \A k \in 1 .. Len(backlog) : backlog[k] # c
        BY <1>1 DEF Network, Places
    <2>3. \A f \in Fd : conn'[f] # NoClient => life'[conn'[f]] = "open"
        BY <1>1, <1>3 DEF Network, Places
    <2>4. \A f, g \in Fd : conn'[f] = conn'[g] /\ conn'[f] # NoClient => f = g
        BY <1>1 DEF Network, Places
    <2>5. \A k \in 1 .. Len(backlog') : life'[backlog'[k]] = "queued"
        BY <1>1, <1>3, <2>1, <2>2 DEF Network, Places
    <2>6. \A j, k \in 1 .. Len(backlog') : backlog'[j] = backlog'[k] => j = k
        BY <2>1, <2>2 DEF Network, Places
    <2>7. \A d \in Client : life'[d] = "open" => \E f \in Fd : conn'[f] = d
        BY <1>1, <1>3 DEF Network, Places
    <2> QED BY <2>3, <2>4, <2>5, <2>6, <2>7 DEF Places
<1>6. Inboxes'
    BY <1>1 DEF Network, Inboxes
<1>7. Ready' = Ready \cup {listen_fd}
    BY <1>1, <1>2, ReadyIs
<1> QED BY <1>1, <1>4, <1>5, <1>6, <1>7 DEF Network

\* Send, Finish and BreakDown can make the client's own descriptor ready.
LEMMA SendIs ==
    ASSUME Network, NEW c \in Client, Send(c)
    PROVE  /\ Network' /\ UNCHANGED conn /\ Ready \subseteq Ready'
           /\ Ready' \subseteq Ready \cup {f \in Fd : conn[f] = c}
<1>1. /\ sent < MaxSent /\ sent' = sent + 1
      /\ inbox' = [inbox EXCEPT ![c] = @ + 1]
      /\ UNCHANGED <<backlog, conn, life, unread, end>>
    BY DEF Send
<1>2. /\ inbox \in [Client -> 0 .. MaxSent] /\ sent \in Nat /\ MaxSent \in Nat
      /\ conn \in [Fd -> Client \cup {NoClient}]
    BY Constants DEF Network, NetworkTypeOK
<1>3. inbox[c] + 1 \in 0 .. MaxSent
    BY <1>1, <1>2 DEF Network, Inboxes
<1>4. NetworkTypeOK'
    BY <1>1, <1>2, <1>3 DEF Network, NetworkTypeOK
<1>5. Places'
    BY <1>1 DEF Network, Places
<1>6. Inboxes'
    BY <1>1, <1>2 DEF Network, Inboxes
<1>7. \A d \in Client : inbox'[d] >= inbox[d] /\ (d # c => inbox'[d] = inbox[d])
    BY <1>1, <1>2
<1>8. \A d \in Client : inbox[d] \in Nat /\ inbox'[d] \in Nat
    BY <1>1, <1>2
<1>9. \A f \in Fd : /\ f \in Ready => f \in Ready'
                    /\ f \in Ready' => f \in Ready \/ conn[f] = c
    <2> SUFFICES ASSUME NEW f \in Fd
                 PROVE  /\ f \in Ready => f \in Ready'
                        /\ f \in Ready' => f \in Ready \/ conn[f] = c
        OBVIOUS
    <2>1. CASE conn[f] = NoClient
        BY <1>1, <2>1, ReadyIs
    <2>2. CASE conn[f] # NoClient
        <3> DEFINE d == conn[f]
        <3>1. d \in Client /\ d # NoClient /\ conn[f] = d /\ conn'[f] = d /\ end'[d] = end[d]
            BY <1>1, <1>2, <2>2
        <3> HIDE DEF d
        <3>2. inbox[d] > 0 => inbox'[d] > 0
            BY <1>7, <1>8, <3>1
        <3>3. d # c => inbox'[d] = inbox[d]
            BY <1>7, <3>1
        <3> QED BY <3>1, <3>2, <3>3, ReadyIs
    <2> QED BY <2>1, <2>2
<1>10. listen_fd \in Ready' <=> listen_fd \in Ready
    BY <1>1, ReadyIs
<1>11. Ready \subseteq Fd \cup {listen_fd} /\ Ready' \subseteq Fd \cup {listen_fd}
    BY ReadyIs
<1> QED BY <1>1, <1>4, <1>5, <1>6, <1>9, <1>10, <1>11 DEF Network

LEMMA EndIs ==
    ASSUME Network, NEW c \in Client, NEW e \in {"fin", "broken"},
           end' = [end EXCEPT ![c] = e],
           UNCHANGED <<backlog, conn, life, sent, inbox, unread>>
    PROVE  /\ Network' /\ UNCHANGED conn /\ Ready \subseteq Ready'
           /\ Ready' \subseteq Ready \cup {f \in Fd : conn[f] = c}
<1>1. NetworkTypeOK'
    BY DEF Network, NetworkTypeOK
<1>2. Places' /\ Inboxes'
    BY DEF Network, Places, Inboxes
<1>3. /\ \A d \in Client : /\ end[d] # "open" => end'[d] # "open"
                           /\ d # c => end'[d] = end[d]
      /\ \A f \in Fd : conn[f] # NoClient => conn[f] \in Client
    BY DEF Network, NetworkTypeOK
<1>4. \A f \in Fd : /\ f \in Ready => f \in Ready'
                    /\ f \in Ready' => f \in Ready \/ conn[f] = c
    BY <1>3, ReadyIs
<1>5. listen_fd \in Ready' <=> listen_fd \in Ready
    BY ReadyIs
<1>6. Ready \subseteq Fd \cup {listen_fd} /\ Ready' \subseteq Fd \cup {listen_fd}
    BY ReadyIs
<1> QED BY <1>1, <1>2, <1>4, <1>5, <1>6 DEF Network

LEMMA DrainIs ==
    ASSUME Network, NEW c \in Client, Drain(c)
    PROVE  Network' /\ UNCHANGED conn /\ Ready' = Ready
<1>1. /\ unread[c] > 0 /\ unread' = [unread EXCEPT ![c] = @ - 1]
      /\ UNCHANGED <<backlog, conn, life, sent, inbox, end>>
    BY DEF Drain
<1>2. unread' \in [Client -> 0 .. SNDBUF]
    BY <1>1, Constants DEF Network, NetworkTypeOK
<1> QED BY <1>1, <1>2, UnreadIs

\* The edge of a client that was accepted is of the only descriptor it has; one
\* that was not has none.
LEMMA OwnDescriptor ==
    ASSUME Network, NEW c \in Client
    PROVE  /\ life[c] = "open" =>
                 /\ (CHOOSE f \in Fd : conn[f] = c) \in Fd
                 /\ {f \in Fd : conn[f] = c} = {CHOOSE f \in Fd : conn[f] = c}
           /\ life[c] # "open" => {f \in Fd : conn[f] = c} = {}
<1>1. c # NoClient
    BY Constants
<1>2. life[c] # "open" => \A f \in Fd : conn[f] # c
    BY <1>1 DEF Network, Places
<1>3. ASSUME life[c] = "open"
      PROVE  /\ (CHOOSE f \in Fd : conn[f] = c) \in Fd
             /\ {f \in Fd : conn[f] = c} = {CHOOSE f \in Fd : conn[f] = c}
    <2> DEFINE own == CHOOSE f \in Fd : conn[f] = c
    <2>1. \E f \in Fd : conn[f] = c
        BY <1>3 DEF Network, Places
    <2>2. own \in Fd /\ conn[own] = c
        BY <2>1
    <2>3. \A f, g \in Fd : conn[f] = c /\ conn[g] = c => f = g
        BY <1>1 DEF Network, Places
    <2> HIDE DEF own
    <2>4. {f \in Fd : conn[f] = c} = {own}
        BY <2>2, <2>3
    <2> QED BY <2>2, <2>4 DEF own
<1> QED BY <1>2, <1>3

----------------------------------------------------------------------------
(* The clients' steps                                                      *)

\* Something new happened to descriptor f: it is listed.
LEMMA EdgeKeeps ==
    ASSUME Server, NEW f \in Fd \cup {listen_fd}, Edge(f), UNCHANGED conn,
           Ready \subseteq Ready', Ready' \subseteq Ready \cup {f}
    PROVE  Server'
<1>1. /\ rdlist' = rdlist \cup {f} /\ stalled' = stalled \ {f}
      /\ UNCHANGED <<pc, events, n, i, socket_fd, todo>>
    BY DEF Edge
<1>2. ServerTypeOK'
    BY <1>1 DEF Server, ServerTypeOK
<1>3. Todo' = Todo /\ BeingRead' = BeingRead
    BY <1>1 DEF Todo, BeingRead
<1>4. Pending'
    BY <1>1, <1>3 DEF Server, Pending
<1>5. Reading' /\ Counters'
    BY <1>1, <1>3 DEF Server, Reading, Counters
<1>6. Known'
    BY <1>1, <1>3 DEF Server, Known
<1> QED BY <1>2, <1>4, <1>5, <1>6 DEF Server

LEMMA QuietKeeps ==
    ASSUME Server, UNCHANGED server, UNCHANGED conn, Ready' = Ready
    PROVE  Server'
<1>1. UNCHANGED <<pc, rdlist, events, n, i, socket_fd, todo, stalled>>
    BY DEF server
<1>2. ServerTypeOK'
    BY <1>1 DEF Server, ServerTypeOK
<1>3. Todo' = Todo /\ BeingRead' = BeingRead
    BY <1>1 DEF Todo, BeingRead
<1>4. Pending' /\ Reading' /\ Counters'
    BY <1>1, <1>3 DEF Server, Pending, Reading, Counters
<1>5. Known'
    BY <1>1, <1>3 DEF Server, Known
<1> QED BY <1>2, <1>4, <1>5 DEF Server

LEMMA ClientKeeps ==
    ASSUME NEW c \in Client, IInv, ClientStep(c) PROVE IInv'
<1> USE DEF IInv
<1>1. CASE Connect(c) /\ Edge(listen_fd)
    BY <1>1, ConnectIs, EdgeKeeps
<1>2. CASE Drain(c) /\ UNCHANGED server
    BY <1>2, DrainIs, QuietKeeps
<1>3. ASSUME Send(c) \/ Finish(c) \/ BreakDown(c),
             IF life[c] = "open" THEN Edge(CHOOSE f \in Fd : conn[f] = c)
             ELSE UNCHANGED server
      PROVE  IInv'
    <2>1. /\ Network' /\ UNCHANGED conn /\ Ready \subseteq Ready'
          /\ Ready' \subseteq Ready \cup {f \in Fd : conn[f] = c}
        <3>1. CASE Send(c)
            BY <3>1, SendIs
        <3>2. CASE Finish(c)
            BY <3>2, EndIs DEF Finish
        <3>3. CASE BreakDown(c)
            BY <3>3, EndIs DEF BreakDown
        <3> QED BY <1>3, <3>1, <3>2, <3>3
    <2>2. CASE life[c] = "open"
        <3> DEFINE own == CHOOSE f \in Fd : conn[f] = c
        <3>1. own \in Fd /\ Ready' \subseteq Ready \cup {own} /\ Edge(own)
            BY <1>3, <2>1, <2>2, OwnDescriptor
        <3> HIDE DEF own
        <3> QED BY <2>1, <3>1, EdgeKeeps
    <2>3. CASE life[c] # "open"
        <3>1. Ready' = Ready
            BY <2>1, <2>3, OwnDescriptor
        <3> QED BY <1>3, <2>1, <2>3, <3>1, QuietKeeps
    <2> QED BY <2>2, <2>3
<1> QED BY <1>1, <1>2, <1>3 DEF ClientStep

----------------------------------------------------------------------------
(* Batches and events                                                      *)

LEMMA FdsAre ==
    ASSUME NEW list \in Seq(Event) PROVE Fds(list) = {list[k].fd : k \in 1 .. Len(list)}
BY DEF Fds

\* What epoll_wait may report: ready descriptors of the list, each once, and
\* all of them if there is room left.
LEMMA BatchIs ==
    ASSUME Network, Server, NEW batch \in Batches
    PROVE  /\ batch \in Seq(Event) /\ Len(batch) \in 1 .. MAXEVENTS
           /\ \A j, k \in 1 .. Len(batch) : batch[j].fd = batch[k].fd => j = k
           /\ \A k \in 1 .. Len(batch) : batch[k].err => batch[k].fd # listen_fd
           /\ Fds(batch) \subseteq Ready
           /\ Len(batch) < MAXEVENTS => rdlist \cap Ready \subseteq Fds(batch)
<1> DEFINE listed == {f \in rdlist : IsReady(f)}
<1>1. rdlist \subseteq Fd \cup {listen_fd} /\ MAXEVENTS \in Nat
    BY Constants DEF Server, ServerTypeOK
<1>2. listed = rdlist \cap Ready
    BY <1>1 DEF Ready
<1>3. \E r \in UNION {[1 .. k -> listed] : k \in 1 .. MAXEVENTS} :
         /\ IsInjective(r) /\ (Len(r) < MAXEVENTS => Range(r) = listed)
         /\ batch = [k \in DOMAIN r |-> Report(r[k])]
    BY DEF Batches
<1> HIDE DEF listed
<1>4. PICK r \in UNION {[1 .. k -> listed] : k \in 1 .. MAXEVENTS} :
         /\ IsInjective(r) /\ (Len(r) < MAXEVENTS => Range(r) = listed)
         /\ batch = [k \in DOMAIN r |-> Report(r[k])]
    BY <1>3
<1>m. PICK m \in 1 .. MAXEVENTS : r \in [1 .. m -> listed]
    OBVIOUS
<1>5. m \in Nat /\ m >= 1 /\ m <= MAXEVENTS /\ DOMAIN r = 1 .. m
    BY <1>1, <1>m
<1>6. \A k \in 1 .. m : r[k] \in Fd \cup {listen_fd}
    BY <1>1, <1>2, <1>m
<1>7. \A f \in Fd \cup {listen_fd} :
         /\ Report(f) \in Event /\ Report(f).fd = f
         /\ Report(f).err => f # listen_fd
    BY DEF Report, Event
<1>8. /\ batch \in [1 .. m -> Event]
      /\ \A k \in 1 .. m : batch[k].fd = r[k] /\ (batch[k].err => r[k] # listen_fd)
    BY <1>4, <1>5, <1>6, <1>7
<1>9. batch \in Seq(Event) /\ Len(batch) = m
    <2>1. batch \in Seq(Event)
        BY <1>5, <1>8, SeqDef
    <2>2. DOMAIN batch = 1 .. m
        BY <1>8
    <2> QED BY <1>5, <2>1, <2>2, LenProperties
<1>10. Len(r) = m
    <2>1. r \in Seq(listed)
        BY <1>5, <1>m, SeqDef
    <2> QED BY <1>5, <2>1, LenProperties
<1>11. Fds(batch) = {r[k] : k \in 1 .. m}
    BY <1>8, <1>9, FdsAre
<1>12. m < MAXEVENTS => listed = {r[k] : k \in 1 .. m}
    BY <1>4, <1>5, <1>10 DEF Range
<1>13. \A j, k \in 1 .. m : r[j] = r[k] => j = k
    BY <1>4, <1>5 DEF IsInjective
<1> QED BY <1>2, <1>5, <1>m, <1>8, <1>9, <1>11, <1>12, <1>13

\* Taking up an event: it is the first of those to come, and of a descriptor
\* that is ready and that none of the others is of.
LEMMA TakesIs ==
    ASSUME IInv, Takes
    PROVE  /\ pc = "event" /\ i < n /\ This \in Event
           /\ This.fd \in Todo /\ This.fd \in Ready
           /\ This.err => This.fd # listen_fd
           /\ todo' \in Seq(Event) /\ Todo' = Todo \ {This.fd}
           /\ \A j, k \in 1 .. Len(todo') : todo'[j].fd = todo'[k].fd => j = k
           /\ \A k \in 1 .. Len(todo') : todo'[k].err => todo'[k].fd # listen_fd
           /\ i + 1 >= n \/ todo' = SubSeq(events, (i + 1) + 1, n)
           /\ n = Len(events)
<1>1. /\ pc = "event" /\ i < n /\ todo' = Tail(todo)
      /\ i \in Nat /\ n \in Int /\ events \in Seq(Event)
    BY Constants DEF Takes, IInv, Server, ServerTypeOK
<1>2. n = Len(events) /\ todo = SubSeq(events, i + 1, n)
    BY <1>1 DEF IInv, Server, Counters
<1> DEFINE first == i + 1
<1>3. first \in 1 .. Len(events) /\ n \in first .. Len(events)
    BY <1>1, <1>2
<1>4. /\ todo \in Seq(Event) /\ Len(todo) = n - first + 1
      /\ \A k \in 1 .. n - first + 1 : todo[k] = events[first + k - 1]
    <2>1. \A k \in first .. n : events[k] \in Event
        BY <1>1, <1>2, <1>3
    <2> HIDE DEF first
    <2>2. first \in Int /\ n \in Int /\ first <= n
        BY <1>3
    <2> QED BY <1>2, <2>1, <2>2, SubSeqProperties DEF first
<1>5. /\ Len(todo) \in Nat /\ Len(todo) >= 1 /\ todo # <<>>
      /\ This = todo[1] /\ This \in Event
    <2>1. Len(todo) >= 1 /\ first + 1 - 1 = first
        BY <1>3, <1>4
    <2>2. todo[1] = events[first]
        BY <1>3, <1>4, <2>1
    <2> QED BY <1>1, <1>3, <1>4, <2>1, <2>2 DEF This
<1>6. /\ todo' \in Seq(Event) /\ Len(todo') = Len(todo) - 1
      /\ \A k \in 1 .. Len(todo') : todo'[k] = todo[k + 1]
    BY <1>1, <1>4, <1>5, HeadTailProperties
<1>7. todo' = SubSeq(events, first + 1, n)
    BY <1>1, <1>2, <1>3, HeadTailOfSubSeq
<1> HIDE DEF first
<1>8. /\ \A j, k \in 1 .. Len(todo) : todo[j].fd = todo[k].fd => j = k
      /\ \A k \in 1 .. Len(todo) : todo[k].err => todo[k].fd # listen_fd
      /\ Todo \subseteq Ready
    BY <1>1 DEF IInv, Server, Pending
<1>9. /\ 1 \in 1 .. Len(todo)
      /\ \A k \in 1 .. Len(todo') :
            k + 1 \in 1 .. Len(todo) /\ k + 1 # 1 /\ todo'[k] = todo[k + 1]
      /\ \A k \in 1 .. Len(todo) : k # 1 => k - 1 \in 1 .. Len(todo') /\ (k - 1) + 1 = k
    BY <1>5, <1>6
<1>10. \A j, k \in 1 .. Len(todo') : todo'[j].fd = todo'[k].fd => j = k
    <2> SUFFICES ASSUME NEW j \in 1 .. Len(todo'), NEW k \in 1 .. Len(todo'),
                        todo'[j].fd = todo'[k].fd
                 PROVE  j = k
        OBVIOUS
    <2>1. j + 1 = k + 1
        BY <1>8, <1>9
    <2> QED BY <2>1
<1>11. \A k \in 1 .. Len(todo') : todo'[k].err => todo'[k].fd # listen_fd
    BY <1>8, <1>9
<1>12. This.fd \in Todo
    BY <1>5, <1>9 DEF Todo
<1>13. Todo' = Todo \ {This.fd}
    <2>1. ASSUME NEW f \in Todo' PROVE f \in Todo /\ f # This.fd
        <3>1. PICK k \in 1 .. Len(todo') : todo'[k].fd = f
            BY <2>1 DEF Todo
        <3>2. k + 1 \in 1 .. Len(todo) /\ todo[k + 1].fd = f /\ k + 1 # 1
            BY <1>9, <3>1
        <3>3. f # todo[1].fd
            BY <1>8, <1>9, <3>2
        <3> QED BY <1>5, <3>2, <3>3 DEF Todo
    <2>2. ASSUME NEW f \in Todo, f # This.fd PROVE f \in Todo'
        <3>1. PICK k \in 1 .. Len(todo) : todo[k].fd = f
            BY <2>2 DEF Todo
        <3>2. k # 1
            BY <1>5, <2>2, <3>1
        <3>3. k - 1 \in 1 .. Len(todo') /\ todo'[k - 1] = todo[k]
            BY <1>9, <3>2
        <3> QED BY <3>1, <3>3 DEF Todo
    <2> QED BY <2>1, <2>2
<1>14. todo' = SubSeq(events, (i + 1) + 1, n)
    BY <1>7 DEF first
<1>15. This.err => This.fd # listen_fd
    BY <1>5, <1>8, <1>9
<1> QED BY <1>1, <1>2, <1>5, <1>6, <1>8, <1>10, <1>11, <1>12, <1>13, <1>14, <1>15

----------------------------------------------------------------------------
(* The loop over the events                                                *)

LEMMA InitHolds == Init => IInv
<1> SUFFICES ASSUME Init PROVE IInv
    OBVIOUS
<1> USE Constants
<1>1. Network
    BY DEF Init, NetworkInit, Network, NetworkTypeOK, Places, Inboxes
<1>2. ServerTypeOK
    BY DEF Init, ServerTypeOK, listen_fd
<1>3. Pending /\ Reading /\ Counters
    BY DEF Init, Pending, Reading, Counters
<1>4. Known
    <2>1. backlog = <<>> /\ \A f \in Fd : conn[f] = NoClient
        BY DEF Init, NetworkInit
    <2>2. Ready = {}
        BY <2>1, ReadyIs
    <2> QED BY <2>2 DEF Known
<1> QED BY <1>1, <1>2, <1>3, <1>4 DEF IInv, Server

LEMMA WaitKeeps == IInv /\ epoll_wait => IInv'
<1> SUFFICES ASSUME IInv, epoll_wait PROVE IInv'
    OBVIOUS
<1>1. Network' /\ Ready' = Ready
    BY NetworkStays DEF epoll_wait, IInv
<1>2. PICK batch \in Batches :
         /\ events' = batch /\ todo' = batch /\ n' = Len(batch) /\ i' = 0
         /\ rdlist' = Unseen(batch) /\ stalled' = stalled \ Fds(batch)
    BY DEF epoll_wait
<1>3. pc = "wait" /\ pc' = "event" /\ UNCHANGED socket_fd
    BY DEF epoll_wait
<1>4. /\ batch \in Seq(Event) /\ Len(batch) \in 1 .. MAXEVENTS
      /\ \A j, k \in 1 .. Len(batch) : batch[j].fd = batch[k].fd => j = k
      /\ \A k \in 1 .. Len(batch) : batch[k].err => batch[k].fd # listen_fd
      /\ Fds(batch) \subseteq Ready
      /\ Len(batch) < MAXEVENTS => rdlist \cap Ready \subseteq Fds(batch)
    BY BatchIs DEF IInv
<1>5. Todo' = Fds(batch) /\ BeingRead = {}
    BY <1>2, <1>3, <1>4, FdsAre DEF Todo, BeingRead
<1>6. rdlist' \subseteq rdlist /\ rdlist \cap Ready \subseteq rdlist' \cup Fds(batch)
    <2>1. CASE Len(batch) < MAXEVENTS
        BY <2>1, <1>2, <1>4 DEF Unseen
    <2>2. CASE ~ (Len(batch) < MAXEVENTS)
        BY <2>2, <1>2 DEF Unseen
    <2> QED BY <2>1, <2>2
<1>7. ServerTypeOK'
    <2>1. n' \in -1 .. MAXEVENTS /\ i' \in 0 .. MAXEVENTS + 1
        BY <1>2, <1>4, Constants
    <2> QED BY <1>2, <1>3, <1>4, <1>6, <2>1 DEF IInv, Server, ServerTypeOK
<1>8. Pending'
    BY <1>1, <1>2, <1>4, <1>5 DEF Pending
<1>9. Reading'
    BY <1>3 DEF Reading
<1>10. Counters'
    <2>1. batch = SubSeq(batch, 1, Len(batch))
        <3> DEFINE m == Len(batch)
        <3>1. m \in Int /\ m >= 1 /\ \A k \in 1 .. m : batch[k] \in Event
            BY <1>4
        <3>2. /\ SubSeq(batch, 1, m) \in Seq(Event) /\ Len(SubSeq(batch, 1, m)) = m
              /\ \A k \in 1 .. m : SubSeq(batch, 1, m)[k] = batch[k]
            <4> HIDE DEF m
            <4>1. /\ SubSeq(batch, 1, m) \in Seq(Event)
                  /\ Len(SubSeq(batch, 1, m)) = IF 1 <= m THEN m - 1 + 1 ELSE 0
                  /\ \A k \in 1 .. m - 1 + 1 : SubSeq(batch, 1, m)[k] = batch[1 + k - 1]
                BY <3>1, SubSeqProperties
            <4>2. m - 1 + 1 = m /\ \A k \in 1 .. m : 1 + k - 1 = k
                BY <3>1
            <4> QED BY <3>1, <4>1, <4>2
        <3> QED BY <1>4, <3>2, SeqEqual
    <2>2. 0 + 1 = 1
        OBVIOUS
    <2> QED BY <1>2, <2>1, <2>2 DEF Counters
<1>11. Known'
    <2>1. Ready \subseteq stalled \cup rdlist
        BY <1>3, <1>5 DEF IInv, Server, Known
    <2>2. Ready \subseteq stalled' \cup rdlist' \cup Todo'
        BY <2>1, <1>2, <1>5, <1>6
    <2> QED BY <2>2, <1>1, <1>3 DEF Known
<1> QED BY <1>1, <1>7, <1>8, <1>9, <1>10, <1>11 DEF IInv, Server

\* What the lost events were of is ready, and stalls.
LEMMA BatchEndsKeeps == IInv /\ BatchEnds => IInv'
<1> SUFFICES ASSUME IInv, BatchEnds PROVE IInv'
    OBVIOUS
<1>1. Network' /\ Ready' = Ready
    BY NetworkStays DEF BatchEnds, IInv
<1>2. /\ pc = "event" /\ pc' = "wait" /\ stalled' = stalled \cup Fds(todo)
      /\ events' = <<>> /\ n' = 0 /\ i' = 0 /\ socket_fd' = 0
      /\ UNCHANGED <<rdlist, todo>>
    BY DEF BatchEnds
<1>3. Fds(todo) = Todo /\ BeingRead = {} /\ todo \in Seq(Event)
    BY <1>2, FdsAre DEF IInv, Server, ServerTypeOK, Todo, BeingRead
<1>4. Todo \subseteq Ready /\ Ready \subseteq Fd \cup {listen_fd}
    BY <1>2, ReadyIs DEF IInv, Server, Pending
<1>5. ServerTypeOK'
    <2>1. n' \in -1 .. MAXEVENTS /\ i' \in 0 .. MAXEVENTS + 1
        BY <1>2, Constants
    <2>2. socket_fd' \in Fd \cup {listen_fd} /\ events' \in Seq(Event)
        BY <1>2 DEF listen_fd
    <2> QED BY <1>2, <1>3, <1>4, <2>1, <2>2 DEF IInv, Server, ServerTypeOK
<1>6. Pending' /\ Reading' /\ Counters'
    BY <1>2 DEF Pending, Reading, Counters
<1>7. Known'
    BY <1>1, <1>2, <1>3 DEF IInv, Server, Known
<1> QED BY <1>1, <1>5, <1>6, <1>7 DEF IInv, Server

\* The body of the loop is over with one event, and i counts it.
LEMMA NextEventKeeps ==
    ASSUME IInv, Takes, i' = i + 1, UNCHANGED <<pc, events, n, socket_fd>>,
           Ready \ {This.fd} \subseteq Ready',
           rdlist' \subseteq Fd \cup {listen_fd}, stalled' \subseteq Fd \cup {listen_fd},
           Ready' \subseteq stalled' \cup rdlist' \cup Todo'
    PROVE  Server'
<1>1. /\ pc = "event" /\ i < n /\ todo' \in Seq(Event) /\ Todo' = Todo \ {This.fd}
      /\ \A j, k \in 1 .. Len(todo') : todo'[j].fd = todo'[k].fd => j = k
      /\ \A k \in 1 .. Len(todo') : todo'[k].err => todo'[k].fd # listen_fd
      /\ i + 1 >= n \/ todo' = SubSeq(events, (i + 1) + 1, n)
      /\ n = Len(events)
    BY TakesIs
<1>2. pc' = "event"
    BY <1>1
<1>3. ServerTypeOK'
    <2>1. i' \in 0 .. MAXEVENTS + 1
        BY <1>1, Constants DEF IInv, Server, ServerTypeOK
    <2> QED BY <1>1, <2>1 DEF IInv, Server, ServerTypeOK
<1>4. Pending'
    <2>1. Todo \subseteq Ready
        BY <1>1 DEF IInv, Server, Pending
    <2>2. Todo' \subseteq Ready'
        BY <1>1, <2>1
    <2> QED BY <1>1, <2>2 DEF Pending
<1>5. Reading' /\ Counters'
    BY <1>1, <1>2 DEF Reading, Counters
<1>6. Known'
    BY <1>2 DEF Known
<1> QED BY <1>3, <1>4, <1>5, <1>6 DEF Server

\* Nothing is lost while an event is taken up.
LEMMA EventKnown ==
    ASSUME IInv, pc = "event" PROVE Ready \subseteq stalled \cup rdlist \cup Todo
BY DEF IInv, Server, Known, BeingRead

LEMMA ErrorEventKeeps == IInv /\ ErrorEvent => IInv'
<1> SUFFICES ASSUME IInv, ErrorEvent PROVE IInv'
    OBVIOUS
<1> DEFINE f == This.fd
<1>1. /\ Takes /\ This.err /\ close(f) /\ i' = i + 1
      /\ rdlist' = rdlist \ {f} /\ stalled' = stalled \ {f}
      /\ UNCHANGED <<pc, events, n, socket_fd>>
    BY DEF ErrorEvent, Forget
<1>2. pc = "event" /\ f \in Ready /\ f # listen_fd /\ Todo' = Todo \ {f}
    BY <1>1, TakesIs
<1>3. f \in Fd /\ conn[f] # NoClient
    BY <1>2, ReadyIs
<1>4. Network' /\ Ready' = Ready \ {f}
    BY <1>1, <1>3, CloseIs DEF IInv
<1>5. Ready' \subseteq stalled' \cup rdlist' \cup Todo'
    BY <1>1, <1>2, <1>4, EventKnown
<1>6. Server'
    BY <1>1, <1>4, <1>5, NextEventKeeps DEF IInv, Server, ServerTypeOK
<1> QED BY <1>4, <1>6 DEF IInv

LEMMA AcceptEventKeeps == IInv /\ AcceptEvent => IInv'
<1> SUFFICES ASSUME IInv, AcceptEvent PROVE IInv'
    OBVIOUS
<1>1. /\ Takes /\ This.fd = listen_fd /\ accept /\ i' = i + 1
      /\ rdlist' = IF Readable(Head(backlog)) THEN rdlist \cup {NewFd} ELSE rdlist
      /\ stalled' = IF Len(backlog) > 1 /\ listen_fd \notin rdlist
                    THEN stalled \cup {listen_fd} ELSE stalled
      /\ UNCHANGED <<pc, events, n, socket_fd>>
    BY DEF AcceptEvent
<1>2. pc = "event" /\ Todo' = Todo \ {listen_fd}
    BY <1>1, TakesIs
<1>3. /\ Network' /\ NewFd \in Fd /\ NewFd \notin Ready
      /\ Ready \ {listen_fd} \subseteq Ready'
      /\ Ready' \subseteq Ready \cup {NewFd}
      /\ NewFd \in Ready' => Readable(Head(backlog))
      /\ listen_fd \in Ready' => Len(backlog) > 1
    BY <1>1, AcceptIs DEF IInv
<1>4. rdlist \subseteq rdlist' /\ stalled \subseteq stalled'
    BY <1>1
<1>5. Ready' \subseteq stalled' \cup rdlist' \cup Todo'
    <2> SUFFICES ASSUME NEW f \in Ready' PROVE f \in stalled' \cup rdlist' \cup Todo'
        OBVIOUS
    <2>1. CASE f = NewFd
        BY <2>1, <1>1, <1>3
    <2>2. CASE f = listen_fd
        BY <2>2, <1>1, <1>3
    <2>3. CASE f # NewFd /\ f # listen_fd
        BY <2>3, <1>2, <1>3, <1>4, EventKnown
    <2> QED BY <2>1, <2>2, <2>3
<1>6. /\ rdlist' \subseteq Fd \cup {listen_fd} /\ stalled' \subseteq Fd \cup {listen_fd}
    BY <1>1, <1>3 DEF IInv, Server, ServerTypeOK
<1>7. Server'
    BY <1>1, <1>3, <1>5, <1>6, NextEventKeeps
<1> QED BY <1>3, <1>7 DEF IInv

\* AcceptFails, ReadFails and WriteFails: the server ends, and keeps some of
\* the events.
LEMMA ExitKeeps ==
    ASSUME IInv, pc' = "exit", pc # "wait", todo' = todo \/ Takes,
           UNCHANGED <<network, rdlist, events, n, i, socket_fd, stalled>>
    PROVE  IInv'
<1>1. Network' /\ Ready' = Ready
    BY NetworkStays DEF IInv
<1>2. /\ todo' \in Seq(Event) /\ Todo' \subseteq Todo
      /\ \A j, k \in 1 .. Len(todo') : todo'[j].fd = todo'[k].fd => j = k
      /\ \A k \in 1 .. Len(todo') : todo'[k].err => todo'[k].fd # listen_fd
    <2>1. CASE todo' = todo
        BY <2>1 DEF IInv, Server, ServerTypeOK, Pending, Todo
    <2>2. CASE Takes
        BY <2>2, TakesIs
    <2> QED BY <2>1, <2>2
<1>3. ServerTypeOK'
    BY <1>2 DEF IInv, Server, ServerTypeOK
<1>4. Pending'
    BY <1>1, <1>2 DEF IInv, Server, Pending
<1>5. Reading' /\ Counters' /\ Known'
    BY DEF Reading, Counters, Known
<1> QED BY <1>1, <1>3, <1>4, <1>5 DEF IInv, Server

LEMMA SocketEventKeeps == IInv /\ SocketEvent => IInv'
<1> SUFFICES ASSUME IInv, SocketEvent PROVE IInv'
    OBVIOUS
<1> DEFINE f == This.fd
<1>1. /\ Takes /\ f # listen_fd /\ socket_fd' = f /\ pc' = "read"
      /\ UNCHANGED <<rdlist, events, n, i, stalled>>
    BY DEF SocketEvent
<1>2. Network' /\ Ready' = Ready /\ UNCHANGED conn
    BY NetworkStays DEF SocketEvent, IInv, network
<1>3. /\ pc = "event" /\ i < n /\ f \in Ready
      /\ todo' \in Seq(Event) /\ Todo' = Todo \ {f}
      /\ \A j, k \in 1 .. Len(todo') : todo'[j].fd = todo'[k].fd => j = k
      /\ \A k \in 1 .. Len(todo') : todo'[k].err => todo'[k].fd # listen_fd
    BY <1>1, TakesIs
<1>4. f \in Fd /\ conn[f] # NoClient
    BY <1>1, <1>3, ReadyIs
<1> HIDE DEF f
<1>5. ServerTypeOK'
    BY <1>1, <1>3, <1>4 DEF IInv, Server, ServerTypeOK
<1>6. Pending'
    <2>1. Todo \subseteq Ready
        BY <1>3 DEF IInv, Server, Pending
    <2> QED BY <1>2, <1>3, <2>1 DEF Pending
<1>7. Reading'
    <2>1. i <= MAXEVENTS
        BY <1>3, Constants DEF IInv, Server, ServerTypeOK
    <2>2. socket_fd' \in Fd \ Todo' /\ conn'[socket_fd'] # NoClient /\ i' <= MAXEVENTS
        BY <1>1, <1>2, <1>3, <1>4, <2>1
    <2> QED BY <2>2 DEF Reading
<1>8. Counters'
    BY <1>1 DEF Counters
<1>9. Known'
    <2>1. BeingRead' = {f}
        BY <1>1 DEF BeingRead
    <2>2. Ready' \subseteq stalled' \cup rdlist' \cup BeingRead' \cup Todo'
        BY <1>1, <1>2, <1>3, <2>1, EventKnown
    <2> QED BY <1>1, <2>2 DEF Known
<1> QED BY <1>2, <1>5, <1>6, <1>7, <1>8, <1>9 DEF IInv, Server

----------------------------------------------------------------------------
(* The loop over the data of one connection                                *)

\* Between the calls of the read loop, only the socket itself may be ready no
\* longer, which is of none of the events to come.
LEMMA ReadLoopKeeps ==
    ASSUME IInv, pc \in {"read", "write"}, pc' \in {"read", "write"},
           UNCHANGED <<conn, rdlist, events, socket_fd, todo, stalled>>,
           n' \in -1 .. MAXEVENTS, i' \in 0 .. MAXEVENTS,
           Ready \ {socket_fd} \subseteq Ready', Ready' \subseteq Ready
    PROVE  Server'
<1>1. ServerTypeOK'
    <2>1. i' \in 0 .. MAXEVENTS + 1
        BY Constants
    <2> QED BY <2>1 DEF IInv, Server, ServerTypeOK
<1>2. Todo' = Todo /\ BeingRead' = {socket_fd} /\ BeingRead = {socket_fd}
    BY DEF Todo, BeingRead
<1>3. socket_fd \in Fd \ Todo /\ conn[socket_fd] # NoClient
    BY DEF IInv, Server, Reading
<1>4. /\ \A j, k \in 1 .. Len(todo) : todo[j].fd = todo[k].fd => j = k
      /\ \A k \in 1 .. Len(todo) : todo[k].err => todo[k].fd # listen_fd
      /\ Todo \subseteq Ready
    BY DEF IInv, Server, Pending
<1>5. Todo' \subseteq Ready'
    BY <1>2, <1>3, <1>4
<1>6. Pending'
    BY <1>4, <1>5 DEF Pending
<1>7. Reading'
    <2>1. i' <= MAXEVENTS
        BY Constants
    <2> QED BY <1>2, <1>3, <2>1 DEF Reading
<1>8. Counters'
    BY DEF Counters
<1>9. Known'
    <2>1. Ready \subseteq stalled \cup rdlist \cup BeingRead \cup Todo
        BY DEF IInv, Server, Known
    <2> QED BY <1>2, <2>1 DEF Known
<1> QED BY <1>1, <1>6, <1>7, <1>8, <1>9 DEF Server

LEMMA SocketIsOpen ==
    ASSUME IInv, pc \in {"read", "write"}
    PROVE  /\ socket_fd \in Fd \ Todo /\ conn[socket_fd] # NoClient
           /\ i \in 0 .. MAXEVENTS /\ n \in -1 .. MAXEVENTS
<1>1. i \in 0 .. MAXEVENTS + 1 /\ i <= MAXEVENTS /\ n \in -1 .. MAXEVENTS
    BY DEF IInv, Server, ServerTypeOK, Reading
<1>2. i \in 0 .. MAXEVENTS
    BY <1>1, Constants
<1> QED BY <1>1, <1>2 DEF IInv, Server, Reading

LEMMA ReadKeeps == IInv /\ Read => IInv'
<1> SUFFICES ASSUME IInv, Read PROVE IInv'
    OBVIOUS
<1>1. /\ pc = "read" /\ pc' = "write" /\ read(socket_fd) /\ n' = 1 /\ i' = 1
      /\ UNCHANGED <<rdlist, events, socket_fd, todo, stalled>>
    BY DEF Read
<1>2. socket_fd \in Fd /\ conn[socket_fd] # NoClient
    BY <1>1, SocketIsOpen
<1>3. Network' /\ Ready' \subseteq Ready /\ Ready \ {socket_fd} \subseteq Ready'
    BY <1>1, <1>2, ReadIs DEF IInv
<1>4. n' \in -1 .. MAXEVENTS /\ i' \in 0 .. MAXEVENTS
    BY <1>1, Constants
<1>5. UNCHANGED conn
    BY <1>1 DEF read
<1> QED BY <1>1, <1>3, <1>4, <1>5, ReadLoopKeeps DEF IInv

LEMMA WriteKeeps == IInv /\ Write => IInv'
<1> SUFFICES ASSUME IInv, Write PROVE IInv'
    OBVIOUS
<1>1. /\ pc = "write" /\ pc' = "read" /\ write(socket_fd)
      /\ UNCHANGED <<rdlist, events, n, i, socket_fd, todo, stalled>>
    BY DEF Write
<1>2. /\ socket_fd \in Fd /\ conn[socket_fd] # NoClient
      /\ n' \in -1 .. MAXEVENTS /\ i' \in 0 .. MAXEVENTS
    BY <1>1, SocketIsOpen
<1>3. Network' /\ Ready' = Ready
    BY <1>1, <1>2, WriteIs DEF IInv
<1>4. UNCHANGED conn
    BY <1>1 DEF write
<1> QED BY <1>1, <1>2, <1>3, <1>4, ReadLoopKeeps DEF IInv

\* The read loop is left with n <= 0, so that the loop over the events is, too.
LEMMA LeaveLoopKeeps ==
    ASSUME IInv, NEW result \in {-1, 0}, LeaveLoop(result),
           Ready' = Ready \ {socket_fd},
           rdlist' \subseteq rdlist, rdlist \ {socket_fd} \subseteq rdlist',
           stalled' \subseteq stalled, stalled \ {socket_fd} \subseteq stalled'
    PROVE  Server'
<1>1. /\ pc = "read" /\ n' = result /\ i' = i + 1 /\ pc' = "event"
      /\ UNCHANGED <<events, socket_fd, todo>>
    BY DEF LeaveLoop
<1>2. socket_fd \in Fd \ Todo /\ i \in 0 .. MAXEVENTS
    BY <1>1, SocketIsOpen
<1>3. /\ n' \in -1 .. MAXEVENTS /\ i' \in 0 .. MAXEVENTS + 1 /\ i' >= n'
    BY <1>1, <1>2, Constants
<1>4. ServerTypeOK'
    BY <1>1, <1>3 DEF IInv, Server, ServerTypeOK
<1>5. Todo' = Todo /\ BeingRead = {socket_fd}
    BY <1>1 DEF Todo, BeingRead
<1>6. /\ \A j, k \in 1 .. Len(todo) : todo[j].fd = todo[k].fd => j = k
      /\ \A k \in 1 .. Len(todo) : todo[k].err => todo[k].fd # listen_fd
      /\ Todo \subseteq Ready
    BY <1>1 DEF IInv, Server, Pending
<1>7. Todo' \subseteq Ready'
    BY <1>2, <1>5, <1>6
<1>8. Pending'
    BY <1>1, <1>6, <1>7 DEF Pending
<1>9. Reading' /\ Counters'
    BY <1>1, <1>3 DEF Reading, Counters
<1>10. Known'
    <2>1. Ready \subseteq stalled \cup rdlist \cup BeingRead \cup Todo
        BY <1>1 DEF IInv, Server, Known
    <2>2. Ready' \subseteq stalled' \cup rdlist' \cup Todo'
        BY <1>5, <2>1
    <2> QED BY <1>1, <2>2 DEF Known
<1> QED BY <1>4, <1>8, <1>9, <1>10 DEF Server

LEMMA ReadNothingKeeps == IInv /\ ReadNothing => IInv'
<1> SUFFICES ASSUME IInv, ReadNothing PROVE IInv'
    OBVIOUS
<1>1. /\ LeaveLoop(-1) /\ pc = "read" /\ inbox[conn[socket_fd]] = 0
      /\ end[conn[socket_fd]] = "open" /\ UNCHANGED <<network, rdlist, stalled>>
    BY DEF ReadNothing, LeaveLoop, Peer
<1>2. Network' /\ Ready' = Ready
    BY <1>1, NetworkStays DEF IInv
<1>3. socket_fd \in Fd
    BY <1>1, SocketIsOpen
<1>4. socket_fd \notin Ready
    BY <1>1, <1>3, ReadyIs
<1>5. Server'
    BY <1>1, <1>2, <1>4, LeaveLoopKeeps
<1> QED BY <1>2, <1>5 DEF IInv

LEMMA EndOfFileKeeps == IInv /\ EndOfFile => IInv'
<1> SUFFICES ASSUME IInv, EndOfFile PROVE IInv'
    OBVIOUS
<1>1. /\ LeaveLoop(0) /\ pc = "read" /\ close(socket_fd)
      /\ rdlist' = rdlist \ {socket_fd} /\ stalled' = stalled \ {socket_fd}
    BY DEF EndOfFile, LeaveLoop, Forget
<1>2. socket_fd \in Fd /\ conn[socket_fd] # NoClient
    BY <1>1, SocketIsOpen
<1>3. Network' /\ Ready' = Ready \ {socket_fd}
    BY <1>1, <1>2, CloseIs DEF IInv
<1>4. Server'
    BY <1>1, <1>3, LeaveLoopKeeps
<1> QED BY <1>3, <1>4 DEF IInv

----------------------------------------------------------------------------
THEOREM Inductive == Spec => []IInv
<1>1. Init => IInv
    BY InitHolds
<1>2. IInv /\ [Next]_vars => IInv'
    <2> SUFFICES ASSUME IInv, [Next]_vars PROVE IInv'
        OBVIOUS
    <2>1. CASE epoll_wait \/ BatchEnds
        BY <2>1, WaitKeeps, BatchEndsKeeps
    <2>2. CASE ErrorEvent \/ AcceptEvent \/ SocketEvent
        BY <2>2, ErrorEventKeeps, AcceptEventKeeps, SocketEventKeeps
    <2>3. CASE Read \/ ReadNothing \/ EndOfFile \/ Write
        BY <2>3, ReadKeeps, ReadNothingKeeps, EndOfFileKeeps, WriteKeeps
    <2>4. CASE AcceptFails
        <3>1. /\ Takes /\ pc = "event" /\ pc' = "exit"
              /\ UNCHANGED <<network, rdlist, events, n, i, socket_fd, stalled>>
            BY <2>4 DEF AcceptFails, Takes
        <3> QED BY <3>1, ExitKeeps
    <2>5. CASE ReadFails \/ WriteFails
        <3>1. /\ pc # "wait" /\ pc' = "exit" /\ todo' = todo
              /\ UNCHANGED <<network, rdlist, events, n, i, socket_fd, stalled>>
            BY <2>5 DEF ReadFails, WriteFails
        <3> QED BY <3>1, ExitKeeps
    <2>6. ASSUME NEW c \in Client, ClientStep(c) PROVE IInv'
        BY <2>6, ClientKeeps
    <2>7. CASE UNCHANGED vars
        <3>1. UNCHANGED network /\ UNCHANGED server /\ UNCHANGED conn
            BY <2>7 DEF vars, network
        <3> QED BY <3>1, NetworkStays, QuietKeeps DEF IInv
    <2> QED BY <2>1, <2>2, <2>3, <2>4, <2>5, <2>6, <2>7 DEF Next, ServerStep
<1> QED BY <1>1, <1>2, PTL DEF Spec

\* Every variable of the server and of its connections keeps its type: n and i
\* stay in their ranges though they count events and bytes in turn (lines 87,
\* 89, 119 and 129).
THEOREM TypeCorrect == Spec => []TypeOK
<1>1. IInv => TypeOK
    BY DEF IInv, Network, Server, ServerTypeOK, TypeOK
<1> QED BY <1>1, Inductive, PTL

\* Lines 89 to 135: no event of a batch outlives its descriptor, whatever the
\* clients do between epoll_wait and the time it is taken up, and events[i] is
\* always the next one of it.
THEOREM EventsAreValidHolds == Spec => []EventsAreValid
<1>1. ASSUME IInv PROVE EventsAreValid
    <2>1. pc = "event" /\ i < n => todo = SubSeq(events, i + 1, n)
        <3>1. i \in Int /\ n \in Int
            BY <1>1, Constants DEF IInv, Server, ServerTypeOK
        <3> QED BY <1>1, <3>1 DEF IInv, Server, Counters
    <2>2. Fds(todo) = Todo
        BY <1>1, FdsAre DEF IInv, Server, ServerTypeOK, Todo
    <2>3. pc # "wait" => \A f \in Fds(todo) : IsReady(f)
        BY <1>1, <2>2 DEF IInv, Server, Pending, Ready
    <2>4. pc \in {"read", "write"} => conn[socket_fd] # NoClient
        BY <1>1 DEF IInv, Server, Reading
    <2> QED BY <2>1, <2>3, <2>4 DEF EventsAreValid
<1> QED BY <1>1, Inductive, PTL

\* Lines 74, 87 and 106: with edge-triggered sockets nothing that is ready is
\* forgotten but the events dropped with the batch, and the connections beyond
\* the first that came with one edge of the listening socket.
THEOREM OnlyKnownStallsHolds == Spec => []OnlyKnownStalls
<1>1. ASSUME IInv PROVE OnlyKnownStalls
    <2>1. Fds(todo) = Todo
        BY <1>1, FdsAre DEF IInv, Server, ServerTypeOK, Todo
    <2> SUFFICES ASSUME NEW f \in Fd \cup {listen_fd}, IsReady(f), f \notin stalled
                 PROVE  \/ f \in rdlist
                        \/ pc # "wait" /\ f \in Fds(todo)
                        \/ pc \in {"read", "write"} /\ socket_fd = f
                        \/ pc = "exit"
        BY DEF OnlyKnownStalls
    <2>2. f \in Ready
        BY DEF Ready
    <2> QED BY <1>1, <2>1, <2>2 DEF IInv, Server, Known, BeingRead
<1> QED BY <1>1, Inductive, PTL

====
