---- MODULE PollServer ----
(***************************************************************************)
(* IPC/IO_poll.c: one process answers its clients.  event_set[0] is the     *)
(* listening socket; fd[k] is event_set[k].fd for the other entries, where  *)
(* NoFd (-1) is a free one, and revents the entries poll has reported.      *)
(***************************************************************************)
EXTENDS Sockets

CONSTANTS
    INIT_SIZE,   \* 128
    MaxFailures  \* bound: calls of accept that fail

ASSUME PollAssumption == INIT_SIZE \in Nat \ {0, 1} /\ MaxFailures \in Nat

NoFd == -1
Entry == 1 .. INIT_SIZE - 1

VARIABLES
    pc,          \* the call the server makes next, or "exit"
    fd,
    revents,
    ready_number,
    i,
    failures

server == <<pc, fd, revents, ready_number, i, failures>>
vars == <<network, server>>

TypeOK ==
    /\ NetworkTypeOK
    /\ pc \in {"poll", "accept", "scan", "write", "exit"}
    /\ fd \in [Entry -> Fd \cup {NoFd}]
    /\ revents \in SUBSET (0 .. INIT_SIZE - 1)
    /\ ready_number \in 0 .. INIT_SIZE
    /\ i \in Entry
    /\ failures \in 0 .. MaxFailures

Init ==
    /\ NetworkInit
    /\ pc = "poll"
    /\ fd = [k \in Entry |-> NoFd]
    /\ revents = {}
    /\ ready_number = 0
    /\ i = 1
    /\ failures = 0

----------------------------------------------------------------------------
(* poll                                                                    *)

\* poll is level-triggered; it reports nothing for a negative descriptor.
Reported ==
    {k \in Entry : fd[k] # NoFd /\ Readable(conn[fd[k]])}
        \cup {k \in {0} : backlog # <<>>}

\* Mutant of poll: the listening entry is not tested.
pollAccepts ==
    /\ pc = "poll"
    /\ Reported # {}
    /\ revents' = Reported
    /\ ready_number' = Cardinality(Reported)
    /\ pc' = "accept"
    /\ i' = 1
    /\ UNCHANGED <<network, fd, failures>>

poll ==
    /\ pc = "poll"
    /\ Reported # {}
    /\ revents' = Reported
    /\ ready_number' = Cardinality(Reported)
    /\ pc' = IF 0 \in Reported THEN "accept" ELSE "scan"
    /\ i' = 1
    /\ UNCHANGED <<network, fd, failures>>

----------------------------------------------------------------------------
(* The listening socket                                                    *)

Free == {k \in Entry : fd[k] = NoFd}

\* Mutant of Accepted: the listening socket is not counted.
AcceptedUncounted ==
    /\ ready_number' = ready_number
    /\ pc' = IF ready_number' <= 1 THEN "poll" ELSE "scan"

\* --ready_number <= 0: nothing else was reported.
Accepted ==
    /\ ready_number' = ready_number - 1
    /\ pc' = IF ready_number' <= 0 THEN "poll" ELSE "scan"

\* The connection goes into the first free entry.
Register ==
    /\ pc = "accept"
    /\ accept
    /\ \E k \in Free :
        /\ \A l \in Free : k <= l
        /\ fd' = [fd EXCEPT ![k] = NewFd]
    /\ Accepted
    /\ UNCHANGED <<revents, i, failures>>

\* The -1 of accept goes into the first free entry and leaves it free.
AcceptFails ==
    /\ pc = "accept" /\ Free # {}
    /\ failures < MaxFailures
    /\ failures' = failures + 1
    /\ Accepted
    /\ UNCHANGED <<network, fd, revents, i>>

\* "can not hold so many clients" ends the server.
TableFull ==
    /\ pc = "accept" /\ Free = {}
    /\ pc' = "exit"
    /\ UNCHANGED <<network, fd, revents, ready_number, i, failures>>

----------------------------------------------------------------------------
(* The connections                                                         *)

\* Mutant of NextEntry: the break is made one entry too early.
NextEntryEarly(left) ==
    /\ ready_number' = left
    /\ IF left <= 1 \/ i + 1 = INIT_SIZE
       THEN pc' = "poll" /\ i' = 1
       ELSE pc' = "scan" /\ i' = i + 1

\* The scan goes on with the next entry, unless nothing reported is left.
NextEntry(left) ==
    /\ ready_number' = left
    /\ IF left <= 0 \/ i + 1 = INIT_SIZE
       THEN pc' = "poll" /\ i' = 1
       ELSE pc' = "scan" /\ i' = i + 1

Skip ==
    /\ pc = "scan"
    /\ fd[i] = NoFd \/ i \notin revents
    /\ NextEntry(ready_number)
    /\ UNCHANGED <<network, fd, revents, failures>>

\* An entry with a descriptor that poll has reported.
Serving == pc = "scan" /\ fd[i] # NoFd /\ i \in revents

Read ==
    /\ Serving
    /\ read(fd[i])
    /\ pc' = "write"
    /\ UNCHANGED <<fd, revents, ready_number, i, failures>>

\* The write blocks while the client's answers fill the send buffer.
Write ==
    /\ pc = "write"
    /\ write(fd[i])
    /\ NextEntry(ready_number - 1)
    /\ UNCHANGED <<fd, revents, failures>>

WriteFails ==
    /\ pc = "write"
    /\ end[conn[fd[i]]] = "broken"
    /\ pc' = "exit"
    /\ UNCHANGED <<network, fd, revents, ready_number, i, failures>>

\* Mutant of Close: the entry keeps the closed descriptor.
CloseKeepsEntry ==
    /\ Serving
    /\ inbox[conn[fd[i]]] = 0 /\ end[conn[fd[i]]] # "open"
    /\ close(fd[i])
    /\ NextEntry(ready_number - 1)
    /\ UNCHANGED <<fd, revents, failures>>

\* End of file, or ECONNRESET.
Close ==
    /\ Serving
    /\ inbox[conn[fd[i]]] = 0 /\ end[conn[fd[i]]] # "open"
    /\ close(fd[i])
    /\ fd' = [fd EXCEPT ![i] = NoFd]
    /\ NextEntry(ready_number - 1)
    /\ UNCHANGED <<revents, failures>>

\* Any other error ends the server.
ReadFails ==
    /\ Serving
    /\ inbox[conn[fd[i]]] = 0 /\ end[conn[fd[i]]] = "broken"
    /\ pc' = "exit"
    /\ UNCHANGED <<network, fd, revents, ready_number, i, failures>>

ServerStep ==
    \/ poll \/ Register \/ AcceptFails \/ TableFull
    \/ Skip \/ Read \/ Write \/ WriteFails \/ Close \/ ReadFails

ClientStep(c) == Connect(c) \/ Send(c) \/ Finish(c) \/ BreakDown(c) \/ Drain(c)

Next ==
    \/ ServerStep
    \/ \E c \in Client : ClientStep(c) /\ UNCHANGED server

\* The server runs when it can; clients read what they are sent.
Fairness ==
    /\ WF_vars(ServerStep)
    /\ \A c \in Client : WF_vars(Drain(c) /\ UNCHANGED server)

Spec == Init /\ [][Next]_vars /\ Fairness

----------------------------------------------------------------------------
(* Properties                                                              *)

\* event_set and the descriptor table agree: every open connection is in one
\* entry, and an entry never names a closed descriptor, which the kernel would
\* give to the next client.
EntriesAreConnections ==
    \A f \in Fd :
        Cardinality({k \in Entry : fd[k] = f}) = IF conn[f] = NoClient THEN 0 ELSE 1

\* ready_number is the number of reported entries that are still to be served,
\* so that the early break never leaves one behind and the scan never ends
\* with some missing; a connection put into an entry by accept, after poll,
\* is not taken for a reported one.
ReadyNumberCounts ==
    pc \in {"scan", "write"} =>
        ready_number = Cardinality({k \in revents : k >= i /\ k > 0})

\* The sockets block, but no accept and no read does: there is somebody to
\* accept, and something to read in every entry served, whatever the clients
\* have done since poll.  The write of line 107 can block.
NothingBlocks ==
    /\ pc = "accept" => backlog # <<>>
    /\ Serving => Readable(conn[fd[i]])

\* A client waits neither for accept nor for an answer for ever, unless the
\* server ends.
EveryoneIsServed ==
    \A c \in Client :
        /\ (life[c] = "queued") ~> (life[c] = "open" \/ pc = "exit")
        /\ (inbox[c] > 0) ~> (inbox[c] = 0 \/ pc = "exit")
====
