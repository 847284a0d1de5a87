---- MODULE PollServerProofs ----
(***************************************************************************)
(* PollServer for any number of clients, any INIT_SIZE and any SNDBUF: the  *)
(* table of the server and the descriptor table agree, the early break      *)
(* leaves no reported entry behind, and no accept or read can block.        *)
(***************************************************************************)
EXTENDS PollServer, FiniteSetTheorems, SequenceTheorems, WellFoundedInduction, TLAPS

\* The entries the scan has still to look at.
Left(n) == {k \in revents : k >= n /\ k > 0}

\* A client is in one place: not there yet, queued, behind one descriptor, or
\* closed.  This is what makes NewFd a free descriptor.
Places ==
    /\ \A f \in Fd : conn[f] # NoClient => life[conn[f]] = "open"
    /\ \A f, g \in Fd : conn[f] = conn[g] /\ conn[f] # NoClient => f = g
    /\ \A k \in 1 .. Len(backlog) : life[backlog[k]] = "queued"
    /\ \A j, k \in 1 .. Len(backlog) : backlog[j] = backlog[k] => j = k

\* What waits to be read was sent.
Inboxes == \A c \in Client : inbox[c] <= sent

\* The two tables.
Entries ==
    /\ \A k \in Entry : fd[k] # NoFd => conn[fd[k]] # NoClient
    /\ \A k, l \in Entry : fd[k] = fd[l] /\ fd[k] # NoFd => k = l
    /\ \A f \in Fd : conn[f] # NoClient => \E k \in Entry : fd[k] = f

\* What poll has reported is still so when its entry is served: the sockets of
\* the other entries are not touched, and clients only add to it.
Reports ==
    /\ pc \in {"accept", "scan"} =>
          \A k \in Left(i) : fd[k] # NoFd /\ Readable(conn[fd[k]])
    /\ pc = "write" =>
          /\ i \in revents /\ fd[i] # NoFd
          /\ \A k \in Left(i + 1) : fd[k] # NoFd /\ Readable(conn[fd[k]])

\* ready_number, before the listening socket is served and after.
Counted ==
    /\ pc = "accept" =>
          /\ 0 \in revents /\ backlog # <<>> /\ i = 1
          /\ ready_number = Cardinality(revents)
    /\ pc \in {"scan", "write"} => ready_number = Cardinality(Left(i))

IInv == TypeOK /\ Places /\ Inboxes /\ Entries /\ Reports /\ Counted

----------------------------------------------------------------------------
(* Facts about what the actions are built from                             *)

LEMMA Constants ==
    /\ Clients \in Nat /\ MaxSent \in Nat /\ SNDBUF \in Nat \ {0}
    /\ INIT_SIZE \in Nat \ {0, 1} /\ MaxFailures \in Nat
    /\ NoClient \notin Client /\ NoFd \notin Fd /\ NoFd \notin Client
    /\ 1 \in Entry /\ Entry \subseteq Nat
BY SocketsAssumption, PollAssumption DEF Client, Fd, Entry, NoClient, NoFd

LEMMA InitHolds == Init => IInv
<1> SUFFICES ASSUME Init PROVE IInv
    OBVIOUS
<1> USE Constants
<1>1. TypeOK
    BY DEF Init, NetworkInit, TypeOK, NetworkTypeOK
<1>2. Places /\ Inboxes /\ Entries
    BY DEF Init, NetworkInit, Places, Inboxes, Entries
<1>3. Reports /\ Counted
    BY DEF Init, Reports, Counted
<1> QED BY <1>1, <1>2, <1>3 DEF IInv

\* A set of reported entries is finite and has a size ready_number can take.
LEMMA ReportSize ==
    ASSUME NEW T, T \subseteq 0 .. INIT_SIZE - 1
    PROVE  IsFiniteSet(T) /\ Cardinality(T) \in 0 .. INIT_SIZE
<1>1. /\ IsFiniteSet(0 .. INIT_SIZE - 1)
      /\ Cardinality(0 .. INIT_SIZE - 1) = INIT_SIZE
    <2>1. 0 \in Int /\ INIT_SIZE - 1 \in Int /\ ~ 0 > INIT_SIZE - 1
        BY Constants
    <2> HIDE DEF Entry
    <2>2. /\ IsFiniteSet(0 .. INIT_SIZE - 1)
          /\ Cardinality(0 .. INIT_SIZE - 1) =
                IF 0 > INIT_SIZE - 1 THEN 0 ELSE (INIT_SIZE - 1) - 0 + 1
        BY <2>1, FS_Interval
    <2> QED BY <2>1, <2>2, Constants
<1>2. IsFiniteSet(T) /\ Cardinality(T) <= INIT_SIZE
    BY <1>1, FS_Subset
<1>3. Cardinality(T) \in Nat
    BY <1>2, FS_CardinalityType
<1> QED BY <1>2, <1>3, Constants

\* Looking at entry i takes it out of what is left, if poll has reported it.
LEMMA LeftStep ==
    ASSUME TypeOK
    PROVE  /\ Left(i + 1) \subseteq Left(i) /\ i \notin Left(i + 1)
           /\ Cardinality(Left(i)) \in 0 .. INIT_SIZE
           /\ Cardinality(Left(i + 1)) \in 0 .. INIT_SIZE
           /\ Cardinality(Left(i + 1)) =
                 IF i \in revents THEN Cardinality(Left(i)) - 1
                 ELSE Cardinality(Left(i))
<1>1. /\ i \in Nat /\ i > 0 /\ revents \subseteq 0 .. INIT_SIZE - 1
    BY DEF TypeOK, Entry
<1>2. Left(i + 1) = Left(i) \ {i} /\ (i \in Left(i) <=> i \in revents)
    <2>1. \A k \in revents : (k >= i + 1 <=> (k >= i /\ k # i))
        BY <1>1, Constants
    <2>2. i \in Left(i) <=> i \in revents
        BY <1>1 DEF Left
    <2>3. \A k : k \in Left(i + 1) <=> k \in Left(i) /\ k # i
        BY <2>1 DEF Left
    <2> QED BY <2>2, <2>3
<1>3. Left(i) \subseteq 0 .. INIT_SIZE - 1 /\ Left(i + 1) \subseteq 0 .. INIT_SIZE - 1
    BY <1>1 DEF Left
<1>4. /\ IsFiniteSet(Left(i)) /\ Cardinality(Left(i)) \in 0 .. INIT_SIZE
      /\ Cardinality(Left(i + 1)) \in 0 .. INIT_SIZE
    BY <1>3, ReportSize
<1>5. Cardinality(Left(i) \ {i}) =
         IF i \in Left(i) THEN Cardinality(Left(i)) - 1 ELSE Cardinality(Left(i))
    BY <1>4, FS_RemoveElement
<1> QED BY <1>2, <1>4, <1>5

\* The break, or the end of the array, comes when nothing is left; if the scan
\* goes on, what is left was reported and its count is right.
LEMMA NextEntryKeeps ==
    ASSUME NEW left, TypeOK, NextEntry(left), left = Cardinality(Left(i + 1)),
           UNCHANGED revents,
           \A k \in Left(i + 1) : (fd[k] # NoFd /\ Readable(conn[fd[k]]))'
    PROVE  /\ Reports' /\ Counted'
           /\ pc' \in {"poll", "scan"} /\ i' \in Entry
           /\ ready_number' \in 0 .. INIT_SIZE
<1>1. left \in 0 .. INIT_SIZE /\ i \in Entry
    BY LeftStep DEF TypeOK
<1>2. CASE pc' = "poll" /\ i' = 1
    BY <1>1, <1>2, Constants DEF NextEntry, Reports, Counted
<1>3. CASE pc' = "scan" /\ i' = i + 1 /\ i + 1 # INIT_SIZE
    <2>1. i' \in Entry
        BY <1>1, <1>3, Constants DEF Entry
    <2>2. Left(i)' = Left(i + 1)
        BY <1>3 DEF Left
    <2>3. Counted'
        BY <1>3, <2>2 DEF NextEntry, Counted
    <2>4. Reports'
        BY <1>3, <2>2 DEF Reports
    <2> QED BY <1>1, <1>3, <2>1, <2>3, <2>4 DEF NextEntry
<1>4. \/ pc' = "poll" /\ i' = 1
      \/ pc' = "scan" /\ i' = i + 1 /\ i + 1 # INIT_SIZE
    BY DEF NextEntry
<1> QED BY <1>2, <1>3, <1>4

\* accept finds a free descriptor: with somebody in the queue, the others are
\* too few to have them all.
LEMMA NewFdIsFree ==
    ASSUME TypeOK, Places, backlog # <<>>
    PROVE  NewFd \in Fd /\ conn[NewFd] = NoClient
<1> DEFINE Unused == {f \in Fd : conn[f] = NoClient}
           c == Head(backlog)
<1>1. c \in Client /\ life[c] = "queued"
    <2>1. Len(backlog) \in Nat /\ Len(backlog) > 0 /\ Head(backlog) = backlog[1]
        BY DEF TypeOK, NetworkTypeOK
    <2> QED BY <2>1 DEF TypeOK, NetworkTypeOK, Places
<1>2. Unused # {}
    <2> SUFFICES ASSUME \A f \in Fd : conn[f] # NoClient PROVE FALSE
        OBVIOUS
    <2>1. conn \in [Fd -> Client \ {c}]
        BY <1>1 DEF TypeOK, NetworkTypeOK, Places
    <2>2. /\ IsFiniteSet(Fd) /\ Cardinality(Fd) = Clients
          /\ IsFiniteSet(Client) /\ Cardinality(Client) = Clients
        <3>1. Fd = 1 .. Clients /\ Client = 1 .. Clients
            BY DEF Fd, Client
        <3>2. Clients \in Nat /\ 1 \in Int /\ Clients \in Int
            BY Constants
        <3>3. /\ IsFiniteSet(1 .. Clients)
              /\ Cardinality(1 .. Clients) =
                    IF 1 > Clients THEN 0 ELSE Clients - 1 + 1
            BY <3>2, FS_Interval
        <3> QED BY <3>1, <3>2, <3>3
    <2>3. IsFiniteSet(Client \ {c}) /\ Cardinality(Client \ {c}) = Clients - 1
        BY <1>1, <2>2, FS_RemoveElement
    <2>4. Cardinality(Client \ {c}) < Cardinality(Fd)
        BY <2>2, <2>3, Constants
    <2>5. \E f, g \in Fd : f # g /\ conn[f] = conn[g]
        BY <2>1, <2>2, <2>3, <2>4, FS_PigeonHole
    <2> QED BY <2>5 DEF Places
<1>3. Unused \subseteq Nat
    BY DEF Fd
<1>4. \E f \in Unused : \A g \in Unused : f <= g
    <2> DEFINE Less == OpToRel(<, Nat)
    <2>1. IsWellFoundedOn(Less, Nat)
        BY NatLessThanWellFounded
    <2>2. \A x, y \in Nat : <<x, y>> \in Less <=> x < y
        BY DEF OpToRel
    <2> HIDE DEF Less
    <2>3. \E f \in Unused : \A g \in Unused : ~ (<<g, f>> \in Less)
        BY <1>2, <1>3, <2>1, WFMin
    <2>4. PICK f \in Unused : \A g \in Unused : ~ (<<g, f>> \in Less)
        BY <2>3
    <2>5. ASSUME NEW g \in Unused PROVE f <= g
        <3>1. f \in Nat /\ g \in Nat /\ ~ (g < f)
            BY <1>3, <2>2, <2>4
        <3> QED BY <3>1
    <2> QED BY <2>5
<1>5. \E f \in Fd : conn[f] = NoClient /\ \A g \in Fd : conn[g] = NoClient => f <= g
    BY <1>4
<1> QED BY <1>5 DEF NewFd

----------------------------------------------------------------------------
(* poll and accept                                                         *)

LEMMA PollKeeps == IInv /\ poll => IInv'
<1> SUFFICES ASSUME IInv, poll PROVE IInv'
    OBVIOUS
<1>1. /\ UNCHANGED <<network, fd, failures>> /\ i' = 1
      /\ revents' = Reported /\ ready_number' = Cardinality(Reported)
      /\ pc' = IF 0 \in Reported THEN "accept" ELSE "scan"
    BY DEF poll
<1>2. Reported \subseteq 0 .. INIT_SIZE - 1 /\ Reported \subseteq Entry \cup {0}
    BY Constants DEF Reported, Entry
<1>3. Cardinality(Reported) \in 0 .. INIT_SIZE
    BY <1>2, ReportSize
<1>4. TypeOK'
    <2>1. NetworkTypeOK'
        BY <1>1 DEF IInv, TypeOK, NetworkTypeOK, network
    <2> QED BY <1>1, <1>2, <1>3, <2>1, Constants DEF IInv, TypeOK
<1>5. Places' /\ Inboxes' /\ Entries'
    BY <1>1 DEF IInv, Places, Inboxes, Entries, network
<1>6. Left(i)' = Reported \cap Entry
    <2>1. Left(i)' = {k \in Reported : k >= 1 /\ k > 0}
        BY <1>1 DEF Left
    <2>2. \A k \in Reported : (k >= 1 /\ k > 0) <=> k \in Entry
        BY <1>2, Constants DEF Entry
    <2> HIDE DEF Reported
    <2> QED BY <2>1, <2>2
<1>7. Reports'
    <2>1. \A k \in Reported \cap Entry : fd[k] # NoFd /\ Readable(conn[fd[k]])
        BY DEF Reported, Entry
    <2>2. \A k \in Reported \cap Entry : (fd[k] # NoFd /\ Readable(conn[fd[k]]))'
        BY <1>1, <2>1 DEF Readable, network
    <2> QED BY <1>1, <1>6, <2>2 DEF Reports
<1>8. Counted'
    <2>1. 0 \in Reported => backlog' # <<>>
        BY <1>1 DEF Reported, Entry, network
    <2>2. 0 \notin Reported => Left(i)' = Reported
        BY <1>2, <1>6
    <2> QED BY <1>1, <2>1, <2>2 DEF Counted
<1> QED BY <1>4, <1>5, <1>7, <1>8 DEF IInv

\* The listening socket is no longer counted, and what else was reported is.
LEMMA AcceptedKeeps ==
    ASSUME IInv, pc = "accept", Accepted, UNCHANGED <<revents, i>>,
           \A k \in Left(1) : (fd[k] # NoFd /\ Readable(conn[fd[k]]))'
    PROVE  /\ Reports' /\ Counted'
           /\ pc' \in {"poll", "scan"} /\ ready_number' \in 0 .. INIT_SIZE
<1>1. /\ 0 \in revents /\ i = 1 /\ revents \subseteq 0 .. INIT_SIZE - 1
      /\ ready_number = Cardinality(revents)
    BY DEF IInv, TypeOK, Counted
<1>2. Left(1) = revents \ {0}
    <2>1. INIT_SIZE \in Nat
        BY Constants
    <2>2. \A k \in revents : k \in Nat /\ (k >= 1 /\ k > 0 <=> k # 0)
        BY <1>1, <2>1
    <2> QED BY <2>2 DEF Left
<1>3. Cardinality(Left(1)) = ready_number - 1
    <2>1. IsFiniteSet(revents)
        BY <1>1, ReportSize
    <2> QED BY <1>1, <1>2, <2>1, FS_RemoveElement
<1>4. Left(1) \subseteq 0 .. INIT_SIZE - 1 /\ Left(i)' = Left(1)
    BY <1>1 DEF Left
<1>5. ready_number' = Cardinality(Left(1)) /\ ready_number' \in 0 .. INIT_SIZE
    BY <1>3, <1>4, ReportSize DEF Accepted
<1>6. pc' \in {"poll", "scan"}
    BY DEF Accepted
<1> QED BY <1>4, <1>5, <1>6 DEF Reports, Counted

LEMMA RegisterKeeps == IInv /\ Register => IInv'
<1> SUFFICES ASSUME IInv, Register PROVE IInv'
    OBVIOUS
<1>1. NewFd \in Fd /\ conn[NewFd] = NoClient
    BY NewFdIsFree DEF IInv, Register, accept
<1>2. PICK e \in Entry : fd[e] = NoFd /\ fd' = [fd EXCEPT ![e] = NewFd]
    BY DEF Register, Free
<1> DEFINE n == NewFd
           c == Head(backlog)
<1>3. /\ conn' = [conn EXCEPT ![n] = c] /\ life' = [life EXCEPT ![c] = "open"]
      /\ backlog' = Tail(backlog) /\ UNCHANGED <<sent, inbox, unread, end>>
      /\ UNCHANGED <<revents, i, failures>> /\ pc = "accept"
    BY DEF Register, accept
<1> n \in Fd /\ conn[n] = NoClient
    BY <1>1
<1>4. fd' = [fd EXCEPT ![e] = n]
    BY <1>2
<1> HIDE DEF n
<1>5. /\ Len(backlog) \in Nat /\ Len(backlog) > 0 /\ c = backlog[1]
      /\ c \in Client /\ life[c] = "queued"
      /\ Tail(backlog) \in Seq(Client) /\ Len(Tail(backlog)) = Len(backlog) - 1
      /\ \A k \in 1 .. Len(backlog) - 1 : Tail(backlog)[k] = backlog[k + 1]
    <2>1. backlog \in Seq(Client) /\ backlog # <<>>
        BY DEF IInv, TypeOK, NetworkTypeOK, Register, accept
    <2> QED BY <2>1 DEF IInv, Places
<1> HIDE DEF c
<1> USE Constants
<1>6. /\ conn \in [Fd -> Client \cup {NoClient}] /\ fd \in [Entry -> Fd \cup {NoFd}]
      /\ life \in [Client -> {"new", "queued", "open", "closed"}]
    BY DEF IInv, TypeOK, NetworkTypeOK
<1>7. /\ conn'[n] = c /\ \A f \in Fd : f # n => conn'[f] = conn[f]
      /\ fd'[e] = n /\ \A k \in Entry : k # e => fd'[k] = fd[k]
    BY <1>3, <1>4, <1>6
<1>8. \A k \in Entry : fd[k] # n
    BY DEF IInv, Entries
<1>9. \A f \in Fd : conn[f] # c
    BY <1>5 DEF IInv, Places
<1>10. /\ Reports' /\ Counted'
       /\ pc' \in {"poll", "scan"} /\ ready_number' \in 0 .. INIT_SIZE
    <2>1. \A k \in Left(1) :
             k \in Entry /\ fd[k] # NoFd /\ Readable(conn[fd[k]])
        BY <1>3 DEF IInv, TypeOK, Reports, Counted, Left, Entry
    <2>2. \A k \in Left(1) : fd[k] \in Fd /\ k # e /\ fd[k] # n
        BY <1>2, <1>6, <1>8, <2>1
    <2>3. \A k \in Left(1) : fd'[k] = fd[k] /\ conn'[fd[k]] = conn[fd[k]]
        BY <1>7, <2>1, <2>2
    <2>4. \A k \in Left(1) : (fd[k] # NoFd /\ Readable(conn[fd[k]]))'
        BY <1>3, <2>1, <2>3 DEF Readable
    <2> QED BY <1>3, <2>4, AcceptedKeeps DEF Register
<1>11. TypeOK'
    <2>1. NetworkTypeOK'
        BY <1>3, <1>5, <1>6 DEF IInv, TypeOK, NetworkTypeOK
    <2> QED BY <1>3, <1>4, <1>6, <1>10, <2>1 DEF IInv, TypeOK
<1>12. Places'
    <2>1. \A f \in Fd : conn'[f] # NoClient => life'[conn'[f]] = "open"
        BY <1>3, <1>5, <1>6, <1>7, <1>9 DEF IInv, Places
    <2>2. \A f, g \in Fd : conn'[f] = conn'[g] /\ conn'[f] # NoClient => f = g
        BY <1>7, <1>9 DEF IInv, Places
    <2>3. \A k \in 1 .. Len(backlog') : k + 1 \in 1 .. Len(backlog)
        BY <1>3, <1>5
    <2>4. \A k \in 1 .. Len(backlog') :
             /\ backlog'[k] = backlog[k + 1] /\ backlog'[k] # c
             /\ backlog'[k] \in Client
        BY <1>3, <1>5, <2>3 DEF IInv, Places
    <2>5. \A k \in 1 .. Len(backlog') : life'[backlog'[k]] = "queued"
        BY <1>3, <1>6, <2>3, <2>4 DEF IInv, Places
    <2>6. \A j, k \in 1 .. Len(backlog') : backlog'[j] = backlog'[k] => j = k
        BY <1>5, <2>3, <2>4 DEF IInv, Places
    <2> QED BY <2>1, <2>2, <2>5, <2>6 DEF Places
<1>13. Inboxes'
    BY <1>3 DEF IInv, Inboxes
<1>14. Entries'
    <2>1. \A k \in Entry : fd'[k] # NoFd => conn'[fd'[k]] # NoClient
        BY <1>5, <1>6, <1>7, <1>8 DEF IInv, Entries
    <2>2. \A k, l \in Entry : fd'[k] = fd'[l] /\ fd'[k] # NoFd => k = l
        BY <1>7, <1>8 DEF IInv, Entries
    <2>3. \A f \in Fd : conn'[f] # NoClient => \E k \in Entry : fd'[k] = f
        <3> SUFFICES ASSUME NEW f \in Fd, conn'[f] # NoClient
                     PROVE  \E k \in Entry : fd'[k] = f
            OBVIOUS
        <3>1. CASE f = n
            BY <3>1, <1>7
        <3>2. CASE f # n
            <4>1. PICK k \in Entry : fd[k] = f
                BY <3>2, <1>7 DEF IInv, Entries
            <4>2. k # e
                BY <4>1, <1>2
            <4> QED BY <4>1, <4>2, <1>7
        <3> QED BY <3>1, <3>2
    <2> QED BY <2>1, <2>2, <2>3 DEF Entries
<1> QED BY <1>10, <1>11, <1>12, <1>13, <1>14 DEF IInv

LEMMA AcceptFailsKeeps == IInv /\ AcceptFails => IInv'
<1> SUFFICES ASSUME IInv, AcceptFails PROVE IInv'
    OBVIOUS
<1>1. /\ UNCHANGED <<network, fd, revents, i>> /\ pc = "accept" /\ Accepted
      /\ failures' \in 0 .. MaxFailures
    BY Constants DEF AcceptFails, IInv, TypeOK
<1>2. \A k \in Left(1) : (fd[k] # NoFd /\ Readable(conn[fd[k]]))'
    BY <1>1 DEF IInv, Reports, Counted, Readable, network
<1>3. /\ Reports' /\ Counted'
      /\ pc' \in {"poll", "scan"} /\ ready_number' \in 0 .. INIT_SIZE
    BY <1>1, <1>2, AcceptedKeeps
<1>4. TypeOK'
    <2>1. NetworkTypeOK'
        BY <1>1 DEF IInv, TypeOK, NetworkTypeOK, network
    <2> QED BY <1>1, <1>3, <2>1 DEF IInv, TypeOK
<1>5. Places' /\ Inboxes' /\ Entries'
    BY <1>1 DEF IInv, Places, Inboxes, Entries, network
<1> QED BY <1>3, <1>4, <1>5 DEF IInv

\* TableFull, WriteFails and ReadFails: the server ends, and touches nothing.
LEMMA ExitKeeps ==
    ASSUME IInv, pc' = "exit",
           UNCHANGED <<network, fd, revents, ready_number, i, failures>>
    PROVE  IInv'
<1>1. TypeOK'
    <2>1. NetworkTypeOK'
        BY DEF IInv, TypeOK, NetworkTypeOK, network
    <2> QED BY <2>1 DEF IInv, TypeOK
<1>2. Places' /\ Inboxes' /\ Entries'
    BY DEF IInv, Places, Inboxes, Entries, network
<1>3. Reports' /\ Counted'
    BY DEF Reports, Counted
<1> QED BY <1>1, <1>2, <1>3 DEF IInv

----------------------------------------------------------------------------
(* The connections                                                         *)

\* The entries that are left have descriptors and connections of their own.
LEMMA OthersDiffer ==
    ASSUME IInv, i \in Entry, fd[i] # NoFd,
           NEW k \in Left(i + 1), fd[k] # NoFd
    PROVE  /\ k \in Entry /\ fd[k] \in Fd /\ fd[k] # fd[i] /\ fd[i] \in Fd
           /\ conn[fd[k]] \in Client /\ conn[fd[i]] \in Client
           /\ conn[fd[k]] # conn[fd[i]]
<1>1. k \in Entry /\ k # i
    BY DEF IInv, TypeOK, Left, Entry
<1>2. fd[k] \in Fd /\ fd[i] \in Fd /\ fd[k] # fd[i]
    BY <1>1 DEF IInv, TypeOK, Entries
<1>3. conn[fd[k]] # NoClient /\ conn[fd[i]] # NoClient
    BY <1>1 DEF IInv, Entries
<1> QED BY <1>1, <1>2, <1>3 DEF IInv, TypeOK, NetworkTypeOK, Places

LEMMA SkipKeeps == IInv /\ Skip => IInv'
<1> SUFFICES ASSUME IInv, Skip PROVE IInv'
    OBVIOUS
<1>1. /\ UNCHANGED <<network, fd, revents, failures>> /\ pc = "scan"
      /\ NextEntry(ready_number) /\ i \in Entry
    BY DEF Skip, IInv, TypeOK
<1>2. TypeOK /\ ready_number = Cardinality(Left(i + 1))
    <2>1. i \in revents => i \in Left(i)
        BY <1>1 DEF Left, Entry
    <2>2. i \notin revents
        BY <2>1 DEF Skip, IInv, Reports
    <2> QED BY <1>1, <2>2, LeftStep DEF IInv, Counted
<1>3. \A k \in Left(i + 1) : (fd[k] # NoFd /\ Readable(conn[fd[k]]))'
    BY <1>1, <1>2, LeftStep DEF IInv, Reports, Readable, network
<1>4. /\ Reports' /\ Counted'
      /\ pc' \in {"poll", "scan"} /\ i' \in Entry /\ ready_number' \in 0 .. INIT_SIZE
    BY <1>1, <1>2, <1>3, NextEntryKeeps
<1>5. TypeOK'
    <2>1. NetworkTypeOK'
        BY <1>1 DEF IInv, TypeOK, NetworkTypeOK, network
    <2> QED BY <1>1, <1>4, <2>1 DEF IInv, TypeOK
<1>6. Places' /\ Inboxes' /\ Entries'
    BY <1>1 DEF IInv, Places, Inboxes, Entries, network
<1> QED BY <1>4, <1>5, <1>6 DEF IInv

LEMMA ReadKeeps == IInv /\ Read => IInv'
<1> SUFFICES ASSUME IInv, Read PROVE IInv'
    OBVIOUS
<1> DEFINE c == conn[fd[i]]
<1>1. /\ pc = "scan" /\ fd[i] # NoFd /\ i \in revents /\ i \in Entry /\ pc' = "write"
      /\ inbox' = [inbox EXCEPT ![c] = @ - 1] /\ inbox[c] > 0
      /\ UNCHANGED <<backlog, conn, life, sent, unread, end>>
      /\ UNCHANGED <<fd, revents, ready_number, i, failures>>
    BY DEF Read, Serving, read, IInv, TypeOK
<1>2. c \in Client
    BY <1>1 DEF IInv, TypeOK, NetworkTypeOK, Entries
<1> HIDE DEF c
<1>3. inbox \in [Client -> 0 .. MaxSent] /\ MaxSent \in Nat
    BY Constants DEF IInv, TypeOK, NetworkTypeOK
<1>4. TypeOK'
    <2>1. inbox[c] - 1 \in 0 .. MaxSent
        BY <1>1, <1>2, <1>3
    <2>2. NetworkTypeOK'
        BY <1>1, <1>2, <1>3, <2>1 DEF IInv, TypeOK, NetworkTypeOK
    <2> QED BY <1>1, <2>2 DEF IInv, TypeOK
<1>5. Places' /\ Entries'
    BY <1>1 DEF IInv, Places, Entries
<1>6. Inboxes'
    <2>1. sent \in Nat
        BY DEF IInv, TypeOK, NetworkTypeOK
    <2> QED BY <1>1, <1>2, <1>3, <2>1 DEF IInv, Inboxes
<1>7. Reports'
    <2>1. Left(i + 1)' = Left(i + 1)
        BY <1>1 DEF Left
    <2>2. \A k \in Left(i + 1) : fd[k] # NoFd /\ Readable(conn[fd[k]])
        BY <1>1, LeftStep DEF IInv, Reports
    <2>3. \A k \in Left(i + 1) : conn[fd[k]] \in Client /\ conn[fd[k]] # c
        BY <1>1, <2>2, OthersDiffer DEF c
    <2>4. \A k \in Left(i + 1) : Readable(conn[fd[k]])'
        BY <1>1, <1>3, <2>2, <2>3 DEF Readable
    <2> QED BY <1>1, <2>1, <2>2, <2>4 DEF Reports
<1>8. Counted'
    BY <1>1 DEF IInv, Counted, Left
<1> QED BY <1>4, <1>5, <1>6, <1>7, <1>8 DEF IInv

LEMMA WriteKeeps == IInv /\ Write => IInv'
<1> SUFFICES ASSUME IInv, Write PROVE IInv'
    OBVIOUS
<1> DEFINE c == conn[fd[i]]
<1>1. /\ pc = "write" /\ fd[i] # NoFd /\ i \in revents /\ i \in Entry
      /\ unread' = [unread EXCEPT ![c] = @ + 1] /\ unread[c] < SNDBUF
      /\ UNCHANGED <<backlog, conn, life, sent, inbox, end>>
      /\ UNCHANGED <<fd, revents, failures>> /\ NextEntry(ready_number - 1)
    BY DEF Write, write, Writable, IInv, TypeOK, Reports
<1> HIDE DEF c
<1>2. ready_number - 1 = Cardinality(Left(i + 1))
    BY <1>1, LeftStep DEF IInv, Counted
<1>3. \A k \in Left(i + 1) : (fd[k] # NoFd /\ Readable(conn[fd[k]]))'
    BY <1>1 DEF IInv, Reports, Readable
<1>4. /\ Reports' /\ Counted'
      /\ pc' \in {"poll", "scan"} /\ i' \in Entry /\ ready_number' \in 0 .. INIT_SIZE
    BY <1>1, <1>2, <1>3, NextEntryKeeps DEF IInv
<1>5. TypeOK'
    <2>1. /\ unread \in [Client -> 0 .. SNDBUF]
          /\ c \in Client => unread[c] + 1 \in 0 .. SNDBUF
        BY <1>1, Constants DEF IInv, TypeOK, NetworkTypeOK
    <2>2. unread' \in [Client -> 0 .. SNDBUF]
        BY <1>1, <2>1
    <2>3. NetworkTypeOK'
        BY <1>1, <2>2 DEF IInv, TypeOK, NetworkTypeOK
    <2> QED BY <1>1, <1>4, <2>3 DEF IInv, TypeOK
<1>6. Places' /\ Inboxes' /\ Entries'
    BY <1>1 DEF IInv, Places, Inboxes, Entries
<1> QED BY <1>4, <1>5, <1>6 DEF IInv

LEMMA CloseKeeps == IInv /\ Close => IInv'
<1> SUFFICES ASSUME IInv, Close PROVE IInv'
    OBVIOUS
<1> DEFINE n == fd[i]
           c == conn[n]
<1>1. /\ pc = "scan" /\ n # NoFd /\ i \in revents /\ i \in Entry
      /\ conn' = [conn EXCEPT ![n] = NoClient]
      /\ life' = [life EXCEPT ![c] = "closed"]
      /\ fd' = [fd EXCEPT ![i] = NoFd]
      /\ UNCHANGED <<backlog, sent, inbox, unread, end>>
      /\ UNCHANGED <<revents, failures>> /\ NextEntry(ready_number - 1)
    BY DEF Close, Serving, close, IInv, TypeOK
<1>2. /\ conn \in [Fd -> Client \cup {NoClient}] /\ fd \in [Entry -> Fd \cup {NoFd}]
      /\ life \in [Client -> {"new", "queued", "open", "closed"}]
    BY DEF IInv, TypeOK, NetworkTypeOK
<1>3. n \in Fd /\ c \in Client /\ c # NoClient /\ life[c] = "open"
    BY <1>1, <1>2, Constants DEF IInv, Entries, Places
<1>4. /\ \A k \in Entry : k # i => fd'[k] = fd[k] /\ (fd[k] # NoFd => fd[k] # n)
      /\ fd'[i] = NoFd
    BY <1>1, <1>2 DEF IInv, Entries
<1>5. /\ \A f \in Fd : f # n => conn'[f] = conn[f] /\ conn[f] # c
      /\ conn'[n] = NoClient
    BY <1>1, <1>2, <1>3 DEF IInv, Places
<1>6. ready_number - 1 = Cardinality(Left(i + 1))
    BY <1>1, LeftStep DEF IInv, Counted
<1>7. \A k \in Left(i + 1) : (fd[k] # NoFd /\ Readable(conn[fd[k]]))'
    <2> SUFFICES ASSUME NEW k \in Left(i + 1)
                 PROVE  fd'[k] # NoFd /\ Readable(conn[fd[k]])'
        OBVIOUS
    <2>1. fd[k] # NoFd /\ Readable(conn[fd[k]])
        BY <1>1, LeftStep DEF IInv, Reports
    <2>2. k \in Entry /\ k # i /\ fd[k] \in Fd /\ fd[k] # n
        BY <1>1, <2>1, LeftStep, OthersDiffer DEF IInv
    <2>3. fd'[k] = fd[k] /\ conn'[fd[k]] = conn[fd[k]]
        BY <1>4, <1>5, <2>2
    <2> QED BY <1>1, <2>1, <2>3 DEF Readable
<1>8. /\ Reports' /\ Counted'
      /\ pc' \in {"poll", "scan"} /\ i' \in Entry /\ ready_number' \in 0 .. INIT_SIZE
    BY <1>1, <1>6, <1>7, NextEntryKeeps DEF IInv
<1> HIDE DEF n, c
<1>9. TypeOK'
    <2>1. NetworkTypeOK'
        BY <1>1, <1>2 DEF IInv, TypeOK, NetworkTypeOK
    <2> QED BY <1>1, <1>2, <1>8, <2>1 DEF IInv, TypeOK
<1>10. Places'
    <2>1. \A f \in Fd : conn'[f] # NoClient =>
             f # n /\ conn'[f] = conn[f] /\ conn[f] # c
        BY <1>5
    <2>2. \A f \in Fd : conn'[f] # NoClient => life'[conn'[f]] = "open"
        BY <1>1, <1>2, <2>1 DEF IInv, Places
    <2>3. \A f, g \in Fd : conn'[f] = conn'[g] /\ conn'[f] # NoClient => f = g
        BY <2>1 DEF IInv, Places
    <2>4. \A k \in 1 .. Len(backlog) : backlog[k] \in Client /\ backlog[k] # c
        BY <1>3 DEF IInv, TypeOK, NetworkTypeOK, Places
    <2>5. \A k \in 1 .. Len(backlog') : life'[backlog'[k]] = "queued"
        BY <1>1, <1>2, <2>4 DEF IInv, Places
    <2>6. \A j, k \in 1 .. Len(backlog') : backlog'[j] = backlog'[k] => j = k
        BY <1>1 DEF IInv, Places
    <2> QED BY <2>2, <2>3, <2>5, <2>6 DEF Places
<1>11. Inboxes'
    BY <1>1 DEF IInv, Inboxes
<1>12. Entries'
    <2>1. \A k \in Entry : fd'[k] # NoFd =>
             k # i /\ fd'[k] = fd[k] /\ fd[k] \in Fd /\ fd[k] # n
        BY <1>2, <1>4
    <2>2. \A k \in Entry : fd'[k] # NoFd => conn'[fd'[k]] # NoClient
        BY <1>5, <2>1 DEF IInv, Entries
    <2>3. \A k, l \in Entry : fd'[k] = fd'[l] /\ fd'[k] # NoFd => k = l
        BY <2>1 DEF IInv, Entries
    <2>4. \A f \in Fd : conn'[f] # NoClient => \E k \in Entry : fd'[k] = f
        <3> SUFFICES ASSUME NEW f \in Fd, conn'[f] # NoClient
                     PROVE  \E k \in Entry : fd'[k] = f
            OBVIOUS
        <3>1. f # n /\ conn[f] # NoClient
            BY <1>5
        <3>2. PICK k \in Entry : fd[k] = f
            BY <3>1 DEF IInv, Entries
        <3>3. k # i
            BY <3>1, <3>2 DEF n
        <3> QED BY <1>4, <3>2, <3>3
    <2> QED BY <2>2, <2>3, <2>4 DEF Entries
<1> QED BY <1>8, <1>9, <1>10, <1>11, <1>12 DEF IInv

----------------------------------------------------------------------------
(* The clients                                                             *)

\* A client adds to what can be read and to the queue, and takes nothing away.
LEMMA ClientsAdd ==
    ASSUME IInv, UNCHANGED <<conn, server>>, backlog # <<>> => backlog' # <<>>,
           \A c \in Client : Readable(c) => Readable(c)'
    PROVE  Entries' /\ Reports' /\ Counted'
<1>1. \A k \in Entry : fd[k] # NoFd => conn[fd[k]] \in Client
    BY DEF IInv, TypeOK, NetworkTypeOK, Entries
<1>2. UNCHANGED <<pc, fd, revents, ready_number, i>> /\ i \in Nat /\ i > 0
    BY DEF server, IInv, TypeOK, Entry
<1>3. \A n \in Nat : Left(n)' = Left(n) /\ Left(n) \subseteq Entry
    <2>1. \A n : Left(n)' = Left(n)
        BY <1>2 DEF Left
    <2>2. \A k \in revents : k > 0 => k \in Entry
        BY Constants DEF IInv, TypeOK, Entry
    <2> QED BY <2>1, <2>2 DEF Left
<1>4. \A k \in Entry : fd[k] # NoFd /\ Readable(conn[fd[k]]) =>
                          (fd[k] # NoFd /\ Readable(conn[fd[k]]))'
    BY <1>1, <1>2 DEF Readable
<1>5. Entries'
    BY <1>2 DEF IInv, Entries
<1>6. Reports'
    BY <1>2, <1>3, <1>4 DEF IInv, Reports
<1>7. Counted'
    BY <1>2, <1>3 DEF IInv, Counted
<1> QED BY <1>5, <1>6, <1>7

LEMMA ConnectKeeps ==
    ASSUME NEW c \in Client, IInv, Connect(c), UNCHANGED server PROVE IInv'
<1>1. /\ life[c] = "new" /\ life' = [life EXCEPT ![c] = "queued"]
      /\ backlog' = Append(backlog, c)
      /\ UNCHANGED <<conn, sent, inbox, unread, end>>
      /\ UNCHANGED <<pc, fd, revents, ready_number, i, failures>>
    BY DEF Connect, server
<1>2. /\ Len(backlog) \in Nat /\ Len(backlog') = Len(backlog) + 1
      /\ backlog' \in Seq(Client) /\ backlog' # <<>>
      /\ backlog'[Len(backlog) + 1] = c
      /\ \A k \in 1 .. Len(backlog) : backlog'[k] = backlog[k]
    <2>1. backlog \in Seq(Client) /\ backlog' = Append(backlog, c)
        BY <1>1 DEF IInv, TypeOK, NetworkTypeOK
    <2> QED BY <2>1
<1>3. /\ conn \in [Fd -> Client \cup {NoClient}] /\ NoClient \notin Client
      /\ life \in [Client -> {"new", "queued", "open", "closed"}]
      /\ \A k \in 1 .. Len(backlog) : backlog[k] \in Client
    BY Constants DEF IInv, TypeOK, NetworkTypeOK
<1>4. TypeOK'
    <2>1. NetworkTypeOK'
        BY <1>1, <1>2 DEF IInv, TypeOK, NetworkTypeOK
    <2> QED BY <1>1, <2>1 DEF IInv, TypeOK
<1>5. Places'
    <2>1. \A k \in 1 .. Len(backlog') :
             \/ k \in 1 .. Len(backlog) /\ backlog'[k] = backlog[k]
             \/ k = Len(backlog) + 1 /\ backlog'[k] = c
        BY <1>2
    <2>2. \A k \in 1 .. Len(backlog) : backlog[k] # c
        BY <1>1 DEF IInv, Places
    <2>3. \A f \in Fd : conn[f] # c
        BY <1>1, <1>3 DEF IInv, Places
    <2>4. \A f \in Fd : conn'[f] # NoClient => life'[conn'[f]] = "open"
        BY <1>1, <1>3, <2>3 DEF IInv, Places
    <2>5. \A f, g \in Fd : conn'[f] = conn'[g] /\ conn'[f] # NoClient => f = g
        BY <1>1 DEF IInv, Places
    <2>6. \A k \in 1 .. Len(backlog') : life'[backlog'[k]] = "queued"
        BY <1>1, <1>3, <2>1, <2>2 DEF IInv, Places
    <2>7. \A j, k \in 1 .. Len(backlog') : backlog'[j] = backlog'[k] => j = k
        BY <2>1, <2>2 DEF IInv, Places
    <2> QED BY <2>4, <2>5, <2>6, <2>7 DEF Places
<1>6. Inboxes'
    BY <1>1 DEF IInv, Inboxes
<1>7. Entries' /\ Reports' /\ Counted'
    BY <1>1, <1>2, ClientsAdd DEF Readable
<1> QED BY <1>4, <1>5, <1>6, <1>7 DEF IInv

LEMMA SendKeeps ==
    ASSUME NEW c \in Client, IInv, Send(c), UNCHANGED server PROVE IInv'
<1>1. /\ sent < MaxSent /\ sent' = sent + 1
      /\ inbox' = [inbox EXCEPT ![c] = @ + 1]
      /\ UNCHANGED <<backlog, conn, life, unread, end>>
      /\ UNCHANGED <<pc, fd, revents, ready_number, i, failures>>
    BY DEF Send, server
<1>2. inbox \in [Client -> 0 .. MaxSent] /\ sent \in Nat /\ MaxSent \in Nat
    BY Constants DEF IInv, TypeOK, NetworkTypeOK
<1>3. inbox[c] + 1 \in 0 .. MaxSent
    BY <1>1, <1>2 DEF IInv, Inboxes
<1>4. TypeOK'
    <2>1. NetworkTypeOK'
        BY <1>1, <1>2, <1>3 DEF IInv, TypeOK, NetworkTypeOK
    <2> QED BY <1>1, <2>1 DEF IInv, TypeOK
<1>5. Places'
    BY <1>1 DEF IInv, Places
<1>6. Inboxes'
    BY <1>1, <1>2 DEF IInv, Inboxes
<1>7. \A d \in Client : Readable(d) => Readable(d)'
    BY <1>1, <1>2 DEF Readable
<1>8. Entries' /\ Reports' /\ Counted'
    BY <1>1, <1>7, ClientsAdd
<1> QED BY <1>4, <1>5, <1>6, <1>8 DEF IInv

\* Finish and BreakDown.
LEMMA EndKeeps ==
    ASSUME NEW c \in Client, NEW e \in {"fin", "broken"}, IInv,
           end' = [end EXCEPT ![c] = e],
           UNCHANGED <<backlog, conn, life, sent, inbox, unread, server>>
    PROVE  IInv'
<1>1. UNCHANGED <<pc, fd, revents, ready_number, i, failures>>
    BY DEF server
<1>2. TypeOK'
    <2>1. NetworkTypeOK'
        BY DEF IInv, TypeOK, NetworkTypeOK
    <2> QED BY <1>1, <2>1 DEF IInv, TypeOK
<1>3. Places' /\ Inboxes'
    BY DEF IInv, Places, Inboxes
<1>4. \A d \in Client : Readable(d) => Readable(d)'
    BY DEF IInv, TypeOK, NetworkTypeOK, Readable
<1>5. Entries' /\ Reports' /\ Counted'
    BY <1>4, ClientsAdd
<1> QED BY <1>2, <1>3, <1>5 DEF IInv

LEMMA DrainKeeps ==
    ASSUME NEW c \in Client, IInv, Drain(c), UNCHANGED server PROVE IInv'
<1>1. /\ unread[c] > 0 /\ unread' = [unread EXCEPT ![c] = @ - 1]
      /\ UNCHANGED <<backlog, conn, life, sent, inbox, end>>
      /\ UNCHANGED <<pc, fd, revents, ready_number, i, failures>>
    BY DEF Drain, server
<1>2. TypeOK'
    <2>1. unread' \in [Client -> 0 .. SNDBUF]
        BY <1>1, Constants DEF IInv, TypeOK, NetworkTypeOK
    <2>2. NetworkTypeOK'
        BY <1>1, <2>1 DEF IInv, TypeOK, NetworkTypeOK
    <2> QED BY <1>1, <2>2 DEF IInv, TypeOK
<1>3. Places' /\ Inboxes'
    BY <1>1 DEF IInv, Places, Inboxes
<1>4. Entries' /\ Reports' /\ Counted'
    BY <1>1, ClientsAdd DEF Readable
<1> QED BY <1>2, <1>3, <1>4 DEF IInv

----------------------------------------------------------------------------
THEOREM Inductive == Spec => []IInv
<1>1. Init => IInv
    BY InitHolds
<1>2. IInv /\ [Next]_vars => IInv'
    <2> SUFFICES ASSUME IInv, [Next]_vars PROVE IInv'
        OBVIOUS
    <2>1. CASE ServerStep
        BY <2>1, PollKeeps, RegisterKeeps, AcceptFailsKeeps, SkipKeeps, ReadKeeps,
           WriteKeeps, CloseKeeps, ExitKeeps
        DEF ServerStep, TableFull, WriteFails, ReadFails
    <2>2. ASSUME NEW c \in Client, ClientStep(c), UNCHANGED server PROVE IInv'
        BY <2>2, ConnectKeeps, SendKeeps, EndKeeps, DrainKeeps
        DEF ClientStep, Finish, BreakDown
    <2>3. CASE UNCHANGED vars
        <3>1. UNCHANGED <<backlog, conn, life, sent, inbox, unread, end>>
            BY <2>3 DEF vars, network
        <3>2. UNCHANGED <<pc, fd, revents, ready_number, i, failures>>
            BY <2>3 DEF vars, server
        <3>3. TypeOK'
            BY <3>1, <3>2 DEF IInv, TypeOK, NetworkTypeOK
        <3>4. Places' /\ Inboxes'
            BY <3>1 DEF IInv, Places, Inboxes
        <3>5. Entries' /\ Reports' /\ Counted'
            BY <2>3, <3>1, ClientsAdd DEF vars, Readable
        <3> QED BY <3>3, <3>4, <3>5 DEF IInv
    <2> QED BY <2>1, <2>2, <2>3 DEF Next
<1> QED BY <1>1, <1>2, PTL DEF Spec

\* Every variable of the server and of its connections keeps its type: the
\* index stays inside event_set, and ready_number at or above zero.
THEOREM TypeCorrect == Spec => []TypeOK
<1>1. IInv => TypeOK
    BY DEF IInv
<1> QED BY <1>1, Inductive, PTL

\* event_set and the descriptor table agree, for any table and any clients
\* (lines 82 to 92 and 110 to 112): no entry keeps a closed descriptor, no
\* connection is lost from the table or in it twice.
THEOREM EntriesAreConnectionsHolds == Spec => []EntriesAreConnections
<1>1. ASSUME IInv PROVE EntriesAreConnections
    <2> SUFFICES ASSUME NEW f \in Fd
                 PROVE  Cardinality({k \in Entry : fd[k] = f}) =
                           IF conn[f] = NoClient THEN 0 ELSE 1
        BY DEF EntriesAreConnections
    <2>1. CASE conn[f] = NoClient
        <3>1. \A k \in Entry : fd[k] # f
            <4>1. \A k \in Entry : fd[k] # NoFd => conn[fd[k]] # NoClient
                BY <1>1 DEF IInv, Entries
            <4>2. f # NoFd
                BY Constants
            <4> QED BY <2>1, <4>1, <4>2
        <3>2. {k \in Entry : fd[k] = f} = {}
            BY <3>1
        <3> QED BY <2>1, <3>2, FS_EmptySet
    <2>2. CASE conn[f] # NoClient
        <3>1. PICK k \in Entry : fd[k] = f
            BY <1>1, <2>2 DEF IInv, Entries
        <3>2. {l \in Entry : fd[l] = f} = {k}
            BY <1>1, <3>1, Constants DEF IInv, Entries
        <3> QED BY <2>2, <3>2, FS_Singleton
    <2> QED BY <2>1, <2>2
<1> QED BY <1>1, Inductive, PTL

\* Lines 95 and 117: the count behind the early break is right at every entry.
THEOREM ReadyNumberCountsHolds == Spec => []ReadyNumberCounts
<1>1. IInv => ReadyNumberCounts
    BY DEF IInv, Counted, Left, ReadyNumberCounts
<1> QED BY <1>1, Inductive, PTL

\* The sockets block (there is no O_NONBLOCK), but accept and read do not:
\* what poll has reported is still there when the server comes to it.
THEOREM NothingBlocksHolds == Spec => []NothingBlocks
<1>1. ASSUME IInv PROVE NothingBlocks
    <2>1. pc = "accept" => backlog # <<>>
        BY <1>1 DEF IInv, Counted
    <2>2. Serving => i \in Left(i)
        BY <1>1 DEF IInv, TypeOK, Serving, Left, Entry
    <2>3. Serving => Readable(conn[fd[i]])
        BY <1>1, <2>2 DEF IInv, Reports, Serving
    <2> QED BY <2>1, <2>3 DEF NothingBlocks
<1> QED BY <1>1, Inductive, PTL

====
