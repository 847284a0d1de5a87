---- MODULE SemClockProofs ----
(***************************************************************************)
(* The semaphores of the clock server keep readers and writers apart, for  *)
(* any number of servers and clients, until one of the three disturbances. *)
(***************************************************************************)
EXTENDS SemClock, FiniteSetTheorems, TLAPS

\* The processes counted on semaphore k.
Counted(k) == {p \in Process : Holds(p) /\ Own(p) = k}

\* A set belongs to the server that made it; a process has one between semget
\* and its end, and a segment from its first call on.
Belongs ==
    /\ \A s, t \in Server : mySem[s] = mySem[t] /\ mySem[s] # 0 => s = t
    /\ \A s \in Server : pc[s] \in {"start", "attached", "exited"} <=> mySem[s] = 0
    /\ \A c \in Client : pc[c] \in {"start", "attached", "exited"} => mySem[c] = 0
    /\ \A p \in Process : pc[p] \in {"start", "exited"} => mySeg[p] = 0
    /\ \A p \in Process : pc[p] \notin {"start", "exited"} => mySeg[p] # 0
    /\ \A c \in Client : pc[c] # "tearing"
    /\ \A s \in Server : Holds(s) => n[s] < ITERATIONS

\* What the kernel will undo: a server's lock, while it has it.
Undos ==
    /\ \A s \in Server : undo[s] = IF Holds(s) THEN -1 ELSE 0
    /\ \A c \in Client : undo[c] \in
          IF Holds(c) THEN {-1, 0} ELSE IF pc[c] = "leaving" THEN {0, 1} ELSE {0}

\* Who holds the lock holds it on the current set,
HoldersValid == \A p \in Process : Holds(p) => Valid(p)

\* the values count the holders,
Counts == semset # 0 => \A k \in 0 .. 1 : val[k] = Cardinality(Counted(k))

\* the kernel would take back exactly their locks,
UndoExact == \A p \in Process : undo[p] = IF Holds(p) THEN -1 ELSE 0

\* a writer is alone,
Alone == \A s \in Server, p \in Process : Holds(s) /\ Holds(p) => p = s

\* and a half-written text is being written.
TornIsOwned ==
    \A g \in 1 .. segs : text[g] = "torn" => \E s \in Server : pc[s] = "tearing" /\ mySeg[s] = g

\* All of it, until a disturbance.
Orderly == HoldersValid /\ Counts /\ UndoExact /\ Alone /\ TornIsOwned
Undisturbed == ~disturbed => Orderly

IInv == TypeOK /\ Belongs /\ Undos /\ Undisturbed

----------------------------------------------------------------------------
(* The steps, sorted by what they do to the lock                           *)

\* A process ends by itself: it does not hold the lock, or not on a set that
\* still exists.
Quits(p) ==
    /\ pc[p] \in {"attached", "idle", "done", "leaving"}
    /\ pc[p] = "done" => ~Valid(p)
    /\ Ends(p)
    /\ UNCHANGED history

LEMMA Steps ==
  ASSUME Next
  PROVE  \/ \E p \in Process : Attach(p) \/ Quits(p) \/ Die(p)
         \/ \E s \in Server : \/ Create(s) \/ SetFirst(s) \/ SetSecond(s)
                              \/ ServerLock(s) \/ Tear(s) \/ Finish(s) \/ ServerRelease(s)
                              \/ Interrupt(s) \/ LoopEnds(s)
                              \/ RemoveSegment(s) \/ RemoveSemaphores(s)
         \/ \E c \in Client : Find(c) \/ Lock(c, "idle") \/ Display(c) \/ ClientRelease(c)
<1>1. ASSUME NEW p \in Process,
             SemopFails(p, "idle") \/ SemopFails(p, "done") \/ Leave(p) \/ CreateFails(p)
      PROVE  Quits(p)
  BY <1>1 DEF Quits, SemopFails, Leave, CreateFails
<1>2. Server \subseteq Process /\ Client \subseteq Process
  BY DEF Process
<1>3. QED BY <1>1, <1>2 DEF Next, ServerStep, ClientStep

LEMMA Finite == \A k : IsFiniteSet(Counted(k)) /\ Cardinality(Counted(k)) \in Nat
<1> SUFFICES ASSUME NEW k PROVE IsFiniteSet(Counted(k)) /\ Cardinality(Counted(k)) \in Nat
  OBVIOUS
<1>1. IsFiniteSet(Process)
  BY ConstantsAssumption, FS_Union DEF Process
<1>2. IsFiniteSet(Counted(k))
  BY <1>1, FS_Subset DEF Counted
<1>3. QED BY <1>2, FS_CardinalityType

\* The role of a process.
LEMMA Roles ==
  /\ \A p \in Process : Own(p) \in 0 .. 1 /\ Other(p) \in 0 .. 1 /\ Own(p) # Other(p)
  /\ \A s \in Server : s \in Process /\ Own(s) = 1 /\ Other(s) = 0 /\ s \notin Client
  /\ \A c \in Client : c \in Process /\ Own(c) = 0 /\ Other(c) = 1 /\ c \notin Server
  /\ \A p \in Process : p \in Server \/ p \in Client
  BY ConstantsAssumption DEF Process, Own, Other

LEMMA InitInv == Init => IInv
<1> SUFFICES ASSUME Init PROVE IInv
  OBVIOUS
<1> USE Roles DEF Init
<1>1. TypeOK
  <2>1. text \in [1 .. segs -> {"empty", "torn", "time"}]
    OBVIOUS
  <2>2. n \in [Server -> 0 .. ITERATIONS] /\ deaths \in 0 .. MaxDeaths
    BY ConstantsAssumption
  <2>3. pc \in [Process -> State] /\ irq \in [Process -> {"no", "shm", "sem"}]
    BY DEF State
  <2>4. QED BY <2>1, <2>2, <2>3 DEF TypeOK
<1>2. Belongs /\ Undos
  BY DEF Belongs, Undos, Holds
<1>3. Undisturbed
  BY DEF Undisturbed, Orderly, HoldersValid, Counts, UndoExact, Alone, TornIsOwned, Holds
<1>4. QED BY <1>1, <1>2, <1>3 DEF IInv

LEMMA FreedType ==
  ASSUME TypeOK, NEW key, NEW attached
  PROVE  Freed(key, attached) \in [1 .. segs -> {"empty", "torn", "time"}]
  BY DEF TypeOK, Freed

LEMMA TypeStep == IInv /\ [Next]_vars => TypeOK'
<1> SUFFICES ASSUME IInv, [Next]_vars PROVE TypeOK'
  OBVIOUS
<1> USE ConstantsAssumption, Roles DEF IInv, TypeOK, State, memory, semaphores, mine, history, Goes
<1>1. ASSUME NEW p \in Process, Ends(p), deaths' \in 0 .. MaxDeaths, disturbed' \in BOOLEAN
      PROVE  TypeOK'
  <2>1. val' \in [0 .. 1 -> Nat]
    <3>1. CASE Valid(p)
      <4>1. undo[p] \in {-1, 0, 1} /\ val[Own(p)] \in Nat
        OBVIOUS
      <4>2. PICK v : v = IF val[Own(p)] + undo[p] < 0 THEN 0 ELSE val[Own(p)] + undo[p]
        OBVIOUS
      <4>3. v \in Nat
        BY <4>1, <4>2
      <4>4. val' = [val EXCEPT ![Own(p)] = v]
        BY <1>1, <3>1, <4>2 DEF Ends, Undone
      <4>5. QED BY <4>3, <4>4
    <3>2. CASE ~Valid(p)
      BY <1>1, <3>2 DEF Ends, Undone
    <3>3. QED BY <3>1, <3>2
  <2>2. text' \in [1 .. segs -> {"empty", "torn", "time"}]
    BY <1>1, FreedType DEF Ends
  <2>3. n' \in [Server -> 0 .. ITERATIONS]
    BY <1>1 DEF Ends
  <2>4. pc' \in [Process -> State] /\ irq' \in [Process -> {"no", "shm", "sem"}]
    BY <1>1 DEF Ends
  <2>5. /\ mySeg' \in [Process -> 0 .. segs]
        /\ mySem' \in [Process -> 0 .. sems]
        /\ undo' \in [Process -> {-1, 0, 1}]
    BY <1>1 DEF Ends
  <2>6. QED BY <1>1, <2>1, <2>2, <2>3, <2>4, <2>5 DEF Ends
<1>2. ASSUME NEW p \in Process, Attach(p) PROVE TypeOK'
  <2>1. segs' \in Nat /\ segs <= segs' /\ seg' \in 0 .. segs'
    BY <1>2 DEF Attach
  <2>2. mySeg' \in [Process -> 0 .. segs']
    BY <1>2, <2>1 DEF Attach
  <2>3. text' \in [1 .. segs' -> {"empty", "torn", "time"}]
    BY <1>2 DEF Attach
  <2>4. QED BY <1>2, <2>1, <2>2, <2>3 DEF Attach
<1>3. ASSUME NEW p \in Process, Quits(p) PROVE TypeOK'
  BY <1>1, <1>3 DEF Quits
<1>4. ASSUME NEW p \in Process, Die(p) PROVE TypeOK'
  BY <1>1, <1>4 DEF Die
<1>5. ASSUME NEW s \in Server, Create(s) PROVE TypeOK'
  <2>1. sems' = sems + 1 /\ mySem' \in [Process -> 0 .. sems']
    BY <1>5 DEF Create
  <2>2. QED BY <1>5, <2>1 DEF Create
<1>6. ASSUME NEW s \in Server, NEW from, NEW k \in 0 .. 1, NEW to \in State,
             SetZero(s, from, k, to)
      PROVE  TypeOK'
  <2>1. val' \in [0 .. 1 -> Nat] /\ disturbed' \in BOOLEAN
    BY <1>6 DEF SetZero
  <2>2. undo' \in [Process -> {-1, 0, 1}]
    BY <1>6 DEF SetZero
  <2>3. pc' \in [Process -> State]
    BY <1>6 DEF SetZero
  <2>4. QED BY <1>6, <2>1, <2>2, <2>3 DEF SetZero
<1>7. ASSUME NEW p \in Process, Lock(p, "idle") PROVE TypeOK'
  <2>1. undo[p] = 0
    BY <1>7 DEF Lock, Undos, Holds
  <2>2. undo' \in [Process -> {-1, 0, 1}]
    BY <1>7, <2>1 DEF Lock
  <2>3. val' \in [0 .. 1 -> Nat]
    BY <1>7 DEF Lock
  <2>4. QED BY <1>7, <2>2, <2>3 DEF Lock
<1>8. ASSUME NEW s \in Server, Tear(s) \/ Finish(s) PROVE TypeOK'
  BY <1>8 DEF Tear, Finish
<1>9. ASSUME NEW p \in Process, NEW to \in State, Release(p, to), n' \in [Server -> 0 .. ITERATIONS]
      PROVE  TypeOK'
  <2>1. undo[p] \in {-1, 0}
    BY <1>9 DEF Release, Undos, Holds
  <2>2. val' \in [0 .. 1 -> Nat]
    BY <1>9 DEF Release
  <2>3. undo' \in [Process -> {-1, 0, 1}]
    BY <1>9, <2>1 DEF Release
  <2>4. QED BY <1>9, <2>2, <2>3 DEF Release
<1>10. ASSUME NEW s \in Server, ServerRelease(s) PROVE TypeOK'
  <2>1. n' \in [Server -> 0 .. ITERATIONS]
    BY <1>10 DEF ServerRelease, Release, Belongs, Holds
  <2>2. QED BY <1>9, <1>10, <2>1 DEF ServerRelease
<1>11. ASSUME NEW s \in Server, Interrupt(s) \/ LoopEnds(s) PROVE TypeOK'
  BY <1>11 DEF Interrupt, LoopEnds
<1>12. ASSUME NEW s \in Server, RemoveSegment(s) PROVE TypeOK'
  <2>1. text' \in [1 .. segs -> {"empty", "torn", "time"}]
    BY <1>12, FreedType DEF RemoveSegment
  <2>2. seg' \in 0 .. segs /\ irq' \in [Process -> {"no", "shm", "sem"}]
    BY <1>12 DEF RemoveSegment
  <2>3. QED BY <1>12, <2>1, <2>2 DEF RemoveSegment
<1>13. ASSUME NEW s \in Server, RemoveSemaphores(s) PROVE TypeOK'
  <2>1. semset' \in 0 .. sems /\ irq' \in [Process -> {"no", "shm", "sem"}] /\ disturbed' \in BOOLEAN
    BY <1>13 DEF RemoveSemaphores
  <2>2. QED BY <1>13, <2>1 DEF RemoveSemaphores
<1>14. ASSUME NEW c \in Client, Find(c) \/ Display(c) PROVE TypeOK'
  <2>1. CASE Find(c)
    BY <2>1 DEF Find
  <2>2. CASE Display(c)
    BY <2>2 DEF Display
  <2>3. QED BY <1>14, <2>1, <2>2
<1>15. ASSUME NEW c \in Client, ClientRelease(c) PROVE TypeOK'
  BY <1>9, <1>15 DEF ClientRelease
<1>16. CASE UNCHANGED vars
  BY <1>16 DEF vars
<1>17. QED
  BY <1>2, <1>3, <1>4, <1>5, <1>6, <1>7, <1>8, <1>10, <1>11, <1>12, <1>13, <1>14, <1>15, <1>16, Steps
  DEF ServerLock, SetFirst, SetSecond

LEMMA BelongsStep == IInv /\ [Next]_vars => Belongs' /\ Undos'
<1> SUFFICES ASSUME IInv, [Next]_vars PROVE Belongs' /\ Undos'
  OBVIOUS
<1> USE Roles DEF IInv, TypeOK, Belongs, Undos, Holds, memory, semaphores, mine, history, Goes
<1>1. ASSUME NEW p \in Process, Ends(p) PROVE Belongs' /\ Undos'
  <2>1. Belongs'
    BY <1>1 DEF Ends
  <2>2. Undos'
    BY <1>1 DEF Ends
  <2>3. QED BY <2>1, <2>2
<1>2. ASSUME NEW p \in Process, Attach(p) PROVE Belongs' /\ Undos'
  <2>1. Belongs'
    BY <1>2 DEF Attach
  <2>2. Undos'
    BY <1>2 DEF Attach
  <2>3. QED BY <2>1, <2>2
<1>3. ASSUME NEW s \in Server, Create(s) PROVE Belongs' /\ Undos'
  <2>1. Belongs'
    BY <1>3 DEF Create
  <2>2. Undos'
    BY <1>3 DEF Create
  <2>3. QED BY <2>1, <2>2
<1>4. ASSUME NEW s \in Server, SetFirst(s) \/ SetSecond(s) PROVE Belongs' /\ Undos'
  <2>1. \A t \in Server : t # s => ~(Valid(s) /\ Valid(t))
    BY DEF Valid
  <2>2. CASE SetFirst(s)
    <3>1. Belongs'
      BY <2>2 DEF SetFirst, SetZero
    <3>2. \A t \in Server : undo'[t] = undo[t]
      BY <2>2 DEF SetFirst, SetZero
    <3>3. \A c \in Client : undo'[c] \in {0, undo[c]}
      BY <2>2 DEF SetFirst, SetZero
    <3>4. Undos'
      BY <2>2, <3>2, <3>3 DEF SetFirst, SetZero
    <3>5. QED BY <3>1, <3>4
  <2>3. CASE SetSecond(s)
    <3>1. Belongs'
      BY <2>3 DEF SetSecond, SetZero
    <3>2. \A t \in Server : undo'[t] = IF t = s THEN 0 ELSE undo[t]
      BY <2>1, <2>3 DEF SetSecond, SetZero
    <3>3. \A c \in Client : undo'[c] = undo[c]
      BY <2>3 DEF SetSecond, SetZero
    <3>4. Undos'
      BY <2>3, <3>2, <3>3 DEF SetSecond, SetZero
    <3>5. QED BY <3>1, <3>4
  <2>4. QED BY <1>4, <2>2, <2>3
<1>5. ASSUME NEW s \in Server, ServerLock(s) PROVE Belongs' /\ Undos'
  <2>1. Belongs'
    BY <1>5 DEF ServerLock, Lock
  <2>2. Undos'
    BY <1>5 DEF ServerLock, Lock
  <2>3. QED BY <2>1, <2>2
<1>6. ASSUME NEW c \in Client, Lock(c, "idle") PROVE Belongs' /\ Undos'
  <2>1. Belongs'
    BY <1>6 DEF Lock
  <2>2. Undos'
    BY <1>6 DEF Lock
  <2>3. QED BY <2>1, <2>2
<1>7. ASSUME NEW s \in Server, Tear(s) \/ Finish(s) PROVE Belongs' /\ Undos'
  <2>1. PICK to : pc' = [pc EXCEPT ![s] = to] /\ to \in {"tearing", "done"}
    BY <1>7 DEF Tear, Finish
  <2>2. pc[s] \in {"in", "tearing"} /\ UNCHANGED <<mySem, mySeg, undo, n>>
    BY <1>7 DEF Tear, Finish
  <2>3. Belongs'
    BY <2>1, <2>2
  <2>4. Undos'
    BY <2>1, <2>2
  <2>5. QED BY <2>3, <2>4
<1>8. ASSUME NEW s \in Server, ServerRelease(s) PROVE Belongs' /\ Undos'
  <2>1. Belongs'
    BY <1>8 DEF ServerRelease, Release
  <2>2. Undos'
    BY <1>8 DEF ServerRelease, Release
  <2>3. QED BY <2>1, <2>2
<1>9. ASSUME NEW c \in Client, ClientRelease(c) PROVE Belongs' /\ Undos'
  <2>1. Belongs'
    BY <1>9 DEF ClientRelease, Release
  <2>2. undo[c] \in {-1, 0} /\ undo'[c] \in {0, 1}
    BY <1>9 DEF ClientRelease, Release
  <2>3. \A p \in Process : p # c => undo'[p] = undo[p] /\ pc'[p] = pc[p]
    BY <1>9 DEF ClientRelease, Release
  <2>4. pc'[c] = "leaving"
    BY <1>9 DEF ClientRelease, Release
  <2>5. Undos'
    <3>1. \A t \in Server : undo'[t] = IF Holds(t)' THEN -1 ELSE 0
      <4> TAKE t \in Server
      <4>1. undo'[t] = undo[t] /\ pc'[t] = pc[t] /\ undo[t] = IF Holds(t) THEN -1 ELSE 0
        BY <2>3
      <4>2. QED BY <4>1
    <3>2. \A d \in Client : undo'[d] \in
             IF Holds(d)' THEN {-1, 0} ELSE IF pc'[d] = "leaving" THEN {0, 1} ELSE {0}
      <4> TAKE d \in Client
      <4>1. CASE d = c
        BY <2>2, <2>4, <4>1
      <4>2. CASE d # c
        BY <2>3, <4>2
      <4>3. QED BY <4>1, <4>2
    <3>3. QED BY <3>1, <3>2
  <2>6. QED BY <2>1, <2>5
<1>10. ASSUME NEW s \in Server,
              Interrupt(s) \/ LoopEnds(s) \/ RemoveSegment(s) \/ RemoveSemaphores(s)
       PROVE  Belongs' /\ Undos'
  <2>1. CASE LoopEnds(s)
    BY <2>1 DEF LoopEnds
  <2>2. CASE Interrupt(s) \/ RemoveSegment(s) \/ RemoveSemaphores(s)
    <3>1. UNCHANGED <<pc, mySem, mySeg, undo, n>>
      BY <2>2 DEF Interrupt, RemoveSegment, RemoveSemaphores
    <3>2. QED BY <3>1
  <2>3. QED BY <1>10, <2>1, <2>2
<1>11. ASSUME NEW c \in Client, Find(c) \/ Display(c) PROVE Belongs' /\ Undos'
  <2>1. CASE Find(c)
    <3>1. Belongs'
      BY <2>1 DEF Find
    <3>2. Undos'
      BY <2>1 DEF Find
    <3>3. QED BY <3>1, <3>2
  <2>2. CASE Display(c)
    BY <2>2 DEF Display
  <2>3. QED BY <1>11, <2>1, <2>2
<1>12. CASE UNCHANGED vars
  BY <1>12 DEF vars
<1>13. QED
  BY <1>1, <1>2, <1>3, <1>4, <1>5, <1>6, <1>7, <1>8, <1>9, <1>10, <1>11, <1>12, Steps
  DEF Quits, Die

----------------------------------------------------------------------------
(* Counting                                                                *)

\* The number of holders does not change when nobody locks or releases.
LEMMA CountStays ==
  ASSUME \A p \in Process : Holds(p)' <=> Holds(p)
  PROVE  \A k : Counted(k)' = Counted(k)
  BY DEF Counted

\* One more process holds the lock.
LEMMA CountUp ==
  ASSUME NEW q \in Process, ~Holds(q), Holds(q)',
         \A p \in Process : p # q => (Holds(p)' <=> Holds(p))
  PROVE  \A k : Cardinality(Counted(k)') =
                IF k = Own(q) THEN Cardinality(Counted(k)) + 1 ELSE Cardinality(Counted(k))
<1> TAKE k
<1>1. CASE k = Own(q)
  <2>1. Counted(k)' = Counted(k) \cup {q} /\ q \notin Counted(k)
    BY <1>1 DEF Counted
  <2>2. QED BY <1>1, <2>1, Finite, FS_AddElement
<1>2. CASE k # Own(q)
  <2>1. Counted(k)' = Counted(k)
    BY <1>2 DEF Counted
  <2>2. QED BY <1>2, <2>1
<1>3. QED BY <1>1, <1>2

\* One process less holds the lock.
LEMMA CountDown ==
  ASSUME NEW q \in Process, Holds(q), ~Holds(q)',
         \A p \in Process : p # q => (Holds(p)' <=> Holds(p))
  PROVE  \A k : Cardinality(Counted(k)') =
                IF k = Own(q) THEN Cardinality(Counted(k)) - 1 ELSE Cardinality(Counted(k))
<1> TAKE k
<1>1. CASE k = Own(q)
  <2>1. Counted(k)' = Counted(k) \ {q} /\ q \in Counted(k)
    BY <1>1 DEF Counted
  <2>2. QED BY <1>1, <2>1, Finite, FS_RemoveElement
<1>2. CASE k # Own(q)
  <2>1. Counted(k)' = Counted(k)
    BY <1>2 DEF Counted
  <2>2. QED BY <1>2, <2>1
<1>3. QED BY <1>1, <1>2

\* A semaphore that is zero counts nobody.
LEMMA Nobody ==
  ASSUME NEW k, Cardinality(Counted(k)) = 0
  PROVE  \A p \in Process : Own(p) = k => ~Holds(p)
<1>1. Counted(k) = {}
  BY Finite, FS_EmptySet
<1>2. QED BY <1>1 DEF Counted

----------------------------------------------------------------------------
(* One lemma per kind of step                                              *)

\* Steps that touch neither the lock nor who holds it.
LEMMA QuietStep ==
  ASSUME Orderly,
         \A p \in Process : Holds(p)' <=> Holds(p),
         \A p \in Process : Holds(p) => mySem'[p] = mySem[p],
         UNCHANGED <<semset, val, undo>>,
         TornIsOwned'
  PROVE  Orderly'
<1>1. HoldersValid'
  BY DEF Orderly, HoldersValid, Valid
<1>2. Counts'
  BY CountStays DEF Orderly, Counts
<1>3. UndoExact'
  BY DEF Orderly, UndoExact
<1>4. Alone'
  BY Roles DEF Orderly, Alone
<1>5. QED BY <1>1, <1>2, <1>3, <1>4 DEF Orderly

\* An old segment is torn after a step only if it was before, and its writer
\* is still in strcpy.
LEMMA TornStays ==
  ASSUME TornIsOwned, segs' = segs,
         \A g \in 1 .. segs : text'[g] = "torn" => text[g] = "torn",
         \A s \in Server : pc[s] = "tearing" => pc'[s] = "tearing" /\ mySeg'[s] = mySeg[s]
  PROVE  TornIsOwned'
  BY DEF TornIsOwned

LEMMA FreedTorn ==
  ASSUME TypeOK, NEW key, NEW attached, NEW g \in 1 .. segs,
         Freed(key, attached)[g] = "torn"
  PROVE  text[g] = "torn"
  BY DEF TypeOK, Freed

LEMMA AttachStep ==
  ASSUME TypeOK, Orderly, NEW p \in Process, Attach(p) PROVE Orderly'
<1> USE Roles DEF TypeOK, Attach, Goes, memory, semaphores, mine, history
<1>1. TornIsOwned
  BY DEF Orderly
<1>2. \A q \in Process : Holds(q)' <=> Holds(q)
  BY DEF Holds
<1>3. \A s \in Server : pc[s] = "tearing" => pc'[s] = "tearing" /\ mySeg'[s] = mySeg[s]
  OBVIOUS
<1>4. \A g \in 1 .. segs' : text'[g] = "torn" => g \in 1 .. segs /\ text[g] = "torn"
  OBVIOUS
<1>5. TornIsOwned'
  BY <1>1, <1>3, <1>4 DEF TornIsOwned
<1>6. QED BY <1>2, <1>5, QuietStep

LEMMA EndStep ==
  ASSUME TypeOK, Orderly, NEW p \in Process, Ends(p), pc[p] # "tearing" PROVE Orderly'
<1> USE Roles DEF TypeOK
<1>1. HoldersValid /\ Counts /\ UndoExact /\ Alone /\ TornIsOwned
  BY DEF Orderly
<1>2. ~Holds(p)' /\ \A q \in Process : q # p => (Holds(q)' <=> Holds(q))
  BY DEF Ends, Holds
<1>3. HoldersValid'
  BY <1>1, <1>2 DEF HoldersValid, Valid, Ends
<1>4. UndoExact'
  BY <1>1, <1>2 DEF UndoExact, Ends
<1>5. Alone'
  BY <1>1, <1>2 DEF Alone
<1>6. TornIsOwned'
  <2>1. \A g \in 1 .. segs : text'[g] = "torn" => text[g] = "torn"
    BY FreedTorn DEF Ends
  <2>2. \A s \in Server : pc[s] = "tearing" => pc'[s] = "tearing" /\ mySeg'[s] = mySeg[s]
    BY DEF Ends
  <2>3. QED BY <1>1, <2>1, <2>2, TornStays DEF Ends
<1>7. Counts'
  <2>1. CASE Holds(p)
    <3>1. undo[p] = -1 /\ Valid(p)
      BY <1>1, <2>1 DEF UndoExact, HoldersValid
    <3>2. \A k : Cardinality(Counted(k)') =
               IF k = Own(p) THEN Cardinality(Counted(k)) - 1 ELSE Cardinality(Counted(k))
      BY <1>2, <2>1, CountDown
    <3>3. SUFFICES ASSUME semset # 0, NEW k \in 0 .. 1 PROVE val'[k] = Cardinality(Counted(k)')
      BY DEF Counts, Ends
    <3>4. \A j \in 0 .. 1 : val[j] = Cardinality(Counted(j)) /\ Cardinality(Counted(j)) \in Nat
      BY <1>1, <3>3, Finite DEF Counts
    <3>5. Cardinality(Counted(Own(p))) # 0
      BY <2>1, Nobody
    <3>6. val' = [val EXCEPT ![Own(p)] =
                     IF val[Own(p)] + undo[p] < 0 THEN 0 ELSE val[Own(p)] + undo[p]]
      BY <3>1 DEF Ends, Undone
    <3>7. val[Own(p)] \in Nat \ {0}
      BY <3>4, <3>5
    <3>8. val'[Own(p)] = val[Own(p)] - 1
      BY <3>1, <3>6, <3>7
    <3>9. k # Own(p) => val'[k] = val[k]
      BY <3>6
    <3>10. QED BY <3>2, <3>4, <3>8, <3>9
  <2>2. CASE ~Holds(p)
    <3>1. undo[p] = 0
      BY <1>1, <2>2 DEF UndoExact
    <3>2. val[Own(p)] \in Nat
      OBVIOUS
    <3>3. val' = val
      BY <3>1, <3>2 DEF Ends, Undone
    <3>4. QED BY <1>1, <1>2, <2>2, <3>3, CountStays DEF Counts, Ends
  <2>3. QED BY <2>1, <2>2
<1>8. QED BY <1>3, <1>4, <1>5, <1>6, <1>7 DEF Orderly

LEMMA CreateStep ==
  ASSUME TypeOK, Orderly, NEW s \in Server, Create(s) PROVE Orderly'
<1> USE Roles DEF TypeOK, Create, Goes, memory, semaphores, mine, history
<1>1. \A p \in Process : ~Holds(p)
  BY DEF Orderly, HoldersValid, Valid
<1>2. \A p \in Process : ~Holds(p)'
  BY <1>1 DEF Holds
<1>3. \A k \in 0 .. 1 : val'[k] = 0 /\ Cardinality(Counted(k)') = 0
  <2> TAKE k \in 0 .. 1
  <2>1. Counted(k)' = {}
    BY <1>2 DEF Counted
  <2>2. QED BY <2>1, FS_EmptySet
<1>4. TornIsOwned'
  <2>1. TornIsOwned
    BY DEF Orderly
  <2>2. \A t \in Server : pc[t] = "tearing" => pc'[t] = "tearing" /\ mySeg'[t] = mySeg[t]
    OBVIOUS
  <2>3. QED BY <2>1, <2>2, TornStays
<1>5. Counts'
  BY <1>3 DEF Counts
<1>6. UndoExact'
  BY <1>1, <1>2 DEF Orderly, UndoExact
<1>7. QED BY <1>2, <1>4, <1>5, <1>6 DEF Orderly, HoldersValid, Alone

LEMMA SetZeroStep ==
  ASSUME TypeOK, Belongs, Orderly, NEW s \in Server,
         SetFirst(s) \/ SetSecond(s), ~disturbed'
  PROVE  Orderly'
<1> USE Roles DEF TypeOK, Goes, memory, semaphores, mine, history
<1>1. PICK k \in 0 .. 1, from \in {"created", "zeroed"}, to \in {"zeroed", "idle"} :
          SetZero(s, from, k, to)
  BY DEF SetFirst, SetSecond
<1> USE DEF SetZero
<1>2. val[k] = 0 /\ val' = val
  BY <1>1
<1>3. Cardinality(Counted(k)) = 0
  BY <1>1, <1>2 DEF Orderly, Counts, Valid
<1>4. \A p \in Process : Own(p) = k => ~Holds(p)
  BY <1>3, Nobody
<1>5. undo' = undo
  BY <1>1, <1>4 DEF Orderly, UndoExact
<1>6. \A p \in Process : Holds(p)' <=> Holds(p)
  BY <1>1 DEF Holds
<1>7. TornIsOwned'
  <2>1. TornIsOwned
    BY DEF Orderly
  <2>2. \A t \in Server : pc[t] = "tearing" => pc'[t] = "tearing" /\ mySeg'[t] = mySeg[t]
    BY <1>1
  <2>3. QED BY <1>1, <2>1, <2>2, TornStays
<1>8. QED BY <1>1, <1>2, <1>5, <1>6, <1>7, QuietStep

LEMMA LockStep ==
  ASSUME TypeOK, Belongs, Orderly, NEW p \in Process, Lock(p, "idle") PROVE Orderly'
<1> USE Roles DEF TypeOK, Lock, Goes, memory, semaphores, mine, history
<1>1. HoldersValid /\ Counts /\ UndoExact /\ Alone /\ TornIsOwned
  BY DEF Orderly
<1>2. ~Holds(p) /\ Holds(p)' /\ \A q \in Process : q # p => (Holds(q)' <=> Holds(q))
  BY DEF Holds
<1>3. HoldersValid'
  BY <1>1, <1>2 DEF HoldersValid, Valid
<1>4. Counts'
  <2>1. \A k : Cardinality(Counted(k)') =
             IF k = Own(p) THEN Cardinality(Counted(k)) + 1 ELSE Cardinality(Counted(k))
    BY <1>2, CountUp
  <2>2. \A k \in 0 .. 1 : val'[k] = IF k = Own(p) THEN val[k] + 1 ELSE val[k]
    OBVIOUS
  <2>3. \A k \in 0 .. 1 : val[k] = Cardinality(Counted(k))
    BY <1>1 DEF Counts, Valid
  <2>4. QED BY <2>1, <2>2, <2>3 DEF Counts
<1>5. UndoExact'
  BY <1>1, <1>2 DEF UndoExact
<1>6. Alone'
  <2>1. \A q \in Process : Own(q) = Other(p) => ~Holds(q)
    <3>1. Cardinality(Counted(Other(p))) = 0
      BY <1>1 DEF Counts, Valid
    <3>2. QED BY <3>1, Nobody
  <2>2. CASE p \in Client
    BY <1>1, <1>2, <2>1, <2>2 DEF Alone
  <2>3. CASE p \in Server
    <3>1. \A t \in Server : Holds(t) => t = p
      BY <1>1, <2>3 DEF HoldersValid, Valid, Belongs
    <3>2. \A q \in Process : q # p => ~Holds(q)
      BY <2>1, <2>3, <3>1
    <3>3. QED BY <1>2, <3>2 DEF Alone
  <2>4. QED BY <2>2, <2>3
<1>7. TornIsOwned'
  <2>1. \A t \in Server : pc[t] = "tearing" => pc'[t] = "tearing" /\ mySeg'[t] = mySeg[t]
    OBVIOUS
  <2>2. QED BY <1>1, <2>1, TornStays
<1>8. QED BY <1>3, <1>4, <1>5, <1>6, <1>7 DEF Orderly

LEMMA WriteStep ==
  ASSUME TypeOK, Belongs, Orderly, NEW s \in Server, Tear(s) \/ Finish(s) PROVE Orderly'
<1> USE Roles DEF TypeOK, Goes, memory, semaphores, mine, history
<1>1. TornIsOwned /\ mySeg[s] \in 1 .. segs
  <2>1. mySeg[s] # 0
    BY DEF Belongs, Tear, Finish
  <2>2. QED BY <2>1 DEF Orderly
<1>2. CASE Tear(s)
  <2>1. \A t \in Server : t # s => pc'[t] = pc[t]
    BY <1>2 DEF Tear
  <2>2. pc'[s] = "tearing" /\ pc[s] = "in" /\ UNCHANGED <<segs, mySeg, mySem>>
    BY <1>2 DEF Tear
  <2>3. \A g \in 1 .. segs : g # mySeg[s] => text'[g] = text[g]
    BY <1>2 DEF Tear
  <2>4. TornIsOwned'
    <3>1. ASSUME NEW g \in 1 .. segs, text'[g] = "torn"
          PROVE  \E t \in Server : pc'[t] = "tearing" /\ mySeg[t] = g
      <4>1. CASE g = mySeg[s]
        BY <2>2, <4>1
      <4>2. CASE g # mySeg[s]
        <5>1. PICK t \in Server : pc[t] = "tearing" /\ mySeg[t] = g
          BY <1>1, <2>3, <3>1, <4>2 DEF TornIsOwned
        <5>2. QED BY <2>1, <4>2, <5>1
      <4>3. QED BY <4>1, <4>2
    <3>2. QED BY <2>2, <3>1 DEF TornIsOwned
  <2>5. \A p \in Process : Holds(p)' <=> Holds(p)
    BY <1>2, <2>2 DEF Tear, Holds
  <2>6. QED BY <1>2, <2>4, <2>5, QuietStep DEF Tear
<1>3. CASE Finish(s)
  <2>1. \A t \in Server : t # s => pc'[t] = pc[t]
    BY <1>3 DEF Finish
  <2>2. pc[s] = "tearing" /\ pc'[s] = "done" /\ UNCHANGED <<segs, mySeg, mySem>>
    BY <1>3 DEF Finish
  <2>3. \A g \in 1 .. segs : text'[g] = IF g = mySeg[s] THEN "time" ELSE text[g]
    BY <1>3 DEF Finish
  <2>4. TornIsOwned'
    <3>1. ASSUME NEW g \in 1 .. segs, text'[g] = "torn"
          PROVE  \E t \in Server : pc'[t] = "tearing" /\ mySeg[t] = g
      <4>1. g # mySeg[s] /\ text[g] = "torn"
        BY <2>3, <3>1
      <4>2. PICK t \in Server : pc[t] = "tearing" /\ mySeg[t] = g
        BY <1>1, <4>1 DEF TornIsOwned
      <4>3. QED BY <2>1, <4>1, <4>2
    <3>2. QED BY <2>2, <3>1 DEF TornIsOwned
  <2>5. \A p \in Process : Holds(p)' <=> Holds(p)
    BY <1>3, <2>2 DEF Finish, Holds
  <2>6. QED BY <1>3, <2>4, <2>5, QuietStep DEF Finish
<1>4. QED BY <1>2, <1>3

LEMMA ReleaseStep ==
  ASSUME TypeOK, Orderly, NEW p \in Process, NEW to \in {"idle", "leaving"}, Release(p, to)
  PROVE  Orderly'
<1> USE Roles DEF TypeOK, Release, Goes, memory, semaphores, mine, history
<1>1. HoldersValid /\ Counts /\ UndoExact /\ Alone /\ TornIsOwned
  BY DEF Orderly
<1>2. Holds(p) /\ ~Holds(p)' /\ \A q \in Process : q # p => (Holds(q)' <=> Holds(q))
  BY DEF Holds
<1>3. HoldersValid'
  BY <1>1, <1>2 DEF HoldersValid, Valid
<1>4. Counts'
  <2>1. \A k : Cardinality(Counted(k)') =
             IF k = Own(p) THEN Cardinality(Counted(k)) - 1 ELSE Cardinality(Counted(k))
    BY <1>2, CountDown
  <2>2. \A k \in 0 .. 1 : val'[k] = IF k = Own(p) THEN val[k] - 1 ELSE val[k]
    OBVIOUS
  <2>3. \A k \in 0 .. 1 : val[k] = Cardinality(Counted(k))
    BY <1>1 DEF Counts, Valid
  <2>4. QED BY <2>1, <2>2, <2>3 DEF Counts
<1>5. UndoExact'
  BY <1>1, <1>2 DEF UndoExact
<1>6. Alone'
  BY <1>1, <1>2 DEF Alone
<1>7. TornIsOwned'
  <2>1. \A t \in Server : pc[t] = "tearing" => pc'[t] = "tearing" /\ mySeg'[t] = mySeg[t]
    OBVIOUS
  <2>2. QED BY <1>1, <2>1, TornStays
<1>8. QED BY <1>3, <1>4, <1>5, <1>6, <1>7 DEF Orderly

LEMMA CleanupStep ==
  ASSUME TypeOK, Orderly, NEW s \in Server, ~disturbed',
         Interrupt(s) \/ LoopEnds(s) \/ RemoveSegment(s) \/ RemoveSemaphores(s)
  PROVE  Orderly'
<1> USE Roles DEF TypeOK, Goes, memory, semaphores, mine, history
<1>1. TornIsOwned'
  <2>1. \A g \in 1 .. segs : text'[g] = "torn" => text[g] = "torn"
    BY FreedTorn DEF Interrupt, LoopEnds, RemoveSegment, RemoveSemaphores
  <2>2. \A t \in Server : pc[t] = "tearing" => pc'[t] = "tearing" /\ mySeg'[t] = mySeg[t]
    BY DEF Interrupt, LoopEnds, RemoveSegment, RemoveSemaphores
  <2>3. segs' = segs
    BY DEF Interrupt, LoopEnds, RemoveSegment, RemoveSemaphores
  <2>4. QED BY <2>1, <2>2, <2>3, TornStays DEF Orderly
<1>2. \A p \in Process : Holds(p)' <=> Holds(p)
  BY DEF Interrupt, LoopEnds, RemoveSegment, RemoveSemaphores, Holds
<1>3. UNCHANGED <<val, undo, mySem>>
  BY DEF Interrupt, LoopEnds, RemoveSegment, RemoveSemaphores
<1>4. CASE semset' = semset
  BY <1>1, <1>2, <1>3, <1>4, QuietStep
<1>5. CASE semset' # semset
  <2>1. Holders = {} /\ semset' = 0
    BY <1>5 DEF Interrupt, LoopEnds, RemoveSegment, RemoveSemaphores
  <2>2. \A p \in Process : ~Holds(p) /\ ~Holds(p)'
    BY <1>2, <2>1 DEF Holders, Orderly, HoldersValid
  <2>3. UndoExact'
    BY <1>3, <2>2 DEF Orderly, UndoExact
  <2>4. QED BY <1>1, <2>1, <2>2, <2>3 DEF Orderly, HoldersValid, Counts, Alone
<1>6. QED BY <1>4, <1>5

LEMMA ClientQuietStep ==
  ASSUME TypeOK, Orderly, NEW c \in Client, Find(c) \/ Display(c) PROVE Orderly'
<1> USE Roles DEF TypeOK, Find, Display, Goes, memory, semaphores, mine, history
<1>1. \A p \in Process : Holds(p)' <=> Holds(p)
  BY DEF Holds
<1>2. \A p \in Process : Holds(p) => mySem'[p] = mySem[p]
  BY DEF Holds
<1>3. TornIsOwned'
  <2>1. \A t \in Server : pc[t] = "tearing" => pc'[t] = "tearing" /\ mySeg'[t] = mySeg[t]
    OBVIOUS
  <2>2. UNCHANGED <<text, segs>>
    OBVIOUS
  <2>3. QED BY <2>1, <2>2, TornStays DEF Orderly
<1>4. UNCHANGED <<semset, val, undo>>
  OBVIOUS
<1>5. QED BY <1>1, <1>2, <1>3, <1>4, QuietStep

----------------------------------------------------------------------------
(* The invariant and what follows from it                                  *)

LEMMA UndisturbedStep == IInv /\ [Next]_vars => Undisturbed'
<1> SUFFICES ASSUME IInv, [Next]_vars, ~disturbed' PROVE Orderly'
  BY DEF Undisturbed
<1> USE DEF memory, semaphores, mine, history
<1>1. ASSUME ~disturbed PROVE TypeOK /\ Belongs /\ Orderly
  BY <1>1 DEF IInv, Undisturbed
<1>2. ASSUME NEW p \in Process, Attach(p) PROVE Orderly'
  BY <1>1, <1>2, AttachStep DEF Attach
<1>3. ASSUME NEW p \in Process, Quits(p) PROVE Orderly'
  BY <1>1, <1>3, EndStep DEF Quits
<1>4. ASSUME NEW p \in Process, Die(p) PROVE Orderly'
  BY <1>1, <1>4, EndStep DEF Die, IInv, TypeOK
<1>5. ASSUME NEW s \in Server, Create(s) PROVE Orderly'
  BY <1>1, <1>5, CreateStep DEF Create
<1>6. ASSUME NEW s \in Server, SetFirst(s) \/ SetSecond(s) PROVE Orderly'
  BY <1>1, <1>6, SetZeroStep DEF SetFirst, SetSecond, SetZero, IInv, TypeOK
<1>7. ASSUME NEW p \in Process, Lock(p, "idle") PROVE Orderly'
  BY <1>1, <1>7, LockStep DEF Lock
<1>8. ASSUME NEW s \in Server, Tear(s) \/ Finish(s) PROVE Orderly'
  BY <1>1, <1>8, WriteStep DEF Tear, Finish
<1>9. ASSUME NEW p \in Process, NEW to \in {"idle", "leaving"}, Release(p, to) PROVE Orderly'
  BY <1>1, <1>9, ReleaseStep DEF Release
<1>10. ASSUME NEW s \in Server,
              Interrupt(s) \/ LoopEnds(s) \/ RemoveSegment(s) \/ RemoveSemaphores(s)
       PROVE  Orderly'
  <2>1. ~disturbed
    BY <1>10 DEF Interrupt, LoopEnds, RemoveSegment, RemoveSemaphores, IInv, TypeOK
  <2>2. QED BY <1>1, <1>10, <2>1, CleanupStep
<1>11. ASSUME NEW c \in Client, Find(c) \/ Display(c) PROVE Orderly'
  BY <1>1, <1>11, ClientQuietStep DEF Find, Display
<1>12. CASE UNCHANGED vars
  <2>1. Orderly
    BY <1>1, <1>12 DEF vars
  <2>2. \A p \in Process : Holds(p)' <=> Holds(p)
    BY <1>12 DEF vars, Holds
  <2>3. QED BY <1>12, <2>1, <2>2, QuietStep DEF vars, Orderly, TornIsOwned
<1>13. QED
  BY <1>2, <1>3, <1>4, <1>5, <1>6, <1>7, <1>8, <1>9, <1>10, <1>11, <1>12, Steps, Roles
  DEF ServerLock, ServerRelease, ClientRelease

\* The inductive invariant holds in every reachable state of both programs.
THEOREM Inductive == Spec => []IInv
<1>1. IInv /\ [Next]_vars => IInv'
  BY TypeStep, BelongsStep, UndisturbedStep DEF IInv
<1>2. QED BY InitInv, <1>1, PTL DEF Spec

\* The variables keep their types; in particular no semaphore becomes negative.
THEOREM TypeCorrect == Spec => []TypeOK
<1>1. IInv => TypeOK
  BY DEF IInv
<1>2. QED BY Inductive, <1>1, PTL

\* The kernel's counters (semop with SEM_UNDO in wait_and_lock and
\* release_lock) are the numbers of readers and writers inside.
THEOREM CountersHold == Spec => []SemaphoresCountHolders
<1>1. IInv => SemaphoresCountHolders
  <2> SUFFICES ASSUME IInv, ~disturbed, semset # 0, NEW k \in 0 .. 1
               PROVE  val[k] = Cardinality({p \in Holders : Own(p) = k})
    BY DEF SemaphoresCountHolders
  <2>1. Orderly
    BY DEF IInv, Undisturbed
  <2>2. {p \in Holders : Own(p) = k} = Counted(k)
    BY <2>1 DEF Orderly, HoldersValid, Holders, Counted
  <2>3. QED BY <2>1, <2>2 DEF Orderly, Counts
<1>2. QED BY Inductive, <1>1, PTL

\* wait_and_lock of the server and of the client exclude each other.
THEOREM ExclusionHolds == Spec => []ExclusiveUnlessDisturbed
<1>1. IInv => ExclusiveUnlessDisturbed
  BY DEF IInv, Undisturbed, Orderly, Alone, ExclusiveUnlessDisturbed, Exclusive, Holders
<1>2. QED BY Inductive, <1>1, PTL

\* The client's printf sees no half-written time.
THEOREM CleanReadHolds == Spec => []CleanRead
<1>1. IInv => CleanRead
  <2> SUFFICES ASSUME IInv, ~disturbed, NEW c \in Client, pc[c] = "in"
               PROVE  /\ text[mySeg[c]] # "torn"
                      /\ \A s \in Server : pc[s] = "tearing" => mySeg[s] # mySeg[c]
    BY DEF CleanRead
  <2>1. Alone /\ TornIsOwned /\ TypeOK /\ Belongs
    BY DEF IInv, Undisturbed, Orderly
  <2>2. \A s \in Server : pc[s] # "tearing"
    BY <2>1, Roles DEF Alone, Holds
  <2>3. mySeg[c] \in 1 .. segs
    <3>1. mySeg[c] \in 0 .. segs /\ segs \in Nat
      BY <2>1, Roles DEF TypeOK
    <3>2. mySeg[c] # 0
      BY <2>1, Roles DEF Belongs
    <3>3. QED BY <3>1, <3>2
  <2>4. QED BY <2>1, <2>2, <2>3 DEF TornIsOwned
<1>2. QED BY Inductive, <1>1, PTL

\* semget with IPC_EXCL gives a set to one server.
THEOREM OneWriterHolds == Spec => []OneWriter
<1>1. IInv => OneWriter
  BY DEF IInv, Belongs, OneWriter, Valid
<1>2. QED BY Inductive, <1>1, PTL

----------------------------------------------------------------------------
(* Nobody waits for ever.  SomebodyCanGoOn says it with ENABLED; here the   *)
(* two calls that block are spelled out.                                    *)

Started(p) == pc[p] \notin {"start", "exited"}

\* semop blocks in wait_and_lock while the other semaphore is not zero, and in
\* release_lock while its own is; every other call returns.
Waits(p) ==
    /\ irq[p] = "no" /\ Valid(p)
    /\ \/ pc[p] = "idle" /\ (p \in Server => n[p] < ITERATIONS) /\ val[Other(p)] # 0
       \/ pc[p] = "done" /\ val[Own(p)] = 0

NotAllWait ==
    ~disturbed /\ (\E p \in Process : Started(p)) =>
        \E p \in Process : Started(p) /\ ~Waits(p)

LEMMA HolderGoesOn ==
  ASSUME IInv, ~disturbed, NEW p \in Process, Holds(p) PROVE ~Waits(p)
<1>1. Valid(p) /\ Counts
  BY DEF IInv, Undisturbed, Orderly, HoldersValid
<1>2. val[Own(p)] = Cardinality(Counted(Own(p)))
  <2>1. semset # 0
    BY <1>1 DEF Valid
  <2>2. QED BY <1>1, <2>1, Roles DEF Counts
<1>3. p \in Counted(Own(p))
  BY DEF Counted
<1>4. Cardinality(Counted(Own(p))) # 0
  BY <1>3, Finite, FS_EmptySet
<1>5. pc[p] # "idle"
  BY DEF Holds
<1>6. QED BY <1>2, <1>4, <1>5 DEF Waits

\* wait_and_lock and release_lock: as long as a started process has not ended,
\* one of them is in neither of the two calls that block, for any number of
\* servers and clients, whoever is killed, until a disturbance.
THEOREM NotAllWaitHolds == Spec => []NotAllWait
<1>1. IInv => NotAllWait
  <2> SUFFICES ASSUME IInv, ~disturbed, NEW p \in Process, Started(p), Waits(p)
               PROVE  \E q \in Process : Started(q) /\ ~Waits(q)
    BY DEF NotAllWait
  <2>1. pc[p] = "idle" /\ val[Other(p)] # 0 /\ Valid(p)
    <3>1. pc[p] # "done"
      BY HolderGoesOn DEF Holds
    <3>2. QED BY <3>1 DEF Waits
  <2>2. val[Other(p)] = Cardinality(Counted(Other(p)))
    <3>1. semset # 0 /\ Counts
      BY <2>1 DEF IInv, Undisturbed, Orderly, Valid
    <3>2. QED BY <3>1, Roles DEF Counts
  <2>3. PICK q : q \in Counted(Other(p))
    BY <2>1, <2>2, FS_EmptySet
  <2>4. q \in Process /\ Holds(q) /\ Started(q)
    BY <2>3 DEF Counted, Holds, Started
  <2>5. QED BY <2>4, HolderGoesOn
<1>2. QED BY Inductive, <1>1, PTL
====
