---- MODULE PhilosophersProofs ----
(***************************************************************************)
(* Safety of the philosophers for every number of threads N >= 2 and every *)
(* number of rounds.                                                       *)
(***************************************************************************)
EXTENDS Philosophers, Integers, WellFoundedInduction, TLAPS

\* The locks, thread by thread: what MutexOwnership says of them all.
Locks ==
    /\ \A p \in Philosopher : pc[p] \in {"holding", "eating"} => mutex[First(p)] = p
    /\ \A p \in Philosopher : Eating(p) => mutex[Second(p)] = p
    /\ \A c \in Chopstick : mutex[c] # Nobody => mutex[c] \in Holders(c)

\* The live ids are those below i while main creates, a run of ids from i on
\* while it joins, and none in the end; only they belong to running threads.
Rounds ==
    /\ mainPc \in {"create", "wait"} => round < ROUNDS
    /\ \A p \in Philosopher : Alive(p) => GpThread[p] = "live"
    /\ mainPc = "create" => \A p \in Philosopher : GpThread[p] = "live" <=> p < i
    /\ mainPc = "wait" =>
          /\ \A p \in Philosopher : p < i => GpThread[p] # "live"
          /\ \A p, q \in Philosopher :
                i <= p /\ p < q /\ GpThread[q] = "live" => GpThread[p] = "live"
    /\ mainPc \in {"done", "crashed"} => \A p \in Philosopher : GpThread[p] # "live"

IInv == TypeOK /\ Locks /\ Rounds

----------------------------------------------------------------------------
(* The table: who wants which mutex                                        *)

\* Each mutex is the first one of one thread and the second one of another.
LEMMA Table ==
  /\ \A p \in Philosopher : First(p) \in Chopstick /\ Second(p) \in Chopstick
  /\ \A p \in Philosopher : First(p) # Second(p)
  /\ \A p, q \in Philosopher : First(p) = First(q) => p = q
  /\ \A p, q \in Philosopher : Second(p) = Second(q) => p = q
  /\ \A p \in Philosopher : Successor(p) \in Philosopher /\ First(Successor(p)) = Second(p)
  /\ \A p \in Philosopher : Successor(p) # p
  /\ Nobody \notin Philosopher
  BY NAssumption DEF Philosopher, Chopstick, First, Second, Successor, Nobody

\* A set that holds a natural a and is closed under successor below b holds
\* every number from a to b.
LEMMA UpwardClosed ==
  ASSUME NEW S, NEW a \in Nat, NEW b \in Nat, a \in S,
         \A n \in a .. b - 1 : n \in S => n + 1 \in S
  PROVE  a .. b \subseteq S
<1> DEFINE T == (a .. b) \ S
<1> SUFFICES ASSUME T # {} PROVE FALSE
  OBVIOUS
<1> DEFINE Less == OpToRel(<, Nat)
<1>1. IsWellFoundedOn(Less, Nat)
  BY NatLessThanWellFounded
<1>2. \A x, y \in Nat : <<x, y>> \in Less <=> x < y
  BY DEF OpToRel
<1> HIDE DEF Less
<1>3. \E m \in T : \A k \in T : ~ (<<k, m>> \in Less)
  <2>1. T \subseteq Nat /\ T # {}
    OBVIOUS
  <2> HIDE DEF T
  <2>2. QED BY <1>1, <2>1, WFMin
<1>4. PICK m \in T : \A k \in T : ~ (<<k, m>> \in Less)
  BY <1>3
<1>5. m # a /\ m - 1 \in a .. b - 1
  OBVIOUS
<1>6. m - 1 \in S
  <2>1. <<m - 1, m>> \in Less
    BY <1>2, <1>5
  <2>2. QED BY <1>4, <1>5, <2>1
<1>7. QED BY <1>5, <1>6

\* A set of threads closed under Successor that is not empty holds them all.
LEMMA Ring ==
  ASSUME NEW S \in SUBSET Philosopher, NEW p \in S,
         \A q \in S : Successor(q) \in S
  PROVE  S = Philosopher
<1>1. N - 1 \in Nat /\ p \in Nat /\ p <= N - 1
  BY NAssumption DEF Philosopher
<1>2. \A n \in p .. (N - 1) - 1 : n \in S => n + 1 \in S
  BY <1>1, NAssumption DEF Successor
<1>3. p .. N - 1 \subseteq S
  BY <1>1, <1>2, UpwardClosed
<1>4. N - 1 \in S
  BY <1>1, <1>3
<1>5. 0 \in S
  BY <1>4 DEF Successor
<1>6. \A n \in 0 .. (N - 1) - 1 : n \in S => n + 1 \in S
  BY NAssumption DEF Successor
<1>7. 0 .. N - 1 \subseteq S
  BY <1>1, <1>5, <1>6, UpwardClosed
<1>8. QED
  BY <1>7 DEF Philosopher

----------------------------------------------------------------------------
(* The invariant                                                           *)

LEMMA InitInv == Init => IInv
  BY NAssumption, RoundsAssumption, Table
  DEF Init, IInv, TypeOK, Locks, Rounds, Holders, Eating, Alive, Philosopher, Chopstick,
      ThreadState

LEMMA TypeStep == TypeOK /\ Rounds /\ [Next]_vars => TypeOK'
<1> SUFFICES ASSUME TypeOK, Rounds, [Next]_vars PROVE TypeOK'
  OBVIOUS
<1> USE NAssumption, RoundsAssumption, Table DEF TypeOK, ThreadState
<1>1. ASSUME NEW p \in Philosopher, Thread(p) PROVE TypeOK'
  <2>1. CASE LockFirst(p)
    BY <2>1 DEF LockFirst, MainUnchanged
  <2>2. CASE LockSecond(p)
    BY <2>2 DEF LockSecond, MainUnchanged
  <2>3. CASE UnlockFirst(p)
    BY <2>3 DEF UnlockFirst, MainUnchanged
  <2>4. CASE UnlockSecond(p)
    BY <2>4 DEF UnlockSecond, MainUnchanged
  <2>5. QED
    BY <1>1, <2>1, <2>2, <2>3, <2>4 DEF Thread
<1>2. CASE CreateThread
  BY <1>2 DEF CreateThread, Philosopher
<1>3. CASE CreateFails
  BY <1>3 DEF CreateFails, Philosopher
<1>4. CASE JoinLive
  BY <1>4 DEF JoinLive, NextJoin, Rounds, Philosopher
<1>5. CASE SkipJoin
  BY <1>5 DEF SkipJoin, NextJoin, Rounds, Philosopher
<1>6. CASE JoinStale
  BY <1>6 DEF JoinStale, NextJoin, Rounds, Philosopher
<1>7. CASE JoinStaleCrashes
  BY <1>7 DEF JoinStaleCrashes
<1>8. CASE UNCHANGED vars
  BY <1>8 DEF vars
<1>9. QED
  BY <1>1, <1>2, <1>3, <1>4, <1>5, <1>6, <1>7, <1>8 DEF Next, Main

LEMMA LocksStep == IInv /\ [Next]_vars => Locks'
<1> SUFFICES ASSUME IInv, [Next]_vars PROVE Locks'
  OBVIOUS
<1> USE Table DEF IInv, TypeOK, Locks, Holders, Eating, ThreadState
<1>1. ASSUME NEW p \in Philosopher, LockFirst(p) PROVE Locks'
  BY <1>1 DEF LockFirst, MainUnchanged
<1>2. ASSUME NEW p \in Philosopher, LockSecond(p) PROVE Locks'
  BY <1>2 DEF LockSecond, MainUnchanged
<1>3. ASSUME NEW p \in Philosopher, UnlockFirst(p) PROVE Locks'
  BY <1>3 DEF UnlockFirst, MainUnchanged
<1>4. ASSUME NEW p \in Philosopher, UnlockSecond(p) PROVE Locks'
  BY <1>4 DEF UnlockSecond, MainUnchanged
<1>5. CASE CreateThread
  <2>1. pc[i] \in {"absent", "exited"}
    BY <1>5 DEF CreateThread, Rounds, Alive, Philosopher
  <2>2. i \in Philosopher
    BY DEF Philosopher
  <2>3. QED BY <1>5, <2>1, <2>2 DEF CreateThread
<1>6. CASE UNCHANGED <<mutex, pc>>
  BY <1>6
<1>7. QED
  BY <1>1, <1>2, <1>3, <1>4, <1>5, <1>6
  DEF Next, Main, Thread, CreateFails, JoinLive, SkipJoin, JoinStale, JoinStaleCrashes, vars

LEMMA RoundsStep == IInv /\ [Next]_vars => Rounds'
<1> SUFFICES ASSUME IInv, [Next]_vars PROVE Rounds'
  OBVIOUS
<1> USE NAssumption, RoundsAssumption DEF IInv, TypeOK, Rounds, Alive, Philosopher, ThreadState
<1>1. ASSUME NEW p \in Philosopher, Thread(p) PROVE Rounds'
  BY <1>1 DEF Thread, LockFirst, LockSecond, UnlockFirst, UnlockSecond, MainUnchanged
<1>2. CASE CreateThread
  BY <1>2 DEF CreateThread
<1>3. CASE CreateFails
  BY <1>3 DEF CreateFails
<1>4. CASE JoinLive
  BY <1>4 DEF JoinLive, NextJoin
<1>5. CASE SkipJoin \/ JoinStale
  BY <1>5 DEF SkipJoin, JoinStale, NextJoin
<1>6. CASE JoinStaleCrashes
  BY <1>6 DEF JoinStaleCrashes
<1>7. CASE UNCHANGED vars
  BY <1>7 DEF vars
<1>8. QED
  BY <1>1, <1>2, <1>3, <1>4, <1>5, <1>6, <1>7 DEF Next, Main

\* The inductive invariant holds in every reachable state.
THEOREM Inductive == Spec => []IInv
<1>1. IInv /\ [Next]_vars => IInv'
  BY TypeStep, LocksStep, RoundsStep DEF IInv
<1>2. QED
  BY InitInv, <1>1, PTL DEF Spec

----------------------------------------------------------------------------
(* The theorems                                                            *)

\* Every variable of the table keeps its type, whatever fails to be created.
THEOREM TypeCorrect == Spec => []TypeOK
<1>1. IInv => TypeOK
  BY DEF IInv
<1>2. QED
  BY <1>1, Inductive, PTL

\* A mutex is owned by the one thread between its lock and its unlock call.
THEOREM OwnershipHolds == Spec => []MutexOwnership
<1>1. IInv => MutexOwnership
  <2> SUFFICES ASSUME IInv, NEW c \in Chopstick
               PROVE  Holders(c) = IF mutex[c] = Nobody THEN {} ELSE {mutex[c]}
    BY DEF MutexOwnership
  <2> USE Table DEF IInv, TypeOK, Locks
  <2>1. \A p \in Holders(c) : p \in Philosopher /\ mutex[c] = p
    BY DEF Holders
  <2>2. QED
    BY <2>1
<1>2. QED
  BY <1>1, Inductive, PTL

\* No two neighbours eat at the same time, for any number of threads.
THEOREM ExclusionHolds == Spec => []NeighboursExclusive
<1>1. IInv => NeighboursExclusive
  BY Table DEF IInv, Locks, NeighboursExclusive
<1>2. QED
  BY <1>1, Inductive, PTL

\* No round starts, and no stale id is joined, while a thread still runs.
THEOREM RoundsHold == Spec => []RoundsDoNotOverlap
<1>1. IInv => RoundsDoNotOverlap
  BY NAssumption DEF IInv, TypeOK, Rounds, RoundsDoNotOverlap, Philosopher
<1>2. QED
  BY <1>1, Inductive, PTL

\* The full circle is the only state in which every live thread is blocked.
THEOREM OnlyTheCircleBlocksHolds == Spec => []OnlyTheCircleBlocks
<1>1. IInv => OnlyTheCircleBlocks
  <2> SUFFICES ASSUME IInv, NEW p \in Philosopher, Alive(p),
                      \A q \in Philosopher : ~CanStep(q)
               PROVE  Circle
    BY DEF OnlyTheCircleBlocks
  <2> USE Table DEF IInv
  <2> DEFINE Holding == {q \in Philosopher : pc[q] = "holding"}
  <2>1. \A q \in Philosopher : ~Eating(q)
    BY DEF CanStep
  <2>2. \A c \in Chopstick :
            mutex[c] # Nobody => mutex[c] \in Holding /\ First(mutex[c]) = c
    BY <2>1 DEF Locks, Holders, Eating
  <2>3. pc[p] \in {"hungry", "holding"}
    BY <2>1 DEF Alive, Eating, TypeOK, ThreadState
  <2>4. p \in Holding
    BY <2>2, <2>3 DEF CanStep
  <2>5. \A q \in Holding : Successor(q) \in Holding
    BY <2>2 DEF CanStep
  <2> HIDE DEF Holding
  <2>6. Holding = Philosopher
    <3>1. Holding \in SUBSET Philosopher
      BY DEF Holding
    <3>2. QED BY <3>1, <2>4, <2>5, Ring
  <2>7. QED
    BY <2>6 DEF Holding, Circle
<1>2. QED
  BY <1>1, Inductive, PTL
====
