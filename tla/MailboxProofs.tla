---- MODULE MailboxProofs ----
(***************************************************************************)
(* Safety of the mailbox for files of any content and length.              *)
(***************************************************************************)
EXTENDS Mailbox, FiniteSetTheorems, TLAPS

\* The threads between taking the lock and giving it up.
LockInv ==
    /\ lock = Main <=> mainPc \in MainState \ {"start", "wait"}
    /\ \A w \in Worker : lock = w <=> wpc[w] \in {"test", "store", "signal", "unlock"}
    /\ \A w \in Worker : w \in waiting => wpc[w] = "wait"
    /\ Main \in waiting => mainPc = "wait"

\* Before main first waits, no worker has the lock.
StartInv ==
    mainPc \in {"start", "create1", "create2"} =>
        /\ mailbox = NULL /\ waiting = {} /\ reports_in = 0
        /\ \A w \in Worker : wpc[w] \in {"absent", "counting", "lock"}
        /\ mainPc = "start" => \A w \in Worker : wpc[w] = "absent"

\* What the mailbox holds while main or a worker is about to use it.
MailboxInv ==
    /\ \A w \in Worker : mailbox = w => Stored(w)
    /\ mainPc \in {"collect", "join", "clear"} => mailbox # NULL
    /\ mainPc \in {"signal", "test"} => mailbox = NULL
    /\ mainPc = "wait" /\ Main \notin waiting => mailbox # NULL
    /\ \A w \in Worker : wpc[w] = "store" => mailbox = NULL
    /\ \A w \in Worker : wpc[w] = "signal" => mailbox = w
    /\ \A w \in Worker :
          mainPc = "wait" /\ Main \in waiting /\ mailbox = w => wpc[w] = "signal"

\* Who is blocked: a worker only while the other's count is collected, and it
\* is woken before main waits again.
WaitInv ==
    /\ \A w \in Worker : wpc[w] \in {"store", "signal"} => waiting = {Main}
    /\ \A w \in waiting \cap Worker : mailbox # NULL \/ mainPc = "signal"
    /\ \A w \in waiting \cap Worker : Main \notin waiting
    /\ \A w \in Worker : wpc[w] = "wait" /\ w \notin waiting =>
          /\ mailbox = NULL
          /\ (mainPc = "test" /\ reports_in < 2) \/ (mainPc = "wait" /\ Main \in waiting)
    /\ \A w \in Worker : wpc[w] = "wait" => \E u \in Worker : Stored(u)

\* reports_in counts the workers whose report main has finished with.
Finished(w) == Stored(w) /\ mailbox # w /\ ~(mainPc = "signal")

ReportsInv ==
    /\ mainPc = "signal" => \E w \in Worker : Stored(w)
    /\ mainPc = "signal" => reports_in < 2
    /\ mainPc = "signal" => reports_in =
          (IF Stored(1) THEN 1 ELSE 0) + (IF Stored(2) THEN 1 ELSE 0) - 1
    /\ mainPc # "signal" => reports_in =
          (IF Finished(1) THEN 1 ELSE 0) + (IF Finished(2) THEN 1 ELSE 0)

\* The places among the first n characters where a word ends.
Ends(t, n) == {j \in 2 .. n : t[j - 1] /\ ~t[j]}

\* args->count is right for the characters read so far; the file has been
\* read to its end once the worker leaves the loop.
CountInv ==
    \A w \in Worker :
        /\ file[w] = Unreadable => count[w] = 0
        /\ file[w] # Unreadable =>
              pos[w] <= Len(file[w]) /\ count[w] = Cardinality(Ends(file[w], pos[w]))
        /\ wpc[w] \notin {"absent", "counting"} => AtEnd(w)

TotalInv == TotalIsRight

Control == LockInv /\ StartInv /\ MailboxInv /\ WaitInv /\ ReportsInv

----------------------------------------------------------------------------
(* Steps                                                                   *)

LEMMA TypeStep == TypeOK /\ Control /\ [Next]_vars => TypeOK'
<1> SUFFICES ASSUME TypeOK, Control, [Next]_vars PROVE TypeOK'
  OBVIOUS
<1> USE DEF TypeOK, shared, input, Worker, Main, Nobody, NULL
<1>1. ASSUME NEW w \in Worker, ReadChar(w) PROVE TypeOK'
  BY <1>1 DEF ReadChar
<1>2. ASSUME NEW w \in Worker,
             FileDone(w) \/ WorkerLock(w) \/ FindFull(w) \/ FindEmpty(w) \/ WorkerWakes(w)
      PROVE  TypeOK'
  <2> USE DEF WorkerGoes, WorkerState
  <2>1. CASE FileDone(w) \/ WorkerLock(w) \/ FindEmpty(w)
    BY <2>1 DEF FileDone, WorkerLock, FindEmpty
  <2>2. CASE FindFull(w)
    BY <2>2 DEF FindFull, CondWait
  <2>3. CASE WorkerWakes(w)
    BY <2>3 DEF WorkerWakes, CondReturn
  <2>4. QED BY <1>2, <2>1, <2>2, <2>3
<1>3. ASSUME NEW w \in Worker, Store(w) \/ WorkerSignals(w) \/ Unlock(w) \/ Return(w)
      PROVE  TypeOK'
  BY <1>3 DEF Store, WorkerSignals, Unlock, Return, WorkerGoes, CondSignal, WorkerState
<1>4. ASSUME NEW w \in Worker, Create(w) \/ CreateFails(w) PROVE TypeOK'
  BY <1>4 DEF Create, CreateFails, MainGoes, MainState, WorkerState
<1>5. CASE MainLock \/ MainWait \/ MainDone \/ MainWakes
  BY <1>5 DEF MainLock, MainWait, MainDone, MainWakes, MainGoes, CondWait, CondReturn, MainState
<1>6. CASE Collect
  BY <1>6 DEF Collect, MainGoes, MainState
<1>7. CASE Join \/ Clear
  BY <1>7 DEF Join, Clear, MainGoes, MainState
<1>8. CASE MainSignals
  <2>1. reports_in < 2
    BY <1>8 DEF MainSignals, MainGoes, Control, ReportsInv
  <2>2. waiting' \subseteq waiting
    BY <1>8 DEF MainSignals, CondSignal
  <2>3. QED BY <1>8, <2>1, <2>2 DEF MainSignals, MainGoes, MainState
<1>9. CASE UNCHANGED vars
  BY <1>9 DEF vars
<1>10. QED
  BY <1>1, <1>2, <1>3, <1>4, <1>5, <1>6, <1>7, <1>8, <1>9 DEF Next, MainStep, WorkerStep

LEMMA ControlStep == TypeOK /\ Control /\ [Next]_vars => Control'
<1> SUFFICES ASSUME TypeOK, Control, [Next]_vars PROVE Control'
  OBVIOUS
<1> USE DEF TypeOK, Control, LockInv, StartInv, MailboxInv, WaitInv, ReportsInv, Finished, Stored,
        shared, input, Worker, Main, Nobody, NULL, MainState, WorkerState, WorkerGoes, MainGoes
<1>1. ASSUME NEW w \in Worker, ReadChar(w) PROVE Control'
  BY <1>1 DEF ReadChar
<1>2. ASSUME NEW w \in Worker, FileDone(w) PROVE Control'
  BY <1>2 DEF FileDone
<1>3. ASSUME NEW w \in Worker, WorkerLock(w) PROVE Control'
  BY <1>3 DEF WorkerLock
<1>4. ASSUME NEW w \in Worker, FindFull(w) PROVE Control'
  BY <1>4 DEF FindFull, CondWait
<1>5. ASSUME NEW w \in Worker, FindEmpty(w) PROVE Control'
  BY <1>5 DEF FindEmpty
<1>6. ASSUME NEW w \in Worker, WorkerWakes(w) PROVE Control'
  <2>1. mailbox = NULL /\ mainPc = "wait" /\ Main \in waiting
    BY <1>6 DEF WorkerWakes, CondReturn
  <2>2. waiting \cap Worker = {}
    BY <2>1
  <2>3. waiting = {Main}
    BY <2>1, <2>2
  <2>4. QED BY <1>6, <2>1, <2>3 DEF WorkerWakes, CondReturn
<1>7. ASSUME NEW w \in Worker, Store(w) PROVE Control'
  BY <1>7 DEF Store
<1>8. ASSUME NEW w \in Worker, WorkerSignals(w) PROVE Control'
  BY <1>8 DEF WorkerSignals, CondSignal
<1>9. ASSUME NEW w \in Worker, Unlock(w) PROVE Control'
  BY <1>9 DEF Unlock
<1>10. ASSUME NEW w \in Worker, Return(w) PROVE Control'
  BY <1>10 DEF Return
<1>11. CASE MainLock
  BY <1>11 DEF MainLock
<1>12. ASSUME NEW w \in Worker, Create(w) PROVE Control'
  BY <1>12 DEF Create, CreatePc
<1>13. ASSUME NEW w \in Worker, CreateFails(w) PROVE Control'
  BY <1>13 DEF CreateFails, CreatePc
<1>14. CASE MainWait
  BY <1>14 DEF MainWait, CondWait
<1>15. CASE MainDone
  BY <1>15 DEF MainDone
<1>16. CASE MainWakes
  BY <1>16 DEF MainWakes, CondReturn
<1>17. CASE Collect
  BY <1>17 DEF Collect
<1>18. CASE Join
  BY <1>18 DEF Join
<1>19. CASE Clear
  BY <1>19 DEF Clear
<1>20. CASE MainSignals
  BY <1>20 DEF MainSignals, CondSignal
<1>21. CASE UNCHANGED vars
  BY <1>21 DEF vars
<1>22. QED
  BY <1>1, <1>2, <1>3, <1>4, <1>5, <1>6, <1>7, <1>8, <1>9, <1>10, <1>11, <1>12, <1>13,
     <1>14, <1>15, <1>16, <1>17, <1>18, <1>19, <1>20, <1>21
  DEF Next, MainStep, WorkerStep

\* One character more adds the place it ends a word at, if it does.
LEMMA EndsStep ==
  ASSUME NEW t \in Seq(BOOLEAN), NEW n \in Nat, n < Len(t)
  PROVE  /\ IsFiniteSet(Ends(t, n))
         /\ Cardinality(Ends(t, n)) \in Nat
         /\ Cardinality(Ends(t, n + 1)) =
               Cardinality(Ends(t, n)) +
               (IF ~t[n + 1] /\ (IF n = 0 THEN FALSE ELSE t[n]) THEN 1 ELSE 0)
<1>1. IsFiniteSet(Ends(t, n))
  <2>1. IsFiniteSet(2 .. n)
    BY FS_Interval
  <2>2. Ends(t, n) \subseteq 2 .. n
    BY DEF Ends
  <2>3. QED BY <2>1, <2>2, FS_Subset
<1>2. Cardinality(Ends(t, n)) \in Nat
  BY <1>1, FS_CardinalityType
<1>3. CASE n # 0 /\ t[n] /\ ~t[n + 1]
  <2>1. Ends(t, n + 1) = Ends(t, n) \cup {n + 1}
    BY <1>3 DEF Ends
  <2>2. n + 1 \notin Ends(t, n)
    BY DEF Ends
  <2>3. QED BY <1>1, <1>2, <1>3, <2>1, <2>2, FS_AddElement
<1>4. CASE ~(n # 0 /\ t[n] /\ ~t[n + 1])
  <2>1. Ends(t, n + 1) = Ends(t, n)
    BY <1>4 DEF Ends
  <2>2. QED BY <1>1, <1>2, <1>4, <2>1
<1>5. QED BY <1>3, <1>4

LEMMA CountStep == TypeOK /\ CountInv /\ [Next]_vars => CountInv'
<1> SUFFICES ASSUME TypeOK, CountInv, [Next]_vars PROVE CountInv'
  OBVIOUS
<1> USE DEF TypeOK, CountInv
<1>1. ASSUME NEW w \in Worker, ReadChar(w) PROVE CountInv'
  <2> USE <1>1 DEF ReadChar
  <2>1. file[w] # Unreadable /\ pos[w] # Len(file[w]) /\ file' = file /\ wpc' = wpc
    BY DEF AtEnd
  <2>2. file[w] \in Seq(BOOLEAN) /\ pos[w] \in Nat /\ pos[w] < Len(file[w])
    BY <2>1, TextsAssumption
  <2>3. pos'[w] = pos[w] + 1
    OBVIOUS
  <2>4. count'[w] = Cardinality(Ends(file[w], pos[w] + 1))
    BY <2>1, <2>2, EndsStep DEF Prev
  <2>5. \A u \in Worker : u # w => pos'[u] = pos[u] /\ count'[u] = count[u]
    OBVIOUS
  <2>6. QED BY <2>1, <2>2, <2>3, <2>4, <2>5 DEF AtEnd
<1>2. ASSUME NEW w \in Worker, FileDone(w) PROVE CountInv'
  BY <1>2 DEF FileDone, WorkerGoes, input, AtEnd
<1>3. ASSUME UNCHANGED input,
             \A w \in Worker : wpc[w] \in {"absent", "counting"} =>
                                  wpc'[w] \in {"absent", "counting"}
      PROVE  CountInv'
  BY <1>3 DEF input, AtEnd
<1>4. ASSUME NEW w \in Worker, WorkerStep(w) PROVE CountInv'
  BY <1>1, <1>2, <1>3, <1>4
  DEF WorkerStep, WorkerLock, FindFull, FindEmpty, WorkerWakes, Store, WorkerSignals, Unlock,
      Return, WorkerGoes
<1>5. CASE MainStep
  BY <1>3, <1>5
  DEF MainStep, MainLock, Create, CreateFails, MainWait, MainDone, MainWakes, Collect, Join,
      Clear, MainSignals, MainGoes, Control, StartInv
<1>6. CASE UNCHANGED vars
  BY <1>6 DEF vars, input, AtEnd
<1>7. QED BY <1>4, <1>5, <1>6 DEF Next

LEMMA TotalStep == TypeOK /\ Control /\ CountInv /\ TotalInv /\ [Next]_vars => TotalInv'
<1> SUFFICES ASSUME TypeOK, Control, CountInv, TotalInv, [Next]_vars PROVE TotalInv'
  OBVIOUS
<1> USE DEF TypeOK, TotalInv, TotalIsRight
<1>1. file' = file
  BY DEF Next, MainStep, WorkerStep, ReadChar, FileDone, WorkerLock, FindFull, FindEmpty,
         WorkerWakes, Store, WorkerSignals, Unlock, Return, MainLock, Create, CreateFails,
         MainWait, MainDone, MainWakes, Collect, Join, Clear, MainSignals, MainGoes, input, vars
<1>2. Words(1)' = Words(1) /\ Words(2)' = Words(2)
  BY <1>1 DEF Words
<1>3. \A w \in Worker : Words(w) \in Nat
  <2> SUFFICES ASSUME NEW w \in Worker, file[w] # Unreadable
               PROVE  Words(w) \in Nat
    BY DEF Words
  <2>1. file[w] \in Seq(BOOLEAN)
    BY TextsAssumption
  <2>2. IsFiniteSet({j \in 2 .. Len(file[w]) : file[w][j - 1] /\ ~file[w][j]})
    <3>1. IsFiniteSet(2 .. Len(file[w]))
      BY <2>1, FS_Interval
    <3>2. QED BY <3>1, FS_Subset
  <2>3. QED BY <2>2, FS_CardinalityType DEF Words, WordEnds
<1>4. \A w \in Worker : wpc[w] \notin {"absent", "counting"} => count[w] = Words(w)
  BY DEF CountInv, AtEnd, Words, WordEnds, Ends
<1>5. ASSUME total_words' = total_words, \A w \in Worker : Counted(w)' = Counted(w)
      PROVE  TotalInv'
  BY <1>2, <1>5 DEF Worker
<1> HIDE DEF TotalInv, TotalIsRight
<1> USE DEF Control, LockInv, StartInv, MailboxInv, WaitInv, ReportsInv, Counted, Stored, Worker,
            Main, Nobody, NULL, WorkerState, MainState, shared, input
<1>6. ASSUME NEW w \in Worker, ReadChar(w) PROVE TotalInv'
  BY <1>5, <1>6 DEF ReadChar
<1>7. ASSUME NEW w \in Worker, FileDone(w) \/ WorkerLock(w) PROVE TotalInv'
  BY <1>5, <1>7 DEF FileDone, WorkerLock, WorkerGoes
<1>8. ASSUME NEW w \in Worker, FindFull(w) \/ FindEmpty(w) \/ WorkerWakes(w) PROVE TotalInv'
  BY <1>5, <1>8 DEF FindFull, FindEmpty, WorkerWakes, WorkerGoes
<1>9. ASSUME NEW w \in Worker, Store(w) PROVE TotalInv'
  BY <1>5, <1>9 DEF Store, WorkerGoes
<1>10. ASSUME NEW w \in Worker, WorkerSignals(w) \/ Unlock(w) \/ Return(w) PROVE TotalInv'
  BY <1>5, <1>10 DEF WorkerSignals, Unlock, Return, WorkerGoes
<1>11. CASE MainLock \/ MainWait \/ MainDone \/ MainWakes
  BY <1>5, <1>11 DEF MainLock, MainWait, MainDone, MainWakes, MainGoes
<1>12. ASSUME NEW w \in Worker, Create(w) \/ CreateFails(w) PROVE TotalInv'
  BY <1>5, <1>12 DEF Create, CreateFails, MainGoes, CreatePc
<1>13. CASE Collect
  <2>1. Stored(mailbox) /\ mailbox \in Worker /\ mailbox' = mailbox
    BY <1>13 DEF Collect, MainGoes
  <2>2. ~Counted(mailbox) /\ Counted(mailbox)'
    BY <1>13, <2>1 DEF Collect, MainGoes
  <2>3. \A w \in Worker : w # mailbox => Counted(w)' = Counted(w)
    BY <1>13 DEF Collect, MainGoes
  <2>4. total_words' = total_words + Words(mailbox)
    BY <1>13, <1>4, <2>1 DEF Collect
  <2> HIDE DEF Counted
  <2>5. CASE mailbox = 1
    BY <1>2, <1>3, <2>1, <2>2, <2>3, <2>4, <2>5 DEF TotalInv, TotalIsRight
  <2>6. CASE mailbox = 2
    BY <1>2, <1>3, <2>1, <2>2, <2>3, <2>4, <2>6 DEF TotalInv, TotalIsRight
  <2>7. QED
    BY <2>1, <2>5, <2>6
<1>14. CASE Join
  BY <1>5, <1>14 DEF Join, MainGoes
<1>15. CASE Clear
  BY <1>5, <1>15 DEF Clear, MainGoes
<1>16. CASE MainSignals
  BY <1>5, <1>16 DEF MainSignals, MainGoes
<1>17. CASE UNCHANGED vars
  BY <1>5, <1>17 DEF vars
<1>18. QED
  BY <1>6, <1>7, <1>8, <1>9, <1>10, <1>11, <1>12, <1>13, <1>14, <1>15, <1>16, <1>17
  DEF Next, MainStep, WorkerStep

----------------------------------------------------------------------------
(* The theorems                                                            *)

LEMMA InitInv == Init => TypeOK /\ Control /\ CountInv /\ TotalInv
<1> SUFFICES ASSUME Init PROVE TypeOK /\ Control /\ CountInv /\ TotalInv
  OBVIOUS
<1> USE DEF Init
<1>1. TypeOK
  BY DEF TypeOK, Worker, MainState, WorkerState, Nobody, NULL
<1>2. Control
  BY DEF Control, LockInv, StartInv, MailboxInv, WaitInv, ReportsInv, Finished, Stored, Worker,
         Main, Nobody, NULL, MainState
<1>3. CountInv
  <2>1. \A t : Ends(t, 0) = {}
    BY DEF Ends
  <2>2. Cardinality({}) = 0
    BY FS_EmptySet
  <2>3. \A w \in Worker : pos[w] = 0 /\ count[w] = 0 /\ wpc[w] = "absent"
    OBVIOUS
  <2>4. \A w \in Worker : file[w] # Unreadable => Len(file[w]) \in Nat
    BY TextsAssumption
  <2>5. \A w \in Worker : Cardinality(Ends(file[w], pos[w])) = 0
    BY <2>1, <2>2, <2>3
  <2> HIDE DEF Init
  <2>6. QED BY <2>3, <2>4, <2>5 DEF CountInv
<1>4. TotalInv
  BY DEF TotalInv, TotalIsRight, Counted, Stored, Worker
<1>5. QED BY <1>1, <1>2, <1>3, <1>4

\* The inductive invariant holds in every reachable state.
THEOREM Inductive == Spec => [](TypeOK /\ Control /\ CountInv /\ TotalInv)
<1>1. TypeOK /\ Control /\ CountInv /\ TotalInv /\ [Next]_vars
      => (TypeOK /\ Control /\ CountInv /\ TotalInv)'
  BY TypeStep, ControlStep, CountStep, TotalStep
<1>2. QED BY InitInv, <1>1, PTL DEF Spec

\* Counts, positions and the words of the total stay numbers.
THEOREM TypeCorrect == Spec => []TypeOK
  BY Inductive, PTL

\* main never reads the counts through an empty mailbox, for any two files.
THEOREM FlagWasRaisedHolds == Spec => []FlagWasRaised
<1>1. Control => FlagWasRaised
  BY DEF Control, MailboxInv, FlagWasRaised
<1>2. QED BY <1>1, Inductive, PTL

\* main never joins a thread that still needs the lock main holds.
THEOREM JoinIsSafeHolds == Spec => []JoinIsSafe
<1>1. TypeOK /\ Control => JoinIsSafe
  BY DEF TypeOK, Control, LockInv, MailboxInv, JoinIsSafe, Stored, MainState, WorkerState,
         Worker, Main, NULL
<1>2. QED BY <1>1, Inductive, PTL

\* Every signal finds exactly the thread it is meant for.
THEOREM SignalsHold == Spec => []SignalsAreNotLost
<1>1. TypeOK /\ Control => SignalsAreNotLost
  <2> SUFFICES ASSUME TypeOK, Control PROVE SignalsAreNotLost
    OBVIOUS
  <2> USE DEF Control, TypeOK
  <2>1. \A w \in Worker : wpc[w] = "signal" => waiting = {Main}
    BY DEF WaitInv
  <2>2. ASSUME mainPc = "signal" PROVE Main \notin waiting /\ Cardinality(waiting) <= 1
    <3>1. Main \notin waiting
      BY <2>2 DEF LockInv
    <3>2. PICK u \in Worker : Stored(u)
      BY <2>2 DEF ReportsInv
    <3>3. u \notin waiting
      BY <3>2 DEF LockInv, Stored
    <3>4. PICK v \in Worker : waiting \subseteq {v}
      BY <3>1, <3>2, <3>3 DEF Worker
    <3>5. IsFiniteSet({v}) /\ Cardinality({v}) = 1
      BY FS_Singleton
    <3>6. Cardinality(waiting) <= Cardinality({v})
      BY <3>4, <3>5, FS_Subset
    <3>7. QED BY <3>1, <3>5, <3>6
  <2>3. mainPc = "test" => waiting = {}
    BY DEF LockInv, MailboxInv, WaitInv
  <2>4. QED BY <2>1, <2>2, <2>3 DEF SignalsAreNotLost
<1>2. QED BY <1>1, Inductive, PTL

\* The total is right for files of any content, length and readability.
THEOREM TotalIsRightHolds == Spec => []TotalIsRight
<1>1. TotalInv => TotalIsRight
  BY DEF TotalInv
<1>2. QED BY <1>1, Inductive, PTL

\* No count is overwritten before main has collected it.
THEOREM NoOverwriteHolds == Spec => NoOverwrite
<1>1. TypeOK /\ Control /\ [Next]_vars =>
         [mailbox' \in Worker => mailbox = NULL \/ mailbox' = mailbox]_vars
  <2> SUFFICES ASSUME Control, Next, mailbox' # mailbox, mailbox' \in Worker
               PROVE  mailbox = NULL
    BY DEF Next
  <2>1. ASSUME NEW w \in Worker, WorkerStep(w) PROVE mailbox = NULL
    BY <2>1 DEF WorkerStep, ReadChar, FileDone, WorkerLock, FindFull, FindEmpty, WorkerWakes,
                Store, WorkerSignals, Unlock, Return, WorkerGoes, shared, Control, MailboxInv
  <2>2. CASE MainStep
    BY <2>2 DEF MainStep, MainLock, Create, CreateFails, MainWait, MainDone, MainWakes, Collect,
                Join, Clear, MainSignals, shared, Worker, NULL
  <2>3. QED BY <2>1, <2>2 DEF Next
<1>2. QED BY <1>1, Inductive, PTL DEF Spec, NoOverwrite
====
