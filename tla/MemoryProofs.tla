---- MODULE MemoryProofs ----
(***************************************************************************)
(* The memory manager for any memory size, inputs, contents of unset fields *)
(* and number of processes: its sorts sort, its sizes add up, and until it   *)
(* breaks its promise its two lists divide the memory as Partition does.     *)
(* What a fold leaves is stated of the function of its intermediate values;  *)
(* induction runs over a set of indices, so that no operator is a parameter. *)
(***************************************************************************)
EXTENDS MemoryManager, FiniteSetTheorems, SequenceTheorems, WellFoundedInduction, TLAPS

----------------------------------------------------------------------------
(* Induction and folds                                                     *)

\* Induction up to a bound, on a set instead of a predicate.
LEMMA UpTo ==
  ASSUME NEW N \in Nat, NEW S, 0 \in S, \A n \in 0 .. N - 1 : n \in S => n + 1 \in S
  PROVE  \A n \in 0 .. N : n \in S
<1> DEFINE Bad == (0 .. N) \ S
<1> SUFFICES ASSUME Bad # {} PROVE FALSE
  OBVIOUS
<1> DEFINE Less == OpToRel(<, Nat)
<1>1. IsWellFoundedOn(Less, Nat)
  BY NatLessThanWellFounded
<1>2. \A x, y \in Nat : <<x, y>> \in Less <=> x < y
  BY DEF OpToRel
<1>3. Bad \in SUBSET Nat
  OBVIOUS
<1> HIDE DEF Less, Bad
<1>4. PICK n \in Bad : \A m \in Bad : ~ (<<m, n>> \in Less)
  BY <1>1, <1>3, WFMin
<1>5. n \in Nat /\ \A m \in Bad : ~ (m < n)
  BY <1>2, <1>3, <1>4
<1> USE DEF Bad
<1>6. n # 0
  OBVIOUS
<1>7. n - 1 \in 0 .. N - 1 /\ n - 1 \notin Bad
  BY <1>5, <1>6
<1>8. n - 1 \in S /\ (n - 1) + 1 = n
  BY <1>5, <1>7
<1>9. QED BY <1>7, <1>8

\* A non-empty set of indices has a largest element.
LEMMA MaxOf ==
  ASSUME NEW n \in Nat, NEW T \in SUBSET (1 .. n), T # {}
  PROVE  Max(T) \in T /\ \A y \in T : y <= Max(T)
<1> DEFINE Good(m) == \A U \in SUBSET (1 .. m) : U # {} => \E x \in U : \A y \in U : x >= y
           S == {m \in 0 .. n : Good(m)}
<1>1. 0 \in S
  <2>1. 1 .. 0 = {} /\ 0 \in 0 .. n
    OBVIOUS
  <2>2. Good(0)
    BY <2>1
  <2>3. QED BY <2>1, <2>2
<1>2. ASSUME NEW m \in 0 .. n - 1, m \in S PROVE m + 1 \in S
  <2>0. m + 1 \in 0 .. n /\ m \in Nat
    OBVIOUS
  <2> SUFFICES ASSUME NEW U \in SUBSET (1 .. m + 1), U # {}
               PROVE  \E x \in U : \A y \in U : x >= y
    BY <2>0
  <2>1. CASE m + 1 \in U
    BY <2>0, <2>1
  <2>2. CASE m + 1 \notin U
    <3>1. U \in SUBSET (1 .. m)
      BY <2>2
    <3>2. QED BY <1>2, <3>1
  <2>3. QED BY <2>1, <2>2
<1> HIDE DEF S
<1>3. n \in S
  BY <1>1, <1>2, UpTo
<1> USE DEF S
<1>4. \E x \in T : \A y \in T : x >= y
  BY <1>3
<1>5. Max(T) \in T /\ \A y \in T : Max(T) >= y
  BY <1>4 DEF Max
<1>6. QED BY <1>5

\* It also has a least one.
LEMMA LeastOf ==
  ASSUME NEW n \in Nat, NEW T \in SUBSET (1 .. n), T # {}
  PROVE  \E x \in T : \A y \in T : x <= y
<1> DEFINE Good(m) == \A U \in SUBSET (1 .. m) : U # {} => \E x \in U : \A y \in U : x <= y
           S == {m \in 0 .. n : Good(m)}
<1>1. 0 \in S
  <2>1. 1 .. 0 = {} /\ 0 \in 0 .. n
    OBVIOUS
  <2>2. Good(0)
    BY <2>1
  <2>3. QED BY <2>1, <2>2
<1>2. ASSUME NEW m \in 0 .. n - 1, m \in S PROVE m + 1 \in S
  <2>0. m + 1 \in 0 .. n /\ m \in Nat
    OBVIOUS
  <2> SUFFICES ASSUME NEW U \in SUBSET (1 .. m + 1), U # {}
               PROVE  \E x \in U : \A y \in U : x <= y
    BY <2>0
  <2>1. CASE U \cap (1 .. m) = {}
    <3>1. \A y \in U : y = m + 1 /\ y \in Int
      BY <2>0, <2>1
    <3>2. PICK x \in U : TRUE
      OBVIOUS
    <3>3. x \in Int /\ \A y \in U : y = x
      BY <3>1
    <3>4. \A y \in U : x <= y
      BY <3>3
    <3>5. QED BY <3>4
  <2>2. CASE U \cap (1 .. m) # {}
    <3>1. PICK x \in U \cap (1 .. m) : \A y \in U \cap (1 .. m) : x <= y
      BY <1>2, <2>2
    <3>2. \A y \in U : x <= y
      BY <2>0, <3>1
    <3>3. QED BY <3>1, <3>2
  <2>3. QED BY <2>1, <2>2
<1> HIDE DEF S
<1>3. n \in S
  BY <1>1, <1>2, UpTo
<1> USE DEF S
<1>4. QED BY <1>3

\* The first k indices without their largest one are the first k - 1.
LEMMA MaxOfPrefix ==
  ASSUME NEW k \in Nat \ {0}
  PROVE  Max(1 .. k) = k /\ (1 .. k) \ {Max(1 .. k)} = 1 .. k - 1 /\ 1 .. k # {}
<1>1. 1 .. k # {} /\ k \in 1 .. k
  OBVIOUS
<1>2. Max(1 .. k) \in 1 .. k /\ \A y \in 1 .. k : y <= Max(1 .. k)
  BY <1>1, MaxOf
<1>3. Max(1 .. k) = k
  BY <1>1, <1>2
<1>4. QED BY <1>1, <1>3

\* The recursion of MapThenFoldSet, which takes the largest index first.
Folds(iter, n, b, G) ==
  \A T \in SUBSET (1 .. n) :
     iter[T] = IF T = {} THEN b ELSE G[<<iter[T \ {Max(T)}], Max(T)>>]

\* A fold over the indices 1 .. n has a value.
LEMMA FoldExists ==
  ASSUME NEW n \in Nat, NEW D, NEW b \in D, NEW G \in [D \X (1 .. n) -> D]
  PROVE  \E iter \in [SUBSET (1 .. n) -> D] : Folds(iter, n, b, G)
<1> DEFINE Solves(m, iter) == Folds(iter, m, b, G)
           S == {m \in 0 .. n : \E iter \in [SUBSET (1 .. m) -> D] : Solves(m, iter)}
<1>1. 0 \in S
  <2> DEFINE i0 == [T \in SUBSET (1 .. 0) |-> b]
  <2>1. i0 \in [SUBSET (1 .. 0) -> D]
    OBVIOUS
  <2>2. 1 .. 0 = {} /\ 0 \in 0 .. n
    OBVIOUS
  <2>3. Solves(0, i0)
    BY <2>2 DEF Folds
  <2> HIDE DEF i0, Solves
  <2>4. QED BY <2>1, <2>2, <2>3
<1>2. ASSUME NEW m \in 0 .. n - 1, m \in S PROVE m + 1 \in S
  <2>1. PICK iter \in [SUBSET (1 .. m) -> D] : Solves(m, iter)
    BY <1>2
  <2> DEFINE next == [T \in SUBSET (1 .. m + 1) |->
                        IF m + 1 \in T THEN G[<<iter[T \ {m + 1}], m + 1>>] ELSE iter[T]]
  <2>2. ASSUME NEW T \in SUBSET (1 .. m + 1)
        PROVE  /\ m + 1 \in T => T \ {m + 1} \in SUBSET (1 .. m)
               /\ m + 1 \notin T => T \in SUBSET (1 .. m)
    OBVIOUS
  <2>3. next \in [SUBSET (1 .. m + 1) -> D]
    <3> SUFFICES ASSUME NEW T \in SUBSET (1 .. m + 1)
                 PROVE  (IF m + 1 \in T THEN G[<<iter[T \ {m + 1}], m + 1>>] ELSE iter[T]) \in D
      OBVIOUS
    <3>1. CASE m + 1 \in T
      <4>1. iter[T \ {m + 1}] \in D /\ m + 1 \in 1 .. n
        BY <2>2, <3>1
      <4>2. QED BY <3>1, <4>1
    <3>2. CASE m + 1 \notin T
      BY <2>2, <3>2
    <3>3. QED BY <3>1, <3>2
  <2>4. Solves(m + 1, next)
    <3> SUFFICES ASSUME NEW T \in SUBSET (1 .. m + 1)
                 PROVE  next[T] = IF T = {} THEN b ELSE G[<<next[T \ {Max(T)}], Max(T)>>]
      BY DEF Folds
    <3>1. CASE m + 1 \in T
      <4>0. m + 1 \in Nat /\ T # {} /\ \A y \in T : y \in Int /\ y <= m + 1
        BY <3>1
      <4>1. Max(T) \in T /\ \A y \in T : y <= Max(T)
        BY <4>0, MaxOf
      <4>2. Max(T) = m + 1
        <5>1. Max(T) \in Int /\ Max(T) <= m + 1 /\ m + 1 <= Max(T)
          BY <3>1, <4>0, <4>1
        <5>2. QED BY <4>0, <5>1
      <4>3. next[T \ {m + 1}] = iter[T \ {m + 1}]
        <5>1. T \ {m + 1} \in SUBSET (1 .. m + 1) /\ m + 1 \notin T \ {m + 1}
          OBVIOUS
        <5>2. QED BY <5>1
      <4>4. T # {} /\ next[T] = G[<<iter[T \ {m + 1}], m + 1>>]
        BY <3>1
      <4>5. QED BY <4>2, <4>3, <4>4
    <3>2. CASE m + 1 \notin T
      <4>1. T \in SUBSET (1 .. m) /\ next[T] = iter[T]
        BY <2>2, <3>2
      <4>2. next[T \ {Max(T)}] = iter[T \ {Max(T)}]
        <5>1. T \ {Max(T)} \in SUBSET (1 .. m + 1) /\ m + 1 \notin T \ {Max(T)}
          BY <3>2
        <5>2. QED BY <5>1
      <4>3. iter[T] = IF T = {} THEN b ELSE G[<<iter[T \ {Max(T)}], Max(T)>>]
        BY <2>1, <4>1 DEF Folds
      <4>4. QED BY <4>1, <4>2, <4>3
    <3>3. QED BY <3>1, <3>2
  <2> HIDE DEF next, Solves
  <2>5. QED BY <2>3, <2>4
<1> HIDE DEF S
<1>3. n \in S
  BY <1>1, <1>2, UpTo
<1> USE DEF S
<1>4. QED BY <1>3

\* The values of a fold on the prefixes 1 .. k of the index set are the values
\* of a loop.
FoldSteps(fold, n, D, b, G) ==
  /\ fold[{}] = b
  /\ \A k \in 1 .. n : fold[1 .. k - 1] \in D =>
         fold[1 .. k] = G[<<fold[1 .. k - 1], k>>]

\* What a step of the loop makes of a value and an index.
StepOn(G, n, D) == G \in [D \X (1 .. n) -> D]

\* The values of a loop that starts with b and takes n steps of G.
LoopOf(f, n, D, b, G) ==
  f \in [0 .. n -> D] /\ f[0] = b /\ \A k \in 1 .. n : f[k] = G[<<f[k - 1], k>>]

\* A fold over 1 .. n has run through the values of a loop.
LEMMA FoldPrefixes ==
  ASSUME NEW n \in Nat, NEW D, NEW b \in D, NEW G, StepOn(G, n, D), NEW fold, FoldSteps(fold, n, D, b, G)
  PROVE  \E f : LoopOf(f, n, D, b, G) /\ f[n] = fold[1 .. n]
<1> DEFINE f == [k \in 0 .. n |-> fold[1 .. k]]
           S == {k \in 0 .. n : f[k] \in D}
<1> USE DEF FoldSteps, StepOn
<1>1. f[0] = b
  <2>1. 1 .. 0 = {}
    OBVIOUS
  <2>2. QED BY <2>1
<1>2. \A k \in 1 .. n : f[k] = fold[1 .. k] /\ f[k - 1] = fold[1 .. k - 1]
  OBVIOUS
<1>3. f[n] = fold[1 .. n] /\ DOMAIN f = 0 .. n /\ f = [k \in 0 .. n |-> f[k]]
  OBVIOUS
<1> HIDE DEF f
<1>4. \A k \in 1 .. n : f[k - 1] \in D => f[k] = G[<<f[k - 1], k>>]
  BY <1>2
<1>5. 0 \in S
  BY <1>1
<1>6. ASSUME NEW k \in 0 .. n - 1, k \in S PROVE k + 1 \in S
  <2>1. k + 1 \in 1 .. n /\ (k + 1) - 1 = k /\ k + 1 \in 0 .. n /\ f[k] \in D
    BY <1>6
  <2>2. f[k + 1] = G[<<f[k], k + 1>>]
    BY <1>4, <2>1
  <2>3. QED BY <2>1, <2>2
<1> HIDE DEF S
<1>7. \A k \in 0 .. n : k \in S
  BY <1>5, <1>6, UpTo
<1>8. \A k \in 0 .. n : f[k] \in D
  BY <1>7 DEF S
<1>9. f \in [0 .. n -> D]
  BY <1>3, <1>8
<1>10. \A k \in 1 .. n : k - 1 \in 0 .. n
  OBVIOUS
<1>11. \A k \in 1 .. n : f[k] = G[<<f[k - 1], k>>]
  BY <1>4, <1>8, <1>10
<1>12. QED BY <1>1, <1>3, <1>9, <1>11 DEF LoopOf

----------------------------------------------------------------------------
(* The sum of the sizes                                                    *)

\* Sum over a list of elements with sizes: its value is the last one of the
\* function that adds them up one by one.
LEMMA SumSteps ==
  ASSUME NEW T, \A b \in T : b.size \in Int, NEW s \in Seq(T)
  PROVE  \E f \in [0 .. Len(s) -> Int] :
            /\ f[0] = 0
            /\ \A k \in 1 .. Len(s) : f[k] = f[k - 1] + s[k].size
            /\ TotalSize(s) = f[Len(s)]
<1> DEFINE n == Len(s)
           G == [x \in Int \X (1 .. n) |-> x[1] + s[x[2]].size]
           Sum(iter) == iter = [U \in SUBSET DOMAIN s |->
                          IF U = {} THEN 0 ELSE iter[U \ {Max(U)}] + s[Max(U)].size]
           sum == CHOOSE iter : Sum(iter)
<1>1. n \in Nat /\ DOMAIN s = 1 .. n /\ \A k \in 1 .. n : s[k].size \in Int
  BY LenProperties
<1>2. TotalSize(s) = sum[DOMAIN s]
  BY DEF TotalSize, FoldLeft, MapThenFoldSet
<1> HIDE DEF n
<1>3. \E iter : Sum(iter)
  <2>1. G \in [Int \X (1 .. n) -> Int]
    <3>1. \A x \in Int \X (1 .. n) : x[1] \in Int /\ x[2] \in 1 .. n
      OBVIOUS
    <3>2. \A x \in Int \X (1 .. n) : x[1] + s[x[2]].size \in Int
      BY <1>1, <3>1
    <3>3. QED BY <3>2
  <2>2. \A v \in Int, k \in 1 .. n : G[<<v, k>>] = v + s[k].size
    OBVIOUS
  <2> HIDE DEF G
  <2>3. PICK iter \in [SUBSET (1 .. n) -> Int] : Folds(iter, n, 0, G)
    <3>1. 0 \in Int
      OBVIOUS
    <3>2. n \in Nat
      BY <1>1
    <3>3. QED BY <2>1, <3>1, <3>2, FoldExists, Zenon
  <2>4. ASSUME NEW U \in SUBSET (1 .. n), U # {}
        PROVE  G[<<iter[U \ {Max(U)}], Max(U)>>] = iter[U \ {Max(U)}] + s[Max(U)].size
    <3>1. Max(U) \in 1 .. n
      BY <1>1, <2>4, MaxOf
    <3>2. iter[U \ {Max(U)}] \in Int
      OBVIOUS
    <3>3. QED BY <2>2, <3>1, <3>2
  <2>5. ASSUME NEW U \in SUBSET (1 .. n)
        PROVE  iter[U] = IF U = {} THEN 0 ELSE iter[U \ {Max(U)}] + s[Max(U)].size
    BY <2>3, <2>4 DEF Folds
  <2>6. iter = [U \in SUBSET (1 .. n) |->
                  IF U = {} THEN 0 ELSE iter[U \ {Max(U)}] + s[Max(U)].size]
    BY <2>5
  <2>7. QED BY <1>1, <2>6
<1>4. Sum(sum)
  BY <1>3
<1> HIDE DEF sum
<1>5. sum[{}] = 0
  BY <1>4
<1>6. ASSUME NEW k \in 1 .. n PROVE sum[1 .. k] = sum[1 .. k - 1] + s[k].size
  <2>1. 1 .. k \in SUBSET DOMAIN s
    BY <1>1
  <2>2. Max(1 .. k) = k /\ (1 .. k) \ {Max(1 .. k)} = 1 .. k - 1 /\ 1 .. k # {}
    <3>1. k \in Nat \ {0}
      BY <1>1
    <3>2. QED BY <3>1, MaxOfPrefix
  <2>3. sum[1 .. k] = IF 1 .. k = {} THEN 0 ELSE sum[(1 .. k) \ {Max(1 .. k)}] + s[Max(1 .. k)].size
    BY <1>4, <2>1
  <2>4. QED BY <2>2, <2>3
<1> HIDE DEF Sum
<1> DEFINE f == [k \in 0 .. n |-> sum[1 .. k]]
           S == {k \in 0 .. n : f[k] \in Int}
<1>7. f[0] = 0
  BY <1>1, <1>5
<1>8. \A k \in 1 .. n : f[k] = f[k - 1] + s[k].size
  BY <1>1, <1>6
<1>9. \A k \in 0 .. n : f[k] \in Int
  <2> HIDE DEF f
  <2>1. 0 \in S /\ \A k \in 0 .. n - 1 : k \in S => k + 1 \in S
    <3>1. 0 \in S
      BY <1>1, <1>7
    <3>2. ASSUME NEW k \in 0 .. n - 1, k \in S PROVE k + 1 \in S
      <4>1. f[k + 1] = f[k] + s[k + 1].size
        <5>1. k + 1 \in 1 .. n /\ (k + 1) - 1 = k
          BY <1>1
        <5>2. QED BY <1>8, <5>1
      <4>2. s[k + 1].size \in Int
        BY <1>1
      <4>3. QED BY <1>1, <3>2, <4>1, <4>2
    <3>3. QED BY <3>1, <3>2
  <2> HIDE DEF S
  <2>2. \A k \in 0 .. n : k \in S
    BY <1>1, <2>1, UpTo
  <2>3. QED BY <2>2 DEF S
<1>10. f \in [0 .. n -> Int] /\ f[n] = sum[DOMAIN s]
  BY <1>1, <1>9
<1>11. QED BY <1>2, <1>7, <1>8, <1>10 DEF n

\* Any function that adds the sizes up one by one ends with the sum.
AddsUp(g, s) == g[0] = 0 /\ \A k \in 1 .. Len(s) : g[k] = g[k - 1] + s[k].size

\* Any function that adds the sizes up has the total as its last value.
LEMMA SumIs ==
  ASSUME NEW T, \A b \in T : b.size \in Int, NEW s \in Seq(T), NEW g, AddsUp(g, s)
  PROVE  TotalSize(s) = g[Len(s)] /\ TotalSize(s) \in Int
<1> DEFINE n == Len(s)
<1>0. g[0] = 0 /\ \A k \in 1 .. n : g[k] = g[k - 1] + s[k].size
  BY DEF AddsUp
<1>1. PICK f \in [0 .. n -> Int] :
            /\ f[0] = 0
            /\ \A k \in 1 .. n : f[k] = f[k - 1] + s[k].size
            /\ TotalSize(s) = f[n]
  BY SumSteps
<1>2. n \in Nat
  BY LenProperties
<1> HIDE DEF n
<1> DEFINE S == {k \in 0 .. n : f[k] = g[k]}
<1>3. 0 \in S
  BY <1>0, <1>1, <1>2
<1>4. ASSUME NEW k \in 0 .. n - 1, k \in S PROVE k + 1 \in S
  <2>1. k + 1 \in 1 .. n /\ (k + 1) - 1 = k
    BY <1>2
  <2>2. f[k + 1] = f[k] + s[k + 1].size /\ g[k + 1] = g[k] + s[k + 1].size
    BY <1>0, <1>1, <2>1
  <2>3. f[k] = g[k] /\ k + 1 \in 0 .. n
    <3>1. k + 1 \in 0 .. n
      BY <1>2
    <3>2. QED BY <1>4, <3>1
  <2>4. QED BY <2>1, <2>2, <2>3
<1> HIDE DEF S
<1>5. \A k \in 0 .. n : k \in S
  BY <1>2, <1>3, <1>4, UpTo, Zenon
<1>6. n \in S
  BY <1>2, <1>5
<1>7. QED BY <1>1, <1>2, <1>6 DEF S, n

\* A total is a number.
LEMMA SumInt ==
  ASSUME NEW T, \A b \in T : b.size \in Int, NEW s \in Seq(T)
  PROVE  TotalSize(s) \in Int
<1>1. PICK f \in [0 .. Len(s) -> Int] : TotalSize(s) = f[Len(s)]
  BY SumSteps
<1>2. Len(s) \in 0 .. Len(s)
  BY LenProperties
<1>3. QED BY <1>1, <1>2

\* No blocks, one block.
LEMMA SumEmpty == TotalSize(<<>>) = 0
<1> DEFINE T == {b \in {[size |-> 0]} : FALSE}
           g == [k \in {0} |-> 0]
<1>1. <<>> \in Seq(T) /\ Len(<<>>) = 0 /\ \A b \in T : b.size \in Int
  BY EmptySeq
<1>2. g[0] = 0 /\ 1 .. 0 = {}
  OBVIOUS
<1> HIDE DEF T, g
<1>3. AddsUp(g, <<>>)
  BY <1>1, <1>2 DEF AddsUp
<1>4. TotalSize(<<>>) = g[0]
  BY <1>1, <1>3, SumIs
<1>5. QED BY <1>2, <1>4

\* The sum of two lists one after the other.
LEMMA SumConcat ==
  ASSUME NEW T, \A b \in T : b.size \in Int, NEW s \in Seq(T), NEW t \in Seq(T)
  PROVE  TotalSize(s \o t) = TotalSize(s) + TotalSize(t) /\ TotalSize(s) \in Int
         /\ TotalSize(t) \in Int
<1>1. PICK f \in [0 .. Len(s) -> Int] :
            /\ f[0] = 0
            /\ \A k \in 1 .. Len(s) : f[k] = f[k - 1] + s[k].size
            /\ TotalSize(s) = f[Len(s)]
  BY SumSteps
<1>2. PICK h \in [0 .. Len(t) -> Int] :
            /\ h[0] = 0
            /\ \A k \in 1 .. Len(t) : h[k] = h[k - 1] + t[k].size
            /\ TotalSize(t) = h[Len(t)]
  BY SumSteps
<1> DEFINE m == Len(s)
           n == Len(t)
           st == s \o t
           g == [k \in 0 .. m + n |-> IF k <= m THEN f[k] ELSE f[m] + h[k - m]]
<1>3. m \in Nat /\ n \in Nat
  BY LenProperties
<1>4. st \in Seq(T) /\ Len(st) = m + n
      /\ \A k \in 1 .. m + n : st[k] = IF k <= m THEN s[k] ELSE t[k - m]
  BY ConcatProperties
<1>5. /\ f \in [0 .. m -> Int] /\ f[0] = 0
      /\ \A k \in 1 .. m : f[k] = f[k - 1] + s[k].size
      /\ TotalSize(s) = f[m]
  BY <1>1
<1>6. /\ h \in [0 .. n -> Int] /\ h[0] = 0
      /\ \A k \in 1 .. n : h[k] = h[k - 1] + t[k].size
      /\ TotalSize(t) = h[n]
  BY <1>2
<1> HIDE DEF m, n, st
<1>7. g[0] = 0
  BY <1>3, <1>5
<1>8. ASSUME NEW k \in 1 .. m + n PROVE g[k] = g[k - 1] + st[k].size
  <2>1. k \in 0 .. m + n /\ k - 1 \in 0 .. m + n
    BY <1>3
  <2>2. CASE k <= m
    <3>1. k \in 1 .. m /\ k - 1 <= m
      BY <1>3, <2>2
    <3>2. g[k] = f[k] /\ g[k - 1] = f[k - 1] /\ st[k] = s[k]
      BY <1>4, <2>1, <2>2, <3>1
    <3>3. QED BY <1>5, <3>1, <3>2
  <2>3. CASE k = m + 1
    <3>1. k - 1 = m /\ k - m = 1 /\ 1 \in 1 .. n /\ 1 - 1 = 0 /\ ~ (k <= m)
      BY <1>3, <2>3
    <3>2. g[k] = f[m] + h[1] /\ g[k - 1] = f[m] /\ st[k] = t[1]
      BY <1>3, <1>4, <2>1, <3>1
    <3>3. h[1] = h[0] + t[1].size
      BY <1>6, <3>1
    <3>4. h[1] \in Int /\ t[1].size \in Int
      <4>1. t[1] \in T
        BY <3>1, ElementOfSeq DEF n
      <4>2. 1 \in 0 .. n
        BY <1>3, <3>1
      <4>3. QED BY <1>6, <4>1, <4>2
    <3>5. f[m] \in Int
      BY <1>3, <1>5
    <3>6. QED BY <1>6, <3>2, <3>3, <3>4, <3>5
  <2>4. CASE k > m + 1
    <3>1. k - m \in 1 .. n /\ k - m - 1 \in 0 .. n /\ (k - 1) - m = (k - m) - 1
          /\ ~ (k <= m) /\ ~ (k - 1 <= m)
      BY <1>3, <2>4
    <3>2. g[k] = f[m] + h[k - m] /\ g[k - 1] = f[m] + h[(k - m) - 1] /\ st[k] = t[k - m]
      BY <1>4, <2>1, <3>1
    <3>3. h[k - m] = h[(k - m) - 1] + t[k - m].size
      BY <1>6, <3>1
    <3>4. t[k - m] \in T
      BY <3>1, ElementOfSeq DEF n
    <3>5. f[m] \in Int /\ h[(k - m) - 1] \in Int /\ t[k - m].size \in Int
      <4>1. m \in 0 .. m /\ (k - m) - 1 \in 0 .. n
        BY <1>3, <3>1
      <4>2. t[k - m].size \in Int
        BY <3>4
      <4>3. QED BY <1>5, <1>6, <4>1, <4>2
    <3>6. QED BY <3>2, <3>3, <3>5
  <2>5. QED BY <1>3, <2>2, <2>3, <2>4
<1>9. TotalSize(st) = g[m + n]
  <2>1. st \in Seq(T) /\ m + n = Len(st)
    BY <1>4
  <2> HIDE DEF g
  <2>2. AddsUp(g, st)
    BY <1>7, <1>8, <2>1 DEF AddsUp
  <2>3. TotalSize(st) = g[Len(st)]
    BY <2>1, <2>2, SumIs
  <2>4. QED BY <2>1, <2>3
<1>10. g[m + n] = f[m] + h[n]
  <2>1. m + n \in 0 .. m + n /\ (m + n) - m = n
    BY <1>3
  <2>2. CASE n = 0
    BY <1>3, <1>5, <1>6, <2>1, <2>2
  <2>3. CASE n # 0
    BY <1>3, <2>1, <2>3
  <2>4. QED BY <2>2, <2>3
<1>11. f[m] \in Int /\ h[n] \in Int
  BY <1>3, <1>5, <1>6
<1>12. QED BY <1>5, <1>6, <1>9, <1>10, <1>11 DEF st

\* The total of one block.
LEMMA SumOne ==
  ASSUME NEW T, \A b \in T : b.size \in Int, NEW b \in T
  PROVE  <<b>> \in Seq(T) /\ TotalSize(<<b>>) = b.size
<1> DEFINE g == [k \in 0 .. 1 |-> IF k = 0 THEN 0 ELSE b.size]
<1>1. <<b>> \in Seq(T) /\ Len(<<b>>) = 1 /\ <<b>>[1] = b
  OBVIOUS
<1>2. g[0] = 0 /\ g[1] = b.size /\ \A k \in 1 .. 1 : k = 1 /\ k - 1 = 0
  OBVIOUS
<1>3. \A k \in 1 .. 1 : g[k] = g[k - 1] + <<b>>[k].size
  BY <1>1, <1>2
<1> HIDE DEF g
<1>4. AddsUp(g, <<b>>)
  BY <1>1, <1>2, <1>3 DEF AddsUp
<1>5. TotalSize(<<b>>) = g[Len(<<b>>)]
  BY <1>1, <1>4, SumIs
<1>6. QED BY <1>1, <1>2, <1>5

\* The sum without the k-th element: the lists before and after it.
LEMMA SumSplit ==
  ASSUME NEW T, \A b \in T : b.size \in Int, NEW s \in Seq(T), NEW k \in 1 .. Len(s)
  PROVE  /\ SubSeq(s, 1, k - 1) \in Seq(T) /\ SubSeq(s, k + 1, Len(s)) \in Seq(T)
         /\ s = SubSeq(s, 1, k - 1) \o (<<s[k]>> \o SubSeq(s, k + 1, Len(s)))
         /\ TotalSize(s) = TotalSize(SubSeq(s, 1, k - 1)) + s[k].size
                             + TotalSize(SubSeq(s, k + 1, Len(s)))
<1> DEFINE n == Len(s)
           front == SubSeq(s, 1, k - 1)
           back == SubSeq(s, k + 1, n)
<1>1. n \in Nat /\ \A i \in 1 .. n : s[i] \in T
  BY LenProperties
<1>2. k \in 1 .. n
  OBVIOUS
<1> HIDE DEF n
<1>3. front \in Seq(T) /\ back \in Seq(T)
  <2>1. 1 \in Int /\ k - 1 \in Int /\ k + 1 \in Int /\ n \in Int
    BY <1>1, <1>2
  <2>2. \A i \in 1 .. k - 1 : s[i] \in T
    BY <1>1, <1>2
  <2>3. \A i \in k + 1 .. n : s[i] \in T
    BY <1>1, <1>2
  <2>4. front \in Seq(T)
    BY <2>1, <2>2, SubSeqProperties, Zenon
  <2>5. back \in Seq(T)
    BY <2>1, <2>3, SubSeqProperties, Zenon
  <2>6. QED BY <2>4, <2>5
<1>4. s[k] \in T /\ <<s[k]>> \in Seq(T) /\ TotalSize(<<s[k]>>) = s[k].size
  BY <1>1, <1>2, SumOne
<1>5. SubSeq(s, k, n) = <<s[k]>> \o back
  BY <1>2, SubSeqRecursiveFirst DEF n
<1>6. s = front \o SubSeq(s, k, n)
  <2>1. 1 \in 1 .. n + 1 /\ k - 1 \in 1 - 1 .. n /\ n \in k - 1 .. n /\ (k - 1) + 1 = k
    BY <1>1, <1>2
  <2>2. SubSeq(s, 1, k - 1) \o SubSeq(s, (k - 1) + 1, n) = SubSeq(s, 1, n)
    BY <2>1, ConcatAdjacentSubSeq DEF n
  <2>3. SubSeq(s, 1, n) = s
    BY SubSeqFull DEF n
  <2>4. QED BY <2>1, <2>2, <2>3
<1> HIDE DEF front, back
<1>7. <<s[k]>> \o back \in Seq(T)
      /\ TotalSize(<<s[k]>> \o back) = s[k].size + TotalSize(back)
      /\ TotalSize(back) \in Int
  BY <1>3, <1>4, SumConcat, ConcatProperties
<1>8. TotalSize(s) = TotalSize(front) + (s[k].size + TotalSize(back)) /\ TotalSize(front) \in Int
  <2>1. s = front \o (<<s[k]>> \o back)
    BY <1>5, <1>6
  <2>2. TotalSize(front \o (<<s[k]>> \o back)) = TotalSize(front) + TotalSize(<<s[k]>> \o back)
        /\ TotalSize(front) \in Int
    BY <1>3, <1>7, SumConcat
  <2>3. QED BY <1>7, <2>1, <2>2
<1>9. TotalSize(s) = TotalSize(front) + s[k].size + TotalSize(back)
  BY <1>4, <1>7, <1>8
<1>10. QED BY <1>3, <1>5, <1>6, <1>9 DEF front, back, n

\* An element taken out, put at the end, replaced.
LEMMA SumRemove ==
  ASSUME NEW T, \A b \in T : b.size \in Int, NEW s \in Seq(T), NEW k \in 1 .. Len(s)
  PROVE  /\ RemoveAt(s, k) \in Seq(T)
         /\ TotalSize(RemoveAt(s, k)) = TotalSize(s) - s[k].size
<1> DEFINE front == SubSeq(s, 1, k - 1)
           back == SubSeq(s, k + 1, Len(s))
<1>1. /\ front \in Seq(T) /\ back \in Seq(T)
      /\ TotalSize(s) = TotalSize(front) + s[k].size + TotalSize(back)
  BY SumSplit
<1>2. RemoveAt(s, k) = front \o back
  BY DEF RemoveAt
<1> HIDE DEF front, back
<1>3. /\ front \o back \in Seq(T)
      /\ TotalSize(front \o back) = TotalSize(front) + TotalSize(back)
      /\ TotalSize(front) \in Int /\ TotalSize(back) \in Int
  BY <1>1, SumConcat, ConcatProperties
<1>4. s[k].size \in Int
  BY ElementOfSeq
<1>5. QED BY <1>1, <1>2, <1>3, <1>4

\* A block at the end adds its size to the total.
LEMMA SumAppend ==
  ASSUME NEW T, \A b \in T : b.size \in Int, NEW s \in Seq(T), NEW e \in T
  PROVE  Append(s, e) \in Seq(T) /\ TotalSize(Append(s, e)) = TotalSize(s) + e.size
<1>1. <<e>> \in Seq(T) /\ TotalSize(<<e>>) = e.size
  BY SumOne
<1>2. Append(s, e) \in Seq(T) /\ Append(s, e) = s \o <<e>>
  BY AppendProperties, AppendIsConcat
<1>3. TotalSize(s \o <<e>>) = TotalSize(s) + TotalSize(<<e>>)
  BY <1>1, SumConcat
<1>4. QED BY <1>1, <1>2, <1>3

\* A replaced block adds the difference of the sizes to the total.
LEMMA SumExcept ==
  ASSUME NEW T, \A b \in T : b.size \in Int, NEW s \in Seq(T), NEW i \in 1 .. Len(s),
         NEW e \in T
  PROVE  /\ [s EXCEPT ![i] = e] \in Seq(T)
         /\ TotalSize([s EXCEPT ![i] = e]) = TotalSize(s) - s[i].size + e.size
<1> DEFINE n == Len(s)
           t == [s EXCEPT ![i] = e]
<1>1. PICK f \in [0 .. n -> Int] :
            /\ f[0] = 0
            /\ \A k \in 1 .. n : f[k] = f[k - 1] + s[k].size
            /\ TotalSize(s) = f[n]
  BY SumSteps
<1>2. n \in Nat /\ i \in 1 .. n /\ \A k \in 1 .. n : s[k].size \in Int
  BY LenProperties
<1>3. t \in Seq(T) /\ Len(t) = n /\ \A k \in 1 .. n : t[k] = IF k = i THEN e ELSE s[k]
  BY ExceptSeq
<1>4. e.size \in Int
  OBVIOUS
<1> DEFINE g == [k \in 0 .. n |-> IF k < i THEN f[k] ELSE f[k] - s[i].size + e.size]
<1> HIDE DEF n, t
<1>5. g[0] = 0
  BY <1>1, <1>2
<1>6. ASSUME NEW k \in 1 .. n PROVE g[k] = g[k - 1] + t[k].size
  <2>1. k \in 0 .. n /\ k - 1 \in 0 .. n /\ f[k] \in Int /\ f[k - 1] \in Int
        /\ s[i].size \in Int /\ s[k].size \in Int /\ f[k] = f[k - 1] + s[k].size
    <3>1. k \in 0 .. n /\ k - 1 \in 0 .. n
      BY <1>2
    <3>2. QED BY <1>1, <1>2, <3>1
  <2>2. CASE k < i
    BY <1>2, <1>3, <2>1, <2>2
  <2>3. CASE k = i
    <3>1. g[k] = f[k] - s[i].size + e.size /\ g[k - 1] = f[k - 1] /\ t[k] = e
      BY <1>2, <1>3, <2>1, <2>3
    <3>2. QED BY <1>4, <2>1, <2>3, <3>1
  <2>4. CASE k > i
    <3>1. ~ (k < i) /\ ~ (k - 1 < i) /\ k # i
      BY <1>2, <2>4
    <3>2. g[k] = f[k] - s[i].size + e.size /\ g[k - 1] = f[k - 1] - s[i].size + e.size
      BY <2>1, <3>1
    <3>3. t[k] = s[k]
      BY <1>3, <3>1
    <3>4. QED BY <1>4, <2>1, <3>2, <3>3
  <2>5. QED BY <1>2, <2>2, <2>3, <2>4
<1>7. g[n] = f[n] - s[i].size + e.size
  BY <1>2
<1>8. TotalSize(t) = g[n]
  <2> HIDE DEF g
  <2>1. AddsUp(g, t)
    BY <1>3, <1>5, <1>6 DEF AddsUp
  <2>2. TotalSize(t) = g[Len(t)]
    BY <1>3, <2>1, SumIs
  <2>3. QED BY <1>3, <2>2
<1>9. QED BY <1>1, <1>3, <1>7, <1>8 DEF t

----------------------------------------------------------------------------
(* The exchange sorts                                                      *)

\* The lists of n free blocks.
Lists(n) == {t \in Seq(FreeBlock) : Len(t) = n}

\* What a list of n blocks is.
LEMMA ListIs ==
  ASSUME NEW n \in Nat, NEW t \in Lists(n)
  PROVE  /\ t \in Seq(FreeBlock) /\ Len(t) = n /\ DOMAIN t = 1 .. n
         /\ t \in [1 .. n -> FreeBlock]
         /\ \A i \in 1 .. n : t[i] \in FreeBlock
         /\ \A i \in 1 .. n : t[i].start_addr \in Int /\ t[i].size \in Int
<1>1. t \in Seq(FreeBlock) /\ Len(t) = n
  BY DEF Lists
<1>2. DOMAIN t = 1 .. n /\ t \in [1 .. n -> FreeBlock]
  BY <1>1, LenProperties
<1>3. \A i \in 1 .. n : t[i] \in FreeBlock
  BY <1>2
<1>4. QED BY <1>1, <1>2, <1>3 DEF FreeBlock

LEMMA SizedBlocks == \A b \in FreeBlock : b.size \in Int
  BY DEF FreeBlock

\* SumExcept for the free list.
LEMMA SumExceptBlock ==
  ASSUME NEW s \in Seq(FreeBlock), NEW i \in 1 .. Len(s), NEW e \in FreeBlock
  PROVE  TotalSize([s EXCEPT ![i] = e]) = TotalSize(s) - s[i].size + e.size
  BY SizedBlocks, SumExcept

\* Whether it exchanges two nodes or not, CompareSwap returns a list of the
\* same length.
LEMMA CompareSwapIs ==
  ASSUME NEW n \in Nat, NEW t \in Lists(n), NEW i \in 1 .. n, NEW j \in 1 .. n,
         NEW algorithm
  PROVE  LET u == CompareSwap(algorithm, t, i, j)
             swap == i < j /\ Wrong(algorithm, t[i], t[j])
         IN  /\ u \in Lists(n)
             /\ \A k \in 1 .. n :
                   u[k] = IF swap /\ k = i THEN t[j] ELSE IF swap /\ k = j THEN t[i] ELSE t[k]
             /\ TotalSize(u) = TotalSize(t)
<1> DEFINE u == CompareSwap(algorithm, t, i, j)
           swap == i < j /\ Wrong(algorithm, t[i], t[j])
           once == [t EXCEPT ![i] = t[j]]
           twice == [once EXCEPT ![j] = t[i]]
<1>1. /\ t \in Seq(FreeBlock) /\ Len(t) = n /\ DOMAIN t = 1 .. n
      /\ \A k \in 1 .. n : t[k] \in FreeBlock
  BY ListIs
<1>2. CASE ~swap
  <2>1. u = t
    BY <1>2 DEF CompareSwap
  <2>2. QED BY <1>2, <2>1
<1>3. CASE swap
  <2>1. u = twice /\ i # j
    <3>1. u = [t EXCEPT ![i] = t[j], ![j] = t[i]] /\ i # j
      BY <1>3 DEF CompareSwap
    <3>2. QED BY <3>1
  <2>2. /\ once \in Seq(FreeBlock) /\ Len(once) = n
        /\ \A k \in 1 .. n : once[k] = IF k = i THEN t[j] ELSE t[k]
    BY <1>1, ExceptSeq
  <2>3. TotalSize(once) = TotalSize(t) - t[i].size + t[j].size
    <3>1. i \in 1 .. Len(t) /\ t[j] \in FreeBlock
      BY <1>1
    <3>2. QED BY <1>1, <3>1, SumExceptBlock
  <2> HIDE DEF once
  <2>4. /\ twice \in Seq(FreeBlock) /\ Len(twice) = n
        /\ \A k \in 1 .. n : twice[k] = IF k = j THEN t[i] ELSE once[k]
    BY <1>1, <2>2, ExceptSeq
  <2>5. TotalSize(twice) = TotalSize(once) - once[j].size + t[i].size
    <3>1. j \in 1 .. Len(once) /\ t[i] \in FreeBlock
      BY <1>1, <2>2
    <3>2. QED BY <2>2, <3>1, SumExceptBlock
  <2>6. once[j] = t[j]
    BY <2>1, <2>2
  <2> HIDE DEF twice
  <2>7. TotalSize(t) \in Int /\ t[i].size \in Int /\ t[j].size \in Int
    <3>1. TotalSize(t) \in Int
      BY <1>1, SizedBlocks, SumInt, Zenon
    <3>2. QED BY <1>1, <3>1, SizedBlocks
  <2>8. TotalSize(twice) = TotalSize(t)
    BY <2>3, <2>5, <2>6, <2>7
  <2>9. twice \in Lists(n)
    BY <2>4 DEF Lists
  <2>10. \A k \in 1 .. n : twice[k] = IF k = i THEN t[j] ELSE IF k = j THEN t[i] ELSE t[k]
    BY <2>1, <2>2, <2>4
  <2>11. QED BY <1>3, <2>1, <2>8, <2>9, <2>10
<1>4. QED BY <1>2, <1>3

\* A pass of the inner loop is n compare-and-swap steps.
LEMMA PassSteps ==
  ASSUME NEW n \in Nat, NEW t \in Lists(n), NEW i \in 1 .. n, NEW algorithm
  PROVE  \E f \in [0 .. n -> Lists(n)] :
            /\ f[0] = t
            /\ \A j \in 1 .. n : f[j] = CompareSwap(algorithm, f[j - 1], i, j)
            /\ f[n] = Pass(algorithm, t, i)
<1> DEFINE index == [k \in DOMAIN t |-> k]
           Is(iter) == iter = [U \in SUBSET DOMAIN index |->
              IF U = {} THEN t ELSE CompareSwap(algorithm, iter[U \ {Max(U)}], i, index[Max(U)])]
<1>step. PICK G : G = [x \in Lists(n) \X (1 .. n) |-> CompareSwap(algorithm, x[1], i, x[2])]
  OBVIOUS
<1>fold. PICK fold : fold = CHOOSE iter : Is(iter)
  OBVIOUS
<1>1. DOMAIN t = 1 .. n /\ DOMAIN index = 1 .. n /\ \A k \in 1 .. n : index[k] = k
  BY ListIs
<1>2. Pass(algorithm, t, i) = fold[DOMAIN index]
  BY <1>fold DEF Pass, FoldLeftDomain, FoldLeft, MapThenFoldSet
<1> HIDE DEF index
<1>3. G \in [Lists(n) \X (1 .. n) -> Lists(n)]
  <2>1. \A x \in Lists(n) \X (1 .. n) : x[1] \in Lists(n) /\ x[2] \in 1 .. n
    OBVIOUS
  <2>2. \A x \in Lists(n) \X (1 .. n) : CompareSwap(algorithm, x[1], i, x[2]) \in Lists(n)
    BY <2>1, CompareSwapIs
  <2>3. QED BY <1>step, <2>2
<1>4. \A u \in Lists(n), j \in 1 .. n : G[<<u, j>>] = CompareSwap(algorithm, u, i, j)
  BY <1>step
<1>5. t \in Lists(n)
  OBVIOUS
<1>6. PICK iter \in [SUBSET (1 .. n) -> Lists(n)] : Folds(iter, n, t, G)
  BY <1>3, <1>5, FoldExists, Zenon
<1>7. \E it : Is(it)
  <2>1. ASSUME NEW U \in SUBSET (1 .. n)
        PROVE  iter[U] = IF U = {} THEN t
                         ELSE CompareSwap(algorithm, iter[U \ {Max(U)}], i, index[Max(U)])
    <3>1. CASE U = {}
      BY <1>6, <3>1 DEF Folds
    <3>2. CASE U # {}
      <4>1. Max(U) \in 1 .. n
        BY <3>2, MaxOf
      <4>2. iter[U \ {Max(U)}] \in Lists(n)
        OBVIOUS
      <4>3. G[<<iter[U \ {Max(U)}], Max(U)>>] = CompareSwap(algorithm, iter[U \ {Max(U)}], i, Max(U))
        BY <1>4, <4>1, <4>2
      <4>4. QED BY <1>1, <1>6, <3>2, <4>1, <4>3 DEF Folds
    <3>3. QED BY <3>1, <3>2
  <2>2. Is(iter)
    BY <1>1, <2>1
  <2>3. QED BY <2>2
<1>8. Is(fold)
  BY <1>7, <1>fold
<1>9. fold[{}] = t
  BY <1>8
<1>10. ASSUME NEW k \in 1 .. n, fold[1 .. k - 1] \in Lists(n)
       PROVE  fold[1 .. k] = G[<<fold[1 .. k - 1], k>>]
  <2>1. 1 .. k \in SUBSET DOMAIN index
    BY <1>1
  <2>2. Max(1 .. k) = k /\ (1 .. k) \ {Max(1 .. k)} = 1 .. k - 1 /\ 1 .. k # {}
    <3>1. k \in Nat \ {0}
      OBVIOUS
    <3>2. QED BY <3>1, MaxOfPrefix
  <2>3. fold[1 .. k] = CompareSwap(algorithm, fold[1 .. k - 1], i, index[k])
    BY <1>8, <2>1, <2>2
  <2>4. QED BY <1>1, <1>4, <1>10, <2>3
<1> HIDE DEF Is
<1>11. PICK f : LoopOf(f, n, Lists(n), t, G) /\ f[n] = fold[1 .. n]
  <2>1. FoldSteps(fold, n, Lists(n), t, G)
    BY <1>9, <1>10 DEF FoldSteps
  <2>2. StepOn(G, n, Lists(n))
    BY <1>3 DEF StepOn
  <2>3. QED BY <1>5, <2>1, <2>2, FoldPrefixes
<1>12. \A j \in 1 .. n : f[j] = CompareSwap(algorithm, f[j - 1], i, j)
  <2>1. \A j \in 1 .. n : j - 1 \in 0 .. n
    OBVIOUS
  <2>2. QED BY <1>4, <1>11, <2>1 DEF LoopOf
<1>13. f[0] = t /\ f[n] = Pass(algorithm, t, i)
  BY <1>1, <1>2, <1>11 DEF LoopOf
<1>14. QED BY <1>11, <1>12, <1>13 DEF LoopOf

\* A pass keeps the length of the list.
LEMMA PassIs ==
  ASSUME NEW n \in Nat, NEW t \in Lists(n), NEW i \in 1 .. n, NEW algorithm
  PROVE  Pass(algorithm, t, i) \in Lists(n)
<1>1. PICK f \in [0 .. n -> Lists(n)] : f[n] = Pass(algorithm, t, i)
  BY PassSteps, SMTT(30)
<1>2. n \in 0 .. n
  OBVIOUS
<1>3. QED BY <1>1, <1>2

\* The outer loop is n passes.
LEMMA RearrangeSteps ==
  ASSUME NEW n \in Nat, NEW t \in Lists(n), NEW algorithm
  PROVE  \E f \in [0 .. n -> Lists(n)] :
            /\ f[0] = t
            /\ \A j \in 1 .. n : f[j] = Pass(algorithm, f[j - 1], j)
            /\ f[n] = rearrange(algorithm, t)
<1> DEFINE index == [k \in DOMAIN t |-> k]
           Is(iter) == iter = [U \in SUBSET DOMAIN index |->
              IF U = {} THEN t ELSE Pass(algorithm, iter[U \ {Max(U)}], index[Max(U)])]
<1>step. PICK G : G = [x \in Lists(n) \X (1 .. n) |-> Pass(algorithm, x[1], x[2])]
  OBVIOUS
<1>fold. PICK fold : fold = CHOOSE iter : Is(iter)
  OBVIOUS
<1>1. DOMAIN t = 1 .. n /\ DOMAIN index = 1 .. n /\ \A k \in 1 .. n : index[k] = k
  BY ListIs
<1>2. rearrange(algorithm, t) = fold[DOMAIN index]
  BY <1>fold DEF rearrange, FoldLeftDomain, FoldLeft, MapThenFoldSet
<1> HIDE DEF index
<1>3. G \in [Lists(n) \X (1 .. n) -> Lists(n)]
  <2>1. \A x \in Lists(n) \X (1 .. n) : x[1] \in Lists(n) /\ x[2] \in 1 .. n
    OBVIOUS
  <2>2. \A x \in Lists(n) \X (1 .. n) : Pass(algorithm, x[1], x[2]) \in Lists(n)
    BY <2>1, PassIs
  <2>3. QED BY <1>step, <2>2
<1>4. \A u \in Lists(n), j \in 1 .. n : G[<<u, j>>] = Pass(algorithm, u, j)
  BY <1>step
<1>5. t \in Lists(n)
  OBVIOUS
<1>6. PICK iter \in [SUBSET (1 .. n) -> Lists(n)] : Folds(iter, n, t, G)
  BY <1>3, <1>5, FoldExists, Zenon
<1>7. \E it : Is(it)
  <2>1. ASSUME NEW U \in SUBSET (1 .. n)
        PROVE  iter[U] = IF U = {} THEN t
                         ELSE Pass(algorithm, iter[U \ {Max(U)}], index[Max(U)])
    <3>1. CASE U = {}
      BY <1>6, <3>1 DEF Folds
    <3>2. CASE U # {}
      <4>1. Max(U) \in 1 .. n
        BY <3>2, MaxOf
      <4>2. iter[U \ {Max(U)}] \in Lists(n)
        OBVIOUS
      <4>3. G[<<iter[U \ {Max(U)}], Max(U)>>] = Pass(algorithm, iter[U \ {Max(U)}], Max(U))
        BY <1>4, <4>1, <4>2
      <4>4. QED BY <1>1, <1>6, <3>2, <4>1, <4>3 DEF Folds
    <3>3. QED BY <3>1, <3>2
  <2>2. Is(iter)
    BY <1>1, <2>1
  <2>3. QED BY <2>2
<1>8. Is(fold)
  BY <1>7, <1>fold
<1>9. fold[{}] = t
  BY <1>8
<1>10. ASSUME NEW k \in 1 .. n, fold[1 .. k - 1] \in Lists(n)
       PROVE  fold[1 .. k] = G[<<fold[1 .. k - 1], k>>]
  <2>1. 1 .. k \in SUBSET DOMAIN index
    BY <1>1
  <2>2. Max(1 .. k) = k /\ (1 .. k) \ {Max(1 .. k)} = 1 .. k - 1 /\ 1 .. k # {}
    <3>1. k \in Nat \ {0}
      OBVIOUS
    <3>2. QED BY <3>1, MaxOfPrefix
  <2>3. fold[1 .. k] = Pass(algorithm, fold[1 .. k - 1], index[k])
    BY <1>8, <2>1, <2>2
  <2>4. QED BY <1>1, <1>4, <1>10, <2>3
<1> HIDE DEF Is
<1>11. PICK f : LoopOf(f, n, Lists(n), t, G) /\ f[n] = fold[1 .. n]
  <2>1. FoldSteps(fold, n, Lists(n), t, G)
    BY <1>9, <1>10 DEF FoldSteps
  <2>2. StepOn(G, n, Lists(n))
    BY <1>3 DEF StepOn
  <2>3. QED BY <1>5, <2>1, <2>2, FoldPrefixes
<1>12. \A j \in 1 .. n : f[j] = Pass(algorithm, f[j - 1], j)
  <2>1. \A j \in 1 .. n : j - 1 \in 0 .. n
    OBVIOUS
  <2>2. QED BY <1>4, <1>11, <2>1 DEF LoopOf
<1>13. f[0] = t /\ f[n] = rearrange(algorithm, t)
  BY <1>1, <1>2, <1>11 DEF LoopOf
<1>14. QED BY <1>11, <1>12, <1>13 DEF LoopOf

\* A list with the same blocks: p says where each of them comes from.
Moves(p, n, s, t) ==
  /\ p \in [1 .. n -> 1 .. n]
  /\ \A a, b \in 1 .. n : a # b => p[a] # p[b]
  /\ \A b \in 1 .. n : \E a \in 1 .. n : p[a] = b
  /\ \A a \in 1 .. n : t[a] = s[p[a]]

Shuffled(n, s, t) == \E p : Moves(p, n, s, t)

\* A list is a rearrangement of itself.
LEMMA ShuffledSelf ==
  ASSUME NEW n \in Nat, NEW s PROVE Shuffled(n, s, s)
<1> DEFINE p == [a \in 1 .. n |-> a]
<1>1. Moves(p, n, s, s)
  BY DEF Moves
<1>2. QED BY <1>1 DEF Shuffled

\* An exchange of two nodes keeps the blocks.
LEMMA ShuffledSwap ==
  ASSUME NEW n \in Nat, NEW s, NEW t, NEW u, NEW i \in 1 .. n, NEW j \in 1 .. n,
         NEW swap \in BOOLEAN, Shuffled(n, s, t),
         \A k \in 1 .. n :
            u[k] = IF swap /\ k = i THEN t[j] ELSE IF swap /\ k = j THEN t[i] ELSE t[k]
  PROVE  Shuffled(n, s, u)
<1>1. PICK p : Moves(p, n, s, t)
  BY DEF Shuffled
<1> DEFINE q == [k \in 1 .. n |->
                   IF swap /\ k = i THEN p[j] ELSE IF swap /\ k = j THEN p[i] ELSE p[k]]
<1>2. q \in [1 .. n -> 1 .. n]
  BY <1>1 DEF Moves
<1>3. \A a, b \in 1 .. n : a # b => q[a] # q[b]
  BY <1>1 DEF Moves
<1>4. ASSUME NEW b \in 1 .. n PROVE \E a \in 1 .. n : q[a] = b
  <2>1. PICK a \in 1 .. n : p[a] = b
    BY <1>1 DEF Moves
  <2>2. CASE swap /\ a = i
    <3>1. q[j] = b
      BY <2>1, <2>2
    <3>2. QED BY <3>1
  <2>3. CASE swap /\ a = j
    <3>1. q[i] = b
      BY <2>1, <2>3
    <3>2. QED BY <3>1
  <2>4. CASE ~ (swap /\ (a = i \/ a = j))
    <3>1. q[a] = b
      BY <2>1, <2>4
    <3>2. QED BY <3>1
  <2>5. QED BY <2>2, <2>3, <2>4
<1>5. \A a \in 1 .. n : u[a] = s[q[a]]
  BY <1>1 DEF Moves
<1>6. Moves(q, n, s, u)
  BY <1>2, <1>3, <1>4, <1>5 DEF Moves
<1>7. QED BY <1>6 DEF Shuffled

\* What the algorithms sort by.
Algorithms == {MA_FF, MA_BF, MA_WF}

Key(algorithm, b) ==
  IF algorithm = MA_FF THEN b.start_addr ELSE IF algorithm = MA_BF THEN b.size ELSE -b.size

\* Two nodes are in the wrong order when their keys fall.
LEMMA WrongKey ==
  ASSUME NEW algorithm \in Algorithms, NEW b \in FreeBlock, NEW c \in FreeBlock
  PROVE  /\ Key(algorithm, b) \in Int /\ Key(algorithm, c) \in Int
         /\ Wrong(algorithm, b, c) <=> Key(algorithm, b) > Key(algorithm, c)
<1>1. /\ b.start_addr \in Int /\ b.size \in Int
      /\ c.start_addr \in Int /\ c.size \in Int
  BY DEF FreeBlock
<1>2. MA_FF # MA_BF /\ MA_FF # MA_WF /\ MA_BF # MA_WF
  BY DEF MA_FF, MA_BF, MA_WF
<1>3. CASE algorithm = MA_FF
  BY <1>1, <1>2, <1>3 DEF Key, Wrong
<1>4. CASE algorithm = MA_BF
  BY <1>1, <1>2, <1>4 DEF Key, Wrong
<1>5. CASE algorithm = MA_WF
  <2>1. Key(algorithm, b) = -b.size /\ Key(algorithm, c) = -c.size
    BY <1>2, <1>5 DEF Key
  <2>2. Wrong(algorithm, b, c) <=> b.size < c.size
    BY <1>2, <1>5 DEF Wrong
  <2>3. QED BY <1>1, <2>1, <2>2
<1>6. QED BY <1>3, <1>4, <1>5 DEF Algorithms

\* The nodes before i precede all behind them, and node i those up to j.
Ordered(algorithm, n, t, i, j) ==
  \A a, b \in 1 .. n : a < b /\ (a < i \/ (a = i /\ b <= j)) =>
      Key(algorithm, t[a]) <= Key(algorithm, t[b])

\* One comparison puts one more node after the i-th in order.
LEMMA OrderedSwap ==
  ASSUME NEW n \in Nat, NEW t \in Lists(n), NEW i \in 1 .. n, NEW j \in 1 .. n,
         NEW algorithm \in Algorithms, Ordered(algorithm, n, t, i, j - 1)
  PROVE  Ordered(algorithm, n, CompareSwap(algorithm, t, i, j), i, j)
<1> DEFINE u == CompareSwap(algorithm, t, i, j)
           swap == i < j /\ Wrong(algorithm, t[i], t[j])
           K(b) == Key(algorithm, b)
<1>1. \A k \in 1 .. n :
         u[k] = IF swap /\ k = i THEN t[j] ELSE IF swap /\ k = j THEN t[i] ELSE t[k]
  BY CompareSwapIs
<1>2. \A k \in 1 .. n : t[k] \in FreeBlock /\ K(t[k]) \in Int
  BY ListIs, WrongKey
<1>3. Wrong(algorithm, t[i], t[j]) <=> K(t[i]) > K(t[j])
  BY <1>2, WrongKey
<1>4. \A a, b \in 1 .. n : a < b /\ (a < i \/ (a = i /\ b <= j - 1)) => K(t[a]) <= K(t[b])
  BY DEF Ordered
<1> HIDE DEF u, K
<1> SUFFICES ASSUME NEW a \in 1 .. n, NEW b \in 1 .. n, a < b,
                    a < i \/ (a = i /\ b <= j)
             PROVE  K(u[a]) <= K(u[b])
  BY DEF Ordered, u, K
<1>5. CASE ~swap
  <2>1. u[a] = t[a] /\ u[b] = t[b]
    BY <1>1, <1>5
  <2>2. CASE a < i \/ (a = i /\ b <= j - 1)
    BY <1>4, <2>1, <2>2
  <2>3. CASE a = i /\ b = j
    <3>1. ~ (K(t[i]) > K(t[j]))
      BY <1>3, <1>5, <2>3
    <3>2. QED BY <1>2, <2>1, <2>3, <3>1
  <2>4. QED BY <2>2, <2>3
<1>6. CASE swap
  <2>1. i < j /\ K(t[i]) > K(t[j])
    BY <1>3, <1>6
  <2>2. CASE a < i
    <3>1. u[a] = t[a]
      BY <1>1, <2>1, <2>2
    <3>2. PICK c \in 1 .. n : u[b] = t[c] /\ a < c
      BY <1>1, <2>1, <2>2
    <3>3. QED BY <1>4, <2>2, <3>1, <3>2
  <2>3. CASE a = i /\ b = j
    <3>1. u[a] = t[j] /\ u[b] = t[i]
      BY <1>1, <1>6, <2>1, <2>3
    <3>2. QED BY <1>2, <2>1, <3>1
  <2>4. CASE a = i /\ b <= j - 1
    <3>1. u[a] = t[j] /\ u[b] = t[b]
      BY <1>1, <1>6, <2>1, <2>4
    <3>2. K(t[i]) <= K(t[b])
      BY <1>4, <2>4
    <3>3. QED BY <1>2, <2>1, <3>1, <3>2
  <2>5. QED BY <2>2, <2>3, <2>4
<1>7. QED BY <1>5, <1>6

\* A pass keeps the blocks and their sum, and orders one more node.
LEMMA PassKeeps ==
  ASSUME NEW n \in Nat, NEW s, NEW t \in Lists(n), NEW i \in 1 .. n,
         NEW algorithm \in Algorithms, Shuffled(n, s, t),
         Ordered(algorithm, n, t, i, 0)
  PROVE  LET u == Pass(algorithm, t, i)
         IN  /\ u \in Lists(n) /\ Shuffled(n, s, u) /\ TotalSize(u) = TotalSize(t)
             /\ Ordered(algorithm, n, u, i, n)
<1>1. PICK f \in [0 .. n -> Lists(n)] :
            /\ f[0] = t
            /\ \A j \in 1 .. n : f[j] = CompareSwap(algorithm, f[j - 1], i, j)
            /\ f[n] = Pass(algorithm, t, i)
  BY PassSteps, SMTT(30)
<1> DEFINE Good(j) == /\ Shuffled(n, s, f[j]) /\ TotalSize(f[j]) = TotalSize(t)
                      /\ Ordered(algorithm, n, f[j], i, j)
           S == {j \in 0 .. n : Good(j)}
<1>2. 0 \in S
  BY <1>1
<1>3. ASSUME NEW k \in 0 .. n - 1, k \in S PROVE k + 1 \in S
  <2>1. k + 1 \in 1 .. n /\ (k + 1) - 1 = k /\ k + 1 \in 0 .. n /\ k \in 0 .. n
    OBVIOUS
  <2>2. f[k + 1] = CompareSwap(algorithm, f[k], i, k + 1) /\ f[k] \in Lists(n)
    BY <1>1, <2>1
  <2>3. Good(k)
    BY <1>3
  <2> DEFINE w == f[k]
             j == k + 1
             u == CompareSwap(algorithm, w, i, j)
             swap == i < j /\ Wrong(algorithm, w[i], w[j])
  <2>4. w \in Lists(n) /\ j \in 1 .. n
    BY <2>1, <2>2
  <2>5. /\ \A m \in 1 .. n :
             u[m] = IF swap /\ m = i THEN w[j] ELSE IF swap /\ m = j THEN w[i] ELSE w[m]
        /\ TotalSize(u) = TotalSize(w)
    BY <2>4, CompareSwapIs
  <2>6. Shuffled(n, s, w) /\ TotalSize(w) = TotalSize(t)
    BY <2>3
  <2>7. Ordered(algorithm, n, w, i, j - 1)
    BY <2>1, <2>3
  <2>8. Ordered(algorithm, n, u, i, j)
    BY <2>4, <2>7, OrderedSwap
  <2>9. swap \in BOOLEAN
    OBVIOUS
  <2> HIDE DEF w, j, u, swap
  <2>10. Shuffled(n, s, u)
    BY <2>4, <2>5, <2>6, <2>9, ShuffledSwap
  <2>11. u = f[k + 1] /\ j = k + 1
    BY <2>2 DEF u, w, j
  <2>12. Good(k + 1)
    BY <2>5, <2>6, <2>8, <2>10, <2>11
  <2>13. QED BY <2>1, <2>12
<1> HIDE DEF S
<1>4. \A k \in 0 .. n : k \in S
  BY <1>2, <1>3, UpTo
<1>5. n \in 0 .. n
  OBVIOUS
<1>6. Good(n)
  BY <1>4, <1>5 DEF S
<1>7. f[n] \in Lists(n)
  BY <1>5
<1>8. QED BY <1>1, <1>6, <1>7

\* The exchange sorts keep the blocks and their sum, and sort the list.
LEMMA RearrangeIs ==
  ASSUME NEW n \in Nat, NEW s \in Lists(n), NEW algorithm \in Algorithms
  PROVE  LET t == rearrange(algorithm, s)
         IN  /\ t \in Lists(n) /\ Shuffled(n, s, t) /\ TotalSize(t) = TotalSize(s)
             /\ \A a, b \in 1 .. n : a < b => Key(algorithm, t[a]) <= Key(algorithm, t[b])
<1>1. PICK f \in [0 .. n -> Lists(n)] :
            /\ f[0] = s
            /\ \A i \in 1 .. n : f[i] = Pass(algorithm, f[i - 1], i)
            /\ f[n] = rearrange(algorithm, s)
  BY RearrangeSteps
<1> DEFINE Good(i) == /\ Shuffled(n, s, f[i]) /\ TotalSize(f[i]) = TotalSize(s)
                      /\ Ordered(algorithm, n, f[i], i, n)
           S == {i \in 0 .. n : Good(i)}
<1>2. 0 \in S
  <2>1. Shuffled(n, s, s)
    BY ShuffledSelf
  <2>2. Ordered(algorithm, n, s, 0, n)
    BY DEF Ordered
  <2>3. QED BY <1>1, <2>1, <2>2
<1>3. ASSUME NEW k \in 0 .. n - 1, k \in S PROVE k + 1 \in S
  <2>1. k + 1 \in 1 .. n /\ (k + 1) - 1 = k /\ k + 1 \in 0 .. n /\ k \in 0 .. n
    OBVIOUS
  <2>2. f[k + 1] = Pass(algorithm, f[k], k + 1) /\ f[k] \in Lists(n)
    BY <1>1, <2>1
  <2>3. Good(k)
    BY <1>3
  <2>4. Ordered(algorithm, n, f[k], k + 1, 0)
    BY <2>1, <2>3 DEF Ordered
  <2>5. /\ Shuffled(n, s, f[k + 1]) /\ TotalSize(f[k + 1]) = TotalSize(f[k])
        /\ Ordered(algorithm, n, f[k + 1], k + 1, n)
    BY <2>1, <2>2, <2>3, <2>4, PassKeeps
  <2>6. Good(k + 1)
    BY <2>3, <2>5
  <2>7. QED BY <2>1, <2>6
<1> HIDE DEF S
<1>4. \A k \in 0 .. n : k \in S
  BY <1>2, <1>3, UpTo
<1>5. n \in 0 .. n
  OBVIOUS
<1>6. Good(n)
  BY <1>4, <1>5 DEF S
<1>7. f[n] \in Lists(n)
  BY <1>5
<1>8. \A a, b \in 1 .. n : a < b => Key(algorithm, f[n][a]) <= Key(algorithm, f[n][b])
  BY <1>6 DEF Ordered
<1>9. QED BY <1>1, <1>6, <1>7, <1>8

----------------------------------------------------------------------------
(* Joining blocks that touch                                               *)

\* What one step of merge does to the list behind it.
LEMMA JoinIs ==
  ASSUME NEW done \in Seq(FreeBlock), NEW b \in FreeBlock
  PROVE  LET u == Join(done, b)
             touch == done # <<>> /\ Touch(Last(done), b)
             m == Len(done)
         IN  /\ u \in Seq(FreeBlock) /\ TotalSize(u) = TotalSize(done) + b.size
             /\ m \in Nat /\ (done # <<>> => m > 0)
             /\ Len(u) = IF touch THEN m ELSE m + 1
             /\ touch => /\ u[m].start_addr = done[m].start_addr
                         /\ u[m].size = done[m].size + b.size
                         /\ \A k \in 1 .. m - 1 : u[k] = done[k]
             /\ ~touch => u[m + 1] = b /\ \A k \in 1 .. m : u[k] = done[k]
<1> DEFINE u == Join(done, b)
           touch == done # <<>> /\ Touch(Last(done), b)
           m == Len(done)
<1>1. m \in Nat /\ (done # <<>> => m > 0) /\ \A k \in 1 .. m : done[k] \in FreeBlock
  BY LenProperties, EmptySeq
<1>2. CASE ~touch
  <2>1. u = Append(done, b)
    BY <1>2 DEF Join
  <2>2. TotalSize(Append(done, b)) = TotalSize(done) + b.size
    BY SizedBlocks, SumAppend
  <2>3. QED BY <1>1, <1>2, <2>1, <2>2, AppendProperties
<1>3. CASE touch
  <2> DEFINE e == [start_addr |-> done[m].start_addr, size |-> done[m].size + b.size]
  <2>1. m \in 1 .. m /\ done[m] \in FreeBlock
    BY <1>1, <1>3
  <2>2. e \in FreeBlock /\ done[m].size \in Int /\ b.size \in Int
    BY <2>1 DEF FreeBlock
  <2>3. [done[m] EXCEPT !.size = @ + b.size] = e
    BY <2>1 DEF FreeBlock
  <2>4. u = [done EXCEPT ![m] = e]
    <3>1. u = [done EXCEPT ![m] = [done[m] EXCEPT !.size = @ + b.size]]
      BY <1>3 DEF Join
    <3>2. QED BY <2>3, <3>1
  <2>5. e.start_addr = done[m].start_addr /\ e.size = done[m].size + b.size
    OBVIOUS
  <2> HIDE DEF e, m
  <2>6. u \in Seq(FreeBlock) /\ Len(u) = m /\ \A k \in 1 .. m : u[k] = IF k = m THEN e ELSE done[k]
    BY <2>1, <2>2, <2>4, ExceptSeq DEF m
  <2>7. TotalSize(u) = TotalSize(done) - done[m].size + e.size
    BY <2>1, <2>2, <2>4, SumExceptBlock DEF m
  <2>8. TotalSize(done) \in Int
    BY SizedBlocks, SumInt
  <2>9. TotalSize(u) = TotalSize(done) + b.size
    BY <2>2, <2>5, <2>7, <2>8
  <2>10. \A k \in 1 .. m - 1 : u[k] = done[k]
    BY <1>1, <2>6
  <2>11. QED BY <1>1, <1>3, <2>1, <2>5, <2>6, <2>9, <2>10 DEF m
<1>4. QED BY <1>2, <1>3

\* The loop of merge joins the n blocks one by one.
LEMMA JoinSteps ==
  ASSUME NEW n \in Nat, NEW s \in Lists(n)
  PROVE  \E f \in [0 .. n -> Seq(FreeBlock)] :
            /\ f[0] = <<>>
            /\ \A j \in 1 .. n : f[j] = Join(f[j - 1], s[j])
            /\ merge(s) = rearrange(MA_WF, f[n])
<1> DEFINE Is(iter) == iter = [U \in SUBSET DOMAIN s |->
              IF U = {} THEN <<>> ELSE Join(iter[U \ {Max(U)}], s[Max(U)])]
<1>step. PICK G : G = [x \in Seq(FreeBlock) \X (1 .. n) |-> Join(x[1], s[x[2]])]
  OBVIOUS
<1>fold. PICK fold : fold = CHOOSE iter : Is(iter)
  OBVIOUS
<1>1. DOMAIN s = 1 .. n /\ \A k \in 1 .. n : s[k] \in FreeBlock
  BY ListIs
<1>2. merge(s) = rearrange(MA_WF, fold[DOMAIN s])
  BY <1>fold DEF merge, FoldLeft, MapThenFoldSet
<1>3. G \in [Seq(FreeBlock) \X (1 .. n) -> Seq(FreeBlock)]
  <2>1. \A x \in Seq(FreeBlock) \X (1 .. n) : x[1] \in Seq(FreeBlock) /\ x[2] \in 1 .. n
    OBVIOUS
  <2>2. \A x \in Seq(FreeBlock) \X (1 .. n) : Join(x[1], s[x[2]]) \in Seq(FreeBlock)
    BY <1>1, <2>1, JoinIs
  <2>3. QED BY <1>step, <2>2
<1>4. \A u \in Seq(FreeBlock), j \in 1 .. n : G[<<u, j>>] = Join(u, s[j])
  BY <1>step
<1>5. <<>> \in Seq(FreeBlock)
  BY EmptySeq
<1>6. PICK iter \in [SUBSET (1 .. n) -> Seq(FreeBlock)] : Folds(iter, n, <<>>, G)
  BY <1>3, <1>5, FoldExists, Zenon
<1>7. \E it : Is(it)
  <2>1. ASSUME NEW U \in SUBSET (1 .. n)
        PROVE  iter[U] = IF U = {} THEN <<>>
                         ELSE Join(iter[U \ {Max(U)}], s[Max(U)])
    <3>1. CASE U = {}
      BY <1>6, <3>1 DEF Folds
    <3>2. CASE U # {}
      <4>1. Max(U) \in 1 .. n
        BY <3>2, MaxOf
      <4>2. iter[U \ {Max(U)}] \in Seq(FreeBlock)
        OBVIOUS
      <4>3. G[<<iter[U \ {Max(U)}], Max(U)>>] = Join(iter[U \ {Max(U)}], s[Max(U)])
        BY <1>4, <4>1, <4>2
      <4>4. QED BY <1>1, <1>6, <3>2, <4>1, <4>3 DEF Folds
    <3>3. QED BY <3>1, <3>2
  <2>2. Is(iter)
    BY <1>1, <2>1
  <2>3. QED BY <2>2
<1>8. Is(fold)
  BY <1>7, <1>fold
<1>9. fold[{}] = <<>>
  BY <1>8
<1>10. ASSUME NEW k \in 1 .. n, fold[1 .. k - 1] \in Seq(FreeBlock)
       PROVE  fold[1 .. k] = G[<<fold[1 .. k - 1], k>>]
  <2>1. 1 .. k \in SUBSET DOMAIN s
    BY <1>1
  <2>2. Max(1 .. k) = k /\ (1 .. k) \ {Max(1 .. k)} = 1 .. k - 1 /\ 1 .. k # {}
    <3>1. k \in Nat \ {0}
      OBVIOUS
    <3>2. QED BY <3>1, MaxOfPrefix
  <2>3. fold[1 .. k] = Join(fold[1 .. k - 1], s[k])
    BY <1>8, <2>1, <2>2
  <2>4. QED BY <1>1, <1>4, <1>10, <2>3
<1> HIDE DEF Is
<1>11. PICK f : LoopOf(f, n, Seq(FreeBlock), <<>>, G) /\ f[n] = fold[1 .. n]
  <2>1. FoldSteps(fold, n, Seq(FreeBlock), <<>>, G)
    BY <1>9, <1>10 DEF FoldSteps
  <2>2. StepOn(G, n, Seq(FreeBlock))
    BY <1>3 DEF StepOn
  <2>3. PICK D, b : D = Seq(FreeBlock) /\ b = <<>>
    OBVIOUS
  <2>4. b \in D /\ StepOn(G, n, D) /\ FoldSteps(fold, n, D, b, G)
    BY <1>5, <2>1, <2>2, <2>3
  <2>5. \E f : LoopOf(f, n, D, b, G) /\ f[n] = fold[1 .. n]
    BY <2>4, FoldPrefixes
  <2>6. QED BY <2>3, <2>5
<1>12. \A j \in 1 .. n : f[j] = Join(f[j - 1], s[j])
  <2>1. \A j \in 1 .. n : j - 1 \in 0 .. n
    OBVIOUS
  <2>2. QED BY <1>4, <1>11, <2>1 DEF LoopOf
<1>13. f[0] = <<>> /\ merge(s) = rearrange(MA_WF, f[n])
  BY <1>1, <1>2, <1>11 DEF LoopOf
<1>14. QED BY <1>11, <1>12, <1>13 DEF LoopOf

\* Merging keeps the sum of the sizes, of any list.
LEMMA MergeSum ==
  ASSUME NEW n \in Nat, NEW s \in Lists(n)
  PROVE  merge(s) \in Seq(FreeBlock) /\ TotalSize(merge(s)) = TotalSize(s)
<1>1. PICK f \in [0 .. n -> Seq(FreeBlock)] :
            /\ f[0] = <<>>
            /\ \A j \in 1 .. n : f[j] = Join(f[j - 1], s[j])
            /\ merge(s) = rearrange(MA_WF, f[n])
  BY JoinSteps
<1>2. s \in Seq(FreeBlock) /\ Len(s) = n /\ \A k \in 1 .. n : s[k] \in FreeBlock
  BY ListIs
<1> DEFINE g == [k \in 0 .. n |-> TotalSize(f[k])]
<1>3. g[0] = 0
  BY <1>1, SumEmpty
<1>4. ASSUME NEW k \in 1 .. n PROVE g[k] = g[k - 1] + s[k].size
  <2>1. k \in 0 .. n /\ k - 1 \in 0 .. n
    OBVIOUS
  <2>2. f[k - 1] \in Seq(FreeBlock) /\ f[k] = Join(f[k - 1], s[k]) /\ s[k] \in FreeBlock
    BY <1>1, <1>2, <2>1
  <2>3. TotalSize(f[k]) = TotalSize(f[k - 1]) + s[k].size
    BY <2>2, JoinIs
  <2>4. QED BY <2>1, <2>3
<1>5. n \in 0 .. n /\ f[n] \in Seq(FreeBlock) /\ g[n] = TotalSize(f[n])
  OBVIOUS
<1> HIDE DEF g
<1>6. AddsUp(g, s)
  BY <1>2, <1>3, <1>4 DEF AddsUp
<1>7. TotalSize(s) = g[n]
  BY <1>2, <1>6, SizedBlocks, SumIs
<1>8. Len(f[n]) \in Nat /\ f[n] \in Lists(Len(f[n]))
  BY <1>5, LenProperties DEF Lists
<1>9. rearrange(MA_WF, f[n]) \in Lists(Len(f[n]))
      /\ TotalSize(rearrange(MA_WF, f[n])) = TotalSize(f[n])
  BY <1>8, RearrangeIs DEF Algorithms
<1>10. QED BY <1>1, <1>5, <1>7, <1>9 DEF Lists

----------------------------------------------------------------------------
(* Serving a request                                                       *)

\* Joining the first k nodes keeps the sum.
LEMMA JoinedIs ==
  ASSUME NEW w \in Seq(FreeBlock), NEW k \in 1 .. Len(w)
  PROVE  /\ Joined(w, k) \in Seq(FreeBlock) /\ Joined(w, k) # <<>>
         /\ TotalSize(Joined(w, k)) = TotalSize(w)
         /\ Len(Joined(w, k)) = Len(w) - k + 1
         /\ Joined(w, k)[1] \in FreeBlock
         /\ k = 1 => Joined(w, k) = w
<1> DEFINE n == Len(w)
           front == SubSeq(w, 1, k)
           back == SubSeq(w, k + 1, n)
           head == [start_addr |-> w[1].start_addr, size |-> TotalSize(front)]
<1>1. n \in Nat /\ \A i \in 1 .. n : w[i] \in FreeBlock
  BY LenProperties
<1>2. k \in 1 .. n
  OBVIOUS
<1>3. Joined(w, k) = <<head>> \o back
  BY DEF Joined
<1> HIDE DEF n
<1>4. front \in Seq(FreeBlock) /\ Len(front) = k
  <2>1. 1 \in Int /\ k \in Int /\ 1 <= k /\ \A i \in 1 .. k : w[i] \in FreeBlock
    BY <1>1, <1>2
  <2>2. QED BY <2>1, SubSeqProperties
<1>5. back \in Seq(FreeBlock) /\ Len(back) = n - k
  <2>1. k + 1 \in Int /\ n \in Int /\ \A i \in k + 1 .. n : w[i] \in FreeBlock
    BY <1>1, <1>2
  <2>2. back \in Seq(FreeBlock) /\ Len(back) = IF k + 1 <= n THEN n - (k + 1) + 1 ELSE 0
    BY <2>1, SubSeqProperties
  <2>3. (IF k + 1 <= n THEN n - (k + 1) + 1 ELSE 0) = n - k
    BY <1>1, <1>2
  <2>4. QED BY <2>2, <2>3
<1>6. w = front \o back
  <2>1. 1 \in 1 .. n + 1 /\ k \in 1 - 1 .. n /\ n \in k .. n
    BY <1>1, <1>2
  <2>2. front \o back = SubSeq(w, 1, n)
    BY <2>1, ConcatAdjacentSubSeq DEF n
  <2>3. QED BY <2>2, SubSeqFull DEF n
<1>7. w[1] \in FreeBlock
  BY <1>1, <1>2
<1>8. TotalSize(front) \in Int
  BY <1>4, SizedBlocks, SumInt
<1>9. head \in FreeBlock /\ head.size = TotalSize(front)
  BY <1>7, <1>8 DEF FreeBlock
<1> HIDE DEF head, front, back
<1>10. <<head>> \in Seq(FreeBlock) /\ TotalSize(<<head>>) = head.size
  BY <1>9, SizedBlocks, SumOne
<1>11. TotalSize(<<head>> \o back) = TotalSize(<<head>>) + TotalSize(back)
  BY <1>5, <1>10, SizedBlocks, SumConcat
<1>12. TotalSize(front \o back) = TotalSize(front) + TotalSize(back)
  BY <1>4, <1>5, SizedBlocks, SumConcat
<1>13. TotalSize(Joined(w, k)) = TotalSize(w)
  BY <1>3, <1>6, <1>9, <1>10, <1>11, <1>12
<1>14. /\ <<head>> \o back \in Seq(FreeBlock)
       /\ Len(<<head>> \o back) = 1 + (n - k)
       /\ (<<head>> \o back)[1] = head
  <2>1. Len(<<head>>) = 1 /\ <<head>>[1] = head /\ 1 \in 1 .. 1 + (n - k) /\ 1 <= 1
    BY <1>1, <1>2
  <2>2. /\ <<head>> \o back \in Seq(FreeBlock)
        /\ Len(<<head>> \o back) = Len(<<head>>) + Len(back)
        /\ \A i \in 1 .. Len(<<head>>) + Len(back) : (<<head>> \o back)[i] =
               IF i <= Len(<<head>>) THEN <<head>>[i] ELSE back[i - Len(<<head>>)]
    BY <1>5, <1>10, ConcatProperties
  <2>3. QED BY <1>5, <2>1, <2>2
<1>15. <<head>> \o back # <<>> /\ 1 + (n - k) = n - k + 1
  BY <1>1, <1>2, <1>14, EmptySeq
<1>16. ASSUME k = 1 PROVE Joined(w, k) = w
  <2>1. SubSeq(w, 1, 1) = <<w[1]>>
    <3>1. 1 \in 1 .. n /\ 1 \in 1 .. 1
      BY <1>2, <1>16
    <3>2. SubSeq(w, 1, 1) = <<w[1]>> \o SubSeq(w, 1 + 1, 1)
      BY <3>1, SubSeqRecursiveFirst DEF n
    <3>3. SubSeq(w, 1 + 1, 1) = <<>>
      BY SubSeqEmpty
    <3>4. <<w[1]>> \in Seq(FreeBlock)
      BY <1>7
    <3>5. QED BY <3>2, <3>3, <3>4, ConcatEmptySeq
  <2>2. front = <<w[1]>>
    BY <1>16, <2>1 DEF front
  <2>3. TotalSize(front) = w[1].size
    BY <1>7, <2>2, SizedBlocks, SumOne
  <2>4. head = w[1]
    BY <1>7, <2>3 DEF head, FreeBlock
  <2>5. QED BY <1>3, <1>6, <2>2, <2>4
<1>17. QED BY <1>3, <1>9, <1>13, <1>14, <1>15, <1>16 DEF n

\* The loop joins some number of nodes, and none when the head is large enough.
LEMMA JoinedUpIs ==
  ASSUME NEW w \in Seq(FreeBlock), w # <<>>, NEW request \in Int
  PROVE  \E k \in 1 .. Len(w) : JoinedUp(w, request) = Joined(w, k)
<1> DEFINE n == Len(w)
           Enough(k) == k = n \/ Joined(w, k)[1].size >= request
           Stop(k) == Enough(k) /\ \A j \in 1 .. k - 1 : Joined(w, j)[1].size < request
           T == {k \in 1 .. n : Enough(k)}
<1>1. n \in Nat /\ n > 0
  BY LenProperties, EmptySeq
<1>2. n \in T
  BY <1>1
<1>3. PICK k \in T : \A j \in T : k <= j
  <2> HIDE DEF T
  <2>1. T \in SUBSET (1 .. n)
    BY DEF T
  <2>2. QED BY <1>1, <1>2, <2>1, LeastOf
<1>4. ASSUME NEW j \in 1 .. k - 1 PROVE Joined(w, j)[1].size < request
  <2>1. j \in 1 .. n /\ j < k
    BY <1>1
  <2>2. j \notin T
    BY <1>3, <2>1
  <2>3. Joined(w, j)[1].size \in Int
    BY <2>1, JoinedIs, SizedBlocks
  <2>4. QED BY <2>1, <2>2, <2>3
<1>5. \E i \in 1 .. n : Stop(i)
  BY <1>3, <1>4
<1>6. JoinedUp(w, request) = Joined(w, CHOOSE i \in 1 .. n : Stop(i))
  BY DEF JoinedUp
<1>7. (CHOOSE i \in 1 .. n : Stop(i)) \in 1 .. n
  <2> HIDE DEF Stop, n
  <2>1. QED BY <1>5
<1>8. QED BY <1>6, <1>7

\* A sorted list has the blocks it had before.
LEMMA RearrangeList ==
  ASSUME NEW s \in Seq(FreeBlock), NEW algorithm \in Algorithms
  PROVE  LET t == rearrange(algorithm, s)
         IN  /\ t \in Seq(FreeBlock) /\ Len(t) = Len(s) /\ Len(s) \in Nat
             /\ Shuffled(Len(s), s, t) /\ TotalSize(t) = TotalSize(s)
             /\ s # <<>> <=> t # <<>>
<1>1. Len(s) \in Nat /\ s \in Lists(Len(s))
  BY LenProperties DEF Lists
<1> DEFINE t == rearrange(algorithm, s)
<1>2. t \in Lists(Len(s)) /\ Shuffled(Len(s), s, t) /\ TotalSize(t) = TotalSize(s)
  BY <1>1, RearrangeIs
<1>3. t \in Seq(FreeBlock) /\ Len(t) = Len(s)
  BY <1>2 DEF Lists
<1> HIDE DEF t
<1>4. \A u \in Seq(FreeBlock) : u = <<>> <=> Len(u) = 0
  BY EmptySeq, LenProperties
<1>5. s # <<>> <=> t # <<>>
  BY <1>3, <1>4
<1>6. QED BY <1>1, <1>2, <1>3, <1>5 DEF t

\* The block that is handed out and the list that is left add up to the list
\* there was; the block is of the size that was asked for or the whole head.
LEMMA AllocateSum ==
  ASSUME NEW s \in Seq(FreeBlock), s # <<>>, NEW request \in Int
  PROVE  LET a == allocate_mem(s, request)
         IN  /\ a.free \in Seq(FreeBlock)
             /\ a.start_addr \in Int /\ a.size \in Int /\ a.ret \in {0, 1}
             /\ TotalSize(a.free) + (IF a.ret = 1 THEN a.size ELSE 0) = TotalSize(s)
<1> DEFINE w0 == rearrange(MA_WF, s)
           w == JoinedUp(w0, request)
           a == allocate_mem(s, request)
           fit == w[1].size > request
           whole == w[1].size - request <= MIN_SLICE
<1>1. MA_WF \in Algorithms
  BY DEF Algorithms
<1>2. w0 \in Seq(FreeBlock) /\ w0 # <<>> /\ TotalSize(w0) = TotalSize(s)
  BY <1>1, RearrangeList
<1> HIDE DEF w0
<1>3. PICK k \in 1 .. Len(w0) : w = Joined(w0, k)
  BY <1>2, JoinedUpIs
<1>4. /\ w \in Seq(FreeBlock) /\ w # <<>> /\ TotalSize(w) = TotalSize(s)
      /\ w[1] \in FreeBlock
  BY <1>2, <1>3, JoinedIs
<1>5. /\ a.ret = IF fit THEN 1 ELSE 0
      /\ a.start_addr = w[1].start_addr
      /\ a.size = IF whole THEN w[1].size ELSE request
      /\ a.free = IF ~fit THEN rearrange(MA_WF, w)
                  ELSE IF whole THEN Tail(w)
                  ELSE [w EXCEPT ![1] = [start_addr |-> @.start_addr + request,
                                         size |-> @.size - request]]
  BY DEF allocate_mem, TakeHead, w, w0
<1> HIDE DEF a, w
<1>6. w[1].size \in Int /\ w[1].start_addr \in Int /\ TotalSize(w) \in Int
  BY <1>4, SizedBlocks, SumInt DEF FreeBlock
<1>7. CASE ~fit
  <2>1. rearrange(MA_WF, w) \in Seq(FreeBlock) /\ TotalSize(rearrange(MA_WF, w)) = TotalSize(w)
    BY <1>1, <1>4, RearrangeList
  <2>2. a.free = rearrange(MA_WF, w) /\ a.ret = 0
    BY <1>5, <1>7
  <2>3. a.size \in Int /\ a.start_addr \in Int
    BY <1>5, <1>6
  <2>4. QED BY <1>4, <1>6, <2>1, <2>2, <2>3 DEF a
<1>8. CASE fit /\ whole
  <2>1. a.free = Tail(w) /\ a.ret = 1 /\ a.size = w[1].size
    BY <1>5, <1>8
  <2>2. Tail(w) \in Seq(FreeBlock)
    BY <1>4, HeadTailProperties
  <2>3. w = <<w[1]>> \o Tail(w)
    <3>1. 1 \in 1 .. Len(w) /\ Len(w) \in 1 .. Len(w)
      BY <1>4, EmptySeq
    <3>2. SubSeq(w, 1, Len(w)) = <<w[1]>> \o SubSeq(w, 1 + 1, Len(w))
      BY <1>4, <3>1, SubSeqRecursiveFirst
    <3>3. SubSeq(w, 1, Len(w)) = w
      BY <1>4, SubSeqFull
    <3>4. SubSeq(w, 1 + 1, Len(w)) = Tail(w)
      BY <1>4, TailIsSubSeq
    <3>5. QED BY <3>2, <3>3, <3>4
  <2>4. <<w[1]>> \in Seq(FreeBlock) /\ TotalSize(<<w[1]>>) = w[1].size
    BY <1>4, SizedBlocks, SumOne
  <2>5. TotalSize(<<w[1]>> \o Tail(w)) = TotalSize(<<w[1]>>) + TotalSize(Tail(w))
        /\ TotalSize(Tail(w)) \in Int
    BY <2>2, <2>4, SizedBlocks, SumConcat
  <2>6. TotalSize(Tail(w)) + w[1].size = TotalSize(w)
    <3>1. TotalSize(w) = TotalSize(<<w[1]>> \o Tail(w))
      BY <2>3, Zenon
    <3>2. QED BY <1>6, <2>4, <2>5, <3>1
  <2>7. a.start_addr \in Int
    BY <1>5, <1>6
  <2>8. QED BY <1>4, <1>6, <2>1, <2>2, <2>6, <2>7 DEF a
<1>9. CASE fit /\ ~whole
  <2> DEFINE rest == [start_addr |-> w[1].start_addr + request, size |-> w[1].size - request]
  <2>1. a.ret = 1 /\ a.size = request
    BY <1>5, <1>9
  <2>2. rest \in FreeBlock
    BY <1>6 DEF FreeBlock
  <2>3. 1 \in 1 .. Len(w) /\ DOMAIN w = 1 .. Len(w)
    BY <1>4, EmptySeq, LenProperties
  <2>4. a.free = [w EXCEPT ![1] = rest]
    BY <1>5, <1>9, <2>3
  <2>5. rest.size = w[1].size - request
    OBVIOUS
  <2> HIDE DEF rest
  <2>6. a.free \in Seq(FreeBlock)
    BY <1>4, <2>2, <2>3, <2>4, ExceptSeq
  <2>7. TotalSize([w EXCEPT ![1] = rest]) = TotalSize(w) - w[1].size + rest.size
    BY <1>4, <2>2, <2>3, SumExceptBlock
  <2>8. TotalSize(a.free) + request = TotalSize(w)
    BY <1>6, <2>4, <2>5, <2>7
  <2>9. a.start_addr \in Int
    BY <1>5, <1>6
  <2>10. QED BY <1>4, <2>1, <2>6, <2>8, <2>9 DEF a
<1>10. QED BY <1>7, <1>8, <1>9

----------------------------------------------------------------------------
(* Sorting a list that occurs                                              *)

\* The number of nodes with these contents.
Count(n, t, b) == Cardinality({k \in 1 .. n : t[k] = b})

\* The nodes with equal contents are as many after the moves as before.
LEMMA SameCount ==
  ASSUME NEW n \in Nat, NEW s, NEW t, Shuffled(n, s, t), NEW b
  PROVE  Count(n, t, b) = Count(n, s, b)
<1> DEFINE A == {k \in 1 .. n : t[k] = b}
           B == {k \in 1 .. n : s[k] = b}
<1>1. PICK p : Moves(p, n, s, t)
  BY DEF Shuffled
<1> DEFINE q == [k \in A |-> p[k]]
<1>2. q \in [A -> B]
  BY <1>1 DEF Moves
<1>3. \A c, d \in A : q[c] = q[d] => c = d
  BY <1>1 DEF Moves
<1>4. \A d \in B : \E c \in A : q[c] = d
  BY <1>1 DEF Moves
<1>5. IsFiniteSet(A)
  <2>1. IsFiniteSet(1 .. n)
    BY FS_Interval
  <2>2. A \in SUBSET (1 .. n)
    OBVIOUS
  <2> HIDE DEF A
  <2>3. QED BY <2>1, <2>2, FS_Subset
<1> HIDE DEF A, B, q
<1>6. q \in Bijection(A, B)
  <2>1. DOMAIN q = A
    BY <1>2
  <2>2. QED BY <1>2, <1>3, <1>4, <2>1 DEF Bijection, Injection, Surjection, IsInjective
<1>7. ExistsBijection(A, B)
  BY <1>6 DEF ExistsBijection
<1>8. Cardinality(B) = Cardinality(A)
  BY <1>5, <1>7, FS_Bijection
<1>9. QED BY <1>8 DEF A, B, Count

\* The three sorts, as RearrangeSorts states them.
LEMMA Sorted ==
  ASSUME NEW s \in Seq(FreeBlock)
  PROVE  /\ \A algorithm \in {MA_FF, MA_BF, MA_WF} : SameBlocks(rearrange(algorithm, s), s)
         /\ SortedBy(LAMBDA b, c : b.start_addr <= c.start_addr, rearrange(MA_FF, s))
         /\ SortedBy(LAMBDA b, c : b.size <= c.size, rearrange(MA_BF, s))
         /\ SortedBy(LAMBDA b, c : b.size >= c.size, rearrange(MA_WF, s))
<1> DEFINE n == Len(s)
<1>1. n \in Nat /\ s \in Lists(n) /\ DOMAIN s = 1 .. n
  BY LenProperties DEF Lists
<1> HIDE DEF n
<1>2. ASSUME NEW algorithm \in Algorithms
      PROVE  LET t == rearrange(algorithm, s)
             IN  /\ Len(t) = n /\ DOMAIN t = 1 .. n
                 /\ \A k \in 1 .. n : t[k].start_addr \in Int /\ t[k].size \in Int
                 /\ Shuffled(n, s, t)
                 /\ \A a, b \in 1 .. n : a < b => Key(algorithm, t[a]) <= Key(algorithm, t[b])
  <2>1. rearrange(algorithm, s) \in Lists(n)
    BY <1>1, RearrangeIs
  <2>2. QED BY <1>1, <2>1, RearrangeIs, ListIs
<1>3. ASSUME NEW algorithm \in {MA_FF, MA_BF, MA_WF}
      PROVE  SameBlocks(rearrange(algorithm, s), s)
  <2> DEFINE t == rearrange(algorithm, s)
  <2>1. algorithm \in Algorithms
    BY DEF Algorithms
  <2>2. Len(t) = n /\ DOMAIN t = 1 .. n /\ Shuffled(n, s, t)
    BY <1>2, <2>1
  <2> HIDE DEF t
  <2>3. \A b : Count(n, t, b) = Count(n, s, b)
    BY <1>1, <2>2, SameCount
  <2>4. SameBlocks(t, s)
    BY <1>1, <2>2, <2>3 DEF SameBlocks, Count, n
  <2>5. QED BY <2>4 DEF t
<1>4. SortedBy(LAMBDA b, c : b.start_addr <= c.start_addr, rearrange(MA_FF, s))
  <2>1. MA_FF \in Algorithms
    BY DEF Algorithms
  <2>2. QED BY <1>2, <2>1 DEF SortedBy, Key
<1>5. SortedBy(LAMBDA b, c : b.size <= c.size, rearrange(MA_BF, s))
  <2>1. MA_BF \in Algorithms /\ MA_BF # MA_FF
    BY DEF Algorithms, MA_BF, MA_FF
  <2>2. QED BY <1>2, <2>1 DEF SortedBy, Key
<1>6. SortedBy(LAMBDA b, c : b.size >= c.size, rearrange(MA_WF, s))
  <2>1. MA_WF \in Algorithms /\ MA_WF # MA_FF /\ MA_WF # MA_BF
    BY DEF Algorithms, MA_WF, MA_BF, MA_FF
  <2> DEFINE t == rearrange(MA_WF, s)
  <2>2. /\ DOMAIN t = 1 .. n
        /\ \A k \in 1 .. n : t[k].size \in Int
        /\ \A a, b \in 1 .. n : a < b => -t[a].size <= -t[b].size
    BY <1>2, <2>1 DEF Key
  <2> HIDE DEF t
  <2>3. \A a, b \in 1 .. n : a < b => t[a].size >= t[b].size
    BY <2>2
  <2>4. SortedBy(LAMBDA b, c : b.size >= c.size, t)
    BY <2>2, <2>3 DEF SortedBy
  <2>5. QED BY <2>4 DEF t
<1>7. QED BY <1>3, <1>4, <1>5, <1>6

----------------------------------------------------------------------------
(* Types and the sum of the sizes                                          *)

AllocatedBlock == [pid : 1 .. MaxPid, start_addr : Int, size : Int]

LEMMA SizedAllocated == \A b \in AllocatedBlock : b.size \in Int
  BY DEF AllocatedBlock

\* As long as the flag is not set the memory is one free block, or none, and
\* set_mem_size may resize it.
Untouched ==
  flag = 0 =>
      /\ allocated_block_head = <<>>
      /\ \/ free_block = <<>>
         \/ free_block = <<[start_addr |-> 0, size |-> mem_size]>> /\ lost = 0

\* The inductive invariant of the sum.
Sound == TypeOK /\ MemoryConserved /\ (status = "menu" => Untouched)

LEMMA InitSound == Init => Sound
<1> SUFFICES ASSUME Init PROVE Sound
  OBVIOUS
<1> USE ConstantsAssumption
<1> DEFINE b == [start_addr |-> 0, size |-> DEFAULT_MEM_SIZE]
<1>1. b \in FreeBlock /\ b.size = DEFAULT_MEM_SIZE
  BY DEF FreeBlock
<1> HIDE DEF b
<1>2. <<b>> \in Seq(FreeBlock) /\ TotalSize(<<b>>) = DEFAULT_MEM_SIZE
  BY <1>1, SizedBlocks, SumOne
<1>3. <<>> \in Seq(FreeBlock) /\ <<>> \in Seq(AllocatedBlock) /\ TotalSize(<<>>) = 0
  BY EmptySeq, SumEmpty
<1>4. <<b>> # <<>>
  OBVIOUS
<1>5. free_block = <<b>> \/ free_block = <<>>
  BY DEF Init, b
<1>6. TypeOK
  <2>1. free_block \in Seq(FreeBlock) /\ allocated_block_head \in Seq(AllocatedBlock)
    BY <1>2, <1>3, <1>5 DEF Init
  <2>2. intact \in BOOLEAN
    BY DEF Init
  <2>3. /\ mem_size \in Nat \ {0} /\ pid \in 0 .. MaxPid /\ flag \in {0, 1} /\ lost \in Int
        /\ ma_algorithm \in {MA_FF, MA_BF, MA_WF} /\ status \in {"menu", "crashed", "exited"}
    BY DEF Init
  <2>4. QED BY <2>1, <2>2, <2>3 DEF TypeOK, AllocatedBlock
<1>7. MemoryConserved
  BY <1>2, <1>3, <1>4, <1>5 DEF Init, MemoryConserved
<1>8. Untouched
  BY <1>4, <1>5 DEF Init, Untouched, b
<1>9. QED BY <1>6, <1>7, <1>8 DEF Sound

\* What every step uses of the types.
LEMMA TypesAre ==
  ASSUME TypeOK
  PROVE  /\ free_block \in Seq(FreeBlock)
         /\ allocated_block_head \in Seq(AllocatedBlock)
         /\ TotalSize(free_block) \in Int /\ TotalSize(allocated_block_head) \in Int
         /\ mem_size \in Nat \ {0} /\ lost \in Int
         /\ ma_algorithm \in Algorithms
<1>1. free_block \in Seq(FreeBlock) /\ allocated_block_head \in Seq(AllocatedBlock)
  BY DEF TypeOK, AllocatedBlock
<1>2. TotalSize(free_block) \in Int /\ TotalSize(allocated_block_head) \in Int
  BY <1>1, SizedBlocks, SizedAllocated, SumInt
<1>3. QED BY <1>1, <1>2 DEF TypeOK, Algorithms

LEMMA SetMemSizeSound == ASSUME Sound, set_mem_size PROVE Sound'
<1> USE ConstantsAssumption
<1>1. TypeOK /\ MemoryConserved /\ Untouched /\ status = "menu" /\ flag = 0
  BY DEF Sound, set_mem_size
<1>2. PICK size \in Input :
          IF size > 0 /\ free_block = <<>>
          THEN Crash
          ELSE /\ mem_size' = IF size > 0 THEN size ELSE mem_size
               /\ free_block' = IF size > 0 THEN [free_block EXCEPT ![1].size = size]
                                            ELSE free_block
               /\ flag' = 1
               /\ UNCHANGED <<allocated_block_head, ma_algorithm, pid, status, history>>
  BY DEF set_mem_size
<1>3. size \in Int
  OBVIOUS
<1>4. CASE size > 0 /\ free_block = <<>>
  <2>1. Crash
    BY <1>2, <1>4
  <2>2. TypeOK' /\ status' = "crashed"
    BY <1>1, <2>1 DEF Crash, TypeOK, lists, settings, history
  <2>3. QED BY <2>2 DEF Sound, MemoryConserved
<1>5. CASE ~(size > 0)
  <2>1. /\ UNCHANGED <<free_block, allocated_block_head, mem_size, ma_algorithm, pid, status,
                       intact, lost>>
        /\ flag' = 1
    BY <1>2, <1>5 DEF history
  <2>2. QED BY <1>1, <2>1 DEF Sound, TypeOK, MemoryConserved, Untouched
<1>6. CASE size > 0 /\ free_block # <<>>
  <2> DEFINE b == [start_addr |-> 0, size |-> mem_size]
             c == [start_addr |-> 0, size |-> size]
  <2>1. free_block = <<b>> /\ lost = 0 /\ allocated_block_head = <<>>
    BY <1>1, <1>6 DEF Untouched
  <2>2. /\ mem_size' = size /\ flag' = 1
        /\ free_block' = [free_block EXCEPT ![1].size = size]
        /\ UNCHANGED <<allocated_block_head, ma_algorithm, pid, status, intact, lost>>
    BY <1>2, <1>6 DEF history
  <2>3. free_block' = <<c>>
    BY <2>1, <2>2
  <2>4. c \in FreeBlock /\ c.size = size
    BY <1>3 DEF FreeBlock
  <2> HIDE DEF b, c
  <2>5. <<c>> \in Seq(FreeBlock) /\ TotalSize(<<c>>) = size
    BY <2>4, SizedBlocks, SumOne
  <2>6. TotalSize(<<>>) = 0
    BY SumEmpty
  <2>7. TypeOK'
    <3>1. mem_size' \in Nat \ {0} /\ free_block' \in Seq(FreeBlock)
      <4>1. size \in Nat \ {0}
        BY <1>3, <1>6
      <4>2. mem_size' = size
        BY <2>2
      <4>3. free_block' \in Seq(FreeBlock)
        BY <2>3, <2>5
      <4>4. QED BY <4>1, <4>2, <4>3
    <3>2. /\ flag' = 1
          /\ UNCHANGED <<allocated_block_head, ma_algorithm, pid, status, intact, lost>>
      BY <2>2
    <3>3. QED BY <1>1, <3>1, <3>2 DEF TypeOK
  <2>8. MemoryConserved'
    <3>1. TotalSize(free_block') = size /\ TotalSize(allocated_block_head') = 0 /\ lost' = 0
      BY <2>1, <2>2, <2>3, <2>5, <2>6
    <3>2. QED BY <1>3, <2>2, <3>1 DEF MemoryConserved
  <2>9. QED BY <2>2, <2>7, <2>8 DEF Sound, Untouched
<1>7. QED BY <1>4, <1>5, <1>6

LEMMA SetAlgorithmSound == ASSUME Sound, set_algorithm PROVE Sound'
<1>1. TypeOK /\ MemoryConserved /\ status = "menu"
  BY DEF Sound, set_algorithm
<1>2. /\ ma_algorithm' \in Algorithms
      /\ free_block' = rearrange(ma_algorithm', free_block)
      /\ flag' = 1
      /\ UNCHANGED <<allocated_block_head, mem_size, pid, status, intact, lost>>
  <2>1. PICK algorithm \in 0 .. MA_WF :
          /\ ma_algorithm' = IF algorithm >= 1 THEN algorithm ELSE ma_algorithm
          /\ free_block' = rearrange(ma_algorithm', free_block)
    BY DEF set_algorithm
  <2>2. ma_algorithm' \in Algorithms
    BY <1>1, <2>1, TypesAre DEF Algorithms, MA_FF, MA_BF, MA_WF
  <2>3. QED BY <2>1, <2>2 DEF set_algorithm, history
<1>3. free_block \in Seq(FreeBlock)
  BY <1>1, TypesAre
<1>4. free_block' \in Seq(FreeBlock) /\ TotalSize(free_block') = TotalSize(free_block)
  BY <1>2, <1>3, RearrangeList
<1>5. TypeOK'
  BY <1>1, <1>2, <1>4 DEF TypeOK, Algorithms
<1>6. MemoryConserved'
  <2>1. TotalSize(allocated_block_head') = TotalSize(allocated_block_head) /\ lost' = lost
        /\ mem_size' = mem_size
    BY <1>2
  <2>2. QED BY <1>1, <1>4, <2>1 DEF MemoryConserved
<1>7. QED BY <1>2, <1>5, <1>6 DEF Sound, Untouched

LEMMA NewProcessSound == ASSUME Sound, new_process PROVE Sound'
<1> USE ConstantsAssumption
<1>1. TypeOK /\ MemoryConserved /\ status = "menu" /\ free_block # <<>> /\ pid < MaxPid
  BY DEF Sound, new_process, Served
<1>2. PICK size \in Input, request \in Garbage \cup Input :
        /\ free_block' = allocate_mem(free_block, request).free
        /\ intact' = (intact /\ allocate_mem(free_block, request).nodes = Len(free_block)
                             /\ size > 0)
        /\ allocated_block_head' =
              IF allocate_mem(free_block, request).ret = 1
              THEN <<[pid |-> pid + 1, start_addr |-> allocate_mem(free_block, request).start_addr,
                      size |-> allocate_mem(free_block, request).size]>>
                      \o allocated_block_head
              ELSE allocated_block_head
  BY DEF new_process, Served, Requests
<1>3. /\ pid' = pid + 1 /\ flag' = 1
      /\ UNCHANGED <<mem_size, ma_algorithm, status, lost>>
  BY DEF new_process, Served, settings
<1>4. request \in Int
  OBVIOUS
<1>5. /\ free_block \in Seq(FreeBlock) /\ allocated_block_head \in Seq(AllocatedBlock)
      /\ TotalSize(free_block) \in Int /\ TotalSize(allocated_block_head) \in Int
      /\ pid \in Nat /\ lost \in Int /\ mem_size \in Nat \ {0}
  BY <1>1, TypesAre DEF TypeOK
<1> DEFINE a == allocate_mem(free_block, request)
           b == [pid |-> pid + 1, start_addr |-> a.start_addr, size |-> a.size]
<1>6. /\ a.free \in Seq(FreeBlock)
      /\ a.start_addr \in Int /\ a.size \in Int /\ a.ret \in {0, 1}
      /\ TotalSize(a.free) + (IF a.ret = 1 THEN a.size ELSE 0) = TotalSize(free_block)
  BY <1>1, <1>4, <1>5, AllocateSum
<1>7. b \in AllocatedBlock /\ b.size = a.size
  BY <1>1, <1>5, <1>6 DEF AllocatedBlock, TypeOK
<1>8. free_block' = a.free
      /\ allocated_block_head' = IF a.ret = 1 THEN <<b>> \o allocated_block_head
                                              ELSE allocated_block_head
  BY <1>2
<1>9. intact' \in BOOLEAN
  BY <1>1, <1>2 DEF TypeOK
<1> HIDE DEF a, b
<1>10. <<b>> \in Seq(AllocatedBlock) /\ TotalSize(<<b>>) = b.size
  BY <1>7, SizedAllocated, SumOne
<1>11. /\ <<b>> \o allocated_block_head \in Seq(AllocatedBlock)
       /\ TotalSize(<<b>> \o allocated_block_head) = b.size + TotalSize(allocated_block_head)
  BY <1>5, <1>10, SizedAllocated, SumConcat, ConcatProperties
<1>12. allocated_block_head' \in Seq(AllocatedBlock)
  BY <1>5, <1>8, <1>11
<1>13. TotalSize(free_block') \in Int
  BY <1>6, <1>8, SizedBlocks, SumInt
<1>14. TotalSize(free_block') + TotalSize(allocated_block_head')
         = TotalSize(free_block) + TotalSize(allocated_block_head)
  <2>1. CASE a.ret = 1
    <3>1. TotalSize(allocated_block_head') = a.size + TotalSize(allocated_block_head)
      BY <1>7, <1>8, <1>11, <2>1
    <3>2. TotalSize(free_block') + a.size = TotalSize(free_block)
      BY <1>6, <1>8, <2>1
    <3>3. QED BY <1>5, <1>6, <1>13, <3>1, <3>2
  <2>2. CASE a.ret # 1
    <3>1. allocated_block_head' = allocated_block_head
      BY <1>8, <2>2
    <3>2. TotalSize(free_block') + 0 = TotalSize(free_block)
      BY <1>6, <1>8, <2>2
    <3>3. QED BY <1>5, <1>13, <3>1, <3>2
  <2>3. QED BY <2>1, <2>2
<1>15. TypeOK'
  BY <1>1, <1>3, <1>5, <1>6, <1>8, <1>9, <1>12 DEF TypeOK, AllocatedBlock
<1>16. MemoryConserved'
  BY <1>1, <1>3, <1>14 DEF MemoryConserved
<1>17. QED BY <1>3, <1>15, <1>16 DEF Sound, Untouched

\* The block of a process leaves its list.
LEMMA DisposedIs ==
  ASSUME TypeOK, NEW k \in DOMAIN allocated_block_head
  PROVE  /\ allocated_block_head[k] \in AllocatedBlock
         /\ Region(allocated_block_head[k]) \in FreeBlock
         /\ Region(allocated_block_head[k]).size = allocated_block_head[k].size
         /\ allocated_block_head[k].size \in Int
         /\ Disposed(k) \in Seq(AllocatedBlock)
         /\ TotalSize(Disposed(k)) = TotalSize(allocated_block_head) - allocated_block_head[k].size
<1>1. allocated_block_head \in Seq(AllocatedBlock)
  BY TypesAre
<1>2. k \in 1 .. Len(allocated_block_head)
  BY <1>1, LenProperties
<1>3. allocated_block_head[k] \in AllocatedBlock
  BY <1>1, <1>2, ElementOfSeq
<1>4. RemoveAt(allocated_block_head, k) \in Seq(AllocatedBlock)
      /\ TotalSize(RemoveAt(allocated_block_head, k))
           = TotalSize(allocated_block_head) - allocated_block_head[k].size
  BY <1>1, <1>2, SizedAllocated, SumRemove
<1>5. QED BY <1>3, <1>4 DEF Region, Disposed, FreeBlock, AllocatedBlock

LEMMA KillProcessSound == ASSUME Sound, kill_process PROVE Sound'
<1>1. TypeOK /\ MemoryConserved /\ status = "menu"
  BY DEF Sound, kill_process
<1>2. PICK k \in DOMAIN allocated_block_head :
          /\ free_block' =
                merge(rearrange(MA_FF, Append(free_block, Region(allocated_block_head[k]))))
          /\ allocated_block_head' = Disposed(k)
  BY DEF kill_process
<1>3. flag' = 1 /\ UNCHANGED <<mem_size, ma_algorithm, pid, status, intact, lost>>
  BY DEF kill_process, settings, history
<1> DEFINE u == allocated_block_head[k]
           r == Region(u)
           s1 == Append(free_block, r)
           s2 == rearrange(MA_FF, s1)
<1>4. /\ r \in FreeBlock /\ r.size = u.size /\ u.size \in Int
      /\ allocated_block_head' \in Seq(AllocatedBlock)
      /\ TotalSize(allocated_block_head') = TotalSize(allocated_block_head) - u.size
  BY <1>1, <1>2, DisposedIs
<1>5. free_block' = merge(s2)
  BY <1>2
<1>6. /\ free_block \in Seq(FreeBlock)
      /\ TotalSize(free_block) \in Int /\ TotalSize(allocated_block_head) \in Int
      /\ lost \in Int
  BY <1>1, TypesAre
<1> HIDE DEF r, u
<1>7. s1 \in Seq(FreeBlock) /\ TotalSize(s1) = TotalSize(free_block) + r.size
  BY <1>4, <1>6, SizedBlocks, SumAppend
<1> HIDE DEF s1
<1>8. s2 \in Seq(FreeBlock) /\ TotalSize(s2) = TotalSize(s1)
  BY <1>7, RearrangeList DEF Algorithms
<1> HIDE DEF s2
<1>9. free_block' \in Seq(FreeBlock) /\ TotalSize(free_block') = TotalSize(s2)
  <2>1. Len(s2) \in Nat /\ s2 \in Lists(Len(s2))
    BY <1>8, LenProperties DEF Lists
  <2>2. merge(s2) \in Seq(FreeBlock) /\ TotalSize(merge(s2)) = TotalSize(s2)
    BY <2>1, MergeSum
  <2>3. QED BY <1>5, <2>2
<1>10. TypeOK'
  BY <1>1, <1>3, <1>4, <1>9 DEF TypeOK, AllocatedBlock
<1>11. MemoryConserved'
  <2>1. TotalSize(free_block') = TotalSize(free_block) + u.size
    BY <1>4, <1>7, <1>8, <1>9
  <2>2. TotalSize(free_block') + TotalSize(allocated_block_head') + lost
          = TotalSize(free_block) + TotalSize(allocated_block_head) + lost
    BY <1>4, <1>6, <2>1
  <2>3. QED BY <1>1, <1>3, <2>2 DEF MemoryConserved
<1>12. QED BY <1>3, <1>10, <1>11 DEF Sound, Untouched

LEMMA KillLosesSound == ASSUME Sound, kill_processLosesBlock PROVE Sound'
<1>1. TypeOK /\ MemoryConserved /\ status = "menu"
  BY DEF Sound, kill_processLosesBlock
<1>2. PICK k \in DOMAIN allocated_block_head :
          /\ allocated_block_head' = Disposed(k)
          /\ lost' = lost + allocated_block_head[k].size
  BY DEF kill_processLosesBlock
<1>3. /\ flag' = 1 /\ intact' = FALSE
      /\ UNCHANGED <<free_block, mem_size, ma_algorithm, pid, status>>
  BY DEF kill_processLosesBlock, settings
<1> DEFINE u == allocated_block_head[k]
<1>4. /\ u.size \in Int
      /\ allocated_block_head' \in Seq(AllocatedBlock)
      /\ TotalSize(allocated_block_head') = TotalSize(allocated_block_head) - u.size
  BY <1>1, <1>2, DisposedIs
<1>5. lost' = lost + u.size
  BY <1>2
<1>6. /\ TotalSize(free_block) \in Int /\ TotalSize(allocated_block_head) \in Int
      /\ lost \in Int
  BY <1>1, TypesAre
<1> HIDE DEF u
<1>7. TypeOK'
  <2>1. lost' \in Int /\ allocated_block_head' \in Seq(AllocatedBlock)
    BY <1>4, <1>5, <1>6
  <2>2. QED BY <1>1, <1>3, <2>1 DEF TypeOK, AllocatedBlock
<1>8. MemoryConserved'
  <2>1. TotalSize(free_block') = TotalSize(free_block)
    BY <1>3
  <2>2. TotalSize(free_block') + TotalSize(allocated_block_head') + lost'
          = TotalSize(free_block) + TotalSize(allocated_block_head) + lost
    BY <1>4, <1>5, <1>6, <2>1
  <2>3. QED BY <1>1, <1>3, <2>2 DEF MemoryConserved
<1>9. QED BY <1>3, <1>7, <1>8 DEF Sound, Untouched

\* The steps that end the program: nothing but its status and, in do_exit, the
\* lists change.
Ending ==
  \/ set_algorithmCrash \/ new_processCrash \/ new_processNoMemory
  \/ kill_processCrash \/ kill_unknownCrash \/ do_exit \/ do_exitCrash

LEMMA EndingSound == ASSUME Sound, Ending PROVE Sound' /\ status' # "menu"
<1> USE ConstantsAssumption
<1>1. TypeOK
  BY DEF Sound
<1>2. CASE Crash
  BY <1>1, <1>2 DEF Crash, Sound, TypeOK, MemoryConserved, lists, settings, history
<1>3. CASE new_processNoMemory
  BY <1>1, <1>3 DEF new_processNoMemory, Sound, TypeOK, MemoryConserved, lists, settings, history
<1>4. CASE do_exit
  <2> DEFINE b == [start_addr |-> DEFAULT_MEM_SIZE, size |-> mem_size]
  <2>1. /\ free_block' = [free_block EXCEPT ![1] = b] /\ free_block # <<>>
        /\ allocated_block_head' = <<>> /\ status' = "exited"
        /\ UNCHANGED <<mem_size, ma_algorithm, pid, flag, intact, lost>>
    BY <1>4 DEF do_exit, settings, history
  <2>2. free_block \in Seq(FreeBlock) /\ 1 \in 1 .. Len(free_block)
    BY <1>1, <2>1, EmptySeq DEF TypeOK
  <2>3. b \in FreeBlock
    BY <1>1 DEF TypeOK, FreeBlock
  <2> HIDE DEF b
  <2>4. free_block' \in Seq(FreeBlock)
    BY <2>1, <2>2, <2>3, ExceptSeq
  <2>5. allocated_block_head' \in Seq([pid : 1 .. MaxPid, start_addr : Int, size : Int])
    BY <2>1, EmptySeq
  <2>6. TypeOK'
    BY <1>1, <2>1, <2>4, <2>5 DEF TypeOK
  <2>7. QED BY <2>1, <2>6 DEF Sound, MemoryConserved
<1>5. QED BY <1>2, <1>3, <1>4 DEF Ending, set_algorithmCrash, new_processCrash, kill_processCrash,
             kill_unknownCrash, do_exitCrash

LEMMA NextSound == ASSUME Sound, [Next]_vars PROVE Sound'
<1>1. CASE UNCHANGED vars
  BY <1>1 DEF Sound, TypeOK, MemoryConserved, Untouched, vars, lists, settings, history
<1>2. CASE display_mem_usage
  BY <1>2 DEF display_mem_usage, Sound, TypeOK, MemoryConserved, Untouched, lists, settings, history
<1>3. CASE Ending
  BY <1>3, EndingSound
<1>4. QED BY <1>1, <1>2, <1>3, SetMemSizeSound, SetAlgorithmSound, NewProcessSound,
             KillProcessSound, KillLosesSound DEF Next, Ending

LEMMA SoundHolds == Spec => []Sound
<1>1. QED BY InitSound, NextSound, PTL DEF Spec

\* Every variable keeps its type: the menu never stores what it could not read
\* back, for every memory size, input and content of unset fields.
THEOREM TypeCorrect == Spec => []TypeOK
<1>1. Sound => TypeOK
  BY DEF Sound
<1>2. QED BY <1>1, SoundHolds, PTL

\* No memory is lost and none invented by joining, splitting, sorting, or by
\* taking an unset size, whatever is typed: all sizes add up to mem_size.
THEOREM MemoryConservedHolds == Spec => []MemoryConserved
<1>1. Sound => MemoryConserved
  BY DEF Sound
<1>2. QED BY <1>1, SoundHolds, PTL

\* The pairwise exchange of lines 147-196 sorts every list that occurs, for
\* each of the three algorithms, and keeps its blocks.
THEOREM RearrangeSortsHolds == Spec => []RearrangeSorts
<1>1. TypeOK => RearrangeSorts
  BY Sorted DEF TypeOK, RearrangeSorts
<1>2. QED BY <1>1, TypeCorrect, PTL

----------------------------------------------------------------------------
(* The abstract partition                                                  *)

VARIABLES free, used, extent, broken

P == INSTANCE Partition

\* The sets of blocks F, free, and U, in use, divide a memory of n addresses:
\* what Partition promises, of any sets.
Divides(F, U, n) ==
  /\ F \subseteq P!Block /\ U \subseteq P!UsedBlock /\ n \in Nat \ {0}
  /\ \A b \in F \cup U : P!Cells(b) \subseteq 0 .. n - 1
  /\ \A a \in 0 .. n - 1 : \E b \in F \cup U : a \in P!Cells(b)
  /\ \A b, c \in F : b # c => P!Cells(b) \cap P!Cells(c) = {}
  /\ \A b, c \in U : b # c => P!Cells(b) \cap P!Cells(c) = {}
  /\ \A b \in F, c \in U : P!Cells(b) \cap P!Cells(c) = {}
  /\ \A b, c \in F : ~P!Touch(b, c)

Whole(n) == [start |-> 0, size |-> n]

\* u takes the front of the free block b, or the whole of it.
Taken(F, U, b, u, F2, U2) ==
  /\ b \in F /\ u \in P!UsedBlock
  /\ u.start = b.start /\ u.size <= b.size
  /\ U2 = U \cup {u}
  /\ F2 = (F \ {b}) \cup
            (IF u.size = b.size THEN {}
             ELSE {[start |-> b.start + u.size, size |-> b.size - u.size]})

\* u becomes free, and the free blocks are regrouped.
Released(F, U, u, F2, U2) ==
  /\ u \in U /\ U2 = U \ {u} /\ F2 \subseteq P!Block
  /\ \A b \in F2 : \A a \in P!Cells(b) :
        a \in P!Cells(u) \/ \E c \in F : a \in P!Cells(c)
  /\ \A c \in F : \A a \in P!Cells(c) : \E b \in F2 : a \in P!Cells(b)
  /\ \A a \in P!Cells(u) : \E b \in F2 : a \in P!Cells(b)
  /\ \A b, c \in F2 : b # c => P!Cells(b) \cap P!Cells(c) = {} /\ ~P!Touch(b, c)

\* One free block is the whole of a memory.
LEMMA WholeDivides ==
  ASSUME NEW n \in Nat \ {0} PROVE Divides({Whole(n)}, {}, n)
<1> DEFINE w == Whole(n)
<1>1. w.start = 0 /\ w.size = n /\ w \in P!Block
  BY DEF P!Block, Whole
<1> HIDE DEF w
<1>2. P!Cells(w) = 0 .. n - 1
  BY <1>1 DEF P!Cells
<1>3. ~P!Touch(w, w)
  BY <1>1 DEF P!Touch
<1>4. Divides({w}, {}, n)
  BY <1>1, <1>2, <1>3 DEF Divides
<1>5. QED BY <1>4 DEF w

\* Handing out a block, whole or in part, leaves the memory divided.
LEMMA TakenDivides ==
  ASSUME NEW F, NEW U, NEW b, NEW u, NEW F2, NEW U2, NEW n,
         Divides(F, U, n), Taken(F, U, b, u, F2, U2)
  PROVE  Divides(F2, U2, n)
<1>1. /\ b \in F /\ u \in P!UsedBlock /\ b \in P!Block
      /\ u.start = b.start /\ u.size <= b.size
      /\ U2 = U \cup {u}
  BY DEF Taken, Divides
<1>2. CASE u.size = b.size
  <2>1. F2 = F \ {b}
    BY <1>2 DEF Taken
  <2>2. P!Cells(u) = P!Cells(b)
    BY <1>1, <1>2 DEF P!Cells
  <2>3. \A c, d \in F2 : ~P!Touch(c, d)
    BY <2>1 DEF Divides
  <2>4. \A c \in F2 : P!Cells(c) \cap P!Cells(u) = {}
    BY <1>1, <2>1, <2>2 DEF Divides
  <2>5. \A c \in U : P!Cells(c) \cap P!Cells(u) = {}
    BY <1>1, <2>2 DEF Divides
  <2>6. QED BY <1>1, <2>1, <2>2, <2>3, <2>4, <2>5 DEF Divides
<1>3. CASE u.size # b.size
  <2>1. PICK rest : rest = [start |-> b.start + u.size, size |-> b.size - u.size]
    OBVIOUS
  <2>2. F2 = (F \ {b}) \cup {rest}
    BY <1>3, <2>1 DEF Taken
  <2>3. rest.start = u.start + u.size /\ rest.size = b.size - u.size /\ rest \in P!Block
    BY <1>1, <1>3, <2>1 DEF P!Block, P!UsedBlock
  <2>4. P!Cells(b) = P!Cells(u) \cup P!Cells(rest) /\ P!Cells(u) \cap P!Cells(rest) = {}
    BY <1>1, <2>3 DEF P!Cells, P!Block, P!UsedBlock
  <2>5. rest.start + rest.size = b.start + b.size
    BY <1>1, <2>3 DEF P!Block, P!UsedBlock
  <2>6. rest.start - 1 \in P!Cells(u)
    BY <1>1, <2>3 DEF P!Block, P!UsedBlock, P!Cells
  <2>7. \A c \in F \ {b} : P!Cells(c) \cap P!Cells(b) = {}
    BY <1>1 DEF Divides
  <2>8. \A c \in U : P!Cells(c) \cap P!Cells(b) = {}
    BY <1>1 DEF Divides
  <2>9. \A c, d \in F2 : ~P!Touch(c, d)
    <3>1. ~P!Touch(rest, rest)
      BY <2>3 DEF P!Touch, P!Block
    <3>2. \A c \in F : ~P!Touch(rest, c)
      BY <1>1, <2>5 DEF P!Touch, Divides
    <3>3. \A c \in F \ {b} : ~P!Touch(c, rest)
      <4> SUFFICES ASSUME NEW c \in F \ {b}, P!Touch(c, rest) PROVE FALSE
        OBVIOUS
      <4>1. rest.start - 1 \in P!Cells(c)
        <5>1. c \in P!Block
          BY DEF Divides
        <5>2. QED BY <2>3, <5>1 DEF P!Touch, P!Cells, P!Block
      <4>2. rest.start - 1 \in P!Cells(b)
        BY <2>4, <2>6
      <4>3. QED BY <2>7, <4>1, <4>2
    <3>4. \A c, d \in F : ~P!Touch(c, d)
      BY DEF Divides
    <3>5. QED BY <2>2, <3>1, <3>2, <3>3, <3>4
  <2>10. F2 \subseteq P!Block /\ U2 \subseteq P!UsedBlock /\ n \in Nat \ {0}
    BY <1>1, <2>2, <2>3 DEF Divides
  <2>11. \A c \in F2 \cup U2 : P!Cells(c) \subseteq 0 .. n - 1
    BY <1>1, <2>2, <2>4 DEF Divides
  <2>12. \A a \in 0 .. n - 1 : \E c \in F2 \cup U2 : a \in P!Cells(c)
    BY <1>1, <2>2, <2>4 DEF Divides
  <2>13. \A c, d \in F2 : c # d => P!Cells(c) \cap P!Cells(d) = {}
    BY <2>2, <2>4, <2>7 DEF Divides
  <2>14. \A c, d \in U2 : c # d => P!Cells(c) \cap P!Cells(d) = {}
    BY <1>1, <2>4, <2>8 DEF Divides
  <2>15. \A c \in F2, d \in U2 : P!Cells(c) \cap P!Cells(d) = {}
    BY <1>1, <2>2, <2>4, <2>7, <2>8 DEF Divides
  <2>16. QED BY <2>9, <2>10, <2>11, <2>12, <2>13, <2>14, <2>15 DEF Divides
<1>4. QED BY <1>2, <1>3

\* Taking a block back and joining it leaves the memory divided.
LEMMA ReleasedDivides ==
  ASSUME NEW F, NEW U, NEW u, NEW F2, NEW U2, NEW n,
         Divides(F, U, n), Released(F, U, u, F2, U2)
  PROVE  Divides(F2, U2, n)
<1>1. u \in U /\ U2 = U \ {u} /\ F2 \subseteq P!Block
  BY DEF Released
<1>2. \A b \in F2 \cup U2 : P!Cells(b) \subseteq 0 .. n - 1
  BY DEF Divides, Released
<1>3. \A a \in 0 .. n - 1 : \E b \in F2 \cup U2 : a \in P!Cells(b)
  BY DEF Divides, Released
<1>4. \A b \in F2, c \in U2 : P!Cells(b) \cap P!Cells(c) = {}
  BY DEF Divides, Released
<1>5. \A b, c \in F2 : ~P!Touch(b, c)
  <2>1. \A b \in P!Block : ~P!Touch(b, b)
    BY DEF P!Block, P!Touch
  <2>2. QED BY <1>1, <2>1 DEF Released
<1>6. \A b, c \in F2 : b # c => P!Cells(b) \cap P!Cells(c) = {}
  BY DEF Released
<1>7. \A b, c \in U2 : b # c => P!Cells(b) \cap P!Cells(c) = {}
  BY <1>1 DEF Divides
<1>8. QED BY <1>1, <1>2, <1>3, <1>4, <1>5, <1>6, <1>7 DEF Divides

\* The memory stays divided into disjoint blocks that cover it, and touching
\* free blocks stay joined, until the promise ends: every behaviour of
\* Partition, of which lines 234-343 are one.
THEOREM PromiseHolds == P!Spec => []P!Promise
<1>1. P!Promise <=> (~broken => Divides(free, used, extent))
  BY DEF P!Promise, P!TypeOK, P!Tiled, P!Coalesced, Divides
<1>2. P!Promise' <=> (~broken' => Divides(free', used', extent'))
  BY DEF P!Promise, P!TypeOK, P!Tiled, P!Coalesced, Divides
<1>3. P!Init => P!Promise
  <2> SUFFICES ASSUME P!Init, ~broken PROVE Divides(free, used, extent)
    BY <1>1
  <2>1. extent \in Nat \ {0} /\ free = {Whole(extent)} /\ used = {}
    BY DEF P!Init, Whole
  <2>2. QED BY <2>1, WholeDivides
<1>4. P!Promise /\ [P!Next]_(P!vars) => P!Promise'
  <2> SUFFICES ASSUME P!Promise, [P!Next]_(P!vars), ~broken'
               PROVE  Divides(free', used', extent')
    BY <1>2
  <2>1. CASE UNCHANGED P!vars
    BY <1>1, <2>1 DEF P!vars
  <2>2. CASE ~broken /\ P!Resize
    <3>1. extent' \in Nat \ {0} /\ free' = {Whole(extent')} /\ used' = {}
      BY <2>2 DEF P!Resize, Whole
    <3>2. QED BY <3>1, WholeDivides
  <2>3. CASE ~broken /\ P!Take
    <3>1. PICK b \in free, u \in used' : Taken(free, used, b, u, free', used')
      BY <2>3 DEF P!Take, Taken
    <3>2. extent' = extent /\ Divides(free, used, extent)
      BY <1>1, <2>3 DEF P!Take
    <3>3. QED BY <3>1, <3>2, TakenDivides
  <2>4. CASE ~broken /\ P!Release
    <3>1. PICK u \in used : Released(free, used, u, free', used')
      BY <2>4 DEF P!Release, Released
    <3>2. extent' = extent /\ Divides(free, used, extent)
      BY <1>1, <2>4 DEF P!Release
    <3>3. QED BY <3>1, <3>2, ReleasedDivides
  <2>5. QED BY <2>1, <2>2, <2>3, <2>4 DEF P!Next, P!Break
<1>5. QED BY <1>3, <1>4, PTL DEF P!Spec

----------------------------------------------------------------------------
(* The lists as sets of blocks                                             *)

\* The refinement mapping of a free block, of an allocated one, of the lists.
Cut(b) == [start |-> b.start_addr, size |-> b.size]
Own(b) == [pid |-> b.pid, start |-> b.start_addr, size |-> b.size]

FreeOf(s) == {Cut(b) : b \in ToSet(s)}
UsedOf(s) == {Own(b) : b \in ToSet(s)}

End(b) == b.start_addr + b.size

\* The nodes of a list are blocks that do not overlap.
Tidy(s) ==
  /\ \A i \in DOMAIN s : s[i].start_addr >= 0 /\ s[i].size > 0
  /\ \A i, j \in DOMAIN s :
        i # j => End(s[i]) <= s[j].start_addr \/ End(s[j]) <= s[i].start_addr

\* A node of the free list as a block of the partition.
LEMMA CutIs ==
  ASSUME NEW b \in FreeBlock
  PROVE  /\ Cut(b).start = b.start_addr /\ Cut(b).size = b.size
         /\ b.start_addr \in Int /\ b.size \in Int
         /\ P!Cells(Cut(b)) = b.start_addr .. End(b) - 1
         /\ Cut(b) \in P!Block <=> (b.start_addr >= 0 /\ b.size > 0)
<1>1. Cut(b).start = b.start_addr /\ Cut(b).size = b.size
  BY DEF Cut
<1>2. b.start_addr \in Int /\ b.size \in Int
  BY DEF FreeBlock
<1>3. P!Cells(Cut(b)) = b.start_addr .. End(b) - 1
  BY <1>1, <1>2 DEF P!Cells, End
<1>4. Cut(b) \in P!Block <=> (b.start_addr \in Nat /\ b.size \in Nat \ {0})
  BY DEF P!Block, Cut
<1>5. QED BY <1>1, <1>2, <1>3, <1>4

\* The free blocks are those of the list's nodes.
LEMMA FreeOfIs ==
  ASSUME NEW s \in Seq(FreeBlock)
  PROVE  /\ FreeOf(s) = {Cut(s[k]) : k \in 1 .. Len(s)}
         /\ DOMAIN s = 1 .. Len(s) /\ Len(s) \in Nat
         /\ \A k \in 1 .. Len(s) : s[k] \in FreeBlock /\ s[k].start_addr \in Int /\ s[k].size \in Int
<1>1. DOMAIN s = 1 .. Len(s) /\ Len(s) \in Nat
  BY LenProperties
<1>2. \A k \in 1 .. Len(s) : s[k] \in FreeBlock
  BY ElementOfSeq
<1>3. FreeOf(s) = {Cut(s[k]) : k \in 1 .. Len(s)}
  BY <1>1 DEF FreeOf, ToSet
<1>4. QED BY <1>1, <1>2, <1>3, CutIs

\* Different nodes of a tidy list are different blocks.
LEMMA TidyApart ==
  ASSUME NEW s \in Seq(FreeBlock), Tidy(s), NEW i \in 1 .. Len(s), NEW j \in 1 .. Len(s), i # j
  PROVE  Cut(s[i]) # Cut(s[j])
<1>1. /\ s[i] \in FreeBlock /\ s[j] \in FreeBlock /\ i \in DOMAIN s /\ j \in DOMAIN s
  BY FreeOfIs
<1>2. s[i].size > 0 /\ (End(s[i]) <= s[j].start_addr \/ End(s[j]) <= s[i].start_addr)
  BY <1>1 DEF Tidy
<1>3. /\ Cut(s[i]).start = s[i].start_addr /\ Cut(s[i]).size = s[i].size
      /\ Cut(s[j]).start = s[j].start_addr /\ Cut(s[j]).size = s[j].size
      /\ s[i].start_addr \in Int /\ s[i].size \in Int
  BY <1>1, CutIs
<1>4. QED BY <1>2, <1>3 DEF End

\* Sorting changes neither the set of blocks nor that they do not overlap.
LEMMA ShuffledFree ==
  ASSUME NEW s \in Seq(FreeBlock), NEW t \in Seq(FreeBlock), Len(t) = Len(s),
         Shuffled(Len(s), s, t)
  PROVE  FreeOf(t) = FreeOf(s) /\ (Tidy(s) => Tidy(t))
<1> DEFINE n == Len(s)
<1>1. PICK p : Moves(p, n, s, t)
  BY DEF Shuffled
<1>2. /\ FreeOf(s) = {Cut(s[k]) : k \in 1 .. n} /\ FreeOf(t) = {Cut(t[k]) : k \in 1 .. n}
      /\ DOMAIN s = 1 .. n /\ DOMAIN t = 1 .. n
  BY FreeOfIs
<1> HIDE DEF n
<1>3. /\ \A a \in 1 .. n : p[a] \in 1 .. n /\ t[a] = s[p[a]]
      /\ \A a, b \in 1 .. n : a # b => p[a] # p[b]
      /\ \A b \in 1 .. n : \E a \in 1 .. n : p[a] = b
  BY <1>1 DEF Moves
<1>4. FreeOf(t) = FreeOf(s)
  <2>1. ASSUME NEW k \in 1 .. n PROVE Cut(t[k]) \in FreeOf(s)
    BY <1>2, <1>3
  <2>2. ASSUME NEW k \in 1 .. n PROVE Cut(s[k]) \in FreeOf(t)
    <3>1. PICK a \in 1 .. n : p[a] = k
      BY <1>3
    <3>2. t[a] = s[k]
      BY <1>3, <3>1
    <3>3. QED BY <1>2, <3>2
  <2>3. QED BY <1>2, <2>1, <2>2
<1>5. ASSUME Tidy(s) PROVE Tidy(t)
  <2>1. \A k \in 1 .. n : t[k].start_addr >= 0 /\ t[k].size > 0
    BY <1>2, <1>3, <1>5 DEF Tidy
  <2>2. ASSUME NEW i \in 1 .. n, NEW j \in 1 .. n, i # j
        PROVE  End(t[i]) <= t[j].start_addr \/ End(t[j]) <= t[i].start_addr
    <3>1. p[i] \in 1 .. n /\ p[j] \in 1 .. n /\ p[i] # p[j] /\ t[i] = s[p[i]] /\ t[j] = s[p[j]]
      BY <1>3, <2>2
    <3>2. QED BY <1>2, <1>5, <3>1 DEF Tidy
  <2>3. QED BY <1>2, <2>1, <2>2 DEF Tidy
<1>6. QED BY <1>4, <1>5

\* Sorting changes neither the free blocks nor that they are apart.
LEMMA SortedFree ==
  ASSUME NEW s \in Seq(FreeBlock), NEW algorithm \in Algorithms
  PROVE  LET t == rearrange(algorithm, s)
         IN  /\ t \in Seq(FreeBlock) /\ FreeOf(t) = FreeOf(s) /\ (Tidy(s) => Tidy(t))
             /\ s # <<>> <=> t # <<>>
             /\ Len(t) = Len(s)
<1>1. LET t == rearrange(algorithm, s)
      IN  /\ t \in Seq(FreeBlock) /\ Len(t) = Len(s) /\ Len(s) \in Nat
          /\ Shuffled(Len(s), s, t)
          /\ s # <<>> <=> t # <<>>
  BY RearrangeList
<1>2. QED BY <1>1, ShuffledFree

\* The first node taken out of a tidy list.
LEMMA TailFree ==
  ASSUME NEW w \in Seq(FreeBlock), w # <<>>, Tidy(w)
  PROVE  /\ Tail(w) \in Seq(FreeBlock) /\ Tidy(Tail(w))
         /\ FreeOf(Tail(w)) = FreeOf(w) \ {Cut(w[1])}
<1> DEFINE n == Len(w)
           t == Tail(w)
<1>1. /\ FreeOf(w) = {Cut(w[k]) : k \in 1 .. n}
      /\ DOMAIN w = 1 .. n /\ n \in Nat
  BY FreeOfIs
<1>2. n > 0
  BY <1>1, EmptySeq
<1>3. t \in Seq(FreeBlock) /\ Len(t) = n - 1 /\ \A k \in 1 .. n - 1 : t[k] = w[k + 1]
  BY HeadTailProperties
<1>4. FreeOf(t) = {Cut(t[k]) : k \in 1 .. n - 1} /\ DOMAIN t = 1 .. n - 1
  BY <1>3, FreeOfIs
<1>5. \A k \in 1 .. n : k # 1 => Cut(w[k]) # Cut(w[1])
  BY <1>2, TidyApart
<1> HIDE DEF n, t
<1>6. FreeOf(t) = FreeOf(w) \ {Cut(w[1])}
  <2>1. ASSUME NEW k \in 1 .. n - 1
        PROVE  Cut(t[k]) \in FreeOf(w) /\ Cut(t[k]) # Cut(w[1])
    <3>1. k + 1 \in 1 .. n /\ k + 1 # 1
      BY <1>1
    <3>2. t[k] = w[k + 1]
      BY <1>3
    <3>3. QED BY <1>1, <1>5, <3>1, <3>2
  <2>2. ASSUME NEW k \in 1 .. n, Cut(w[k]) # Cut(w[1]) PROVE Cut(w[k]) \in FreeOf(t)
    <3>1. k # 1
      BY <2>2
    <3>2. k - 1 \in 1 .. n - 1 /\ (k - 1) + 1 = k
      BY <1>1, <3>1
    <3>3. t[k - 1] = w[k]
      BY <1>3, <3>2
    <3>4. QED BY <1>4, <3>2, <3>3
  <2>3. QED BY <1>1, <1>4, <2>1, <2>2
<1>7. Tidy(t)
  <2>1. \A k \in 1 .. n - 1 : k + 1 \in 1 .. n /\ t[k] = w[k + 1]
    BY <1>1, <1>3
  <2>2. \A k \in 1 .. n - 1 : t[k].start_addr >= 0 /\ t[k].size > 0
    BY <1>1, <2>1 DEF Tidy
  <2>3. ASSUME NEW i \in 1 .. n - 1, NEW j \in 1 .. n - 1, i # j
        PROVE  End(t[i]) <= t[j].start_addr \/ End(t[j]) <= t[i].start_addr
    <3>1. i + 1 # j + 1
      BY <1>1, <2>3
    <3>2. QED BY <1>1, <2>1, <3>1 DEF Tidy
  <2>4. QED BY <1>4, <2>2, <2>3 DEF Tidy
<1>8. QED BY <1>3, <1>6, <1>7 DEF t

\* The first node of a tidy list replaced by its end.
LEMMA SplitFree ==
  ASSUME NEW w \in Seq(FreeBlock), w # <<>>, Tidy(w), NEW rest \in FreeBlock,
         rest.size > 0, rest.start_addr > w[1].start_addr, End(rest) = End(w[1])
  PROVE  LET t == [w EXCEPT ![1] = rest]
         IN  /\ t \in Seq(FreeBlock) /\ Tidy(t)
             /\ FreeOf(t) = (FreeOf(w) \ {Cut(w[1])}) \cup {Cut(rest)}
<1> DEFINE n == Len(w)
           t == [w EXCEPT ![1] = rest]
<1>1. /\ FreeOf(w) = {Cut(w[k]) : k \in 1 .. n}
      /\ DOMAIN w = 1 .. n /\ n \in Nat
      /\ \A k \in 1 .. n : w[k].start_addr \in Int /\ w[k].size \in Int
  BY FreeOfIs
<1>2. 1 \in 1 .. n
  BY <1>1, EmptySeq
<1>3. t \in Seq(FreeBlock) /\ Len(t) = n /\ \A k \in 1 .. n : t[k] = IF k = 1 THEN rest ELSE w[k]
  BY <1>2, ExceptSeq
<1>4. FreeOf(t) = {Cut(t[k]) : k \in 1 .. n} /\ DOMAIN t = 1 .. n
  BY <1>3, FreeOfIs
<1>5. \A k \in 1 .. n : k # 1 => Cut(w[k]) # Cut(w[1])
  BY <1>2, TidyApart
<1>6. rest.start_addr \in Int /\ rest.size \in Int
  BY CutIs
<1> HIDE DEF n, t
<1>7. t[1] = rest /\ \A k \in 1 .. n : k # 1 => t[k] = w[k]
  BY <1>2, <1>3
<1>8. FreeOf(t) = (FreeOf(w) \ {Cut(w[1])}) \cup {Cut(rest)}
  <2>1. ASSUME NEW k \in 1 .. n
        PROVE  Cut(t[k]) \in (FreeOf(w) \ {Cut(w[1])}) \cup {Cut(rest)}
    BY <1>1, <1>5, <1>7
  <2>2. ASSUME NEW k \in 1 .. n, Cut(w[k]) # Cut(w[1]) PROVE Cut(w[k]) \in FreeOf(t)
    <3>1. k # 1
      BY <2>2
    <3>2. QED BY <1>4, <1>7, <3>1
  <2>3. Cut(rest) \in FreeOf(t)
    BY <1>2, <1>4, <1>7
  <2>4. QED BY <1>1, <1>4, <2>1, <2>2, <2>3
<1>9. Tidy(t)
  <2>1. \A k \in 1 .. n : w[k].start_addr >= 0 /\ w[k].size > 0
    BY <1>1 DEF Tidy
  <2>2. rest.start_addr >= 0 /\ rest.size > 0
    BY <1>1, <1>2, <1>6, <2>1
  <2>3. \A k \in 1 .. n : t[k].start_addr >= 0 /\ t[k].size > 0
    BY <1>7, <2>1, <2>2
  <2>4. ASSUME NEW j \in 1 .. n, j # 1
        PROVE  End(rest) <= w[j].start_addr \/ End(w[j]) <= rest.start_addr
    <3>1. End(w[1]) <= w[j].start_addr \/ End(w[j]) <= w[1].start_addr
      BY <1>1, <1>2, <2>4 DEF Tidy
    <3>2. End(w[j]) \in Int
      BY <1>1 DEF End
    <3>3. QED BY <1>1, <1>2, <1>6, <3>1, <3>2
  <2>5. ASSUME NEW i \in 1 .. n, NEW j \in 1 .. n, i # j
        PROVE  End(t[i]) <= t[j].start_addr \/ End(t[j]) <= t[i].start_addr
    <3>1. CASE i = 1
      BY <1>7, <2>4, <2>5, <3>1
    <3>2. CASE j = 1
      BY <1>7, <2>4, <2>5, <3>2
    <3>3. CASE i # 1 /\ j # 1
      BY <1>1, <1>7, <2>5, <3>3 DEF Tidy
    <3>4. QED BY <3>1, <3>2, <3>3
  <2>6. QED BY <1>4, <2>3, <2>5 DEF Tidy
<1>10. QED BY <1>3, <1>8, <1>9 DEF t

\* A node put at the end of a tidy list, where no node overlaps it.
LEMMA AppendFree ==
  ASSUME NEW s \in Seq(FreeBlock), Tidy(s), NEW r \in FreeBlock,
         r.start_addr >= 0, r.size > 0,
         \A k \in 1 .. Len(s) : End(s[k]) <= r.start_addr \/ End(r) <= s[k].start_addr
  PROVE  LET t == Append(s, r)
         IN  /\ t \in Seq(FreeBlock) /\ Tidy(t) /\ FreeOf(t) = FreeOf(s) \cup {Cut(r)}
             /\ Len(t) = Len(s) + 1
<1> DEFINE n == Len(s)
           t == Append(s, r)
<1>1. FreeOf(s) = {Cut(s[k]) : k \in 1 .. n} /\ DOMAIN s = 1 .. n /\ n \in Nat
  BY FreeOfIs
<1>2. /\ t \in Seq(FreeBlock) /\ Len(t) = n + 1 /\ t[n + 1] = r
      /\ \A k \in 1 .. n : t[k] = s[k]
  BY AppendProperties
<1>3. FreeOf(t) = {Cut(t[k]) : k \in 1 .. n + 1} /\ DOMAIN t = 1 .. n + 1
  BY <1>2, FreeOfIs
<1>0. \A k \in 1 .. n : End(s[k]) <= r.start_addr \/ End(r) <= s[k].start_addr
  OBVIOUS
<1> HIDE DEF n, t
<1>4. \A k \in 1 .. n + 1 : k \in 1 .. n \/ k = n + 1
  BY <1>1
<1>5. n + 1 \in 1 .. n + 1 /\ \A k \in 1 .. n : k \in 1 .. n + 1
  BY <1>1
<1>6. FreeOf(t) = FreeOf(s) \cup {Cut(r)}
  <2>1. ASSUME NEW k \in 1 .. n + 1 PROVE Cut(t[k]) \in FreeOf(s) \cup {Cut(r)}
    BY <1>1, <1>2, <1>4
  <2>2. ASSUME NEW k \in 1 .. n PROVE Cut(s[k]) \in FreeOf(t)
    BY <1>2, <1>3, <1>5
  <2>3. Cut(r) \in FreeOf(t)
    BY <1>2, <1>3, <1>5
  <2>4. QED BY <1>1, <1>3, <2>1, <2>2, <2>3
<1>7. Tidy(t)
  <2>1. \A k \in 1 .. n + 1 : t[k].start_addr >= 0 /\ t[k].size > 0
    BY <1>1, <1>2, <1>4 DEF Tidy
  <2>2. ASSUME NEW i \in 1 .. n + 1, NEW j \in 1 .. n + 1, i # j
        PROVE  End(t[i]) <= t[j].start_addr \/ End(t[j]) <= t[i].start_addr
    <3>1. CASE i = n + 1
      <4>1. j \in 1 .. n
        BY <1>4, <2>2, <3>1
      <4>2. QED BY <1>0, <1>2, <3>1, <4>1
    <3>2. CASE j = n + 1
      <4>1. i \in 1 .. n
        BY <1>4, <2>2, <3>2
      <4>2. QED BY <1>0, <1>2, <3>2, <4>1
    <3>3. CASE i \in 1 .. n /\ j \in 1 .. n
      BY <1>1, <1>2, <2>2, <3>3 DEF Tidy
    <3>4. QED BY <1>4, <3>1, <3>2, <3>3
  <2>3. QED BY <1>3, <2>1, <2>2 DEF Tidy
<1>8. QED BY <1>2, <1>6, <1>7 DEF t, n

----------------------------------------------------------------------------
(* Merging a tidy list                                                     *)

\* The nodes are in the order of their addresses, with a gap between any two.
Spaced(s) ==
  /\ \A i \in DOMAIN s : s[i].start_addr >= 0 /\ s[i].size > 0
  /\ \A i, j \in DOMAIN s : i < j => End(s[i]) < s[j].start_addr

\* An address of the first m nodes.
Held(s, m, x) == \E k \in 1 .. m : s[k].start_addr <= x /\ x < End(s[k])

\* Where merge is after the j-th node: the joined blocks hold the addresses of
\* the first j nodes and end where the j-th node ends.
Merging(done, s, j) ==
  /\ Spaced(done)
  /\ j > 0 => Len(done) > 0 /\ End(done[Len(done)]) = End(s[j])
  /\ \A x \in Int : Held(done, Len(done), x) <=> Held(s, j, x)

\* One more node of the sorted list through merge.
LEMMA MergingStep ==
  ASSUME NEW n \in Nat, NEW s \in Lists(n), Tidy(s),
         \A a, b \in 1 .. n : a < b => s[a].start_addr <= s[b].start_addr,
         NEW j \in 0 .. n - 1, NEW done \in Seq(FreeBlock), Merging(done, s, j)
  PROVE  Merging(Join(done, s[j + 1]), s, j + 1)
<1> DEFINE b == s[j + 1]
           u == Join(done, b)
           touch == done # <<>> /\ Touch(Last(done), b)
           m == Len(done)
<1>1. /\ DOMAIN s = 1 .. n /\ j + 1 \in 1 .. n /\ b \in FreeBlock
      /\ \A k \in 1 .. n : s[k] \in FreeBlock
      /\ \A k \in 1 .. n : s[k].start_addr \in Int /\ s[k].size \in Int
      /\ \A k \in 1 .. n : s[k].start_addr >= 0 /\ s[k].size > 0
      /\ b.start_addr \in Int /\ b.size \in Int /\ b.start_addr >= 0 /\ b.size > 0
  <2>1. j + 1 \in 1 .. n
    OBVIOUS
  <2>2. /\ DOMAIN s = 1 .. n
        /\ \A k \in 1 .. n : s[k] \in FreeBlock
        /\ \A k \in 1 .. n : s[k].start_addr \in Int /\ s[k].size \in Int
    BY ListIs
  <2>3. \A k \in 1 .. n : s[k].start_addr >= 0 /\ s[k].size > 0
    BY <2>2 DEF Tidy
  <2>4. QED BY <2>1, <2>2, <2>3
<1>2. /\ u \in Seq(FreeBlock) /\ m \in Nat /\ (done # <<>> => m > 0)
      /\ Len(u) = IF touch THEN m ELSE m + 1
      /\ touch => /\ u[m].start_addr = done[m].start_addr
                  /\ u[m].size = done[m].size + b.size
                  /\ \A k \in 1 .. m - 1 : u[k] = done[k]
      /\ ~touch => u[m + 1] = b /\ \A k \in 1 .. m : u[k] = done[k]
  BY <1>1, JoinIs
<1>3. DOMAIN u = 1 .. Len(u) /\ DOMAIN done = 1 .. m
  BY <1>2, LenProperties
<1>4. \A k \in 1 .. m : done[k].start_addr \in Int /\ done[k].size \in Int
  BY FreeOfIs
<1>5. /\ \A k \in 1 .. m : done[k].start_addr >= 0 /\ done[k].size > 0
      /\ \A a, c \in 1 .. m : a < c => End(done[a]) < done[c].start_addr
  BY <1>3 DEF Merging, Spaced
<1>6. ASSUME m > 0 PROVE End(done[m]) <= b.start_addr
  <2>1. j > 0
    <3> SUFFICES ASSUME j = 0 PROVE FALSE
      OBVIOUS
    <3>1. m \in 1 .. m
      BY <1>2, <1>6
    <3>2. Held(done, m, done[m].start_addr)
      BY <1>4, <1>5, <3>1 DEF Held, End
    <3>3. Held(s, 0, done[m].start_addr)
      BY <1>4, <3>1, <3>2 DEF Merging
    <3>4. QED BY <3>3 DEF Held
  <2>2. End(done[m]) = End(s[j])
    BY <2>1 DEF Merging
  <2>3. j \in 1 .. n /\ j < j + 1
    BY <2>1
  <2>4. s[j].start_addr <= b.start_addr
    BY <1>1, <2>3
  <2>5. End(s[j]) <= b.start_addr \/ End(b) <= s[j].start_addr
    BY <1>1, <2>3 DEF Tidy
  <2>6. End(s[j]) <= b.start_addr
    <3>1. End(b) > b.start_addr /\ End(b) \in Int
      BY <1>1 DEF End
    <3>2. s[j].start_addr \in Int
      BY <1>1, <2>3
    <3>3. QED BY <1>1, <2>4, <2>5, <3>1, <3>2
  <2>7. QED BY <2>2, <2>6
<1>7. \A x \in Int : Held(s, j + 1, x) <=>
         Held(s, j, x) \/ (b.start_addr <= x /\ x < End(b))
  <2>1. \A k \in 1 .. j + 1 : k \in 1 .. j \/ k = j + 1
    OBVIOUS
  <2>2. j + 1 \in 1 .. j + 1 /\ \A k \in 1 .. j : k \in 1 .. j + 1
    OBVIOUS
  <2>3. QED BY <2>1, <2>2 DEF Held
<1>8. touch => m > 0 /\ m \in 1 .. m /\ End(done[m]) = b.start_addr
  <2>1. touch => Last(done) = done[m]
    BY DEF Last
  <2>2. QED BY <1>2, <2>1 DEF Touch, End
<1>9. ~touch => (m > 0 => End(done[m]) # b.start_addr)
  <2>1. m > 0 => done # <<>>
    BY EmptySeq
  <2>2. m > 0 => Last(done) = done[m]
    BY DEF Last
  <2>3. QED BY <2>1, <2>2 DEF Touch, End
<1>10. j + 1 > 0 /\ \A x \in Int : Held(done, m, x) <=> Held(s, j, x)
  BY DEF Merging
<1> HIDE DEF b, u, m, touch
<1>11. CASE touch
  <2>1. Len(u) = m /\ m \in 1 .. m /\ m \in Nat /\ End(done[m]) = b.start_addr
    BY <1>2, <1>8, <1>11
  <2>2. u[m].start_addr = done[m].start_addr /\ u[m].size = done[m].size + b.size
        /\ \A k \in 1 .. m - 1 : u[k] = done[k]
    BY <1>2, <1>11
  <2>3. \A k \in 1 .. m : k \in 1 .. m - 1 \/ k = m
    BY <2>1
  <2>4. \A k \in 1 .. m : u[k].start_addr = done[k].start_addr
    BY <2>2, <2>3
  <2>5. End(u[m]) = End(b)
    BY <1>1, <1>4, <2>1, <2>2 DEF End
  <2>6. \A k \in 1 .. m : u[k].start_addr >= 0 /\ u[k].size > 0
    <3>1. \A k \in 1 .. m - 1 : k \in 1 .. m
      BY <2>1
    <3>2. \A k \in 1 .. m - 1 : u[k].size > 0
      BY <1>5, <2>2, <3>1
    <3>3. u[m].size > 0
      BY <1>1, <1>4, <1>5, <2>1, <2>2
    <3>4. QED BY <1>5, <2>3, <2>4, <3>2, <3>3
  <2>7. ASSUME NEW a \in 1 .. m, NEW c \in 1 .. m, a < c
        PROVE  End(u[a]) < u[c].start_addr
    <3>1. a \in 1 .. m - 1
      BY <2>1, <2>7
    <3>2. QED BY <1>5, <2>2, <2>4, <2>7, <3>1
  <2>8. Spaced(u)
    BY <1>3, <2>1, <2>6, <2>7 DEF Spaced
  <2>9. ASSUME NEW x \in Int PROVE Held(u, m, x) <=> Held(s, j + 1, x)
    <3>1. ASSUME NEW k \in 1 .. m - 1
          PROVE  (u[k].start_addr <= x /\ x < End(u[k]))
                   <=> (done[k].start_addr <= x /\ x < End(done[k]))
      BY <2>2
    <3>2. (u[m].start_addr <= x /\ x < End(u[m]))
            <=> (done[m].start_addr <= x /\ x < End(done[m]))
                 \/ (b.start_addr <= x /\ x < End(b))
      <4>1. u[m].start_addr = done[m].start_addr /\ done[m].start_addr < b.start_addr
        BY <1>1, <1>4, <1>5, <2>1, <2>2 DEF End
      <4>2. b.start_addr < End(b) /\ End(b) \in Int
        BY <1>1 DEF End
      <4>3. QED BY <1>1, <1>4, <2>1, <2>5, <4>1, <4>2
    <3>3. \A k \in 1 .. m - 1 : k \in 1 .. m
      BY <2>1
    <3>4. Held(u, m, x) <=> Held(done, m, x) \/ (b.start_addr <= x /\ x < End(b))
      <4>1. Held(u, m, x) <=> \/ \E k \in 1 .. m - 1 : u[k].start_addr <= x /\ x < End(u[k])
                              \/ u[m].start_addr <= x /\ x < End(u[m])
        BY <2>1, <2>3, <3>3 DEF Held
      <4>2. Held(done, m, x) <=> \/ \E k \in 1 .. m - 1 : done[k].start_addr <= x /\ x < End(done[k])
                                 \/ done[m].start_addr <= x /\ x < End(done[m])
        BY <2>1, <2>3, <3>3 DEF Held
      <4>3. QED BY <3>1, <3>2, <4>1, <4>2
    <3>5. QED BY <1>7, <1>10, <3>4
  <2>10. Merging(u, s, j + 1)
    BY <2>1, <2>5, <2>8, <2>9 DEF Merging, b
  <2>11. QED BY <2>10 DEF u, b
<1>12. CASE ~touch
  <2>1. Len(u) = m + 1 /\ u[m + 1] = b /\ \A k \in 1 .. m : u[k] = done[k]
    BY <1>2, <1>12
  <2>2. m \in Nat /\ m + 1 \in 1 .. m + 1 /\ \A k \in 1 .. m + 1 : k \in 1 .. m \/ k = m + 1
    BY <1>2
  <2>3. \A k \in 1 .. m : k \in 1 .. m + 1
    BY <2>2
  <2>4. \A k \in 1 .. m + 1 : u[k].start_addr >= 0 /\ u[k].size > 0
    BY <1>1, <1>5, <2>1, <2>2
  <2>5. ASSUME NEW a \in 1 .. m PROVE End(done[a]) < b.start_addr
    <3>1. m > 0 /\ m \in 1 .. m
      BY <2>2
    <3>2. End(done[m]) < b.start_addr
      <4>1. End(done[m]) <= b.start_addr /\ End(done[m]) # b.start_addr
        BY <1>6, <1>9, <1>12, <3>1
      <4>2. End(done[m]) \in Int
        BY <1>4, <3>1 DEF End
      <4>3. QED BY <1>1, <4>1, <4>2
    <3>3. CASE a = m
      BY <3>2, <3>3
    <3>4. CASE a # m
      <4>1. a < m
        BY <2>2, <3>4
      <4>2. End(done[a]) < done[m].start_addr
        BY <1>5, <3>1, <4>1
      <4>3. done[m].start_addr < End(done[m])
        BY <1>4, <1>5, <3>1 DEF End
      <4>4. End(done[a]) \in Int /\ End(done[m]) \in Int
        BY <1>4, <3>1 DEF End
      <4>5. QED BY <1>1, <1>4, <3>1, <3>2, <4>2, <4>3, <4>4
    <3>5. QED BY <3>3, <3>4
  <2>6. ASSUME NEW a \in 1 .. m + 1, NEW c \in 1 .. m + 1, a < c
        PROVE  End(u[a]) < u[c].start_addr
    <3>1. a \in 1 .. m
      BY <2>2, <2>6
    <3>2. CASE c = m + 1
      BY <2>1, <2>5, <3>1, <3>2
    <3>3. CASE c \in 1 .. m
      BY <1>5, <2>1, <2>6, <3>1, <3>3
    <3>4. QED BY <2>2, <3>2, <3>3
  <2>7. Spaced(u)
    BY <1>3, <2>1, <2>4, <2>6 DEF Spaced
  <2>8. ASSUME NEW x \in Int PROVE Held(u, m + 1, x) <=> Held(s, j + 1, x)
    <3>1. Held(u, m + 1, x) <=> Held(done, m, x) \/ (b.start_addr <= x /\ x < End(b))
      BY <2>1, <2>2, <2>3 DEF Held
    <3>2. QED BY <1>7, <1>10, <3>1
  <2>9. m + 1 > 0
    BY <2>2
  <2>10. Merging(u, s, j + 1)
    BY <2>1, <2>7, <2>8, <2>9 DEF Merging, b
  <2>11. QED BY <2>10 DEF u, b
<1>13. QED BY <1>11, <1>12

\* The addresses of a list's nodes, one by one.
LEMMA HeldFree ==
  ASSUME NEW x \in Int, NEW t \in Seq(FreeBlock)
  PROVE  (\E c \in FreeOf(t) : x \in P!Cells(c)) <=> Held(t, Len(t), x)
<1>1. /\ FreeOf(t) = {Cut(t[k]) : k \in 1 .. Len(t)}
      /\ \A k \in 1 .. Len(t) : t[k] \in FreeBlock /\ t[k].start_addr \in Int /\ t[k].size \in Int
  BY FreeOfIs
<1>2. ASSUME NEW k \in 1 .. Len(t)
      PROVE  x \in P!Cells(Cut(t[k])) <=> (t[k].start_addr <= x /\ x < End(t[k]))
  <2>1. P!Cells(Cut(t[k])) = t[k].start_addr .. End(t[k]) - 1
    BY <1>1, CutIs
  <2>2. End(t[k]) \in Int /\ t[k].start_addr \in Int
    BY <1>1 DEF End
  <2>3. QED BY <2>1, <2>2
<1>3. QED BY <1>1, <1>2 DEF Held

\* Merging a tidy list that is sorted by address leaves a tidy list of blocks
\* that do not touch and hold the same addresses.
LEMMA MergeFree ==
  ASSUME NEW n \in Nat, NEW s \in Lists(n), Tidy(s),
         \A a, b \in 1 .. n : a < b => s[a].start_addr <= s[b].start_addr
  PROVE  LET t == merge(s)
         IN  /\ t \in Seq(FreeBlock) /\ Tidy(t)
             /\ \A c \in FreeOf(t) : c \in P!Block
             /\ \A c, d \in FreeOf(t) :
                   c # d => P!Cells(c) \cap P!Cells(d) = {} /\ ~P!Touch(c, d)
             /\ \A x \in Int : (\E c \in FreeOf(t) : x \in P!Cells(c))
                                 <=> (\E c \in FreeOf(s) : x \in P!Cells(c))
<1>1. PICK f \in [0 .. n -> Seq(FreeBlock)] :
            /\ f[0] = <<>>
            /\ \A j \in 1 .. n : f[j] = Join(f[j - 1], s[j])
            /\ merge(s) = rearrange(MA_WF, f[n])
  BY JoinSteps
<1> DEFINE S == {j \in 0 .. n : Merging(f[j], s, j)}
<1>2. 0 \in S
  <2>1. DOMAIN <<>> = {} /\ Len(<<>>) = 0
    OBVIOUS
  <2>2. Merging(<<>>, s, 0)
    BY <2>1 DEF Merging, Spaced, Held
  <2>3. QED BY <1>1, <2>2
<1>3. ASSUME NEW j \in 0 .. n - 1, j \in S PROVE j + 1 \in S
  <2>1. j + 1 \in 1 .. n /\ (j + 1) - 1 = j /\ j + 1 \in 0 .. n /\ j \in 0 .. n
    OBVIOUS
  <2>2. f[j + 1] = Join(f[j], s[j + 1]) /\ f[j] \in Seq(FreeBlock) /\ Merging(f[j], s, j)
    BY <1>1, <1>3, <2>1
  <2>3. Merging(f[j + 1], s, j + 1)
    BY <2>2, MergingStep
  <2>4. QED BY <2>1, <2>3
<1> HIDE DEF S
<1>4. \A j \in 0 .. n : j \in S
  BY <1>2, <1>3, UpTo
<1> DEFINE d == f[n]
<1>5. d \in Seq(FreeBlock) /\ Merging(d, s, n)
  BY <1>4 DEF S
<1>6. merge(s) = rearrange(MA_WF, d)
  BY <1>1
<1> HIDE DEF d
<1>7. /\ FreeOf(d) = {Cut(d[k]) : k \in 1 .. Len(d)} /\ DOMAIN d = 1 .. Len(d)
      /\ Len(d) \in Nat
      /\ \A k \in 1 .. Len(d) : d[k] \in FreeBlock /\ d[k].start_addr \in Int /\ d[k].size \in Int
  BY <1>5, FreeOfIs
<1>8. /\ \A i \in 1 .. Len(d) : d[i].start_addr >= 0 /\ d[i].size > 0
      /\ \A i, j \in 1 .. Len(d) : i < j => End(d[i]) < d[j].start_addr
      /\ \A x \in Int : Held(d, Len(d), x) <=> Held(s, n, x)
  BY <1>5, <1>7 DEF Merging, Spaced
<1>9. Tidy(d)
  <2>1. ASSUME NEW i \in 1 .. Len(d), NEW j \in 1 .. Len(d), i # j
        PROVE  End(d[i]) <= d[j].start_addr \/ End(d[j]) <= d[i].start_addr
    <3>1. i < j \/ j < i
      BY <2>1
    <3>2. End(d[i]) \in Int /\ End(d[j]) \in Int
      BY <1>7 DEF End
    <3>3. QED BY <1>7, <1>8, <3>1, <3>2
  <2>2. QED BY <1>7, <1>8, <2>1 DEF Tidy
<1>10. merge(s) \in Seq(FreeBlock) /\ Tidy(merge(s)) /\ FreeOf(merge(s)) = FreeOf(d)
  BY <1>5, <1>6, <1>9, SortedFree DEF Algorithms
<1>11. \A c \in FreeOf(d) : c \in P!Block
  BY <1>7, <1>8, CutIs
<1>12. ASSUME NEW i \in 1 .. Len(d), NEW j \in 1 .. Len(d), i # j
       PROVE  /\ P!Cells(Cut(d[i])) \cap P!Cells(Cut(d[j])) = {}
              /\ ~P!Touch(Cut(d[i]), Cut(d[j]))
  <2>1. i < j \/ j < i
    BY <1>12
  <2>2. /\ P!Cells(Cut(d[i])) = d[i].start_addr .. End(d[i]) - 1
        /\ P!Cells(Cut(d[j])) = d[j].start_addr .. End(d[j]) - 1
        /\ Cut(d[i]).start = d[i].start_addr /\ Cut(d[i]).size = d[i].size
        /\ Cut(d[j]).start = d[j].start_addr /\ Cut(d[j]).size = d[j].size
    BY <1>7, CutIs
  <2>3. /\ End(d[i]) \in Int /\ End(d[j]) \in Int
        /\ End(d[i]) > d[i].start_addr /\ End(d[j]) > d[j].start_addr
    BY <1>7, <1>8 DEF End
  <2>4. End(d[i]) < d[j].start_addr \/ End(d[j]) < d[i].start_addr
    BY <1>8, <2>1
  <2>5. P!Touch(Cut(d[i]), Cut(d[j])) <=> End(d[i]) = d[j].start_addr
    BY <2>2 DEF P!Touch, End
  <2>6. d[i].start_addr \in Int /\ d[j].start_addr \in Int
    BY <1>7
  <2>7. QED BY <2>2, <2>3, <2>4, <2>5, <2>6
<1>13. \A c, e \in FreeOf(d) :
          c # e => P!Cells(c) \cap P!Cells(e) = {} /\ ~P!Touch(c, e)
  BY <1>7, <1>12
<1>15. s \in Seq(FreeBlock) /\ Len(s) = n
  BY ListIs
<1>16. \A x \in Int : (\E c \in FreeOf(d) : x \in P!Cells(c))
                        <=> (\E c \in FreeOf(s) : x \in P!Cells(c))
  BY <1>5, <1>8, <1>15, HeldFree
<1>17. QED BY <1>10, <1>11, <1>13, <1>16

----------------------------------------------------------------------------
(* Merging any list                                                        *)

\* Where merge is after the j-th node of a list that may overlap itself: the
\* joined blocks hold the addresses of the first j nodes.
Holding(done, s, j) ==
  /\ \A i \in DOMAIN done : done[i].size >= 0
  /\ \A x \in Int : Held(done, Len(done), x) <=> Held(s, j, x)

\* An interval in two parts.
LEMMA TwoParts ==
  ASSUME NEW x \in Int
  PROVE  \A p, q, c \in Int : q >= 0 /\ c >= 0 =>
            ((p <= x /\ x < p + (q + c))
               <=> (p <= x /\ x < p + q) \/ (p + q <= x /\ x < p + q + c))
OBVIOUS

\* One more node through merge.
LEMMA HoldingStep ==
  ASSUME NEW n \in Nat, NEW s \in Lists(n), \A k \in 1 .. n : s[k].size >= 0,
         NEW j \in 0 .. n - 1, NEW done \in Seq(FreeBlock), Holding(done, s, j)
  PROVE  Holding(Join(done, s[j + 1]), s, j + 1)
<1> DEFINE b == s[j + 1]
           u == Join(done, b)
           touch == done # <<>> /\ Touch(Last(done), b)
           m == Len(done)
<1>1. /\ j + 1 \in 1 .. n /\ b \in FreeBlock
      /\ b.start_addr \in Int /\ b.size \in Int /\ b.size >= 0
  <2>1. j + 1 \in 1 .. n
    OBVIOUS
  <2>2. QED BY <2>1, ListIs
<1>2. /\ u \in Seq(FreeBlock) /\ m \in Nat /\ (done # <<>> => m > 0)
      /\ Len(u) = IF touch THEN m ELSE m + 1
      /\ touch => /\ u[m].start_addr = done[m].start_addr
                  /\ u[m].size = done[m].size + b.size
                  /\ \A k \in 1 .. m - 1 : u[k] = done[k]
      /\ ~touch => u[m + 1] = b /\ \A k \in 1 .. m : u[k] = done[k]
  BY <1>1, JoinIs
<1>3. DOMAIN u = 1 .. Len(u) /\ DOMAIN done = 1 .. m
  BY <1>2, LenProperties
<1>4. \A k \in 1 .. m : done[k].start_addr \in Int /\ done[k].size \in Int /\ done[k].size >= 0
  BY <1>3, FreeOfIs DEF Holding
<1>5. \A x \in Int : Held(s, j + 1, x) <=>
         Held(s, j, x) \/ (b.start_addr <= x /\ x < End(b))
  <2>1. \A k \in 1 .. j + 1 : k \in 1 .. j \/ k = j + 1
    OBVIOUS
  <2>2. j + 1 \in 1 .. j + 1 /\ \A k \in 1 .. j : k \in 1 .. j + 1
    OBVIOUS
  <2>3. QED BY <2>1, <2>2 DEF Held
<1>6. touch => m > 0 /\ m \in 1 .. m /\ End(done[m]) = b.start_addr
  <2>1. touch => Last(done) = done[m]
    BY DEF Last
  <2>2. QED BY <1>2, <2>1 DEF Touch, End
<1>7. \A x \in Int : Held(done, m, x) <=> Held(s, j, x)
  BY DEF Holding
<1> HIDE DEF b, u, m, touch
<1>8. CASE touch
  <2>1. Len(u) = m /\ m \in 1 .. m /\ m \in Nat /\ End(done[m]) = b.start_addr
    BY <1>2, <1>6, <1>8
  <2>2. u[m].start_addr = done[m].start_addr /\ u[m].size = done[m].size + b.size
        /\ \A k \in 1 .. m - 1 : u[k] = done[k]
    BY <1>2, <1>8
  <2>3. /\ \A k \in 1 .. m : k \in 1 .. m - 1 \/ k = m
        /\ \A k \in 1 .. m - 1 : k \in 1 .. m
    BY <2>1
  <2>4. \A k \in 1 .. m : u[k].size >= 0
    <3>1. u[m].size >= 0
      BY <1>1, <1>4, <2>1, <2>2
    <3>2. \A k \in 1 .. m - 1 : u[k].size >= 0
      BY <1>4, <2>2, <2>3
    <3>3. QED BY <2>3, <3>1, <3>2
  <2>5. ASSUME NEW x \in Int PROVE Held(u, m, x) <=> Held(s, j + 1, x)
    <3>1. ASSUME NEW k \in 1 .. m - 1
          PROVE  (u[k].start_addr <= x /\ x < End(u[k]))
                   <=> (done[k].start_addr <= x /\ x < End(done[k]))
      BY <2>2
    <3>2. (u[m].start_addr <= x /\ x < End(u[m]))
            <=> (done[m].start_addr <= x /\ x < End(done[m]))
                 \/ (b.start_addr <= x /\ x < End(b))
      <4>1. /\ u[m].start_addr = done[m].start_addr
            /\ End(done[m]) = done[m].start_addr + done[m].size
            /\ End(u[m]) = done[m].start_addr + (done[m].size + b.size)
            /\ End(b) = b.start_addr + b.size
        BY <2>2 DEF End
      <4>2. done[m].start_addr \in Int /\ done[m].size \in Int /\ done[m].size >= 0
        BY <1>4, <2>1
      <4>3. \A p, q, c \in Int : q >= 0 /\ c >= 0 =>
               ((p <= x /\ x < p + (q + c))
                  <=> (p <= x /\ x < p + q) \/ (p + q <= x /\ x < p + q + c))
        BY TwoParts
      <4>4. /\ End(b) = done[m].start_addr + done[m].size + b.size
            /\ b.start_addr = done[m].start_addr + done[m].size
        BY <2>1, <4>1
      <4>5. QED BY <1>1, <4>1, <4>2, <4>3, <4>4
    <3>3. Held(u, m, x) <=> \/ \E k \in 1 .. m - 1 : u[k].start_addr <= x /\ x < End(u[k])
                            \/ u[m].start_addr <= x /\ x < End(u[m])
      BY <2>1, <2>3 DEF Held
    <3>4. Held(done, m, x) <=> \/ \E k \in 1 .. m - 1 : done[k].start_addr <= x /\ x < End(done[k])
                               \/ done[m].start_addr <= x /\ x < End(done[m])
      BY <2>1, <2>3 DEF Held
    <3>5. QED BY <1>5, <1>7, <3>1, <3>2, <3>3, <3>4
  <2>6. QED BY <1>3, <2>1, <2>4, <2>5 DEF Holding, u, b
<1>9. CASE ~touch
  <2>1. Len(u) = m + 1 /\ u[m + 1] = b /\ \A k \in 1 .. m : u[k] = done[k]
    BY <1>2, <1>9
  <2>2. /\ m + 1 \in 1 .. m + 1 /\ \A k \in 1 .. m + 1 : k \in 1 .. m \/ k = m + 1
        /\ \A k \in 1 .. m : k \in 1 .. m + 1
    BY <1>2
  <2>3. \A k \in 1 .. m + 1 : u[k].size >= 0
    BY <1>1, <1>4, <2>1, <2>2
  <2>4. ASSUME NEW x \in Int PROVE Held(u, m + 1, x) <=> Held(s, j + 1, x)
    <3>1. Held(u, m + 1, x) <=> Held(done, m, x) \/ (b.start_addr <= x /\ x < End(b))
      BY <2>1, <2>2 DEF Held
    <3>2. QED BY <1>5, <1>7, <3>1
  <2>5. QED BY <1>3, <2>1, <2>3, <2>4 DEF Holding, u, b
<1>10. QED BY <1>8, <1>9

\* The addresses of a list are those of its blocks.
LEMMA AddressesAre ==
  ASSUME NEW s \in Seq(FreeBlock), NEW x
  PROVE  x \in Addresses(s) <=> x \in Int /\ \E c \in FreeOf(s) : x \in P!Cells(c)
<1>1. /\ FreeOf(s) = {Cut(s[k]) : k \in 1 .. Len(s)} /\ DOMAIN s = 1 .. Len(s)
      /\ \A k \in 1 .. Len(s) : s[k] \in FreeBlock /\ s[k].start_addr \in Int /\ s[k].size \in Int
  BY FreeOfIs
<1>2. ASSUME NEW k \in 1 .. Len(s)
      PROVE  P!Cells(Cut(s[k])) = s[k].start_addr .. s[k].start_addr + s[k].size - 1
  <2>1. P!Cells(Cut(s[k])) = s[k].start_addr .. End(s[k]) - 1
    BY <1>1, CutIs
  <2>2. End(s[k]) - 1 = s[k].start_addr + s[k].size - 1
    BY <1>1 DEF End
  <2>3. QED BY <2>1, <2>2
<1>3. x \in Addresses(s) <=>
        \E k \in 1 .. Len(s) : x \in s[k].start_addr .. s[k].start_addr + s[k].size - 1
  BY <1>1 DEF Addresses, ToSet
<1>4. QED BY <1>1, <1>2, <1>3

\* Sorting a list, also one that overlaps itself, and merging it keeps its
\* addresses.
LEMMA MergeAddresses ==
  ASSUME NEW s \in Seq(FreeBlock), \A b \in ToSet(s) : b.size >= 0
  PROVE  Addresses(merge(rearrange(MA_FF, s))) = Addresses(s)
<1> DEFINE t == rearrange(MA_FF, s)
           n == Len(t)
<1>1. /\ t \in Seq(FreeBlock) /\ FreeOf(t) = FreeOf(s) /\ n \in Nat /\ t \in Lists(n)
      /\ \A k \in 1 .. n : t[k].size >= 0
  <2>1. /\ t \in Seq(FreeBlock) /\ FreeOf(t) = FreeOf(s)
    BY SortedFree DEF Algorithms
  <2> HIDE DEF t
  <2>2. /\ FreeOf(s) = {Cut(s[k]) : k \in 1 .. Len(s)} /\ DOMAIN s = 1 .. Len(s)
        /\ FreeOf(t) = {Cut(t[k]) : k \in 1 .. n} /\ n \in Nat
    BY <2>1, FreeOfIs
  <2>3. ASSUME NEW k \in 1 .. n PROVE t[k].size >= 0
    <3>1. PICK i \in 1 .. Len(s) : Cut(t[k]) = Cut(s[i])
      BY <2>1, <2>2
    <3>2. t[k].size = s[i].size
      BY <3>1 DEF Cut
    <3>3. s[i] \in ToSet(s)
      BY <2>2 DEF ToSet
    <3>4. QED BY <3>2, <3>3
  <2>4. t \in Lists(n)
    BY <2>1 DEF Lists
  <2>5. QED BY <2>1, <2>2, <2>3, <2>4
<1> HIDE DEF t, n
<1>2. PICK f \in [0 .. n -> Seq(FreeBlock)] :
            /\ f[0] = <<>>
            /\ \A j \in 1 .. n : f[j] = Join(f[j - 1], t[j])
            /\ merge(t) = rearrange(MA_WF, f[n])
  BY <1>1, JoinSteps
<1> DEFINE S == {j \in 0 .. n : Holding(f[j], t, j)}
<1>3. 0 \in S
  <2>1. DOMAIN <<>> = {} /\ Len(<<>>) = 0
    OBVIOUS
  <2>2. Holding(<<>>, t, 0)
    BY <2>1 DEF Holding, Held
  <2>3. QED BY <1>1, <1>2, <2>2
<1>4. ASSUME NEW j \in 0 .. n - 1, j \in S PROVE j + 1 \in S
  <2>1. j + 1 \in 1 .. n /\ (j + 1) - 1 = j /\ j + 1 \in 0 .. n /\ j \in 0 .. n
    BY <1>1
  <2>2. f[j + 1] = Join(f[j], t[j + 1]) /\ f[j] \in Seq(FreeBlock) /\ Holding(f[j], t, j)
    BY <1>2, <1>4, <2>1
  <2>3. Holding(f[j + 1], t, j + 1)
    BY <1>1, <2>2, HoldingStep
  <2>4. QED BY <2>1, <2>3
<1> HIDE DEF S
<1>5. \A j \in 0 .. n : j \in S
  BY <1>1, <1>3, <1>4, UpTo
<1> DEFINE d == f[n]
<1>6. d \in Seq(FreeBlock) /\ Holding(d, t, n) /\ merge(t) = rearrange(MA_WF, d)
  BY <1>1, <1>2, <1>5 DEF S
<1> HIDE DEF d
<1>7. merge(t) \in Seq(FreeBlock) /\ FreeOf(merge(t)) = FreeOf(d)
  BY <1>6, SortedFree DEF Algorithms
<1>8. \A x \in Int : (\E c \in FreeOf(d) : x \in P!Cells(c))
                       <=> (\E c \in FreeOf(t) : x \in P!Cells(c))
  BY <1>1, <1>6, HeldFree DEF Holding, n
<1>9. \A x : x \in Addresses(merge(t)) <=> x \in Addresses(s)
  BY <1>1, <1>6, <1>7, <1>8, AddressesAre
<1>10. QED BY <1>9 DEF t

----------------------------------------------------------------------------
(* The allocated blocks                                                    *)

\* The blocks have the numbers of the processes, the newest first, up to p.
Numbered(a, p) ==
  /\ \A i \in DOMAIN a : a[i].pid <= p
  /\ \A i, j \in DOMAIN a : i < j => a[i].pid > a[j].pid

\* The used blocks are those of the allocated list's nodes.
LEMMA UsedOfIs ==
  ASSUME NEW a \in Seq(AllocatedBlock)
  PROVE  /\ UsedOf(a) = {Own(a[k]) : k \in 1 .. Len(a)}
         /\ DOMAIN a = 1 .. Len(a) /\ Len(a) \in Nat
         /\ \A k \in 1 .. Len(a) :
               a[k] \in AllocatedBlock /\ a[k].pid \in Nat /\ Own(a[k]).pid = a[k].pid
<1>1. DOMAIN a = 1 .. Len(a) /\ Len(a) \in Nat
  BY LenProperties
<1>2. \A k \in 1 .. Len(a) : a[k] \in AllocatedBlock
  BY ElementOfSeq
<1>3. UsedOf(a) = {Own(a[k]) : k \in 1 .. Len(a)}
  BY <1>1 DEF UsedOf, ToSet
<1>4. \A b \in AllocatedBlock : b.pid \in Nat /\ Own(b).pid = b.pid
  BY ConstantsAssumption DEF AllocatedBlock, Own
<1>5. QED BY <1>1, <1>2, <1>3, <1>4

\* A new block at the head of the list.
LEMMA UsedPush ==
  ASSUME NEW a \in Seq(AllocatedBlock), NEW p \in Int, Numbered(a, p),
         NEW b \in AllocatedBlock, b.pid = p + 1
  PROVE  /\ UsedOf(<<b>> \o a) = UsedOf(a) \cup {Own(b)}
         /\ Numbered(<<b>> \o a, p + 1)
         /\ \A v \in UsedOf(a) : v.pid # Own(b).pid
<1> DEFINE n == Len(a)
           t == <<b>> \o a
<1>1. /\ UsedOf(a) = {Own(a[k]) : k \in 1 .. n} /\ DOMAIN a = 1 .. n /\ n \in Nat
      /\ \A k \in 1 .. n : a[k].pid \in Nat /\ Own(a[k]).pid = a[k].pid
  BY UsedOfIs
<1>2. t \in Seq(AllocatedBlock) /\ Len(t) = n + 1 /\ t[1] = b
      /\ \A k \in 1 .. n : t[k + 1] = a[k]
  <2>1. <<b>> \in Seq(AllocatedBlock) /\ Len(<<b>>) = 1 /\ <<b>>[1] = b
    OBVIOUS
  <2>2. /\ t \in Seq(AllocatedBlock)
        /\ Len(t) = Len(<<b>>) + n
        /\ \A i \in 1 .. Len(<<b>>) + n :
               t[i] = IF i <= Len(<<b>>) THEN <<b>>[i] ELSE a[i - Len(<<b>>)]
    BY <2>1, ConcatProperties
  <2> HIDE DEF t, n
  <2>3. Len(t) = n + 1 /\ 1 \in 1 .. 1 + n /\ 1 <= 1
    BY <1>1, <2>1, <2>2
  <2>4. t[1] = b
    BY <2>1, <2>2, <2>3
  <2>5. ASSUME NEW k \in 1 .. n PROVE t[k + 1] = a[k]
    <3>1. k + 1 \in 1 .. 1 + n /\ ~ (k + 1 <= 1) /\ (k + 1) - 1 = k
      BY <1>1
    <3>2. QED BY <2>1, <2>2, <3>1
  <2>6. QED BY <2>2, <2>3, <2>4, <2>5
<1>3. UsedOf(t) = {Own(t[k]) : k \in 1 .. n + 1} /\ DOMAIN t = 1 .. n + 1
  BY <1>2, UsedOfIs
<1>4. Own(b).pid = p + 1
  BY DEF Own
<1> HIDE DEF n, t
<1>5. /\ \A k \in 1 .. n + 1 : k = 1 \/ (k - 1 \in 1 .. n /\ (k - 1) + 1 = k)
      /\ 1 \in 1 .. n + 1 /\ \A k \in 1 .. n : k + 1 \in 1 .. n + 1
  BY <1>1
<1>6. UsedOf(t) = UsedOf(a) \cup {Own(b)}
  <2>1. ASSUME NEW k \in 1 .. n + 1 PROVE Own(t[k]) \in UsedOf(a) \cup {Own(b)}
    <3>1. CASE k = 1
      BY <1>2, <3>1
    <3>2. CASE k # 1
      <4>1. k - 1 \in 1 .. n /\ t[k] = a[k - 1]
        BY <1>2, <1>5, <3>2
      <4>2. QED BY <1>1, <4>1
    <3>3. QED BY <3>1, <3>2
  <2>2. ASSUME NEW k \in 1 .. n PROVE Own(a[k]) \in UsedOf(t)
    BY <1>2, <1>3, <1>5
  <2>3. Own(b) \in UsedOf(t)
    BY <1>2, <1>3, <1>5
  <2>4. QED BY <1>1, <1>3, <2>1, <2>2, <2>3
<1>7. \A k \in 1 .. n : a[k].pid <= p
  BY <1>1 DEF Numbered
<1>8. \A v \in UsedOf(a) : v.pid # Own(b).pid
  BY <1>1, <1>4, <1>7
<1>9. Numbered(t, p + 1)
  <2>1. ASSUME NEW k \in 1 .. n + 1 PROVE t[k].pid <= p + 1
    <3>1. CASE k = 1
      BY <1>2, <3>1
    <3>2. CASE k # 1
      <4>1. k - 1 \in 1 .. n /\ t[k] = a[k - 1]
        BY <1>2, <1>5, <3>2
      <4>2. QED BY <1>1, <1>7, <4>1
    <3>3. QED BY <3>1, <3>2
  <2>2. ASSUME NEW i \in 1 .. n + 1, NEW j \in 1 .. n + 1, i < j
        PROVE  t[i].pid > t[j].pid
    <3>1. j # 1 /\ j - 1 \in 1 .. n /\ (j - 1) + 1 = j
      BY <1>1, <2>2
    <3>2. t[j] = a[j - 1]
      BY <1>2, <3>1
    <3>3. CASE i = 1
      <4>1. t[i].pid = p + 1
        BY <1>2, <3>3
      <4>2. QED BY <1>1, <1>7, <3>1, <3>2, <4>1
    <3>4. CASE i # 1
      <4>1. i - 1 \in 1 .. n /\ (i - 1) + 1 = i /\ i - 1 < j - 1
        BY <1>1, <2>2, <3>4
      <4>2. t[i] = a[i - 1]
        BY <1>2, <4>1
      <4>3. QED BY <1>1, <3>1, <3>2, <4>1, <4>2 DEF Numbered
    <3>5. QED BY <3>3, <3>4
  <2>3. QED BY <1>3, <2>1, <2>2 DEF Numbered
<1>10. QED BY <1>6, <1>8, <1>9 DEF t

\* A block taken out of the list.
LEMMA UsedRemove ==
  ASSUME NEW a \in Seq(AllocatedBlock), NEW p \in Int, Numbered(a, p), NEW k \in 1 .. Len(a)
  PROVE  /\ UsedOf(RemoveAt(a, k)) = UsedOf(a) \ {Own(a[k])}
         /\ Numbered(RemoveAt(a, k), p)
<1> DEFINE n == Len(a)
           front == SubSeq(a, 1, k - 1)
           back == SubSeq(a, k + 1, n)
           t == front \o back
<1>1. /\ UsedOf(a) = {Own(a[i]) : i \in 1 .. n} /\ DOMAIN a = 1 .. n /\ n \in Nat
      /\ \A i \in 1 .. n : a[i] \in AllocatedBlock
      /\ \A i \in 1 .. n : a[i].pid \in Nat /\ Own(a[i]).pid = a[i].pid
  BY UsedOfIs
<1>2. RemoveAt(a, k) = t /\ k \in 1 .. n
  BY DEF RemoveAt
<1> HIDE DEF n
<1>3. /\ front \in Seq(AllocatedBlock) /\ Len(front) = k - 1
      /\ \A i \in 1 .. k - 1 : front[i] = a[i]
  <2>1. 1 \in Int /\ k - 1 \in Int /\ \A i \in 1 .. k - 1 : a[i] \in AllocatedBlock
    BY <1>1, <1>2
  <2>2. /\ front \in Seq(AllocatedBlock)
        /\ Len(front) = IF 1 <= k - 1 THEN (k - 1) - 1 + 1 ELSE 0
        /\ \A i \in 1 .. (k - 1) - 1 + 1 : front[i] = a[1 + i - 1]
    BY <2>1, SubSeqProperties
  <2>3. (IF 1 <= k - 1 THEN (k - 1) - 1 + 1 ELSE 0) = k - 1 /\ (k - 1) - 1 + 1 = k - 1
        /\ \A i \in 1 .. k - 1 : 1 + i - 1 = i
    BY <1>1, <1>2
  <2>4. QED BY <2>2, <2>3
<1>4. /\ back \in Seq(AllocatedBlock) /\ Len(back) = n - k
      /\ \A i \in 1 .. n - k : back[i] = a[k + i]
  <2>1. k + 1 \in Int /\ n \in Int /\ \A i \in k + 1 .. n : a[i] \in AllocatedBlock
    BY <1>1, <1>2
  <2>2. /\ back \in Seq(AllocatedBlock)
        /\ Len(back) = IF k + 1 <= n THEN n - (k + 1) + 1 ELSE 0
        /\ \A i \in 1 .. n - (k + 1) + 1 : back[i] = a[(k + 1) + i - 1]
    BY <2>1, SubSeqProperties
  <2>3. (IF k + 1 <= n THEN n - (k + 1) + 1 ELSE 0) = n - k /\ n - (k + 1) + 1 = n - k
        /\ \A i \in 1 .. n - k : (k + 1) + i - 1 = k + i
    BY <1>1, <1>2
  <2>4. QED BY <2>2, <2>3
<1> HIDE DEF front, back
<1>5. /\ t \in Seq(AllocatedBlock) /\ Len(t) = n - 1
      /\ \A i \in 1 .. n - 1 : t[i] = IF i < k THEN a[i] ELSE a[i + 1]
  <2>1. /\ t \in Seq(AllocatedBlock)
        /\ Len(t) = Len(front) + Len(back)
        /\ \A i \in 1 .. Len(front) + Len(back) :
               t[i] = IF i <= Len(front) THEN front[i] ELSE back[i - Len(front)]
    BY <1>3, <1>4, ConcatProperties
  <2> HIDE DEF t
  <2>2. Len(front) + Len(back) = n - 1 /\ Len(front) = k - 1
    BY <1>1, <1>2, <1>3, <1>4
  <2>3. ASSUME NEW i \in 1 .. n - 1 PROVE t[i] = IF i < k THEN a[i] ELSE a[i + 1]
    <3>1. t[i] = IF i <= k - 1 THEN front[i] ELSE back[i - (k - 1)]
      BY <2>1, <2>2
    <3>2. CASE i < k
      <4>1. i <= k - 1 /\ i \in 1 .. k - 1
        BY <1>1, <1>2, <3>2
      <4>2. QED BY <1>3, <3>1, <3>2, <4>1
    <3>3. CASE ~(i < k)
      <4>1. ~(i <= k - 1) /\ i - (k - 1) \in 1 .. n - k /\ k + (i - (k - 1)) = i + 1
        BY <1>1, <1>2, <3>3
      <4>2. QED BY <1>4, <3>1, <3>3, <4>1
    <3>4. QED BY <3>2, <3>3
  <2>4. QED BY <2>1, <2>2, <2>3
<1>6. UsedOf(t) = {Own(t[i]) : i \in 1 .. n - 1} /\ DOMAIN t = 1 .. n - 1
  BY <1>5, UsedOfIs
<1> HIDE DEF t
<1>7. \A i \in 1 .. n : i # k => Own(a[i]) # Own(a[k])
  <2>1. \A i \in 1 .. n : i # k => a[i].pid # a[k].pid
    BY <1>1, <1>2 DEF Numbered
  <2>2. QED BY <1>1, <1>2, <2>1
<1>8. ASSUME NEW i \in 1 .. n - 1
      PROVE  \E j \in 1 .. n : j # k /\ t[i] = a[j] /\ j = IF i < k THEN i ELSE i + 1
  <2>1. CASE i < k
    <3>1. i \in 1 .. n /\ i # k
      BY <1>1, <1>2, <2>1
    <3>2. QED BY <1>5, <2>1, <3>1
  <2>2. CASE ~(i < k)
    <3>1. i + 1 \in 1 .. n /\ i + 1 # k
      BY <1>1, <1>2, <2>2
    <3>2. QED BY <1>5, <2>2, <3>1
  <2>3. QED BY <2>1, <2>2
<1>9. ASSUME NEW j \in 1 .. n, j # k PROVE \E i \in 1 .. n - 1 : t[i] = a[j]
  <2>1. CASE j < k
    <3>1. j \in 1 .. n - 1
      BY <1>1, <1>2, <2>1
    <3>2. QED BY <1>5, <2>1, <3>1
  <2>2. CASE j > k
    <3>1. j - 1 \in 1 .. n - 1 /\ ~(j - 1 < k) /\ (j - 1) + 1 = j
      BY <1>1, <1>2, <2>2
    <3>2. QED BY <1>5, <3>1
  <2>3. QED BY <1>2, <1>9, <2>1, <2>2
<1>10. UsedOf(t) = UsedOf(a) \ {Own(a[k])}
  <2>1. ASSUME NEW i \in 1 .. n - 1 PROVE Own(t[i]) \in UsedOf(a) \ {Own(a[k])}
    BY <1>1, <1>7, <1>8
  <2>2. ASSUME NEW j \in 1 .. n, Own(a[j]) # Own(a[k]) PROVE Own(a[j]) \in UsedOf(t)
    <3>1. PICK i \in 1 .. n - 1 : t[i] = a[j]
      BY <1>9, <2>2
    <3>2. QED BY <1>6, <3>1
  <2>3. QED BY <1>1, <1>6, <2>1, <2>2
<1>11. Numbered(t, p)
  <2>1. \A i \in 1 .. n - 1 : t[i].pid <= p
    BY <1>1, <1>8 DEF Numbered
  <2>2. ASSUME NEW i \in 1 .. n - 1, NEW j \in 1 .. n - 1, i < j
        PROVE  t[i].pid > t[j].pid
    <3>1. PICK c \in 1 .. n : t[i] = a[c] /\ c = IF i < k THEN i ELSE i + 1
      BY <1>8
    <3>2. PICK d \in 1 .. n : t[j] = a[d] /\ d = IF j < k THEN j ELSE j + 1
      BY <1>8
    <3>3. c < d
      BY <1>1, <1>2, <2>2, <3>1, <3>2
    <3>4. QED BY <1>1, <3>1, <3>2, <3>3 DEF Numbered
  <2>3. QED BY <1>6, <2>1, <2>2 DEF Numbered
<1>12. QED BY <1>2, <1>10, <1>11

----------------------------------------------------------------------------
(* The steps of the manager as steps of the partition                      *)

\* Without a join the request is served from the front of a free block, or
\* the free blocks stay as they are.
LEMMA AllocateTakes ==
  ASSUME NEW s \in Seq(FreeBlock), s # <<>>, Tidy(s), NEW request \in Nat \ {0},
         allocate_mem(s, request).nodes = Len(s)
  PROVE  LET a == allocate_mem(s, request)
         IN  /\ a.free \in Seq(FreeBlock) /\ Tidy(a.free)
             /\ a.ret = 0 => FreeOf(a.free) = FreeOf(s)
             /\ a.ret = 1 =>
                   \E b \in FreeOf(s) :
                      /\ a.start_addr = b.start /\ a.start_addr \in Nat
                      /\ a.size \in Nat \ {0} /\ a.size <= b.size
                      /\ FreeOf(a.free) = (FreeOf(s) \ {b}) \cup
                            (IF a.size = b.size THEN {}
                             ELSE {[start |-> b.start + a.size, size |-> b.size - a.size]})
<1> USE ConstantsAssumption
<1> DEFINE w0 == rearrange(MA_WF, s)
           w == JoinedUp(w0, request)
           a == allocate_mem(s, request)
           fit == w[1].size > request
           whole == w[1].size - request <= MIN_SLICE
<1>1. /\ w0 \in Seq(FreeBlock) /\ w0 # <<>> /\ Len(w0) = Len(s)
      /\ FreeOf(w0) = FreeOf(s) /\ Tidy(w0)
  BY SortedFree DEF Algorithms
<1>2. /\ a.ret = IF fit THEN 1 ELSE 0
      /\ a.nodes = Len(w)
      /\ a.start_addr = w[1].start_addr
      /\ a.size = IF whole THEN w[1].size ELSE request
      /\ a.free = IF ~fit THEN rearrange(MA_WF, w)
                  ELSE IF whole THEN Tail(w)
                  ELSE [w EXCEPT ![1] = [start_addr |-> @.start_addr + request,
                                         size |-> @.size - request]]
  BY DEF allocate_mem, TakeHead, w, w0
<1>3. w = w0
  <2> HIDE DEF w0
  <2>1. PICK k \in 1 .. Len(w0) : w = Joined(w0, k)
    BY <1>1, JoinedUpIs
  <2>2. Len(w) = Len(w0) - k + 1 /\ (k = 1 => w = w0)
    BY <1>1, <2>1, JoinedIs
  <2>3. Len(w) = Len(w0) /\ Len(w0) \in Nat
    BY <1>1, <1>2, LenProperties
  <2>4. k = 1
    BY <2>2, <2>3
  <2>5. QED BY <2>2, <2>4
<1> HIDE DEF w0, w, a
<1>4. /\ w \in Seq(FreeBlock) /\ w # <<>> /\ FreeOf(w) = FreeOf(s) /\ Tidy(w)
  BY <1>1, <1>3
<1>5. /\ FreeOf(w) = {Cut(w[k]) : k \in 1 .. Len(w)} /\ DOMAIN w = 1 .. Len(w)
      /\ 1 \in 1 .. Len(w)
      /\ w[1] \in FreeBlock /\ w[1].start_addr \in Int /\ w[1].size \in Int
  <2>1. 1 \in 1 .. Len(w)
    BY <1>4, EmptySeq
  <2>2. QED BY <1>4, <2>1, FreeOfIs
<1>6. w[1].start_addr \in Nat /\ w[1].size \in Nat \ {0}
  <2>1. w[1].start_addr >= 0 /\ w[1].size > 0
    BY <1>4, <1>5 DEF Tidy
  <2>2. QED BY <1>5, <2>1
<1>7. Cut(w[1]) \in FreeOf(s) /\ Cut(w[1]).start = w[1].start_addr /\ Cut(w[1]).size = w[1].size
  <2>1. Cut(w[1]) \in FreeOf(w)
    BY <1>5
  <2>2. QED BY <1>4, <1>5, <2>1, CutIs
<1>8. CASE ~fit
  <2>1. a.ret = 0 /\ a.free = rearrange(MA_WF, w)
    BY <1>2, <1>8
  <2>2. rearrange(MA_WF, w) \in Seq(FreeBlock) /\ Tidy(rearrange(MA_WF, w))
        /\ FreeOf(rearrange(MA_WF, w)) = FreeOf(w)
    BY <1>4, SortedFree DEF Algorithms
  <2>3. QED BY <1>4, <2>1, <2>2 DEF a
<1>9. CASE fit /\ whole
  <2>1. a.ret = 1 /\ a.free = Tail(w) /\ a.size = w[1].size
    BY <1>2, <1>9
  <2>2. /\ Tail(w) \in Seq(FreeBlock) /\ Tidy(Tail(w))
        /\ FreeOf(Tail(w)) = FreeOf(w) \ {Cut(w[1])}
    BY <1>4, TailFree
  <2>3. /\ a.start_addr = Cut(w[1]).start /\ a.start_addr \in Nat
        /\ a.size \in Nat \ {0} /\ a.size <= Cut(w[1]).size /\ a.size = Cut(w[1]).size
    BY <1>2, <1>6, <1>7, <2>1
  <2>4. FreeOf(a.free) = (FreeOf(s) \ {Cut(w[1])}) \cup {}
    BY <1>4, <2>1, <2>2
  <2>5. QED BY <1>7, <2>1, <2>2, <2>3, <2>4 DEF a
<1>10. CASE fit /\ ~whole
  <2>0. PICK rest : rest = [start_addr |-> w[1].start_addr + request, size |-> w[1].size - request]
    OBVIOUS
  <2>1. a.ret = 1 /\ a.free = [w EXCEPT ![1] = rest] /\ a.size = request
    BY <1>2, <1>5, <1>10, <2>0
  <2>2. /\ rest \in FreeBlock /\ rest.size > 0 /\ rest.start_addr > w[1].start_addr
        /\ End(rest) = End(w[1])
        /\ rest.start_addr = w[1].start_addr + request /\ rest.size = w[1].size - request
    BY <1>5, <1>10, <2>0 DEF FreeBlock, End
  <2>3. /\ a.free \in Seq(FreeBlock) /\ Tidy(a.free)
        /\ FreeOf(a.free) = (FreeOf(w) \ {Cut(w[1])}) \cup {Cut(rest)}
    BY <1>4, <2>1, <2>2, SplitFree
  <2>4. /\ a.start_addr = Cut(w[1]).start /\ a.start_addr \in Nat
        /\ a.size \in Nat \ {0} /\ a.size <= Cut(w[1]).size /\ a.size # Cut(w[1]).size
    BY <1>2, <1>6, <1>7, <1>10, <2>1
  <2>5. Cut(rest) = [start |-> Cut(w[1]).start + a.size, size |-> Cut(w[1]).size - a.size]
    BY <1>7, <2>1, <2>2 DEF Cut
  <2>6. FreeOf(a.free) = (FreeOf(s) \ {Cut(w[1])}) \cup
            (IF a.size = Cut(w[1]).size THEN {}
             ELSE {[start |-> Cut(w[1]).start + a.size, size |-> Cut(w[1]).size - a.size]})
    BY <1>4, <2>3, <2>4, <2>5
  <2>7. a.ret # 0
    BY <2>1
  <2>8. PICK b \in FreeOf(s) :
            /\ a.start_addr = b.start /\ a.start_addr \in Nat
            /\ a.size \in Nat \ {0} /\ a.size <= b.size
            /\ FreeOf(a.free) = (FreeOf(s) \ {b}) \cup
                  (IF a.size = b.size THEN {}
                   ELSE {[start |-> b.start + a.size, size |-> b.size - a.size]})
    BY <1>7, <2>4, <2>6
  <2>9. QED BY <2>3, <2>7, <2>8 DEF a
<1>11. QED BY <1>8, <1>9, <1>10

\* free_mem, with the list it leaves, regroups the free blocks.
LEMMA FreeReleases ==
  ASSUME NEW s \in Seq(FreeBlock), NEW r \in FreeBlock, Tidy(s),
         r.start_addr >= 0, r.size > 0,
         \A k \in 1 .. Len(s) : End(s[k]) <= r.start_addr \/ End(r) <= s[k].start_addr
  PROVE  LET t == merge(rearrange(MA_FF, Append(s, r)))
         IN  /\ t \in Seq(FreeBlock) /\ Tidy(t)
             /\ FreeOf(t) \subseteq P!Block
             /\ \A c, d \in FreeOf(t) :
                   c # d => P!Cells(c) \cap P!Cells(d) = {} /\ ~P!Touch(c, d)
             /\ \A x \in Int : (\E c \in FreeOf(t) : x \in P!Cells(c))
                   <=> (x \in P!Cells(Cut(r)) \/ \E c \in FreeOf(s) : x \in P!Cells(c))
<1> DEFINE s1 == Append(s, r)
           s2 == rearrange(MA_FF, s1)
           n == Len(s1)
<1>1. s1 \in Seq(FreeBlock) /\ Tidy(s1) /\ FreeOf(s1) = FreeOf(s) \cup {Cut(r)}
  BY AppendFree
<1> HIDE DEF s1
<1>2. n \in Nat /\ s1 \in Lists(n)
  BY <1>1, LenProperties DEF Lists
<1>3. /\ s2 \in Seq(FreeBlock) /\ Tidy(s2) /\ FreeOf(s2) = FreeOf(s1)
  BY <1>1, SortedFree DEF Algorithms
<1>4. /\ s2 \in Lists(n)
      /\ \A a, b \in 1 .. n : a < b => Key(MA_FF, s2[a]) <= Key(MA_FF, s2[b])
  BY <1>2, RearrangeIs DEF Algorithms
<1> HIDE DEF s2, n
<1>5. \A a, b \in 1 .. n : a < b => s2[a].start_addr <= s2[b].start_addr
  BY <1>4 DEF Key
<1>6. LET t == merge(s2)
      IN  /\ t \in Seq(FreeBlock) /\ Tidy(t)
          /\ \A c \in FreeOf(t) : c \in P!Block
          /\ \A c, d \in FreeOf(t) :
                c # d => P!Cells(c) \cap P!Cells(d) = {} /\ ~P!Touch(c, d)
          /\ \A x \in Int : (\E c \in FreeOf(t) : x \in P!Cells(c))
                              <=> (\E c \in FreeOf(s2) : x \in P!Cells(c))
  BY <1>2, <1>3, <1>4, <1>5, MergeFree
<1>7. \A x : (\E c \in FreeOf(s2) : x \in P!Cells(c))
               <=> (x \in P!Cells(Cut(r)) \/ \E c \in FreeOf(s) : x \in P!Cells(c))
  BY <1>1, <1>3
<1>8. QED BY <1>6, <1>7 DEF s1, s2

\* A step of the partition, or none, in terms of its sets.
Moved(F, U, n, F2, U2, n2) ==
  \/ F2 = F /\ U2 = U /\ n2 = n
  \/ /\ U = {} /\ F = {Whole(n)}
     /\ n2 \in Nat \ {0} /\ F2 = {Whole(n2)} /\ U2 = U
  \/ \E b, u : /\ Taken(F, U, b, u, F2, U2) /\ n2 = n
               /\ \A v \in U : v.pid # u.pid
  \/ \E u : Released(F, U, u, F2, U2) /\ n2 = n

\* Every move of the partition leaves the memory divided.
LEMMA MovedDivides ==
  ASSUME NEW F, NEW U, NEW n, NEW F2, NEW U2, NEW n2,
         Divides(F, U, n), Moved(F, U, n, F2, U2, n2)
  PROVE  Divides(F2, U2, n2)
<1>1. CASE F2 = F /\ U2 = U /\ n2 = n
  BY <1>1
<1>2. CASE U = {} /\ n2 \in Nat \ {0} /\ F2 = {Whole(n2)} /\ U2 = U
  BY <1>2, WholeDivides
<1>3. CASE \E b, u : Taken(F, U, b, u, F2, U2) /\ n2 = n
  BY <1>3, TakenDivides
<1>4. CASE \E u : Released(F, U, u, F2, U2) /\ n2 = n
  BY <1>4, ReleasedDivides
<1>5. QED BY <1>1, <1>2, <1>3, <1>4 DEF Moved

\* What the lists of an intact manager are: a division of the memory.
Divided ==
  /\ Divides(FreeOf(free_block), UsedOf(allocated_block_head), mem_size)
  /\ Tidy(free_block)

\* The inductive invariant of the refinement.
Kept ==
  /\ Numbered(allocated_block_head, pid)
  /\ intact /\ status = "menu" => Divided

\* What a step does: the manager stays intact only if it was, and then its
\* lists take a step of the partition, or none.
Goes ==
  /\ Numbered(allocated_block_head', pid')
  /\ intact' /\ status' = "menu" =>
        /\ intact /\ status = "menu"
        /\ Moved(FreeOf(free_block), UsedOf(allocated_block_head), mem_size,
                 FreeOf(free_block'), UsedOf(allocated_block_head'), mem_size')
        /\ Tidy(free_block')

\* A free list of one node.
LEMMA OneFree ==
  ASSUME NEW b \in FreeBlock
  PROVE  /\ FreeOf(<<b>>) = {Cut(b)}
         /\ b.start_addr >= 0 /\ b.size > 0 => Tidy(<<b>>)
<1>1. DOMAIN <<b>> = 1 .. 1 /\ <<b>>[1] = b
  OBVIOUS
<1>2. \A k \in 1 .. 1 : k = 1
  OBVIOUS
<1>3. FreeOf(<<b>>) = {Cut(b)}
  BY <1>1, <1>2 DEF FreeOf, ToSet
<1>4. b.start_addr >= 0 /\ b.size > 0 => Tidy(<<b>>)
  BY <1>1, <1>2 DEF Tidy
<1>5. QED BY <1>3, <1>4

\* An empty allocated list.
LEMMA NoneUsed ==
  ASSUME NEW p PROVE UsedOf(<<>>) = {} /\ Numbered(<<>>, p)
<1>1. DOMAIN <<>> = {}
  OBVIOUS
<1>2. QED BY <1>1 DEF UsedOf, ToSet, Numbered

\* A step that leaves the lists as they are, in any order.
LEMMA SameGoes ==
  ASSUME Kept, FreeOf(free_block') = FreeOf(free_block),
         Tidy(free_block) => Tidy(free_block'),
         UNCHANGED <<allocated_block_head, mem_size, pid, status, intact>>
  PROVE  Goes
<1>1. Numbered(allocated_block_head', pid')
  BY DEF Kept
<1>2. ASSUME intact', status' = "menu"
      PROVE  /\ intact /\ status = "menu" /\ Tidy(free_block')
             /\ Moved(FreeOf(free_block), UsedOf(allocated_block_head), mem_size,
                      FreeOf(free_block'), UsedOf(allocated_block_head'), mem_size')
  <2>1. intact /\ status = "menu"
    BY <1>2
  <2>2. Tidy(free_block)
    BY <2>1 DEF Kept, Divided
  <2>3. UsedOf(allocated_block_head') = UsedOf(allocated_block_head) /\ mem_size' = mem_size
    OBVIOUS
  <2>4. QED BY <2>1, <2>2, <2>3 DEF Moved
<1>3. QED BY <1>1, <1>2 DEF Goes

LEMMA SetMemSizeGoes == ASSUME Sound, Kept, set_mem_size PROVE Goes
<1> USE ConstantsAssumption
<1>1. TypeOK /\ Untouched /\ status = "menu" /\ flag = 0
  BY DEF Sound, set_mem_size
<1>2. PICK size \in Input :
          IF size > 0 /\ free_block = <<>>
          THEN Crash
          ELSE /\ mem_size' = IF size > 0 THEN size ELSE mem_size
               /\ free_block' = IF size > 0 THEN [free_block EXCEPT ![1].size = size]
                                            ELSE free_block
               /\ flag' = 1
               /\ UNCHANGED <<allocated_block_head, ma_algorithm, pid, status, history>>
  BY DEF set_mem_size
<1>3. size \in Int
  OBVIOUS
<1>4. CASE size > 0 /\ free_block = <<>>
  <2>1. status' # "menu" /\ UNCHANGED <<allocated_block_head, pid>>
    BY <1>2, <1>4 DEF Crash, lists
  <2>2. QED BY <2>1 DEF Goes, Kept
<1>5. CASE ~(size > 0)
  <2>1. UNCHANGED <<free_block, allocated_block_head, mem_size, pid, status, intact>>
    BY <1>2, <1>5 DEF history
  <2>2. QED BY <2>1, SameGoes
<1>6. CASE size > 0 /\ free_block # <<>>
  <2>0. PICK b, c : b = [start_addr |-> 0, size |-> mem_size]
                    /\ c = [start_addr |-> 0, size |-> size]
    OBVIOUS
  <2>1. free_block = <<b>> /\ allocated_block_head = <<>>
    BY <1>1, <1>6, <2>0 DEF Untouched
  <2>2. /\ mem_size' = size
        /\ free_block' = [free_block EXCEPT ![1].size = size]
        /\ UNCHANGED <<allocated_block_head, pid, status, intact>>
    BY <1>2, <1>6 DEF history
  <2>3. free_block' = <<c>>
    BY <2>0, <2>1, <2>2
  <2>4. mem_size \in Nat \ {0} /\ size \in Nat \ {0}
    BY <1>1, <1>3, <1>6 DEF TypeOK
  <2>5. /\ b \in FreeBlock /\ Cut(b) = Whole(mem_size)
        /\ c \in FreeBlock /\ Cut(c) = Whole(size) /\ c.start_addr >= 0 /\ c.size > 0
    BY <2>0, <2>4 DEF FreeBlock, Cut, Whole
  <2>6. /\ FreeOf(<<b>>) = {Whole(mem_size)}
        /\ FreeOf(<<c>>) = {Whole(size)} /\ Tidy(<<c>>)
    BY <2>5, OneFree
  <2>7. UsedOf(<<>>) = {} /\ Numbered(<<>>, pid)
    BY NoneUsed
  <2>8. Moved(FreeOf(free_block), UsedOf(allocated_block_head), mem_size,
              FreeOf(free_block'), UsedOf(allocated_block_head'), mem_size')
    BY <2>1, <2>2, <2>3, <2>4, <2>6, <2>7 DEF Moved
  <2>9. Tidy(free_block') /\ Numbered(allocated_block_head', pid')
    BY <2>1, <2>2, <2>3, <2>6, <2>7
  <2>10. QED BY <2>2, <2>8, <2>9 DEF Goes
<1>7. QED BY <1>4, <1>5, <1>6

LEMMA SetAlgorithmGoes == ASSUME Sound, Kept, set_algorithm PROVE Goes
<1>1. TypeOK
  BY DEF Sound
<1>2. PICK algorithm \in 0 .. MA_WF :
          /\ ma_algorithm' = IF algorithm >= 1 THEN algorithm ELSE ma_algorithm
          /\ free_block' = rearrange(ma_algorithm', free_block)
  BY DEF set_algorithm
<1>3. ma_algorithm' \in Algorithms /\ free_block \in Seq(FreeBlock)
  BY <1>1, <1>2, TypesAre DEF Algorithms, MA_FF, MA_BF, MA_WF
<1>4. FreeOf(free_block') = FreeOf(free_block) /\ (Tidy(free_block) => Tidy(free_block'))
  BY <1>2, <1>3, SortedFree
<1>5. UNCHANGED <<allocated_block_head, mem_size, pid, status, intact>>
  BY DEF set_algorithm, history
<1>6. QED BY <1>4, <1>5, SameGoes

LEMMA NewProcessGoes == ASSUME Sound, Kept, new_process PROVE Goes
<1> USE ConstantsAssumption
<1>1. TypeOK /\ status = "menu" /\ free_block # <<>> /\ pid < MaxPid
  BY DEF Sound, new_process, Served
<1>2. PICK size \in Input : \E request \in Requests(size) :
        /\ free_block' = allocate_mem(free_block, request).free
        /\ intact' = (intact /\ allocate_mem(free_block, request).nodes = Len(free_block)
                             /\ size > 0)
        /\ allocated_block_head' =
              IF allocate_mem(free_block, request).ret = 1
              THEN <<[pid |-> pid + 1, start_addr |-> allocate_mem(free_block, request).start_addr,
                      size |-> allocate_mem(free_block, request).size]>>
                      \o allocated_block_head
              ELSE allocated_block_head
  BY DEF new_process, Served
<1>3. PICK request \in Requests(size) :
        /\ free_block' = allocate_mem(free_block, request).free
        /\ intact' = (intact /\ allocate_mem(free_block, request).nodes = Len(free_block)
                             /\ size > 0)
        /\ allocated_block_head' =
              IF allocate_mem(free_block, request).ret = 1
              THEN <<[pid |-> pid + 1, start_addr |-> allocate_mem(free_block, request).start_addr,
                      size |-> allocate_mem(free_block, request).size]>>
                      \o allocated_block_head
              ELSE allocated_block_head
  BY <1>2
<1>4. pid' = pid + 1 /\ UNCHANGED <<mem_size, status>>
  BY DEF new_process, Served, settings
<1>5. /\ free_block \in Seq(FreeBlock) /\ allocated_block_head \in Seq(AllocatedBlock)
      /\ pid \in Nat /\ request \in Int
      /\ Numbered(allocated_block_head, pid)
  <2>1. request \in Int
    BY <1>3 DEF Requests
  <2>2. QED BY <1>1, <2>1, TypesAre DEF TypeOK, Kept
<1>6. PICK a : a = allocate_mem(free_block, request)
  OBVIOUS
<1>7. PICK b : b = [pid |-> pid + 1, start_addr |-> a.start_addr, size |-> a.size]
  OBVIOUS
<1>8. /\ free_block' = a.free
      /\ intact' = (intact /\ a.nodes = Len(free_block) /\ size > 0)
      /\ allocated_block_head' = IF a.ret = 1 THEN <<b>> \o allocated_block_head
                                              ELSE allocated_block_head
  BY <1>3, <1>6, <1>7
<1>9. a.start_addr \in Int /\ a.size \in Int /\ a.ret \in {0, 1}
  BY <1>1, <1>5, <1>6, AllocateSum
<1>10. b \in AllocatedBlock /\ b.pid = pid + 1
  BY <1>1, <1>5, <1>7, <1>9 DEF AllocatedBlock, TypeOK
<1>11. /\ UsedOf(<<b>> \o allocated_block_head) = UsedOf(allocated_block_head) \cup {Own(b)}
       /\ Numbered(<<b>> \o allocated_block_head, pid + 1)
       /\ \A v \in UsedOf(allocated_block_head) : v.pid # Own(b).pid
  BY <1>5, <1>10, UsedPush
<1>12. Numbered(allocated_block_head, pid + 1)
  <2>1. \A k \in DOMAIN allocated_block_head : allocated_block_head[k].pid \in Nat
    BY <1>5, UsedOfIs
  <2>2. QED BY <1>5, <2>1 DEF Numbered
<1>13. Numbered(allocated_block_head', pid')
  BY <1>4, <1>8, <1>11, <1>12
<1>14. ASSUME intact'
       PROVE  /\ intact /\ Tidy(free_block')
              /\ Moved(FreeOf(free_block), UsedOf(allocated_block_head), mem_size,
                       FreeOf(free_block'), UsedOf(allocated_block_head'), mem_size')
  <2>1. intact /\ a.nodes = Len(free_block) /\ size > 0
    BY <1>8, <1>14
  <2>2. request \in Nat \ {0}
    BY <1>5, <2>1 DEF Requests
  <2>3. Tidy(free_block)
    BY <1>1, <2>1 DEF Kept, Divided
  <2>4. /\ Tidy(a.free)
        /\ a.ret = 0 => FreeOf(a.free) = FreeOf(free_block)
        /\ a.ret = 1 =>
              \E c \in FreeOf(free_block) :
                 /\ a.start_addr = c.start /\ a.start_addr \in Nat
                 /\ a.size \in Nat \ {0} /\ a.size <= c.size
                 /\ FreeOf(a.free) = (FreeOf(free_block) \ {c}) \cup
                       (IF a.size = c.size THEN {}
                        ELSE {[start |-> c.start + a.size, size |-> c.size - a.size]})
    BY <1>1, <1>5, <1>6, <2>1, <2>2, <2>3, AllocateTakes
  <2>5. CASE a.ret = 0
    <3>1. FreeOf(free_block') = FreeOf(free_block)
          /\ UsedOf(allocated_block_head') = UsedOf(allocated_block_head)
          /\ mem_size' = mem_size
      BY <1>4, <1>8, <2>4, <2>5
    <3>2. QED BY <1>8, <2>1, <2>4, <3>1 DEF Moved
  <2>6. CASE a.ret = 1
    <3>1. PICK c \in FreeOf(free_block) :
                 /\ a.start_addr = c.start /\ a.start_addr \in Nat
                 /\ a.size \in Nat \ {0} /\ a.size <= c.size
                 /\ FreeOf(a.free) = (FreeOf(free_block) \ {c}) \cup
                       (IF a.size = c.size THEN {}
                        ELSE {[start |-> c.start + a.size, size |-> c.size - a.size]})
      BY <2>4, <2>6
    <3>2. Own(b) \in P!UsedBlock /\ Own(b).start = a.start_addr /\ Own(b).size = a.size
      BY <1>5, <1>7, <3>1 DEF Own, P!UsedBlock
    <3>3. UsedOf(allocated_block_head') = UsedOf(allocated_block_head) \cup {Own(b)}
      BY <1>8, <1>11, <2>6
    <3>4. Taken(FreeOf(free_block), UsedOf(allocated_block_head), c, Own(b),
                FreeOf(free_block'), UsedOf(allocated_block_head'))
      BY <1>8, <3>1, <3>2, <3>3 DEF Taken
    <3>5. Moved(FreeOf(free_block), UsedOf(allocated_block_head), mem_size,
                FreeOf(free_block'), UsedOf(allocated_block_head'), mem_size')
      BY <1>4, <1>11, <3>4 DEF Moved
    <3>6. QED BY <1>8, <2>1, <2>4, <3>5
  <2>7. QED BY <1>9, <2>5, <2>6
<1>15. QED BY <1>1, <1>13, <1>14 DEF Goes

LEMMA KillProcessGoes == ASSUME Sound, Kept, kill_process PROVE Goes
<1>1. TypeOK /\ status = "menu"
  BY DEF Sound, kill_process
<1>2. PICK k \in DOMAIN allocated_block_head :
          /\ free_block' =
                merge(rearrange(MA_FF, Append(free_block, Region(allocated_block_head[k]))))
          /\ allocated_block_head' = Disposed(k)
  BY DEF kill_process
<1>3. UNCHANGED <<mem_size, pid, status, intact>>
  BY DEF kill_process, settings, history
<1>4. /\ free_block \in Seq(FreeBlock) /\ allocated_block_head \in Seq(AllocatedBlock)
      /\ pid \in Int /\ Numbered(allocated_block_head, pid)
  BY <1>1, TypesAre DEF TypeOK, Kept
<1>5. k \in 1 .. Len(allocated_block_head) /\ allocated_block_head[k] \in AllocatedBlock
  BY <1>2, <1>4, UsedOfIs
<1>6. PICK u : u = allocated_block_head[k]
  OBVIOUS
<1>7. PICK r : r = Region(u)
  OBVIOUS
<1>8. /\ UsedOf(allocated_block_head') = UsedOf(allocated_block_head) \ {Own(u)}
      /\ Numbered(allocated_block_head', pid')
  BY <1>2, <1>3, <1>4, <1>5, <1>6, UsedRemove DEF Disposed
<1>9. Own(u) \in UsedOf(allocated_block_head)
  BY <1>4, <1>5, <1>6, UsedOfIs
<1>10. /\ r \in FreeBlock /\ r.start_addr = Own(u).start /\ r.size = Own(u).size
       /\ Cut(r).start = Own(u).start /\ Cut(r).size = Own(u).size
  BY <1>5, <1>6, <1>7 DEF Region, Own, Cut, FreeBlock, AllocatedBlock
<1>11. free_block' = merge(rearrange(MA_FF, Append(free_block, r)))
  BY <1>2, <1>6, <1>7
<1>12. ASSUME intact
       PROVE  /\ Tidy(free_block')
              /\ Moved(FreeOf(free_block), UsedOf(allocated_block_head), mem_size,
                       FreeOf(free_block'), UsedOf(allocated_block_head'), mem_size')
  <2>1. Tidy(free_block) /\ Divides(FreeOf(free_block), UsedOf(allocated_block_head), mem_size)
    BY <1>1, <1>12 DEF Kept, Divided
  <2>2. Own(u) \in P!UsedBlock
    BY <1>9, <2>1 DEF Divides
  <2>3. r.start_addr \in Nat /\ r.size \in Nat \ {0}
    BY <1>10, <2>2 DEF P!UsedBlock
  <2>4. P!Cells(Cut(r)) = P!Cells(Own(u)) /\ P!Cells(Cut(r)) = r.start_addr .. End(r) - 1
    BY <1>10, CutIs DEF P!Cells
  <2>5. ASSUME NEW i \in 1 .. Len(free_block)
        PROVE  End(free_block[i]) <= r.start_addr \/ End(r) <= free_block[i].start_addr
    <3>1. /\ Cut(free_block[i]) \in FreeOf(free_block)
          /\ free_block[i] \in FreeBlock /\ free_block[i].start_addr \in Int
          /\ free_block[i].size \in Int /\ i \in DOMAIN free_block
      BY <1>4, FreeOfIs
    <3>2. free_block[i].size > 0
      BY <2>1, <3>1 DEF Tidy
    <3>3. P!Cells(Cut(free_block[i])) \cap P!Cells(Own(u)) = {}
      BY <1>9, <2>1, <3>1 DEF Divides
    <3>4. P!Cells(Cut(free_block[i])) = free_block[i].start_addr .. End(free_block[i]) - 1
      BY <3>1, CutIs
    <3>5. r.start_addr \notin free_block[i].start_addr .. End(free_block[i]) - 1
          \/ r.start_addr \notin r.start_addr .. End(r) - 1
      BY <2>4, <3>3, <3>4
    <3>6. free_block[i].start_addr \notin free_block[i].start_addr .. End(free_block[i]) - 1
          \/ free_block[i].start_addr \notin r.start_addr .. End(r) - 1
      BY <2>4, <3>3, <3>4
    <3>7. QED BY <2>3, <3>1, <3>2, <3>5, <3>6 DEF End
  <2>6. LET t == free_block'
        IN  /\ t \in Seq(FreeBlock) /\ Tidy(t)
            /\ FreeOf(t) \subseteq P!Block
            /\ \A c, d \in FreeOf(t) :
                  c # d => P!Cells(c) \cap P!Cells(d) = {} /\ ~P!Touch(c, d)
            /\ \A x \in Int : (\E c \in FreeOf(t) : x \in P!Cells(c))
                  <=> (x \in P!Cells(Cut(r)) \/ \E c \in FreeOf(free_block) : x \in P!Cells(c))
    <3>1. r.start_addr >= 0 /\ r.size > 0
      BY <2>3
    <3>2. QED BY <1>4, <1>10, <1>11, <2>1, <2>5, <3>1, FreeReleases
  <2>7. \A c \in FreeOf(free_block') \cup FreeOf(free_block) \cup {Own(u)} :
           \A x \in P!Cells(c) : x \in Int
    <3>1. \A c \in P!Block \cup P!UsedBlock : \A x \in P!Cells(c) : x \in Int
      BY DEF P!Block, P!UsedBlock, P!Cells
    <3>2. FreeOf(free_block) \subseteq P!Block /\ FreeOf(free_block') \subseteq P!Block
      BY <2>1, <2>6 DEF Divides
    <3>3. QED BY <2>2, <3>1, <3>2
  <2>8. Released(FreeOf(free_block), UsedOf(allocated_block_head), Own(u),
                 FreeOf(free_block'), UsedOf(allocated_block_head'))
    <3>1. \A b \in FreeOf(free_block') : \A x \in P!Cells(b) :
             x \in P!Cells(Own(u)) \/ \E c \in FreeOf(free_block) : x \in P!Cells(c)
      BY <2>4, <2>6, <2>7
    <3>2. \A c \in FreeOf(free_block) : \A x \in P!Cells(c) :
             \E b \in FreeOf(free_block') : x \in P!Cells(b)
      BY <2>6, <2>7
    <3>3. \A x \in P!Cells(Own(u)) : \E b \in FreeOf(free_block') : x \in P!Cells(b)
      BY <2>4, <2>6, <2>7
    <3>4. QED BY <1>8, <1>9, <2>6, <3>1, <3>2, <3>3 DEF Released
  <2>9. QED BY <1>3, <2>6, <2>8 DEF Moved
<1>13. QED BY <1>1, <1>3, <1>8, <1>12 DEF Goes

LEMMA NextGoes == ASSUME Sound, Kept, [Next]_vars PROVE Goes
<1>1. TypeOK /\ Numbered(allocated_block_head, pid)
  BY DEF Sound, Kept
<1>2. CASE UNCHANGED vars
  BY <1>2, SameGoes DEF vars, lists, settings, history
<1>3. CASE display_mem_usage
  BY <1>3, SameGoes DEF display_mem_usage, lists, settings, history
<1>4. CASE kill_processLosesBlock
  <2>1. PICK k \in DOMAIN allocated_block_head : allocated_block_head' = Disposed(k)
    BY <1>4 DEF kill_processLosesBlock
  <2>2. ~intact' /\ pid' = pid
    BY <1>4 DEF kill_processLosesBlock
  <2>3. Numbered(allocated_block_head', pid')
    <3>1. allocated_block_head \in Seq(AllocatedBlock) /\ pid \in Int
      BY <1>1, TypesAre DEF TypeOK
    <3>2. k \in 1 .. Len(allocated_block_head)
      BY <3>1, UsedOfIs
    <3>3. QED BY <1>1, <2>1, <2>2, <3>1, <3>2, UsedRemove DEF Disposed
  <2>4. QED BY <2>2, <2>3 DEF Goes
<1>5. CASE Ending
  <2>1. status' # "menu"
    BY <1>5, EndingSound
  <2>2. pid' = pid /\ (allocated_block_head' = allocated_block_head \/ allocated_block_head' = <<>>)
    BY <1>5 DEF Ending, set_algorithmCrash, new_processCrash, new_processNoMemory,
         kill_processCrash, kill_unknownCrash, do_exit, do_exitCrash, Crash, lists
  <2>3. Numbered(allocated_block_head', pid')
    BY <1>1, <2>2, NoneUsed
  <2>4. QED BY <2>1, <2>3 DEF Goes
<1>6. QED BY <1>2, <1>3, <1>4, <1>5, SetMemSizeGoes, SetAlgorithmGoes, NewProcessGoes,
             KillProcessGoes DEF Next, Ending

\* The program begins with the whole memory free.
LEMMA InitKept == Init => Kept
<1> SUFFICES ASSUME Init PROVE Kept
  OBVIOUS
<1>1. Numbered(allocated_block_head, pid) /\ UsedOf(allocated_block_head) = {}
  BY NoneUsed DEF Init
<1>2. ASSUME intact PROVE Divided
  <2>0. PICK b : b = [start_addr |-> 0, size |-> DEFAULT_MEM_SIZE]
    OBVIOUS
  <2>1. free_block = <<b>> /\ mem_size = DEFAULT_MEM_SIZE /\ mem_size \in Nat \ {0}
    BY <1>2, <2>0, ConstantsAssumption DEF Init
  <2>2. b \in FreeBlock /\ Cut(b) = Whole(mem_size) /\ b.start_addr >= 0 /\ b.size > 0
    BY <2>0, <2>1 DEF FreeBlock, Cut, Whole
  <2>3. FreeOf(free_block) = {Whole(mem_size)} /\ Tidy(free_block)
    BY <2>1, <2>2, OneFree
  <2>4. QED BY <1>1, <2>1, <2>3, WholeDivides DEF Divided
<1>3. QED BY <1>1, <1>2 DEF Kept

\* A step that is a move of the partition keeps what is divided.
LEMMA GoesKept == ASSUME Kept, Goes PROVE Kept'
<1>1. ASSUME intact', status' = "menu" PROVE Divided'
  <2>1. /\ Divides(FreeOf(free_block), UsedOf(allocated_block_head), mem_size)
        /\ Moved(FreeOf(free_block), UsedOf(allocated_block_head), mem_size,
                 FreeOf(free_block'), UsedOf(allocated_block_head'), mem_size')
        /\ Tidy(free_block')
    BY <1>1 DEF Kept, Goes, Divided
  <2>2. Divides(FreeOf(free_block'), UsedOf(allocated_block_head'), mem_size')
    BY <2>1, MovedDivides
  <2>3. QED BY <2>1, <2>2 DEF Divided
<1>2. Numbered(allocated_block_head', pid')
  BY DEF Goes
<1>3. QED BY <1>1, <1>2 DEF Kept

LEMMA KeptHolds == Spec => []Kept
<1>1. Sound /\ Kept /\ [Next]_vars => Kept'
  BY NextGoes, GoesKept
<1>2. QED BY InitKept, <1>1, SoundHolds, PTL DEF Spec

\* Nothing but a kill takes a block out of the allocated list and comes back to
\* the menu.
LEMMA OnlyAKill ==
  ASSUME Sound, Kept, Next, NEW k \in DOMAIN allocated_block_head,
         allocated_block_head' = Disposed(k), status' = "menu"
  PROVE  kill_process \/ kill_processLosesBlock
<1>1. TypeOK /\ Numbered(allocated_block_head, pid)
  BY DEF Sound, Kept
<1>2. /\ allocated_block_head \in Seq(AllocatedBlock) /\ pid \in Int
      /\ k \in 1 .. Len(allocated_block_head)
  <2>1. allocated_block_head \in Seq(AllocatedBlock) /\ pid \in Int
    BY <1>1, TypesAre DEF TypeOK
  <2>2. QED BY <2>1, UsedOfIs
<1>3. allocated_block_head[k] \notin ToSet(allocated_block_head')
  <2>1. UsedOf(allocated_block_head')
          = UsedOf(allocated_block_head) \ {Own(allocated_block_head[k])}
    BY <1>1, <1>2, UsedRemove DEF Disposed
  <2>2. QED BY <2>1 DEF UsedOf
<1>4. allocated_block_head[k] \in ToSet(allocated_block_head)
  BY DEF ToSet
<1>5. allocated_block_head' # allocated_block_head
  BY <1>3, <1>4
<1>6. ASSUME NEW x, allocated_block_head' = <<x>> \o allocated_block_head PROVE FALSE
  <2>1. PICK a : a = allocated_block_head
    OBVIOUS
  <2>2. PICK T : T = AllocatedBlock \cup {x}
    OBVIOUS
  <2>3. a \in Seq(T) /\ <<x>> \in Seq(T) /\ Len(<<x>>) = 1
    <3>1. a \in Seq(T)
      BY <1>2, <2>1, <2>2, SeqMonotonic
    <3>2. x \in T
      BY <2>2
    <3>3. QED BY <3>1, <3>2
  <2>4. /\ <<x>> \o a \in Seq(T) /\ Len(<<x>> \o a) = 1 + Len(a)
        /\ \A i \in 1 .. 1 + Len(a) : (<<x>> \o a)[i] = IF i <= 1 THEN <<x>>[i] ELSE a[i - 1]
    BY <2>3, ConcatProperties
  <2>5. DOMAIN (<<x>> \o a) = 1 .. 1 + Len(a) /\ Len(a) \in Nat /\ k \in 1 .. Len(a)
    BY <1>2, <2>1, <2>3, <2>4, LenProperties
  <2>6. k + 1 \in 1 .. 1 + Len(a) /\ ~(k + 1 <= 1) /\ (k + 1) - 1 = k
    BY <2>5
  <2>7. (<<x>> \o a)[k + 1] = a[k] /\ k + 1 \in DOMAIN (<<x>> \o a)
    BY <2>4, <2>5, <2>6
  <2>8. a[k] \in ToSet(<<x>> \o a)
    BY <2>7 DEF ToSet
  <2>9. QED BY <1>3, <1>6, <2>1, <2>8
<1>7. ~new_process
  BY <1>5, <1>6 DEF new_process, Served
<1>8. ~Ending
  BY EndingSound
<1>9. ~set_mem_size /\ ~set_algorithm /\ ~display_mem_usage
  <2>1. ~set_mem_size
    <3> SUFFICES ASSUME set_mem_size PROVE FALSE
      OBVIOUS
    <3>1. PICK size \in Input :
              IF size > 0 /\ free_block = <<>> THEN Crash
              ELSE UNCHANGED <<allocated_block_head, ma_algorithm, pid, status, history>>
      BY DEF set_mem_size
    <3>2. allocated_block_head' = allocated_block_head
      BY <3>1 DEF Crash, lists
    <3>3. QED BY <1>5, <3>2
  <2>2. QED BY <1>5, <2>1 DEF set_algorithm, display_mem_usage, lists
<1>10. QED BY <1>7, <1>8, <1>9 DEF Next, Ending

\* What a kill that loses nothing does to the addresses.
LEMMA KillFrees ==
  ASSUME Sound, Kept, Next, NEW k \in DOMAIN allocated_block_head PROVE ComesBack(k)
<1> PICK r : r = Region(allocated_block_head[k])
  OBVIOUS
<1> PICK all : all = Append(free_block, r)
  OBVIOUS
<1> SUFFICES ASSUME allocated_block_head' = Disposed(k), status' = "menu", lost' = lost,
                    \A b \in ToSet(all) : b.size >= 0
             PROVE  Addresses(free_block') = Addresses(all)
  BY DEF ComesBack
<1>1. TypeOK /\ Numbered(allocated_block_head, pid)
  BY DEF Sound, Kept
<1>2. /\ allocated_block_head \in Seq(AllocatedBlock) /\ free_block \in Seq(FreeBlock)
      /\ pid \in Int /\ lost \in Int
      /\ r \in FreeBlock /\ all \in Seq(FreeBlock)
  <2>1. /\ allocated_block_head \in Seq(AllocatedBlock) /\ free_block \in Seq(FreeBlock)
        /\ pid \in Int /\ lost \in Int
    BY <1>1, TypesAre DEF TypeOK
  <2>2. r \in FreeBlock
    BY <1>1, DisposedIs
  <2>3. QED BY <2>1, <2>2, AppendProperties
\* The pids differ, so that only the k-th block can have left.
<1>3. ASSUME NEW i \in DOMAIN allocated_block_head, allocated_block_head' = Disposed(i)
      PROVE  Region(allocated_block_head[i]) = r
  <2>1. k \in 1 .. Len(allocated_block_head) /\ i \in 1 .. Len(allocated_block_head)
    BY <1>2, UsedOfIs
  <2>2. /\ UsedOf(Disposed(k)) = UsedOf(allocated_block_head) \ {Own(allocated_block_head[k])}
        /\ UsedOf(Disposed(i)) = UsedOf(allocated_block_head) \ {Own(allocated_block_head[i])}
    BY <1>1, <1>2, <2>1, UsedRemove DEF Disposed
  <2>3. Own(allocated_block_head[k]) \in UsedOf(allocated_block_head)
    BY DEF UsedOf, ToSet
  <2>4. Own(allocated_block_head[k]) = Own(allocated_block_head[i])
    BY <1>3, <2>2, <2>3
  <2>5. QED BY <2>4 DEF Own, Region
<1>4. CASE kill_process
  <2>1. PICK i \in DOMAIN allocated_block_head :
          /\ free_block' =
                merge(rearrange(MA_FF, Append(free_block, Region(allocated_block_head[i]))))
          /\ allocated_block_head' = Disposed(i)
    BY <1>4 DEF kill_process
  <2>2. free_block' = merge(rearrange(MA_FF, all))
    BY <1>3, <2>1
  <2>3. QED BY <1>2, <2>2, MergeAddresses
<1>5. CASE kill_processLosesBlock
  <2>1. PICK i \in DOMAIN allocated_block_head :
          /\ allocated_block_head' = Disposed(i)
          /\ lost' = lost + allocated_block_head[i].size
    BY <1>5 DEF kill_processLosesBlock
  <2>2. /\ Region(allocated_block_head[i]).size = allocated_block_head[i].size
        /\ allocated_block_head[i].size \in Int
    BY <1>1, DisposedIs
  <2>3. r.size = 0 /\ free_block' = free_block
    <3>1. allocated_block_head[i].size = 0
      BY <1>2, <2>1, <2>2
    <3>2. QED BY <1>3, <1>5, <2>1, <2>2, <3>1 DEF kill_processLosesBlock
  <2>4. /\ all \in Seq(FreeBlock) /\ Len(all) = Len(free_block) + 1 /\ all[Len(free_block) + 1] = r
        /\ \A j \in 1 .. Len(free_block) : all[j] = free_block[j]
    BY <1>2, AppendProperties
  <2>5. /\ DOMAIN all = 1 .. Len(free_block) + 1 /\ DOMAIN free_block = 1 .. Len(free_block)
        /\ Len(free_block) \in Nat
    BY <1>2, <2>4, LenProperties
  <2>6. ToSet(all) = ToSet(free_block) \cup {r}
    <3>1. \A j \in 1 .. Len(free_block) + 1 : j \in 1 .. Len(free_block) \/ j = Len(free_block) + 1
      BY <2>5
    <3>2. /\ \A j \in 1 .. Len(free_block) : j \in 1 .. Len(free_block) + 1
          /\ Len(free_block) + 1 \in 1 .. Len(free_block) + 1
      BY <2>5
    <3>3. QED BY <2>4, <2>5, <3>1, <3>2 DEF ToSet
  <2>7. r.start_addr .. r.start_addr + r.size - 1 = {}
    BY <1>2, <2>3 DEF FreeBlock
  <2>8. QED BY <2>3, <2>6, <2>7 DEF Addresses
<1>6. QED BY <1>4, <1>5, OnlyAKill

\* Killing a process frees its addresses and no others, also after the manager
\* has joined blocks that do not touch, for any lists, unless malloc fails.
THEOREM KilledComesBackHolds == Spec => KilledComesBack
<1>1. Sound /\ Kept /\ [Next]_vars => [\A k \in DOMAIN allocated_block_head : ComesBack(k)]_vars
  BY KillFrees
<1>2. QED BY <1>1, SoundHolds, KeptHolds, PTL DEF Spec, KilledComesBack

\* A division of the memory into free blocks that do not touch, and nothing
\* else, is the memory in one block.
LEMMA WholeAgain ==
  ASSUME NEW F, NEW n, Divides(F, {}, n) PROVE F = {Whole(n)}
<1>1. /\ F \subseteq P!Block /\ n \in Nat \ {0}
      /\ \A b \in F : P!Cells(b) \subseteq 0 .. n - 1
      /\ \A a \in 0 .. n - 1 : \E b \in F : a \in P!Cells(b)
      /\ \A b, c \in F : b # c => P!Cells(b) \cap P!Cells(c) = {}
      /\ \A b, c \in F : ~P!Touch(b, c)
  BY DEF Divides
<1>2. 0 \in 0 .. n - 1
  BY <1>1
<1>3. PICK b \in F : 0 \in P!Cells(b)
  BY <1>1, <1>2
<1>4. b.start \in Nat /\ b.size \in Nat \ {0} /\ b = [start |-> b.start, size |-> b.size]
  BY <1>1 DEF P!Block
<1>5. b.start = 0 /\ P!Cells(b) = 0 .. b.size - 1
  BY <1>3, <1>4 DEF P!Cells
<1>6. b.size <= n
  <2>1. b.size - 1 \in P!Cells(b)
    BY <1>4, <1>5
  <2>2. b.size - 1 \in 0 .. n - 1
    BY <1>1, <2>1
  <2>3. QED BY <1>1, <1>4, <2>2
<1>7. ASSUME b.size < n PROVE FALSE
  <2>1. b.size \in 0 .. n - 1
    BY <1>1, <1>4, <1>7
  <2>2. PICK c \in F : b.size \in P!Cells(c)
    BY <1>1, <2>1
  <2>3. c.start \in Nat /\ c.size \in Nat \ {0}
    BY <1>1 DEF P!Block
  <2>4. c # b
    BY <1>4, <1>5, <2>2
  <2>5. P!Cells(c) = c.start .. c.start + c.size - 1
    BY DEF P!Cells
  <2>6. c.start <= b.size
    BY <1>4, <2>2, <2>3, <2>5
  <2>7. c.start = b.size
    <3> SUFFICES ASSUME c.start < b.size PROVE FALSE
      BY <1>4, <2>3, <2>6
    <3>1. c.start \in P!Cells(b) /\ c.start \in P!Cells(c)
      BY <1>4, <1>5, <2>3, <2>5
    <3>2. QED BY <1>1, <2>4, <3>1
  <2>8. P!Touch(b, c)
    BY <1>4, <1>5, <2>7 DEF P!Touch
  <2>9. QED BY <1>1, <2>8
<1>8. b.size = n
  BY <1>1, <1>4, <1>6, <1>7
<1>9. b = Whole(n)
  BY <1>4, <1>5, <1>8 DEF Whole
<1>10. ASSUME NEW c \in F PROVE c = b
  <2>1. c.start \in Nat /\ c.size \in Nat \ {0}
    BY <1>1 DEF P!Block
  <2>2. c.start \in P!Cells(c)
    BY <2>1 DEF P!Cells
  <2>3. c.start \in 0 .. n - 1
    BY <1>1, <2>2
  <2>4. c.start \in P!Cells(b)
    BY <1>5, <1>8, <2>3
  <2>5. QED BY <1>1, <2>2, <2>4
<1>11. QED BY <1>9, <1>10

\* When the last process has been killed the memory is one free block again,
\* in whatever order any number of blocks were handed out and taken back.
THEOREM WhollyFreeAgainHolds == Spec => []WhollyFreeAgain
<1>1. TypeOK /\ Kept => WhollyFreeAgain
  <2> SUFFICES ASSUME TypeOK, Kept, intact, status = "menu", allocated_block_head = <<>>
               PROVE  free_block = <<[start_addr |-> 0, size |-> mem_size]>>
    BY DEF WhollyFreeAgain
  <2>1. Divides(FreeOf(free_block), {}, mem_size) /\ Tidy(free_block)
    BY NoneUsed DEF Kept, Divided
  <2>2. FreeOf(free_block) = {Whole(mem_size)}
    BY <2>1, WholeAgain
  <2>3. free_block \in Seq(FreeBlock)
    BY TypesAre
  <2>4. /\ FreeOf(free_block) = {Cut(free_block[k]) : k \in 1 .. Len(free_block)}
        /\ DOMAIN free_block = 1 .. Len(free_block) /\ Len(free_block) \in Nat
        /\ \A k \in 1 .. Len(free_block) : free_block[k] \in FreeBlock
    BY <2>3, FreeOfIs
  <2>5. \A i, j \in 1 .. Len(free_block) : i = j
    <3>1. \A k \in 1 .. Len(free_block) : Cut(free_block[k]) = Whole(mem_size)
      BY <2>2, <2>4
    <3>2. QED BY <2>1, <2>3, <3>1, TidyApart
  <2>6. Len(free_block) = 1
    <3>1. Len(free_block) # 0
      BY <2>2, <2>4
    <3>2. ASSUME Len(free_block) > 1 PROVE FALSE
      <4>1. 1 \in 1 .. Len(free_block) /\ 2 \in 1 .. Len(free_block)
        BY <2>4, <3>2
      <4>2. 1 = 2
        BY <2>5, <4>1
      <4>3. QED BY <4>2
    <3>3. QED BY <2>4, <3>1, <3>2
  <2>7. 1 \in 1 .. Len(free_block) /\ Cut(free_block[1]) = Whole(mem_size)
    BY <2>2, <2>4, <2>6
  <2>8. free_block[1] = [start_addr |-> 0, size |-> mem_size]
    <3>1. free_block[1].start_addr = 0 /\ free_block[1].size = mem_size
      <4>1. /\ Cut(free_block[1]).start = free_block[1].start_addr
            /\ Cut(free_block[1]).size = free_block[1].size
        BY DEF Cut
      <4>2. Whole(mem_size).start = 0 /\ Whole(mem_size).size = mem_size
        BY DEF Whole
      <4>3. QED BY <2>7, <4>1, <4>2
    <3>2. free_block[1] \in FreeBlock
      BY <2>4, <2>7
    <3>3. QED BY <3>1, <3>2 DEF FreeBlock
  <2>9. free_block = <<free_block[1]>>
    BY <2>3, <2>4, <2>6
  <2>10. QED BY <2>8, <2>9
<1>2. QED BY <1>1, TypeCorrect, KeptHolds, PTL

\* Every behaviour of the memory manager is one of the partition, in which
\* blocks are divided between processes and joined again, until the manager
\* joins blocks that do not touch, loses one, or reads a size it never stored.
THEOREM RefinesPartitionHolds == Spec => RefinesPartition
<1>0. /\ P!Block = Abstract!Block /\ P!UsedBlock = Abstract!UsedBlock
      /\ \A b : P!Cells(b) = Abstract!Cells(b)
      /\ \A b, c : P!Touch(b, c) <=> Abstract!Touch(b, c)
  BY DEF P!Block, Abstract!Block, P!UsedBlock, Abstract!UsedBlock, P!Cells, Abstract!Cells,
         P!Touch, Abstract!Touch
<1>1. Init => Abstract!Init
  <2> SUFFICES ASSUME Init PROVE Abstract!Init
    OBVIOUS
  <2>1. CASE ~intact
    BY <2>1 DEF Abstract!Init
  <2>2. CASE intact
    <3>1. /\ free_block = <<[start_addr |-> 0, size |-> DEFAULT_MEM_SIZE]>>
          /\ mem_size = DEFAULT_MEM_SIZE /\ mem_size \in Nat \ {0} /\ status = "menu"
      BY <2>2, ConstantsAssumption DEF Init
    <3>2. PICK b : b = [start_addr |-> 0, size |-> DEFAULT_MEM_SIZE]
      OBVIOUS
    <3>3. b \in FreeBlock /\ Cut(b) = [start |-> 0, size |-> mem_size] /\ free_block = <<b>>
      BY <3>1, <3>2 DEF FreeBlock, Cut
    <3>4. FreeOf(free_block) = {[start |-> 0, size |-> mem_size]}
      BY <3>3, OneFree
    <3>5. UsedOf(allocated_block_head) = {}
      BY NoneUsed DEF Init
    <3>6. (~intact \/ status # "menu") = FALSE
      BY <2>2, <3>1
    <3>7. QED BY <3>1, <3>4, <3>5, <3>6 DEF Abstract!Init, FreeOf, UsedOf, Cut, Own
  <2>3. QED BY <2>1, <2>2
<1>2. Sound /\ Kept /\ [Next]_vars => [Abstract!Next]_(Abstract!vars)
  <2> SUFFICES ASSUME Sound, Kept, [Next]_vars PROVE [Abstract!Next]_(Abstract!vars)
    OBVIOUS
  <2>1. Goes
    BY NextGoes
  <2>2. CASE ~intact' \/ status' # "menu"
    <3>1. (~intact' \/ status' # "menu") = TRUE
      BY <2>2
    <3>2. QED BY <3>1 DEF Abstract!Next, Abstract!Break
  <2>3. CASE intact' /\ status' = "menu"
    <3>1. /\ intact /\ status = "menu"
          /\ Moved(FreeOf(free_block), UsedOf(allocated_block_head), mem_size,
                   FreeOf(free_block'), UsedOf(allocated_block_head'), mem_size')
      BY <2>1, <2>3 DEF Goes
    <3>2. (~intact \/ status # "menu") = FALSE /\ (~intact' \/ status' # "menu") = FALSE
      BY <2>3, <3>1
    <3>3. PICK F, U, F2, U2 :
             /\ F = FreeOf(free_block) /\ U = UsedOf(allocated_block_head)
             /\ F2 = FreeOf(free_block') /\ U2 = UsedOf(allocated_block_head')
      OBVIOUS
    <3>4. CASE F2 = F /\ U2 = U /\ mem_size' = mem_size
      BY <3>2, <3>3, <3>4 DEF Abstract!vars, FreeOf, UsedOf, Cut, Own
    <3>5. CASE /\ U = {} /\ F = {Whole(mem_size)}
               /\ mem_size' \in Nat \ {0} /\ F2 = {Whole(mem_size')} /\ U2 = U
      <4>1. Abstract!Resize
        BY <3>2, <3>3, <3>5 DEF Abstract!Resize, FreeOf, UsedOf, Cut, Own, Whole
      <4>2. QED BY <3>2, <4>1 DEF Abstract!Next
    <3>6. CASE \E b, u : /\ Taken(F, U, b, u, F2, U2) /\ mem_size' = mem_size
                         /\ \A v \in U : v.pid # u.pid
      <4>1. PICK b, u : /\ Taken(F, U, b, u, F2, U2) /\ mem_size' = mem_size
                        /\ \A v \in U : v.pid # u.pid
        BY <3>6
      <4>2. /\ b \in F /\ u \in Abstract!UsedBlock /\ u \in U2
            /\ u.start = b.start /\ u.size <= b.size
            /\ U2 = U \cup {u}
            /\ F2 = (F \ {b}) \cup
                    (IF u.size = b.size THEN {}
                     ELSE {[start |-> b.start + u.size, size |-> b.size - u.size]})
        BY <1>0, <4>1 DEF Taken
      <4>3. Abstract!Take
        BY <3>2, <3>3, <4>1, <4>2 DEF Abstract!Take, FreeOf, UsedOf, Cut, Own
      <4>4. QED BY <3>2, <4>3 DEF Abstract!Next
    <3>7. CASE \E u : Released(F, U, u, F2, U2) /\ mem_size' = mem_size
      <4>1. PICK u : Released(F, U, u, F2, U2) /\ mem_size' = mem_size
        BY <3>7
      <4>2. /\ u \in U /\ U2 = U \ {u} /\ F2 \subseteq Abstract!Block
            /\ \A b \in F2 : \A a \in Abstract!Cells(b) :
                  a \in Abstract!Cells(u) \/ \E c \in F : a \in Abstract!Cells(c)
            /\ \A c \in F : \A a \in Abstract!Cells(c) : \E b \in F2 : a \in Abstract!Cells(b)
            /\ \A a \in Abstract!Cells(u) : \E b \in F2 : a \in Abstract!Cells(b)
            /\ \A b, c \in F2 :
                  b # c => Abstract!Cells(b) \cap Abstract!Cells(c) = {} /\ ~Abstract!Touch(b, c)
        BY <1>0, <4>1 DEF Released
      <4>3. Abstract!Release
        BY <3>2, <3>3, <4>1, <4>2 DEF Abstract!Release, FreeOf, UsedOf, Cut, Own
      <4>4. QED BY <3>2, <4>3 DEF Abstract!Next
    <3>8. QED BY <3>1, <3>3, <3>4, <3>5, <3>6, <3>7 DEF Moved
  <2>4. QED BY <2>2, <2>3
<1>3. QED BY <1>1, <1>2, SoundHolds, KeptHolds, PTL DEF Spec, RefinesPartition, Abstract!Spec

\* So the lists themselves keep the promise: the free and the allocated blocks
\* of the manager do not overlap, cover the memory, and free blocks that touch
\* have been joined, as long as it is intact.
THEOREM StaysDivided == Spec => []Abstract!Promise
<1>0. /\ P!Block = Abstract!Block /\ P!UsedBlock = Abstract!UsedBlock
      /\ \A b : P!Cells(b) = Abstract!Cells(b)
      /\ \A b, c : P!Touch(b, c) <=> Abstract!Touch(b, c)
  BY DEF P!Block, Abstract!Block, P!UsedBlock, Abstract!UsedBlock, P!Cells, Abstract!Cells,
         P!Touch, Abstract!Touch
<1>1. Kept => Abstract!Promise
  <2> SUFFICES ASSUME Kept, intact, status = "menu"
               PROVE  Abstract!TypeOK /\ Abstract!Tiled /\ Abstract!Coalesced
    BY DEF Abstract!Promise
  <2>1. PICK F, U : F = FreeOf(free_block) /\ U = UsedOf(allocated_block_head)
    OBVIOUS
  <2>2. Divides(F, U, mem_size)
    BY <2>1 DEF Kept, Divided
  <2>3. /\ F \subseteq Abstract!Block /\ U \subseteq Abstract!UsedBlock
        /\ mem_size \in Nat \ {0}
        /\ \A b \in F \cup U : Abstract!Cells(b) \subseteq 0 .. mem_size - 1
        /\ \A a \in 0 .. mem_size - 1 : \E b \in F \cup U : a \in Abstract!Cells(b)
        /\ \A b, c \in F : b # c => Abstract!Cells(b) \cap Abstract!Cells(c) = {}
        /\ \A b, c \in U : b # c => Abstract!Cells(b) \cap Abstract!Cells(c) = {}
        /\ \A b \in F, c \in U : Abstract!Cells(b) \cap Abstract!Cells(c) = {}
        /\ \A b, c \in F : ~Abstract!Touch(b, c)
    BY <1>0, <2>2 DEF Divides
  <2>4. Abstract!TypeOK
    BY <2>1, <2>3 DEF Abstract!TypeOK, FreeOf, UsedOf, Cut, Own
  <2>5. Abstract!Tiled
    BY <2>1, <2>3 DEF Abstract!Tiled, FreeOf, UsedOf, Cut, Own
  <2>6. Abstract!Coalesced
    BY <2>1, <2>3 DEF Abstract!Coalesced, FreeOf, UsedOf, Cut, Own
  <2>7. QED BY <2>4, <2>5, <2>6
<1>2. QED BY <1>1, KeptHolds, PTL

====
