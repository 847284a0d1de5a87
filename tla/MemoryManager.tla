---- MODULE MemoryManager ----
(***************************************************************************)
(* lessons_os/memory_one.c: a memory manager with a list of free blocks    *)
(* and a list of allocated ones, driven by a menu.                         *)
(*                                                                         *)
(* A list is a sequence of blocks, the NULL pointer the empty sequence.    *)
(* Dereferencing NULL ends the program: status "crashed".  `intact` and    *)
(* `lost` are history: no code reads them.                                 *)
(***************************************************************************)
EXTENDS Integers, Sequences, FiniteSets, SequencesExt

CONSTANTS
    DEFAULT_MEM_SIZE,
    MIN_SLICE,      \* a remainder up to this size is given away
    Input,          \* numbers the user can type for a size
    Garbage,        \* what an unset ab->size can hold
    MaxPid          \* bound: processes created in one run of the model

ASSUME ConstantsAssumption ==
    /\ DEFAULT_MEM_SIZE \in Nat \ {0}
    /\ MIN_SLICE \in Nat
    /\ Input \subseteq Int
    /\ Garbage \subseteq Int
    /\ MaxPid \in Nat

MA_FF == 1
MA_BF == 2
MA_WF == 3

VARIABLES
    free_block,             \* sequence of [start_addr, size]
    allocated_block_head,   \* sequence of [pid, start_addr, size], newest first
    mem_size,
    ma_algorithm,
    pid,
    flag,
    status,                 \* "menu", "crashed" or "exited"
    intact,                 \* no blocks were joined that do not touch, none lost,
                            \* no size was left unset
    lost                    \* size of the blocks that were lost

lists == <<free_block, allocated_block_head>>
settings == <<mem_size, ma_algorithm>>
history == <<intact, lost>>
vars == <<lists, settings, pid, flag, status, history>>

----------------------------------------------------------------------------
(* Lists of blocks                                                         *)

TotalSize(s) == FoldLeft(LAMBDA sum, b : sum + b.size, 0, s)

\* Mutant of Wrong: the comparison of worst fit is that of best fit.
WrongConfused(algorithm, b, c) ==
    IF algorithm = MA_FF THEN b.start_addr > c.start_addr ELSE b.size > c.size

\* Two nodes in this order are in the wrong order.
Wrong(algorithm, b, c) ==
    CASE algorithm = MA_FF -> b.start_addr > c.start_addr
      [] algorithm = MA_BF -> b.size > c.size
      [] algorithm = MA_WF -> b.size < c.size

\* The three exchange sorts: for every i < j, in order, the contents of the
\* two nodes are swapped when they are in the wrong order.
CompareSwap(algorithm, t, i, j) ==
    IF i < j /\ Wrong(algorithm, t[i], t[j]) THEN [t EXCEPT ![i] = t[j], ![j] = t[i]] ELSE t

Pass(algorithm, t, i) ==
    FoldLeftDomain(LAMBDA u, j : CompareSwap(algorithm, u, i, j), t, t)

rearrange(algorithm, s) == FoldLeftDomain(LAMBDA t, i : Pass(algorithm, t, i), s, s)

Touch(b, c) == b.start_addr + b.size = c.start_addr

\* Mutant of Join: blocks that overlap are joined too.
JoinOverlapping(done, b) ==
    IF done # <<>> /\ Last(done).start_addr + Last(done).size >= b.start_addr
    THEN [done EXCEPT ![Len(done)].size = @ + b.size]
    ELSE Append(done, b)

\* One pass over the list joins each block to the one before it if they touch;
\* then the list is sorted worst fit.
Join(done, b) ==
    IF done # <<>> /\ Touch(Last(done), b)
    THEN [done EXCEPT ![Len(done)].size = @ + b.size]
    ELSE Append(done, b)

merge(s) == rearrange(MA_WF, FoldLeft(Join, <<>>, s))

----------------------------------------------------------------------------
(* allocate_mem                                                            *)

\* The list with its first k nodes joined into the head, whether they touch or
\* not.
Joined(w, k) ==
    <<[start_addr |-> w[1].start_addr, size |-> TotalSize(SubSeq(w, 1, k))]>>
        \o SubSeq(w, k + 1, Len(w))

\* The loop of lines 260-284 joins nodes until the head is as large as the
\* request, or the list ends.
JoinedUp(w, request) ==
    Joined(w, CHOOSE k \in 1 .. Len(w) :
        /\ k = Len(w) \/ Joined(w, k)[1].size >= request
        /\ \A j \in 1 .. k - 1 : Joined(w, j)[1].size < request)

\* Mutant of TakeHead: the rest of a split block keeps its start.
TakeHeadOverlapping(w, request) ==
    LET fit == w[1].size > request
        whole == w[1].size - request <= MIN_SLICE
    IN  [ret |-> IF fit THEN 1 ELSE 0,
         nodes |-> Len(w),
         start_addr |-> w[1].start_addr,
         size |-> IF whole THEN w[1].size ELSE request,
         free |-> IF ~fit THEN rearrange(MA_WF, w)
                  ELSE IF whole THEN Tail(w)
                  ELSE [w EXCEPT ![1].size = @ - request]]

\* Mutant of TakeHead: the slice is given away without being counted.
TakeHeadLosesSlice(w, request) ==
    LET fit == w[1].size > request
        whole == w[1].size - request <= MIN_SLICE
    IN  [ret |-> IF fit THEN 1 ELSE 0,
         nodes |-> Len(w),
         start_addr |-> w[1].start_addr,
         size |-> request,
         free |-> IF ~fit THEN rearrange(MA_WF, w)
                  ELSE IF whole THEN Tail(w)
                  ELSE [w EXCEPT ![1] = [start_addr |-> @.start_addr + request,
                                         size |-> @.size - request]]]

\* The head serves the request, whole or split.  An exact fit is no fit (strict
\* < in lines 242, 251, 267 and 276).
TakeHead(w, request) ==
    LET fit == w[1].size > request
        whole == w[1].size - request <= MIN_SLICE
    IN  [ret |-> IF fit THEN 1 ELSE 0,
         nodes |-> Len(w),
         start_addr |-> w[1].start_addr,
         size |-> IF whole THEN w[1].size ELSE request,
         free |-> IF ~fit THEN rearrange(MA_WF, w)
                  ELSE IF whole THEN Tail(w)
                  ELSE [w EXCEPT ![1] = [start_addr |-> @.start_addr + request,
                                         size |-> @.size - request]]]

\* The result of the call for a non-empty list: the return value, the list it
\* leaves, the nodes there were after the joins and, when it is 1, the block.
allocate_mem(s, request) ==
    TakeHead(JoinedUp(rearrange(MA_WF, s), request), request)

----------------------------------------------------------------------------
(* The menu                                                                *)

\* init_free_block makes one block, or prints "No mem" and returns NULL.
Init ==
    /\ free_block \in {<<[start_addr |-> 0, size |-> DEFAULT_MEM_SIZE]>>, <<>>}
    /\ allocated_block_head = <<>>
    /\ mem_size = DEFAULT_MEM_SIZE
    /\ ma_algorithm = MA_FF
    /\ pid = 0
    /\ flag = 0
    /\ status = "menu"
    /\ intact = (free_block # <<>>)
    /\ lost = IF free_block = <<>> THEN DEFAULT_MEM_SIZE ELSE 0

\* A NULL pointer is dereferenced.  What the call assigned before is not
\* modelled: the variables end with the process.
Crash == status' = "crashed" /\ UNCHANGED <<lists, settings, pid, flag, history>>

\* Once the flag is set the call only prints a message: a stuttering step.
set_mem_size ==
    /\ status = "menu"
    /\ flag = 0
    /\ \E size \in Input :
          IF size > 0 /\ free_block = <<>>
          THEN Crash
          ELSE /\ mem_size' = IF size > 0 THEN size ELSE mem_size
               /\ free_block' = IF size > 0 THEN [free_block EXCEPT ![1].size = size]
                                            ELSE free_block
               /\ flag' = 1
               /\ UNCHANGED <<allocated_block_head, ma_algorithm, pid, status, history>>

\* Any other number leaves the algorithm as it was; the list is sorted anyway.
set_algorithm ==
    /\ status = "menu"
    /\ free_block # <<>>
    /\ \E algorithm \in 0 .. MA_WF :
          /\ ma_algorithm' = IF algorithm >= 1 THEN algorithm ELSE ma_algorithm
          /\ free_block' = rearrange(ma_algorithm', free_block)
    /\ flag' = 1
    /\ UNCHANGED <<allocated_block_head, mem_size, pid, status, history>>

\* rearrange_FF, BF and WF read free_block->next.
set_algorithmCrash == status = "menu" /\ free_block = <<>> /\ Crash

\* What request_size is when the user types `size`: an unset field keeps what
\* malloc left there.
Requests(size) == IF size > 0 THEN {size} ELSE Garbage

\* A request is served and the block put at the head of the list (return
\* values 1 and 2), or it is not (return value 3: ab is leaked, and pid stays
\* consumed).  -1 is never returned.
Served ==
    /\ status = "menu"
    /\ free_block # <<>>
    /\ pid < MaxPid
    /\ pid' = pid + 1
    /\ \E size \in Input : \E request \in Requests(size) :
          LET a == allocate_mem(free_block, request)
          IN  /\ free_block' = a.free
              /\ intact' = (intact /\ a.nodes = Len(free_block) /\ size > 0)
              /\ allocated_block_head' =
                    IF a.ret = 1
                    THEN <<[pid |-> pid + 1, start_addr |-> a.start_addr, size |-> a.size]>>
                            \o allocated_block_head
                    ELSE allocated_block_head
    /\ UNCHANGED <<settings, status, lost>>

\* Mutant of new_process: the menu does not set the flag.
new_processFlagless == Served /\ UNCHANGED flag

new_process == Served /\ flag' = 1

\* allocate_mem reads free_block->next.
new_processCrash == status = "menu" /\ pid < MaxPid /\ free_block = <<>> /\ Crash

\* malloc fails: exit(-5).
new_processNoMemory ==
    /\ status = "menu"
    /\ pid < MaxPid
    /\ status' = "exited"
    /\ UNCHANGED <<lists, settings, pid, flag, history>>

\* dispose of the k-th block of the list.
Disposed(k) == RemoveAt(allocated_block_head, k)

Region(b) == [start_addr |-> b.start_addr, size |-> b.size]

\* Mutant of kill_process: merge is called on the unsorted list.
kill_processUnsorted ==
    /\ status = "menu"
    /\ free_block # <<>>
    /\ \E k \in DOMAIN allocated_block_head :
          /\ free_block' = merge(Append(free_block, Region(allocated_block_head[k])))
          /\ allocated_block_head' = Disposed(k)
    /\ flag' = 1
    /\ UNCHANGED <<settings, pid, status, history>>

\* free_mem: the block is appended, the list sorted by address and merged.
kill_process ==
    /\ status = "menu"
    /\ free_block # <<>>
    /\ \E k \in DOMAIN allocated_block_head :
          /\ free_block' =
                merge(rearrange(MA_FF, Append(free_block, Region(allocated_block_head[k]))))
          /\ allocated_block_head' = Disposed(k)
    /\ flag' = 1
    /\ UNCHANGED <<settings, pid, status, history>>

\* malloc fails in free_mem: its -1 is ignored, the block is disposed of.
kill_processLosesBlock ==
    /\ status = "menu"
    /\ \E k \in DOMAIN allocated_block_head :
          /\ allocated_block_head' = Disposed(k)
          /\ lost' = lost + allocated_block_head[k].size
    /\ flag' = 1
    /\ intact' = FALSE
    /\ UNCHANGED <<free_block, settings, pid, status>>

\* free_mem reads pre->next of the empty free list.
kill_processCrash ==
    /\ status = "menu"
    /\ free_block = <<>> /\ allocated_block_head # <<>>
    /\ Crash

\* find_process runs off the list for a pid that is not in it (line 299), and
\* cannot start on an empty one (line 294): "no this" is never printed.
kill_unknownCrash == status = "menu" /\ Crash

\* display_mem_usage only sets the flag.
display_mem_usage ==
    /\ status = "menu"
    /\ flag' = 1
    /\ UNCHANGED <<lists, settings, pid, status, history>>

\* The start address of the whole memory is set to DEFAULT_MEM_SIZE (line 420).
do_exit ==
    /\ status = "menu"
    /\ free_block # <<>>
    /\ free_block' =
          [free_block EXCEPT ![1] = [start_addr |-> DEFAULT_MEM_SIZE, size |-> mem_size]]
    /\ allocated_block_head' = <<>>
    /\ status' = "exited"
    /\ UNCHANGED <<settings, pid, flag, history>>

do_exitCrash == status = "menu" /\ free_block = <<>> /\ Crash

Next ==
    \/ set_mem_size \/ set_algorithm \/ set_algorithmCrash
    \/ new_process \/ new_processCrash \/ new_processNoMemory
    \/ kill_process \/ kill_processLosesBlock \/ kill_processCrash \/ kill_unknownCrash
    \/ display_mem_usage \/ do_exit \/ do_exitCrash

Spec == Init /\ [][Next]_vars

----------------------------------------------------------------------------
(* Properties                                                              *)

FreeBlock == [start_addr : Int, size : Int]

TypeOK ==
    /\ free_block \in Seq(FreeBlock)
    /\ allocated_block_head \in Seq([pid : 1 .. MaxPid, start_addr : Int, size : Int])
    /\ mem_size \in Nat \ {0}
    /\ ma_algorithm \in {MA_FF, MA_BF, MA_WF}
    /\ pid \in 0 .. MaxPid
    /\ flag \in {0, 1}
    /\ status \in {"menu", "crashed", "exited"}
    /\ intact \in BOOLEAN
    /\ lost \in Int

\* The sizes of all blocks add up to the memory whatever is joined, split or
\* given an unset size, except for the blocks free_mem could not take back.
MemoryConserved ==
    status = "menu" =>
        TotalSize(free_block) + TotalSize(allocated_block_head) + lost = mem_size

\* When the last process has been killed the memory is one free block again,
\* in whatever order the blocks were handed out and taken back.
WhollyFreeAgain ==
    intact /\ status = "menu" /\ allocated_block_head = <<>> =>
        free_block = <<[start_addr |-> 0, size |-> mem_size]>>

\* The addresses of a list of blocks.
Addresses(s) == UNION {b.start_addr .. b.start_addr + b.size - 1 : b \in ToSet(s)}

\* After a kill of the k-th process its addresses are free, and none but those
\* that were free before.
ComesBack(k) ==
    LET all == Append(free_block, Region(allocated_block_head[k]))
    IN  /\ allocated_block_head' = Disposed(k) /\ status' = "menu" /\ lost' = lost
        /\ \A b \in ToSet(all) : b.size >= 0
        => Addresses(free_block') = Addresses(all)

\* A kill frees the addresses of the process and no other, in whatever lists,
\* also where joined blocks overlap used ones; sizes that were never set may be
\* negative, and are left out.  Line 324 says of every call of free_mem that the
\* block is given back and merged.  That is not so when malloc fails in line 333
\* (the block is lost), nor when the list is empty (line 337 reads NULL->next).
KilledComesBack == [][\A k \in DOMAIN allocated_block_head : ComesBack(k)]_vars

SortedBy(InOrder(_, _), s) == \A i, j \in DOMAIN s : i < j => InOrder(s[i], s[j])

SameBlocks(s, t) ==
    /\ Len(s) = Len(t)
    /\ \A b \in ToSet(s) \cup ToSet(t) :
          Cardinality({k \in DOMAIN s : s[k] = b}) = Cardinality({k \in DOMAIN t : t[k] = b})

\* Swapping the contents of nodes pair by pair sorts every list that occurs,
\* also one with equal sizes, and loses no block (lines 147-196).
RearrangeSorts ==
    /\ \A algorithm \in {MA_FF, MA_BF, MA_WF} :
          SameBlocks(rearrange(algorithm, free_block), free_block)
    /\ SortedBy(LAMBDA b, c : b.start_addr <= c.start_addr, rearrange(MA_FF, free_block))
    /\ SortedBy(LAMBDA b, c : b.size <= c.size, rearrange(MA_BF, free_block))
    /\ SortedBy(LAMBDA b, c : b.size >= c.size, rearrange(MA_WF, free_block))

\* The manager implements the abstract partition of the memory until it joins
\* blocks that do not touch, loses one or reads an unset size.
Abstract ==
    INSTANCE Partition WITH
        free <- {[start |-> b.start_addr, size |-> b.size] : b \in ToSet(free_block)},
        used <- {[pid |-> b.pid, start |-> b.start_addr, size |-> b.size] :
                    b \in ToSet(allocated_block_head)},
        extent <- mem_size,
        broken <- ~intact \/ status # "menu"

RefinesPartition == Abstract!Spec

\* "free_block points to the list of free blocks of memory" (line 32) and
\* allocated_block_head to the blocks processes own (line 33): no free block
\* holds an address of a process, as long as every size was set and no malloc
\* failed.
FreeBlocksAreFree ==
    (status = "menu" /\ lost = 0) =>
        \A b \in ToSet(free_block), c \in ToSet(allocated_block_head) :
            b.start_addr + b.size <= c.start_addr \/ c.start_addr + c.size <= b.start_addr

\* ma_algorithm is "the current allocation algorithm" (line 36): under first
\* fit a process gets the large enough free block with the lowest address.
FirstFitIsUsed ==
    [][ma_algorithm = MA_FF /\ Len(allocated_block_head') > Len(allocated_block_head) =>
         LET b == Head(allocated_block_head')
         IN  \A c \in ToSet(free_block) : c.size >= b.size => b.start_addr <= c.start_addr]_vars
====
