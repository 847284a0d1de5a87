---- MODULE Partition ----
(***************************************************************************)
(* What the memory manager of lessons_os/memory_one.c promises: the memory *)
(* 0 .. extent-1 is divided into free blocks and blocks owned by processes.*)
(* Nothing is said about the order of the free blocks or about which block *)
(* a request is served from.  The promise ends when the manager is broken: *)
(* when it joins blocks that do not touch, loses one, or is asked for a    *)
(* size it never stored.  It may be broken from the start (no block).      *)
(***************************************************************************)
EXTENDS Integers

VARIABLES
    free,      \* set of blocks [start, size]
    used,      \* set of blocks [pid, start, size]
    extent,    \* size of the memory
    broken     \* the promise has ended

vars == <<free, used, extent, broken>>

\* The addresses of a block.
Cells(b) == b.start .. b.start + b.size - 1

Block == [start : Nat, size : Nat \ {0}]
UsedBlock == [pid : Nat, start : Nat, size : Nat \ {0}]

\* Two blocks lie one directly after the other.
Touch(b, c) == b.start + b.size = c.start

Init ==
    \/ broken = TRUE
    \/ /\ extent \in Nat \ {0}
       /\ free = {[start |-> 0, size |-> extent]}
       /\ used = {}
       /\ broken = FALSE

\* The size of an untouched memory can be changed.
Resize ==
    /\ used = {}
    /\ free = {[start |-> 0, size |-> extent]}
    /\ extent' \in Nat \ {0}
    /\ free' = {[start |-> 0, size |-> extent']}
    /\ UNCHANGED <<used, broken>>

\* A process gets the front of a free block, or the whole of it.
Take ==
    \E b \in free, u \in used' :
        /\ u \in UsedBlock
        /\ \A v \in used : v.pid # u.pid
        /\ u.start = b.start /\ u.size <= b.size
        /\ used' = used \cup {u}
        /\ free' = (free \ {b}) \cup
                (IF u.size = b.size THEN {}
                 ELSE {[start |-> b.start + u.size, size |-> b.size - u.size]})
        /\ UNCHANGED <<extent, broken>>

\* A process gives its block back; the free blocks are regrouped so that they
\* hold the old free addresses and those of the block, and no two touch.
Release ==
    \E u \in used :
        /\ used' = used \ {u}
        /\ free' \subseteq Block
        /\ \A b \in free' : \A a \in Cells(b) :
              a \in Cells(u) \/ \E c \in free : a \in Cells(c)
        /\ \A c \in free : \A a \in Cells(c) : \E b \in free' : a \in Cells(b)
        /\ \A a \in Cells(u) : \E b \in free' : a \in Cells(b)
        /\ \A b, c \in free' : b # c => Cells(b) \cap Cells(c) = {} /\ ~Touch(b, c)
        /\ UNCHANGED <<extent, broken>>

\* The promise ends, for good.
Break == broken' = TRUE

Next == Break \/ (~broken /\ (Resize \/ Take \/ Release))

Spec == Init /\ [][Next]_vars

----------------------------------------------------------------------------
(* Properties                                                              *)

TypeOK ==
    /\ free \subseteq Block
    /\ used \subseteq UsedBlock
    /\ extent \in Nat \ {0}

\* Every address belongs to exactly one block, and no block leaves the memory.
Tiled ==
    /\ \A b \in free \cup used : Cells(b) \subseteq 0 .. extent - 1
    /\ \A a \in 0 .. extent - 1 : \E b \in free \cup used : a \in Cells(b)
    /\ \A b, c \in free : b # c => Cells(b) \cap Cells(c) = {}
    /\ \A b, c \in used : b # c => Cells(b) \cap Cells(c) = {}
    /\ \A b \in free, c \in used : Cells(b) \cap Cells(c) = {}

\* Free blocks that touch have been joined.
Coalesced == \A b, c \in free : ~Touch(b, c)

\* The promise of the memory manager, as long as it holds.
Promise == ~broken => TypeOK /\ Tiled /\ Coalesced
====
