---- MODULE MCMemory ----
(* A memory of 8 addresses where a remainder of 1 is given away: the sizes *)
(* 1024 and 10 of the code scaled down so that splitting, giving away,     *)
(* joining, exact fits and refusals all happen within five requests.       *)
EXTENDS MemoryManager

MCInput == {0, 2, 3, 5, 8}
MCGarbage == {-1, 2}
MCValid == {2, 3, 4}
MCNone == {}
====
