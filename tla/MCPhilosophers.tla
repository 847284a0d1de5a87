---- MODULE MCPhilosophers ----
(* The program as written: five threads, five rounds.                    *)
EXTENDS Philosophers
====
