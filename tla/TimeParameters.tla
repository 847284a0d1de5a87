---- MODULE TimeParameters ----
(***************************************************************************)
(* The parameters of the stream time service, and what is assumed of them.  *)
(***************************************************************************)
EXTENDS Naturals

CONSTANTS
    Client,     \* clients: each is started once
    Qsize       \* connections the kernel queues for accept

Nobody == "nobody"

ASSUME TimeServiceAssumption == Nobody \notin Client /\ Qsize \in Nat \ {0}

====
