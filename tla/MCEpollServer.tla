---- MODULE MCEpollServer ----
(* Three clients, so that two can be ready besides the listening socket, and *)
(* batches of two, so that one of the three is left listed.                  *)
EXTENDS EpollServer
====
