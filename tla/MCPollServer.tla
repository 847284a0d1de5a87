---- MODULE MCPollServer ----
(* Three clients for two entries: the table can be full, and an entry and a *)
(* descriptor are given to a second client.                                 *)
EXTENDS PollServer
====
