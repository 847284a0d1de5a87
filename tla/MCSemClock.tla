---- MODULE MCSemClock ----
(* Two servers that may follow or meet each other and two clients.          *)
EXTENDS SemClock, TLC

CONSTANTS s1, s2, c1, c2
MCServer == {s1, s2}
MCClient == {c1, c2}
MCSymmetry == Permutations(MCServer) \cup Permutations(MCClient)
====
