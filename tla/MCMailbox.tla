---- MODULE MCMailbox ----
(* Files without a word end, with one, with two, and with a word that the  *)
(* end of the file cuts off.                                               *)
EXTENDS Mailbox

MCTexts ==
    {<<>>, <<TRUE>>, <<TRUE, FALSE>>, <<FALSE, TRUE, TRUE>>, <<TRUE, FALSE, TRUE, FALSE>>}
====
