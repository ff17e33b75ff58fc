------------------------------- MODULE MCFanout -------------------------------
(***************************************************************************)
(* TLC instance of Fanout: one writing and one read-only client, edits of  *)
(* the writer and of a peer, queues of two frames and batches of two       *)
(* commands, so that queues fill and batches merge and are cut.            *)
(***************************************************************************)
EXTENDS Fanout

MCClients == {"c1", "c2"}
MCReadOnly == {"c2"}
MCEdits == {"e1", "e2"}
MCAuthor == [e \in MCEdits |-> IF e = "e1" THEN "c1" ELSE None]
=============================================================================
