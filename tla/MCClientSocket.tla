---------------------------- MODULE MCClientSocket ----------------------------
(***************************************************************************)
(* TLC instance of ClientSocket: two documents on one socket.  Each of the *)
(* three limits of the queue can be the one that is exceeded, and a denial *)
(* fills the outbound queue.                                               *)
(***************************************************************************)
EXTENDS ClientSocket

MCKeys == {"k1", "k2"}
MCSizes == {1, 2}
MCDocumentLimits == {1, 2}
=============================================================================
