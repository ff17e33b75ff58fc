----------------------------- MODULE MCAwareness -----------------------------
(***************************************************************************)
(* TLC instance of Awareness: client a with an old and a new connection,   *)
(* the viewer b, whose provider repeats what it learns, and client r of    *)
(* another node.                                                           *)
(***************************************************************************)
EXTENDS Awareness

MCConns == {"a1", "a2", "b1"}
MCIds == {"a", "b", "r"}
MCOwner == [c \in MCConns |-> IF c = "b1" THEN "b" ELSE "a"]
MCPresent == {"a", "r"}
MCRepeaters == {"b1"}
=============================================================================
