------------------------------ MODULE MCRegistry ------------------------------
(***************************************************************************)
(* TLC instance of Registry.  Two sockets and one direct_apply make at     *)
(* most five calls of document, of which no more than three spawn an       *)
(* actor: TLC finds the same states with MaxActors = 5.                    *)
(***************************************************************************)
EXTENDS Registry

MCSockets == {"s1", "s2"}
MCAppliers == {"d1"}
=============================================================================
