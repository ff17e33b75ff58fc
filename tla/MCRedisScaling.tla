--------------------------- MODULE MCRedisScaling ---------------------------
(***************************************************************************)
(* TLC instance of RedisScaling: two nodes and one edit.  What happens to  *)
(* an edit does not depend on the others, every operation on documents     *)
(* being a union or a difference per edit; another edit could only make a  *)
(* node dirty again, which the SyncStep2 of an answer does as well.        *)
(***************************************************************************)
EXTENDS RedisScaling

MCNodes == {"n1", "n2"}
MCEdits == {"e1"}
=============================================================================
