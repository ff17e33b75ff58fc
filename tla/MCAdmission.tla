----------------------------- MODULE MCAdmission -----------------------------
(***************************************************************************)
(* TLC instance of Admission: four requests, one of them without address,  *)
(* against no cap and caps of one and two; ban times shorter than, as long *)
(* as and longer than the window.                                          *)
(***************************************************************************)
EXTENDS Admission

MCSockets == {"s1", "s2", "s3", "s4"}
MCNameless == {"s4"}
MCMaxima == {0, 1, 2}
MCThrottles == {0, 1, 2}
MCBanTimes == {1, 3, 4}
=============================================================================
