---------------------------- MODULE MCFirstStart ----------------------------
(* Small instances of FirstStart for TLC. *)
EXTENDS FirstStart

CONSTANTS c1, c2
=============================================================================
