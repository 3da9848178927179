----------------------------- MODULE MCRateLimit -----------------------------
(* Small instances of RateLimit for TLC. *)
EXTENDS RateLimit

CONSTANTS c1, c2, k1
=============================================================================
