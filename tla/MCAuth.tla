------------------------------- MODULE MCAuth -------------------------------
(* Instances of Auth for TLC. *)
EXTENDS Auth

CONSTANTS k1, k2, n1, n2
=============================================================================
