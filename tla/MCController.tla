------------------------------ MODULE MCController ------------------------------
(* The values of Controller's constants for TLC. *)
EXTENDS Controller

CONSTANTS n1, n2, a, b, v1, v2, v3, v4
=============================================================================
