------------------------------- MODULE MCRelease -------------------------------
(* Instances of Release for TLC: two clones. *)
EXTENDS Release, TLC

CONSTANTS a, b

Either == Permutations({a, b})
=============================================================================
