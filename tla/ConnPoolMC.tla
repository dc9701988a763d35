------------------------------ MODULE ConnPoolMC ------------------------------
(* Instances of the connection pool for TLC. *)
EXTENDS ConnPool, TLC

RequestSymmetry == Permutations(Request)
=============================================================================
