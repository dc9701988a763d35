----------------------------- MODULE HttpCacheMC -----------------------------
(* Instances of the response cache for TLC. *)
EXTENDS HttpCache, TLC

CONSTANTS areas, feed, location

(* Every URL is answered from the one table. *)
OneTable == [u \in {areas, feed} |-> location]

(* The slots of requests are interchangeable. *)
RequestSymmetry == Permutations(Request)
=============================================================================
