----------------------------- MODULE ApiServerMC -----------------------------
(* Instances of the API server for TLC. *)
EXTENDS ApiServer

CONSTANTS a, b, unknown, twitter, ahbap

(* Two lists in opposite orders: one names a row twice, the first entry of *)
(* the other has no row.  And an empty list.                               *)
TestLists == {<<a, b, a>>, <<unknown, b, a>>, <<>>}

(* Two feeds of one channel and one of another; a body without feeds. *)
TestBodies == {<<twitter, ahbap, twitter>>, <<>>}
=============================================================================
