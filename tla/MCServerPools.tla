--------------------------- MODULE MCServerPools ---------------------------
(***************************************************************************)
(* Two threads and one connection, as the code has more threads than       *)
(* connections, and one call more than it takes to get stuck.              *)
(***************************************************************************)
EXTENDS ServerPools

CONSTANTS p1, p2, r1, h1

MCCalls == {p1, p2, r1, h1}
MCKindOf == [c \in Calls |-> IF c = r1 THEN "read" ELSE IF c = h1 THEN "plain" ELSE "post"]
=============================================================================
