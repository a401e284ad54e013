----------------------------- MODULE MCGateway -----------------------------
(***************************************************************************)
(* Instances of Gateway for TLC: three submissions of one request id (an   *)
(* original, a duplicate and a late retry) and one of another request id,  *)
(* spread over two workers.  Calls cannot be exchanged with one another    *)
(* without exchanging their request and worker, so no symmetry is declared.*)
(***************************************************************************)
EXTENDS Gateway

CONSTANTS c1, c2, c3, c4, r1, r2, w1, w2

MCCalls == {c1, c2, c3, c4}
MCFewCalls == {c1, c2, c3}
MCRequests == {r1, r2}
MCWorkers == {w1, w2}

MCRequestOf == [c \in Calls |-> IF c = c4 THEN r2 ELSE r1]
MCWorkerOf == [c \in Calls |-> IF c \in {c1, c3} THEN w1 ELSE w2]
=============================================================================
