--------------------------- MODULE MCConfigCache ---------------------------
(***************************************************************************)
(* Three workflows and a cache of two: with two calls for workflow a and   *)
(* one for each of the others in one worker, entries are hit, reordered,   *)
(* read by two calls at once and evicted between the loads of a call.  The *)
(* calls for a are interchangeable.                                        *)
(***************************************************************************)
EXTENDS ConfigCache, TLC

CONSTANTS c1, c2, c3, c4, a, b, d, w

MCCalls == {c1, c2, c3, c4}
MCWorkflowIds == {a, b, d}
MCDeployed == {b, d}
MCWorkers == {w}
MCWorkflowOf == [c \in Calls |-> CASE c = c3 -> b [] c = c4 -> d [] OTHER -> a]
MCWorkerOf == [c \in Calls |-> w]

Twins == Permutations({c1, c2})
=============================================================================
