------------------------- MODULE DecisionLifecycle -------------------------
(***************************************************************************)
(* What run_workflow and its caller promise about one execution: it is     *)
(* decided once, the decision is never revised, and what becomes durable   *)
(* is that decision with its reasons, or nothing at all.                   *)
(***************************************************************************)
CONSTANTS Decisions, Undecided

VARIABLES decision,   \* the terminal status reached, or Undecided
          stored      \* the terminal status a later reader finds

vars == <<decision, stored>>

Init == decision = Undecided /\ stored = Undecided

Decide(d) ==
  /\ decision = Undecided
  /\ decision' = d
  /\ UNCHANGED stored

Store ==
  /\ decision # Undecided /\ stored = Undecided
  /\ stored' = decision
  /\ UNCHANGED decision

Next == Store \/ \E d \in Decisions : Decide(d)

Spec == Init /\ [][Next]_vars
=============================================================================
