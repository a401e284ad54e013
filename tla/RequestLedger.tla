--------------------------- MODULE RequestLedger ---------------------------
(***************************************************************************)
(* What POST /executions promises to clients, with no cache, no database   *)
(* and no concurrency: each request id (X-Request-ID) is decided at most   *)
(* once, by one execution, and every successful answer for that request id *)
(* carries that execution.  Gateway implements this specification.         *)
(***************************************************************************)
CONSTANTS Requests,     \* the X-Request-ID values clients use
          Executions,   \* identifiers of executions
          NoExecution   \* "no execution yet"

VARIABLES decided,      \* decided[r]: the execution that decided request r
          answered      \* the <<request, execution>> pairs clients were told

vars == <<decided, answered>>

Init ==
  /\ decided = [r \in Requests |-> NoExecution]
  /\ answered = {}

\* The first and only execution that becomes durable for r.
Decide(r, e) ==
  /\ decided[r] = NoExecution
  /\ decided' = [decided EXCEPT ![r] = e]
  /\ UNCHANGED answered

\* A 201 or a 200: the client is told the execution that decided r.
Answer(r) ==
  /\ decided[r] # NoExecution
  /\ answered' = answered \cup {<<r, decided[r]>>}
  /\ UNCHANGED decided

Next == \E r \in Requests :
          \/ \E e \in Executions : Decide(r, e)
          \/ Answer(r)

Spec == Init /\ [][Next]_vars
=============================================================================
