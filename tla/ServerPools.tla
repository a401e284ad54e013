----------------------------- MODULE ServerPools -----------------------------
(***************************************************************************)
(* The two pools of a worker that every call passes through: the threads   *)
(* FastAPI runs the plain `def` endpoints of app/main.py in, and the       *)
(* connections of the engine that get_engine (app/models/db.py) builds     *)
(* with SQLAlchemy's defaults.                                             *)
(*                                                                         *)
(* A call borrows a thread three times: to enter get_db, to run the        *)
(* endpoint, and to validate what it returned against its response_model.  *)
(* Its session borrows a connection at its first statement and returns it  *)
(* at commit, rollback or close; get_db closes it when the answer is       *)
(* ready, in a thread that does not count.                                 *)
(***************************************************************************)
EXTENDS Naturals, Sequences, FiniteSets

CONSTANTS Calls,
          KindOf,       \* "post", "read" or, without a session, "plain"
          Threads,      \* tokens of the thread limiter, 40
          Connections   \* pool_size and max_overflow, 5 and 10

ASSUME PoolsAssumption ==
  /\ IsFiniteSet(Calls)
  /\ KindOf \in [Calls -> {"post", "read", "plain"}]
  /\ Threads \in Nat \ {0} /\ Connections \in Nat \ {0}

VARIABLES pc,
          queue,     \* calls waiting for a thread, first come first served
          threads,   \* calls that have a thread
          conns      \* calls whose session has a connection

vars == <<pc, queue, threads, conns>>

\* Waiting in Session for a connection, with a thread.
Wanting == {"want_insert", "want_row", "want_refresh", "want_read"}
Queued == {"wait_enter", "wait_run", "wait_serialize"}
InThread == {"enter", "begin", "run", "replay", "build", "serialize"} \cup Wanting
Connected == {"run", "replay", "build", "wait_serialize", "serialize"}
Outside == {"idle", "ended"}

Init ==
  /\ pc = [c \in Calls |-> "idle"]
  /\ queue = <<>>
  /\ threads = {} /\ conns = {}

-----------------------------------------------------------------------------
Goto(c, step) == pc' = [pc EXCEPT ![c] = step]
Leave(c) == threads' = threads \ {c}
Enqueue(c, step) == Goto(c, step) /\ queue' = Append(queue, c)

\* /workflows and /health have no session.
Arrive(c) ==
  /\ pc[c] = "idle"
  /\ Enqueue(c, IF KindOf[c] = "plain" THEN "wait_run" ELSE "wait_enter")
  /\ UNCHANGED <<threads, conns>>

Granted(step) ==
  CASE step = "wait_enter"     -> "enter"
    [] step = "wait_run"       -> "begin"
    [] step = "wait_serialize" -> "serialize"

\* A free thread goes to the first call in the queue.
GrantThread ==
  /\ queue # <<>> /\ Cardinality(threads) < Threads
  /\ threads' = threads \cup {Head(queue)}
  /\ Goto(Head(queue), Granted(pc[Head(queue)]))
  /\ queue' = Tail(queue)
  /\ UNCHANGED conns

\* Faulty variant: get_db takes a connection at once.
EnterConnected(c) ==
  /\ pc[c] = "enter" /\ Cardinality(conns) < Connections
  /\ Leave(c) /\ Enqueue(c, "wait_run")
  /\ conns' = conns \cup {c}

\* SessionFactory() connects to nothing.
EnterDb(c) ==
  /\ pc[c] = "enter"
  /\ Leave(c) /\ Enqueue(c, "wait_run")
  /\ UNCHANGED conns

\* The endpoint, up to its first statement: a post whose key is known looks
\* for the row, one with an unknown workflow is refused.
Begin(c) ==
  /\ pc[c] = "begin"
  /\ \/ KindOf[c] = "read" /\ Goto(c, "want_read") /\ UNCHANGED threads
     \/ KindOf[c] = "post" /\ Goto(c, "want_row") /\ UNCHANGED threads
     \/ KindOf[c] = "post" /\ Goto(c, "want_insert") /\ UNCHANGED threads
     \/ KindOf[c] = "post" /\ Goto(c, "closing") /\ Leave(c)
     \/ KindOf[c] = "plain" /\ Goto(c, "ended") /\ Leave(c)
  /\ UNCHANGED <<queue, conns>>

Granting(step) ==
  CASE step = "want_insert" -> "run"
    [] step = "want_row"    -> "replay"
    [] OTHER                -> "build"

\* Any of the waiting threads may get a connection that is returned.
Connect(c) ==
  /\ pc[c] \in Wanting /\ Cardinality(conns) < Connections
  /\ conns' = conns \cup {c}
  /\ Goto(c, Granting(pc[c]))
  /\ UNCHANGED <<queue, threads>>

\* Faulty variant: the pool waits without a limit.
PoolWaits(c) == FALSE /\ UNCHANGED vars

\* pool_timeout has passed: the statement raises and the call ends in a 500,
\* in db.refresh although its execution is committed.
PoolTimeout(c) ==
  /\ pc[c] \in Wanting /\ Cardinality(conns) >= Connections
  /\ Goto(c, "closing") /\ Leave(c)
  /\ UNCHANGED <<queue, conns>>

\* The row of the key is returned as it is, or is not there and the call goes
\* on with the connection it has.
Replay(c) ==
  /\ pc[c] = "replay"
  /\ \/ Goto(c, "closing") /\ Leave(c)
     \/ Goto(c, "run") /\ UNCHANGED threads
  /\ UNCHANGED <<queue, conns>>

\* From the INSERT to the commit, with the retries' sleeps.  An error of the
\* INSERT is not caught, and the session keeps its connection until it is
\* closed; one of the workflow is, and rolled back.
Run(c) ==
  /\ pc[c] = "run"
  /\ \/ Goto(c, "want_refresh") /\ conns' = conns \ {c} /\ UNCHANGED threads
     \/ Goto(c, "closing") /\ conns' = conns \ {c} /\ Leave(c)
     \/ Goto(c, "closing") /\ UNCHANGED conns /\ Leave(c)
  /\ UNCHANGED queue

\* The endpoint returns a model, and its thread, but not its connection; the
\* row may be unknown to get_execution.
Build(c) ==
  /\ pc[c] = "build"
  /\ Leave(c)
  /\ \/ Enqueue(c, "wait_serialize")
     \/ KindOf[c] = "read" /\ Goto(c, "closing") /\ UNCHANGED queue
  /\ UNCHANGED conns

Serialize(c) ==
  /\ pc[c] = "serialize"
  /\ Goto(c, "closing") /\ Leave(c)
  /\ UNCHANGED <<queue, conns>>

\* Faulty variant: get_db without its finally.
CloseNothing(c) ==
  /\ pc[c] = "closing"
  /\ Goto(c, "ended")
  /\ UNCHANGED <<queue, threads, conns>>

\* The finally of get_db.
Close(c) ==
  /\ pc[c] = "closing"
  /\ Goto(c, "ended")
  /\ conns' = conns \ {c}
  /\ UNCHANGED <<queue, threads>>

Step(c) ==
  \/ EnterDb(c) \/ Begin(c)
  \/ Connect(c) \/ PoolTimeout(c)
  \/ Replay(c) \/ Run(c) \/ Build(c) \/ Serialize(c) \/ Close(c)

Next == GrantThread \/ \E c \in Calls : Arrive(c) \/ Step(c)

\* Threads and the event loop are scheduled, and every wait for a connection
\* ends in one or in the timeout; nobody has to send a request.
Spec == Init /\ [][Next]_vars /\ WF_vars(GrantThread) /\ \A c \in Calls : WF_vars(Step(c))

-----------------------------------------------------------------------------
At(steps) == {c \in Calls : pc[c] \in steps}

\* A thread belongs to exactly the calls that run in one, and a connection to
\* those whose session has begun; whoever ended has returned both.
TypeOK ==
  /\ pc \in [Calls -> Queued \cup InThread \cup {"closing"} \cup Outside]
  /\ queue \in Seq(Calls)
  /\ {queue[i] : i \in DOMAIN queue} = At(Queued)
  /\ \A i, j \in DOMAIN queue : queue[i] = queue[j] => i = j
  /\ threads = At(InThread) /\ Cardinality(threads) <= Threads
  /\ At(Connected) \subseteq conns /\ conns \subseteq At(Connected \cup {"closing"})
  /\ Cardinality(conns) <= Connections

\* Nothing but a timeout can happen, and not everybody is done.
CanGoOn(c) ==
  \/ pc[c] \in (InThread \ Wanting) \cup {"closing"}
  \/ pc[c] \in Wanting /\ Cardinality(conns) < Connections

Stuck ==
  /\ At(Outside) # Calls
  /\ queue = <<>> \/ Cardinality(threads) >= Threads
  /\ \A c \in Calls : ~CanGoOn(c)

\* There is one way only to wait for a timeout: every thread waits for a
\* connection, and every connection belongs to a call whose answer waits for
\* a thread.  It takes as many calls as both pools together hold
\* (main.py:52-57, 98-160, db.py:207-217).
StuckOnBothPools ==
  Stuck => /\ threads = At(Wanting) /\ Cardinality(threads) = Threads
           /\ conns = At({"wait_serialize"}) /\ Cardinality(conns) = Connections
           /\ Cardinality(Calls \ At(Outside)) >= Threads + Connections

\* Every call that arrives ends, also after its worker was stuck
\* (main.py:52-57, 98-160).
EveryCallEnds == \A c \in Calls : pc[c] = "wait_enter" ~> pc[c] = "ended"

=============================================================================
