------------------------------ MODULE Gateway ------------------------------
(***************************************************************************)
(* POST /executions (app/main.py, create_execution) with the services it   *)
(* calls: the idempotency store (app/services/idempotency.py: Redis, or a  *)
(* dictionary in the memory of each worker) and the executions table with  *)
(* its UNIQUE request_id (app/models/db.py).                               *)
(*                                                                         *)
(* Calls run concurrently, in the threads of several worker processes.     *)
(* Each call is one HTTP request and inserts at most one row, so the call  *)
(* itself names the execution it would create (a fresh uuid in the code).  *)
(* Between two of its steps any other call may run; a worker may crash and *)
(* restart, Redis may go down, come back and lose its keys, keys expire,   *)
(* and the database may fail a statement or leave a commit in doubt.       *)
(***************************************************************************)
EXTENDS Naturals, FiniteSets

CONSTANTS Calls,            \* HTTP requests to POST /executions
          Requests,         \* values of the X-Request-ID header
          Workers,          \* uvicorn worker processes
          NoExecution,      \* "no key" in the idempotency store
          RequestOf,        \* the X-Request-ID of each call
          WorkerOf,         \* the worker the load balancer gives it to
          RedisConfigured,  \* settings.redis_url is not empty
          SingleWriter,     \* SQLite: one open write transaction at a time
          MaxCrashes,       \* bounds on the environment's actions
          MaxOutages,
          MaxExpiries

ASSUME ConstantsAssumption ==
  /\ RequestOf \in [Calls -> Requests]
  /\ WorkerOf \in [Calls -> Workers]
  /\ NoExecution \notin Calls
  /\ RedisConfigured \in BOOLEAN
  /\ SingleWriter \in BOOLEAN
  /\ MaxCrashes \in Nat /\ MaxOutages \in Nat /\ MaxExpiries \in Nat

VARIABLES pc,         \* the next step of each call, or how it ended
          key,        \* what idempotency_svc.check returned to the call
          committed,  \* executions whose row is committed
          open,       \* executions inserted by a transaction still open
          mode,       \* "redis" or "memory": what a worker's service uses
          redis,      \* the idempotency keys in Redis
          redisUp,
          memory,     \* the dictionary of each worker
          stale,      \* entries of the dictionary past their expires_at
          faults      \* what the environment has done so far

vars == <<pc, key, committed, open, mode, redis, redisUp, memory, stale, faults>>
cache == <<mode, redis, redisUp, memory, stale, faults>>
rows == <<committed, open>>

-----------------------------------------------------------------------------
Executions == Calls
Entries == [Requests -> Executions \cup {NoExecution}]
Empty == [r \in Requests |-> NoExecution]

Steps == {"lookup", "validate", "insert", "register", "run", "commit", "respond"}

\* 200, 201, 400, and the ways a call ends in a 500 or without an answer.
Ended == {"replayed", "created", "unknown_workflow", "conflict", "locked",
          "redis_error", "engine_error", "lost"}

\* Keys name executions, rows belong to calls, faults stay within the bounds.
TypeOK ==
  /\ pc \in [Calls -> {"check"} \cup Steps \cup Ended]
  /\ key \in [Calls -> Executions \cup {NoExecution}]
  /\ committed \subseteq Executions
  /\ open \subseteq Executions
  /\ mode \in [Workers -> {"redis", "memory"}]
  /\ redis \in Entries
  /\ redisUp \in BOOLEAN
  /\ memory \in [Workers -> Entries]
  /\ stale \in [Workers -> SUBSET Requests]
  /\ faults \in [crashes : 0 .. MaxCrashes, outages : 0 .. MaxOutages,
                 expiries : 0 .. MaxExpiries]

\* IdempotencyService pings Redis once, when it is constructed.
StartMode == IF RedisConfigured /\ redisUp THEN "redis" ELSE "memory"

Init ==
  /\ pc = [c \in Calls |-> "check"]
  /\ key = [c \in Calls |-> NoExecution]
  /\ committed = {}
  /\ open = {}
  /\ redisUp = RedisConfigured
  /\ mode = [w \in Workers |-> StartMode]
  /\ redis = Empty
  /\ memory = [w \in Workers |-> Empty]
  /\ stale = [w \in Workers |-> {}]
  /\ faults = [crashes |-> 0, outages |-> 0, expiries |-> 0]

-----------------------------------------------------------------------------
SameRequest(c, d) == RequestOf[c] = RequestOf[d]

Goto(c, step) == pc' = [pc EXCEPT ![c] = step]

\* The session is closed without a commit: what c inserted is gone.
RollBack(c) == open' = open \ {c} /\ UNCHANGED committed

\* idempotency_svc.check found k (or nothing).
Checked(c, k) ==
  /\ key' = [key EXCEPT ![c] = k]
  /\ Goto(c, IF k = NoExecution THEN "validate" ELSE "lookup")

UsesRedis(c) == mode[WorkerOf[c]] = "redis"

CheckRedis(c) ==
  /\ pc[c] = "check" /\ UsesRedis(c) /\ redisUp
  /\ Checked(c, redis[RequestOf[c]])
  /\ UNCHANGED <<rows, cache>>

\* Under the lock; an entry past its time is deleted and not returned.
CheckMemory(c) ==
  LET w == WorkerOf[c]
      r == RequestOf[c]
  IN  /\ pc[c] = "check" /\ ~UsesRedis(c)
      /\ \/ /\ r \notin stale[w]
            /\ Checked(c, memory[w][r])
            /\ UNCHANGED <<memory, stale>>
         \/ /\ r \in stale[w]
            /\ memory' = [memory EXCEPT ![w][r] = NoExecution]
            /\ stale' = [stale EXCEPT ![w] = @ \ {r}]
            /\ Checked(c, NoExecution)
      /\ UNCHANGED <<rows, mode, redis, redisUp, faults>>

\* The service never leaves redis mode: its client raises, and the handler
\* does not catch it.
CheckFails(c) ==
  /\ pc[c] = "check" /\ UsesRedis(c) /\ ~redisUp
  /\ Goto(c, "redis_error")
  /\ UNCHANGED <<key, rows, cache>>

\* Faulty variant: the key is served without a look at the table.
LookupTrustsKey(c) ==
  /\ pc[c] = "lookup" /\ Goto(c, "replayed")
  /\ UNCHANGED <<key, rows, cache>>

\* Faulty variant: a row that is not yet committed is served.
LookupDirty(c) ==
  /\ pc[c] = "lookup"
  /\ Goto(c, IF key[c] \in committed \cup open THEN "replayed" ELSE "validate")
  /\ UNCHANGED <<key, rows, cache>>

\* The row the key names is served, or, if no such row is committed, the
\* call goes on as if there were no key.
Lookup(c) ==
  /\ pc[c] = "lookup"
  /\ Goto(c, IF key[c] \in committed THEN "replayed" ELSE "validate")
  /\ UNCHANGED <<key, rows, cache>>

\* load_workflow_config: the YAML file of payload.workflow_id may be missing.
Validate(c) ==
  /\ pc[c] = "validate"
  /\ \E known \in BOOLEAN : Goto(c, IF known THEN "insert" ELSE "unknown_workflow")
  /\ UNCHANGED <<key, rows, cache>>

\* Faulty variant: request_id is not UNIQUE, only the primary key is.
TakenById(c) == c \in committed

\* A committed row with c's request_id makes the INSERT violate UNIQUE;
Taken(c) == \E d \in committed : SameRequest(c, d)
\* an uncommitted one makes it wait; SQLite waits for any open writer.
Held(c) == \E d \in open : SingleWriter \/ SameRequest(c, d)

\* Faulty variant: an uncommitted duplicate is an error at once.
InsertNoWait(c) ==
  /\ pc[c] = "insert"
  /\ Goto(c, IF Taken(c) \/ Held(c) THEN "conflict" ELSE "register")
  /\ open' = IF Taken(c) \/ Held(c) THEN open ELSE open \cup {c}
  /\ UNCHANGED <<key, committed, cache>>

\* db.add and db.flush: the IntegrityError of a duplicate is not caught.
Insert(c) ==
  /\ pc[c] = "insert" /\ ~Held(c)
  /\ \/ /\ Taken(c)
        /\ Goto(c, "conflict")
        /\ UNCHANGED open
     \/ /\ ~Taken(c)
        /\ Goto(c, "register")
        /\ open' = open \cup {c}
  /\ UNCHANGED <<key, committed, cache>>

\* SQLite gives up after its busy timeout: "database is locked".
InsertLocked(c) ==
  /\ pc[c] = "insert" /\ SingleWriter /\ Held(c)
  /\ Goto(c, "locked")
  /\ UNCHANGED <<key, rows, cache>>

\* Faulty variant: SET NX, a key that is there is kept.
RegisterOnce(c) ==
  /\ pc[c] = "register" /\ UsesRedis(c) /\ redisUp
  /\ redis' = IF redis[RequestOf[c]] = NoExecution
              THEN [redis EXCEPT ![RequestOf[c]] = c] ELSE redis
  /\ Goto(c, "run")
  /\ UNCHANGED <<key, rows, mode, redisUp, memory, stale, faults>>

\* Faulty variant: the request id is stored in place of the execution id.
RegisterSwapped(c) ==
  /\ pc[c] = "register" /\ UsesRedis(c) /\ redisUp
  /\ redis' = [redis EXCEPT ![RequestOf[c]] = RequestOf[c]]
  /\ Goto(c, "run")
  /\ UNCHANGED <<key, rows, mode, redisUp, memory, stale, faults>>

\* idempotency_svc.register, before the row it names is committed.
RegisterRedis(c) ==
  /\ pc[c] = "register" /\ UsesRedis(c) /\ redisUp
  /\ redis' = [redis EXCEPT ![RequestOf[c]] = c]
  /\ Goto(c, "run")
  /\ UNCHANGED <<key, rows, mode, redisUp, memory, stale, faults>>

RegisterMemory(c) ==
  LET w == WorkerOf[c]
      r == RequestOf[c]
  IN  /\ pc[c] = "register" /\ ~UsesRedis(c)
      /\ memory' = [memory EXCEPT ![w][r] = c]
      /\ stale' = [stale EXCEPT ![w] = @ \ {r}]
      /\ Goto(c, "run")
      /\ UNCHANGED <<key, rows, mode, redis, redisUp, faults>>

\* Faulty variant: the session is never closed.
RegisterFailsLeaky(c) ==
  /\ pc[c] = "register" /\ UsesRedis(c) /\ ~redisUp
  /\ Goto(c, "redis_error")
  /\ UNCHANGED <<key, rows, cache>>

RegisterFails(c) ==
  /\ pc[c] = "register" /\ UsesRedis(c) /\ ~redisUp
  /\ Goto(c, "redis_error")
  /\ RollBack(c)
  /\ UNCHANGED <<key, cache>>

\* run_workflow writes only through this session (see Orchestrator).
Run(c) ==
  /\ pc[c] = "run"
  /\ Goto(c, "commit")
  /\ UNCHANGED <<key, rows, cache>>

\* Faulty variant: the handler answers without db.commit.
CommitForgotten(c) ==
  /\ pc[c] = "commit"
  /\ open' = open \ {c}
  /\ Goto(c, "respond")
  /\ UNCHANGED <<key, committed, cache>>

Commit(c) ==
  /\ pc[c] = "commit"
  /\ committed' = committed \cup {c}
  /\ open' = open \ {c}
  /\ Goto(c, "respond")
  /\ UNCHANGED <<key, cache>>

\* The connection breaks after the server applied the COMMIT.
CommitInDoubt(c) ==
  /\ pc[c] = "commit"
  /\ committed' = committed \cup {c}
  /\ open' = open \ {c}
  /\ Goto(c, "engine_error")
  /\ UNCHANGED <<key, cache>>

\* db.refresh and _build_response.
Respond(c) ==
  /\ pc[c] = "respond"
  /\ Goto(c, "created")
  /\ UNCHANGED <<key, rows, cache>>

\* Faulty variant: the session is never closed.
FailLeaky(c) ==
  /\ pc[c] \in Steps \ {"register"}
  /\ Goto(c, "engine_error")
  /\ UNCHANGED <<key, rows, cache>>

\* A statement of the handler raises: 500, and the session rolls back.
Fail(c) ==
  /\ pc[c] \in Steps \ {"register"}
  /\ Goto(c, "engine_error")
  /\ RollBack(c)
  /\ UNCHANGED <<key, cache>>

-----------------------------------------------------------------------------
Count(kind, bound) == /\ faults[kind] < bound
                      /\ faults' = [faults EXCEPT ![kind] = @ + 1]

InFlight(w) == {c \in Calls : WorkerOf[c] = w /\ pc[c] \in Steps}

\* A worker dies with its calls and its dictionary, the database rolls their
\* transactions back, and a new worker pings Redis.
Crash(w) ==
  /\ Count("crashes", MaxCrashes)
  /\ pc' = [c \in Calls |-> IF c \in InFlight(w) THEN "lost" ELSE pc[c]]
  /\ open' = open \ InFlight(w)
  /\ memory' = [memory EXCEPT ![w] = Empty]
  /\ stale' = [stale EXCEPT ![w] = {}]
  /\ mode' = [mode EXCEPT ![w] = StartMode]
  /\ UNCHANGED <<key, committed, redis, redisUp>>

RedisDown ==
  /\ RedisConfigured /\ redisUp
  /\ Count("outages", MaxOutages)
  /\ redisUp' = FALSE
  /\ UNCHANGED <<pc, key, rows, mode, redis, memory, stale>>

\* docker-compose.yml gives Redis no volume: its keys may be gone.
RedisBack ==
  /\ RedisConfigured /\ ~redisUp
  /\ redisUp' = TRUE
  /\ redis' \in {redis, Empty}
  /\ UNCHANGED <<pc, key, rows, mode, memory, stale, faults>>

\* ttl_seconds have passed since the key was set.
ExpireRedis(r) ==
  /\ redis[r] # NoExecution
  /\ Count("expiries", MaxExpiries)
  /\ redis' = [redis EXCEPT ![r] = NoExecution]
  /\ UNCHANGED <<pc, key, rows, mode, redisUp, memory, stale>>

ExpireMemory(w, r) ==
  /\ memory[w][r] # NoExecution /\ r \notin stale[w]
  /\ Count("expiries", MaxExpiries)
  /\ stale' = [stale EXCEPT ![w] = @ \cup {r}]
  /\ UNCHANGED <<pc, key, rows, mode, redis, redisUp, memory>>

-----------------------------------------------------------------------------
\* What a thread of a worker does once the call has reached it.
Proceed(c) ==
  \/ Lookup(c) \/ Validate(c)
  \/ Insert(c) \/ InsertLocked(c)
  \/ RegisterRedis(c) \/ RegisterMemory(c) \/ RegisterFails(c)
  \/ Run(c) \/ Commit(c) \/ Respond(c)

Handle(c) == Proceed(c) \/ CommitInDoubt(c) \/ Fail(c)

Receive(c) == CheckRedis(c) \/ CheckMemory(c) \/ CheckFails(c)

Environment ==
  \/ \E w \in Workers : Crash(w)
  \/ RedisDown \/ RedisBack
  \/ \E r \in Requests : ExpireRedis(r)
  \/ \E w \in Workers, r \in Requests : ExpireMemory(w, r)

Next ==
  \/ \E c \in Calls : Receive(c) \/ Handle(c)
  \/ Environment

\* Threads are scheduled: a call that can take its next step takes one.  The
\* database need not fail, so no call is saved from waiting by an error, and
\* nothing obliges a client to send a call.
Fairness == \A c \in Calls : WF_vars(Proceed(c))

Spec == Init /\ [][Next]_vars /\ Fairness

-----------------------------------------------------------------------------
\* The execution a 200 or a 201 carries.
Answer(c) == IF pc[c] = "replayed" THEN key[c] ELSE c

Answered == {c \in Calls : pc[c] \in {"replayed", "created"}}

\* However calls interleave and whatever fails, at most one execution is
\* committed for a request id (create_execution's INSERT, main.py:136-144).
OneExecutionPerRequest ==
  \A c, d \in committed : SameRequest(c, d) => c = d

\* Two successful answers for a request id, 200 or 201, name one and the same
\* committed execution, also after an expired key, a crash or an outage
\* between the two (main.py:116-123, 151-160).
AnswersAgree ==
  \A c, d \in Answered :
    /\ Answer(c) \in committed
    /\ SameRequest(c, Answer(c))
    /\ SameRequest(c, d) => Answer(c) = Answer(d)

\* The errors that blame the call or the store are true: an unknown workflow,
\* a locked database, a failed Redis left no row behind, and a duplicate-key
\* error means that another execution is committed (main.py:126-147).
ErrorsAreTrue ==
  \A c \in Calls :
    /\ pc[c] \in {"unknown_workflow", "conflict", "locked", "redis_error"} =>
         c \notin committed \cup open
    /\ pc[c] = "conflict" => \E d \in committed : SameRequest(c, d)

\* Redis has served every worker so far and has kept its keys.
Undisturbed == RedisConfigured /\ faults.outages = 0 /\ faults.expiries = 0

\* As long as every worker uses Redis and Redis keeps its keys, the key of a
\* decided request names the execution that decided it, although it is set
\* before the commit and stays when a transaction is rolled back or its
\* worker crashes, so a later duplicate is replayed (main.py:147).
KeyNamesDecision ==
  Undisturbed => \A c \in committed : redis[RequestOf[c]] = c

\* The ledger, read off the table and the answers.
DecidedBy(r) == {c \in committed : RequestOf[c] = r}
Decided == [r \in Requests |->
              IF DecidedBy(r) = {} THEN NoExecution
              ELSE CHOOSE c \in DecidedBy(r) : TRUE]
Told == {<<RequestOf[c], Answer(c)>> : c \in Answered}
Ledger == INSTANCE RequestLedger WITH decided <- Decided, answered <- Told
\* Clients see the ledger: one decision per request id, never replaced, and
\* only that decision is ever told (create_execution, main.py:98-160).
ImplementsLedger == Ledger!Spec

\* Every call that reached a worker ends, whoever holds the row it waits for:
\* no transaction stays open for ever (main.py:52-57, 149-157).
EveryCallEnds == \A c \in Calls : pc[c] \in Steps ~> pc[c] \in Ended

\* A duplicate submission is never answered with the database's constraint
\* violation: docs/architecture.md:332-335 has the handler catch it.
DuplicatesAnswered == \A c \in Calls : pc[c] # "conflict"

\* The loss of Redis costs no call: docs/architecture.md:640 (A6), the
\* in-memory fallback keeps the system functional.
RedisNotCritical == \A c \in Calls : pc[c] # "redis_error"
=============================================================================
