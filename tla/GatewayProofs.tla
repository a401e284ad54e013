--------------------------- MODULE GatewayProofs ---------------------------
(***************************************************************************)
(* Theorems about Gateway, for any number of calls, requests and workers   *)
(* and any bounds on the environment: the type invariant, the safety       *)
(* invariants the runs check, and the refinement of RequestLedger.         *)
(*                                                                         *)
(* None of the safety invariants is inductive.  They rest on Inv: a row is *)
(* open exactly while its call is between INSERT and COMMIT, rows open or  *)
(* committed never share a request id, and every key, wherever it is kept, *)
(* names an execution of the request it is kept for.                       *)
(***************************************************************************)
EXTENDS Gateway, TLAPS

\* The calls whose transaction holds an uncommitted row.
Writing == {c \in Calls : pc[c] \in {"register", "run", "commit"}}

OpenRows == open = Writing

CommittedRows ==
  \A c \in Calls :
    /\ c \in committed => pc[c] \in {"respond", "created", "engine_error", "lost"}
    /\ pc[c] \in {"respond", "created"} => c \in committed

ExclusiveRows == \A c, d \in committed \cup open : SameRequest(c, d) => c = d

Names(k, r) == k = NoExecution \/ RequestOf[k] = r

KeysOfRequest ==
  /\ \A r \in Requests : Names(redis[r], r)
  /\ \A w \in Workers, r \in Requests : Names(memory[w][r], r)
  /\ \A c \in Calls : Names(key[c], RequestOf[c])

\* A key is looked up only if there is one; what was replayed is committed.
KeysRead ==
  \A c \in Calls : /\ pc[c] \in {"lookup", "replayed"} => key[c] # NoExecution
                   /\ pc[c] = "replayed" => key[c] \in committed

ConflictsReal ==
  \A c \in Calls : pc[c] = "conflict" => \E d \in committed : SameRequest(c, d)

Inv == /\ TypeOK /\ OpenRows /\ CommittedRows /\ ExclusiveRows
       /\ KeysOfRequest /\ KeysRead /\ ConflictsReal

-----------------------------------------------------------------------------
\* The initial states satisfy the invariant.
LEMMA InitInv == Init => Inv
<1> SUFFICES ASSUME Init PROVE Inv
  OBVIOUS
<1> USE ConstantsAssumption DEF Init
<1>1. TypeOK
  BY DEF TypeOK, Entries, Empty, Executions, StartMode
<1>2. OpenRows /\ CommittedRows /\ ExclusiveRows
  BY DEF OpenRows, Writing, CommittedRows, ExclusiveRows
<1>3. KeysOfRequest
  BY DEF KeysOfRequest, Names, Empty
<1>4. KeysRead /\ ConflictsReal
  BY DEF KeysRead, ConflictsReal
<1> QED BY <1>1, <1>2, <1>3, <1>4 DEF Inv

\* One entry of one worker's dictionary is overwritten.
LEMMA MemoryUpdate ==
  ASSUME memory \in [Workers -> Entries], NEW w \in Workers, NEW r \in Requests,
         NEW k \in Executions \cup {NoExecution},
         memory' = [memory EXCEPT ![w][r] = k]
  PROVE  memory' \in [Workers -> Entries]
<1>1. [memory[w] EXCEPT ![r] = k] \in Entries
  BY DEF Entries
<1> QED BY <1>1

\* The entries of one worker that are past their time change.
LEMMA StaleUpdate ==
  ASSUME stale \in [Workers -> SUBSET Requests], NEW w \in Workers,
         NEW S \in SUBSET Requests, stale' = [stale EXCEPT ![w] = S]
  PROVE  stale' \in [Workers -> SUBSET Requests]
OBVIOUS

Faults == [crashes : 0 .. MaxCrashes, outages : 0 .. MaxOutages,
           expiries : 0 .. MaxExpiries]

\* The counters of the environment stay within their bounds.
LEMMA FaultsCounted ==
  ASSUME faults \in Faults,
         \/ Count("crashes", MaxCrashes)
         \/ Count("outages", MaxOutages)
         \/ Count("expiries", MaxExpiries)
  PROVE  faults' \in Faults
<1> USE ConstantsAssumption DEF Faults, Count
<1>1. CASE Count("crashes", MaxCrashes)
  BY <1>1
<1>2. CASE Count("outages", MaxOutages)
  BY <1>2
<1>3. CASE Count("expiries", MaxExpiries)
  BY <1>3
<1> QED BY <1>1, <1>2, <1>3

\* Every step keeps the type invariant.
LEMMA TypeStep == TypeOK /\ [Next]_vars => TypeOK'
<1> SUFFICES ASSUME TypeOK, [Next]_vars PROVE TypeOK'
  OBVIOUS
<1> USE ConstantsAssumption DEF TypeOK, Entries, Executions, Steps, Ended
<1>1. CASE UNCHANGED vars
  BY <1>1 DEF vars
<1>2. ASSUME NEW c \in Calls, Receive(c) PROVE TypeOK'
  <2>1. CASE CheckRedis(c)
    BY <2>1 DEF CheckRedis, Checked, Goto, rows, cache
  <2>2. CASE CheckMemory(c)
    <3>1. WorkerOf[c] \in Workers /\ RequestOf[c] \in Requests
      OBVIOUS
    <3>2. memory[WorkerOf[c]][RequestOf[c]] \in Calls \cup {NoExecution}
      BY <3>1
    <3>3. PICK k \in Calls \cup {NoExecution} : Checked(c, k)
      BY <2>2, <3>2 DEF CheckMemory
    <3>4. memory' = memory \/ memory' = [memory EXCEPT ![WorkerOf[c]][RequestOf[c]] = NoExecution]
      BY <2>2 DEF CheckMemory
    <3>5. memory \in [Workers -> Entries] /\ stale \in [Workers -> SUBSET Requests]
      OBVIOUS
    <3>6. memory' \in [Workers -> Entries]
      <4>1. NoExecution \in Executions \cup {NoExecution}
        OBVIOUS
      <4> HIDE DEF TypeOK, Entries, Executions
      <4> QED BY <3>1, <3>4, <3>5, <4>1, MemoryUpdate
    <3>7. stale' \in [Workers -> SUBSET Requests]
      <4>1. \/ stale' = stale
            \/ stale' = [stale EXCEPT ![WorkerOf[c]] = stale[WorkerOf[c]] \ {RequestOf[c]}]
        BY <2>2 DEF CheckMemory
      <4>2. stale[WorkerOf[c]] \ {RequestOf[c]} \in SUBSET Requests
        BY <3>1, <3>5
      <4> HIDE DEF TypeOK, Entries, Executions
      <4> QED BY <3>1, <3>5, <4>1, <4>2, StaleUpdate
    <3>8. /\ key' \in [Calls -> Calls \cup {NoExecution}]
          /\ pc' \in [Calls -> {"check"} \cup Steps \cup Ended]
      BY <3>3 DEF Checked, Goto
    <3>9. UNCHANGED <<committed, open, mode, redis, redisUp, faults>>
      BY <2>2 DEF CheckMemory, rows
    <3> QED BY <3>6, <3>7, <3>8, <3>9
  <2>3. CASE CheckFails(c)
    BY <2>3 DEF CheckFails, Goto, rows, cache
  <2> QED BY <1>2, <2>1, <2>2, <2>3 DEF Receive
<1>3. ASSUME NEW c \in Calls, Handle(c) PROVE TypeOK'
  <2> USE DEF Goto, rows, cache
  <2>1. CASE Lookup(c)
    BY <2>1 DEF Lookup
  <2>2. CASE Validate(c)
    BY <2>2 DEF Validate
  <2>3. CASE Insert(c)
    BY <2>3 DEF Insert
  <2>4. CASE InsertLocked(c)
    BY <2>4 DEF InsertLocked
  <2>5. CASE RegisterRedis(c)
    BY <2>5 DEF RegisterRedis
  <2>6. CASE RegisterMemory(c)
    BY <2>6 DEF RegisterMemory
  <2>7. CASE RegisterFails(c)
    BY <2>7 DEF RegisterFails, RollBack
  <2>8. CASE Run(c)
    BY <2>8 DEF Run
  <2>9. CASE Commit(c) \/ CommitInDoubt(c)
    BY <2>9 DEF Commit, CommitInDoubt
  <2>10. CASE Respond(c)
    BY <2>10 DEF Respond
  <2>11. CASE Fail(c)
    BY <2>11 DEF Fail, RollBack
  <2> QED BY <1>3, <2>1, <2>2, <2>3, <2>4, <2>5, <2>6, <2>7, <2>8, <2>9,
             <2>10, <2>11 DEF Handle, Proceed, Proceed
<1>4. CASE Environment
  <2>1. faults \in Faults
    BY DEF Faults
  <2>2. ASSUME NEW w \in Workers, Crash(w) PROVE TypeOK'
    <3>1. faults' \in Faults
      BY <2>1, <2>2, FaultsCounted DEF Crash
    <3>2. pc' \in [Calls -> {"check"} \cup Steps \cup Ended]
      BY <2>2 DEF Crash
    <3>3. /\ memory' \in [Workers -> Entries]
          /\ stale' \in [Workers -> SUBSET Requests]
          /\ mode' \in [Workers -> {"redis", "memory"}]
      BY <2>2 DEF Crash, Empty, StartMode
    <3>4. open' \subseteq Executions /\ UNCHANGED <<key, committed, redis, redisUp>>
      BY <2>2 DEF Crash
    <3> QED BY <3>1, <3>2, <3>3, <3>4 DEF Faults
  <2>3. CASE RedisDown
    <3>1. faults' \in Faults
      BY <2>1, <2>3, FaultsCounted DEF RedisDown
    <3> QED BY <2>3, <3>1 DEF RedisDown, rows, Faults
  <2>4. CASE RedisBack
    BY <2>4 DEF RedisBack, Empty, rows
  <2>5. ASSUME NEW r \in Requests, ExpireRedis(r) PROVE TypeOK'
    <3>1. faults' \in Faults
      BY <2>1, <2>5, FaultsCounted DEF ExpireRedis
    <3> QED BY <2>5, <3>1 DEF ExpireRedis, rows, Faults
  <2>6. ASSUME NEW w \in Workers, NEW r \in Requests, ExpireMemory(w, r) PROVE TypeOK'
    <3>1. faults' \in Faults
      BY <2>1, <2>6, FaultsCounted DEF ExpireMemory
    <3> QED BY <2>6, <3>1 DEF ExpireMemory, rows, Faults
  <2> QED BY <1>4, <2>2, <2>3, <2>4, <2>5, <2>6 DEF Environment
<1> QED BY <1>1, <1>2, <1>3, <1>4 DEF Next

-----------------------------------------------------------------------------
\* What an action of the environment other than a crash leaves alone.
LEMMA EnvironmentStep ==
  ASSUME Environment
  PROVE  (\E w \in Workers : Crash(w)) \/ UNCHANGED <<pc, key, committed, open>>
BY DEF Environment, RedisDown, RedisBack, ExpireRedis, ExpireMemory, rows

\* A row is open exactly between its INSERT and its COMMIT or roll-back, and
\* a committed row belongs to a call that went past its commit.
LEMMA RowsStep ==
  ASSUME TypeOK, OpenRows, CommittedRows, [Next]_vars
  PROVE  OpenRows' /\ CommittedRows'
<1> USE DEF OpenRows, CommittedRows, Writing
<1> HIDE DEF TypeOK
<1>0. /\ pc \in [Calls -> {"check"} \cup Steps \cup Ended]
      /\ committed \subseteq Calls /\ open \subseteq Calls
  BY DEF TypeOK, Executions
<1>1. CASE UNCHANGED vars
  BY <1>1 DEF vars
<1>2. ASSUME NEW c \in Calls, Receive(c) PROVE OpenRows' /\ CommittedRows'
  BY <1>0, <1>2 DEF Receive, CheckRedis, CheckMemory, CheckFails, Checked, Goto, rows
<1>3. ASSUME NEW c \in Calls, Handle(c) PROVE OpenRows' /\ CommittedRows'
  <2> USE DEF Goto, rows
  <2>1. CASE Lookup(c) \/ Validate(c) \/ InsertLocked(c) \/ Run(c) \/ Respond(c)
    BY <1>0, <2>1 DEF Lookup, Validate, InsertLocked, Run, Respond
  <2>2. CASE Insert(c)
    BY <1>0, <2>2 DEF Insert
  <2>3. CASE RegisterRedis(c) \/ RegisterMemory(c)
    BY <1>0, <2>3 DEF RegisterRedis, RegisterMemory
  <2>4. CASE RegisterFails(c)
    BY <1>0, <2>4 DEF RegisterFails, RollBack
  <2>5. CASE Commit(c) \/ CommitInDoubt(c)
    BY <1>0, <2>5 DEF Commit, CommitInDoubt
  <2>6. CASE Fail(c)
    BY <1>0, <2>6 DEF Fail, RollBack, Steps
  <2> QED BY <1>3, <2>1, <2>2, <2>3, <2>4, <2>5, <2>6 DEF Handle, Proceed, Proceed
<1>4. ASSUME NEW w \in Workers, Crash(w) PROVE OpenRows' /\ CommittedRows'
  BY <1>0, <1>4 DEF Crash, InFlight, Steps
<1>5. CASE Environment
  BY <1>4, <1>5, EnvironmentStep
<1> QED BY <1>1, <1>2, <1>3, <1>5 DEF Next

\* Only an INSERT adds a row, and it finds no other row of its request.
LEMMA ExclusiveStep ==
  ASSUME TypeOK, OpenRows, ExclusiveRows, [Next]_vars
  PROVE  ExclusiveRows'
<1> HIDE DEF TypeOK
<1>0. committed \subseteq Calls /\ open \subseteq Calls
  BY DEF TypeOK, Executions
<1>1. ASSUME (committed \cup open)' \subseteq committed \cup open PROVE ExclusiveRows'
  BY <1>1 DEF ExclusiveRows, SameRequest
<1>2. CASE UNCHANGED vars
  BY <1>1, <1>2 DEF vars
<1>3. ASSUME NEW c \in Calls, Insert(c) PROVE ExclusiveRows'
  <2>1. CASE UNCHANGED open
    BY <1>1, <1>3, <2>1 DEF Insert
  <2>2. CASE ~Taken(c) /\ open' = open \cup {c}
    <3>1. \A d \in committed \cup open : ~SameRequest(c, d) /\ ~SameRequest(d, c)
      BY <1>3, <2>2 DEF Insert, Taken, Held, SameRequest
    <3>2. (committed \cup open)' = committed \cup open \cup {c}
      BY <1>3, <2>2 DEF Insert
    <3> QED BY <3>1, <3>2 DEF ExclusiveRows, SameRequest
  <2> QED BY <1>3, <2>1, <2>2 DEF Insert
<1>4. ASSUME NEW c \in Calls, Commit(c) \/ CommitInDoubt(c)
      PROVE  (committed \cup open)' \subseteq committed \cup open
  <2>1. c \in open
    BY <1>4 DEF Commit, CommitInDoubt, OpenRows, Writing
  <2> QED BY <1>4, <2>1 DEF Commit, CommitInDoubt
<1>5. ASSUME NEW c \in Calls, Receive(c) \/ Handle(c) PROVE ExclusiveRows'
  <2>1. CASE Receive(c)
    BY <1>1, <2>1 DEF Receive, CheckRedis, CheckMemory, CheckFails, rows
  <2>2. CASE Handle(c) /\ ~Insert(c) /\ ~Commit(c) /\ ~CommitInDoubt(c)
    BY <1>1, <2>2 DEF Handle, Proceed, Lookup, Validate, InsertLocked, RegisterRedis, RegisterMemory,
       RegisterFails, Run, Respond, Fail, RollBack, rows
  <2> QED BY <1>1, <1>3, <1>4, <1>5, <2>1, <2>2
<1>6. CASE Environment
  <2>1. ASSUME NEW w \in Workers, Crash(w) PROVE ExclusiveRows'
    BY <1>1, <2>1 DEF Crash
  <2> QED BY <1>1, <1>6, <2>1, EnvironmentStep
<1> QED BY <1>2, <1>5, <1>6 DEF Next

\* A key is only ever set for the request of the call that sets it.
LEMMA KeysStep ==
  ASSUME TypeOK, KeysOfRequest, [Next]_vars
  PROVE  KeysOfRequest'
<1> USE ConstantsAssumption
<1> HIDE DEF TypeOK
<1>0. /\ key \in [Calls -> Calls \cup {NoExecution}]
      /\ redis \in [Requests -> Calls \cup {NoExecution}]
      /\ memory \in [Workers -> [Requests -> Calls \cup {NoExecution}]]
  BY DEF TypeOK, Entries, Executions
<1> DEFINE RedisKeys == \A r \in Requests : Names(redis[r], r)
           MemoryKeys == \A w \in Workers, r \in Requests : Names(memory[w][r], r)
           ReadKeys == \A c \in Calls : Names(key[c], RequestOf[c])
<1>1. RedisKeys /\ MemoryKeys /\ ReadKeys
  BY DEF KeysOfRequest
<1>2. RedisKeys'
  <2>1. CASE UNCHANGED redis
    BY <1>1, <2>1 DEF Names
  <2>2. ASSUME NEW c \in Calls, redis' = [redis EXCEPT ![RequestOf[c]] = c] PROVE RedisKeys'
    BY <1>0, <1>1, <2>2 DEF Names
  <2>3. ASSUME NEW r \in Requests, redis' = [redis EXCEPT ![r] = NoExecution] PROVE RedisKeys'
    BY <1>0, <1>1, <2>3 DEF Names
  <2>4. CASE redis' \in {redis, Empty}
    BY <1>1, <2>4 DEF Names, Empty
  <2>5. \/ UNCHANGED redis
        \/ \E c \in Calls : redis' = [redis EXCEPT ![RequestOf[c]] = c]
        \/ \E r \in Requests : redis' = [redis EXCEPT ![r] = NoExecution]
        \/ redis' \in {redis, Empty}
    BY DEF Next, vars, Receive, CheckRedis, CheckMemory, CheckFails, Handle, Proceed, Lookup, Validate,
       Insert, InsertLocked, RegisterRedis, RegisterMemory, RegisterFails, Run, Commit,
       CommitInDoubt, Respond, Fail, Environment, Crash, RedisDown, RedisBack, ExpireRedis,
       ExpireMemory, cache
  <2> QED BY <2>1, <2>2, <2>3, <2>4, <2>5
<1>3. MemoryKeys'
  <2>1. CASE UNCHANGED memory
    BY <1>1, <2>1 DEF Names
  <2>2. ASSUME NEW w \in Workers, NEW r \in Requests, NEW k \in Calls \cup {NoExecution},
               Names(k, r), memory' = [memory EXCEPT ![w][r] = k]
        PROVE  MemoryKeys'
    BY <1>0, <1>1, <2>2 DEF Names
  <2>3. ASSUME NEW w \in Workers, Crash(w) PROVE MemoryKeys'
    BY <1>0, <1>1, <2>3 DEF Names, Crash, Empty
  <2>4. ASSUME NEW c \in Calls, CheckMemory(c) PROVE MemoryKeys'
    <3>1. memory' \in {memory, [memory EXCEPT ![WorkerOf[c]][RequestOf[c]] = NoExecution]}
      BY <2>4 DEF CheckMemory
    <3>2. Names(NoExecution, RequestOf[c]) /\ WorkerOf[c] \in Workers /\ RequestOf[c] \in Requests
      BY DEF Names
    <3> QED BY <2>1, <2>2, <3>1, <3>2
  <2>5. ASSUME NEW c \in Calls, RegisterMemory(c) PROVE MemoryKeys'
    <3>1. memory' = [memory EXCEPT ![WorkerOf[c]][RequestOf[c]] = c]
      BY <2>5 DEF RegisterMemory
    <3>2. Names(c, RequestOf[c]) /\ WorkerOf[c] \in Workers /\ RequestOf[c] \in Requests
      BY DEF Names
    <3> QED BY <2>2, <3>1, <3>2
  <2>6. \/ UNCHANGED memory
        \/ \E w \in Workers : Crash(w)
        \/ \E c \in Calls : CheckMemory(c) \/ RegisterMemory(c)
    BY DEF Next, vars, Receive, CheckRedis, CheckFails, Handle, Proceed, Lookup, Validate,
       Insert, InsertLocked, RegisterRedis, RegisterFails, Run, Commit,
       CommitInDoubt, Respond, Fail, Environment, RedisDown, RedisBack, ExpireRedis,
       ExpireMemory, cache
  <2> QED BY <2>1, <2>3, <2>4, <2>5, <2>6
<1>4. ReadKeys'
  <2>1. CASE UNCHANGED key
    BY <1>1, <2>1 DEF Names
  <2>2. ASSUME NEW c \in Calls, NEW k \in Calls \cup {NoExecution},
               Names(k, RequestOf[c]), key' = [key EXCEPT ![c] = k]
        PROVE  ReadKeys'
    BY <1>0, <1>1, <2>2 DEF Names
  <2>3. ASSUME NEW c \in Calls, CheckRedis(c) PROVE ReadKeys'
    <3>1. RequestOf[c] \in Requests
      OBVIOUS
    <3> QED BY <1>0, <1>1, <2>2, <2>3, <3>1 DEF CheckRedis, Checked
  <2>4. ASSUME NEW c \in Calls, CheckMemory(c) PROVE ReadKeys'
    <3>1. \/ key' = [key EXCEPT ![c] = memory[WorkerOf[c]][RequestOf[c]]]
          \/ key' = [key EXCEPT ![c] = NoExecution]
      BY <2>4 DEF CheckMemory, Checked
    <3>2. WorkerOf[c] \in Workers /\ RequestOf[c] \in Requests
      OBVIOUS
    <3>3. memory[WorkerOf[c]][RequestOf[c]] \in Calls \cup {NoExecution}
      BY <1>0, <3>2
    <3>4. Names(memory[WorkerOf[c]][RequestOf[c]], RequestOf[c]) /\ Names(NoExecution, RequestOf[c])
      BY <1>1, <3>2 DEF Names
    <3> QED BY <2>2, <3>1, <3>3, <3>4
  <2>5. \/ UNCHANGED key
        \/ \E c \in Calls : CheckRedis(c) \/ CheckMemory(c)
    BY DEF Next, vars, Receive, CheckFails, Handle, Proceed, Lookup, Validate,
       Insert, InsertLocked, RegisterRedis, RegisterMemory, RegisterFails, Run, Commit,
       CommitInDoubt, Respond, Fail, Environment, Crash, RedisDown, RedisBack, ExpireRedis,
       ExpireMemory
  <2> QED BY <2>1, <2>3, <2>4, <2>5
<1> QED BY <1>2, <1>3, <1>4 DEF KeysOfRequest

\* A call looks a key up only after it found one, and replays only what it
\* finds committed; a conflict is with a committed row; both stay committed.
LEMMA OutcomesStep ==
  ASSUME TypeOK, KeysRead, ConflictsReal, [Next]_vars
  PROVE  KeysRead' /\ ConflictsReal'
<1> HIDE DEF TypeOK
<1>0. /\ pc \in [Calls -> {"check"} \cup Steps \cup Ended]
      /\ key \in [Calls -> Calls \cup {NoExecution}]
  BY DEF TypeOK, Executions
<1>1. committed \subseteq committed'
  BY DEF Next, vars, Receive, CheckRedis, CheckMemory, CheckFails, Handle, Proceed, Lookup, Validate,
     Insert, InsertLocked, RegisterRedis, RegisterMemory, RegisterFails, RollBack, Run, Commit,
     CommitInDoubt, Respond, Fail, Environment, Crash, RedisDown, RedisBack, ExpireRedis,
     ExpireMemory, rows
<1> USE DEF KeysRead, ConflictsReal, SameRequest
<1>2. ASSUME UNCHANGED <<pc, key>> PROVE KeysRead' /\ ConflictsReal'
  BY <1>1, <1>2
<1>3. ASSUME NEW c \in Calls, Receive(c) PROVE KeysRead' /\ ConflictsReal'
  <2>1. CASE CheckFails(c)
    BY <1>0, <1>1, <2>1 DEF CheckFails, Goto
  <2>2. CASE CheckRedis(c) \/ CheckMemory(c)
    <3>1. PICK k : Checked(c, k)
      BY <2>2 DEF CheckRedis, CheckMemory
    <3> QED BY <1>0, <1>1, <3>1 DEF Checked, Goto
  <2> QED BY <1>3, <2>1, <2>2 DEF Receive
<1>4. ASSUME NEW c \in Calls, Handle(c) PROVE KeysRead' /\ ConflictsReal'
  <2>1. CASE Lookup(c)
    BY <1>0, <1>1, <2>1 DEF Lookup, Goto
  <2>2. CASE Insert(c)
    BY <1>0, <1>1, <2>2 DEF Insert, Taken, Goto
  <2>3. CASE ~Lookup(c) /\ ~Insert(c)
    <3>1. /\ UNCHANGED key
          /\ \E step : Goto(c, step) /\ step \notin {"lookup", "replayed", "conflict"}
      BY <1>4, <2>3 DEF Handle, Proceed, Validate, InsertLocked, RegisterRedis, RegisterMemory,
         RegisterFails, Run, Commit, CommitInDoubt, Respond, Fail
    <3> QED BY <1>0, <1>1, <3>1 DEF Goto
  <2> QED BY <2>1, <2>2, <2>3
<1>5. CASE Environment
  <2>1. ASSUME NEW w \in Workers, Crash(w) PROVE KeysRead' /\ ConflictsReal'
    BY <1>0, <1>1, <2>1 DEF Crash, InFlight
  <2> QED BY <1>2, <1>5, <2>1, EnvironmentStep
<1> QED BY <1>2, <1>3, <1>4, <1>5 DEF Next, vars

-----------------------------------------------------------------------------
\* Every step keeps the strengthened invariant.
LEMMA InvStep == Inv /\ [Next]_vars => Inv'
BY TypeStep, RowsStep, ExclusiveStep, KeysStep, OutcomesStep DEF Inv

\* The strengthened invariant holds in every reachable state.
THEOREM Invariance == Spec => []Inv
BY InitInv, InvStep, PTL DEF Spec

\* Every variable keeps its type, and the environment its bounds.
THEOREM TypeCorrect == Spec => []TypeOK
<1>1. Inv => TypeOK
  BY DEF Inv
<1> QED BY <1>1, Invariance, PTL

\* A request id is decided by at most one execution (main.py:136-152).
THEOREM DecidedOnce == Spec => []OneExecutionPerRequest
<1>1. Inv => OneExecutionPerRequest
  BY DEF Inv, ExclusiveRows, OneExecutionPerRequest
<1> QED BY <1>1, Invariance, PTL

\* The execution a successful answer carries is committed and belongs to the
\* request of the call.
LEMMA AnswerCommitted ==
  ASSUME Inv, NEW c \in Answered
  PROVE  Answer(c) \in committed /\ SameRequest(c, Answer(c))
BY DEF Inv, Answered, Answer, CommittedRows, KeysRead, KeysOfRequest, Names, SameRequest

\* What a 200 or a 201 carries is committed, belongs to the request, and is
\* the same in every successful answer for it (main.py:116-160).
THEOREM AnswersConsistent == Spec => []AnswersAgree
<1>1. Inv => AnswersAgree
  BY AnswerCommitted DEF Inv, ExclusiveRows, AnswersAgree, SameRequest
<1> QED BY <1>1, Invariance, PTL

\* An error that blames the call or the store left no row, and a conflict is
\* with a committed row (main.py:126-147).
THEOREM ErrorsHonest == Spec => []ErrorsAreTrue
<1>1. Inv => ErrorsAreTrue
  BY DEF Inv, TypeOK, OpenRows, Writing, CommittedRows, ConflictsReal, ErrorsAreTrue
<1> QED BY <1>1, Invariance, PTL

-----------------------------------------------------------------------------
\* Rows being exclusive, the decision read off the table is its only row.
LEMMA DecidedRow ==
  ASSUME Inv
  PROVE  /\ \A c \in committed : Decided[RequestOf[c]] = c
         /\ \A r \in Requests : DecidedBy(r) = {} => Decided[r] = NoExecution
<1> USE ConstantsAssumption
<1>1. committed \subseteq Calls
  BY DEF Inv, TypeOK, Executions
<1>2. ASSUME NEW c \in committed PROVE Decided[RequestOf[c]] = c
  <2>1. RequestOf[c] \in Requests
    BY <1>1
  <2>2. DecidedBy(RequestOf[c]) = {c}
    BY DEF Inv, ExclusiveRows, SameRequest, DecidedBy
  <2> QED BY <2>1, <2>2 DEF Decided
<1>3. ASSUME NEW r \in Requests, DecidedBy(r) = {} PROVE Decided[r] = NoExecution
  BY <1>3 DEF Decided
<1> QED BY <1>2, <1>3

\* A commit is the decision of its request.
LEMMA CommitDecides ==
  ASSUME Inv, Inv', NEW c \in Calls, Commit(c) \/ CommitInDoubt(c)
  PROVE  /\ Decided[RequestOf[c]] = NoExecution
         /\ Decided' = [Decided EXCEPT ![RequestOf[c]] = c]
<1> USE ConstantsAssumption
<1>1. c \in open /\ c \notin committed
  BY DEF Commit, CommitInDoubt, Inv, OpenRows, Writing, CommittedRows
<1>2. committed' = committed \cup {c}
  BY DEF Commit, CommitInDoubt
<1>3. DecidedBy(RequestOf[c]) = {}
  BY <1>1 DEF Inv, ExclusiveRows, SameRequest, DecidedBy
<1>4. \A r \in Requests \ {RequestOf[c]} : DecidedBy(r)' = DecidedBy(r)
  BY <1>2 DEF DecidedBy
<1>5. DecidedBy(RequestOf[c])' = {c}
  BY <1>2, <1>3 DEF DecidedBy
<1>6. Decided' = [r \in Requests |-> IF r = RequestOf[c] THEN c ELSE Decided[r]]
  <2>1. ASSUME NEW r \in Requests \ {RequestOf[c]} PROVE Decided'[r] = Decided[r]
    <3>1. DecidedBy(r)' = DecidedBy(r)
      BY <1>4, <2>1
    <3>2. Decided[r] = IF DecidedBy(r) = {} THEN NoExecution
                       ELSE CHOOSE d \in DecidedBy(r) : TRUE
      BY <2>1 DEF Decided
    <3>3. Decided'[r] = IF DecidedBy(r)' = {} THEN NoExecution
                        ELSE CHOOSE d \in DecidedBy(r)' : TRUE
      BY <2>1 DEF Decided
    <3> HIDE DEF DecidedBy, Decided
    <3> QED BY <3>1, <3>2, <3>3
  <2>2. Decided'[RequestOf[c]] = c
    BY <1>5 DEF Decided
  <2>3. Decided' = [r \in Requests |-> Decided'[r]]
    BY DEF Decided
  <2> QED BY <2>1, <2>2, <2>3
<1>7. Decided = [r \in Requests |-> Decided[r]]
  BY DEF Decided
<1> QED BY <1>3, <1>6, <1>7, DecidedRow

\* A call that ends successfully tells its client the decision.
LEMMA AnswerTells ==
  ASSUME Inv, Inv', NEW c \in Calls, UNCHANGED <<committed, key>>, pc[c] \in Steps,
         NEW step \in {"replayed", "created"}, Goto(c, step)
  PROVE  /\ Decided[RequestOf[c]] # NoExecution
         /\ Told' = Told \cup {<<RequestOf[c], Decided[RequestOf[c]]>>}
<1> USE ConstantsAssumption
<1>0. pc \in [Calls -> {"check"} \cup Steps \cup Ended] /\ committed \subseteq Calls
  BY DEF Inv, TypeOK, Executions
<1>1. Answered' = Answered \cup {c} /\ c \notin Answered
  BY <1>0 DEF Answered, Goto, Steps
<1>2. \A d \in Answered : Answer(d)' = Answer(d)
  BY <1>0, <1>1 DEF Answer, Goto, Answered
<1>3. Answer(c)' \in committed /\ SameRequest(c, Answer(c)')
  <2>1. CASE step = "created"
    BY <1>0, <2>1 DEF Answer, Goto, SameRequest, Inv, CommittedRows
  <2>2. CASE step = "replayed"
    <3>1. pc'[c] = "replayed" /\ Answer(c)' = key[c]
      BY <1>0, <2>2 DEF Answer, Goto
    <3>2. key[c] # NoExecution /\ key[c] \in committed /\ Names(key[c], RequestOf[c])
      BY <3>1 DEF Inv, KeysRead, KeysOfRequest
    <3> QED BY <3>1, <3>2 DEF Names, SameRequest
  <2> QED BY <2>1, <2>2
<1>4. Decided[RequestOf[c]] = Answer(c)'
  BY <1>3, DecidedRow DEF SameRequest
<1>5. Told' = Told \cup {<<RequestOf[c], Answer(c)'>>}
  BY <1>1, <1>2 DEF Told
<1>6. Answer(c)' # NoExecution
  BY <1>0, <1>3
<1> QED BY <1>4, <1>5, <1>6

\* A step that commits nothing and answers nobody does not touch the ledger.
LEMMA LedgerStutters ==
  ASSUME UNCHANGED committed, Answered' = Answered,
         \A c \in Answered : Answer(c)' = Answer(c)
  PROVE  UNCHANGED <<Decided, Told>>
BY DEF Decided, DecidedBy, Told

\* With an empty table nothing is decided and nobody was answered.
LEMMA LedgerInit == Init => Ledger!Init
BY DEF Init, Ledger!Init, Decided, DecidedBy, Told, Answered

\* Every step of the gateway is a step of the ledger or leaves it alone.
LEMMA LedgerStep == Inv /\ Inv' /\ [Next]_vars => [Ledger!Next]_(Ledger!vars)
<1> SUFFICES ASSUME Inv, Inv', [Next]_vars PROVE Ledger!Next \/ UNCHANGED <<Decided, Told>>
  BY DEF Ledger!vars
<1> USE ConstantsAssumption
<1>0. pc \in [Calls -> {"check"} \cup Steps \cup Ended] /\ key \in [Calls -> Calls \cup {NoExecution}]
  BY DEF Inv, TypeOK, Executions
<1>1. ASSUME UNCHANGED <<pc, key, committed>> PROVE UNCHANGED <<Decided, Told>>
  BY <1>1, LedgerStutters DEF Answered, Answer
<1>2. ASSUME NEW c \in Calls, pc[c] \in {"check"} \cup Steps, UNCHANGED committed,
             NEW step, Goto(c, step), step \notin {"replayed", "created"},
             \A d \in Calls \ {c} : key'[d] = key[d]
      PROVE  UNCHANGED <<Decided, Told>>
  <2>1. Answered' = Answered /\ c \notin Answered
    BY <1>0, <1>2 DEF Answered, Goto, Steps
  <2>2. \A d \in Answered : Answer(d)' = Answer(d)
    BY <1>0, <1>2, <2>1 DEF Answer, Goto, Answered
  <2> QED BY <1>2, <2>1, <2>2, LedgerStutters
<1>3. ASSUME NEW c \in Calls, Receive(c) PROVE UNCHANGED <<Decided, Told>>
  <2>1. /\ pc[c] = "check" /\ UNCHANGED committed
        /\ \A d \in Calls \ {c} : key'[d] = key[d]
    BY <1>0, <1>3 DEF Receive, CheckRedis, CheckMemory, CheckFails, Checked, rows
  <2>2. \E step : Goto(c, step) /\ step \notin {"replayed", "created"}
    BY <1>3 DEF Receive, CheckRedis, CheckMemory, CheckFails, Checked
  <2> QED BY <1>2, <2>1, <2>2
<1>4. ASSUME NEW c \in Calls, Commit(c) \/ CommitInDoubt(c) PROVE Ledger!Next
  <2>1. Told' = Told
    <3>1. Answered' = Answered
      BY <1>0, <1>4 DEF Commit, CommitInDoubt, Goto, Answered
    <3>2. \A d \in Answered : Answer(d)' = Answer(d)
      BY <1>0, <1>4 DEF Commit, CommitInDoubt, Goto, Answered, Answer
    <3> QED BY <3>1, <3>2 DEF Told
  <2>2. Ledger!Decide(RequestOf[c], c)
    BY <1>4, <2>1, CommitDecides DEF Ledger!Decide
  <2> QED BY <2>2 DEF Ledger!Next, Executions
<1>5. ASSUME NEW c \in Calls, NEW step \in {"replayed", "created"}, Goto(c, step),
             pc[c] \in Steps, UNCHANGED <<committed, key>>
      PROVE  Ledger!Next
  <2>1. UNCHANGED Decided
    BY <1>5 DEF Decided, DecidedBy
  <2>2. Ledger!Answer(RequestOf[c])
    BY <1>5, <2>1, AnswerTells DEF Ledger!Answer
  <2> QED BY <2>2 DEF Ledger!Next
<1>6. ASSUME NEW c \in Calls, Handle(c), ~Commit(c), ~CommitInDoubt(c)
      PROVE  Ledger!Next \/ UNCHANGED <<Decided, Told>>
  <2>1. pc[c] \in Steps /\ UNCHANGED <<committed, key>> /\ \E step : Goto(c, step)
    BY <1>6 DEF Handle, Proceed, Lookup, Validate, Insert, InsertLocked, RegisterRedis, RegisterMemory,
       RegisterFails, Run, Respond, Fail, RollBack, rows, Steps
  <2> QED BY <1>2, <1>5, <2>1
<1>7. CASE Environment
  <2>1. ASSUME NEW w \in Workers, Crash(w) PROVE UNCHANGED <<Decided, Told>>
    <3>1. Answered' = Answered
      BY <1>0, <2>1 DEF Crash, InFlight, Answered, Steps
    <3>2. \A d \in Answered : Answer(d)' = Answer(d)
      BY <1>0, <2>1 DEF Crash, InFlight, Answered, Answer, Steps
    <3> QED BY <2>1, <3>1, <3>2, LedgerStutters DEF Crash
  <2> QED BY <1>1, <1>7, <2>1, EnvironmentStep
<1> QED BY <1>1, <1>3, <1>4, <1>6, <1>7 DEF Next, vars

\* Clients see an at-most-once ledger: the handler, the caches and the table
\* together implement RequestLedger.
THEOREM GatewayImplementsLedger == Spec => ImplementsLedger
BY LedgerInit, LedgerStep, Invariance, PTL DEF Spec, ImplementsLedger, Ledger!Spec

-----------------------------------------------------------------------------
\* While Redis is undisturbed, every key is set in Redis, and the call that
\* set it holds the row of its request until it commits or rolls back.
KeysHold ==
  /\ redisUp /\ \A w \in Workers : mode[w] = "redis"
  /\ \A c \in Calls : pc[c] \in {"run", "commit"} => redis[RequestOf[c]] = c
  /\ \A c \in committed : redis[RequestOf[c]] = c

KeyInv == Undisturbed => KeysHold

\* A fault is never forgotten, so a state that is undisturbed comes from one.
LEMMA UndisturbedBefore ==
  ASSUME Inv, [Next]_vars, Undisturbed'
  PROVE  /\ Undisturbed
         /\ ~RedisDown
         /\ \A r \in Requests : ~ExpireRedis(r) /\ \A w \in Workers : ~ExpireMemory(w, r)
<1>1. faults \in Faults
  BY DEF Inv, TypeOK, Faults
<1>2. faults.outages \in Nat /\ faults.expiries \in Nat
  BY <1>1, ConstantsAssumption DEF Faults
<1>3. faults'.outages = 0 /\ faults'.expiries = 0 /\ RedisConfigured
  BY DEF Undisturbed
<1>4. \A bound \in Nat : ~Count("outages", bound) /\ ~Count("expiries", bound)
  <2> SUFFICES ASSUME NEW bound \in Nat, NEW kind \in {"outages", "expiries"}, Count(kind, bound)
               PROVE  FALSE
    OBVIOUS
  <2>1. faults' = [faults EXCEPT ![kind] = @ + 1]
    BY DEF Count
  <2>2. faults'[kind] = faults[kind] + 1
    BY <1>1, <2>1 DEF Faults
  <2> QED BY <1>2, <1>3, <2>2
<1>5. /\ ~RedisDown
      /\ \A r \in Requests : ~ExpireRedis(r) /\ \A w \in Workers : ~ExpireMemory(w, r)
  BY <1>4, ConstantsAssumption DEF RedisDown, ExpireRedis, ExpireMemory
<1>6. faults'.outages = faults.outages /\ faults'.expiries = faults.expiries
  <2>1. CASE UNCHANGED faults
    BY <2>1
  <2>2. ASSUME NEW w \in Workers, Crash(w)
        PROVE  faults'.outages = faults.outages /\ faults'.expiries = faults.expiries
    <3>1. faults' = [faults EXCEPT !["crashes"] = @ + 1]
      BY <2>2 DEF Crash, Count
    <3> QED BY <1>1, <3>1 DEF Faults
  <2>3. ASSUME NEW c \in Calls, Receive(c) \/ Handle(c) PROVE UNCHANGED faults
    BY <2>3 DEF Receive, CheckRedis, CheckMemory, CheckFails, Handle, Proceed, Lookup, Validate,
       Insert, InsertLocked, RegisterRedis, RegisterMemory, RegisterFails, Run, Commit,
       CommitInDoubt, Respond, Fail, cache
  <2>4. RedisBack => UNCHANGED faults
    BY DEF RedisBack
  <2> QED BY <1>5, <2>1, <2>2, <2>3, <2>4 DEF Next, Environment, vars
<1> QED BY <1>3, <1>5, <1>6 DEF Undisturbed

\* Without outages and expiries a key, once set, is replaced only by the call
\* that holds the row, so it names the row that is committed next.
LEMMA KeyInvStep ==
  ASSUME Inv, KeyInv, [Next]_vars
  PROVE  KeyInv'
<1> SUFFICES ASSUME Undisturbed' PROVE KeysHold'
  BY DEF KeyInv
<1> USE ConstantsAssumption DEF KeysHold
<1>h. KeysHold
  BY UndisturbedBefore DEF KeyInv
<1>0. /\ pc \in [Calls -> {"check"} \cup Steps \cup Ended]
      /\ redis \in [Requests -> Calls \cup {NoExecution}]
      /\ committed \subseteq Calls /\ open \subseteq Calls
      /\ mode \in [Workers -> {"redis", "memory"}]
  BY DEF Inv, TypeOK, Entries, Executions
<1>1. \A c \in Calls : UsesRedis(c)
  BY <1>h DEF UsesRedis
<1>2. /\ ~RedisDown /\ RedisConfigured
      /\ \A r \in Requests : ~ExpireRedis(r) /\ \A w \in Workers : ~ExpireMemory(w, r)
  BY UndisturbedBefore DEF Undisturbed
<1>3. CASE UNCHANGED vars
  BY <1>h, <1>3 DEF vars
<1>4. ASSUME NEW c \in Calls, Receive(c) PROVE KeysHold'
  BY <1>h, <1>0, <1>1, <1>4 DEF Receive, CheckRedis, CheckMemory, CheckFails, Checked, Goto, rows, cache
<1>5. ASSUME NEW c \in Calls, RegisterRedis(c) PROVE KeysHold'
  <2>1. c \in open /\ c \notin committed
    BY <1>5 DEF RegisterRedis, Inv, OpenRows, Writing, CommittedRows
  <2>2. \A d \in committed : RequestOf[d] # RequestOf[c]
    BY <2>1 DEF Inv, ExclusiveRows, SameRequest
  <2>3. \A d \in Calls \ {c} : pc[d] \in {"run", "commit"} => RequestOf[d] # RequestOf[c]
    BY <2>1 DEF Inv, ExclusiveRows, SameRequest, OpenRows, Writing
  <2>4. redis' = [redis EXCEPT ![RequestOf[c]] = c] /\ UNCHANGED <<committed, mode, redisUp>>
    BY <1>5 DEF RegisterRedis, rows
  <2>5. \A d \in Calls : pc'[d] = IF d = c THEN "run" ELSE pc[d]
    BY <1>0, <1>5 DEF RegisterRedis, Goto
  <2> QED BY <1>h, <1>0, <2>2, <2>3, <2>4, <2>5
<1>6. ASSUME NEW c \in Calls, Handle(c), ~RegisterRedis(c) PROVE KeysHold'
  <2>1. /\ UNCHANGED cache /\ committed' \in {committed, committed \cup {c}}
        /\ committed' # committed => pc[c] = "commit"
        /\ \E step : Goto(c, step) /\ step # "run" /\ (step = "commit" => pc[c] = "run")
    <3>1. CASE Run(c)
      BY <3>1 DEF Run, rows
    <3>2. CASE Commit(c) \/ CommitInDoubt(c)
      BY <3>2 DEF Commit, CommitInDoubt
    <3>3. CASE Insert(c)
      BY <3>3 DEF Insert
    <3>4. CASE Lookup(c) \/ Validate(c) \/ InsertLocked(c) \/ Respond(c)
      BY <3>4 DEF Lookup, Validate, InsertLocked, Respond, rows
    <3>5. CASE RegisterFails(c) \/ Fail(c)
      BY <3>5 DEF RegisterFails, Fail, RollBack
    <3>6. ~RegisterMemory(c)
      BY <1>1 DEF RegisterMemory
    <3> QED BY <1>6, <3>1, <3>2, <3>3, <3>4, <3>5, <3>6 DEF Handle, Proceed, Proceed
  <2> QED BY <1>h, <1>0, <2>1 DEF Goto, cache
<1>7. CASE Environment
  <2>1. ASSUME NEW w \in Workers, Crash(w) PROVE KeysHold'
    <3>1. StartMode = "redis"
      BY <1>h, <1>2 DEF StartMode
    <3> QED BY <1>h, <1>0, <2>1, <3>1 DEF Crash, InFlight
  <2>2. ~RedisDown /\ ~RedisBack
    BY <1>h, <1>2 DEF RedisBack
  <2>3. \A r \in Requests : ~ExpireRedis(r) /\ \A w \in Workers : ~ExpireMemory(w, r)
    BY <1>2
  <2> QED BY <1>7, <2>1, <2>2, <2>3 DEF Environment
<1> QED BY <1>3, <1>4, <1>5, <1>6, <1>7 DEF Next

\* While Redis keeps its keys, the key of a decided request names the
\* execution that decided it, so a duplicate that comes after the commit is
\* replayed and never runs into the UNIQUE constraint (main.py:116-123, 147).
THEOREM KeyTracksDecision == Spec => []KeyNamesDecision
<1>1. Init => KeyInv
  BY ConstantsAssumption DEF Init, KeyInv, KeysHold, Undisturbed, StartMode
<1>2. Inv /\ KeyInv /\ [Next]_vars => KeyInv'
  BY KeyInvStep
<1>3. KeyInv => KeyNamesDecision
  BY DEF KeyInv, KeysHold, KeyNamesDecision
<1> QED BY <1>1, <1>2, <1>3, Invariance, PTL DEF Spec
=============================================================================
