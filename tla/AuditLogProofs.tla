--------------------------- MODULE AuditLogProofs ---------------------------
(***************************************************************************)
(* Theorems about the audit log that Orchestrator stores, for any          *)
(* workflows: the decision can be replayed from it, stages are in order,   *)
(* the tries of every call are accounted for, and the trace supports the   *)
(* status.                                                                 *)
(*                                                                         *)
(* All four speak of stored logs only.  LogInv says what the log of a run  *)
(* that is still under way has: while stages are executed, nothing in it   *)
(* calls for another decision than an approval (Approving), and the step   *)
(* that leaves the loop settles what a replay of it finds (Outcome).       *)
(* The operators take the stages S of a workflow and a log l.              *)
(***************************************************************************)
EXTENDS OrchestratorProofs, FunctionTheorems

KnownIn(S) == {k \in DOMAIN S : S[k].type \in {"rule_evaluation", "external_dependency"}}
Upto(S, n) == {k \in KnownIn(S) : k <= n}

Starting == {"STAGE_STARTED"}
Ending == {"STAGE_COMPLETED", "STAGE_FAILED"}
CallEnds == {"EXT_DEP_SUCCESS", "EXT_DEP_FAILURE"}
CallEvents == CallEnds \cup {"EXT_DEP_ATTEMPT"}

\* The rows of some event are one for each of the stages K, in their order.
Once(S, l, events, K) ==
  /\ \A i \in DOMAIN l : l[i].event \in events => \E k \in K : l[i].stage = S[k].id
  /\ \A k \in K : \E i \in DOMAIN l : l[i].event \in events /\ l[i].stage = S[k].id
  /\ \A i, j \in DOMAIN l : i < j /\ l[i].event \in events /\ l[j].event \in events =>
       \A k, h \in DOMAIN S : l[i].stage = S[k].id /\ l[j].stage = S[h].id => k < h

\* Only the stages up to the n-th have made calls.
CallsUpto(S, l, n) ==
  \A i \in DOMAIN l : l[i].event \in CallEvents => \E k \in Upto(S, n) : l[i].stage = S[k].id

\* The row that ends a call stands right behind those of its r retries.
AccountedBy(S, l, i, r) ==
  /\ r \in 0 .. i - 1
  /\ l[i].n = r + 1 \/ (l[i].n = 0 /\ r = 0)
  /\ \A k \in DOMAIN S : l[i].stage = S[k].id => l[i].n <= S[k].max_attempts
  /\ \A j \in DOMAIN l :
       l[j].event = "EXT_DEP_ATTEMPT" /\ l[j].stage = l[i].stage <=> j \in i - r .. i - 1
  /\ \A j \in i - r .. i - 1 : l[j].n = j + 1 - (i - r)

Accounted(S, l) ==
  \A i \in DOMAIN l : l[i].event \in CallEnds => \E r \in 0 .. i - 1 : AccountedBy(S, l, i, r)

\* A row that holds nothing against an approval.
CleanRow(S, x) ==
  /\ x.event \in {"RULE_EVALUATED", "STAGE_COMPLETED"} => x.result = "PASS"
  /\ x.event \in {"EXT_DEP_FAILURE", "STAGE_FAILED"} =>
       /\ x.result = "FAIL"
       /\ \E k \in KnownIn(S) : x.stage = S[k].id /\ S[k].on_failure = "continue"
  /\ x.result \in {"FAIL", "ERROR", "SOFT_FAIL"} =>
       x.event \in {"EXT_DEP_ATTEMPT", "EXT_DEP_FAILURE", "STAGE_FAILED"}

Clean(S, l) == \A i \in DOMAIN l : CleanRow(S, l[i])

\* No stage starts after a row that is held against an approval.
CleanStarts(S, l) ==
  \A i, j \in DOMAIN l : l[i].event \in Starting /\ j < i => CleanRow(S, l[j])

\* Each failed stage is one whose call failed.
Paired(l) ==
  \A i \in DOMAIN l :
    /\ l[i].event = "EXT_DEP_FAILURE" => i + 1 \in DOMAIN l /\ l[i + 1].event = "STAGE_FAILED"
    /\ l[i].event = "STAGE_FAILED" => i - 1 \in DOMAIN l /\ l[i - 1].event = "EXT_DEP_FAILURE"

\* A rule fails in one row at most.
FailedRule(x) == x.event = "RULE_EVALUATED" /\ x.result = "FAIL"
FailsOnce(l) ==
  \A i, j \in DOMAIN l : FailedRule(l[i]) /\ FailedRule(l[j]) /\ l[i].rule = l[j].rule => i = j

-----------------------------------------------------------------------------
\* Replay, for a log that need not be the stored one.
Created(l) == \E i \in DOMAIN l : l[i].event = "EXECUTION_CREATED"
HasBroken(l) == \E i \in DOMAIN l : l[i].event = "STAGE_FAILED" /\ l[i].result = "ERROR"
HasInvalid(l) ==
  \E i \in DOMAIN l : l[i].event = "STAGE_FAILED" /\ l[i].stage = "__input_validation__"
HasHard(l) == \E i \in DOMAIN l : l[i].event = "RULE_EVALUATED" /\ HardRule(l[i])
HasFailed(l) == \E i \in DOMAIN l : l[i].event = "RULE_EVALUATED" /\ l[i].result # "PASS"
HasCallFailure(S, l, policy) ==
  \E i \in DOMAIN l, k \in DOMAIN S :
    l[i].event = "EXT_DEP_FAILURE" /\ l[i].stage = S[k].id /\ S[k].on_failure \in policy

OtherPolicies == STRING \ {"manual_review", "continue"}

ReplayOf(S, l) ==
  IF ~Created(l) \/ HasBroken(l) THEN "FAILED"
  ELSE IF HasInvalid(l) \/ HasHard(l) THEN "REJECTED"
  ELSE IF HasFailed(l) \/ HasCallFailure(S, l, {"manual_review"}) THEN "MANUAL_REVIEW"
  ELSE IF HasCallFailure(S, l, OtherPolicies) THEN "FAILED"
  ELSE "APPROVED"

-----------------------------------------------------------------------------
\* The log while stages are executed: some have started, and those up to a
\* number have ended, in a way that lets the loop go on.
Approving(S, l, started, ended) ==
  /\ Created(l) /\ Clean(S, l) /\ Paired(l)
  /\ Once(S, l, Starting, Upto(S, started))
  /\ Once(S, l, Ending, Upto(S, ended))
  /\ CallsUpto(S, l, ended)
  /\ Accounted(S, l)

\* The log of an execution whose status has been settled.
Outcome(S, l, status) ==
  /\ status = ReplayOf(S, l)
  /\ CallsUpto(S, l, Len(S))
  /\ Accounted(S, l)
  /\ CleanStarts(S, l)
  /\ FailsOnce(l)
  /\ \E n \in 0 .. Len(S) : Once(S, l, Starting, Upto(S, n))
  /\ status = "APPROVED" => Approving(S, l, Len(S), Len(S))

\* The row of such an execution; the trace is that of the whole log.
Settled(S, r, l) ==
  /\ Outcome(S, l, r.status)
  /\ r.trace # None => r.trace = Trace(l, r.status)

LogInv ==
  /\ pc = "load" => log = <<>>
  /\ pc = "validate" => log = <<Transition("RUNNING"), Row("EXECUTION_CREATED", None, None)>>
  /\ pc \in {"load", "validate"} => at = 1 /\ row.trace = None
  /\ pc \in {"load", "validate", "stage", "calling"} => routing = "continue"
  /\ pc = "stage" => Approving(Stages, log, at - 1, at - 1)
  /\ pc = "calling" =>
       /\ Stage.type = "external_dependency" /\ Approving(Stages, log, at, at - 1)
       /\ attempt < Stage.max_attempts \/ (attempt = 0 /\ Stage.max_attempts = 0)
  /\ pc = "final" => Outcome(Stages, log, FinalStatus(routing))
  /\ pc = "commit" => Settled(Stages, row, log)
  /\ stored # None => stored.log \in Seq(AuditRows) /\ Settled(Stages, stored.row, stored.log)
-----------------------------------------------------------------------------
\* Every step leaves the rows there are as they are, and adds some.
Extends(l, m) == Len(l) <= Len(m) /\ \A i \in 1 .. Len(l) : m[i] = l[i]
New(l, m) == Len(l) + 1 .. Len(m)

DistinctIds(S) == \A i, j \in DOMAIN S : S[i].id = S[j].id => i = j

\* Rows of other events do not disturb the order of some.
LEMMA OnceKept ==
  ASSUME NEW S, NEW K, NEW events, NEW l \in Seq(AuditRows), NEW m \in Seq(AuditRows),
         Extends(l, m), Once(S, l, events, K), \A i \in New(l, m) : m[i].event \notin events
  PROVE  Once(S, m, events, K)
<1>1. \A i \in DOMAIN m : m[i].event \in events => i \in DOMAIN l /\ m[i] = l[i]
  BY DEF Extends, New
<1>2. \A i \in DOMAIN l : i \in DOMAIN m /\ m[i] = l[i]
  BY DEF Extends
<1> QED BY <1>1, <1>2 DEF Once

\* One row for the next stage continues that order.
LEMMA OnceMore ==
  ASSUME NEW S \in Seq(StageConfigs), DistinctIds(S), NEW n \in KnownIn(S), NEW events,
         NEW l \in Seq(AuditRows), NEW m \in Seq(AuditRows), Extends(l, m),
         Once(S, l, events, Upto(S, n - 1)),
         NEW p \in New(l, m), m[p].event \in events, m[p].stage = S[n].id,
         \A i \in New(l, m) \ {p} : m[i].event \notin events
  PROVE  Once(S, m, events, Upto(S, n))
<1>0. n \in 1 .. Len(S)
  BY DEF KnownIn
<1>1. \A i \in DOMAIN m : m[i].event \in events => i = p \/ (i \in DOMAIN l /\ m[i] = l[i])
  BY DEF Extends, New
<1>2. \A i \in DOMAIN l : i \in DOMAIN m /\ m[i] = l[i] /\ i < p
  BY DEF Extends, New
<1>3. p \in DOMAIN m
  BY DEF Extends, New
<1>4. Upto(S, n) = Upto(S, n - 1) \cup {n} /\ \A k \in Upto(S, n - 1) : k \in DOMAIN S /\ k < n
  BY <1>0 DEF Upto, KnownIn
<1>5. \A i \in DOMAIN m : m[i].event \in events => \E k \in Upto(S, n) : m[i].stage = S[k].id
  BY <1>1, <1>4 DEF Once
<1>6. \A k \in Upto(S, n) : \E i \in DOMAIN m : m[i].event \in events /\ m[i].stage = S[k].id
  BY <1>2, <1>3, <1>4 DEF Once
<1>7. ASSUME NEW i \in DOMAIN m, NEW j \in DOMAIN m, i < j, m[i].event \in events,
             m[j].event \in events, NEW k \in DOMAIN S, NEW h \in DOMAIN S,
             m[i].stage = S[k].id, m[j].stage = S[h].id
      PROVE  k < h
  <2>1. i \in DOMAIN l /\ m[i] = l[i]
    BY <1>1, <1>2, <1>7
  <2>2. CASE j \in DOMAIN l
    <3>1. m[j] = l[j]
      BY <1>2, <2>2
    <3>2. /\ l[i].event \in events /\ l[j].event \in events
          /\ l[i].stage = S[k].id /\ l[j].stage = S[h].id
      BY <1>7, <2>1, <3>1
    <3> QED BY <1>7, <2>1, <2>2, <3>2 DEF Once
  <2>3. CASE j = p
    <3>1. PICK o \in Upto(S, n - 1) : l[i].stage = S[o].id
      BY <1>7, <2>1 DEF Once
    <3>2. o = k /\ h = n
      BY <1>0, <1>4, <1>7, <2>1, <2>3, <3>1 DEF DistinctIds
    <3> QED BY <1>4, <3>2
  <2> QED BY <1>1, <1>7, <2>2, <2>3
<1> QED BY <1>5, <1>6, <1>7 DEF Once

\* The calls in the log stay those of stages reached.
LEMMA CallsKept ==
  ASSUME NEW S, NEW n \in Int, NEW h \in Int, n <= h, NEW l \in Seq(AuditRows), NEW m \in Seq(AuditRows),
         KnownIn(S) \subseteq Int, Extends(l, m), CallsUpto(S, l, n),
         \A i \in New(l, m) : m[i].event \in CallEvents =>
           \E k \in Upto(S, h) : m[i].stage = S[k].id
  PROVE  CallsUpto(S, m, h)
<1>1. Upto(S, n) \subseteq Upto(S, h)
  BY DEF Upto
<1>2. \A i \in DOMAIN m : i \in New(l, m) \/ (i \in DOMAIN l /\ m[i] = l[i])
  BY DEF Extends, New
<1> QED BY <1>1, <1>2 DEF CallsUpto

\* Rows that are not of calls leave the accounts as they are.
LEMMA AccountedKept ==
  ASSUME NEW S, NEW l \in Seq(AuditRows), NEW m \in Seq(AuditRows),
         Extends(l, m), Accounted(S, l), \A i \in New(l, m) : m[i].event \notin CallEvents
  PROVE  Accounted(S, m)
<1>1. \A i \in DOMAIN m : m[i].event \in CallEvents => i \in DOMAIN l /\ m[i] = l[i]
  BY DEF Extends, New
<1>2. \A i \in DOMAIN l : i \in DOMAIN m /\ m[i] = l[i]
  BY DEF Extends
<1>3. ASSUME NEW i \in DOMAIN m, m[i].event \in CallEnds
      PROVE  \E r \in 0 .. i - 1 : AccountedBy(S, m, i, r)
  <2>1. i \in DOMAIN l /\ m[i] = l[i]
    BY <1>1, <1>3 DEF CallEvents
  <2>2. PICK r \in 0 .. i - 1 : AccountedBy(S, l, i, r)
    BY <1>3, <2>1 DEF Accounted
  <2>3. \A j \in i - r .. i - 1 : j \in DOMAIN l /\ m[j] = l[j]
    BY <1>2, <2>1
  <2>4. \A j \in DOMAIN m : m[j].event = "EXT_DEP_ATTEMPT" => j \in DOMAIN l
    BY <1>1 DEF CallEvents
  <2>5. \A j \in DOMAIN m : m[j].event = "EXT_DEP_ATTEMPT" /\ m[j].stage = m[i].stage <=> j \in i - r .. i - 1
    BY <1>2, <2>1, <2>2, <2>3, <2>4 DEF AccountedBy
  <2> QED BY <2>1, <2>2, <2>3, <2>5 DEF AccountedBy
<1> QED BY <1>3 DEF Accounted

\* The rows of a call that ends account for it.
LEMMA AccountedMore ==
  ASSUME NEW S \in Seq(StageConfigs), DistinctIds(S), NEW n \in KnownIn(S),
         NEW l \in Seq(AuditRows), NEW m \in Seq(AuditRows), Extends(l, m),
         Accounted(S, l), CallsUpto(S, l, n - 1),
         NEW r \in Nat, NEW e, e = Len(l) + r + 1, e <= Len(m),
         \A i \in Len(l) + 1 .. e - 1 :
           m[i].event = "EXT_DEP_ATTEMPT" /\ m[i].stage = S[n].id /\ m[i].n = i - Len(l),
         m[e].event \in CallEnds, m[e].stage = S[n].id,
         m[e].n = r + 1 \/ (m[e].n = 0 /\ r = 0), m[e].n <= S[n].max_attempts,
         \A i \in e + 1 .. Len(m) : m[i].event \notin CallEvents
  PROVE  Accounted(S, m)
<1>0. n \in 1 .. Len(S) /\ e \in 1 .. Len(m) /\ Len(l) \in Nat /\ Len(m) \in Nat
  BY DEF KnownIn
<1>a. \A k \in DOMAIN S : S[k].id = S[n].id => k = n
  BY DEF DistinctIds, KnownIn
<1>1. \A i \in DOMAIN l : i \in DOMAIN m /\ m[i] = l[i]
  BY DEF Extends
<1>2. \A i \in DOMAIN m : i \in DOMAIN l \/ i \in Len(l) + 1 .. e - 1 \/ i = e \/ i \in e + 1 .. Len(m)
  BY <1>0
<1>3. \A i \in DOMAIN l : l[i].event \in CallEvents => l[i].stage # S[n].id
  <2>1. SUFFICES ASSUME NEW i \in DOMAIN l, l[i].event \in CallEvents, l[i].stage = S[n].id
                 PROVE  FALSE
    OBVIOUS
  <2>2. PICK k \in Upto(S, n - 1) : l[i].stage = S[k].id
    BY <2>1 DEF CallsUpto
  <2>3. k \in DOMAIN S /\ k <= n - 1
    BY DEF Upto, KnownIn
  <2>4. k = n
    BY <1>a, <2>1, <2>2, <2>3
  <2> QED BY <1>0, <2>3, <2>4
<1>4. "EXT_DEP_ATTEMPT" \in CallEvents /\ CallEnds \subseteq CallEvents /\ "EXT_DEP_ATTEMPT" \notin CallEnds
  BY DEF CallEvents, CallEnds
<1>5. ASSUME NEW i \in DOMAIN l, m[i].event \in CallEnds
      PROVE  \E q \in 0 .. i - 1 : AccountedBy(S, m, i, q)
  <2>1. m[i] = l[i] /\ l[i].stage # S[n].id
    BY <1>1, <1>3, <1>4, <1>5
  <2>2. PICK q \in 0 .. i - 1 : AccountedBy(S, l, i, q)
    BY <1>5, <2>1 DEF Accounted
  <2>3. \A j \in i - q .. i - 1 : j \in DOMAIN l /\ m[j] = l[j]
    BY <1>1
  <2>4. ASSUME NEW j \in DOMAIN m, m[j].event = "EXT_DEP_ATTEMPT", m[j].stage = m[i].stage
        PROVE  j \in DOMAIN l /\ m[j] = l[j]
    BY <1>1, <1>2, <1>4, <2>1, <2>4
  <2>5. \A j \in DOMAIN m : m[j].event = "EXT_DEP_ATTEMPT" /\ m[j].stage = m[i].stage <=> j \in i - q .. i - 1
    BY <1>1, <2>1, <2>2, <2>3, <2>4 DEF AccountedBy
  <2> QED BY <2>1, <2>2, <2>3, <2>5 DEF AccountedBy
<1>6. AccountedBy(S, m, e, r)
  <2>1. e - r = Len(l) + 1 /\ r \in 0 .. e - 1
    BY <1>0
  <2>2. \A k \in DOMAIN S : m[e].stage = S[k].id => m[e].n <= S[k].max_attempts
    BY <1>a
  <2>3. ASSUME NEW j \in DOMAIN m, m[j].event = "EXT_DEP_ATTEMPT", m[j].stage = m[e].stage
        PROVE  j \in Len(l) + 1 .. e - 1
    BY <1>1, <1>2, <1>3, <1>4, <2>3
  <2>4. \A j \in Len(l) + 1 .. e - 1 : j \in DOMAIN m /\ m[j].n = j + 1 - (Len(l) + 1)
    BY <1>0
  <2> QED BY <2>1, <2>2, <2>3, <2>4 DEF AccountedBy
<1>7. ASSUME NEW i \in DOMAIN m, m[i].event \in CallEnds PROVE i \in DOMAIN l \/ i = e
  BY <1>2, <1>4, <1>7
<1>9. r \in 0 .. e - 1
  BY <1>6 DEF AccountedBy
<1> QED BY <1>5, <1>6, <1>7, <1>9 DEF Accounted

\* Rows that hold nothing against an approval keep the log clean.
LEMMA CleanKept ==
  ASSUME NEW S, NEW l \in Seq(AuditRows), NEW m \in Seq(AuditRows), Extends(l, m),
         Clean(S, l), \A i \in New(l, m) : CleanRow(S, m[i])
  PROVE  Clean(S, m)
<1>1. \A i \in DOMAIN m : i \in New(l, m) \/ (i \in DOMAIN l /\ m[i] = l[i])
  BY DEF Extends, New
<1> QED BY <1>1 DEF Clean

\* A stage that starts after a clean log starts as it should.
LEMMA CleanStartsKept ==
  ASSUME NEW S, NEW l \in Seq(AuditRows), NEW m \in Seq(AuditRows), Extends(l, m), Clean(S, l),
         \A i \in New(l, m) : i = Len(l) + 1 \/ m[i].event \notin Starting
  PROVE  CleanStarts(S, m)
<1> SUFFICES ASSUME NEW i \in DOMAIN m, NEW j \in DOMAIN m, m[i].event \in Starting, j < i
             PROVE  CleanRow(S, m[j])
  BY DEF CleanStarts
<1>1. i <= Len(l) + 1
  BY DEF New
<1>2. j \in DOMAIN l /\ m[j] = l[j]
  BY <1>1 DEF Extends
<1> QED BY <1>2 DEF Clean

\* Rows of neither kind leave the pairs alone.
LEMMA PairedKept ==
  ASSUME NEW l \in Seq(AuditRows), NEW m \in Seq(AuditRows), Extends(l, m), Paired(l),
         \A i \in New(l, m) : m[i].event \notin {"EXT_DEP_FAILURE", "STAGE_FAILED"}
  PROVE  Paired(m)
<1>1. \A i \in DOMAIN m : i \in New(l, m) \/ (i \in DOMAIN l /\ m[i] = l[i])
  BY DEF Extends, New
<1>2. \A i \in DOMAIN l : i \in DOMAIN m /\ m[i] = l[i]
  BY DEF Extends
<1> QED BY <1>1, <1>2 DEF Paired

\* A call that fails adds a pair.
LEMMA PairedMore ==
  ASSUME NEW l \in Seq(AuditRows), NEW m \in Seq(AuditRows), Extends(l, m), Paired(l),
         NEW e \in New(l, m), e + 1 = Len(m),
         m[e].event = "EXT_DEP_FAILURE", m[e + 1].event = "STAGE_FAILED",
         \A i \in New(l, m) \ {e, e + 1} : m[i].event \notin {"EXT_DEP_FAILURE", "STAGE_FAILED"}
  PROVE  Paired(m)
<1>0. e \in DOMAIN m /\ e + 1 \in DOMAIN m /\ e \in Nat /\ (e + 1) - 1 = e
  BY DEF New
<1>1. \A i \in DOMAIN m : i \in New(l, m) \/ (i \in DOMAIN l /\ m[i] = l[i])
  BY DEF Extends, New
<1>2. \A i \in DOMAIN l : i \in DOMAIN m /\ m[i] = l[i]
  BY DEF Extends
<1>3. ASSUME NEW i \in DOMAIN m
      PROVE  /\ m[i].event = "EXT_DEP_FAILURE" => i + 1 \in DOMAIN m /\ m[i + 1].event = "STAGE_FAILED"
             /\ m[i].event = "STAGE_FAILED" => i - 1 \in DOMAIN m /\ m[i - 1].event = "EXT_DEP_FAILURE"
  <2>1. CASE i \in DOMAIN l
    BY <1>1, <1>2, <2>1 DEF Paired
  <2>2. CASE i = e
    BY <1>0, <2>2
  <2>3. CASE i = e + 1
    BY <1>0, <2>3
  <2> QED BY <1>1, <2>1, <2>2, <2>3
<1> QED BY <1>3 DEF Paired
-----------------------------------------------------------------------------
\* What the loader takes on trust of the stages (see IdsAssumption).
Proper(S) ==
  /\ S \in Seq(StageConfigs) /\ DistinctIds(S)
  /\ \A k \in DOMAIN S : S[k].id # "__input_validation__"

\* A clean log replays to an approval.
LEMMA CleanFinds ==
  ASSUME NEW S, Proper(S), NEW l, Clean(S, l)
  PROVE  /\ ~HasBroken(l) /\ ~HasInvalid(l) /\ ~HasHard(l) /\ ~HasFailed(l)
         /\ ~HasCallFailure(S, l, {"manual_review"}) /\ ~HasCallFailure(S, l, OtherPolicies)
<1>1. ASSUME NEW i \in DOMAIN l, l[i].event = "STAGE_FAILED"
      PROVE  l[i].result # "ERROR" /\ l[i].stage # "__input_validation__"
  BY <1>1 DEF Clean, CleanRow, KnownIn, Proper
<1>2. ASSUME NEW i \in DOMAIN l, l[i].event = "RULE_EVALUATED" PROVE l[i].result = "PASS"
  BY <1>2 DEF Clean, CleanRow
<1>3. ASSUME NEW i \in DOMAIN l, l[i].event = "EXT_DEP_FAILURE",
             NEW k \in DOMAIN S, l[i].stage = S[k].id
      PROVE  S[k].on_failure = "continue"
  <2>1. PICK h \in DOMAIN S : l[i].stage = S[h].id /\ S[h].on_failure = "continue"
    BY <1>3 DEF Clean, CleanRow, KnownIn
  <2>2. h = k
    BY <1>3, <2>1 DEF Proper, DistinctIds
  <2> QED BY <2>1, <2>2
<1> QED BY <1>1, <1>2, <1>3
        DEF HasBroken, HasInvalid, HasHard, HardRule, HasFailed, HasCallFailure, OtherPolicies

\* Nor does a rule fail in it.
LEMMA CleanFailsNever ==
  ASSUME NEW S, NEW l, Clean(S, l)
  PROVE  \A i \in DOMAIN l : ~FailedRule(l[i])
BY DEF Clean, CleanRow, FailedRule

\* An approval is what the log of a loop that ran to its end calls for.
LEMMA ApprovingOutcome ==
  ASSUME NEW S, Proper(S), NEW l \in Seq(AuditRows), Approving(S, l, Len(S), Len(S))
  PROVE  Outcome(S, l, "APPROVED")
<1>1. ReplayOf(S, l) = "APPROVED"
  BY CleanFinds DEF ReplayOf, Approving
<1>2. CleanStarts(S, l)
  BY DEF Approving, Clean, CleanStarts
<1>3. FailsOnce(l)
  BY CleanFailsNever DEF Approving, FailsOnce
<1>4. Len(S) \in 0 .. Len(S)
  BY DEF Proper
<1> QED BY <1>1, <1>2, <1>3, <1>4 DEF Outcome, Approving

\* What is appended comes after what is there.
LEMMA Appended ==
  ASSUME NEW l \in Seq(AuditRows), NEW s \in Seq(AuditRows)
  PROVE  /\ Extends(l, l \o s) /\ Len(l \o s) = Len(l) + Len(s) /\ l \o s \in Seq(AuditRows)
         /\ \A i \in 1 .. Len(s) : (l \o s)[Len(l) + i] = s[i]
BY ConcatProperties DEF Extends

\* Nothing is found in a longer log but in the old rows or the new.
LEMMA Found ==
  ASSUME NEW l \in Seq(AuditRows), NEW m \in Seq(AuditRows), Extends(l, m)
  PROVE  /\ \A i \in DOMAIN m : i \in New(l, m) \/ (i \in DOMAIN l /\ m[i] = l[i])
         /\ \A i \in DOMAIN l : i \in DOMAIN m /\ m[i] = l[i]
         /\ New(l, m) \subseteq DOMAIN m
BY DEF Extends, New

\* The two rows of _finalise settle nothing anew (orchestrator.py:503-513,
\* 583-584).
LEMMA ConcludedOutcome ==
  ASSUME NEW S, Proper(S), NEW l \in Seq(AuditRows), NEW m \in Seq(AuditRows), NEW status,
         Outcome(S, l, status), Extends(l, m),
         \A i \in New(l, m) : /\ m[i].event \in {"STATUS_TRANSITION", "EXECUTION_FINAL"}
                              /\ m[i].result \notin {"FAIL", "ERROR", "SOFT_FAIL"}
  PROVE  Outcome(S, m, status)
<1>1. \A i \in New(l, m) :
        /\ m[i].event \notin CallEvents /\ m[i].event \notin Starting /\ m[i].event \notin Ending
        /\ m[i].event \notin {"EXT_DEP_FAILURE", "STAGE_FAILED", "RULE_EVALUATED", "EXECUTION_CREATED"}
        /\ CleanRow(S, m[i])
  BY DEF CallEvents, CallEnds, Starting, Ending, CleanRow
<1>2. /\ Created(m) <=> Created(l)
      /\ HasBroken(m) <=> HasBroken(l)
      /\ HasInvalid(m) <=> HasInvalid(l)
      /\ HasHard(m) <=> HasHard(l)
      /\ HasFailed(m) <=> HasFailed(l)
  BY <1>1, Found DEF Created, HasBroken, HasInvalid, HasHard, HasFailed
<1>3. \A policy : HasCallFailure(S, m, policy) <=> HasCallFailure(S, l, policy)
  BY <1>1, Found DEF HasCallFailure
<1>4. status = ReplayOf(S, m)
  BY <1>2, <1>3 DEF Outcome, ReplayOf
<1>5. ASSUME NEW n \in Int, CallsUpto(S, l, n) PROVE CallsUpto(S, m, n)
  BY <1>1, <1>5, Found DEF CallsUpto
<1>6. Accounted(S, m)
  BY <1>1, AccountedKept DEF Outcome
<1>7. CleanStarts(S, m)
  <2>1. \A i, j \in DOMAIN m : m[i].event \in Starting /\ j < i =>
          i \in DOMAIN l /\ m[i] = l[i] /\ j \in DOMAIN l /\ m[j] = l[j]
    BY <1>1 DEF Extends, New
  <2> QED BY <2>1 DEF Outcome, CleanStarts
<1>8. FailsOnce(m)
  BY <1>1, Found DEF Outcome, FailsOnce, FailedRule
<1>9. ASSUME NEW n, NEW events \in {Starting, Ending}, Once(S, l, events, Upto(S, n))
      PROVE  Once(S, m, events, Upto(S, n))
  BY <1>1, <1>9, OnceKept
<1>10. ASSUME Approving(S, l, Len(S), Len(S)) PROVE Approving(S, m, Len(S), Len(S))
  <2>1. Clean(S, m)
    BY <1>1, <1>10, CleanKept DEF Approving
  <2>2. Paired(m)
    BY <1>1, <1>10, PairedKept DEF Approving
  <2>3. Len(S) \in Int
    BY DEF Proper
  <2> QED BY <1>2, <1>5, <1>6, <1>9, <1>10, <2>1, <2>2, <2>3 DEF Approving
<1>11. Len(S) \in Int
  BY DEF Proper
<1> QED BY <1>4, <1>5, <1>6, <1>7, <1>8, <1>9, <1>10, <1>11 DEF Outcome
-----------------------------------------------------------------------------
\* What the steps of a stage find.
LEMMA AtStage ==
  ASSUME Inv, pc \in {"stage", "calling"}
  PROVE  /\ Proper(Stages) /\ Stages \in Seq(StageConfigs) /\ DistinctIds(Stages)
         /\ at \in 1 .. Len(Stages) /\ at \in DOMAIN Stages /\ Len(Stages) \in Nat
         /\ Stage = Stages[at] /\ Stage \in StageConfigs
         /\ log \in Seq(AuditRows) /\ stored = None
<1>1. workflow \in DOMAIN Workflows
  BY DEF Inv, Types
<1>2. Stages \in Seq(StageConfigs)
  BY <1>1, WorkflowsAssumption DEF Stages
<1>3. Proper(Stages)
  BY <1>1, <1>2, IdsAssumption DEF Proper, DistinctIds, Stages
<1>4. at \in DOMAIN Stages
  BY DEF Inv, Position
<1>5. Stage = Stages[at] /\ Stage \in StageConfigs
  BY <1>2, <1>4 DEF Stage
<1> QED BY <1>2, <1>3, <1>4, <1>5 DEF Proper, Inv, Types, Progress, Active

\* The stages never change.
LEMMA SameStages == UNCHANGED workflow => Stages' = Stages
BY DEF Stages

\* A stage that lets the loop go on ends with an approving log.
LEMMA Continues ==
  ASSUME Inv, LogInv, pc \in {"stage", "calling"}, Inv',
         Approving(Stages, log', at, at), Route("continue"), UNCHANGED <<workflow, stored>>
  PROVE  LogInv'
<1>1. Stages' = Stages /\ stored' = None /\ Proper(Stages) /\ at \in 1 .. Len(Stages)
  BY SameStages, AtStage
<1>2. log' \in Seq(AuditRows)
  BY DEF Inv, Types
<1>3. CASE at < Len(Stages)
  <2>1. at' = at + 1 /\ pc' = "stage" /\ routing' = "continue"
    BY <1>3 DEF Route, LogInv
  <2>2. at' - 1 = at
    BY <1>1, <2>1
  <2> QED BY <1>1, <2>1, <2>2 DEF LogInv
<1>4. CASE ~(at < Len(Stages))
  <2>1. routing' = "continue" /\ pc' = "final" /\ at = Len(Stages)
    BY <1>1, <1>4 DEF Route
  <2>2. Outcome(Stages, log', "APPROVED")
    BY <1>1, <1>2, <2>1, ApprovingOutcome
  <2> QED BY <1>1, <2>1, <2>2 DEF LogInv, FinalStatus
<1> QED BY <1>3, <1>4

\* A stage that decides otherwise leaves the loop.
LEMMA Leaves ==
  ASSUME Inv, pc \in {"stage", "calling"}, NEW route,
         Outcome(Stages, log', FinalStatus(route)), pc' = "final", routing' = route,
         UNCHANGED <<workflow, stored>>
  PROVE  LogInv'
<1>1. Stages' = Stages /\ stored' = None
  BY SameStages, AtStage
<1>2. FinalStatus(route)' = FinalStatus(routing')
  BY DEF FinalStatus
<1> QED BY <1>1, <1>2 DEF LogInv, FinalStatus

\* The trace is that of the whole log, which _finalise only adds its row to.
LEMMA Concludes ==
  ASSUME NEW S, Proper(S), NEW l \in Seq(AuditRows), NEW status \in Terminal,
         row \in ExecutionRows, Conclude(l, status), Outcome(S, l, status)
  PROVE  Settled(S, row', log')
<1> DEFINE told == Append(l, Transition(status))
           last == Row("EXECUTION_FINAL", None, status)
<1>1. status \in Texts /\ None \in Texts /\ {"STATUS_TRANSITION", "EXECUTION_FINAL"} \subseteq Events
  BY DEF Terminal, Status, Texts, Optional, Events
<1>2. Transition(status) \in AuditRows /\ last \in AuditRows
  BY <1>1, RowType DEF Transition
<1>3. /\ told \in Seq(AuditRows) /\ Len(told) = Len(l) + 1
      /\ \A i \in 1 .. Len(l) : told[i] = l[i]
      /\ told[Len(l) + 1] = Transition(status)
  BY <1>2, AppendProperties
<1>4. log' = Append(told, last)
  BY DEF Conclude
<1>5. /\ row'.status = status /\ row'.trace = Trace(told, status)
  BY DEF Conclude, ExecutionRows
<1> HIDE DEF told
<1>6. /\ log' \in Seq(AuditRows) /\ Len(log') = Len(l) + 2
      /\ \A i \in 1 .. Len(l) + 1 : log'[i] = told[i]
      /\ log'[Len(l) + 2] = last
  BY <1>2, <1>3, <1>4, AppendProperties
<1>7. Extends(l, log')
  BY <1>3, <1>6 DEF Extends
<1>8. \A i \in New(l, log') :
        log'[i].event \in {"STATUS_TRANSITION", "EXECUTION_FINAL"} /\ log'[i].result = status
  <2>1. \A i \in New(l, log') : i = Len(l) + 1 \/ i = Len(l) + 2
    BY <1>6 DEF New
  <2> QED BY <1>3, <1>6, <2>1 DEF Transition, Row
<1>9. status \notin {"FAIL", "ERROR", "SOFT_FAIL"}
  BY DEF Terminal
<1>10. Outcome(S, log', status)
  BY <1>6, <1>7, <1>8, <1>9, ConcludedOutcome
<1>11. Trace(log', status) = Trace(told, status)
  <2>1. \A i \in DOMAIN log' : (i \in DOMAIN told /\ log'[i] = told[i]) \/ log'[i].event = "EXECUTION_FINAL"
    <3>1. \A i \in DOMAIN log' : i \in DOMAIN told \/ i = Len(l) + 2
      BY <1>3, <1>6
    <3>2. \A i \in DOMAIN told : log'[i] = told[i]
      BY <1>3, <1>6
    <3> QED BY <1>6, <3>1, <3>2 DEF Row
  <2>2. \A i \in DOMAIN told : i \in DOMAIN log' /\ log'[i] = told[i]
    BY <1>3, <1>6
  <2>3. ASSUME NEW event, event # "EXECUTION_FINAL", NEW results
        PROVE  CountOf(log', event, results) = CountOf(told, event, results)
    <3>1. {i \in DOMAIN log' : log'[i].event = event /\ log'[i].result \in results}
            = {i \in DOMAIN told : told[i].event = event /\ told[i].result \in results}
      BY <2>1, <2>2, <2>3
    <3> QED BY <3>1 DEF CountOf
  <2>4. /\ MandatoryFailures(log') = MandatoryFailures(told)
        /\ SoftFailures(log') = SoftFailures(told)
        /\ ForcedReviews(log') = ForcedReviews(told)
    BY <2>1, <2>2 DEF MandatoryFailures, SoftFailures, ForcedReviews, RulesOf
  <2> QED BY <2>3, <2>4 DEF Trace
<1> QED BY <1>5, <1>10, <1>11 DEF Settled

\* The log before the first stage.
LEMMA OpeningLog ==
  ASSUME Inv, LogInv, Start \/ ConfigMissing \/ InputInvalid \/ InputValid, Inv'
  PROVE  LogInv'
<1>1. Stages' = Stages /\ Stages \in Seq(StageConfigs) /\ stored = None /\ stored' = None
  BY SameStages, WorkflowsAssumption
     DEF Start, ConfigMissing, InputInvalid, InputValid, Inv, Types, Progress, Active, Stages
<1>2. Proper(Stages) /\ Len(Stages) \in Nat
  BY <1>1, IdsAssumption DEF Proper, DistinctIds, Stages, Inv, Types
<1>3. log' \in Seq(AuditRows) /\ log \in Seq(AuditRows)
  BY DEF Inv, Types
<1>4. Upto(Stages, 0) = {}
  BY <1>1 DEF Upto, KnownIn
<1>5. CASE Start
  BY <1>1, <1>5 DEF Start, LogInv
<1>6. CASE ConfigMissing
  <2>1. log' = <<Transition("FAILED")>> /\ row'.status = "FAILED" /\ row'.trace = None
    BY <1>6 DEF ConfigMissing, LogInv, Inv, Types, ExecutionRows
  <2>2. Len(log') = 1 /\ \A i \in DOMAIN log' : log'[i].event = "STATUS_TRANSITION"
    BY <2>1 DEF Transition, Row
  <2>3. ReplayOf(Stages, log') = "FAILED"
    BY <2>2 DEF ReplayOf, Created
  <2>4. /\ CallsUpto(Stages, log', Len(Stages)) /\ Accounted(Stages, log')
        /\ CleanStarts(Stages, log') /\ FailsOnce(log')
        /\ Once(Stages, log', Starting, Upto(Stages, 0))
    BY <1>4, <2>2 DEF CallsUpto, Accounted, CleanStarts, FailsOnce, FailedRule, Once,
                      CallEvents, CallEnds, Starting
  <2>5. Settled(Stages, row', log')
    BY <1>2, <2>1, <2>3, <2>4 DEF Settled, Outcome
  <2> QED BY <1>1, <1>6, <2>5 DEF ConfigMissing, LogInv
<1>7. CASE InputInvalid
  <2> DEFINE failed == Row("STAGE_FAILED", "__input_validation__", "FAIL")
             l == Append(log, failed)
  <2>1. /\ log = <<Transition("RUNNING"), Row("EXECUTION_CREATED", None, None)>>
        /\ Conclude(l, "REJECTED") /\ pc' = "commit"
    BY <1>7 DEF InputInvalid, LogInv
  <2>2. "STAGE_FAILED" \in Events /\ {"__input_validation__", "FAIL"} \subseteq Texts
    BY DEF Events, Texts
  <2>3. failed \in AuditRows
    BY <2>2, RowType
  <2>4. Len(log) = 2 /\ log[1] = Transition("RUNNING") /\ log[2] = Row("EXECUTION_CREATED", None, None)
    BY <2>1
  <2>b. /\ l \in Seq(AuditRows) /\ Len(l) = Len(log) + 1
        /\ \A i \in 1 .. Len(log) : l[i] = log[i]
        /\ l[Len(log) + 1] = failed
    BY <1>3, <2>3, AppendProperties
  <2> HIDE DEF l
  <2>a. /\ l \in Seq(AuditRows) /\ Len(l) = 3
        /\ l[1] = Transition("RUNNING") /\ l[2] = Row("EXECUTION_CREATED", None, None)
        /\ l[3] = failed
    BY <2>4, <2>b
  <2>5. /\ DOMAIN l = 1 .. 3
        /\ l[1].event = "STATUS_TRANSITION" /\ l[2].event = "EXECUTION_CREATED"
        /\ l[3].event = "STAGE_FAILED" /\ l[3].result = "FAIL" /\ l[3].stage = "__input_validation__"
    BY <2>a DEF Transition, Row
  <2>6. \A i \in DOMAIN l : i = 1 \/ i = 2 \/ i = 3
    BY <2>5
  <2>7. ReplayOf(Stages, l) = "REJECTED"
    BY <2>5, <2>6 DEF ReplayOf, Created, HasBroken, HasInvalid
  <2>8. /\ CallsUpto(Stages, l, Len(Stages)) /\ Accounted(Stages, l)
        /\ CleanStarts(Stages, l) /\ FailsOnce(l)
        /\ Once(Stages, l, Starting, Upto(Stages, 0))
    BY <1>4, <2>5, <2>6 DEF CallsUpto, Accounted, CleanStarts, FailsOnce, FailedRule, Once,
                            CallEvents, CallEnds, Starting
  <2>9. Outcome(Stages, l, "REJECTED")
    BY <1>2, <2>7, <2>8 DEF Outcome
  <2>10. Settled(Stages, row', log')
    BY <1>2, <2>1, <2>a, <2>9, Concludes DEF Terminal, Inv, Types
  <2> QED BY <1>1, <2>1, <2>10 DEF LogInv
<1>8. CASE InputValid
  <2>1. /\ log = <<Transition("RUNNING"), Row("EXECUTION_CREATED", None, None)>>
        /\ log' = log /\ at = 1 /\ at' = 1 /\ routing = "continue" /\ routing' = "continue"
    BY <1>8 DEF InputValid, LogInv
  <2>2. /\ DOMAIN log = 1 .. 2
        /\ log[1].event = "STATUS_TRANSITION" /\ log[2].event = "EXECUTION_CREATED"
        /\ log[1].result = "RUNNING" /\ log[2].result = None
    BY <2>1 DEF Transition, Row
  <2>3. \A i \in DOMAIN log : i = 1 \/ i = 2
    BY <2>2
  <2>4. None \notin {"FAIL", "ERROR", "SOFT_FAIL"}
    BY WorkflowsAssumption
  <2>5. /\ Created(log) /\ Clean(Stages, log) /\ Paired(log)
        /\ CallsUpto(Stages, log, 0) /\ Accounted(Stages, log)
    BY <2>2, <2>3, <2>4
       DEF Created, Clean, CleanRow, Paired, CallsUpto, Accounted, CallEvents, CallEnds
  <2>6. /\ Once(Stages, log, Starting, Upto(Stages, 0))
        /\ Once(Stages, log, Ending, Upto(Stages, 0))
    BY <1>4, <2>2, <2>3 DEF Once, Starting, Ending
  <2>7. Approving(Stages, log, 0, 0)
    BY <2>5, <2>6 DEF Approving
  <2>8. CASE Stages = <<>>
    <3>1. pc' = "final" /\ Len(Stages) = 0
      BY <1>8, <2>8 DEF InputValid
    <3>2. Outcome(Stages, log, "APPROVED")
      BY <1>2, <1>3, <2>7, <3>1, ApprovingOutcome
    <3> QED BY <1>1, <2>1, <3>1, <3>2 DEF LogInv, FinalStatus
  <2>9. CASE Stages # <<>>
    <3>1. pc' = "stage" /\ at' - 1 = 0
      BY <1>8, <2>1, <2>9 DEF InputValid
    <3> QED BY <1>1, <2>1, <2>7, <3>1 DEF LogInv
  <2> QED BY <2>8, <2>9
<1> QED BY <1>5, <1>6, <1>7, <1>8
-----------------------------------------------------------------------------
\* What the end of a stage leaves as it is: the stages that have started and
\* called are those up to it.
LEMMA StageEnded ==
  ASSUME NEW S, Proper(S), NEW n \in KnownIn(S), NEW l \in Seq(AuditRows), NEW m \in Seq(AuditRows),
         Approving(S, l, n, n - 1), Extends(l, m),
         \A i \in New(l, m) : /\ m[i].event \notin Starting
                              /\ m[i].event \in CallEvents => m[i].stage = S[n].id
  PROVE  /\ n \in 0 .. Len(S) /\ n \in Int /\ n - 1 \in Int
         /\ CallsUpto(S, m, n) /\ CallsUpto(S, m, Len(S))
         /\ Created(m) /\ CleanStarts(S, m)
         /\ Once(S, m, Starting, Upto(S, n))
<1>1. n \in 0 .. Len(S) /\ Len(S) \in Int /\ KnownIn(S) \subseteq Int /\ n - 1 \in Int
  BY DEF Proper, KnownIn
<1>5. ASSUME NEW h \in Int, n <= h PROVE CallsUpto(S, m, h)
  <2>1. n \in Upto(S, h) /\ n - 1 <= h
    BY <1>1, <1>5 DEF Upto
  <2>2. CallsUpto(S, l, n - 1)
    BY DEF Approving
  <2> QED BY <1>1, <2>1, <2>2, CallsKept
<1>2. Created(m)
  BY Found DEF Approving, Created
<1>3. CleanStarts(S, m)
  BY CleanStartsKept DEF Approving
<1>4. Once(S, m, Starting, Upto(S, n))
  BY OnceKept DEF Approving
<1> QED BY <1>1, <1>2, <1>3, <1>4, <1>5

\* An exception in a stage makes the execution FAILED (orchestrator.py:569-580).
LEMMA RaisedOutcome ==
  ASSUME NEW S, Proper(S), NEW n \in KnownIn(S), NEW l \in Seq(AuditRows), NEW m \in Seq(AuditRows),
         Approving(S, l, n, n - 1), m = Append(l, Row("STAGE_FAILED", S[n].id, "ERROR")),
         Row("STAGE_FAILED", S[n].id, "ERROR") \in AuditRows
  PROVE  Outcome(S, m, "FAILED")
<1>1. /\ Len(m) = Len(l) + 1 /\ m[Len(l) + 1] = Row("STAGE_FAILED", S[n].id, "ERROR")
      /\ Extends(l, m)
  BY AppendProperties DEF Extends
<1>2. New(l, m) = {Len(l) + 1}
  BY <1>1 DEF New
<1>3. m[Len(l) + 1].event = "STAGE_FAILED" /\ m[Len(l) + 1].result = "ERROR"
  BY <1>1 DEF Row
<1>4. \A i \in New(l, m) :
        /\ m[i].event \notin CallEvents /\ m[i].event \notin Starting
        /\ m[i].event # "RULE_EVALUATED"
  BY <1>2, <1>3 DEF CallEvents, CallEnds, Starting
<1>5. HasBroken(m)
  BY <1>1, <1>2, <1>3, Found DEF HasBroken
<1>6. /\ CallsUpto(S, m, Len(S)) /\ CleanStarts(S, m) /\ n \in 0 .. Len(S)
      /\ Once(S, m, Starting, Upto(S, n))
  BY <1>1, <1>4, StageEnded
<1>7. Accounted(S, m)
  BY <1>1, <1>4, AccountedKept DEF Approving
<1>8. FailsOnce(m)
  BY <1>1, <1>4, Found, CleanFailsNever DEF Approving, FailsOnce, FailedRule
<1> QED BY <1>5, <1>6, <1>7, <1>8 DEF Outcome, ReplayOf

\* A row says of its rule what decides: whether it passed, and if not, whether
\* that rejects or asks for a review; one of the two it does.
LEMMA RuleRowSays ==
  ASSUME NEW rule, rule.severity \in {"mandatory", "soft"}, NEW o, NEW id,
         NEW rr, rr = EvaluateRule(rule, o), NEW x, x = RuleRow(id, rr)
  PROVE  /\ x.event = "RULE_EVALUATED" /\ x.rule = rule.id
         /\ x.result = "PASS" <=> rr.passed
         /\ HardRule(x) <=> TriggersHardReject(rr)
         /\ rr.passed => ~TriggersHardReject(rr) /\ ~TriggersManualReview(rr)
         /\ rr.passed \/ TriggersHardReject(rr) \/ TriggersManualReview(rr)
<1>1. /\ rr.rule = rule.id /\ (rr.passed <=> o = "pass") /\ (rr.error <=> o = "error")
      /\ rr.severity \in {"mandatory", "soft"}
  BY DEF EvaluateRule
<1>2. /\ x.event = "RULE_EVALUATED" /\ x.rule = rr.rule /\ x.result = ResultLabel(rr)
      /\ x.severity = rr.severity /\ x.action = rr.action
  BY DEF RuleRow, Row
<1>3. x.result = "PASS" <=> rr.passed
  BY <1>1, <1>2 DEF ResultLabel
<1> QED BY <1>1, <1>2, <1>3 DEF HardRule, TriggersHardReject, TriggersManualReview

\* What a rule stage with some verdict adds to the log: rows of different
\* rules, of which the verdict is a summary, and the row of the verdict.
RuleSegment(l, m, id, verdict) ==
  LET evaluated == New(l, m) \ {Len(m)}
      last == m[Len(m)]
  IN  /\ Extends(l, m) /\ Len(m) \in New(l, m) /\ last.stage = id
      /\ \A i \in evaluated : m[i].event = "RULE_EVALUATED"
      /\ \A i, j \in evaluated : m[i].rule = m[j].rule => i = j
      /\ \/ /\ verdict = "reject" /\ last.event = "STAGE_FAILED" /\ last.result = "FAIL"
            /\ \E i \in evaluated : HardRule(m[i])
         \/ /\ verdict = "manual_review" /\ last.event = "STAGE_COMPLETED" /\ last.result = "SOFT_FAIL"
            /\ \A i \in evaluated : ~HardRule(m[i])
            /\ \E i \in evaluated : m[i].result # "PASS"
         \/ /\ verdict = "continue" /\ last.event = "STAGE_COMPLETED" /\ last.result = "PASS"
            /\ \A i \in evaluated : m[i].result = "PASS"

\* The rows of a rule stage call for what its verdict says
\* (orchestrator.py:176-233).
LEMMA RulesOutcome ==
  ASSUME NEW S, Proper(S), NEW n \in KnownIn(S), NEW l \in Seq(AuditRows), NEW m \in Seq(AuditRows),
         Approving(S, l, n, n - 1), NEW verdict, RuleSegment(l, m, S[n].id, verdict)
  PROVE  /\ verdict = "continue" => Approving(S, m, n, n)
         /\ verdict # "continue" => Outcome(S, m, FinalStatus(verdict))
<1> DEFINE evaluated == New(l, m) \ {Len(m)}
<1>1. /\ Extends(l, m) /\ Len(m) \in New(l, m) /\ m[Len(m)].stage = S[n].id
      /\ m[Len(m)].event \in Ending
      /\ \A i \in evaluated : m[i].event = "RULE_EVALUATED"
  BY DEF RuleSegment, Ending
<1>2. \A i \in New(l, m) :
        /\ m[i].event \notin Starting /\ m[i].event \notin CallEvents
        /\ i # Len(m) => m[i].event \notin Ending
  BY <1>1 DEF Starting, CallEvents, CallEnds, Ending
<1>3. /\ n \in 0 .. Len(S) /\ CallsUpto(S, m, n) /\ CallsUpto(S, m, Len(S)) /\ Created(m)
      /\ CleanStarts(S, m) /\ Once(S, m, Starting, Upto(S, n))
  BY <1>1, <1>2, StageEnded
<1>4. Accounted(S, m)
  BY <1>1, <1>2, AccountedKept DEF Approving
<1>5. Once(S, m, Ending, Upto(S, n))
  <2>1. S \in Seq(StageConfigs) /\ DistinctIds(S) /\ Once(S, l, Ending, Upto(S, n - 1))
    BY DEF Proper, Approving
  <2>2. \A i \in New(l, m) \ {Len(m)} : m[i].event \notin Ending
    BY <1>2
  <2> QED BY <1>1, <2>1, <2>2, OnceMore
<1>6. /\ ~HasBroken(l) /\ ~HasInvalid(l) /\ ~HasHard(l) /\ \A i \in DOMAIN l : ~FailedRule(l[i])
      /\ Clean(S, l) /\ Paired(l)
  BY CleanFinds, CleanFailsNever DEF Approving
<1>7. \A i \in DOMAIN m : i \in evaluated \/ i = Len(m) \/ (i \in DOMAIN l /\ m[i] = l[i])
  BY <1>1, Found
<1>8. New(l, m) \subseteq DOMAIN m /\ Len(m) \in DOMAIN m
  BY <1>1, Found
<1>9. m[Len(m)].result # "ERROR" /\ m[Len(m)].event # "RULE_EVALUATED"
  BY DEF RuleSegment
<1>10. ~HasBroken(m)
  BY <1>1, <1>6, <1>7, <1>9 DEF HasBroken
<1>11. FailsOnce(m)
  <2>1. \A i \in DOMAIN m : FailedRule(m[i]) => i \in evaluated
    BY <1>6, <1>7, <1>9 DEF FailedRule
  <2>2. \A i, j \in evaluated : m[i].rule = m[j].rule => i = j
    BY DEF RuleSegment
  <2> QED BY <2>1, <2>2 DEF FailsOnce
<1>12. CASE verdict = "continue"
  <2>1. \A i \in New(l, m) : m[i].event \in {"RULE_EVALUATED", "STAGE_COMPLETED"} /\ m[i].result = "PASS"
    BY <1>1, <1>12 DEF RuleSegment
  <2>2. Clean(S, m)
    BY <1>1, <1>6, <2>1, CleanKept DEF CleanRow
  <2>3. Paired(m)
    BY <1>1, <1>6, <2>1, PairedKept
  <2> QED BY <1>3, <1>4, <1>5, <1>12, <2>2, <2>3 DEF Approving
<1>13. CASE verdict = "reject"
  <2>1. HasHard(m)
    BY <1>1, <1>8, <1>13 DEF RuleSegment, HasHard
  <2>2. FinalStatus(verdict) = "REJECTED" /\ ReplayOf(S, m) = "REJECTED"
    BY <1>3, <1>10, <1>13, <2>1 DEF FinalStatus, ReplayOf
  <2> QED BY <1>3, <1>4, <1>11, <1>13, <2>2 DEF Outcome
<1>14. CASE verdict = "manual_review"
  <2>1. /\ m[Len(m)].event = "STAGE_COMPLETED" /\ \A i \in evaluated : ~HardRule(m[i])
        /\ \E i \in evaluated : m[i].result # "PASS"
    BY <1>14 DEF RuleSegment
  <2>2. HasFailed(m)
    BY <1>1, <1>8, <2>1 DEF HasFailed
  <2>3. ~HasHard(m)
    BY <1>6, <1>7, <1>9, <2>1 DEF HasHard
  <2>4. ~HasInvalid(m)
    BY <1>1, <1>6, <1>7, <2>1 DEF HasInvalid
  <2>5. FinalStatus(verdict) = "MANUAL_REVIEW" /\ ReplayOf(S, m) = "MANUAL_REVIEW"
    BY <1>3, <1>10, <1>14, <2>2, <2>3, <2>4 DEF FinalStatus, ReplayOf
  <2> QED BY <1>3, <1>4, <1>11, <1>14, <2>5 DEF Outcome
<1> QED BY <1>12, <1>13, <1>14 DEF RuleSegment

\* Where the rows are that a step appends before its last one.
LEMMA AppendedBefore ==
  ASSUME NEW l \in Seq(AuditRows), NEW s \in Seq(AuditRows), NEW last \in AuditRows
  PROVE  LET m == Append(l \o s, last)
         IN  /\ m \in Seq(AuditRows) /\ Extends(l, m) /\ Len(m) = Len(l) + Len(s) + 1
             /\ \A i \in 1 .. Len(s) : m[Len(l) + i] = s[i]
             /\ m[Len(m)] = last
<1>0. PICK m : m = Append(l \o s, last)
  OBVIOUS
<1>1. PICK o : o = l \o s
  OBVIOUS
<1>2. /\ Extends(l, o) /\ Len(o) = Len(l) + Len(s) /\ o \in Seq(AuditRows)
      /\ \A i \in 1 .. Len(s) : o[Len(l) + i] = s[i]
  BY <1>1, Appended
<1>3. /\ m \in Seq(AuditRows) /\ Len(m) = Len(o) + 1
      /\ \A i \in 1 .. Len(o) : m[i] = o[i]
      /\ m[Len(o) + 1] = last
  BY <1>0, <1>1, <1>2, AppendProperties
<1>4. Len(l) \in Nat /\ Len(s) \in Nat
  OBVIOUS
<1>5. Extends(l, m)
  BY <1>2, <1>3, <1>4 DEF Extends
<1>6. \A i \in 1 .. Len(s) : Len(l) + i \in 1 .. Len(o)
  BY <1>2, <1>4
<1>7. /\ Len(m) = Len(l) + Len(s) + 1 /\ m[Len(m)] = last
      /\ \A i \in 1 .. Len(s) : m[Len(l) + i] = s[i]
  BY <1>2, <1>3, <1>4, <1>6
<1> QED BY <1>0, <1>3, <1>5, <1>7

\* That is what _execute_rule_stage adds (orchestrator.py:198-233,
\* rules_engine.py:74-91).
LEMMA RuleStageSegment ==
  ASSUME NEW id, NEW rules \in Seq(RuleConfigs),
         \A i \in DOMAIN rules : rules[i].severity \in {"mandatory", "soft"},
         \A i, j \in DOMAIN rules : rules[i].id = rules[j].id => i = j,
         NEW e, NEW l \in Seq(AuditRows), NEW m \in Seq(AuditRows),
         Extends(l, m), Len(m) = Len(l) + Len(rules) + 1,
         \A i \in 1 .. Len(rules) : m[Len(l) + i] = RuleRow(id, EvaluateStageRules(rules, e)[i]),
         m[Len(m)] = VerdictRow(id, StageVerdict(EvaluateStageRules(rules, e)))
  PROVE  RuleSegment(l, m, id, StageVerdict(EvaluateStageRules(rules, e)))
<1> DEFINE results == EvaluateStageRules(rules, e)
           verdict == StageVerdict(results)
           last == VerdictRow(id, verdict)
<1>1. /\ DOMAIN results = 1 .. Len(rules) /\ Len(rules) \in Nat /\ DOMAIN rules = 1 .. Len(rules)
      /\ \A i \in 1 .. Len(rules) : results[i] = EvaluateRule(rules[i], e[i])
  BY DEF EvaluateStageRules
<1>2. verdict = StageVerdict(results) /\ last = VerdictRow(id, verdict)
  OBVIOUS
<1>5. /\ Len(l) \in Nat /\ Len(m) = Len(l) + Len(rules) + 1
      /\ \A i \in 1 .. Len(rules) : m[Len(l) + i] = RuleRow(id, results[i])
      /\ m[Len(m)] = last
  OBVIOUS
<1> SUFFICES RuleSegment(l, m, id, verdict)
  OBVIOUS
<1> HIDE DEF results, verdict, last
<1> DEFINE evaluated == New(l, m) \ {Len(m)}
<1>6. Len(m) \in New(l, m)
  BY <1>1, <1>5 DEF New
<1>7. \A i \in 1 .. Len(rules) : Len(l) + i \in evaluated
  BY <1>1, <1>5 DEF New
<1>8. ASSUME NEW i \in evaluated
      PROVE  i - Len(l) \in 1 .. Len(rules) /\ m[i] = RuleRow(id, results[i - Len(l)])
  <2>1. i - Len(l) \in 1 .. Len(rules) /\ Len(l) + (i - Len(l)) = i
    BY <1>1, <1>5, <1>8 DEF New
  <2> QED BY <1>5, <2>1
<1> HIDE DEF evaluated
<1>9. ASSUME NEW h \in 1 .. Len(rules), NEW x, x = RuleRow(id, results[h])
      PROVE  /\ x.event = "RULE_EVALUATED" /\ x.rule = rules[h].id
             /\ x.result = "PASS" <=> results[h].passed
             /\ HardRule(x) <=> TriggersHardReject(results[h])
             /\ results[h].passed => ~TriggersHardReject(results[h]) /\ ~TriggersManualReview(results[h])
             /\ results[h].passed \/ TriggersHardReject(results[h]) \/ TriggersManualReview(results[h])
  <2>1. rules[h].severity \in {"mandatory", "soft"} /\ results[h] = EvaluateRule(rules[h], e[h])
    BY <1>1
  <2> QED BY <1>9, <2>1, RuleRowSays
<1>10. ASSUME NEW i \in evaluated, NEW j \in evaluated, m[i].rule = m[j].rule PROVE i = j
  <2>3. /\ i - Len(l) \in 1 .. Len(rules) /\ m[i].rule = rules[i - Len(l)].id
        /\ j - Len(l) \in 1 .. Len(rules) /\ m[j].rule = rules[j - Len(l)].id
    BY <1>8, <1>9
  <2>1. i - Len(l) = j - Len(l)
    BY <1>1, <1>10, <2>3
  <2>2. i \in Nat /\ j \in Nat
    BY <1>5, <1>10 DEF evaluated, New
  <2> QED BY <1>5, <2>1, <2>2
<1>11. \A i \in evaluated : m[i].event = "RULE_EVALUATED"
  BY <1>8, <1>9
<1>12. /\ verdict = "reject" => \E i \in evaluated : HardRule(m[i])
       /\ verdict = "manual_review" =>
            (\A i \in evaluated : ~HardRule(m[i])) /\ \E i \in evaluated : m[i].result # "PASS"
       /\ verdict = "continue" => \A i \in evaluated : m[i].result = "PASS"
       /\ verdict \in {"reject", "manual_review", "continue"}
  <2>1. /\ verdict = "reject" => \E h \in 1 .. Len(rules) : TriggersHardReject(results[h])
        /\ verdict = "manual_review" =>
             /\ \A h \in 1 .. Len(rules) : ~TriggersHardReject(results[h])
             /\ \E h \in 1 .. Len(rules) : TriggersManualReview(results[h])
        /\ verdict = "continue" =>
             \A h \in 1 .. Len(rules) : ~TriggersHardReject(results[h]) /\ ~TriggersManualReview(results[h])
        /\ verdict \in {"reject", "manual_review", "continue"}
    BY <1>1, <1>2 DEF StageVerdict, HasHardFailure, HasSoftFailure
  <2>2. ASSUME NEW i \in evaluated
        PROVE  /\ i - Len(l) \in 1 .. Len(rules)
               /\ HardRule(m[i]) <=> TriggersHardReject(results[i - Len(l)])
               /\ m[i].result = "PASS" <=> results[i - Len(l)].passed
    BY <1>8, <1>9
  <2>3. ASSUME NEW h \in 1 .. Len(rules)
        PROVE  /\ Len(l) + h \in evaluated
               /\ HardRule(m[Len(l) + h]) <=> TriggersHardReject(results[h])
               /\ m[Len(l) + h].result = "PASS" <=> results[h].passed
    BY <1>5, <1>7, <1>9
  <2> QED BY <1>9, <2>1, <2>2, <2>3
<1>13. /\ last.stage = id
       /\ verdict = "reject" => last.event = "STAGE_FAILED" /\ last.result = "FAIL"
       /\ verdict = "manual_review" => last.event = "STAGE_COMPLETED" /\ last.result = "SOFT_FAIL"
       /\ verdict = "continue" => last.event = "STAGE_COMPLETED" /\ last.result = "PASS"
  BY <1>2, <1>12 DEF VerdictRow, Row
<1> QED BY <1>5, <1>6, <1>10, <1>11, <1>12, <1>13 DEF RuleSegment, evaluated
-----------------------------------------------------------------------------
\* What a call that ends after r retries adds to the log: their rows, the row
\* of its end, at e, with the number of tries, and the row that ends the stage.
CallSegment(l, m, stage, r, e) ==
  /\ Extends(l, m) /\ r \in Nat /\ e = Len(l) + r + 1 /\ Len(m) = e + 1
  /\ \A i \in Len(l) + 1 .. e - 1 :
       /\ m[i].event = "EXT_DEP_ATTEMPT" /\ m[i].result = "FAIL"
       /\ m[i].stage = stage.id /\ m[i].n = i - Len(l)
  /\ m[e].stage = stage.id /\ m[e + 1].stage = stage.id
  /\ m[e].n = r + 1 \/ (m[e].n = 0 /\ r = 0)
  /\ m[e].n <= stage.max_attempts
  /\ m[e].event \in CallEnds /\ m[e + 1].event \in Ending

\* It ends its stage, and accounts for its tries.
LEMMA CallEnded ==
  ASSUME NEW S, Proper(S), NEW n \in KnownIn(S), NEW l \in Seq(AuditRows), NEW m \in Seq(AuditRows),
         Approving(S, l, n, n - 1), NEW r \in Nat, NEW e \in Nat, CallSegment(l, m, S[n], r, e)
  PROVE  /\ e \in New(l, m) /\ e + 1 \in New(l, m) /\ Extends(l, m)
         /\ \A i \in New(l, m) :
              i = e \/ i = e + 1 \/ (m[i].event = "EXT_DEP_ATTEMPT" /\ m[i].result = "FAIL")
         /\ n \in 0 .. Len(S) /\ CallsUpto(S, m, n) /\ CallsUpto(S, m, Len(S)) /\ Created(m)
         /\ CleanStarts(S, m) /\ Once(S, m, Starting, Upto(S, n)) /\ Once(S, m, Ending, Upto(S, n))
         /\ Accounted(S, m)
<1>1. /\ Len(l) \in Nat /\ r \in Nat /\ e = Len(l) + r + 1 /\ Len(m) = e + 1 /\ Extends(l, m)
      /\ m[e].stage = S[n].id /\ m[e + 1].stage = S[n].id
      /\ m[e].event \in CallEnds /\ m[e + 1].event \in Ending
  BY DEF CallSegment
<1>2. e \in New(l, m) /\ e + 1 \in New(l, m) /\ e # e + 1
  BY <1>1 DEF New
<1>3. \A i \in New(l, m) : i = e \/ i = e + 1 \/ i \in Len(l) + 1 .. e - 1
  BY <1>1 DEF New
<1>4. \A i \in New(l, m) :
        \/ i = e \/ i = e + 1
        \/ m[i].event = "EXT_DEP_ATTEMPT" /\ m[i].result = "FAIL" /\ m[i].stage = S[n].id
  BY <1>3 DEF CallSegment
<1>5. \A i \in New(l, m) :
        /\ m[i].event \notin Starting /\ m[i].stage = S[n].id
        /\ i # e + 1 => m[i].event \notin Ending
  BY <1>1, <1>4 DEF Starting, CallEnds, Ending
<1>6. /\ n \in 0 .. Len(S) /\ CallsUpto(S, m, n) /\ CallsUpto(S, m, Len(S)) /\ Created(m)
      /\ CleanStarts(S, m) /\ Once(S, m, Starting, Upto(S, n))
  BY <1>1, <1>5, StageEnded
<1>7. /\ S \in Seq(StageConfigs) /\ DistinctIds(S) /\ Once(S, l, Ending, Upto(S, n - 1))
      /\ Accounted(S, l) /\ CallsUpto(S, l, n - 1)
  BY DEF Proper, Approving
<1>8. Once(S, m, Ending, Upto(S, n))
  <2>1. \A i \in New(l, m) \ {e + 1} : m[i].event \notin Ending
    BY <1>5
  <2> QED BY <1>1, <1>2, <1>7, <2>1, OnceMore
<1>9. Accounted(S, m)
  <2>1. \A i \in e + 1 .. Len(m) : m[i].event \notin CallEvents
    <3>1. \A i \in e + 1 .. Len(m) : i = e + 1
      BY <1>1
    <3>2. m[e + 1].event \notin CallEvents
      BY <1>1 DEF Ending, CallEvents, CallEnds
    <3> QED BY <3>1, <3>2
  <2>2. \A i \in Len(l) + 1 .. e - 1 :
          m[i].event = "EXT_DEP_ATTEMPT" /\ m[i].stage = S[n].id /\ m[i].n = i - Len(l)
    BY DEF CallSegment
  <2>3. (m[e].n = r + 1 \/ (m[e].n = 0 /\ r = 0)) /\ m[e].n <= S[n].max_attempts /\ e <= Len(m)
    BY <1>1 DEF CallSegment
  <2> QED BY <1>1, <1>7, <2>1, <2>2, <2>3, AccountedMore
<1> QED BY <1>1, <1>2, <1>4, <1>6, <1>8, <1>9

\* A call that was answered lets the loop go on (orchestrator.py:272-305).
LEMMA AnsweredLog ==
  ASSUME NEW S, Proper(S), NEW n \in KnownIn(S), NEW l \in Seq(AuditRows), NEW m \in Seq(AuditRows),
         Approving(S, l, n, n - 1), NEW r \in Nat, NEW e \in Nat, CallSegment(l, m, S[n], r, e),
         m[e].event = "EXT_DEP_SUCCESS", m[e].result = "PASS",
         m[e + 1].event = "STAGE_COMPLETED", m[e + 1].result = "PASS"
  PROVE  Approving(S, m, n, n)
<1>1. /\ Extends(l, m) /\ Created(m) /\ CallsUpto(S, m, n) /\ Accounted(S, m)
      /\ Once(S, m, Starting, Upto(S, n)) /\ Once(S, m, Ending, Upto(S, n))
      /\ \A i \in New(l, m) :
           i = e \/ i = e + 1 \/ (m[i].event = "EXT_DEP_ATTEMPT" /\ m[i].result = "FAIL")
  BY CallEnded
<1>2. \A i \in New(l, m) : CleanRow(S, m[i]) /\ m[i].event \notin {"EXT_DEP_FAILURE", "STAGE_FAILED"}
  BY <1>1 DEF CleanRow
<1>3. Clean(S, m) /\ Paired(m)
  BY <1>1, <1>2, CleanKept, PairedKept DEF Approving
<1> QED BY <1>1, <1>3 DEF Approving

\* A call that failed decides by its stage's policy, or lets the loop go on
\* (orchestrator.py:306-332).
LEMMA FailedCallOutcome ==
  ASSUME NEW S, Proper(S), NEW n \in KnownIn(S), NEW l \in Seq(AuditRows), NEW m \in Seq(AuditRows),
         Approving(S, l, n, n - 1), NEW r \in Nat, NEW e \in Nat, CallSegment(l, m, S[n], r, e),
         m[e].event = "EXT_DEP_FAILURE", m[e].result = "FAIL",
         m[e + 1].event = "STAGE_FAILED", m[e + 1].result = "FAIL",
         NEW route, route = IF S[n].on_failure \in {"manual_review", "continue"}
                            THEN S[n].on_failure ELSE "failed"
  PROVE  /\ route = "continue" => Approving(S, m, n, n)
         /\ route # "continue" => Outcome(S, m, FinalStatus(route))
<1>1. /\ Extends(l, m) /\ Created(m) /\ CallsUpto(S, m, n) /\ CallsUpto(S, m, Len(S)) /\ Accounted(S, m)
      /\ Once(S, m, Starting, Upto(S, n)) /\ Once(S, m, Ending, Upto(S, n)) /\ n \in 0 .. Len(S)
      /\ CleanStarts(S, m) /\ e \in New(l, m) /\ e + 1 \in New(l, m)
      /\ \A i \in New(l, m) :
           i = e \/ i = e + 1 \/ (m[i].event = "EXT_DEP_ATTEMPT" /\ m[i].result = "FAIL")
  BY CallEnded
<1>2. Len(m) = e + 1 /\ m[e].stage = S[n].id /\ m[e + 1].stage = S[n].id
  BY DEF CallSegment
<1>3. n \in DOMAIN S /\ S[n].on_failure \in STRING /\ S[n].id # "__input_validation__"
      /\ \A k \in DOMAIN S : S[k].id = S[n].id => k = n
  <2>1. n \in DOMAIN S /\ S[n] \in StageConfigs
    BY DEF KnownIn, Proper
  <2> QED BY <2>1 DEF Proper, DistinctIds, StageConfigs
<1>4. CASE route = "continue"
  <2>1. S[n].on_failure = "continue"
    BY <1>4
  <2>2. \A i \in New(l, m) : CleanRow(S, m[i])
    BY <1>1, <1>2, <2>1 DEF CleanRow
  <2>3. Clean(S, m)
    BY <1>1, <2>2, CleanKept DEF Approving
  <2>4. Paired(m)
    <3>1. \A i \in New(l, m) \ {e, e + 1} : m[i].event \notin {"EXT_DEP_FAILURE", "STAGE_FAILED"}
      BY <1>1
    <3> QED BY <1>1, <1>2, <3>1, PairedMore DEF Approving
  <2> QED BY <1>1, <1>4, <2>3, <2>4 DEF Approving
<1>5. CASE route # "continue"
  <2>1. /\ ~HasBroken(l) /\ ~HasInvalid(l) /\ ~HasHard(l) /\ ~HasFailed(l)
        /\ ~HasCallFailure(S, l, {"manual_review"})
        /\ \A i \in DOMAIN l : ~FailedRule(l[i])
    BY CleanFinds, CleanFailsNever DEF Approving
  <2>2. /\ \A i \in DOMAIN m : i \in New(l, m) \/ (i \in DOMAIN l /\ m[i] = l[i])
        /\ New(l, m) \subseteq DOMAIN m
    BY <1>1, Found
  <2>3. ~HasBroken(m)
    BY <1>1, <2>1, <2>2 DEF HasBroken
  <2>4. ~HasInvalid(m)
    BY <1>1, <1>2, <1>3, <2>1, <2>2 DEF HasInvalid
  <2>5. ~HasHard(m) /\ ~HasFailed(m)
    BY <1>1, <2>1, <2>2 DEF HasHard, HasFailed
  <2>6. FailsOnce(m)
    BY <1>1, <2>1, <2>2 DEF FailsOnce, FailedRule
  <2>7. \A policy : S[n].on_failure \in policy => HasCallFailure(S, m, policy)
    BY <1>1, <1>2, <1>3, <2>2 DEF HasCallFailure
  <2>8. ReplayOf(S, m) = FinalStatus(route)
    <3>1. CASE S[n].on_failure = "manual_review"
      BY <1>1, <2>3, <2>4, <2>5, <2>7, <3>1 DEF ReplayOf, FinalStatus
    <3>2. CASE S[n].on_failure # "manual_review"
      <4>1. route = "failed" /\ S[n].on_failure \in OtherPolicies
        BY <1>3, <1>5, <3>2 DEF OtherPolicies
      <4>2. ~HasCallFailure(S, m, {"manual_review"})
        BY <1>1, <1>2, <1>3, <2>1, <2>2, <3>2 DEF HasCallFailure
      <4> QED BY <1>1, <2>3, <2>4, <2>5, <2>7, <4>1, <4>2 DEF ReplayOf, FinalStatus
    <3> QED BY <3>1, <3>2
  <2>9. FinalStatus(route) # "APPROVED"
    BY <1>5 DEF FinalStatus
  <2> QED BY <1>1, <1>5, <2>6, <2>8, <2>9 DEF Outcome
<1> QED BY <1>4, <1>5

\* That is what _execute_external_stage adds, for an answer as for a failure
\* (orchestrator.py:272-321).
LEMMA CallStageSegment ==
  ASSUME NEW stage, stage.id \in Texts, NEW l \in Seq(AuditRows), NEW r \in Nat,
         NEW t \in Seq(AuditRows), Len(t) = 2, t[1].stage = stage.id, t[2].stage = stage.id,
         t[1].n = r + 1 \/ (t[1].n = 0 /\ r = 0), t[1].n <= stage.max_attempts,
         t[1].event \in CallEnds, t[2].event \in Ending
  PROVE  LET m == l \o AttemptRows(stage.id, r) \o t
         IN  /\ m \in Seq(AuditRows) /\ CallSegment(l, m, stage, r, Len(l) + r + 1)
             /\ m[Len(l) + r + 1] = t[1] /\ m[Len(l) + r + 1 + 1] = t[2]
<1>0. PICK m : m = l \o AttemptRows(stage.id, r) \o t
  OBVIOUS
<1>1. PICK s \in Seq(AuditRows) : s = AttemptRows(stage.id, r)
  BY AttemptRowsType
<1>2. Len(s) = r /\ \A i \in 1 .. r : s[i] = AttemptRow("EXT_DEP_ATTEMPT", stage.id, "FAIL", i)
  BY <1>1 DEF AttemptRows
<1>3. PICK o : o = l \o s
  OBVIOUS
<1>4. /\ o \in Seq(AuditRows) /\ Len(o) = Len(l) + r /\ Extends(l, o)
      /\ \A i \in 1 .. r : o[Len(l) + i] = s[i]
  BY <1>2, <1>3, Appended
<1>5. m = o \o t
  BY <1>0, <1>1, <1>3
<1>6. /\ m \in Seq(AuditRows) /\ Len(m) = Len(o) + 2 /\ Extends(o, m)
      /\ m[Len(o) + 1] = t[1] /\ m[Len(o) + 2] = t[2]
  <2>1. /\ o \o t \in Seq(AuditRows) /\ Len(o \o t) = Len(o) + Len(t) /\ Extends(o, o \o t)
        /\ \A i \in 1 .. Len(t) : (o \o t)[Len(o) + i] = t[i]
    BY <1>4, Appended
  <2>2. 1 \in 1 .. Len(t) /\ 2 \in 1 .. Len(t)
    OBVIOUS
  <2> QED BY <1>5, <2>1, <2>2
<1>7. Len(l) \in Nat /\ Len(o) = Len(l) + r
  BY <1>4
<1>8. ASSUME NEW i \in Len(l) + 1 .. Len(l) + r
      PROVE  m[i] = AttemptRow("EXT_DEP_ATTEMPT", stage.id, "FAIL", i - Len(l))
  <2>1. i - Len(l) \in 1 .. r /\ Len(l) + (i - Len(l)) = i /\ i \in 1 .. Len(o)
    BY <1>7
  <2>2. m[i] = o[i] /\ o[i] = s[i - Len(l)]
    BY <1>4, <1>6, <2>1 DEF Extends
  <2> QED BY <1>2, <2>1, <2>2
<1>9. ASSUME NEW i \in Len(l) + 1 .. Len(l) + r
      PROVE  /\ m[i].event = "EXT_DEP_ATTEMPT" /\ m[i].result = "FAIL"
             /\ m[i].stage = stage.id /\ m[i].n = i - Len(l)
  BY <1>8 DEF AttemptRow, Row
<1>10. Extends(l, m)
  BY <1>4, <1>6, <1>7 DEF Extends
<1>11. /\ Len(o) + 1 = Len(l) + r + 1 /\ Len(o) + 2 = Len(l) + r + 1 + 1
       /\ (Len(l) + r + 1) - 1 = Len(l) + r
  BY <1>7
<1>12. /\ CallSegment(l, m, stage, r, Len(l) + r + 1)
       /\ m[Len(l) + r + 1] = t[1] /\ m[Len(l) + r + 1 + 1] = t[2]
  BY <1>6, <1>9, <1>10, <1>11 DEF CallSegment
<1> QED BY <1>0, <1>6, <1>12
-----------------------------------------------------------------------------
\* The row of its start opens the next stage (orchestrator.py:198, 262).
LEMMA StartedLog ==
  ASSUME Inv, LogInv, pc = "stage", at \in KnownIn(Stages)
  PROVE  Started \in Seq(AuditRows) /\ Approving(Stages, Started, at, at - 1)
<1> DEFINE x == Row("STAGE_STARTED", Stage.id, None)
<1>1. /\ Proper(Stages) /\ Stages \in Seq(StageConfigs) /\ DistinctIds(Stages)
      /\ at \in 1 .. Len(Stages) /\ Stage = Stages[at] /\ Stage \in StageConfigs
      /\ log \in Seq(AuditRows)
  BY AtStage
<1>2. Approving(Stages, log, at - 1, at - 1)
  BY DEF LogInv
<1>3. Stage.id \in Texts /\ None \in Texts /\ "STAGE_STARTED" \in Events
  BY <1>1 DEF StageConfigs, Texts, Optional, Events
<1>4. x \in AuditRows
  BY <1>3, RowType
<1>5. /\ Started \in Seq(AuditRows) /\ Len(Started) = Len(log) + 1
      /\ \A i \in 1 .. Len(log) : Started[i] = log[i]
      /\ Started[Len(log) + 1] = x
  BY <1>1, <1>4, AppendProperties DEF Started
<1>6. x.event = "STAGE_STARTED" /\ x.stage = Stages[at].id /\ x.result = None
  BY <1>1 DEF Row
<1> HIDE DEF x
<1>7. /\ Extends(log, Started)
      /\ Len(log) + 1 \in New(log, Started)
      /\ \A i \in New(log, Started) : i = Len(log) + 1 /\ Started[i] = x
  BY <1>1, <1>5 DEF Extends, New
<1>8. None \notin {"FAIL", "ERROR", "SOFT_FAIL"}
  BY WorkflowsAssumption
<1>9. \A i \in New(log, Started) :
        /\ Started[i].event \notin CallEvents /\ Started[i].event \notin Ending
        /\ Started[i].event \notin {"EXT_DEP_FAILURE", "STAGE_FAILED"}
        /\ CleanRow(Stages, Started[i])
  BY <1>6, <1>7, <1>8 DEF CallEvents, CallEnds, Ending, CleanRow
<1>10. Created(Started) /\ Clean(Stages, Started) /\ Paired(Started)
  BY <1>1, <1>2, <1>5, <1>7, <1>9, Found, CleanKept, PairedKept DEF Approving, Created
<1>11. Once(Stages, Started, Starting, Upto(Stages, at))
  <2>1. Once(Stages, log, Starting, Upto(Stages, at - 1))
    BY <1>2 DEF Approving
  <2>2. \A i \in New(log, Started) \ {Len(log) + 1} : Started[i].event \notin Starting
    BY <1>7
  <2>3. Started[Len(log) + 1].event \in Starting /\ Started[Len(log) + 1].stage = Stages[at].id
    BY <1>5, <1>6 DEF Starting
  <2> QED BY <1>1, <1>5, <1>7, <2>1, <2>2, <2>3, OnceMore
<1>12. Once(Stages, Started, Ending, Upto(Stages, at - 1))
  BY <1>1, <1>2, <1>5, <1>7, <1>9, OnceKept DEF Approving
<1>13. CallsUpto(Stages, Started, at - 1)
  <2>1. KnownIn(Stages) \subseteq Int /\ at - 1 \in Int
    BY <1>1 DEF KnownIn
  <2> QED BY <1>1, <1>2, <1>5, <1>7, <1>9, <2>1, CallsKept DEF Approving
<1>14. Accounted(Stages, Started)
  BY <1>1, <1>2, <1>5, <1>7, <1>9, AccountedKept DEF Approving
<1> QED BY <1>5, <1>10, <1>11, <1>12, <1>13, <1>14 DEF Approving

\* A verdict leaves the loop, or lets it go on.
LEMMA Routed ==
  ASSUME Inv, LogInv, pc \in {"stage", "calling"}, Inv', NEW route, Route(route),
         route = "continue" => Approving(Stages, log', at, at),
         route # "continue" => Outcome(Stages, log', FinalStatus(route)),
         UNCHANGED <<workflow, stored>>
  PROVE  LogInv'
<1>1. CASE route = "continue"
  BY <1>1, Continues
<1>2. CASE route # "continue"
  <2>1. pc' = "final" /\ routing' = route
    BY <1>2 DEF Route
  <2> QED BY <1>2, <2>1, Leaves
<1> QED BY <1>1, <1>2

\* A stage that raises leaves the loop.
LEMMA UnexpectedLeaves ==
  ASSUME Inv, Inv', pc \in {"stage", "calling"}, at \in KnownIn(Stages),
         NEW l \in Seq(AuditRows), Approving(Stages, l, at, at - 1), Unexpected(l),
         UNCHANGED <<workflow, stored>>
  PROVE  LogInv'
<1>1. Proper(Stages) /\ Stage = Stages[at] /\ Stage \in StageConfigs
  BY AtStage
<1>2. Stage.id \in Texts /\ "STAGE_FAILED" \in Events /\ "ERROR" \in Texts
  BY <1>1 DEF StageConfigs, Texts, Optional, Events
<1>3. Row("STAGE_FAILED", Stages[at].id, "ERROR") \in AuditRows
  BY <1>1, <1>2, RowType
<1>4. /\ log' = Append(l, Row("STAGE_FAILED", Stages[at].id, "ERROR"))
      /\ log' \in Seq(AuditRows) /\ routing' = "failed" /\ pc' = "final"
  BY <1>1 DEF Unexpected, Inv, Types
<1>5. Outcome(Stages, log', "FAILED")
  BY <1>1, <1>3, <1>4, RaisedOutcome
<1> QED BY <1>4, <1>5, Leaves DEF FinalStatus

\* The stages without a call.
LEMMA RuleStageLog == ASSUME Inv, LogInv, RuleStage, Inv' PROVE LogInv'
<1>1. /\ pc = "stage" /\ Stage.type = "rule_evaluation" /\ UNCHANGED <<workflow, attempt, stored>>
  BY DEF RuleStage, RuleStageWith
<1>2. /\ Proper(Stages) /\ at \in DOMAIN Stages /\ Stage = Stages[at] /\ Stage \in StageConfigs
      /\ log \in Seq(AuditRows)
  BY <1>1, AtStage
<1>3. at \in KnownIn(Stages)
  BY <1>1, <1>2 DEF KnownIn
<1>4. Started \in Seq(AuditRows) /\ Approving(Stages, Started, at, at - 1)
  BY <1>1, <1>3, StartedLog
<1>5. /\ Stage.id \in Texts /\ Stage.rules \in Seq(RuleConfigs)
      /\ {"STAGE_COMPLETED", "STAGE_FAILED"} \subseteq Events
      /\ {"FAIL", "SOFT_FAIL", "PASS"} \subseteq Texts
  BY <1>2 DEF StageConfigs, Texts, Optional, Events
<1>6. /\ \A i \in DOMAIN Stage.rules : Stage.rules[i].severity \in {"mandatory", "soft"}
      /\ \A i, j \in DOMAIN Stage.rules : Stage.rules[i].id = Stage.rules[j].id => i = j
  BY <1>2, IdsAssumption DEF Stages, Inv, Types
<1>7. ASSUME Unexpected(Started) PROVE LogInv'
  BY <1>1, <1>3, <1>4, <1>7, UnexpectedLeaves
<1>8. ASSUME NEW e, NEW results, results = EvaluateStageRules(Stage.rules, e),
             NEW verdict, verdict = StageVerdict(results),
             log' = Append(Started \o RuleRows(Stage.id, results), VerdictRow(Stage.id, verdict)),
             Route(verdict)
      PROVE  LogInv'
  <2>1. verdict \in {"reject", "manual_review", "continue"}
    BY <1>8 DEF StageVerdict
  <2>2. VerdictRow(Stage.id, verdict) \in AuditRows
    BY <1>5, <2>1, RowType DEF VerdictRow
  <2>3. RuleRows(Stage.id, results) \in Seq(AuditRows)
    BY <1>5, <1>8, RuleRowsType
  <2>4. PICK s \in Seq(AuditRows) : s = RuleRows(Stage.id, results)
    BY <2>3
  <2>5. Len(s) = Len(Stage.rules) /\ \A i \in 1 .. Len(s) : s[i] = RuleRow(Stage.id, results[i])
    <3>1. DOMAIN results = 1 .. Len(Stage.rules) /\ Len(Stage.rules) \in Nat
      BY <1>5, <1>8 DEF EvaluateStageRules
    <3> QED BY <2>4, <3>1 DEF RuleRows
  <2>6. log' = Append(Started \o s, VerdictRow(Stage.id, verdict))
    BY <1>8, <2>4
  <2>7. /\ log' \in Seq(AuditRows) /\ Extends(Started, log') /\ Len(log') = Len(Started) + Len(s) + 1
        /\ \A i \in 1 .. Len(s) : log'[Len(Started) + i] = s[i]
        /\ log'[Len(log')] = VerdictRow(Stage.id, verdict)
    BY <1>4, <2>2, <2>6, AppendedBefore
  <2>8. RuleSegment(Started, log', Stage.id, verdict)
    <3>1. Len(log') = Len(Started) + Len(Stage.rules) + 1
      BY <2>5, <2>7
    <3>2. \A i \in 1 .. Len(Stage.rules) :
            log'[Len(Started) + i] = RuleRow(Stage.id, EvaluateStageRules(Stage.rules, e)[i])
      BY <1>8, <2>5, <2>7
    <3>3. log'[Len(log')] = VerdictRow(Stage.id, StageVerdict(EvaluateStageRules(Stage.rules, e)))
      BY <1>8, <2>7
    <3>4. RuleSegment(Started, log', Stage.id, StageVerdict(EvaluateStageRules(Stage.rules, e)))
      BY <1>4, <1>5, <1>6, <2>7, <3>1, <3>2, <3>3, RuleStageSegment
    <3> QED BY <1>8, <3>4
  <2>9. /\ verdict = "continue" => Approving(Stages, log', at, at)
        /\ verdict # "continue" => Outcome(Stages, log', FinalStatus(verdict))
    BY <1>2, <1>3, <1>4, <2>7, <2>8, RulesOutcome
  <2> QED BY <1>1, <1>8, <2>9, Routed
<1> QED BY <1>7, <1>8 DEF RuleStage, RuleStageWith

\* A stage of an unknown type leaves no trace in the log.
LEMMA SkipStageLog == ASSUME Inv, LogInv, SkipStage, Inv' PROVE LogInv'
<1>1. /\ pc = "stage" /\ Stage.type \notin {"rule_evaluation", "external_dependency"}
      /\ log' = log /\ Route("continue") /\ UNCHANGED <<workflow, stored>>
  BY DEF SkipStage
<1>2. at \in 1 .. Len(Stages) /\ Stage = Stages[at] /\ Stages \in Seq(StageConfigs)
  BY <1>1, AtStage
<1>3. Upto(Stages, at) = Upto(Stages, at - 1)
  <2>1. at \notin KnownIn(Stages) /\ KnownIn(Stages) \subseteq Int
    BY <1>1, <1>2 DEF KnownIn
  <2> QED BY <1>2, <2>1 DEF Upto
<1>4. Approving(Stages, log', at, at)
  BY <1>1, <1>3 DEF LogInv, Approving, CallsUpto
<1> QED BY <1>1, <1>4, Continues

\* A call begins with the first try, or with none if there is none to make.
LEMMA BeginCallLog == ASSUME Inv, LogInv, BeginCall, Inv' PROVE LogInv'
<1>1. /\ pc = "stage" /\ Stage.type = "external_dependency" /\ log' = Started
      /\ attempt' = 0 /\ pc' = "calling" /\ UNCHANGED <<workflow, at, routing, stored>>
  BY DEF BeginCall
<1>2. at \in DOMAIN Stages /\ Stage = Stages[at] /\ Stage \in StageConfigs /\ stored = None
  BY <1>1, AtStage
<1>3. at \in KnownIn(Stages)
  BY <1>1, <1>2 DEF KnownIn
<1>4. Approving(Stages, log', at, at - 1)
  BY <1>1, <1>3, StartedLog
<1>5. Stage' = Stage /\ Stages' = Stages
  BY <1>1 DEF Stage, Stages
<1>6. Stage.max_attempts \in Nat
  BY <1>2 DEF StageConfigs
<1> QED BY <1>1, <1>2, <1>4, <1>5, <1>6 DEF LogInv

\* What the end of a call finds.
LEMMA AtCall ==
  ASSUME Inv, LogInv, pc = "calling"
  PROVE  /\ Proper(Stages) /\ at \in KnownIn(Stages) /\ Stage = Stages[at] /\ Stage.id \in Texts
         /\ Stage.max_attempts \in Nat /\ attempt \in Nat /\ log \in Seq(AuditRows)
         /\ Approving(Stages, log, at, at - 1)
         /\ attempt < Stage.max_attempts \/ (attempt = 0 /\ Stage.max_attempts = 0)
<1>1. /\ Proper(Stages) /\ at \in DOMAIN Stages /\ Stage = Stages[at] /\ Stage \in StageConfigs
      /\ log \in Seq(AuditRows)
  BY AtStage
<1>2. Stage.id \in Texts /\ Stage.max_attempts \in Nat
  BY <1>1 DEF StageConfigs, Texts, Optional
<1>3. at \in KnownIn(Stages)
  BY <1>1 DEF LogInv, KnownIn
<1> QED BY <1>1, <1>2, <1>3 DEF LogInv, Inv, Types

\* A retry leaves the log alone, and the loop its next try.
LEMMA RetryLog == ASSUME Inv, LogInv, Retry, Inv' PROVE LogInv'
<1>1. /\ pc = "calling" /\ InLoop /\ ~IsLast /\ attempt' = attempt + 1
      /\ UNCHANGED <<pc, workflow, row, log, at, routing, stored>>
  BY DEF Retry
<1>2. Stage.max_attempts \in Nat /\ attempt \in Nat
  BY <1>1, AtCall
<1>3. Stage' = Stage /\ Stages' = Stages
  BY <1>1 DEF Stage, Stages
<1>4. attempt' < Stage.max_attempts
  BY <1>1, <1>2 DEF InLoop, IsLast
<1>5. stored = None
  BY <1>1, AtStage
<1> QED BY <1>1, <1>3, <1>4, <1>5 DEF LogInv

\* An answer.
LEMMA CallSucceedsLog == ASSUME Inv, LogInv, CallSucceeds, Inv' PROVE LogInv'
<1> DEFINE x == AttemptRow("EXT_DEP_SUCCESS", Stage.id, "PASS", attempt + 1)
           y == Row("STAGE_COMPLETED", Stage.id, "PASS")
           e == Len(log) + attempt + 1
<1>1. /\ pc = "calling" /\ InLoop /\ Route("continue") /\ UNCHANGED <<workflow, stored>>
      /\ log' = log \o AttemptRows(Stage.id, attempt) \o <<x, y>>
  BY DEF CallSucceeds
<1>2. /\ Proper(Stages) /\ at \in KnownIn(Stages) /\ Stage = Stages[at] /\ Stage.id \in Texts
      /\ Stage.max_attempts \in Nat /\ attempt \in Nat /\ log \in Seq(AuditRows)
      /\ Approving(Stages, log, at, at - 1)
  BY <1>1, AtCall
<1>3. /\ {"EXT_DEP_SUCCESS", "STAGE_COMPLETED"} \subseteq Events /\ "PASS" \in Texts
      /\ "EXT_DEP_SUCCESS" \in CallEnds /\ "STAGE_COMPLETED" \in Ending
  BY DEF Events, Texts, CallEnds, Ending
<1>4. x \in AuditRows /\ y \in AuditRows
  BY <1>2, <1>3, RowType, AttemptRowType
<1>5. /\ x.stage = Stage.id /\ x.event = "EXT_DEP_SUCCESS" /\ x.result = "PASS" /\ x.n = attempt + 1
      /\ y.stage = Stage.id /\ y.event = "STAGE_COMPLETED" /\ y.result = "PASS"
  BY DEF AttemptRow, Row
<1>6. attempt + 1 <= Stage.max_attempts /\ Len(log) \in Nat /\ e \in Nat
  BY <1>1, <1>2 DEF InLoop
<1> HIDE DEF x, y
<1>7. /\ log' \in Seq(AuditRows) /\ CallSegment(log, log', Stage, attempt, e)
      /\ log'[e] = x /\ log'[e + 1] = y
  <2>1. /\ x.stage = Stage.id /\ y.stage = Stage.id /\ x.event \in CallEnds /\ y.event \in Ending
        /\ x.n = attempt + 1 \/ (x.n = 0 /\ attempt = 0)
        /\ x.n <= Stage.max_attempts
    BY <1>3, <1>5, <1>6
  <2>2. PICK t : t = <<x, y>>
    OBVIOUS
  <2>3. t \in Seq(AuditRows) /\ Len(t) = 2 /\ t[1] = x /\ t[2] = y
    BY <1>4, <2>2
  <2>4. log' = log \o AttemptRows(Stage.id, attempt) \o t
    BY <1>1, <2>2
  <2>5. /\ t[1].stage = Stage.id /\ t[2].stage = Stage.id /\ t[1].event \in CallEnds /\ t[2].event \in Ending
        /\ t[1].n = attempt + 1 \/ (t[1].n = 0 /\ attempt = 0)
        /\ t[1].n <= Stage.max_attempts
    BY <2>1, <2>3
  <2>6. log \in Seq(AuditRows) /\ attempt \in Nat /\ Stage.id \in Texts
    BY <1>2
  <2>7. LET m == log \o AttemptRows(Stage.id, attempt) \o t
        IN  /\ m \in Seq(AuditRows) /\ CallSegment(log, m, Stage, attempt, Len(log) + attempt + 1)
            /\ m[Len(log) + attempt + 1] = t[1] /\ m[Len(log) + attempt + 1 + 1] = t[2]
    BY <2>3, <2>5, <2>6, CallStageSegment
  <2> QED BY <2>3, <2>4, <2>7
<1> HIDE DEF e
<1>8. Approving(Stages, log', at, at)
  BY <1>2, <1>5, <1>6, <1>7, AnsweredLog
<1> QED BY <1>1, <1>8, Continues

\* A call that failed for good.
LEMMA ExhaustedLog ==
  ASSUME Inv, LogInv, pc = "calling", NEW tries \in Nat, Exhausted(tries), Inv',
         tries = attempt + 1 \/ (tries = 0 /\ attempt = 0), tries <= Stage.max_attempts
  PROVE  LogInv'
<1> DEFINE x == AttemptRow("EXT_DEP_FAILURE", Stage.id, "FAIL", tries)
           y == Row("STAGE_FAILED", Stage.id, "FAIL")
           e == Len(log) + attempt + 1
<1>1. /\ Route(FailureRoute) /\ UNCHANGED <<workflow, stored>>
      /\ log' = log \o AttemptRows(Stage.id, attempt) \o <<x, y>>
  BY DEF Exhausted
<1>2. /\ Proper(Stages) /\ at \in KnownIn(Stages) /\ Stage = Stages[at] /\ Stage.id \in Texts
      /\ attempt \in Nat /\ log \in Seq(AuditRows) /\ Approving(Stages, log, at, at - 1)
  BY AtCall
<1>3. /\ {"EXT_DEP_FAILURE", "STAGE_FAILED"} \subseteq Events /\ "FAIL" \in Texts
      /\ "EXT_DEP_FAILURE" \in CallEnds /\ "STAGE_FAILED" \in Ending
  BY DEF Events, Texts, CallEnds, Ending
<1>4. x \in AuditRows /\ y \in AuditRows
  BY <1>2, <1>3, RowType, AttemptRowType
<1>5. /\ x.stage = Stage.id /\ x.event = "EXT_DEP_FAILURE" /\ x.result = "FAIL" /\ x.n = tries
      /\ y.stage = Stage.id /\ y.event = "STAGE_FAILED" /\ y.result = "FAIL"
  BY DEF AttemptRow, Row
<1>6. Len(log) \in Nat /\ e \in Nat
  BY <1>2
<1> HIDE DEF x, y
<1>7. /\ log' \in Seq(AuditRows) /\ CallSegment(log, log', Stage, attempt, e)
      /\ log'[e] = x /\ log'[e + 1] = y
  <2>1. /\ x.stage = Stage.id /\ y.stage = Stage.id /\ x.event \in CallEnds /\ y.event \in Ending
        /\ x.n = attempt + 1 \/ (x.n = 0 /\ attempt = 0)
        /\ x.n <= Stage.max_attempts
    BY <1>3, <1>5, <1>6
  <2>2. PICK t : t = <<x, y>>
    OBVIOUS
  <2>3. t \in Seq(AuditRows) /\ Len(t) = 2 /\ t[1] = x /\ t[2] = y
    BY <1>4, <2>2
  <2>4. log' = log \o AttemptRows(Stage.id, attempt) \o t
    BY <1>1, <2>2
  <2>5. /\ t[1].stage = Stage.id /\ t[2].stage = Stage.id /\ t[1].event \in CallEnds /\ t[2].event \in Ending
        /\ t[1].n = attempt + 1 \/ (t[1].n = 0 /\ attempt = 0)
        /\ t[1].n <= Stage.max_attempts
    BY <2>1, <2>3
  <2>6. log \in Seq(AuditRows) /\ attempt \in Nat /\ Stage.id \in Texts
    BY <1>2
  <2>7. LET m == log \o AttemptRows(Stage.id, attempt) \o t
        IN  /\ m \in Seq(AuditRows) /\ CallSegment(log, m, Stage, attempt, Len(log) + attempt + 1)
            /\ m[Len(log) + attempt + 1] = t[1] /\ m[Len(log) + attempt + 1 + 1] = t[2]
    BY <2>3, <2>5, <2>6, CallStageSegment
  <2> QED BY <2>3, <2>4, <2>7
<1> HIDE DEF e
<1>8. /\ FailureRoute = "continue" => Approving(Stages, log', at, at)
      /\ FailureRoute # "continue" => Outcome(Stages, log', FinalStatus(FailureRoute))
  <2>1. FailureRoute = IF Stages[at].on_failure \in {"manual_review", "continue"}
                       THEN Stages[at].on_failure ELSE "failed"
    BY <1>2 DEF FailureRoute
  <2> QED BY <1>2, <1>5, <1>6, <1>7, <2>1, FailedCallOutcome
<1> QED BY <1>1, <1>8, Routed

\* The steps of a call.
LEMMA CallLog ==
  ASSUME Inv, LogInv, Inv',
         BeginCall \/ Retry \/ CallSucceeds \/ CallFails \/ NoAttempts \/ CallRaises
  PROVE  LogInv'
<1>1. CASE BeginCall \/ Retry \/ CallSucceeds
  BY <1>1, BeginCallLog, RetryLog, CallSucceedsLog
<1>2. CASE CallFails
  <2>1. pc = "calling" /\ attempt < Stage.max_attempts /\ Exhausted(attempt + 1)
    BY <1>2 DEF CallFails, InLoop
  <2>2. attempt + 1 \in Nat /\ attempt + 1 <= Stage.max_attempts
    BY <2>1, AtCall
  <2> QED BY <2>1, <2>2, ExhaustedLog
<1>3. CASE NoAttempts
  <2>1. pc = "calling" /\ ~(attempt < Stage.max_attempts) /\ Exhausted(Stage.max_attempts)
    BY <1>3 DEF NoAttempts, InLoop
  <2>2. attempt = 0 /\ Stage.max_attempts = 0
    BY <2>1, AtCall
  <2>3. Exhausted(0) /\ 0 \in Nat /\ 0 <= Stage.max_attempts
    BY <2>1, <2>2
  <2> QED BY <2>1, <2>2, <2>3, ExhaustedLog
<1>4. CASE CallRaises
  <2>1. pc = "calling" /\ Unexpected(log) /\ UNCHANGED <<workflow, stored>>
    BY <1>4 DEF CallRaises
  <2> QED BY <2>1, AtCall, UnexpectedLeaves
<1> QED BY <1>1, <1>2, <1>3, <1>4

\* The last transition, and what the caller does with the session.
LEMMA ClosingLog == ASSUME Inv, LogInv, Finish \/ Commit \/ RollBack, Inv' PROVE LogInv'
<1>1. Stages' = Stages /\ Proper(Stages)
  <2>1. UNCHANGED workflow
    BY DEF Finish, Commit, RollBack
  <2>2. Stages \in Seq(StageConfigs)
    BY WorkflowsAssumption DEF Inv, Types, Stages
  <2> QED BY <2>1, <2>2, IdsAssumption, SameStages DEF Proper, DistinctIds, Stages, Inv, Types
<1>2. CASE Finish
  <2>1. /\ pc = "final" /\ pc' = "commit" /\ Conclude(log, FinalStatus(routing)) /\ stored' = stored
    BY <1>2 DEF Finish
  <2>2. FinalStatus(routing) \in Terminal /\ log \in Seq(AuditRows) /\ row \in ExecutionRows
    BY DEF FinalStatus, Terminal, Inv, Types, Routes
  <2>3. Outcome(Stages, log, FinalStatus(routing))
    BY <2>1 DEF LogInv
  <2>4. Settled(Stages, row', log')
    BY <1>1, <2>1, <2>2, <2>3, Concludes
  <2>5. stored = None
    BY <2>1 DEF Inv, Progress, Active
  <2> QED BY <1>1, <2>1, <2>4, <2>5 DEF LogInv
<1>3. CASE Commit
  <2>1. /\ pc = "commit" /\ pc' = "done" /\ stored' = [row |-> row, log |-> log]
    BY <1>3 DEF Commit
  <2>2. Settled(Stages, row, log)
    BY <2>1 DEF LogInv
  <2>3. stored'.row = row /\ stored'.log = log
    BY <2>1
  <2>4. stored'.log \in Seq(AuditRows) /\ Settled(Stages', stored'.row, stored'.log)
    BY <1>1, <2>2, <2>3 DEF Inv, Types
  <2> QED BY <2>1, <2>4 DEF LogInv
<1>4. CASE RollBack
  <2>1. pc' = "rolled_back" /\ stored' = None
    BY <1>4 DEF RollBack, Inv, Progress
  <2> QED BY <2>1 DEF LogInv
<1> QED BY <1>2, <1>3, <1>4

\* The log is empty when the execution begins.
LEMMA InitLogInv == Init => LogInv
BY DEF Init, LogInv

\* Every step keeps what LogInv says.
LEMMA LogInvStep == Inv /\ LogInv /\ [Next]_vars => LogInv'
<1> SUFFICES ASSUME Inv, LogInv, [Next]_vars PROVE LogInv'
  OBVIOUS
<1>0. Inv'
  BY InvStep
<1>1. CASE Next
  BY <1>0, <1>1, OpeningLog, RuleStageLog, SkipStageLog, CallLog, ClosingLog DEF Next, Proceed
<1>2. CASE UNCHANGED vars
  BY <1>2 DEF vars, LogInv, Stage, Stages
<1> QED BY <1>1, <1>2

\* LogInv holds in every reachable state.
THEOREM LogInvariance == Spec => []LogInv
BY InitInv, InvStep, InitLogInv, LogInvStep, PTL DEF Spec
-----------------------------------------------------------------------------
\* A stage is found by its id.
LEMMA StageFound ==
  ASSUME DistinctIds(Stages), NEW k \in DOMAIN Stages
  PROVE  StageWith(Stages[k].id) = k
BY DEF StageWith, DistinctIds

\* What is known of anything stored.
LEMMA StoredSettled ==
  ASSUME Inv, LogInv, IsStored
  PROVE  /\ Proper(Stages) /\ DistinctIds(Stages) /\ Len(Stages) \in Nat
         /\ DOMAIN Stages = 1 .. Len(Stages) /\ Stages \in Seq(StageConfigs)
         /\ KeptLog \in Seq(AuditRows) /\ Settled(Stages, Kept, KeptLog)
         /\ Known = KnownIn(Stages) /\ Upto(Stages, Len(Stages)) = Known
<1>1. Stages \in Seq(StageConfigs)
  BY WorkflowsAssumption DEF Inv, Types, Stages
<1>2. Proper(Stages)
  BY <1>1, IdsAssumption DEF Proper, DistinctIds, Stages, Inv, Types
<1>3. Upto(Stages, Len(Stages)) = Known /\ Known = KnownIn(Stages)
  BY <1>1 DEF Upto, Known, KnownIn
<1> QED BY <1>1, <1>2, <1>3 DEF Proper, LogInv, IsStored, Kept, KeptLog

\* A stored row of a call names a stage.
LEMMA CallNamesStage ==
  ASSUME Inv, LogInv, IsStored, NEW i \in DOMAIN KeptLog, KeptLog[i].event \in CallEvents
  PROVE  /\ StageOf(i) \in DOMAIN Stages /\ Stages[StageOf(i)] \in StageConfigs
         /\ KeptLog[i].stage = Stages[StageOf(i)].id
<1>1. PICK k \in Upto(Stages, Len(Stages)) : KeptLog[i].stage = Stages[k].id
  BY StoredSettled DEF Settled, Outcome, CallsUpto
<1>2. k \in DOMAIN Stages
  BY DEF Upto, KnownIn
<1>3. StageOf(i) = k
  BY <1>1, <1>2, StoredSettled, StageFound DEF StageOf
<1> QED BY <1>1, <1>2, <1>3, StoredSettled

\* The replay of the stored log finds what ReplayOf finds.
LEMMA StoredReplay ==
  ASSUME Inv, LogInv, IsStored
  PROVE  Replay = ReplayOf(Stages, KeptLog)
<1>1. /\ Rows("EXECUTION_CREATED") = {} <=> ~Created(KeptLog)
      /\ Broken # {} <=> HasBroken(KeptLog)
      /\ Invalid # {} <=> HasInvalid(KeptLog)
      /\ (\E i \in Rows("RULE_EVALUATED") : HardRule(KeptLog[i])) <=> HasHard(KeptLog)
      /\ (\E i \in Rows("RULE_EVALUATED") : KeptLog[i].result # "PASS") <=> HasFailed(KeptLog)
  BY DEF Rows, Created, Broken, HasBroken, Invalid, HasInvalid, HasHard, HasFailed
<1>2. ASSUME NEW i \in Rows("EXT_DEP_FAILURE")
      PROVE  /\ i \in DOMAIN KeptLog /\ KeptLog[i].event = "EXT_DEP_FAILURE"
             /\ StageOf(i) \in DOMAIN Stages /\ KeptLog[i].stage = Stages[StageOf(i)].id
             /\ Stages[StageOf(i)].on_failure \in STRING
             /\ \A k \in DOMAIN Stages : KeptLog[i].stage = Stages[k].id => k = StageOf(i)
  <2>1. i \in DOMAIN KeptLog /\ KeptLog[i].event = "EXT_DEP_FAILURE"
    BY <1>2 DEF Rows
  <2>2. KeptLog[i].event \in CallEvents
    BY <2>1 DEF CallEvents, CallEnds
  <2>3. /\ StageOf(i) \in DOMAIN Stages /\ Stages[StageOf(i)] \in StageConfigs
        /\ KeptLog[i].stage = Stages[StageOf(i)].id
    BY <2>1, <2>2, CallNamesStage
  <2> QED BY <2>1, <2>3, StoredSettled DEF StageConfigs, DistinctIds
<1>3. ASSUME NEW policy
      PROVE  HasCallFailure(Stages, KeptLog, policy) <=> Failures(policy) # {}
  <2>1. HasCallFailure(Stages, KeptLog, policy) <=>
          \E i \in Rows("EXT_DEP_FAILURE") : Stages[StageOf(i)].on_failure \in policy
    BY <1>2 DEF HasCallFailure, Rows
  <2> QED BY <2>1 DEF Failures
<1>4. HasCallFailure(Stages, KeptLog, OtherPolicies) <=>
        Failures({"manual_review", "continue"}) # Rows("EXT_DEP_FAILURE")
  <2>1. Failures(OtherPolicies) # {} <=>
          \E i \in Rows("EXT_DEP_FAILURE") : Stages[StageOf(i)].on_failure \notin {"manual_review", "continue"}
    BY <1>2 DEF Failures, OtherPolicies
  <2>2. Failures({"manual_review", "continue"}) # Rows("EXT_DEP_FAILURE") <=>
          \E i \in Rows("EXT_DEP_FAILURE") : Stages[StageOf(i)].on_failure \notin {"manual_review", "continue"}
    BY DEF Failures
  <2> QED BY <1>3, <2>1, <2>2
<1> QED BY <1>1, <1>3, <1>4 DEF Replay, ReplayOf

-----------------------------------------------------------------------------
\* A settled log has the decision that a replay of it finds.
LEMMA SettledReplays == Inv /\ LogInv => DecisionReplayable
BY StoredSettled, StoredReplay DEF DecisionReplayable, Settled, Outcome

\* The decision that is stored is the one that the evaluations and the calls in
\* the stored log call for, whatever the workflow: nothing else decides, and
\* nothing in the log is forgotten (orchestrator.py:176-332, 528-584).
THEOREM DecisionsReplay == Spec => []DecisionReplayable
BY SettledReplays, Invariance, LogInvariance, PTL

\* A settled log has the stages in order.
LEMMA SettledInOrder == Inv /\ LogInv => StagesInOrder
<1>1. ASSUME Inv, LogInv, IsStored
      PROVE  LET starts == Rows("STAGE_STARTED")
                 started == {StageOf(i) : i \in starts}
             IN  /\ \A i \in starts : StageOf(i) \in Known /\ KeptLog[i].stage = Stages[StageOf(i)].id
                 /\ \A i, j \in starts : i < j => StageOf(i) < StageOf(j)
                 /\ \A k \in Known, m \in started : k < m => k \in started
                 /\ Kept.status = "APPROVED" => started = Known
                 /\ \A i \in starts, j \in DOMAIN KeptLog :
                      j < i => \/ KeptLog[j].result \notin {"FAIL", "ERROR", "SOFT_FAIL"}
                               \/ KeptLog[j].event = "EXT_DEP_ATTEMPT"
                               \/ /\ KeptLog[j].event \in {"EXT_DEP_FAILURE", "STAGE_FAILED"}
                                  /\ Stages[StageOf(j)].on_failure = "continue"
  <2> DEFINE starts == Rows("STAGE_STARTED")
             started == {StageOf(i) : i \in starts}
  <2>1. \A i : i \in starts <=> i \in DOMAIN KeptLog /\ KeptLog[i].event \in Starting
    BY DEF Rows, Starting
  <2>2. /\ KnownIn(Stages) = Known /\ Known \subseteq Int /\ Known \subseteq DOMAIN Stages
        /\ CleanStarts(Stages, KeptLog)
    BY <1>1, StoredSettled DEF Settled, Outcome, KnownIn
  <2>3. PICK n \in 0 .. Len(Stages) : Once(Stages, KeptLog, Starting, Upto(Stages, n))
    BY <1>1, StoredSettled DEF Settled, Outcome
  <2>4. \A k \in DOMAIN Stages : StageWith(Stages[k].id) = k
    BY <1>1, StoredSettled, StageFound
  <2>5. ASSUME NEW i \in starts
        PROVE  StageOf(i) \in Upto(Stages, n) /\ KeptLog[i].stage = Stages[StageOf(i)].id
    <3>1. PICK k \in Upto(Stages, n) : KeptLog[i].stage = Stages[k].id
      BY <2>1, <2>3, <2>5 DEF Once
    <3>2. StageOf(i) = k
      BY <2>2, <2>4, <3>1 DEF StageOf, Upto
    <3> QED BY <3>1, <3>2
  <2>6. ASSUME NEW i \in starts, NEW j \in starts, i < j PROVE StageOf(i) < StageOf(j)
    <3>1. StageOf(i) \in DOMAIN Stages /\ StageOf(j) \in DOMAIN Stages
      BY <2>2, <2>5 DEF Upto
    <3>2. /\ i \in DOMAIN KeptLog /\ KeptLog[i].event \in Starting
          /\ j \in DOMAIN KeptLog /\ KeptLog[j].event \in Starting
      BY <2>1
    <3>3. KeptLog[i].stage = Stages[StageOf(i)].id /\ KeptLog[j].stage = Stages[StageOf(j)].id
      BY <2>5
    <3> HIDE DEF starts, started
    <3> QED BY <2>3, <2>6, <3>1, <3>2, <3>3 DEF Once
  <2>7. ASSUME NEW N, Once(Stages, KeptLog, Starting, Upto(Stages, N)), NEW k \in Upto(Stages, N)
        PROVE  k \in started
    <3>1. PICK i \in starts : KeptLog[i].stage = Stages[k].id
      BY <2>1, <2>7 DEF Once
    <3>2. StageOf(i) = k
      BY <2>2, <2>4, <3>1 DEF StageOf, Upto
    <3> QED BY <3>2
  <2>8. ASSUME NEW k \in Known, NEW m \in started, k < m PROVE k \in started
    <3>1. m \in Upto(Stages, n)
      BY <2>5
    <3>2. k \in KnownIn(Stages) /\ m \in KnownIn(Stages) /\ m <= n /\ k \in Int /\ m \in Int
      BY <2>2, <2>8, <3>1 DEF Upto
    <3>3. k <= n
      BY <2>8, <3>2
    <3>4. k \in Upto(Stages, n)
      BY <3>2, <3>3 DEF Upto
    <3> QED BY <2>3, <2>7, <3>4
  <2>9. ASSUME Kept.status = "APPROVED" PROVE started = Known
    <3>1. Once(Stages, KeptLog, Starting, Known)
      BY <1>1, <2>9, StoredSettled DEF Settled, Outcome, Approving
    <3>2. Upto(Stages, Len(Stages)) = Known
      BY <1>1, StoredSettled
    <3>3. Known \subseteq started
      BY <2>7, <3>1, <3>2
    <3>4. started \subseteq Known
      BY <2>2, <2>5 DEF Upto
    <3> QED BY <3>3, <3>4
  <2>10. ASSUME NEW i \in starts, NEW j \in DOMAIN KeptLog, j < i,
                KeptLog[j].result \in {"FAIL", "ERROR", "SOFT_FAIL"},
                KeptLog[j].event # "EXT_DEP_ATTEMPT"
         PROVE  /\ KeptLog[j].event \in {"EXT_DEP_FAILURE", "STAGE_FAILED"}
                /\ Stages[StageOf(j)].on_failure = "continue"
    <3>1. CleanRow(Stages, KeptLog[j])
      BY <2>1, <2>2, <2>10 DEF CleanStarts
    <3>2. KeptLog[j].event \in {"EXT_DEP_FAILURE", "STAGE_FAILED"}
      BY <2>10, <3>1 DEF CleanRow
    <3>3. PICK k \in Known : KeptLog[j].stage = Stages[k].id /\ Stages[k].on_failure = "continue"
      BY <2>2, <3>1, <3>2 DEF CleanRow
    <3>4. StageOf(j) = k
      BY <2>2, <2>4, <3>3 DEF StageOf
    <3> QED BY <3>2, <3>3, <3>4
  <2>11. \A i \in starts : StageOf(i) \in Known /\ KeptLog[i].stage = Stages[StageOf(i)].id
    BY <2>2, <2>5 DEF Upto
  <2> HIDE DEF starts, started
  <2>12. /\ \A i \in starts : StageOf(i) \in Known /\ KeptLog[i].stage = Stages[StageOf(i)].id
         /\ \A i, j \in starts : i < j => StageOf(i) < StageOf(j)
         /\ \A k \in Known, m \in started : k < m => k \in started
         /\ Kept.status = "APPROVED" => started = Known
         /\ \A i \in starts, j \in DOMAIN KeptLog :
              j < i => \/ KeptLog[j].result \notin {"FAIL", "ERROR", "SOFT_FAIL"}
                       \/ KeptLog[j].event = "EXT_DEP_ATTEMPT"
                       \/ /\ KeptLog[j].event \in {"EXT_DEP_FAILURE", "STAGE_FAILED"}
                          /\ Stages[StageOf(j)].on_failure = "continue"
    BY <2>6, <2>8, <2>9, <2>10, <2>11
  <2> QED BY <2>12 DEF starts, started
<1> QED BY <1>1 DEF StagesInOrder

\* Stages start one by one in the order of the YAML, all of them before an
\* approval and none after what decided otherwise (orchestrator.py:528-568).
THEOREM StagesStartInOrder == Spec => []StagesInOrder
BY SettledInOrder, Invariance, LogInvariance, PTL

\* The account of an ended call is an interval of the log, so that its rows
\* are as many as their numbers say.
LEMMA AccountsAdd ==
  ASSUME NEW i \in Nat, NEW r \in 0 .. i - 1
  PROVE  /\ Cardinality(i - r .. i - 1) = r
         /\ \A j \in i - r .. i - 1 :
              Cardinality({k \in i - r .. i - 1 : k <= j}) = j + 1 - (i - r)
<1>1. i - r \in Int /\ i - 1 \in Int
  OBVIOUS
<1>2. Cardinality(i - r .. i - 1) = r
  BY <1>1, FS_Interval
<1>3. ASSUME NEW j \in i - r .. i - 1
      PROVE  Cardinality({k \in i - r .. i - 1 : k <= j}) = j + 1 - (i - r)
  <2>1. {k \in i - r .. i - 1 : k <= j} = i - r .. j
    BY <1>1, <1>3
  <2>2. Cardinality(i - r .. j) = j - (i - r) + 1
    BY <1>1, <1>3, FS_Interval
  <2>3. Cardinality({k \in i - r .. i - 1 : k <= j}) = Cardinality(i - r .. j)
    BY <2>1
  <2>4. j - (i - r) + 1 = j + 1 - (i - r)
    BY <1>1, <1>3
  <2> QED BY <2>2, <2>3, <2>4
<1> QED BY <1>2, <1>3

\* A settled log accounts for the tries.
LEMMA SettledAccounts == Inv /\ LogInv => RetryAccounting
<1>1. ASSUME Inv, LogInv, IsStored, NEW i \in Rows("EXT_DEP_SUCCESS") \cup Rows("EXT_DEP_FAILURE"),
             NEW id, id = KeptLog[i].stage
      PROVE  /\ KeptLog[i].n <= Stages[StageWith(id)].max_attempts
             /\ KeptLog[i].n = 0 \/ Cardinality(RetriesOf(id)) = KeptLog[i].n - 1
             /\ \A j \in RetriesOf(id) :
                  j < i /\ KeptLog[j].n = Cardinality({k \in RetriesOf(id) : k <= j})
  <2>1. i \in DOMAIN KeptLog /\ KeptLog[i].event \in CallEnds
    BY DEF Rows, CallEnds
  <2>2. i \in Nat /\ KeptLog \in Seq(AuditRows)
    BY <1>1, <2>1, StoredSettled
  <2>3. PICK r \in 0 .. i - 1 : AccountedBy(Stages, KeptLog, i, r)
    BY <1>1, <2>1, StoredSettled DEF Settled, Outcome, Accounted
  <2>4. /\ KeptLog[i].n = r + 1 \/ (KeptLog[i].n = 0 /\ r = 0)
        /\ \A k \in DOMAIN Stages : KeptLog[i].stage = Stages[k].id => KeptLog[i].n <= Stages[k].max_attempts
        /\ \A j \in DOMAIN KeptLog :
             KeptLog[j].event = "EXT_DEP_ATTEMPT" /\ KeptLog[j].stage = id <=> j \in i - r .. i - 1
        /\ \A j \in i - r .. i - 1 : KeptLog[j].n = j + 1 - (i - r)
    BY <1>1, <2>3 DEF AccountedBy
  <2>5. StageWith(id) \in DOMAIN Stages /\ KeptLog[i].stage = Stages[StageWith(id)].id
    BY <1>1, <2>1, CallNamesStage DEF StageOf, CallEvents
  <2>6. i - r .. i - 1 \subseteq DOMAIN KeptLog /\ \A j \in i - r .. i - 1 : j < i
    <3>1. DOMAIN KeptLog = 1 .. Len(KeptLog) /\ Len(KeptLog) \in Nat
      BY <2>2
    <3> QED BY <2>1, <2>2, <3>1
  <2>7. RetriesOf(id) = i - r .. i - 1
    BY <2>4, <2>6 DEF RetriesOf, Rows
  <2>8. /\ Cardinality(i - r .. i - 1) = r
        /\ \A j \in i - r .. i - 1 : Cardinality({k \in i - r .. i - 1 : k <= j}) = j + 1 - (i - r)
    BY <2>2, AccountsAdd
  <2>9. KeptLog[i].n = 0 \/ r = KeptLog[i].n - 1
    BY <2>2, <2>4
  <2>10. /\ KeptLog[i].n = 0 \/ Cardinality(RetriesOf(id)) = KeptLog[i].n - 1
         /\ \A j \in RetriesOf(id) : KeptLog[j].n = Cardinality({k \in RetriesOf(id) : k <= j})
    BY <2>4, <2>7, <2>8, <2>9
  <2> QED BY <2>4, <2>5, <2>6, <2>7, <2>10
<1> QED BY <1>1 DEF RetryAccounting

\* Every try of a call that ended is accounted for, in order and within
\* max_attempts (mock_api.py:183-231, orchestrator.py:272-321).
THEOREM RetriesAreAccounted == Spec => []RetryAccounting
BY SettledAccounts, Invariance, LogInvariance, PTL
-----------------------------------------------------------------------------
\* The rows of some event that is one for each stage are as many as those.
LEMMA OnceCounts ==
  ASSUME NEW S \in Seq(StageConfigs), DistinctIds(S), NEW K \in SUBSET DOMAIN S,
         NEW l \in Seq(AuditRows), NEW events, Once(S, l, events, K)
  PROVE  Cardinality({i \in DOMAIN l : l[i].event \in events}) = Cardinality(K)
<1> DEFINE ends == {i \in DOMAIN l : l[i].event \in events}
           stage == [i \in ends |-> CHOOSE k \in K : l[i].stage = S[k].id]
<1>1. ASSUME NEW i \in ends PROVE stage[i] \in K /\ l[i].stage = S[stage[i]].id
  BY DEF Once
<1>2. stage \in [ends -> K]
  BY <1>1
<1>3. ASSUME NEW i \in ends, NEW j \in ends, stage[i] = stage[j] PROVE i = j
  <2> HIDE DEF stage
  <2>1. stage[i] \in DOMAIN S /\ stage[i] \in Int
    BY <1>1
  <2>2. l[i].stage = S[stage[i]].id /\ l[j].stage = S[stage[i]].id
    BY <1>1, <1>3
  <2>3. i \in DOMAIN l /\ l[i].event \in events /\ j \in DOMAIN l /\ l[j].event \in events
    OBVIOUS
  <2>4. PICK k : k = stage[i]
    OBVIOUS
  <2>5. i < j \/ j < i => k < k
    BY <2>1, <2>2, <2>3, <2>4 DEF Once
  <2> QED BY <2>1, <2>3, <2>4, <2>5
<1>4. ASSUME NEW k \in K PROVE \E i \in ends : stage[i] = k
  <2>1. PICK i \in ends : l[i].stage = S[k].id
    BY DEF Once
  <2>2. stage[i] \in K /\ l[i].stage = S[stage[i]].id
    BY <1>1
  <2> HIDE DEF stage
  <2>3. stage[i] = k
    BY <2>1, <2>2 DEF DistinctIds
  <2> QED BY <2>3
<1> HIDE DEF stage
<1>5. IsFiniteSet(ends)
  <2>1. ends \in SUBSET (1 .. Len(l)) /\ IsFiniteSet(1 .. Len(l))
    BY FS_Interval
  <2> QED BY <2>1, FS_Subset
<1> HIDE DEF ends
<1>6. stage \in Bijection(ends, K)
  BY <1>2, <1>3, <1>4, Fun_IsBij
<1>7. Cardinality(K) = Cardinality(ends)
  BY <1>5, <1>6, FS_Bijection DEF ExistsBijection
<1> QED BY <1>7 DEF ends

\* The stages that failed in a paired log are as many as the calls that did.
LEMMA PairedCounts ==
  ASSUME NEW l \in Seq(AuditRows), Paired(l)
  PROVE  Cardinality({i \in DOMAIN l : l[i].event = "STAGE_FAILED"})
           = Cardinality({i \in DOMAIN l : l[i].event = "EXT_DEP_FAILURE"})
<1> DEFINE calls == {i \in DOMAIN l : l[i].event = "EXT_DEP_FAILURE"}
           stages == {i \in DOMAIN l : l[i].event = "STAGE_FAILED"}
           next == [i \in calls |-> i + 1]
<1>1. calls \subseteq Int /\ stages \subseteq Int
  OBVIOUS
<1>2. ASSUME NEW i \in calls PROVE i + 1 \in stages
  BY DEF Paired
<1>3. ASSUME NEW j \in stages PROVE j - 1 \in calls
  BY DEF Paired
<1>4. IsFiniteSet(calls)
  <2>1. calls \in SUBSET (1 .. Len(l)) /\ Len(l) \in Int
    OBVIOUS
  <2>2. IsFiniteSet(1 .. Len(l))
    BY <2>1, FS_Interval
  <2> QED BY <2>1, <2>2, FS_Subset
<1> HIDE DEF calls, stages
<1>5. next \in [calls -> stages]
  BY <1>2
<1>6. \A i, j \in calls : next[i] = next[j] => i = j
  BY <1>1
<1>7. ASSUME NEW j \in stages PROVE \E i \in calls : next[i] = j
  <2>1. j - 1 \in calls /\ (j - 1) + 1 = j
    BY <1>1, <1>3
  <2>2. next[j - 1] = j
    BY <2>1
  <2> QED BY <2>1, <2>2
<1> HIDE DEF next
<1>8. next \in Bijection(calls, stages)
  BY <1>5, <1>6, <1>7, Fun_IsBij
<1>9. Cardinality(stages) = Cardinality(calls)
  BY <1>4, <1>8, FS_Bijection DEF ExistsBijection
<1> QED BY <1>9 DEF calls, stages

\* What the trace of an approval counts and lists.
LEMMA ApprovalTrace ==
  ASSUME Inv, LogInv, IsStored, Kept.status = "APPROVED"
  PROVE  LET t == Trace(KeptLog, "APPROVED")
         IN  /\ t.mandatory_failures \cup t.soft_failures = {}
             /\ t.stages_failed = Cardinality(Failures({"continue"}))
             /\ t.stages_passed + t.stages_failed = Cardinality(Known)
<1> DEFINE passed == {i \in DOMAIN KeptLog : KeptLog[i].event = "STAGE_COMPLETED"}
           failed == {i \in DOMAIN KeptLog : KeptLog[i].event = "STAGE_FAILED"}
<1>1. /\ KeptLog \in Seq(AuditRows) /\ Stages \in Seq(StageConfigs) /\ DistinctIds(Stages)
      /\ Clean(Stages, KeptLog) /\ Paired(KeptLog)
      /\ Once(Stages, KeptLog, Ending, Known) /\ Known \in SUBSET DOMAIN Stages
  BY StoredSettled DEF Settled, Outcome, Approving, Known
<1>2. \A i \in DOMAIN KeptLog : ~FailedRule(KeptLog[i])
  BY <1>1, CleanFailsNever
<1>3. MandatoryFailures(KeptLog) = {} /\ SoftFailures(KeptLog) = {}
  BY <1>2 DEF MandatoryFailures, SoftFailures, RulesOf, FailedRule
<1>4. CountOf(KeptLog, "STAGE_COMPLETED", {"PASS"}) = Cardinality(passed)
  <2>1. \A i \in passed : KeptLog[i].result = "PASS"
    BY <1>1 DEF Clean, CleanRow
  <2>2. {i \in DOMAIN KeptLog : KeptLog[i].event = "STAGE_COMPLETED" /\ KeptLog[i].result \in {"PASS"}} = passed
    BY <2>1
  <2> QED BY <2>2 DEF CountOf
<1>5. CountOf(KeptLog, "STAGE_FAILED", {"FAIL", "ERROR"}) = Cardinality(failed)
  <2>1. \A i \in failed : KeptLog[i].result = "FAIL"
    BY <1>1 DEF Clean, CleanRow
  <2>2. {i \in DOMAIN KeptLog : KeptLog[i].event = "STAGE_FAILED" /\ KeptLog[i].result \in {"FAIL", "ERROR"}} = failed
    BY <2>1
  <2> QED BY <2>2 DEF CountOf
<1>6. Failures({"continue"}) = {i \in DOMAIN KeptLog : KeptLog[i].event = "EXT_DEP_FAILURE"}
  <2>1. ASSUME NEW i \in Rows("EXT_DEP_FAILURE") PROVE Stages[StageOf(i)].on_failure = "continue"
    <3>1. i \in DOMAIN KeptLog /\ KeptLog[i].event = "EXT_DEP_FAILURE"
      BY <2>1 DEF Rows
    <3>2. PICK k \in DOMAIN Stages : KeptLog[i].stage = Stages[k].id /\ Stages[k].on_failure = "continue"
      BY <1>1, <3>1 DEF Clean, CleanRow, KnownIn
    <3>3. StageOf(i) = k
      BY <1>1, <3>2, StageFound DEF StageOf
    <3> QED BY <3>2, <3>3
  <2> QED BY <2>1 DEF Failures, Rows
<1>7. Cardinality(failed) = Cardinality(Failures({"continue"}))
  BY <1>1, <1>6, PairedCounts
<1>8. Cardinality(passed) + Cardinality(failed) = Cardinality(Known)
  <2>1. Cardinality({i \in DOMAIN KeptLog : KeptLog[i].event \in Ending}) = Cardinality(Known)
    BY <1>1, OnceCounts
  <2>2. {i \in DOMAIN KeptLog : KeptLog[i].event \in Ending} = passed \cup failed
    BY DEF Ending
  <2>3. passed \cap failed = {}
    OBVIOUS
  <2>4. IsFiniteSet(passed) /\ IsFiniteSet(failed)
    <3>1. /\ passed \in SUBSET (1 .. Len(KeptLog)) /\ failed \in SUBSET (1 .. Len(KeptLog))
          /\ IsFiniteSet(1 .. Len(KeptLog))
      BY <1>1, FS_Interval
    <3> QED BY <3>1, FS_Subset
  <2> HIDE DEF passed, failed
  <2>5. Cardinality(passed \cup failed) = Cardinality(passed) + Cardinality(failed) - Cardinality({})
    BY <2>3, <2>4, FS_Union
  <2>6. /\ Cardinality({}) = 0 /\ Cardinality(passed) \in Nat /\ Cardinality(failed) \in Nat
    BY <2>4, FS_EmptySet, FS_CardinalityType
  <2>7. Cardinality(passed \cup failed) = Cardinality(Known)
    BY <2>1, <2>2
  <2>8. Cardinality(passed \cup failed) = Cardinality(passed) + Cardinality(failed)
    BY <2>5, <2>6
  <2> QED BY <2>7, <2>8
<1> HIDE DEF passed, failed
<1>9. /\ Trace(KeptLog, "APPROVED").mandatory_failures = {}
      /\ Trace(KeptLog, "APPROVED").soft_failures = {}
      /\ Trace(KeptLog, "APPROVED").stages_passed = Cardinality(passed)
      /\ Trace(KeptLog, "APPROVED").stages_failed = Cardinality(failed)
  BY <1>3, <1>4, <1>5 DEF Trace
<1> QED BY <1>7, <1>8, <1>9

\* The trace of a settled log supports the status it was settled with.
LEMMA SettledSupports == Inv /\ LogInv => TraceSupportsStatus
<1>1. ASSUME Inv, LogInv, IsStored, Kept.trace # None,
             NEW t, t = Kept.trace
      PROVE  /\ t.mandatory_failures \cap t.soft_failures = {}
             /\ Kept.status = "MANUAL_REVIEW" => t.mandatory_failures \subseteq t.forced_reviews
             /\ Kept.status = "APPROVED" =>
                  /\ t.mandatory_failures \cup t.soft_failures = {}
                  /\ t.stages_failed = Cardinality(Failures({"continue"}))
                  /\ t.stages_passed + t.stages_failed = Cardinality(Known)
  <2>1. t = Trace(KeptLog, Kept.status) /\ FailsOnce(KeptLog)
    BY <1>1, StoredSettled DEF Settled, Outcome
  <2>2. /\ t.mandatory_failures = MandatoryFailures(KeptLog)
        /\ t.soft_failures = SoftFailures(KeptLog)
        /\ t.forced_reviews = ForcedReviews(KeptLog)
    BY <2>1 DEF Trace
  <2>3. \A rule \in MandatoryFailures(KeptLog) : \E i \in DOMAIN KeptLog :
          FailedRule(KeptLog[i]) /\ KeptLog[i].rule = rule /\ KeptLog[i].severity = "mandatory"
    BY DEF MandatoryFailures, RulesOf, FailedRule
  <2>4. \A rule \in SoftFailures(KeptLog) : \E i \in DOMAIN KeptLog :
          FailedRule(KeptLog[i]) /\ KeptLog[i].rule = rule /\ KeptLog[i].severity = "soft"
    BY DEF SoftFailures, RulesOf, FailedRule
  <2>5. MandatoryFailures(KeptLog) \cap SoftFailures(KeptLog) = {}
    <3>1. SUFFICES ASSUME NEW rule \in MandatoryFailures(KeptLog), rule \in SoftFailures(KeptLog)
                   PROVE  FALSE
      OBVIOUS
    <3>2. PICK i \in DOMAIN KeptLog :
            FailedRule(KeptLog[i]) /\ KeptLog[i].rule = rule /\ KeptLog[i].severity = "mandatory"
      BY <2>3
    <3>3. PICK j \in DOMAIN KeptLog :
            FailedRule(KeptLog[j]) /\ KeptLog[j].rule = rule /\ KeptLog[j].severity = "soft"
      BY <2>4, <3>1
    <3>4. i = j
      BY <2>1, <3>2, <3>3 DEF FailsOnce
    <3> QED BY <3>2, <3>3, <3>4
  <2>6. ASSUME Kept.status = "MANUAL_REVIEW"
        PROVE  MandatoryFailures(KeptLog) \subseteq ForcedReviews(KeptLog)
    <3>1. ~HasHard(KeptLog)
      BY <1>1, <2>6, StoredSettled DEF Settled, Outcome, ReplayOf
    <3>2. SUFFICES ASSUME NEW rule \in MandatoryFailures(KeptLog) PROVE rule \in ForcedReviews(KeptLog)
      OBVIOUS
    <3>3. PICK i \in DOMAIN KeptLog :
            FailedRule(KeptLog[i]) /\ KeptLog[i].rule = rule /\ KeptLog[i].severity = "mandatory"
      BY <2>3
    <3>4. KeptLog[i].event = "RULE_EVALUATED" /\ KeptLog[i].action = "force_manual_review"
      BY <3>1, <3>3 DEF HasHard, HardRule, FailedRule
    <3> QED BY <3>3, <3>4 DEF ForcedReviews, RulesOf
  <2>7. ASSUME Kept.status = "APPROVED"
        PROVE  /\ t.mandatory_failures \cup t.soft_failures = {}
               /\ t.stages_failed = Cardinality(Failures({"continue"}))
               /\ t.stages_passed + t.stages_failed = Cardinality(Known)
    BY <1>1, <2>1, <2>7, ApprovalTrace
  <2> QED BY <2>2, <2>5, <2>6, <2>7
<1> QED BY <1>1 DEF TraceSupportsStatus

\* The trace that is stored supports the status that is stored
\* (orchestrator.py:355-446, 569-584).
THEOREM TracesSupportStatus == Spec => []TraceSupportsStatus
BY SettledSupports, Invariance, LogInvariance, PTL
=============================================================================
