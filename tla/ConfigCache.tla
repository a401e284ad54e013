----------------------------- MODULE ConfigCache -----------------------------
(***************************************************************************)
(* load_workflow_config (app/services/config_loader.py): one lru_cache in  *)
(* each worker process over the YAML files, which are edited and removed   *)
(* while calls run.  A call to POST /executions loads its workflow twice,  *)
(* in create_execution and again in run_workflow; both are looked at here  *)
(* and nothing else of the call.                                           *)
(*                                                                         *)
(* The content of a file is a pair <<kind, edit>>: a "config" that can be  *)
(* parsed, a "broken" one, or "missing", as the edit of that number left   *)
(* it.  A cache is a sequence of [id, content], least recently used first. *)
(***************************************************************************)
EXTENDS Naturals, Sequences, FiniteSets, SequencesExt

CONSTANTS Calls, WorkflowIds, Workers,
          WorkflowOf,    \* the workflow_id each call asks for
          WorkerOf,      \* the process each call reaches
          Deployed,      \* workflows that have a file from the start
          MaxSize,       \* maxsize of the lru_cache
          MaxEdits,      \* bounds on the environment
          MaxRestarts

ASSUME ConstantsAssumption ==
  /\ WorkflowOf \in [Calls -> WorkflowIds] /\ WorkerOf \in [Calls -> Workers]
  /\ Deployed \subseteq WorkflowIds
  /\ MaxSize \in Nat \ {0} /\ MaxEdits \in Nat /\ MaxRestarts \in Nat

VARIABLES files,    \* content of <workflow_id>.yaml
          cache,    \* the lru_cache of each worker
          pc,       \* where each call is
          held,     \* content a call has read and not yet cached
          loaded,   \* what its loads returned or raised, in order
          edits, restarts,
          seen,     \* history: contents the call's file had since it began
          used,     \* history: entries touched in its worker since it began
          since     \* history: <<id, content>> there was since a worker began

vars == <<files, cache, pc, held, loaded, edits, restarts, seen, used, since>>

Contents == {"config", "broken", "missing"} \X (0 .. MaxEdits)
Entries == [id : WorkflowIds, content : Contents]
None == <<"missing", 0>>
Active == {"reading", "read", "second"}

Ids(entries) == {entries[i].id : i \in DOMAIN entries}

\* A cache holds each workflow once, no more of them than maxsize, and only
\* contents that were parsed; a call has loaded at most twice.
TypeOK ==
  /\ files \in [WorkflowIds -> Contents]
  /\ cache \in [Workers -> Seq(Entries)]
  /\ \A w \in Workers :
       /\ Len(cache[w]) <= MaxSize
       /\ \A i, j \in DOMAIN cache[w] : cache[w][i].id = cache[w][j].id => i = j
       /\ \A i \in DOMAIN cache[w] : cache[w][i].content[1] = "config"
  /\ pc \in [Calls -> {"first", "ended", "lost"} \cup Active]
  /\ held \in [Calls -> Contents]
  /\ loaded \in [Calls -> Seq(Contents)] /\ \A c \in Calls : Len(loaded[c]) <= 2
  /\ edits \in 0 .. MaxEdits /\ restarts \in 0 .. MaxRestarts
  /\ seen \in [Calls -> SUBSET Contents] /\ used \in [Calls -> SUBSET WorkflowIds]
  /\ since \in [Workers -> SUBSET (WorkflowIds \X Contents)]

Init ==
  /\ files \in [WorkflowIds -> {<<"config", 0>>, None}]
  /\ \A id \in Deployed : files[id] # None
  /\ cache = [w \in Workers |-> <<>>]
  /\ pc = [c \in Calls |-> "first"]
  /\ held = [c \in Calls |-> None]
  /\ loaded = [c \in Calls |-> <<>>]
  /\ edits = 0 /\ restarts = 0
  /\ seen = [c \in Calls |-> {}]
  /\ used = [c \in Calls |-> {}]
  /\ since = [w \in Workers |-> {<<id, files[id]>> : id \in WorkflowIds}]

-----------------------------------------------------------------------------
File(c) == files[WorkflowOf[c]]
Cache(c) == cache[WorkerOf[c]]
Cached(c) == WorkflowOf[c] \in Ids(Cache(c))
PlaceOf(c) == CHOOSE i \in DOMAIN Cache(c) : Cache(c)[i].id = WorkflowOf[c]
EntryOf(c) == Cache(c)[PlaceOf(c)]

Goto(c, step) == pc' = [pc EXCEPT ![c] = step]

\* A load returns to create_execution, which goes on to run_workflow, or to
\* run_workflow; an exception ends the call.
Return(c, content) ==
  /\ loaded' = [loaded EXCEPT ![c] = Append(@, content)]
  /\ Goto(c, IF content[1] = "config" /\ loaded[c] = <<>> THEN "second" ELSE "ended")

\* History only: call c begins with its first lookup.
Begins(c) == seen' = [seen EXCEPT ![c] = IF pc[c] = "first" THEN {File(c)} ELSE @]

\* History only: c's entry becomes the most recent one of its worker.
Touch(c) ==
  used' = [d \in Calls |-> IF pc[d] \in Active /\ WorkerOf[d] = WorkerOf[c]
                           THEN used[d] \cup {WorkflowOf[c]} ELSE used[d]]

-----------------------------------------------------------------------------
MostRecent(entries, i) == Append(RemoveAt(entries, i), entries[i])

\* Faulty variant: a hit leaves the order as it is.
HitInPlace(c) ==
  /\ pc[c] \in {"first", "second"} /\ Cached(c)
  /\ Return(c, EntryOf(c).content)
  /\ Begins(c) /\ Touch(c)
  /\ UNCHANGED <<files, cache, held, edits, restarts, since>>

\* A hit moves the entry to the recent end and returns it.
Hit(c) ==
  /\ pc[c] \in {"first", "second"} /\ Cached(c)
  /\ cache' = [cache EXCEPT ![WorkerOf[c]] = MostRecent(@, PlaceOf(c))]
  /\ Return(c, EntryOf(c).content)
  /\ Begins(c) /\ Touch(c)
  /\ UNCHANGED <<files, held, edits, restarts, since>>

\* A miss calls the function, without any lock.
Miss(c) ==
  /\ pc[c] \in {"first", "second"} /\ ~Cached(c)
  /\ Goto(c, "reading")
  /\ Begins(c)
  /\ UNCHANGED <<files, cache, held, loaded, edits, restarts, used, since>>

\* Faulty variant: the failure is kept like a result.
ReadAnything(c) ==
  /\ pc[c] = "reading"
  /\ held' = [held EXCEPT ![c] = File(c)]
  /\ Goto(c, "read")
  /\ UNCHANGED <<files, cache, loaded, edits, restarts, seen, used, since>>

\* The file is read and parsed; FileNotFoundError and YAMLError leave the
\* function, and the cache keeps nothing of them.
Read(c) ==
  /\ pc[c] = "reading"
  /\ IF File(c)[1] = "config"
     THEN Goto(c, "read") /\ held' = [held EXCEPT ![c] = File(c)] /\ UNCHANGED loaded
     ELSE Return(c, File(c)) /\ UNCHANGED held
  /\ UNCHANGED <<files, cache, edits, restarts, seen, used, since>>

Insert(entries, e) ==
  Append(IF Len(entries) < MaxSize THEN entries ELSE Tail(entries), e)

\* Faulty variant: nobody looks whether the entry came in meanwhile.
StoreAgain(c) ==
  /\ pc[c] = "read"
  /\ cache' = [cache EXCEPT ![WorkerOf[c]] =
                 Insert(@, [id |-> WorkflowOf[c], content |-> held[c]])]
  /\ Touch(c)
  /\ Return(c, held[c])
  /\ held' = [held EXCEPT ![c] = None]
  /\ UNCHANGED <<files, edits, restarts, seen, since>>

\* The result goes to the recent end, in the place of the oldest entry if the
\* cache is full; if another call cached the same workflow meanwhile, that
\* entry and its place stay as they are.  This call gets what it has read.
Store(c) ==
  /\ pc[c] = "read"
  /\ IF Cached(c)
     THEN UNCHANGED <<cache, used>>
     ELSE /\ cache' = [cache EXCEPT ![WorkerOf[c]] =
                         Insert(@, [id |-> WorkflowOf[c], content |-> held[c]])]
          /\ Touch(c)
  /\ Return(c, held[c])
  /\ held' = [held EXCEPT ![c] = None]
  /\ UNCHANGED <<files, edits, restarts, seen, since>>

-----------------------------------------------------------------------------
\* Someone deploys, changes, breaks or removes a YAML file.
Edit(id) ==
  /\ edits < MaxEdits
  /\ edits' = edits + 1
  /\ \E kind \in {"config", "broken", "missing"} :
       /\ files' = [files EXCEPT ![id] = <<kind, edits + 1>>]
       /\ since' = [w \in Workers |-> since[w] \cup {<<id, <<kind, edits + 1>>>>}]
       /\ seen' = [c \in Calls |-> IF pc[c] \in Active /\ WorkflowOf[c] = id
                                   THEN seen[c] \cup {<<kind, edits + 1>>} ELSE seen[c]]
  /\ UNCHANGED <<cache, pc, held, loaded, restarts, used>>

\* The calls a process runs end with it, and what they had loaded.
InFlight(w) == {c \in Calls : WorkerOf[c] = w /\ pc[c] \in Active}
Without(f, w, value) == [c \in Calls |-> IF c \in InFlight(w) THEN value ELSE f[c]]

LoseCalls(w) ==
  /\ pc' = Without(pc, w, "lost") /\ held' = Without(held, w, None)
  /\ loaded' = Without(loaded, w, <<>>)
  /\ seen' = Without(seen, w, {}) /\ used' = Without(used, w, {})

\* Faulty variant: the cache outlives the process.
RestartWarm(w) ==
  /\ restarts < MaxRestarts
  /\ restarts' = restarts + 1
  /\ LoseCalls(w)
  /\ since' = [since EXCEPT ![w] = {<<id, files[id]>> : id \in WorkflowIds}]
  /\ UNCHANGED <<files, cache, edits>>

\* The process is restarted: its cache and the calls in it are gone.
Restart(w) ==
  /\ restarts < MaxRestarts
  /\ restarts' = restarts + 1
  /\ cache' = [cache EXCEPT ![w] = <<>>]
  /\ LoseCalls(w)
  /\ since' = [since EXCEPT ![w] = {<<id, files[id]>> : id \in WorkflowIds}]
  /\ UNCHANGED <<files, edits>>

Load(c) == Hit(c) \/ Miss(c) \/ Read(c) \/ Store(c)

Next ==
  \/ \E c \in Calls : Load(c)
  \/ \E id \in WorkflowIds : Edit(id)
  \/ \E w \in Workers : Restart(w)

Spec == Init /\ [][Next]_vars

-----------------------------------------------------------------------------
Loads(c) == ToSet(loaded[c])
Failed(content) == content[1] # "config"

\* A failure is never cached: a call is told that its workflow is missing or
\* broken only if it was while the call ran, so a workflow that is deployed is
\* found by every later call (config_loader.py:52-61, main.py:126-133).
FailuresAreCurrent ==
  \A c \in Calls : \A x \in Loads(c) : Failed(x) => x \in seen[c]

\* A call keeps the workflow it was accepted with: its second load goes to the
\* file, which may be gone by then, only if maxsize other workflows were used
\* in the worker meanwhile (config_loader.py:33, orchestrator.py:484-492).
AcceptedWorkflowStays ==
  \A c \in Calls :
    pc[c] = "reading" /\ loaded[c] # <<>>
      => Cardinality(used[c] \ {WorkflowOf[c]}) >= MaxSize

\* A worker never uses a content from before its start: a restart is enough to
\* deploy a change ("process restart", docs/architecture.md:420).
FreshAfterRestart ==
  [][\A c \in Calls : Len(loaded'[c]) > Len(loaded[c])
       => <<WorkflowOf[c], Last(loaded'[c])>> \in since[WorkerOf[c]]]_vars

\* "The engine picks up the change on the next request (cache cleared
\* automatically in production via config hot-reload or process restart)"
\* (docs/architecture.md:420): a call uses what its file holds since it began.
PicksUpChange == \A c \in Calls : Loads(c) \subseteq seen[c]

=============================================================================
