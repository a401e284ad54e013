------------------------- MODULE ServerPoolsProofs -------------------------
(***************************************************************************)
(* Theorems about ServerPools, for any number of threads, connections and  *)
(* calls: who holds what, and the one way in which a worker gets stuck.    *)
(***************************************************************************)
EXTENDS ServerPools, FiniteSetTheorems, SequenceTheorems, TLAPS

States == Queued \cup InThread \cup {"closing"} \cup Outside

Queue == {queue[i] : i \in DOMAIN queue}

\* The parts of TypeOK.
Places ==
  /\ pc \in [Calls -> States]
  /\ threads = At(InThread) /\ Cardinality(threads) <= Threads
  /\ At(Connected) \subseteq conns /\ conns \subseteq At(Connected \cup {"closing"})
  /\ Cardinality(conns) <= Connections

InLine ==
  /\ queue \in Seq(Calls)
  /\ Queue = At(Queued)
  /\ \A i, j \in DOMAIN queue : queue[i] = queue[j] => i = j

\* TypeOK in the two parts that are proved one by one.
LEMMA TypeParts == TypeOK <=> Places /\ InLine
BY DEF TypeOK, Places, InLine, Queue, States

-----------------------------------------------------------------------------
\* A call that was not in the queue is appended to it once.
LEMMA Appended ==
  ASSUME InLine, NEW c \in Calls, c \notin Queue, queue' = Append(queue, c)
  PROVE  /\ queue' \in Seq(Calls) /\ Queue' = Queue \cup {c}
         /\ \A i, j \in DOMAIN queue' : queue'[i] = queue'[j] => i = j
<1>1. /\ queue' \in Seq(Calls) /\ DOMAIN queue' = 1 .. (Len(queue) + 1)
      /\ DOMAIN queue = 1 .. Len(queue) /\ Len(queue) \in Nat
  BY DEF InLine
<1>2. \A i \in 1 .. Len(queue) : queue'[i] = queue[i]
  BY DEF InLine
<1>3. queue'[Len(queue) + 1] = c
  BY DEF InLine
<1>4. Queue' = Queue \cup {c}
  BY <1>1, <1>2, <1>3 DEF Queue
<1>5. ASSUME NEW i \in DOMAIN queue', NEW j \in DOMAIN queue', queue'[i] = queue'[j]
      PROVE  i = j
  <2>1. CASE i \in DOMAIN queue /\ j \in DOMAIN queue
    BY <1>1, <1>2, <1>5, <2>1 DEF InLine
  <2>2. CASE i \notin DOMAIN queue \/ j \notin DOMAIN queue
    BY <1>1, <1>2, <1>3, <1>5, <2>2 DEF Queue
  <2> QED BY <2>1, <2>2
<1> QED BY <1>1, <1>4, <1>5

\* The call at the head leaves the queue and nobody else does.
LEMMA Dequeued ==
  ASSUME InLine, queue # <<>>, queue' = Tail(queue)
  PROVE  /\ queue' \in Seq(Calls) /\ Queue' = Queue \ {Head(queue)}
         /\ Head(queue) \in Queue /\ Head(queue) \in Calls
         /\ \A i, j \in DOMAIN queue' : queue'[i] = queue'[j] => i = j
<1>1. /\ Len(queue) \in Nat \ {0} /\ DOMAIN queue = 1 .. Len(queue)
      /\ Head(queue) = queue[1] /\ Head(queue) \in Calls
  BY EmptySeq DEF InLine
<1>2. /\ queue' \in Seq(Calls) /\ DOMAIN queue' = 1 .. (Len(queue) - 1)
      /\ \A i \in 1 .. (Len(queue) - 1) : queue'[i] = queue[i + 1]
  BY HeadTailProperties, <1>1 DEF InLine
<1>3. \A i \in 1 .. Len(queue) : i # 1 => i - 1 \in DOMAIN queue' /\ queue'[i - 1] = queue[i]
  BY <1>1, <1>2
<1>4. \A i \in DOMAIN queue' : i + 1 \in DOMAIN queue /\ i + 1 # 1 /\ queue'[i] = queue[i + 1]
  BY <1>1, <1>2
<1>5. Queue' = Queue \ {Head(queue)}
  <2>1. ASSUME NEW x \in Queue' PROVE x \in Queue \ {Head(queue)}
    <3>1. PICK i \in DOMAIN queue' : x = queue'[i]
      BY DEF Queue
    <3>2. queue[i + 1] # queue[1]
      BY <1>1, <1>4 DEF InLine
    <3> QED BY <1>1, <1>4, <3>1, <3>2 DEF Queue
  <2>2. ASSUME NEW x \in Queue \ {Head(queue)} PROVE x \in Queue'
    <3>1. PICK i \in DOMAIN queue : x = queue[i]
      BY DEF Queue
    <3> QED BY <1>1, <1>3, <3>1 DEF Queue
  <2> QED BY <2>1, <2>2
<1>6. \A i, j \in DOMAIN queue' : queue'[i] = queue'[j] => i = j
  <2> SUFFICES ASSUME NEW i \in DOMAIN queue', NEW j \in DOMAIN queue', queue'[i] = queue'[j]
               PROVE  i = j
    OBVIOUS
  <2>1. i + 1 = j + 1
    BY <1>4 DEF InLine
  <2> QED BY <1>2, <2>1
<1>7. Head(queue) \in Queue
  BY <1>1 DEF Queue
<1> QED BY <1>1, <1>2, <1>5, <1>6, <1>7

\* Both pools are sets of calls, and there are finitely many calls.
LEMMA PoolsFinite ==
  ASSUME Places
  PROVE  /\ IsFiniteSet(threads) /\ Cardinality(threads) \in Nat
         /\ IsFiniteSet(conns) /\ Cardinality(conns) \in Nat
<1>1. threads \subseteq Calls /\ conns \subseteq Calls
  BY DEF Places, At
<1> QED BY <1>1, PoolsAssumption, FS_Subset, FS_CardinalityType

\* A finite set with one element more or less.
LEMMA OneMoreOrLess ==
  ASSUME NEW S, IsFiniteSet(S), NEW c
  PROVE  /\ Cardinality(S) \in Nat
         /\ Cardinality(S \ {c}) \in Nat /\ Cardinality(S \ {c}) <= Cardinality(S)
         /\ Cardinality(S \cup {c}) \in Nat /\ Cardinality(S \cup {c}) <= Cardinality(S) + 1
<1>1. Cardinality(S) \in Nat
  BY FS_CardinalityType
<1>2. /\ IsFiniteSet(S \ {c})
      /\ Cardinality(S \ {c}) = IF c \in S THEN Cardinality(S) - 1 ELSE Cardinality(S)
  BY FS_RemoveElement
<1>3. Cardinality(S \ {c}) \in Nat
  BY <1>2, FS_CardinalityType
<1>4. Cardinality(S \cup {c}) = IF c \in S THEN Cardinality(S) ELSE Cardinality(S) + 1
  BY FS_AddElement
<1> QED BY <1>1, <1>2, <1>3, <1>4

\* Giving something back makes a pool no larger, and taking something from a
\* pool that is not exhausted does not exceed it.
LEMMA PoolBounds ==
  ASSUME Places, NEW c
  PROVE  /\ Cardinality(threads \ {c}) <= Threads
         /\ Cardinality(conns \ {c}) <= Connections
         /\ Cardinality(threads) < Threads => Cardinality(threads \cup {c}) <= Threads
         /\ Cardinality(conns) < Connections => Cardinality(conns \cup {c}) <= Connections
<1>1. /\ Cardinality(threads) \in Nat
      /\ Cardinality(threads \ {c}) \in Nat /\ Cardinality(threads \ {c}) <= Cardinality(threads)
      /\ Cardinality(threads \cup {c}) \in Nat
      /\ Cardinality(threads \cup {c}) <= Cardinality(threads) + 1
  BY PoolsFinite, OneMoreOrLess
<1>2. /\ Cardinality(conns) \in Nat
      /\ Cardinality(conns \ {c}) \in Nat /\ Cardinality(conns \ {c}) <= Cardinality(conns)
      /\ Cardinality(conns \cup {c}) \in Nat
      /\ Cardinality(conns \cup {c}) <= Cardinality(conns) + 1
  BY PoolsFinite, OneMoreOrLess
<1> QED BY <1>1, <1>2, PoolsAssumption DEF Places

-----------------------------------------------------------------------------
\* Nobody holds anything before the first call.
LEMMA InitInv == Init => TypeOK
<1> SUFFICES ASSUME Init PROVE Places /\ InLine
  BY TypeParts
<1>1. \A c \in Calls : pc[c] = "idle"
  BY DEF Init
<1>2. At(InThread) = {} /\ At(Queued) = {} /\ At(Connected) = {}
  BY <1>1 DEF At, InThread, Wanting, Queued, Connected
<1>3. Cardinality({}) = 0
  BY FS_EmptySet
<1>4. Places
  BY <1>2, <1>3, PoolsAssumption DEF Init, Places, States, Outside
<1>5. InLine
  BY <1>2, EmptySeq DEF Init, InLine, Queue
<1> QED BY <1>4, <1>5

\* What a call at step `from`, sent to step `to`, has to take and give back.
LEMMA Moved ==
  ASSUME Places, NEW c \in Calls, NEW to \in States, Goto(c, to),
         threads' = IF to \in InThread THEN threads \cup {c} ELSE threads \ {c},
         Cardinality(threads') <= Threads,
         conns' \in {conns, conns \cup {c}, conns \ {c}}, Cardinality(conns') <= Connections,
         to \in Connected => c \in conns',
         c \in conns' => to \in Connected \cup {"closing"}
  PROVE  Places'
<1>1. pc' \in [Calls -> States] /\ \A d \in Calls : pc'[d] = IF d = c THEN to ELSE pc[d]
  BY DEF Places, Goto
<1>2. threads' = At(InThread)'
  BY <1>1 DEF Places, At
<1>3. At(Connected)' \subseteq conns'
  BY <1>1 DEF Places, At
<1>4. conns' \subseteq At(Connected \cup {"closing"})'
  BY <1>1 DEF Places, At
<1> QED BY <1>1, <1>2, <1>3, <1>4 DEF Places

\* A call that neither joins nor leaves the queue.
LEMMA StaysOut ==
  ASSUME Places, InLine, NEW c \in Calls, NEW to \in States \ Queued, pc[c] \notin Queued,
         Goto(c, to), UNCHANGED queue
  PROVE  InLine'
<1>1. \A d \in Calls : pc'[d] = IF d = c THEN to ELSE pc[d]
  BY DEF Places, Goto
<1>2. At(Queued)' = At(Queued)
  BY <1>1 DEF At
<1> QED BY <1>2 DEF InLine, Queue

\* A call that joins the queue.
LEMMA Joins ==
  ASSUME Places, InLine, NEW c \in Calls, NEW to \in Queued, pc[c] \notin Queued,
         Enqueue(c, to)
  PROVE  InLine'
<1>1. \A d \in Calls : pc'[d] = IF d = c THEN to ELSE pc[d]
  BY DEF Places, Enqueue, Goto
<1>2. At(Queued)' = At(Queued) \cup {c}
  BY <1>1 DEF At
<1>3. c \notin Queue
  BY DEF InLine, At
<1>4. queue' = Append(queue, c)
  BY DEF Enqueue
<1>5. /\ queue' \in Seq(Calls) /\ Queue' = Queue \cup {c}
      /\ \A i, j \in DOMAIN queue' : queue'[i] = queue'[j] => i = j
  BY <1>3, <1>4, Appended
<1> QED BY <1>2, <1>5 DEF InLine

-----------------------------------------------------------------------------
\* A call enters the first queue.
LEMMA ArriveStep == ASSUME TypeOK, NEW c \in Calls, Arrive(c) PROVE TypeOK'
<1> DEFINE to == IF KindOf[c] = "plain" THEN "wait_run" ELSE "wait_enter"
<1>1. Places /\ InLine
  BY TypeParts
<1>2. pc[c] = "idle" /\ to \in Queued /\ Enqueue(c, to) /\ UNCHANGED <<threads, conns>>
  BY DEF Arrive, Queued
<1> HIDE DEF to
<1>3. pc[c] \notin Queued \cup InThread \cup Connected \cup {"closing"}
  BY <1>2 DEF Queued, InThread, Wanting, Connected
<1>4. InLine'
  BY <1>1, <1>2, <1>3, Joins
<1>5. \A d \in Calls : pc'[d] = IF d = c THEN to ELSE pc[d]
  BY <1>1, <1>2 DEF Places, Enqueue, Goto
<1>6. to \notin InThread \cup {"closing"}
  BY <1>2 DEF Queued, InThread, Wanting
<1>7. to # "wait_serialize"
  BY DEF to
<1>8. to \notin Connected
  BY <1>2, <1>6, <1>7 DEF Queued, Connected
<1>9. pc' \in [Calls -> States]
  BY <1>1, <1>2 DEF Places, Enqueue, Goto, States
<1>10. /\ At(InThread)' = At(InThread) /\ At(Connected)' = At(Connected)
       /\ At(Connected \cup {"closing"})' = At(Connected \cup {"closing"})
  BY <1>3, <1>5, <1>6, <1>8 DEF At
<1>11. Places'
  BY <1>1, <1>2, <1>9, <1>10 DEF Places
<1> QED BY <1>4, <1>11, TypeParts, PTL

\* A thread goes to the head of the queue.
LEMMA GrantStep == ASSUME TypeOK, GrantThread PROVE TypeOK'
<1> DEFINE c == Head(queue)
           to == Granted(pc[c])
<1>1. Places /\ InLine
  BY TypeParts
<1>2. /\ queue # <<>> /\ queue' = Tail(queue) /\ Cardinality(threads) < Threads
      /\ threads' = threads \cup {c} /\ Goto(c, to) /\ UNCHANGED conns
  BY DEF GrantThread
<1>3. /\ queue' \in Seq(Calls) /\ Queue' = Queue \ {c} /\ c \in Queue /\ c \in Calls
      /\ \A i, j \in DOMAIN queue' : queue'[i] = queue'[j] => i = j
  BY <1>1, <1>2, Dequeued
<1>4. pc[c] \in Queued
  BY <1>1, <1>3 DEF InLine, At
<1>5. /\ to \in {"enter", "begin", "serialize"}
      /\ to = "serialize" <=> pc[c] = "wait_serialize"
  BY <1>4 DEF Queued, Granted
<1> HIDE DEF c, to
<1>6. to \in InThread /\ to \in States /\ to \notin Queued
  BY <1>5 DEF InThread, States, Queued
<1>7. Cardinality(threads') <= Threads
  BY <1>1, <1>2, PoolBounds
<1>8. c \in conns <=> pc[c] = "wait_serialize"
  BY <1>1, <1>3, <1>4 DEF Places, At, Queued, Connected
<1>9. Places'
  <2>1. to \in Connected => c \in conns'
    BY <1>2, <1>5, <1>8 DEF Connected
  <2>2. c \in conns' => to \in Connected \cup {"closing"}
    BY <1>2, <1>5, <1>8 DEF Connected
  <2>3. Cardinality(conns') <= Connections /\ conns' = conns
    BY <1>1, <1>2 DEF Places
  <2>4. threads' = IF to \in InThread THEN threads \cup {c} ELSE threads \ {c}
    BY <1>2, <1>6
  <2> QED BY <1>1, <1>2, <1>3, <1>6, <1>7, <2>1, <2>2, <2>3, <2>4, Moved
<1>10. \A d \in Calls : pc'[d] = IF d = c THEN to ELSE pc[d]
  BY <1>1, <1>2 DEF Places, Goto
<1>11. At(Queued)' = At(Queued) \ {c}
  BY <1>6, <1>10 DEF At
<1>12. InLine'
  BY <1>1, <1>3, <1>11 DEF InLine
<1> QED BY <1>9, <1>12, TypeParts, PTL

\* The steps of a call in a thread, and the close after it.
LEMMA CallStep == ASSUME TypeOK, NEW c \in Calls, Step(c) PROVE TypeOK'
<1>1. Places /\ InLine
  BY TypeParts
<1>2. pc[c] \in InThread \cup {"closing"}
  BY DEF Step, EnterDb, Begin, Connect, PoolTimeout, Replay, Run, Build, Serialize, Close,
         InThread, Wanting
<1>3. pc[c] \notin Queued /\ (c \in threads <=> pc[c] # "closing")
  BY <1>1, <1>2 DEF Places, At, InThread, Wanting, Queued
<1>4. /\ pc[c] \in {"enter", "begin"} \cup Wanting => c \notin conns
      /\ pc[c] \in {"run", "replay", "build", "serialize"} => c \in conns
  BY <1>1 DEF Places, At, Connected, Wanting
<1>5. PICK to \in States :
        /\ Goto(c, to)
        /\ threads' = IF to \in InThread THEN threads ELSE threads \ {c}
        /\ IF to \in Queued THEN Enqueue(c, to) ELSE UNCHANGED queue
        /\ \/ UNCHANGED conns
           \/ conns' = conns \ {c}
           \/ conns' = conns \cup {c} /\ Cardinality(conns) < Connections
        /\ to \in Connected => c \in conns'
        /\ c \in conns' => to \in Connected \cup {"closing"}
        /\ to \in InThread => c \in threads
  <2> USE <1>3, <1>4 DEF States, InThread, Queued, Wanting, Connected, Outside
  <2>1. CASE EnterDb(c)
    BY <2>1 DEF EnterDb, Enqueue, Leave
  <2>2. CASE Begin(c)
    BY <2>2 DEF Begin, Leave
  <2>3. CASE Connect(c)
    BY <2>3 DEF Connect, Granting
  <2>4. CASE PoolTimeout(c)
    BY <2>4 DEF PoolTimeout, Leave
  <2>5. CASE Replay(c)
    BY <2>5 DEF Replay, Leave
  <2>6. CASE Run(c)
    BY <2>6 DEF Run, Leave
  <2>7. CASE Build(c)
    BY <2>7 DEF Build, Leave, Enqueue
  <2>8. CASE Serialize(c)
    BY <2>8 DEF Serialize, Leave
  <2>9. CASE Close(c)
    BY <2>9 DEF Close
  <2> QED BY <2>1, <2>2, <2>3, <2>4, <2>5, <2>6, <2>7, <2>8, <2>9 DEF Step
<1>6. threads' = IF to \in InThread THEN threads \cup {c} ELSE threads \ {c}
  BY <1>5
<1>7. Cardinality(threads') <= Threads
  BY <1>1, <1>5, PoolBounds DEF Places
<1>8. conns' \in {conns, conns \cup {c}, conns \ {c}} /\ Cardinality(conns') <= Connections
  BY <1>1, <1>5, PoolBounds DEF Places
<1>9. Places'
  BY <1>1, <1>5, <1>6, <1>7, <1>8, Moved
<1>10. InLine'
  <2>1. CASE to \in Queued
    BY <1>1, <1>3, <1>5, <2>1, Joins
  <2>2. CASE to \notin Queued
    BY <1>1, <1>3, <1>5, <2>2, StaysOut
  <2> QED BY <2>1, <2>2
<1> QED BY <1>9, <1>10, TypeParts, PTL

\* Threads and connections are where the calls' progress says they are, and
\* both pools stay within their sizes (main.py:51-57, db.py:207-217).
THEOREM PoolsAccounted == Spec => []TypeOK
<1>1. TypeOK /\ [Next]_vars => TypeOK'
  <2> SUFFICES ASSUME TypeOK, [Next]_vars PROVE TypeOK'
    OBVIOUS
  <2>1. CASE UNCHANGED vars
    BY <2>1 DEF vars, TypeOK, At
  <2> QED BY <2>1, ArriveStep, GrantStep, CallStep DEF Next
<1> QED BY <1>1, InitInv, PTL DEF Spec

-----------------------------------------------------------------------------
\* What a stuck worker looks like follows from who holds what.
LEMMA StuckShape == TypeOK => StuckOnBothPools
<1> SUFFICES ASSUME TypeOK, Stuck
             PROVE  /\ threads = At(Wanting) /\ Cardinality(threads) = Threads
                    /\ conns = At({"wait_serialize"}) /\ Cardinality(conns) = Connections
                    /\ Cardinality(Calls \ At(Outside)) >= Threads + Connections
  BY DEF StuckOnBothPools
<1>1. Places /\ InLine
  BY TypeParts
<1>2. \A d \in Calls : /\ pc[d] \in Queued \cup Wanting \cup Outside
                       /\ pc[d] \in Wanting => Cardinality(conns) >= Connections
  <2> SUFFICES ASSUME NEW d \in Calls
               PROVE  /\ pc[d] \in Queued \cup Wanting \cup Outside
                      /\ pc[d] \in Wanting => Cardinality(conns) >= Connections
    OBVIOUS
  <2>1. pc[d] \in States /\ ~CanGoOn(d)
    BY <1>1 DEF Stuck, Places
  <2>2. Cardinality(conns) \in Nat
    BY <1>1, PoolsFinite
  <2> QED BY <2>1, <2>2, PoolsAssumption DEF CanGoOn, States
<1>3. threads = At(Wanting) /\ conns = At({"wait_serialize"})
  BY <1>1, <1>2 DEF Places, At, Queued, Wanting, Outside, InThread, Connected
<1>4. At(Wanting) # {} => Cardinality(conns) = Connections
  BY <1>1, <1>2, PoolsFinite, PoolsAssumption DEF Places, At
<1>5. /\ Cardinality(threads) \in Nat /\ Cardinality(conns) \in Nat
      /\ IsFiniteSet(threads) /\ IsFiniteSet(conns)
  BY <1>1, PoolsFinite
<1>6. queue # <<>>
  <2> SUFFICES ASSUME queue = <<>> PROVE FALSE
    OBVIOUS
  <2>1. At(Queued) = {}
    BY <1>1 DEF InLine, Queue
  <2>2. At(Wanting) # {}
    BY <1>2, <2>1 DEF Stuck, At
  <2>3. conns = {}
    BY <1>3, <2>1 DEF At, Queued
  <2>4. Cardinality(conns) = 0
    BY <2>3, FS_EmptySet
  <2> QED BY <1>4, <2>2, <2>4, PoolsAssumption
<1>7. Cardinality(threads) = Threads
  BY <1>1, <1>5, <1>6, PoolsAssumption DEF Stuck, Places
<1>8. At(Wanting) # {}
  <2>1. Cardinality({}) = 0
    BY FS_EmptySet
  <2> QED BY <1>3, <1>7, <2>1, PoolsAssumption
<1>9. Cardinality(Calls \ At(Outside)) >= Threads + Connections
  <2>1. threads \cup conns \subseteq Calls \ At(Outside) /\ threads \cap conns = {}
    BY <1>3 DEF At, Wanting, Outside
  <2>2. IsFiniteSet(Calls \ At(Outside))
    BY PoolsAssumption, FS_Subset
  <2>3. Cardinality(threads \cup conns) <= Cardinality(Calls \ At(Outside))
    BY <2>1, <2>2, FS_Subset
  <2>4. Cardinality(threads \cup conns) = Threads + Connections
    <3>1. Cardinality(threads \cup conns)
            = Cardinality(threads) + Cardinality(conns) - Cardinality(threads \cap conns)
      BY <1>5, FS_Union
    <3>2. Cardinality(threads \cap conns) = 0
      BY <2>1, FS_EmptySet
    <3> QED BY <1>4, <1>7, <1>8, <3>1, <3>2, PoolsAssumption
  <2> QED BY <2>3, <2>4
<1> QED BY <1>3, <1>4, <1>7, <1>8, <1>9

\* Only calls that wait for a connection with every thread, while calls that
\* wait for a thread have every connection, can bring a worker to a halt, and
\* it takes as many calls as both pools hold (main.py:52-57, db.py:207-217).
THEOREM GridlockNeedsBothPools == Spec => []StuckOnBothPools
BY PoolsAccounted, StuckShape, PTL
=============================================================================
