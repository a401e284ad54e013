------------------------- MODULE ConfigCacheProofs -------------------------
(***************************************************************************)
(* Theorems about ConfigCache, for any number of workflows, workers and    *)
(* edits: the cache keeps its form, a failure is never stale, a restart    *)
(* forgets every old content, and an accepted call keeps its workflow      *)
(* until maxsize others were used.                                         *)
(*                                                                         *)
(* The last rests on an order: while a call runs, every entry that is more *)
(* recent than the call's own is one that was used since the call began.   *)
(***************************************************************************)
EXTENDS ConfigCache, SequenceTheorems, FiniteSetTheorems, TLAPS

\* A cache as lru_cache keeps it.
WellFormed(s) ==
  /\ s \in Seq(Entries) /\ Len(s) <= MaxSize
  /\ \A i, j \in DOMAIN s : s[i].id = s[j].id => i = j
  /\ \A i \in DOMAIN s : s[i].content[1] = "config"

\* The entry of a workflow goes to the recent end and the others keep their
\* order (a hit of lru_cache).
LEMMA MostRecentOrder ==
  ASSUME NEW s \in Seq(Entries), NEW k \in DOMAIN s
  PROVE  /\ MostRecent(s, k) \in Seq(Entries) /\ Len(MostRecent(s, k)) = Len(s)
         /\ \A i \in 1 .. Len(s) : MostRecent(s, k)[i] =
              IF i < k THEN s[i] ELSE IF i < Len(s) THEN s[i + 1] ELSE s[k]
<1>1. Len(s) \in Nat /\ k \in 1 .. Len(s) /\ \A i \in 1 .. Len(s) : s[i] \in Entries
  BY LenProperties, ElementOfSeq
<1> DEFINE front == SubSeq(s, 1, k - 1)
           back == SubSeq(s, k + 1, Len(s))
<1>2. /\ front \in Seq(Entries) /\ Len(front) = k - 1
      /\ \A i \in 1 .. (k - 1) : front[i] = s[i]
  <2>1. \A i \in 1 .. (k - 1) : s[i] \in Entries
    BY <1>1
  <2> QED BY <1>1, <2>1, SubSeqProperties
<1>3. /\ back \in Seq(Entries) /\ Len(back) = Len(s) - k
      /\ \A i \in 1 .. (Len(s) - k) : back[i] = s[k + i]
  <2>1. \A i \in (k + 1) .. Len(s) : s[i] \in Entries
    BY <1>1
  <2> QED BY <1>1, <2>1, SubSeqProperties
<1> HIDE DEF front, back
<1> DEFINE rest == front \o back
<1>4. /\ rest \in Seq(Entries) /\ Len(rest) = Len(s) - 1
      /\ \A i \in 1 .. (Len(s) - 1) : rest[i] = IF i < k THEN s[i] ELSE s[i + 1]
  BY <1>1, <1>2, <1>3
<1>5. MostRecent(s, k) = Append(rest, s[k])
  BY DEF MostRecent, RemoveAt, front, back
<1> HIDE DEF rest
<1> QED BY <1>1, <1>4, <1>5

\* A new entry goes to the recent end, in the place of the oldest if the cache
\* is full (the store of lru_cache after a miss).
LEMMA InsertOrder ==
  ASSUME NEW s \in Seq(Entries), Len(s) <= MaxSize, NEW e \in Entries
  PROVE  /\ Insert(s, e) \in Seq(Entries)
         /\ Len(s) < MaxSize =>
              /\ Len(Insert(s, e)) = Len(s) + 1
              /\ \A i \in 1 .. Len(s) : Insert(s, e)[i] = s[i]
         /\ ~(Len(s) < MaxSize) =>
              /\ Len(Insert(s, e)) = MaxSize /\ Len(s) = MaxSize
              /\ \A i \in 1 .. (Len(s) - 1) : Insert(s, e)[i] = s[i + 1]
         /\ Insert(s, e)[Len(Insert(s, e))] = e
<1>1. Len(s) \in Nat /\ MaxSize \in Nat \ {0}
  BY LenProperties, ConstantsAssumption
<1>2. CASE Len(s) < MaxSize
  BY <1>1, <1>2 DEF Insert
<1>3. CASE ~(Len(s) < MaxSize)
  <2>1. Len(s) = MaxSize /\ s # <<>>
    BY <1>1, <1>3, EmptySeq
  <2>2. /\ Tail(s) \in Seq(Entries) /\ Len(Tail(s)) = Len(s) - 1
        /\ \A i \in 1 .. (Len(s) - 1) : Tail(s)[i] = s[i + 1]
    BY <1>1, <2>1, HeadTailProperties
  <2> QED BY <1>1, <1>3, <2>1, <2>2 DEF Insert
<1> QED BY <1>2, <1>3

\* A hit keeps the entries, and puts nothing after another entry but its own.
LEMMA MostRecentKeeps ==
  ASSUME NEW s, WellFormed(s), NEW k \in DOMAIN s
  PROVE  LET m == MostRecent(s, k)
         IN  /\ WellFormed(m) /\ ToSet(m) = ToSet(s)
             /\ m[Len(m)] = s[k] /\ Len(m) \in DOMAIN m
             /\ \A i, j \in DOMAIN m : j > i /\ m[j].id # s[k].id =>
                  \E x, y \in DOMAIN s : y > x /\ m[i] = s[x] /\ m[j] = s[y]
<1> DEFINE m == MostRecent(s, k)
           from(i) == IF i < k THEN i ELSE IF i < Len(s) THEN i + 1 ELSE k
           to(i) == IF i < k THEN i ELSE IF i = k THEN Len(s) ELSE i - 1
<1>1. Len(s) \in Nat /\ k \in 1 .. Len(s) /\ DOMAIN s = 1 .. Len(s)
  BY LenProperties DEF WellFormed
<1>2. /\ m \in Seq(Entries) /\ Len(m) = Len(s)
      /\ \A i \in 1 .. Len(s) : m[i] = IF i < k THEN s[i] ELSE IF i < Len(s) THEN s[i + 1] ELSE s[k]
  BY MostRecentOrder DEF WellFormed
<1> HIDE DEF m
<1>3. DOMAIN m = 1 .. Len(s)
  BY <1>2, LenProperties
<1>4. \A i \in DOMAIN m : from(i) \in DOMAIN s /\ m[i] = s[from(i)]
  BY <1>1, <1>2, <1>3
<1>5. \A i \in DOMAIN s : to(i) \in DOMAIN m /\ m[to(i)] = s[i]
  BY <1>1, <1>2, <1>3
<1>6. \A i, j \in DOMAIN m : from(i) = from(j) => i = j
  BY <1>1, <1>3
<1>7. \A i, j \in DOMAIN m : j > i /\ from(j) # k => from(j) > from(i)
  BY <1>1, <1>3
<1>8. m[Len(m)] = s[k] /\ Len(m) \in DOMAIN m
  BY <1>1, <1>2, <1>3
<1> HIDE DEF from, to
<1>9. ToSet(m) = ToSet(s)
  BY <1>4, <1>5 DEF ToSet
<1>10. WellFormed(m)
  <2>1. \A i, j \in DOMAIN m : m[i].id = m[j].id => i = j
    BY <1>4, <1>6 DEF WellFormed
  <2>2. \A i \in DOMAIN m : m[i].content[1] = "config"
    BY <1>4 DEF WellFormed
  <2> QED BY <1>2, <2>1, <2>2 DEF WellFormed
<1>11. \A i, j \in DOMAIN m : j > i /\ m[j].id # s[k].id =>
         \E x, y \in DOMAIN s : y > x /\ m[i] = s[x] /\ m[j] = s[y]
  <2> SUFFICES ASSUME NEW i \in DOMAIN m, NEW j \in DOMAIN m, j > i, m[j].id # s[k].id
               PROVE  \E x, y \in DOMAIN s : y > x /\ m[i] = s[x] /\ m[j] = s[y]
    OBVIOUS
  <2>1. from(j) # k
    BY <1>4
  <2> QED BY <1>4, <1>7, <2>1
<1> QED BY <1>8, <1>9, <1>10, <1>11 DEF m

\* A store keeps the order of the entries that stay, evicts the oldest one at
\* most, and that only from a full cache.
LEMMA InsertKeeps ==
  ASSUME NEW s, WellFormed(s), NEW e \in Entries, e.content[1] = "config", e.id \notin Ids(s)
  PROVE  LET m == Insert(s, e)
         IN  /\ WellFormed(m) /\ ToSet(m) \subseteq ToSet(s) \cup {e}
             /\ m[Len(m)] = e /\ Len(m) \in DOMAIN m
             /\ \A i, j \in DOMAIN m : j > i /\ m[j].id # e.id =>
                  \E x, y \in DOMAIN s : y > x /\ m[i] = s[x] /\ m[j] = s[y]
             /\ \A x \in DOMAIN s : s[x].id \notin Ids(m) =>
                  /\ Len(m) = MaxSize
                  /\ \A i \in DOMAIN m : m[i].id # e.id =>
                       \E y \in DOMAIN s : y > x /\ m[i] = s[y]
<1> DEFINE m == Insert(s, e)
           gone == IF Len(s) < MaxSize THEN 0 ELSE 1
<1>1. Len(s) \in Nat /\ DOMAIN s = 1 .. Len(s) /\ s \in Seq(Entries) /\ Len(s) <= MaxSize
  BY LenProperties DEF WellFormed
<1>2. MaxSize \in Nat \ {0}
  BY ConstantsAssumption
<1>3. /\ m \in Seq(Entries) /\ Len(m) = Len(s) + 1 - gone /\ Len(m) <= MaxSize
      /\ \A i \in 1 .. (Len(s) - gone) : m[i] = s[i + gone]
      /\ m[Len(m)] = e /\ (gone = 1 => Len(m) = MaxSize)
  BY <1>1, <1>2, InsertOrder
<1>4. gone \in {0, 1} /\ Len(s) - gone \in Nat
  BY <1>1, <1>2
<1> HIDE DEF m, gone
<1>5. DOMAIN m = 1 .. (Len(s) + 1 - gone) /\ Len(m) \in DOMAIN m
  BY <1>1, <1>3, <1>4, LenProperties
<1>6. \A i \in DOMAIN m : i # Len(m) => i + gone \in DOMAIN s /\ m[i] = s[i + gone]
  <2> SUFFICES ASSUME NEW i \in DOMAIN m, i # Len(m)
               PROVE  i + gone \in DOMAIN s /\ m[i] = s[i + gone]
    OBVIOUS
  <2>1. i \in 1 .. (Len(s) - gone)
    BY <1>3, <1>4, <1>5
  <2>2. i + gone \in 1 .. Len(s)
    BY <1>1, <1>4, <2>1
  <2> QED BY <1>1, <1>3, <2>1, <2>2
<1>7. \A x \in DOMAIN s : x > gone => x - gone \in DOMAIN m /\ m[x - gone] = s[x]
  <2> SUFFICES ASSUME NEW x \in DOMAIN s, x > gone
               PROVE  x - gone \in DOMAIN m /\ m[x - gone] = s[x]
    OBVIOUS
  <2>1. x \in 1 .. Len(s) /\ x - gone \in 1 .. (Len(s) - gone) /\ (x - gone) + gone = x
    BY <1>1, <1>4
  <2>2. x - gone \in DOMAIN m
    BY <1>4, <1>5, <2>1
  <2>3. m[x - gone] = s[(x - gone) + gone]
    BY <1>3, <2>1
  <2> QED BY <2>1, <2>2, <2>3
<1>8. \A x \in DOMAIN s : s[x].id # e.id
  BY DEF Ids
<1>9. WellFormed(m)
  <2>1. ASSUME NEW i \in DOMAIN m, NEW j \in DOMAIN m, m[i].id = m[j].id PROVE i = j
    <3>1. CASE i # Len(m) /\ j # Len(m)
      <4>1. i + gone = j + gone
        BY <1>6, <2>1, <3>1 DEF WellFormed
      <4> QED BY <1>4, <1>5, <4>1
    <3>2. CASE i = Len(m) \/ j = Len(m)
      BY <1>3, <1>6, <1>8, <2>1, <3>2
    <3> QED BY <3>1, <3>2
  <2>2. \A i \in DOMAIN m : m[i].content[1] = "config"
    BY <1>3, <1>6 DEF WellFormed
  <2> QED BY <1>3, <2>1, <2>2 DEF WellFormed
<1>10. ToSet(m) \subseteq ToSet(s) \cup {e}
  BY <1>3, <1>6 DEF ToSet
<1>11. \A i, j \in DOMAIN m : j > i /\ m[j].id # e.id =>
         \E x, y \in DOMAIN s : y > x /\ m[i] = s[x] /\ m[j] = s[y]
  <2> SUFFICES ASSUME NEW i \in DOMAIN m, NEW j \in DOMAIN m, j > i, m[j].id # e.id
               PROVE  \E x, y \in DOMAIN s : y > x /\ m[i] = s[x] /\ m[j] = s[y]
    OBVIOUS
  <2>1. j # Len(m) /\ i # Len(m) /\ j + gone > i + gone
    BY <1>3, <1>4, <1>5
  <2> QED BY <1>6, <2>1
<1>12. ASSUME NEW x \in DOMAIN s, s[x].id \notin Ids(m)
       PROVE  /\ Len(m) = MaxSize
              /\ \A i \in DOMAIN m : m[i].id # e.id =>
                   \E y \in DOMAIN s : y > x /\ m[i] = s[y]
  <2>1. ~(x > gone)
    BY <1>7, <1>12 DEF Ids
  <2>2. gone = 1 /\ x = 1
    BY <1>1, <1>4, <2>1
  <2>3. \A i \in DOMAIN m : m[i].id # e.id => i + gone \in DOMAIN s /\ i + gone > x /\ m[i] = s[i + gone]
    BY <1>3, <1>4, <1>5, <1>6, <2>2
  <2> QED BY <1>3, <2>2, <2>3
<1> QED BY <1>3, <1>5, <1>9, <1>10, <1>11, <1>12 DEF m

-----------------------------------------------------------------------------
\* Where a call is says how often it has loaded; only a content that could be
\* parsed waits to be cached.
Loading ==
  \A c \in Calls :
    /\ pc[c] = "first" => loaded[c] = <<>>
    /\ pc[c] \in Active => Len(loaded[c]) <= 1
    /\ pc[c] = "read" => held[c][1] = "config"

Types == TypeOK /\ Loading

\* What a call can rely on when it takes a step.
LEMMA CallTypes ==
  ASSUME Types, NEW c \in Calls
  PROVE  /\ WorkerOf[c] \in Workers /\ WorkflowOf[c] \in WorkflowIds
         /\ WellFormed(Cache(c)) /\ File(c) \in Contents /\ held[c] \in Contents
         /\ loaded[c] \in Seq(Contents)
<1>1. WorkerOf[c] \in Workers /\ WorkflowOf[c] \in WorkflowIds
  BY ConstantsAssumption
<1>2. WellFormed(Cache(c))
  BY <1>1 DEF Types, TypeOK, WellFormed, Cache
<1> QED BY <1>1, <1>2 DEF Types, TypeOK, File

\* An entry of the call's workflow is found at its place.
LEMMA PlaceFound ==
  ASSUME NEW c \in Calls, Cached(c)
  PROVE  PlaceOf(c) \in DOMAIN Cache(c) /\ EntryOf(c) = Cache(c)[PlaceOf(c)]
         /\ EntryOf(c).id = WorkflowOf[c]
<1>1. \E i \in DOMAIN Cache(c) : Cache(c)[i].id = WorkflowOf[c]
  BY DEF Cached, Ids
<1> QED BY <1>1 DEF PlaceOf, EntryOf

\* What a hit returns has the form of a cached content.
LEMMA EntryType ==
  ASSUME Types, NEW c \in Calls, Cached(c)
  PROVE  EntryOf(c) \in Entries /\ EntryOf(c).content \in Contents
         /\ EntryOf(c).content[1] = "config"
<1>1. Cache(c)[PlaceOf(c)] \in Entries /\ Cache(c)[PlaceOf(c)].content[1] = "config"
  BY CallTypes, PlaceFound DEF WellFormed
<1>2. EntryOf(c) \in Entries
  BY <1>1, PlaceFound
<1>3. EntryOf(c).content \in Contents
  BY <1>2 DEF Entries
<1> QED BY <1>1, <1>2, <1>3, PlaceFound

\* A load returns once more, and the call goes on or ends.
LEMMA Returned ==
  ASSUME Types, NEW c \in Calls, pc[c] \in {"first"} \cup Active, NEW x \in Contents, Return(c, x)
  PROVE  /\ loaded' \in [Calls -> Seq(Contents)]
         /\ loaded' = [loaded EXCEPT ![c] = Append(loaded[c], x)]
         /\ \A d \in Calls : Len(loaded'[d]) <= 2
         /\ pc' \in [Calls -> {"first", "ended", "lost"} \cup Active]
         /\ \A d \in Calls \ {c} : pc'[d] = pc[d] /\ loaded'[d] = loaded[d]
         /\ pc'[c] \in {"second", "ended"} /\ loaded'[c] = Append(loaded[c], x)
         /\ pc'[c] = "second" => Len(loaded'[c]) = 1 /\ loaded[c] = <<>> /\ x[1] = "config"
<1>1. loaded[c] \in Seq(Contents) /\ Len(loaded[c]) \in Nat /\ Len(loaded[c]) <= 1
  <2>1. loaded[c] \in Seq(Contents)
    BY CallTypes
  <2>2. Len(loaded[c]) <= 1
    BY EmptySeq DEF Types, Loading
  <2> QED BY <2>1, <2>2, LenProperties
<1>2. Append(loaded[c], x) \in Seq(Contents) /\ Len(Append(loaded[c], x)) = Len(loaded[c]) + 1
  BY <1>1, AppendProperties
<1>3. loaded' = [loaded EXCEPT ![c] = Append(loaded[c], x)] /\ loaded \in [Calls -> Seq(Contents)]
  BY DEF Return, Types, TypeOK
<1>4. PICK step \in {"second", "ended"} :
        /\ pc' = [pc EXCEPT ![c] = step]
        /\ step = "second" => loaded[c] = <<>> /\ x[1] = "config"
  BY DEF Return, Goto
<1>5. pc \in [Calls -> {"first", "ended", "lost"} \cup Active]
  BY DEF Types, TypeOK
<1>6. loaded[c] = <<>> => Len(loaded[c]) = 0
  BY EmptySeq
<1>7. loaded' \in [Calls -> Seq(Contents)] /\ loaded'[c] = Append(loaded[c], x)
      /\ \A d \in Calls \ {c} : loaded'[d] = loaded[d]
  BY <1>2, <1>3
<1>8. \A d \in Calls : Len(loaded'[d]) <= 2
  <2>1. Len(loaded'[c]) <= 2
    BY <1>1, <1>2, <1>7
  <2>2. \A d \in Calls \ {c} : Len(loaded'[d]) <= 2
    BY <1>7 DEF Types, TypeOK
  <2> QED BY <2>1, <2>2
<1>9. /\ pc' \in [Calls -> {"first", "ended", "lost"} \cup Active] /\ pc'[c] = step
      /\ \A d \in Calls \ {c} : pc'[d] = pc[d]
  BY <1>4, <1>5 DEF Active
<1> QED BY <1>1, <1>2, <1>3, <1>4, <1>6, <1>7, <1>8, <1>9

\* A call that returned once more keeps Loading, whatever the others do not do.
LEMMA LoadingReturned ==
  ASSUME Types, NEW c \in Calls,
         \A d \in Calls \ {c} : pc'[d] = pc[d] /\ loaded'[d] = loaded[d] /\ held'[d] = held[d],
         pc'[c] \in {"second", "ended"}, pc'[c] = "second" => Len(loaded'[c]) = 1
  PROVE  Loading'
<1> SUFFICES ASSUME NEW d \in Calls
             PROVE  /\ pc'[d] = "first" => loaded'[d] = <<>>
                    /\ pc'[d] \in Active => Len(loaded'[d]) <= 1
                    /\ pc'[d] = "read" => held'[d][1] = "config"
  BY DEF Loading
<1>1. CASE d = c
  <2>1. pc'[d] # "first" /\ pc'[d] # "read"
    BY <1>1
  <2>2. pc'[d] \in Active => pc'[d] = "second"
    BY <1>1 DEF Active
  <2>3. pc'[d] = "second" => Len(loaded'[d]) <= 1
    <3>1. pc'[d] = "second" => Len(loaded'[d]) = 1
      BY <1>1
    <3>2. \A n : n = 1 => n <= 1
      OBVIOUS
    <3> QED BY <3>1, <3>2
  <2> QED BY <2>1, <2>2, <2>3
<1>2. CASE d # c
  BY <1>2 DEF Types, Loading
<1> QED BY <1>1, <1>2

\* Replacing one worker's cache by a well-formed one keeps the caches' form.
LEMMA CacheReplaced ==
  ASSUME Types, NEW w \in Workers, NEW s, WellFormed(s), cache' = [cache EXCEPT ![w] = s]
  PROVE  /\ cache' \in [Workers -> Seq(Entries)]
         /\ \A v \in Workers : WellFormed(cache'[v])
         /\ cache'[w] = s /\ \A v \in Workers \ {w} : cache'[v] = cache[v]
<1>1. cache \in [Workers -> Seq(Entries)] /\ s \in Seq(Entries)
  BY DEF Types, TypeOK, WellFormed
<1>2. /\ cache' \in [Workers -> Seq(Entries)] /\ cache'[w] = s
      /\ \A v \in Workers \ {w} : cache'[v] = cache[v]
  BY <1>1
<1>3. \A v \in Workers : WellFormed(cache[v])
  BY DEF Types, TypeOK, WellFormed
<1> QED BY <1>2, <1>3

\* The histories keep their types.
LEMMA HistoryTypes ==
  ASSUME Types, NEW c \in Calls
  PROVE  /\ Begins(c) => seen' \in [Calls -> SUBSET Contents]
         /\ Touch(c) => used' \in [Calls -> SUBSET WorkflowIds]
<1>1. File(c) \in Contents /\ WorkflowOf[c] \in WorkflowIds
  BY CallTypes
<1>2. seen \in [Calls -> SUBSET Contents] /\ used \in [Calls -> SUBSET WorkflowIds]
  BY DEF Types, TypeOK
<1>3. ASSUME Begins(c) PROVE seen' \in [Calls -> SUBSET Contents]
  <2>1. PICK S \in SUBSET Contents : seen' = [seen EXCEPT ![c] = S]
    BY <1>1, <1>2, <1>3 DEF Begins
  <2> QED BY <1>2, <2>1
<1>4. ASSUME Touch(c) PROVE used' \in [Calls -> SUBSET WorkflowIds]
  BY <1>1, <1>2, <1>4 DEF Touch
<1> QED BY <1>3, <1>4

-----------------------------------------------------------------------------
\* Caches are empty before the first call.
LEMMA InitTypes == Init => Types
<1> SUFFICES ASSUME Init PROVE Types
  OBVIOUS
<1>1. files \in [WorkflowIds -> Contents]
  <2>1. <<"config", 0>> \in Contents /\ None \in Contents
    BY ConstantsAssumption DEF Contents, None
  <2> QED BY <2>1 DEF Init
<1>2. None \in Contents
  BY ConstantsAssumption DEF Contents, None
<1>3. <<>> \in Seq(Entries) /\ <<>> \in Seq(Contents) /\ Len(<<>>) = 0
  BY EmptySeq
<1>4. \A w \in Workers : cache[w] = <<>>
  BY DEF Init
<1>5. \A c \in Calls : loaded[c] = <<>> /\ pc[c] = "first"
  BY DEF Init
<1>6. since \in [Workers -> SUBSET (WorkflowIds \X Contents)]
  BY <1>1 DEF Init
<1>7. TypeOK
  BY <1>1, <1>2, <1>3, <1>4, <1>5, <1>6, ConstantsAssumption DEF Init, TypeOK
<1>8. Loading
  BY <1>5 DEF Loading, Active
<1> QED BY <1>7, <1>8 DEF Types

\* A lookup that finds its workflow.
LEMMA HitTypes == ASSUME Types, NEW c \in Calls, Hit(c) PROVE Types'
<1> DEFINE x == EntryOf(c).content
           m == MostRecent(Cache(c), PlaceOf(c))
<1>1. /\ pc[c] \in {"first"} \cup Active /\ Cached(c) /\ Return(c, x)
      /\ cache' = [cache EXCEPT ![WorkerOf[c]] = m]
      /\ Begins(c) /\ Touch(c) /\ UNCHANGED <<files, held, edits, restarts, since>>
  BY DEF Hit, Active, Cache
<1>2. x \in Contents
  BY <1>1, EntryType
<1>3. WellFormed(m)
  BY <1>1, CallTypes, PlaceFound, MostRecentKeeps
<1> HIDE DEF x, m
<1>4. /\ cache' \in [Workers -> Seq(Entries)]
      /\ \A v \in Workers : WellFormed(cache'[v])
  BY <1>1, <1>3, CallTypes, CacheReplaced
<1>5. /\ loaded' \in [Calls -> Seq(Contents)] /\ \A d \in Calls : Len(loaded'[d]) <= 2
      /\ pc' \in [Calls -> {"first", "ended", "lost"} \cup Active]
      /\ \A d \in Calls \ {c} : pc'[d] = pc[d] /\ loaded'[d] = loaded[d]
      /\ pc'[c] \in {"second", "ended"} /\ (pc'[c] = "second" => Len(loaded'[c]) = 1)
  BY <1>1, <1>2, Returned
<1>6. seen' \in [Calls -> SUBSET Contents] /\ used' \in [Calls -> SUBSET WorkflowIds]
  BY <1>1, HistoryTypes
<1>7. TypeOK'
  BY <1>1, <1>4, <1>5, <1>6 DEF Types, TypeOK, WellFormed
<1>8. Loading'
  BY <1>1, <1>5, LoadingReturned
<1> QED BY <1>7, <1>8 DEF Types

\* A lookup that does not.
LEMMA MissTypes == ASSUME Types, NEW c \in Calls, Miss(c) PROVE Types'
<1>1. /\ pc[c] \in {"first", "second"} /\ pc' = [pc EXCEPT ![c] = "reading"] /\ Begins(c)
      /\ UNCHANGED <<files, cache, held, loaded, edits, restarts, used, since>>
  BY DEF Miss, Goto
<1>2. seen' \in [Calls -> SUBSET Contents]
  BY <1>1, HistoryTypes
<1>3. /\ pc' \in [Calls -> {"first", "ended", "lost"} \cup Active]
      /\ \A d \in Calls : pc'[d] = IF d = c THEN "reading" ELSE pc[d]
  BY <1>1 DEF Types, TypeOK, Active
<1>4. Len(loaded[c]) <= 1
  BY <1>1, EmptySeq DEF Types, Loading, Active
<1>5. TypeOK'
  BY <1>1, <1>2, <1>3 DEF Types, TypeOK
<1>6. Loading'
  BY <1>1, <1>3, <1>4 DEF Types, Loading, Active
<1> QED BY <1>5, <1>6 DEF Types

\* Reading the file, with or without success.
LEMMA ReadTypes == ASSUME Types, NEW c \in Calls, Read(c) PROVE Types'
<1>1. pc[c] = "reading" /\ UNCHANGED <<files, cache, edits, restarts, seen, used, since>>
  BY DEF Read
<1>2. CASE File(c)[1] = "config"
  <2>1. pc' = [pc EXCEPT ![c] = "read"] /\ held' = [held EXCEPT ![c] = File(c)] /\ UNCHANGED loaded
    BY <1>2 DEF Read, Goto
  <2>2. /\ pc' \in [Calls -> {"first", "ended", "lost"} \cup Active]
        /\ \A d \in Calls : pc'[d] = IF d = c THEN "read" ELSE pc[d]
    BY <2>1 DEF Types, TypeOK, Active
  <2>3. /\ held' \in [Calls -> Contents]
        /\ \A d \in Calls : held'[d] = IF d = c THEN File(c) ELSE held[d]
    BY <2>1, CallTypes DEF Types, TypeOK
  <2>4. TypeOK'
    BY <1>1, <2>1, <2>2, <2>3 DEF Types, TypeOK
  <2>5. Loading'
    BY <1>1, <1>2, <2>1, <2>2, <2>3 DEF Types, Loading, Active
  <2> QED BY <2>4, <2>5 DEF Types
<1>3. CASE File(c)[1] # "config"
  <2>1. Return(c, File(c)) /\ UNCHANGED held /\ File(c) \in Contents
    BY <1>3, CallTypes DEF Read
  <2>2. /\ loaded' \in [Calls -> Seq(Contents)] /\ \A d \in Calls : Len(loaded'[d]) <= 2
        /\ pc' \in [Calls -> {"first", "ended", "lost"} \cup Active]
        /\ \A d \in Calls \ {c} : pc'[d] = pc[d] /\ loaded'[d] = loaded[d]
        /\ pc'[c] \in {"second", "ended"} /\ (pc'[c] = "second" => Len(loaded'[c]) = 1)
    BY <1>1, <2>1, Returned DEF Active
  <2>3. TypeOK'
    BY <1>1, <2>1, <2>2 DEF Types, TypeOK
  <2>4. Loading'
    BY <1>1, <2>1, <2>2, LoadingReturned
  <2> QED BY <2>3, <2>4 DEF Types
<1> QED BY <1>2, <1>3

\* What a store that finds nothing leaves in its worker's cache.
LEMMA NewEntry ==
  ASSUME Types, NEW c \in Calls, pc[c] = "read"
  PROVE  LET e == [id |-> WorkflowOf[c], content |-> held[c]]
         IN  /\ e \in Entries /\ e.content[1] = "config"
             /\ e.id = WorkflowOf[c] /\ e.content = held[c]
<1>1. held[c] \in Contents /\ WorkflowOf[c] \in WorkflowIds
  BY CallTypes
<1>2. held[c][1] = "config"
  BY DEF Types, Loading
<1> QED BY <1>1, <1>2 DEF Entries

\* Caching what was read.
LEMMA StoreTypes == ASSUME Types, NEW c \in Calls, Store(c) PROVE Types'
<1> DEFINE e == [id |-> WorkflowOf[c], content |-> held[c]]
           m == Insert(Cache(c), e)
<1>1. /\ pc[c] = "read" /\ Return(c, held[c]) /\ held' = [held EXCEPT ![c] = None]
      /\ UNCHANGED <<files, edits, restarts, seen, since>>
  BY DEF Store
<1>2. /\ cache' \in [Workers -> Seq(Entries)] /\ \A v \in Workers : WellFormed(cache'[v])
      /\ used' \in [Calls -> SUBSET WorkflowIds]
  <2>1. CASE Cached(c)
    BY <2>1 DEF Store, Types, TypeOK, WellFormed
  <2>2. CASE ~Cached(c)
    <3>1. cache' = [cache EXCEPT ![WorkerOf[c]] = m] /\ Touch(c)
      BY <2>2 DEF Store, Cache
    <3>2. e \in Entries /\ e.content[1] = "config" /\ e.id \notin Ids(Cache(c))
      BY <1>1, <2>2, NewEntry DEF Cached
    <3> HIDE DEF e
    <3>3. WellFormed(m)
      BY <3>2, CallTypes, InsertKeeps
    <3> HIDE DEF m
    <3> QED BY <3>1, <3>3, CallTypes, CacheReplaced, HistoryTypes
  <2> QED BY <2>1, <2>2
<1>3. /\ loaded' \in [Calls -> Seq(Contents)] /\ \A d \in Calls : Len(loaded'[d]) <= 2
      /\ pc' \in [Calls -> {"first", "ended", "lost"} \cup Active]
      /\ \A d \in Calls \ {c} : pc'[d] = pc[d] /\ loaded'[d] = loaded[d]
      /\ pc'[c] \in {"second", "ended"} /\ (pc'[c] = "second" => Len(loaded'[c]) = 1)
  <2>1. held[c] \in Contents
    BY CallTypes
  <2> QED BY <1>1, <2>1, Returned DEF Active
<1>4. held' \in [Calls -> Contents] /\ \A d \in Calls \ {c} : held'[d] = held[d]
  <2>1. None \in Contents /\ held \in [Calls -> Contents]
    BY ConstantsAssumption DEF Contents, None, Types, TypeOK
  <2> QED BY <1>1, <2>1
<1>5. TypeOK'
  BY <1>1, <1>2, <1>3, <1>4 DEF Types, TypeOK, WellFormed
<1>6. Loading'
  BY <1>1, <1>3, <1>4, LoadingReturned
<1> QED BY <1>5, <1>6 DEF Types

\* An edit changes a file and the histories.
LEMMA EditTypes == ASSUME Types, NEW id \in WorkflowIds, Edit(id) PROVE Types'
<1>1. PICK kind \in {"config", "broken", "missing"} :
        /\ files' = [files EXCEPT ![id] = <<kind, edits + 1>>]
        /\ since' = [w \in Workers |-> since[w] \cup {<<id, <<kind, edits + 1>>>>}]
        /\ seen' = [c \in Calls |-> IF pc[c] \in Active /\ WorkflowOf[c] = id
                                    THEN seen[c] \cup {<<kind, edits + 1>>} ELSE seen[c]]
  BY DEF Edit
<1>2. edits + 1 \in 0 .. MaxEdits /\ edits' = edits + 1
  BY ConstantsAssumption DEF Edit, Types, TypeOK
<1>3. <<kind, edits + 1>> \in Contents
  BY <1>2 DEF Contents
<1>4. UNCHANGED <<cache, pc, held, loaded, restarts, used>>
  BY DEF Edit
<1>5. files' \in [WorkflowIds -> Contents]
  BY <1>1, <1>3 DEF Types, TypeOK
<1>6. since' \in [Workers -> SUBSET (WorkflowIds \X Contents)]
  <2>1. since \in [Workers -> SUBSET (WorkflowIds \X Contents)]
    BY DEF Types, TypeOK
  <2>2. PICK new \in WorkflowIds \X Contents : since' = [w \in Workers |-> since[w] \cup {new}]
    BY <1>1, <1>3
  <2> QED BY <2>1, <2>2
<1>7. seen' \in [Calls -> SUBSET Contents]
  BY <1>1, <1>3 DEF Types, TypeOK
<1>8. TypeOK'
  BY <1>2, <1>4, <1>5, <1>6, <1>7 DEF Types, TypeOK
<1>9. Loading'
  BY <1>4 DEF Types, Loading
<1> QED BY <1>8, <1>9 DEF Types

\* A restart empties a cache and ends the calls of its worker.
LEMMA RestartTypes == ASSUME Types, NEW w \in Workers, Restart(w) PROVE Types'
<1>1. WellFormed(<<>>) /\ <<>> \in Seq(Contents) /\ Len(<<>>) = 0
  BY EmptySeq, ConstantsAssumption DEF WellFormed
<1>2. /\ cache' \in [Workers -> Seq(Entries)] /\ \A v \in Workers : WellFormed(cache'[v])
  BY <1>1, CacheReplaced DEF Restart
<1>3. /\ pc' = [c \in Calls |-> IF c \in InFlight(w) THEN "lost" ELSE pc[c]]
      /\ held' = [c \in Calls |-> IF c \in InFlight(w) THEN None ELSE held[c]]
      /\ loaded' = [c \in Calls |-> IF c \in InFlight(w) THEN <<>> ELSE loaded[c]]
      /\ seen' = [c \in Calls |-> IF c \in InFlight(w) THEN {} ELSE seen[c]]
      /\ used' = [c \in Calls |-> IF c \in InFlight(w) THEN {} ELSE used[c]]
  BY DEF Restart, LoseCalls, Without
<1>4. None \in Contents
  BY ConstantsAssumption DEF Contents, None
<1>5. /\ pc' \in [Calls -> {"first", "ended", "lost"} \cup Active]
      /\ held' \in [Calls -> Contents]
      /\ loaded' \in [Calls -> Seq(Contents)] /\ \A c \in Calls : Len(loaded'[c]) <= 2
      /\ seen' \in [Calls -> SUBSET Contents] /\ used' \in [Calls -> SUBSET WorkflowIds]
  BY <1>1, <1>3, <1>4 DEF Types, TypeOK
<1>6. since' \in [Workers -> SUBSET (WorkflowIds \X Contents)]
  <2>1. {<<id, files[id]>> : id \in WorkflowIds} \in SUBSET (WorkflowIds \X Contents)
    BY DEF Types, TypeOK
  <2>2. since' = [since EXCEPT ![w] = {<<id, files[id]>> : id \in WorkflowIds}]
    BY DEF Restart
  <2> QED BY <2>1, <2>2 DEF Types, TypeOK
<1>7. restarts' \in 0 .. MaxRestarts /\ UNCHANGED <<files, edits>>
  BY ConstantsAssumption DEF Restart, Types, TypeOK
<1>8. TypeOK'
  BY <1>2, <1>5, <1>6, <1>7 DEF Types, TypeOK, WellFormed
<1>9. Loading'
  BY <1>1, <1>3 DEF Types, Loading, Active
<1> QED BY <1>8, <1>9 DEF Types

\* No step disturbs the form of the caches.
LEMMA TypesStep == Types /\ [Next]_vars => Types'
<1> SUFFICES ASSUME Types, [Next]_vars PROVE Types'
  OBVIOUS
<1>1. CASE UNCHANGED vars
  BY <1>1 DEF vars, Types, TypeOK, Loading
<1> QED BY <1>1, HitTypes, MissTypes, ReadTypes, StoreTypes, EditTypes, RestartTypes
        DEF Next, Load

\* Every step of the loader and of its environment keeps the types.
LEMMA TypesHold == Spec => []Types
BY InitTypes, TypesStep, PTL DEF Spec

\* lru_cache keeps at most maxsize workflows, each of them once, although two
\* calls may read the same file at the same time (config_loader.py:33).
THEOREM CacheWellFormed == Spec => []TypeOK
BY TypesHold, PTL DEF Types

-----------------------------------------------------------------------------
\* What a load returns is the last thing the call has loaded.
LEMMA LoadsAppend ==
  ASSUME NEW s \in Seq(Contents), NEW x \in Contents
  PROVE  /\ ToSet(Append(s, x)) = ToSet(s) \cup {x}
         /\ Last(Append(s, x)) = x /\ Len(Append(s, x)) = Len(s) + 1
<1>1. /\ Len(s) \in Nat /\ DOMAIN s = 1 .. Len(s)
      /\ DOMAIN Append(s, x) = 1 .. (Len(s) + 1) /\ Len(Append(s, x)) = Len(s) + 1
  BY LenProperties, AppendProperties
<1>2. \A i \in 1 .. Len(s) : Append(s, x)[i] = s[i]
  BY AppendProperties
<1>3. Append(s, x)[Len(s) + 1] = x
  BY AppendProperties
<1>4. ToSet(Append(s, x)) = ToSet(s) \cup {x}
  BY <1>1, <1>2, <1>3 DEF ToSet
<1> QED BY <1>1, <1>3, <1>4 DEF Last

\* While a call runs its file's content is among those it has had, and so is
\* whatever failure it was told of.
FailuresSeen ==
  \A c \in Calls :
    /\ pc[c] \in Active => File(c) \in seen[c]
    /\ \A x \in Loads(c) : Failed(x) => x \in seen[c]

\* A call that returned x, which had not failed unless it is what its file has.
LEMMA FailuresReturned ==
  ASSUME Types, FailuresSeen, NEW c \in Calls, pc[c] \in {"first"} \cup Active,
         NEW x \in Contents, Return(c, x), UNCHANGED files,
         Failed(x) => pc[c] \in Active /\ x = File(c),
         Begins(c) \/ (UNCHANGED seen /\ pc[c] \in Active)
  PROVE  FailuresSeen'
<1>1. \A d \in Calls \ {c} : /\ pc'[d] = pc[d] /\ loaded'[d] = loaded[d] /\ seen'[d] = seen[d]
                            /\ File(d)' = File(d)
  BY Returned DEF Begins, File, Types, TypeOK
<1>2. \A d \in Calls \ {c} : /\ pc'[d] \in Active => File(d)' \in seen'[d]
                            /\ \A y \in Loads(d)' : Failed(y) => y \in seen'[d]
  BY <1>1 DEF FailuresSeen, Loads
<1>3. /\ File(c)' = File(c)
      /\ pc[c] \in Active => seen'[c] = seen[c]
      /\ pc[c] = "first" => seen'[c] = {File(c)}
  BY DEF File, Begins, Active, Types, TypeOK
<1>4. File(c)' \in seen'[c]
  BY <1>3 DEF FailuresSeen
<1>5. Loads(c)' = Loads(c) \cup {x}
  <2>1. loaded'[c] = Append(loaded[c], x) /\ loaded[c] \in Seq(Contents)
    BY Returned, CallTypes
  <2> QED BY <2>1, LoadsAppend DEF Loads
<1>6. pc[c] = "first" => Loads(c) = {}
  <2>1. pc[c] = "first" => loaded[c] = <<>>
    BY DEF Types, Loading
  <2>2. ToSet(<<>>) = {}
    BY DEF ToSet
  <2> QED BY <2>1, <2>2 DEF Loads
<1>7. \A y \in Loads(c)' : Failed(y) => y \in seen'[c]
  <2>1. CASE pc[c] = "first"
    BY <1>5, <1>6, <2>1 DEF Active
  <2>2. CASE pc[c] \in Active
    BY <1>3, <1>5, <2>2 DEF FailuresSeen
  <2> QED BY <2>1, <2>2
<1> QED BY <1>2, <1>4, <1>7 DEF FailuresSeen

\* No step forgets a content that a running call's file has had.
LEMMA FailuresStep == Types /\ FailuresSeen /\ [Next]_vars => FailuresSeen'
<1> SUFFICES ASSUME Types, FailuresSeen, [Next]_vars PROVE FailuresSeen'
  OBVIOUS
<1>1. CASE UNCHANGED vars
  BY <1>1 DEF vars, FailuresSeen, File, Loads
<1>2. ASSUME NEW c \in Calls, Hit(c) PROVE FailuresSeen'
  <2>1. EntryOf(c).content \in Contents /\ ~Failed(EntryOf(c).content)
    BY <1>2, EntryType DEF Hit, Failed
  <2> QED BY <1>2, <2>1, FailuresReturned DEF Hit, Active
<1>3. ASSUME NEW c \in Calls, Miss(c) PROVE FailuresSeen'
  <2>1. /\ pc[c] \in {"first", "second"} /\ UNCHANGED <<files, loaded>>
        /\ \A d \in Calls \ {c} : pc'[d] = pc[d] /\ seen'[d] = seen[d]
        /\ seen'[c] = IF pc[c] = "first" THEN {File(c)} ELSE seen[c]
    BY <1>3 DEF Miss, Goto, Begins, Types, TypeOK
  <2>2. \A d \in Calls : File(d)' = File(d) /\ Loads(d)' = Loads(d)
    BY <2>1 DEF File, Loads
  <2>3. pc[c] = "first" => Loads(c) = {}
    <3>1. pc[c] = "first" => loaded[c] = <<>>
      BY DEF Types, Loading
    <3>2. ToSet(<<>>) = {}
      BY DEF ToSet
    <3> QED BY <3>1, <3>2 DEF Loads
  <2>4. File(c) \in seen'[c] /\ \A x \in Loads(c) : Failed(x) => x \in seen'[c]
    BY <2>1, <2>3 DEF FailuresSeen, Active
  <2> QED BY <2>1, <2>2, <2>4 DEF FailuresSeen
<1>4. ASSUME NEW c \in Calls, Read(c) PROVE FailuresSeen'
  <2>1. pc[c] = "reading" /\ UNCHANGED <<files, seen>>
    BY <1>4 DEF Read
  <2>2. CASE File(c)[1] = "config"
    <3>1. /\ UNCHANGED loaded /\ \A d \in Calls : pc'[d] \in Active => pc[d] \in Active
      BY <1>4, <2>1, <2>2 DEF Read, Goto, Active, Types, TypeOK
    <3> QED BY <2>1, <3>1 DEF FailuresSeen, File, Loads
  <2>3. CASE File(c)[1] # "config"
    BY <1>4, <2>1, <2>3, CallTypes, FailuresReturned DEF Read, Active
  <2> QED BY <2>2, <2>3
<1>5. ASSUME NEW c \in Calls, Store(c) PROVE FailuresSeen'
  <2>1. held[c] \in Contents /\ ~Failed(held[c])
    BY <1>5, CallTypes DEF Store, Types, Loading, Failed
  <2> QED BY <1>5, <2>1, FailuresReturned DEF Store, Active
<1>6. ASSUME NEW id \in WorkflowIds, Edit(id) PROVE FailuresSeen'
  <2>1. PICK new :
          /\ files' = [files EXCEPT ![id] = new] /\ UNCHANGED <<pc, loaded>>
          /\ seen' = [c \in Calls |-> IF pc[c] \in Active /\ WorkflowOf[c] = id
                                      THEN seen[c] \cup {new} ELSE seen[c]]
    BY <1>6 DEF Edit
  <2>2. \A c \in Calls : File(c)' = IF WorkflowOf[c] = id THEN new ELSE File(c)
    BY <2>1, ConstantsAssumption DEF File, Types, TypeOK
  <2> QED BY <2>1, <2>2 DEF FailuresSeen, Loads
<1>7. ASSUME NEW w \in Workers, Restart(w) PROVE FailuresSeen'
  <2>1. /\ pc' = [c \in Calls |-> IF c \in InFlight(w) THEN "lost" ELSE pc[c]]
        /\ loaded' = [c \in Calls |-> IF c \in InFlight(w) THEN <<>> ELSE loaded[c]]
        /\ seen' = [c \in Calls |-> IF c \in InFlight(w) THEN {} ELSE seen[c]]
        /\ UNCHANGED files
    BY <1>7 DEF Restart, LoseCalls, Without
  <2>2. ToSet(<<>>) = {}
    BY DEF ToSet
  <2> QED BY <2>1, <2>2 DEF FailuresSeen, File, Loads, Active
<1> QED BY <1>1, <1>2, <1>3, <1>4, <1>5, <1>6, <1>7 DEF Next, Load

\* A failure is never cached: a call is told that its workflow is missing or
\* broken only if it was while the call ran (config_loader.py:52-61,
\* main.py:126-133).
THEOREM FailuresNeverStale == Spec => []FailuresAreCurrent
<1>1. Init => FailuresSeen
  <2>1. ToSet(<<>>) = {}
    BY DEF ToSet
  <2>2. Init => \A c \in Calls : pc[c] = "first" /\ loaded[c] = <<>>
    BY DEF Init
  <2> QED BY <2>1, <2>2 DEF FailuresSeen, Loads, Active
<1>2. FailuresSeen => FailuresAreCurrent
  BY DEF FailuresSeen, FailuresAreCurrent
<1> QED BY <1>1, <1>2, FailuresStep, TypesHold, PTL DEF Spec

-----------------------------------------------------------------------------
\* Everything a worker has read or cached was there since it began.
ReadSince ==
  /\ \A w \in Workers : \A id \in WorkflowIds : <<id, files[id]>> \in since[w]
  /\ \A w \in Workers : \A e \in ToSet(cache[w]) : <<e.id, e.content>> \in since[w]
  /\ \A c \in Calls : pc[c] = "read" => <<WorkflowOf[c], held[c]>> \in since[WorkerOf[c]]

\* No step brings back a content from before the worker's start.
LEMMA ReadSinceStep == Types /\ ReadSince /\ [Next]_vars => ReadSince'
<1> SUFFICES ASSUME Types, ReadSince, [Next]_vars PROVE ReadSince'
  OBVIOUS
<1>1. CASE UNCHANGED vars
  BY <1>1 DEF vars, ReadSince
<1>2. ASSUME NEW c \in Calls, Hit(c) PROVE ReadSince'
  <2> DEFINE m == MostRecent(Cache(c), PlaceOf(c))
  <2>1. WellFormed(m) /\ ToSet(m) = ToSet(Cache(c))
    BY <1>2, CallTypes, PlaceFound, MostRecentKeeps DEF Hit
  <2>2. cache' = [cache EXCEPT ![WorkerOf[c]] = m] /\ UNCHANGED <<files, held, since>>
    BY <1>2 DEF Hit, Cache
  <2> HIDE DEF m
  <2>3. cache'[WorkerOf[c]] = m /\ \A v \in Workers \ {WorkerOf[c]} : cache'[v] = cache[v]
    BY <2>1, <2>2, CallTypes, CacheReplaced
  <2>4. \A w \in Workers : ToSet(cache'[w]) = ToSet(cache[w])
    BY <2>1, <2>3 DEF Cache
  <2>5. \A d \in Calls : pc'[d] = "read" => pc[d] = "read"
    <3>1. EntryOf(c).content \in Contents /\ pc[c] \in {"first"} \cup Active
      BY <1>2, EntryType DEF Hit, Active
    <3> QED BY <1>2, <3>1, Returned DEF Hit
  <2> QED BY <2>2, <2>4, <2>5 DEF ReadSince
<1>3. ASSUME NEW c \in Calls, Miss(c) PROVE ReadSince'
  <2>1. /\ UNCHANGED <<files, cache, held, since>>
        /\ \A d \in Calls : pc'[d] = "read" => pc[d] = "read"
    BY <1>3 DEF Miss, Goto, Types, TypeOK
  <2> QED BY <2>1 DEF ReadSince
<1>4. ASSUME NEW c \in Calls, Read(c) PROVE ReadSince'
  <2>1. pc[c] = "reading" /\ UNCHANGED <<files, cache, since>>
    BY <1>4 DEF Read
  <2>2. CASE File(c)[1] = "config"
    <3>1. /\ \A d \in Calls : pc'[d] = IF d = c THEN "read" ELSE pc[d]
          /\ \A d \in Calls : held'[d] = IF d = c THEN File(c) ELSE held[d]
      BY <1>4, <2>2 DEF Read, Goto, Types, TypeOK
    <3>2. <<WorkflowOf[c], File(c)>> \in since[WorkerOf[c]]
      BY CallTypes DEF ReadSince, File
    <3> QED BY <2>1, <3>1, <3>2 DEF ReadSince
  <2>3. CASE File(c)[1] # "config"
    <3>1. UNCHANGED held /\ \A d \in Calls : pc'[d] = "read" => pc[d] = "read"
      BY <1>4, <2>1, <2>3, CallTypes, Returned DEF Read, Active
    <3> QED BY <2>1, <3>1 DEF ReadSince
  <2> QED BY <2>2, <2>3
<1>5. ASSUME NEW c \in Calls, Store(c) PROVE ReadSince'
  <2> DEFINE e == [id |-> WorkflowOf[c], content |-> held[c]]
             m == Insert(Cache(c), e)
  <2>1. /\ pc[c] = "read" /\ UNCHANGED <<files, since>> /\ held' = [held EXCEPT ![c] = None]
    BY <1>5 DEF Store
  <2>2. /\ e \in Entries /\ e.content[1] = "config"
        /\ e.id = WorkflowOf[c] /\ e.content = held[c]
    BY <2>1, NewEntry
  <2> HIDE DEF e
  <2>3. <<e.id, e.content>> \in since[WorkerOf[c]]
    BY <2>1, <2>2 DEF ReadSince
  <2>4. \A w \in Workers : \A x \in ToSet(cache'[w]) : <<x.id, x.content>> \in since[w]
    <3>1. CASE Cached(c)
      BY <1>5, <3>1 DEF Store, ReadSince
    <3>2. CASE ~Cached(c)
      <4>1. WellFormed(m) /\ ToSet(m) \subseteq ToSet(Cache(c)) \cup {e}
        BY <2>2, <3>2, CallTypes, InsertKeeps DEF Cached
      <4>2. cache' = [cache EXCEPT ![WorkerOf[c]] = m]
        BY <1>5, <3>2 DEF Store, Cache, e
      <4> HIDE DEF m
      <4>3. cache'[WorkerOf[c]] = m /\ \A v \in Workers \ {WorkerOf[c]} : cache'[v] = cache[v]
        BY <4>1, <4>2, CallTypes, CacheReplaced
      <4> QED BY <2>3, <4>1, <4>3, CallTypes DEF ReadSince, Cache
    <3> QED BY <3>1, <3>2
  <2>5. \A d \in Calls : pc'[d] = "read" => pc[d] = "read" /\ d # c
    BY <1>5, <2>1, CallTypes, Returned DEF Store, Active
  <2>6. \A d \in Calls \ {c} : held'[d] = held[d]
    BY <2>1 DEF Types, TypeOK
  <2> QED BY <2>1, <2>4, <2>5, <2>6 DEF ReadSince
<1>6. ASSUME NEW id \in WorkflowIds, Edit(id) PROVE ReadSince'
  <2>1. PICK new :
          /\ files' = [files EXCEPT ![id] = new] /\ UNCHANGED <<cache, pc, held>>
          /\ since' = [w \in Workers |-> since[w] \cup {<<id, new>>}]
    BY <1>6 DEF Edit
  <2>2. \A i \in WorkflowIds : files'[i] = IF i = id THEN new ELSE files[i]
    BY <2>1 DEF Types, TypeOK
  <2> QED BY <2>1, <2>2, ConstantsAssumption DEF ReadSince
<1>7. ASSUME NEW w \in Workers, Restart(w) PROVE ReadSince'
  <2>1. /\ pc' = [c \in Calls |-> IF c \in InFlight(w) THEN "lost" ELSE pc[c]]
        /\ held' = [c \in Calls |-> IF c \in InFlight(w) THEN None ELSE held[c]]
        /\ cache' = [cache EXCEPT ![w] = <<>>]
        /\ since' = [since EXCEPT ![w] = {<<id, files[id]>> : id \in WorkflowIds}]
        /\ UNCHANGED files
    BY <1>7 DEF Restart, LoseCalls, Without
  <2>2. \A v \in Workers : /\ cache'[v] = IF v = w THEN <<>> ELSE cache[v]
                          /\ since'[v] = IF v = w THEN {<<id, files[id]>> : id \in WorkflowIds}
                                                  ELSE since[v]
    BY <2>1 DEF Types, TypeOK
  <2>3. ToSet(<<>>) = {}
    BY DEF ToSet
  <2>4. \A c \in Calls : pc'[c] = "read" =>
          pc[c] = "read" /\ held'[c] = held[c] /\ WorkerOf[c] # w
    BY <2>1 DEF InFlight, Active
  <2>5. \A v \in Workers : \A id \in WorkflowIds : <<id, files'[id]>> \in since'[v]
    BY <2>1, <2>2 DEF ReadSince
  <2>6. \A v \in Workers : \A e \in ToSet(cache'[v]) : <<e.id, e.content>> \in since'[v]
    BY <2>2, <2>3 DEF ReadSince
  <2>7. \A c \in Calls : pc'[c] = "read" => <<WorkflowOf[c], held'[c]>> \in since'[WorkerOf[c]]
    <3> SUFFICES ASSUME NEW c \in Calls, pc'[c] = "read"
                 PROVE  <<WorkflowOf[c], held'[c]>> \in since'[WorkerOf[c]]
      OBVIOUS
    <3>1. pc[c] = "read" /\ held'[c] = held[c] /\ WorkerOf[c] # w /\ WorkerOf[c] \in Workers
      BY <2>4, CallTypes
    <3> QED BY <2>2, <3>1 DEF ReadSince
  <2> QED BY <2>5, <2>6, <2>7 DEF ReadSince
<1> QED BY <1>1, <1>2, <1>3, <1>4, <1>5, <1>6, <1>7 DEF Next, Load

\* A restart deploys every change: no worker uses a content from before its
\* start (config_loader.py:33, "process restart", docs/architecture.md:420).
THEOREM RestartDeploys == Spec => FreshAfterRestart
<1>1. Init => ReadSince
  <2>1. ToSet(<<>>) = {}
    BY DEF ToSet
  <2>2. Init => /\ \A w \in Workers : cache[w] = <<>>
                /\ \A c \in Calls : pc[c] = "first"
                /\ \A w \in Workers : since[w] = {<<id, files[id]>> : id \in WorkflowIds}
    BY DEF Init
  <2> QED BY <2>1, <2>2 DEF ReadSince
<1> DEFINE A == \A c \in Calls : Len(loaded'[c]) > Len(loaded[c])
                  => <<WorkflowOf[c], Last(loaded'[c])>> \in since[WorkerOf[c]]
<1>2. Types /\ ReadSince /\ [Next]_vars => [A]_vars
  <2> SUFFICES ASSUME Types, ReadSince, Next, NEW c \in Calls,
                      Len(loaded'[c]) > Len(loaded[c])
               PROVE  <<WorkflowOf[c], Last(loaded'[c])>> \in since[WorkerOf[c]]
    OBVIOUS
  <2>1. loaded[c] \in Seq(Contents) /\ Len(loaded[c]) \in Nat /\ WorkerOf[c] \in Workers
    BY CallTypes, LenProperties
  <2>2. loaded'[c] # loaded[c]
    BY <2>1
  <2>3. ASSUME NEW d \in Calls, pc[d] \in {"first"} \cup Active, NEW x \in Contents, Return(d, x)
        PROVE  d = c /\ Last(loaded'[c]) = x
    <3>1. d = c
      BY <2>2, <2>3, Returned
    <3>2. loaded'[c] = Append(loaded[c], x)
      BY <2>3, <3>1, Returned
    <3> QED BY <2>1, <3>1, <3>2, LoadsAppend
  <2>4. ASSUME NEW d \in Calls, Hit(d)
        PROVE  <<WorkflowOf[c], Last(loaded'[c])>> \in since[WorkerOf[c]]
    <3>1. EntryOf(d).content \in Contents /\ EntryOf(d).id = WorkflowOf[d]
          /\ EntryOf(d) \in ToSet(Cache(d))
      BY <2>4, EntryType, PlaceFound DEF Hit, ToSet
    <3>2. d = c /\ Last(loaded'[c]) = EntryOf(d).content
      BY <2>3, <2>4, <3>1 DEF Hit, Active
    <3> QED BY <2>1, <3>1, <3>2 DEF ReadSince, Cache
  <2>5. ASSUME NEW d \in Calls, Read(d)
        PROVE  <<WorkflowOf[c], Last(loaded'[c])>> \in since[WorkerOf[c]]
    <3>1. CASE File(d)[1] = "config"
      BY <2>2, <2>5, <3>1 DEF Read
    <3>2. CASE File(d)[1] # "config"
      <4>1. d = c /\ Last(loaded'[c]) = File(d)
        BY <2>3, <2>5, <3>2, CallTypes DEF Read, Active
      <4> QED BY <2>1, <4>1, CallTypes DEF ReadSince, File
    <3> QED BY <3>1, <3>2
  <2>6. ASSUME NEW d \in Calls, Store(d)
        PROVE  <<WorkflowOf[c], Last(loaded'[c])>> \in since[WorkerOf[c]]
    <3>1. d = c /\ Last(loaded'[c]) = held[d]
      BY <2>3, <2>6, CallTypes DEF Store, Active
    <3> QED BY <2>6, <3>1 DEF ReadSince, Store
  <2>7. ASSUME NEW d \in Calls, Miss(d) PROVE FALSE
    BY <2>2, <2>7 DEF Miss
  <2>8. ASSUME NEW id \in WorkflowIds, Edit(id) PROVE FALSE
    BY <2>2, <2>8 DEF Edit
  <2>9. ASSUME NEW w \in Workers, Restart(w) PROVE FALSE
    <3>1. loaded'[c] \in {<<>>, loaded[c]}
      BY <2>9 DEF Restart, LoseCalls, Without
    <3>2. Len(<<>>) = 0
      BY EmptySeq
    <3> QED BY <2>1, <2>2, <3>1, <3>2
  <2> QED BY <2>4, <2>5, <2>6, <2>7, <2>8, <2>9 DEF Next, Load
<1> QED BY <1>1, <1>2, ReadSinceStep, TypesHold, PTL DEF Spec, FreshAfterRestart

-----------------------------------------------------------------------------
\* As many other workflows as the cache holds were used while c ran.
Displaced(c) == Cardinality(used[c] \ {WorkflowOf[c]}) >= MaxSize

\* The entries more recent than c's own were used while c ran.
Recent(c) ==
  \A i, j \in DOMAIN Cache(c) :
    Cache(c)[i].id = WorkflowOf[c] /\ j > i => Cache(c)[j].id \in used[c]

\* Before the second lookup of a call its entry is there or was displaced.
EntryKept(c) ==
  /\ IsFiniteSet(used[c])
  /\ pc[c] \in Active => Recent(c)
  /\ pc[c] \in Active /\ loaded[c] # <<>> => (pc[c] = "second" /\ Cached(c)) \/ Displaced(c)

EntriesKept == \A c \in Calls : EntryKept(c)

\* A set that holds the ids of a full cache has maxsize members.
LEMMA FullCacheCount ==
  ASSUME NEW s, WellFormed(s), Len(s) = MaxSize, NEW S, IsFiniteSet(S),
         \A i \in DOMAIN s : s[i].id \in S
  PROVE  Cardinality(S) >= MaxSize
<1> DEFINE f == [i \in 1 .. MaxSize |-> s[i].id]
<1>1. MaxSize \in Nat \ {0} /\ DOMAIN s = 1 .. MaxSize
  BY ConstantsAssumption, LenProperties DEF WellFormed
<1>2. f \in [1 .. MaxSize -> S] /\ \A i, j \in 1 .. MaxSize : f[i] = f[j] => i = j
  BY <1>1 DEF WellFormed
<1>3. f \in Injection(1 .. MaxSize, S)
  BY <1>2 DEF Injection, IsInjective
<1>4. Cardinality(1 .. MaxSize) <= Cardinality(S)
  BY <1>3, FS_Injection
<1>5. Cardinality(1 .. MaxSize) = MaxSize
  BY <1>1, FS_Interval
<1>6. Cardinality(S) \in Nat
  BY FS_CardinalityType
<1> QED BY <1>1, <1>4, <1>5, <1>6

\* What was displaced stays so.
LEMMA DisplacedStays ==
  ASSUME NEW c \in Calls, used[c] \subseteq used'[c], IsFiniteSet(used'[c]), Displaced(c)
  PROVE  Displaced(c)'
<1> DEFINE S == used[c] \ {WorkflowOf[c]}
           T == used'[c] \ {WorkflowOf[c]}
<1>1. S \subseteq T /\ IsFiniteSet(T)
  BY FS_Subset
<1>2. Cardinality(S) <= Cardinality(T) /\ IsFiniteSet(S)
  BY <1>1, FS_Subset
<1>3. Cardinality(S) \in Nat /\ Cardinality(T) \in Nat
  BY <1>1, <1>2, FS_CardinalityType
<1>4. Cardinality(S) >= MaxSize
  BY DEF Displaced
<1>5. Cardinality(T) >= MaxSize
  BY <1>2, <1>3, <1>4, ConstantsAssumption
<1> QED BY <1>5 DEF Displaced

\* What a use of c's workflow adds to the histories.
LEMMA Touched ==
  ASSUME Types, NEW c \in Calls, Touch(c), NEW d \in Calls, IsFiniteSet(used[d])
  PROVE  /\ used[d] \subseteq used'[d] /\ IsFiniteSet(used'[d])
         /\ pc[d] \in Active /\ WorkerOf[d] = WorkerOf[c] => WorkflowOf[c] \in used'[d]
         /\ WorkerOf[d] # WorkerOf[c] => used'[d] = used[d]
<1>1. used'[d] \in {used[d], used[d] \cup {WorkflowOf[c]}}
  BY DEF Touch
<1>2. IsFiniteSet(used'[d])
  BY <1>1, FS_AddElement
<1> QED BY <1>1, <1>2 DEF Touch

\* A call whose cache, history and progress do not change.
LEMMA KeptUnchanged ==
  ASSUME NEW c \in Calls, EntryKept(c),
         Cache(c)' = Cache(c), used'[c] = used[c], pc'[c] = pc[c], loaded'[c] = loaded[c]
  PROVE  EntryKept(c)'
BY DEF EntryKept, Recent, Cached, Displaced

\* A hit moves an entry behind those of other calls, and records the use.
LEMMA HitKeeps ==
  ASSUME Types, EntriesKept, NEW c \in Calls, Hit(c), NEW d \in Calls
  PROVE  EntryKept(d)'
<1> DEFINE s == Cache(c)
           k == PlaceOf(c)
           m == MostRecent(s, k)
<1>1. /\ Cached(c) /\ pc[c] \in {"first"} \cup Active /\ Touch(c)
      /\ Return(c, EntryOf(c).content)
      /\ cache' = [cache EXCEPT ![WorkerOf[c]] = m]
  BY DEF Hit, Cache, Active
<1>2. WellFormed(s) /\ k \in DOMAIN s /\ s[k].id = WorkflowOf[c] /\ WorkerOf[c] \in Workers
  BY <1>1, CallTypes, PlaceFound
<1> HIDE DEF k
<1>3. /\ WellFormed(m) /\ ToSet(m) = ToSet(s)
      /\ m[Len(m)] = s[k] /\ Len(m) \in DOMAIN m
      /\ \A i, j \in DOMAIN m : j > i /\ m[j].id # s[k].id =>
           \E x, y \in DOMAIN s : y > x /\ m[i] = s[x] /\ m[j] = s[y]
  BY <1>2, MostRecentKeeps
<1> HIDE DEF m
<1>4. cache'[WorkerOf[c]] = m /\ \A v \in Workers \ {WorkerOf[c]} : cache'[v] = cache[v]
  BY <1>1, <1>2, <1>3, CacheReplaced
<1>5. WorkerOf[d] \in Workers /\ EntryKept(d)
  BY CallTypes DEF EntriesKept
<1>6. /\ used[d] \subseteq used'[d] /\ IsFiniteSet(used'[d])
      /\ pc[d] \in Active /\ WorkerOf[d] = WorkerOf[c] => WorkflowOf[c] \in used'[d]
      /\ WorkerOf[d] # WorkerOf[c] => used'[d] = used[d]
  BY <1>1, <1>5, Touched DEF EntryKept
<1>7. /\ d # c => pc'[d] = pc[d] /\ loaded'[d] = loaded[d]
      /\ pc'[c] \in {"second", "ended"}
  BY <1>1, EntryType, Returned
<1>8. CASE WorkerOf[d] # WorkerOf[c]
  BY <1>4, <1>5, <1>6, <1>7, <1>8, KeptUnchanged DEF Cache
<1>9. CASE d # c /\ WorkerOf[d] = WorkerOf[c]
  <2>1. Cache(d) = s /\ Cache(d)' = m
    BY <1>4, <1>9 DEF Cache
  <2>2. ASSUME pc'[d] \in Active PROVE Recent(d)'
    <3> SUFFICES ASSUME NEW i \in DOMAIN m, NEW j \in DOMAIN m, m[i].id = WorkflowOf[d], j > i
                 PROVE  m[j].id \in used'[d]
      BY <2>1 DEF Recent
    <3>1. CASE m[j].id = s[k].id
      BY <1>2, <1>6, <1>7, <1>9, <2>2, <3>1
    <3>2. CASE m[j].id # s[k].id
      <4>1. PICK x \in DOMAIN s, y \in DOMAIN s : y > x /\ m[i] = s[x] /\ m[j] = s[y]
        BY <1>3, <3>2
      <4>2. s[y].id \in used[d]
        BY <1>5, <1>7, <1>9, <2>1, <2>2, <4>1 DEF EntryKept, Recent
      <4> QED BY <1>6, <4>1, <4>2
    <3> QED BY <3>1, <3>2
  <2>3. Cached(d)' <=> Cached(d)
    <3>1. \A x : x \in ToSet(m) <=> \E i \in DOMAIN m : x = m[i]
      BY DEF ToSet
    <3>2. \A x : x \in ToSet(s) <=> \E i \in DOMAIN s : x = s[i]
      BY DEF ToSet
    <3>3. \A i \in DOMAIN m : \E j \in DOMAIN s : m[i] = s[j]
      BY <1>3, <3>1, <3>2
    <3>4. \A i \in DOMAIN s : \E j \in DOMAIN m : s[i] = m[j]
      BY <1>3, <3>1, <3>2
    <3>5. /\ Cached(d) <=> \E i \in DOMAIN s : s[i].id = WorkflowOf[d]
          /\ Cached(d)' <=> \E i \in DOMAIN m : m[i].id = WorkflowOf[d]
      BY <2>1 DEF Cached, Ids
    <3> HIDE DEF s
    <3> QED BY <3>3, <3>4, <3>5
  <2>4. Displaced(d) => Displaced(d)'
    BY <1>6, DisplacedStays
  <2> QED BY <1>5, <1>6, <1>7, <1>9, <2>2, <2>3, <2>4 DEF EntryKept
<1>10. CASE d = c
  <2>1. Cache(c)' = m
    BY <1>4 DEF Cache
  <2>2. Recent(c)'
    <3> SUFFICES ASSUME NEW i \in DOMAIN m, NEW j \in DOMAIN m, m[i].id = WorkflowOf[c], j > i
                 PROVE  FALSE
      BY <2>1 DEF Recent
    <3>1. i = Len(m)
      BY <1>2, <1>3 DEF WellFormed
    <3>2. DOMAIN m = 1 .. Len(m) /\ Len(m) \in Nat
      BY <1>3, LenProperties DEF WellFormed
    <3> QED BY <3>1, <3>2
  <2>3. Cached(c)'
    BY <1>2, <1>3, <2>1 DEF Cached, Ids
  <2>4. pc'[c] \in Active => pc'[c] = "second"
    BY <1>7 DEF Active
  <2> QED BY <1>6, <1>10, <2>2, <2>3, <2>4 DEF EntryKept
<1> QED BY <1>8, <1>9, <1>10

\* A store evicts the oldest entry at most; when that is the entry of a call,
\* the cache is full of entries used while it ran.
LEMMA StoreKeeps ==
  ASSUME Types, EntriesKept, NEW c \in Calls, Store(c), NEW d \in Calls
  PROVE  EntryKept(d)'
<1> DEFINE s == Cache(c)
           e == [id |-> WorkflowOf[c], content |-> held[c]]
           m == Insert(s, e)
<1>1. pc[c] = "read" /\ Return(c, held[c]) /\ held[c] \in Contents /\ WorkerOf[c] \in Workers
  BY CallTypes DEF Store
<1>2. /\ d # c => pc'[d] = pc[d] /\ loaded'[d] = loaded[d]
      /\ pc'[c] \in {"second", "ended"}
  BY <1>1, Returned DEF Active
<1>3. pc'[c] \in Active => pc'[c] = "second"
  BY <1>2 DEF Active
<1>4. EntryKept(d) /\ EntryKept(c) /\ WorkerOf[d] \in Workers
  BY CallTypes DEF EntriesKept
<1>5. CASE Cached(c)
  <2>1. UNCHANGED <<cache, used>>
    BY <1>5 DEF Store
  <2>2. Cache(d)' = Cache(d) /\ used'[d] = used[d]
    BY <2>1 DEF Cache
  <2>3. CASE d # c
    BY <1>2, <1>4, <2>2, <2>3, KeptUnchanged
  <2>4. CASE d = c
    <3>1. Recent(c)' /\ Cached(c)' /\ IsFiniteSet(used'[c])
      BY <1>1, <1>4, <1>5, <2>2, <2>4 DEF EntryKept, Recent, Cached, Active
    <3> QED BY <1>3, <2>4, <3>1 DEF EntryKept
  <2> QED BY <2>3, <2>4
<1>6. CASE ~Cached(c)
  <2>1. cache' = [cache EXCEPT ![WorkerOf[c]] = m] /\ Touch(c)
    BY <1>6 DEF Store, Cache
  <2>2. /\ WellFormed(s) /\ e \in Entries /\ e.content[1] = "config"
        /\ e.id = WorkflowOf[c] /\ e.id \notin Ids(s)
    BY <1>1, <1>6, CallTypes, NewEntry DEF Cached
  <2> HIDE DEF e
  <2>3. /\ WellFormed(m) /\ m[Len(m)] = e /\ Len(m) \in DOMAIN m
        /\ \A i, j \in DOMAIN m : j > i /\ m[j].id # e.id =>
             \E x, y \in DOMAIN s : y > x /\ m[i] = s[x] /\ m[j] = s[y]
        /\ \A x \in DOMAIN s : s[x].id \notin Ids(m) =>
             /\ Len(m) = MaxSize
             /\ \A i \in DOMAIN m : m[i].id # e.id => \E y \in DOMAIN s : y > x /\ m[i] = s[y]
    BY <2>2, InsertKeeps
  <2> HIDE DEF m
  <2>4. cache'[WorkerOf[c]] = m /\ \A v \in Workers \ {WorkerOf[c]} : cache'[v] = cache[v]
    BY <1>1, <2>1, <2>3, CacheReplaced
  <2>5. /\ used[d] \subseteq used'[d] /\ IsFiniteSet(used'[d])
        /\ pc[d] \in Active /\ WorkerOf[d] = WorkerOf[c] => WorkflowOf[c] \in used'[d]
        /\ WorkerOf[d] # WorkerOf[c] => used'[d] = used[d]
    BY <1>4, <2>1, Touched DEF EntryKept
  <2>6. CASE WorkerOf[d] # WorkerOf[c]
    BY <1>2, <1>4, <2>4, <2>5, <2>6, KeptUnchanged DEF Cache
  <2>7. CASE d # c /\ WorkerOf[d] = WorkerOf[c]
    <3>1. Cache(d) = s /\ Cache(d)' = m
      BY <2>4, <2>7 DEF Cache
    <3>2. ASSUME pc'[d] \in Active PROVE Recent(d)'
      <4> SUFFICES ASSUME NEW i \in DOMAIN m, NEW j \in DOMAIN m, m[i].id = WorkflowOf[d], j > i
                   PROVE  m[j].id \in used'[d]
        BY <3>1 DEF Recent
      <4>1. CASE m[j].id = e.id
        BY <1>2, <2>2, <2>5, <2>7, <3>2, <4>1
      <4>2. CASE m[j].id # e.id
        <5>1. PICK x \in DOMAIN s, y \in DOMAIN s : y > x /\ m[i] = s[x] /\ m[j] = s[y]
          BY <2>3, <4>2
        <5>2. s[y].id \in used[d]
          BY <1>2, <1>4, <2>7, <3>1, <3>2, <5>1 DEF EntryKept, Recent
        <5> QED BY <2>5, <5>1, <5>2
      <4> QED BY <4>1, <4>2
    <3>3. ASSUME pc[d] = "second", Cached(d), ~Cached(d)' PROVE Displaced(d)'
      <4>1. PICK x \in DOMAIN s : s[x].id = WorkflowOf[d]
        BY <3>1, <3>3 DEF Cached, Ids
      <4>2. WorkflowOf[d] \notin Ids(m)
        BY <3>1, <3>3 DEF Cached
      <4>3. /\ Len(m) = MaxSize
            /\ \A i \in DOMAIN m : m[i].id # e.id => \E y \in DOMAIN s : y > x /\ m[i] = s[y]
        BY <2>3, <4>1, <4>2
      <4>4. ASSUME NEW i \in DOMAIN m PROVE m[i].id \in used'[d] \ {WorkflowOf[d]}
        <5>1. m[i].id # WorkflowOf[d]
          BY <4>2 DEF Ids
        <5>2. CASE m[i].id = e.id
          BY <2>2, <2>5, <2>7, <3>3, <5>1, <5>2 DEF Active
        <5>3. CASE m[i].id # e.id
          <6>1. PICK y \in DOMAIN s : y > x /\ m[i] = s[y]
            BY <4>3, <5>3
          <6>2. s[y].id \in used[d]
            BY <1>4, <3>1, <3>3, <4>1, <6>1 DEF EntryKept, Recent, Active
          <6> QED BY <2>5, <5>1, <6>1, <6>2
        <5> QED BY <5>2, <5>3
      <4>5. IsFiniteSet(used'[d] \ {WorkflowOf[d]})
        BY <2>5, FS_RemoveElement
      <4>6. Cardinality(used'[d] \ {WorkflowOf[d]}) >= MaxSize
        BY <2>3, <4>3, <4>4, <4>5, FullCacheCount
      <4> QED BY <4>6 DEF Displaced
    <3>4. Displaced(d) => Displaced(d)'
      BY <2>5, DisplacedStays
    <3> QED BY <1>2, <1>4, <2>5, <2>7, <3>2, <3>3, <3>4 DEF EntryKept
  <2>8. CASE d = c
    <3>1. Cache(c)' = m
      BY <2>4 DEF Cache
    <3>2. Recent(c)'
      <4> SUFFICES ASSUME NEW i \in DOMAIN m, NEW j \in DOMAIN m, m[i].id = WorkflowOf[c], j > i
                   PROVE  FALSE
        BY <3>1 DEF Recent
      <4>1. i = Len(m)
        BY <2>2, <2>3 DEF WellFormed
      <4>2. DOMAIN m = 1 .. Len(m) /\ Len(m) \in Nat
        BY <2>3, LenProperties DEF WellFormed
      <4> QED BY <4>1, <4>2
    <3>3. Cached(c)'
      BY <2>2, <2>3, <3>1 DEF Cached, Ids
    <3> QED BY <1>3, <2>5, <2>8, <3>2, <3>3 DEF EntryKept
  <2> QED BY <2>6, <2>7, <2>8
<1> QED BY <1>5, <1>6

\* Every step keeps the entries of running calls, or displaces them.
LEMMA EntriesStep == Types /\ EntriesKept /\ [Next]_vars => EntriesKept'
<1> SUFFICES ASSUME Types, EntriesKept, [Next]_vars, NEW d \in Calls PROVE EntryKept(d)'
  BY DEF EntriesKept
<1>1. EntryKept(d) /\ WorkerOf[d] \in Workers
  BY CallTypes DEF EntriesKept
<1>2. CASE UNCHANGED vars
  BY <1>1, <1>2, KeptUnchanged DEF vars, Cache
<1>3. ASSUME NEW c \in Calls, Miss(c) PROVE EntryKept(d)'
  <2>1. /\ pc[c] \in {"first", "second"} /\ ~Cached(c) /\ UNCHANGED <<cache, loaded, used>>
        /\ \A x \in Calls : pc'[x] = IF x = c THEN "reading" ELSE pc[x]
    BY <1>3 DEF Miss, Goto, Types, TypeOK
  <2>2. CASE d # c
    BY <1>1, <2>1, <2>2, KeptUnchanged DEF Cache
  <2>3. CASE d = c
    <3>1. Recent(c)'
      BY <2>1 DEF Recent, Cached, Ids, Cache
    <3>2. loaded[c] # <<>> => Displaced(c)
      BY <1>1, <2>1, <2>3 DEF EntryKept, Types, Loading, Active
    <3> QED BY <1>1, <2>1, <2>3, <3>1, <3>2 DEF EntryKept, Displaced
  <2> QED BY <2>2, <2>3
<1>4. ASSUME NEW c \in Calls, Read(c) PROVE EntryKept(d)'
  <2>1. pc[c] = "reading" /\ UNCHANGED <<cache, used>>
    BY <1>4 DEF Read
  <2>2. CASE File(c)[1] = "config"
    <3>1. UNCHANGED loaded /\ \A x \in Calls : pc'[x] = IF x = c THEN "read" ELSE pc[x]
      BY <1>4, <2>2 DEF Read, Goto, Types, TypeOK
    <3> QED BY <1>1, <2>1, <3>1 DEF EntryKept, Recent, Cached, Displaced, Cache, Active
  <2>3. CASE File(c)[1] # "config"
    <3>1. /\ d # c => pc'[d] = pc[d] /\ loaded'[d] = loaded[d]
          /\ pc'[c] = "ended"
      BY <1>4, <2>1, <2>3, CallTypes, Returned DEF Read, Active
    <3>2. CASE d # c
      BY <1>1, <2>1, <3>1, <3>2, KeptUnchanged DEF Cache
    <3>3. CASE d = c
      BY <1>1, <2>1, <3>1, <3>3 DEF EntryKept, Active
    <3> QED BY <3>2, <3>3
  <2> QED BY <2>2, <2>3
<1>5. ASSUME NEW id \in WorkflowIds, Edit(id) PROVE EntryKept(d)'
  BY <1>1, <1>5, KeptUnchanged DEF Edit, Cache
<1>6. ASSUME NEW w \in Workers, Restart(w) PROVE EntryKept(d)'
  <2>1. /\ pc' = [c \in Calls |-> IF c \in InFlight(w) THEN "lost" ELSE pc[c]]
        /\ loaded' = [c \in Calls |-> IF c \in InFlight(w) THEN <<>> ELSE loaded[c]]
        /\ used' = [c \in Calls |-> IF c \in InFlight(w) THEN {} ELSE used[c]]
        /\ cache' = [cache EXCEPT ![w] = <<>>]
    BY <1>6 DEF Restart, LoseCalls, Without
  <2>2. CASE d \in InFlight(w)
    <3>1. pc'[d] = "lost" /\ used'[d] = {}
      BY <2>1, <2>2
    <3>2. IsFiniteSet(used'[d])
      BY <3>1, FS_EmptySet
    <3> QED BY <3>1, <3>2 DEF EntryKept, Active
  <2>3. CASE d \notin InFlight(w) /\ WorkerOf[d] = w
    <3>1. pc'[d] \notin Active /\ used'[d] = used[d]
      BY <2>1, <2>3 DEF InFlight
    <3> QED BY <1>1, <3>1 DEF EntryKept
  <2>4. CASE WorkerOf[d] # w
    <3>1. Cache(d)' = Cache(d) /\ d \notin InFlight(w)
      BY <1>1, <2>1, <2>4 DEF Cache, InFlight, Types, TypeOK
    <3> QED BY <1>1, <2>1, <3>1, KeptUnchanged
  <2> QED BY <2>2, <2>3, <2>4
<1> QED BY <1>2, <1>3, <1>4, <1>5, <1>6, HitKeeps, StoreKeeps DEF Next, Load

\* A call keeps the workflow it was accepted with: run_workflow goes to the
\* file again only if maxsize other workflows were used in the worker since
\* the call began (config_loader.py:33, main.py:126, orchestrator.py:484).
THEOREM AcceptedStays == Spec => []AcceptedWorkflowStays
<1>1. Init => EntriesKept
  <2> SUFFICES ASSUME Init, NEW c \in Calls PROVE EntryKept(c)
    BY DEF EntriesKept
  <2>1. pc[c] = "first" /\ used[c] = {}
    BY DEF Init
  <2> QED BY <2>1, FS_EmptySet DEF EntryKept, Active
<1>2. EntriesKept => AcceptedWorkflowStays
  BY DEF EntriesKept, EntryKept, Displaced, AcceptedWorkflowStays, Active
<1> QED BY <1>1, <1>2, EntriesStep, TypesHold, PTL DEF Spec
=============================================================================
