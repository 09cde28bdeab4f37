-------------------------- MODULE NlMirror_proofs --------------------------
(***************************************************************************)
(* The caches of the manager and the kernel's tables: each cache shows     *)
(* what its table holds or an event queued will tell, and the manager      *)
(* implements NlMirror, for any types, objects, receive buffer and bounds. *)
(***************************************************************************)
EXTENDS NlCacheMngr_proofs

USE DEF dumpVars, Return

-----------------------------------------------------------------------------
(* The invariants.                                                         *)

\* No type shares its objects, its groups or its messages with another.
OwnTypes ==
    /\ OwnObjects
    /\ \A t, u \in Types : MsgOf[t] = MsgOf[u] => t = u
    /\ \A t, u \in Types :
          \A i \in DOMAIN GroupsOf[t], j \in DOMAIN GroupsOf[u] :
              GroupsOf[t][i] = GroupsOf[u][j] => t = u

\* The newest event of k tells the table, and further ones will come.
Fresh(k) ==
    /\ Pending(k) => GroupOf[k] \in joined
    /\ \A i \in DOMAIN evq :
          evq[i].key = k /\ (\A j \in DOMAIN evq : j > i => evq[j].key # k)
             => evq[i].val = table[k]

\* Events are lost only with an error, and the application then waits for
\* the queue to be empty.
Overrun ==
    /\ congested => evq # <<>>
    /\ congested /\ ~err => ~drained /\ lost = ManagedTypes /\ pc # "free"

\* A cache that is being filled, the socket having been read empty: what the
\* dump has not reached is missing, what changed since has an event queued.
Filling ==
    pc = "dump" /\ ~err /\ drained /\ cur \notin doubled =>
        \A k \in KeysOf(cur) :
            \/ Pending(k)
            \/ View(cache)[k] = table[k]
            \/ k \in todo /\ cache[k] = <<>>

\* No cache has an object twice, but for those whose fill was restarted
\* without a hash table;
Single == \A k \in Keys : TypeOf[k] \notin doubled => Len(cache[k]) <= 1

\* without one, what a first dump is to bring is not there yet.
Untouched ==
    pc = "dump" /\ ~OpsOf[cur].hashed /\ cur \notin doubled =>
        \A k \in todo : cache[k] = <<>>

\* Unless an error is to be reported, the events of a cache that is up to
\* date lead to the table; so do all events once the socket was read empty.
AllFresh ==
    ~err => \A k \in Keys :
        drained \/ (Managed(k) /\ TypeOf[k] \notin lost) => Fresh(k)

MInv == Single /\ Untouched /\ Overrun /\ AllFresh /\ Filling /\ Mirrors

\* What the table held is remembered, and nothing else is told or cached.
SInv ==
    \A k \in Keys :
        /\ table[k] \in seen[k]
        /\ \A i \in DOMAIN evq : evq[i].key = k => evq[i].val \in seen[k]
        /\ \A i \in DOMAIN cache[k] : cache[k][i].val \in seen[k]

-----------------------------------------------------------------------------
(* Facts about states.                                                     *)

LEMMA TypesOfKeys ==
    ASSUME BInv
    PROVE  /\ ManagedTypes \subseteq Types /\ cur \in Types
           /\ \A k \in Keys : TypeOf[k] \in Types
           /\ cache \in Contents /\ lost \subseteq ManagedTypes
  BY MngrAssumption DEF BInv, Data, ManagedTypes

LEMMA QueuedEvent ==
    ASSUME BInv, NEW i \in DOMAIN evq
    PROVE  evq[i].key \in Keys /\ evq[i].val \in Vals \cup {None}
  <1> DEFINE E == [key : Keys, val : Vals \cup {None}]
  <1>1. evq \in Seq(E)
    BY DEF BInv, Data
  <1> HIDE DEF E
  <1>2. evq[i] \in E
    BY <1>1
  <1> QED BY <1>2 DEF E

\* A managed cache, and one being filled, is told of all its objects.
LEMMA GroupJoined ==
    ASSUME BInv, OwnTypes, NEW k \in Keys,
           Managed(k) \/ (pc = "dump" /\ TypeOf[k] = cur)
    PROVE  GroupOf[k] \in joined
  <1>1. PICK i \in DOMAIN GroupsOf[TypeOf[k]] : GroupsOf[TypeOf[k]][i] = GroupOf[k]
    BY MngrAssumption
  <1>2. TypeOf[k] \in Types
    BY MngrAssumption
  <1>3. CASE pc # "free" /\ TypeOf[k] \in ManagedTypes
    <2>1. PICK n \in DOMAIN assocs : assocs[n] = TypeOf[k]
      BY <1>3 DEF ManagedTypes
    <2>2. \A t \in Types \ {assocs[n]} : \A m \in DOMAIN GroupsOf[t] :
             GroupsOf[t][m] # GroupsOf[assocs[n]][i]
      BY <1>1, <1>2, <2>1 DEF OwnTypes
    <2>3. GroupsOf[assocs[n]][i] \in joined
      BY <1>1, <1>3, <2>1, <2>2 DEF BInv, KeepsSubscribed
    <2> QED BY <1>1, <2>1, <2>3
  <1>4. CASE pc = "dump" /\ TypeOf[k] = cur /\ cur \notin ManagedTypes
    BY <1>1, <1>4 DEF BInv, Joining, Adding
  <1> QED BY <1>3, <1>4 DEF Managed

\* A cache that is being filled is not one that has been told everything.
LEMMA FillingNotTold ==
    ASSUME BInv, pc = "dump", NEW k \in Keys, TypeOf[k] = cur
    PROVE  ~Told(k)
  BY DEF BInv, Calls, Told, Managed

\* What a cache shows depends on its own objects only.
LEMMA ViewOf ==
    ASSUME NEW c, NEW k \in Keys
    PROVE  View(c)[k] = IF c[k] = <<>> THEN None ELSE Head(c[k]).val
  BY DEF View

-----------------------------------------------------------------------------
(* Each action keeps MInv.                                                 *)

\* Steps that leave the caches, the events and the tables alone.
LEMMA QuietKeepsMInv ==
    ASSUME MInv,
           UNCHANGED <<assocs, cache, evq, err, congested, table, lost,
                       drained, doubled>>,
           joined \subseteq joined', pc' # "dump",
           pc' = "free" => pc = "free",
           pc = "free" => pc' = "free" \/ ManagedTypes = {}
    PROVE  MInv'
  <1>1. \A k : (Managed(k)' => Managed(k)) /\ Pending(k)' = Pending(k)
    BY DEF Managed, Pending, ManagedTypes
  <1>2. \A k \in Keys : Fresh(k) => Fresh(k)'
    BY <1>1 DEF Fresh
  <1>3. Single' /\ Untouched' /\ Filling'
    BY DEF MInv, Single, Untouched, Filling
  <1>4. Overrun'
    BY DEF MInv, Overrun, ManagedTypes
  <1>5. AllFresh'
    BY <1>1, <1>2 DEF MInv, AllFresh
  <1>6. Mirrors'
    BY <1>1 DEF MInv, Mirrors, Current, Told
  <1> QED BY <1>3, <1>4, <1>5, <1>6 DEF MInv

\* Steps after which all managed caches are to be filled again, and no error
\* is to be reported.
LEMMA ErrorKeepsMInv ==
    ASSUME MInv, pc' = "idle", lost' = ManagedTypes, ~drained', assocs' = assocs,
           cache' = cache, doubled' = doubled, congested' => evq' # <<>>
    PROVE  MInv'
  <1>1. ManagedTypes' = ManagedTypes
    BY DEF ManagedTypes
  <1>2. Single' /\ Untouched' /\ Filling'
    BY DEF MInv, Single, Untouched, Filling
  <1>3. Overrun'
    BY <1>1 DEF Overrun
  <1>4. AllFresh' /\ Mirrors'
    BY <1>1 DEF AllFresh, Managed, Mirrors, Current, Told
  <1> QED BY <1>2, <1>3, <1>4 DEF MInv

\* nl_cache_mngr_free() empties the socket; no cache is managed any more.
LEMMA FreeKeepsMInv ==
    ASSUME MInv, nl_cache_mngr_free
    PROVE  MInv'
  <1>1. /\ evq' = <<>> /\ DOMAIN evq' = {} /\ pc' = "free" /\ ~congested'
        /\ cache' = cache /\ doubled' = doubled
    BY DEF nl_cache_mngr_free
  <1>2. Single' /\ Untouched' /\ Filling' /\ Overrun'
    BY <1>1 DEF MInv, Single, Untouched, Filling, Overrun
  <1>3. AllFresh' /\ Mirrors'
    BY <1>1 DEF AllFresh, Fresh, Pending, Mirrors, Current, Told, Managed
  <1> QED BY <1>2, <1>3 DEF MInv

LEMMA FreeCacheKeepsMInv ==
    ASSUME BInv, MInv, FreeCache
    PROVE  MInv'
  <1>1. /\ pc = "free" /\ pc' = "free"
        /\ UNCHANGED <<joined, evq, err, congested, table, lost, drained>>
    BY DEF FreeCache, callVars, kernelVars, appVars
  <1>2. \/ UNCHANGED <<cache, doubled>>
        \/ /\ cache' = [k \in Keys |-> IF TypeOf[k] = Head(assocs) THEN <<>>
                                       ELSE cache[k]]
           /\ doubled' = doubled \ {Head(assocs)}
    BY DEF FreeCache
  <1>3. Single'
    BY <1>2 DEF MInv, Single
  <1>4. Overrun' /\ Untouched' /\ Filling' /\ Mirrors'
    BY <1>1 DEF MInv, Overrun, Untouched, Filling, Mirrors, Current, Told, Managed
  <1>5. AllFresh'
    BY <1>1 DEF MInv, AllFresh, Fresh, Pending, Managed
  <1> QED BY <1>3, <1>4, <1>5 DEF MInv

\* A fill begins: everything the table holds is to come.
LEMMA StartFillKeepsMInv ==
    ASSUME BInv, MInv, NEW t \in Types, StartFill(t), cur' = t,
           t \notin ManagedTypes \/ t \in lost, pc # "free",
           UNCHANGED <<assocs, joined, evq, err, congested, table, lost,
                       drained>>
    PROVE  MInv'
  <1>1. /\ \A k \in Keys : cache'[k] = IF TypeOf[k] = t THEN <<>> ELSE cache[k]
        /\ pc' = "dump" /\ todo' = Dumped(t) /\ doubled' = doubled \ {t}
    BY DEF StartFill
  <1>2. \A k : Managed(k)' = Managed(k) /\ Pending(k)' = Pending(k)
    BY <1>1 DEF Managed, Pending, ManagedTypes
  <1>3. Single' /\ Untouched'
    BY <1>1 DEF MInv, Single, Untouched, Dumped, KeysOf
  <1>4. Overrun'
    BY <1>1 DEF MInv, Overrun, ManagedTypes
  <1>5. AllFresh'
    BY <1>2 DEF MInv, AllFresh, Fresh
  <1>6. Filling'
    <2> SUFFICES ASSUME NEW k \in Keys, TypeOf[k] = t
                 PROVE  \/ View(cache')[k] = table[k]
                        \/ k \in todo' /\ cache'[k] = <<>>
      BY DEF Filling, KeysOf
    <2>1. cache'[k] = <<>> /\ View(cache')[k] = None
      BY <1>1, ViewOf
    <2> QED BY <1>1, <2>1 DEF Dumped, KeysOf
  <1>7. Mirrors'
    <2> SUFFICES ASSUME NEW k \in Current'
                 PROVE  View(cache')[k] = table[k]
      BY DEF Mirrors
    <2>1. k \in Current /\ k \in Keys /\ TypeOf[k] # t
      BY <1>1, <1>2 DEF Current, Told, Managed
    <2>2. View(cache')[k] = View(cache)[k]
      BY <1>1, <2>1, ViewOf
    <2> QED BY <2>1, <2>2 DEF MInv, Mirrors
  <1> QED BY <1>3, <1>4, <1>5, <1>6, <1>7 DEF MInv

LEMMA FillObjectKeepsMInv ==
    ASSUME BInv, OwnTypes, MInv, NEW k \in Keys, FillObject(k)
    PROVE  MInv'
  <1>1. /\ pc = "dump" /\ k \in todo /\ TypeOf[k] = cur /\ cur \in Types
        /\ table[k] \in Vals /\ table[k] # None /\ cache \in Contents
    BY CacheAssumption DEF FillObject, BInv, Data, Calls, KeysOf
  <1>2. /\ UNCHANGED <<assocs, joined, pc, cur, evq, err, congested, table, lost,
                       drained, doubled>>
        /\ todo' = todo \ {k}
    BY DEF FillObject, mngrVars, kernelVars, appVars
  <1>3. \A j : Managed(j)' = Managed(j) /\ Pending(j)' = Pending(j)
    BY <1>2 DEF Managed, Pending, ManagedTypes
  <1>4. PICK d : d = __cache_add(OpsOf[cur], cache, k, table[k])
    OBVIOUS
  <1>5. cache' = d
    BY <1>4 DEF FillObject
  <1>6. d \in Contents /\ \A j \in Keys : j # k => d[j] = cache[j]
    BY <1>1, <1>4, AddObject
  <1>7. cur \notin doubled /\ cache[k] # <<>> => d = cache
    <2>1. cur \notin doubled /\ cache[k] # <<>> => OpsOf[cur].hashed
      BY <1>1 DEF MInv, Untouched
    <2> QED BY <1>4, <2>1, AddedObject
  <1>8. cache[k] = <<>> => Len(d[k]) = 1 /\ d[k] # <<>> /\ Head(d[k]).val = table[k]
    <2> SUFFICES ASSUME cache[k] = <<>>
                 PROVE  Len(d[k]) = 1 /\ d[k] # <<>> /\ Head(d[k]).val = table[k]
      OBVIOUS
    <2>1. d = [cache EXCEPT ![k] = Append(cache[k], Object(table[k]))]
      BY <1>4, AddedObject
    <2>2. d[k] = << Object(table[k]) >>
      BY <1>1, <2>1 DEF Contents
    <2> QED BY <1>1, <2>2, ObjectType
  <1>9. Single'
    <2> SUFFICES ASSUME NEW j \in Keys, TypeOf[j] \notin doubled
                 PROVE  Len(d[j]) <= 1
      BY <1>2, <1>5 DEF Single
    <2>1. Len(cache[j]) <= 1 /\ (j = k => cur \notin doubled)
      BY <1>1 DEF MInv, Single
    <2>2. j # k \/ cache[k] # <<>> => d[j] = cache[j]
      BY <1>6, <1>7, <2>1
    <2>3. cache[k] = <<>> => Len(d[k]) <= 1
      <3>1. PICK n : n = Len(d[k])
        OBVIOUS
      <3>2. cache[k] = <<>> => n = 1
        BY <1>8, <3>1
      <3>3. cache[k] = <<>> => n <= 1
        BY <3>2
      <3> QED BY <3>1, <3>3
    <2> QED BY <2>1, <2>2, <2>3
  <1>10. Overrun' /\ AllFresh' /\ Untouched'
    BY <1>1, <1>2, <1>3, <1>5, <1>6 DEF MInv, Overrun, AllFresh, Fresh, ManagedTypes,
       Untouched, BInv, Data, KeysOf
  <1>11. Filling'
    <2> SUFFICES ASSUME ~err, drained, cur \notin doubled, NEW j \in Keys,
                        TypeOf[j] = cur, ~Pending(j)
                 PROVE  \/ View(d)[j] = table[j]
                        \/ j \in todo' /\ d[j] = <<>>
      BY <1>2, <1>3, <1>5 DEF Filling, KeysOf
    <2>1. View(cache)[j] = table[j] \/ (j \in todo /\ cache[j] = <<>>)
      BY <1>1 DEF MInv, Filling, KeysOf
    <2>2. CASE j # k
      <3>1. d[j] = cache[j] /\ View(d)[j] = View(cache)[j]
        BY <1>6, <2>2, ViewOf
      <3> QED BY <1>2, <2>1, <2>2, <3>1
    <2>3. CASE j = k
      <3>1. cache[k] = <<>> => View(d)[k] = table[k]
        BY <1>8, ViewOf
      <3>2. cache[k] # <<>> => d = cache
        BY <1>7
      <3> QED BY <2>1, <2>3, <3>1, <3>2
    <2> QED BY <2>2, <2>3
  <1>12. Mirrors'
    <2> SUFFICES ASSUME NEW j \in Current'
                 PROVE  View(d)[j] = table[j]
      BY <1>2, <1>5 DEF Mirrors
    <2>1. j \in Current /\ j \in Keys /\ Told(j)
      BY <1>2, <1>3 DEF Current, Told
    <2>2. j # k
      BY <1>1, <2>1, FillingNotTold
    <2>3. View(d)[j] = View(cache)[j]
      BY <1>6, <2>1, <2>2, ViewOf
    <2> QED BY <2>1, <2>3 DEF MInv, Mirrors
  <1> QED BY <1>9, <1>10, <1>11, <1>12 DEF MInv

\* An interrupted dump starts again: nothing was to come any more.  Without a
\* hash table, no more is claimed of the cache.
LEMMA FillRestartKeepsMInv ==
    ASSUME BInv, MInv, FillRestart
    PROVE  MInv'
  <1>1. /\ UNCHANGED <<assocs, cache, joined, pc, cur, evq, err, congested, table,
                       lost, drained>>
        /\ todo = {} /\ pc = "dump" /\ doubled \subseteq doubled'
        /\ OpsOf[cur].hashed \/ cur \in doubled'
    BY DEF FillRestart, mngrVars, kernelVars, appVars
  <1>2. \A j : Managed(j)' = Managed(j) /\ Pending(j)' = Pending(j)
    BY <1>1 DEF Managed, Pending, ManagedTypes
  <1>3. Single' /\ Untouched' /\ Overrun' /\ AllFresh'
    BY <1>1, <1>2 DEF MInv, Single, Untouched, Overrun, AllFresh, Fresh, ManagedTypes
  <1>4. Filling'
    BY <1>1, <1>2 DEF MInv, Filling, KeysOf
  <1>5. Mirrors'
    BY <1>1, <1>2 DEF MInv, Mirrors, Current, Told
  <1> QED BY <1>3, <1>4, <1>5 DEF MInv

\* The end of a fill: its type is managed.
LEMMA FillDoneTypes ==
    ASSUME BInv, FillDone
    PROVE  ManagedTypes' = ManagedTypes \cup {cur}
  <1>1. assocs \in Seq(Types) /\ cur \in Types
    BY DEF BInv, Data
  <1>2. CASE cur \in ManagedTypes /\ assocs' = assocs
    BY <1>2 DEF ManagedTypes
  <1>3. CASE assocs' = Append(assocs, cur)
    <2> DEFINE n == Len(assocs)
    <2>1. /\ n \in Nat /\ DOMAIN assocs = 1..n /\ DOMAIN assocs' = 1..(n + 1)
          /\ assocs'[n + 1] = cur /\ n + 1 \in 1..(n + 1)
          /\ \A i \in 1..n : assocs'[i] = assocs[i] /\ i \in 1..(n + 1)
      BY <1>1, <1>3
    <2> HIDE DEF n
    <2>2. \A i \in 1..(n + 1) : i = n + 1 \/ i \in 1..n
      BY <2>1
    <2> QED BY <2>1, <2>2 DEF ManagedTypes
  <1> QED BY <1>2, <1>3 DEF FillDone

\* The dump is complete: what it missed has events, or, if events from before
\* may be queued, the cache is to be filled again.
LEMMA FillDoneKeepsMInv ==
    ASSUME BInv, MInv, FillDone
    PROVE  MInv'
  <1>1. /\ UNCHANGED <<cache, joined, evq, err, congested, table, drained,
                       doubled>>
        /\ todo = {} /\ pc = "dump" /\ pc' = "idle"
        /\ lost' = IF drained THEN lost \ {cur} ELSE lost \cup {cur}
    BY DEF FillDone, kernelVars
  <1>2. \A j : Pending(j)' = Pending(j)
    BY <1>1 DEF Pending
  <1>3. Single' /\ Untouched' /\ Filling'
    BY <1>1 DEF MInv, Single, Untouched, Filling
  <1>4. ManagedTypes' = ManagedTypes \cup {cur}
    BY FillDoneTypes
  <1>5. Overrun'
    BY <1>1, <1>4 DEF MInv, Overrun
  <1>6. ASSUME NEW k \in Keys, TypeOf[k] # cur, Managed(k)', TypeOf[k] \notin lost'
        PROVE  Managed(k) /\ TypeOf[k] \notin lost
    BY <1>1, <1>4, <1>6 DEF Managed
  <1>7. AllFresh'
    <2> SUFFICES ASSUME ~err, NEW k \in Keys,
                        drained \/ (Managed(k)' /\ TypeOf[k] \notin lost')
                 PROVE  Fresh(k)'
      BY <1>1 DEF AllFresh
    <2>1. drained \/ (Managed(k) /\ TypeOf[k] \notin lost)
      BY <1>1, <1>6
    <2>2. Fresh(k)
      BY <2>1 DEF MInv, AllFresh
    <2> QED BY <1>1, <1>2, <2>2 DEF Fresh
  <1>8. Mirrors'
    <2> SUFFICES ASSUME NEW k \in Current'
                 PROVE  View(cache)[k] = table[k]
      BY <1>1 DEF Mirrors
    <2>1. /\ k \in Keys /\ ~err /\ ~Pending(k) /\ TypeOf[k] \notin doubled
          /\ Managed(k)' /\ TypeOf[k] \notin lost'
      BY <1>1, <1>2 DEF Current, Told
    <2>2. CASE TypeOf[k] = cur
      <3>1. drained
        BY <1>1, <2>1, <2>2
      <3> QED BY <1>1, <2>1, <2>2, <3>1 DEF MInv, Filling, KeysOf
    <2>3. CASE TypeOf[k] # cur
      <3>1. k \in Current
        BY <1>6, <2>1, <2>3 DEF Current, Told
      <3> QED BY <3>1 DEF MInv, Mirrors
    <2> QED BY <2>2, <2>3
  <1> QED BY <1>3, <1>5, <1>7, <1>8 DEF MInv

\* An addition fails: the groups it leaves are those of no managed cache.
LEMMA FillFailsKeepsMInv ==
    ASSUME BInv, OwnTypes, MInv, FillFails
    PROVE  MInv'
  <1>1. /\ UNCHANGED <<assocs, evq, err, congested, table, lost>>
        /\ pc = "dump" /\ pc' = "idle"
    BY DEF FillFails, kernelVars
  <1>2. CASE cur \in ManagedTypes
    BY <1>1, <1>2, QuietKeepsMInv DEF FillFails
  <1>3. CASE cur \notin ManagedTypes
    <2>1. /\ \A k \in Keys : cache'[k] = IF TypeOf[k] = cur THEN <<>> ELSE cache[k]
          /\ joined' = joined \ {GroupsOf[cur][i] : i \in DOMAIN GroupsOf[cur]}
          /\ ~drained' /\ doubled' = doubled \ {cur}
      BY <1>3 DEF FillFails
    <2>2. \A k : Managed(k)' = Managed(k) /\ Pending(k)' = Pending(k)
      BY <1>1 DEF Managed, Pending, ManagedTypes
    <2>3. Single' /\ Untouched' /\ Filling'
      BY <1>1, <2>1 DEF MInv, Single, Untouched, Filling
    <2>4. Overrun'
      BY <1>1, <2>1 DEF MInv, Overrun, ManagedTypes
    <2>5. AllFresh'
      <3> SUFFICES ASSUME ~err, NEW k \in Keys, Managed(k), TypeOf[k] \notin lost
                   PROVE  Fresh(k)'
        BY <1>1, <2>1, <2>2 DEF AllFresh
      <3>1. Fresh(k)
        BY DEF MInv, AllFresh
      <3>2. GroupOf[k] \in joined => GroupOf[k] \in joined'
        <4>1. /\ TypeOf[k] \in Types /\ TypeOf[k] \in ManagedTypes
              /\ cur \in Types
          BY TypesOfKeys DEF Managed
        <4>2. PICK i \in DOMAIN GroupsOf[TypeOf[k]] :
                 GroupsOf[TypeOf[k]][i] = GroupOf[k]
          BY MngrAssumption
        <4>3. \A n \in DOMAIN GroupsOf[cur] : GroupsOf[cur][n] # GroupOf[k]
          BY <1>3, <4>1, <4>2 DEF OwnTypes
        <4> QED BY <2>1, <4>3
      <3> QED BY <1>1, <2>2, <3>1, <3>2 DEF Fresh
    <2>6. Mirrors'
      <3> SUFFICES ASSUME NEW k \in Current'
                   PROVE  View(cache')[k] = table[k]
        BY <1>1 DEF Mirrors
      <3>1. k \in Current /\ k \in Keys /\ TypeOf[k] # cur
        BY <1>1, <1>3, <2>1, <2>2 DEF Current, Told, Managed
      <3>2. View(cache')[k] = View(cache)[k]
        BY <2>1, <3>1, ViewOf
      <3> QED BY <3>1, <3>2 DEF MInv, Mirrors
    <2> QED BY <2>3, <2>4, <2>5, <2>6 DEF MInv
  <1> QED BY <1>2, <1>3

LEMMA ReadAgainKeepsMInv ==
    ASSUME MInv, ReadAgain
    PROVE  MInv'
  <1>1. /\ UNCHANGED <<assocs, cache, joined, evq, err, congested, table, lost,
                       doubled>>
        /\ evq = <<>> /\ pc = "ready" /\ pc' = "idle"
    BY DEF ReadAgain, mngrVars, kernelVars
  <1>2. \A k : Managed(k)' = Managed(k) /\ ~Pending(k)' /\ ~Pending(k)
    BY <1>1 DEF Managed, Pending, ManagedTypes
  <1>3. Single' /\ Untouched' /\ Filling' /\ Overrun'
    BY <1>1 DEF MInv, Single, Untouched, Filling, Overrun
  <1>4. AllFresh'
    BY <1>1, <1>2 DEF AllFresh, Fresh
  <1>5. Mirrors'
    BY <1>1, <1>2 DEF MInv, Mirrors, Current, Told
  <1> QED BY <1>3, <1>4, <1>5 DEF MInv

-----------------------------------------------------------------------------
(* Events.                                                                 *)

\* The events that are left when the first has been read.
LEMMA TailOfQueue ==
    ASSUME NEW E, NEW q \in Seq(E), q # <<>>
    PROVE  /\ Len(q) \in Nat /\ Len(q) >= 1 /\ Head(q) = q[1]
           /\ DOMAIN q = 1..Len(q)
           /\ DOMAIN Tail(q) = 1..(Len(q) - 1)
           /\ \A i \in 1..(Len(q) - 1) : Tail(q)[i] = q[i + 1]
  BY HeadTailProperties

\* Reading an event leaves the newest event of each object, and no other
\* object loses one.
LEMMA ReadKeepsFresh ==
    ASSUME BInv, evq # <<>>, evq' = Tail(evq),
           UNCHANGED <<joined, table>>, NEW k \in Keys
    PROVE  /\ Pending(k)' => Pending(k)
           /\ Fresh(k) => Fresh(k)'
           /\ Pending(k) /\ ~Pending(k)' =>
                 /\ Head(evq).key = k
                 /\ Fresh(k) => Head(evq).val = table[k]
  <1> DEFINE n == Len(evq)
  <1>1. evq \in Seq([key : Keys, val : Vals \cup {None}])
    BY DEF BInv, Data
  <1>2. /\ n \in Nat /\ n >= 1 /\ Head(evq) = evq[1] /\ DOMAIN evq = 1..n
        /\ DOMAIN evq' = 1..(n - 1)
        /\ \A i \in 1..(n - 1) : evq'[i] = evq[i + 1]
    BY <1>1, TailOfQueue
  <1> HIDE DEF n
  <1>3. \A i \in 1..(n - 1) : i + 1 \in 1..n
    BY <1>2
  <1>4. \A i \in 1..n : i = 1 \/ (i - 1 \in 1..(n - 1) /\ evq'[i - 1] = evq[i])
    BY <1>2
  <1>5. Pending(k)' => Pending(k)
    BY <1>2, <1>3 DEF Pending
  <1>6. Fresh(k) => Fresh(k)'
    <2> SUFFICES ASSUME Fresh(k), NEW i \in 1..(n - 1), evq'[i].key = k,
                        \A j \in 1..(n - 1) : j > i => evq'[j].key # k
                 PROVE  evq'[i].val = table[k]
      BY <1>2, <1>5 DEF Fresh
    <2>1. ASSUME NEW j \in 1..n, j > i + 1 PROVE evq[j].key # k
      <3>1. j - 1 \in 1..(n - 1) /\ evq'[j - 1] = evq[j] /\ j - 1 > i
        BY <1>2, <2>1
      <3> QED BY <3>1
    <2>2. i + 1 \in 1..n /\ evq[i + 1].key = k
      BY <1>2, <1>3
    <2>3. evq[i + 1].val = table[k]
      BY <1>2, <2>1, <2>2 DEF Fresh
    <2> QED BY <1>2, <2>3
  <1>7. ASSUME Pending(k), ~Pending(k)'
        PROVE  Head(evq).key = k /\ (Fresh(k) => Head(evq).val = table[k])
    <2>1. \A j \in 1..(n - 1) : evq'[j].key # k
      BY <1>2, <1>7 DEF Pending
    <2>2. \A j \in 1..n : j > 1 => evq[j].key # k
      <3> SUFFICES ASSUME NEW j \in 1..n, j > 1 PROVE evq[j].key # k
        OBVIOUS
      <3>1. j - 1 \in 1..(n - 1) /\ evq'[j - 1] = evq[j]
        BY <1>2, <1>4
      <3> QED BY <2>1, <3>1
    <2>3. 1 \in 1..n /\ \A j \in 1..n : j = 1 \/ j > 1
      BY <1>2
    <2>4. evq[1].key = k
      BY <1>2, <1>7, <2>2, <2>3 DEF Pending
    <2> QED BY <1>2, <2>2, <2>3, <2>4 DEF Fresh
  <1> QED BY <1>5, <1>6, <1>7

\* A congested socket has events left when it is read.
LEMMA ReadKeepsCongested ==
    ASSUME BInv, evq # <<>>, evq' = Tail(evq),
           congested' = (congested /\ Len(evq) > 1)
    PROVE  congested' => congested /\ evq' # <<>>
  <1>1. evq \in Seq([key : Keys, val : Vals \cup {None}])
    BY DEF BInv, Data
  <1>2. DOMAIN evq' = 1..(Len(evq) - 1) /\ Len(evq) \in Nat
    BY <1>1, TailOfQueue
  <1>3. Len(evq) > 1 => evq' # <<>>
    <2>1. Len(evq) > 1 => 1 \in DOMAIN evq'
      BY <1>2
    <2>2. DOMAIN <<>> = {}
      OBVIOUS
    <2> QED BY <2>1, <2>2
  <1> QED BY <1>3

\* event_input() finds the cache of each managed type.
LEMMA FindsManaged ==
    ASSUME BInv, OwnTypes, NEW t \in ManagedTypes
    PROVE  Finds(t)
  <1>1. PICK i \in DOMAIN assocs : assocs[i] = t
    BY DEF ManagedTypes
  <1>2. assocs \in Seq(Types) /\ t \in Types
    BY TypesOfKeys DEF BInv, Data
  <1>3. ASSUME NEW j \in DOMAIN assocs, MsgOf[assocs[j]] = MsgOf[t]
        PROVE  i <= j
    <2>1. assocs[j] \in Types
      BY <1>2
    <2>2. assocs[j] = t
      BY <1>2, <1>3, <2>1 DEF OwnTypes
    <2>3. i = j
      BY <1>1, <2>2 DEF BInv, Assocs
    <2>4. i \in Nat
      BY <1>2
    <2> QED BY <2>3, <2>4
  <1> QED BY <1>1, <1>3 DEF Finds

\* event_input(): the event's object is as the event tells, which is as the
\* table has it when the event was its newest.
LEMMA EventInputKeepsMInv ==
    ASSUME BInv, OwnTypes, MInv, event_input
    PROVE  MInv'
  <1>1. /\ UNCHANGED <<assocs, joined, pc, err, table, lost, drained, doubled>>
        /\ pc = "ready" /\ ~err /\ evq # <<>> /\ evq' = Tail(evq)
        /\ congested' = (congested /\ Len(evq) > 1)
    BY DEF event_input, Receive, mngrVars, appVars
  <1>2. PICK e : e = Head(evq)
    OBVIOUS
  <1>3. PICK k \in Keys, v \in Vals \cup {None} : k = e.key /\ v = e.val
    <2>1. evq \in Seq([key : Keys, val : Vals \cup {None}])
      BY DEF BInv, Data
    <2>2. e \in [key : Keys, val : Vals \cup {None}]
      BY <1>1, <1>2, <2>1, HeadTailProperties
    <2> QED BY <2>2
  <1>4. PICK d : d = cache'
    OBVIOUS
  <1>5. \A j \in Keys :
           /\ Managed(j)' = Managed(j)
           /\ Pending(j)' => Pending(j)
           /\ Fresh(j) => Fresh(j)'
           /\ Pending(j) /\ ~Pending(j)' =>
                 j = k /\ (Fresh(j) => v = table[j])
    BY <1>1, <1>2, <1>3, ReadKeepsFresh DEF Managed, ManagedTypes
  <1>6. /\ \A j \in Keys : j # k => d[j] = cache[j]
        /\ Len(cache[k]) <= 1 => Len(d[k]) <= 1
        /\ TypeOf[k] \in ManagedTypes /\ Len(cache[k]) <= 1 => View(d)[k] = v
    <2>1. cache \in Contents
      BY TypesOfKeys
    <2>2. CASE Finds(TypeOf[k])
      <3>1. d = cache_include(OpsOf[TypeOf[k]], cache, k, v,
                              IF v = None THEN "DEL" ELSE "NEW").cache
        BY <1>2, <1>3, <1>4, <2>2 DEF event_input, include_cb
      <3>2. PICK o : o = OpsOf[TypeOf[k]]
        OBVIOUS
      <3>3. d = cache_include(o, cache, k, v,
                              IF v = None THEN "DEL" ELSE "NEW").cache
        BY <3>1, <3>2
      <3>4. /\ \A j \in Keys : j # k => d[j] = cache[j]
            /\ Len(cache[k]) <= 1 =>
                  /\ Len(d[k]) <= 1
                  /\ v = None => d[k] = <<>>
                  /\ v # None => Len(d[k]) = 1 /\ d[k][1].val = v
            /\ d \in Contents
        <4>1. AsTold(cache, d, k, v)
          BY <2>1, <3>3, IncludeEvent
        <4> QED BY <4>1 DEF AsTold
      <3>5. ASSUME Len(cache[k]) <= 1 PROVE View(d)[k] = v
        <4>1. CASE v = None
          BY <3>4, <3>5, <4>1, ViewOf
        <4>2. CASE v # None
          <5>1. d[k] # <<>> /\ d[k][1].val = v /\ Head(d[k]) = d[k][1]
            BY <3>4, <3>5, <4>2 DEF Contents
          <5> QED BY <5>1, ViewOf
        <4> QED BY <4>1, <4>2
      <3> QED BY <3>4, <3>5
    <2>3. CASE ~Finds(TypeOf[k])
      <3>1. d = cache
        BY <1>2, <1>3, <1>4, <2>3 DEF event_input
      <3>2. TypeOf[k] \notin ManagedTypes
        BY <2>3, FindsManaged
      <3> QED BY <3>1, <3>2
    <2> QED BY <2>2, <2>3
  <1>7. Single'
    <2> SUFFICES ASSUME NEW j \in Keys, TypeOf[j] \notin doubled
                 PROVE  Len(d[j]) <= 1
      BY <1>1, <1>4 DEF Single
    <2>1. Len(cache[j]) <= 1
      BY DEF MInv, Single
    <2> QED BY <1>6, <2>1
  <1>8. Overrun'
    <2>1. congested' => congested /\ evq' # <<>>
      BY <1>1, ReadKeepsCongested
    <2>2. ManagedTypes' = ManagedTypes
      BY <1>1 DEF ManagedTypes
    <2> QED BY <1>1, <2>1, <2>2 DEF MInv, Overrun
  <1>9. AllFresh'
    BY <1>1, <1>5 DEF MInv, AllFresh
  <1>10. Filling' /\ Untouched'
    BY <1>1 DEF Filling, Untouched
  <1>11. Mirrors'
    <2> SUFFICES ASSUME NEW j \in Current' PROVE View(d)[j] = table[j]
      BY <1>1, <1>4 DEF Mirrors
    <2>1. /\ j \in Keys /\ Managed(j) /\ TypeOf[j] \notin lost /\ ~Pending(j)'
          /\ TypeOf[j] \in ManagedTypes /\ TypeOf[j] \notin doubled
      BY <1>1, <1>5 DEF Current, Told, Managed
    <2>2. Fresh(j)
      BY <1>1, <2>1 DEF MInv, AllFresh
    <2>3. CASE Pending(j)
      <3>1. j = k /\ v = table[j]
        BY <1>5, <2>1, <2>2, <2>3
      <3>2. Len(cache[k]) <= 1
        BY <2>1, <3>1 DEF MInv, Single
      <3> QED BY <1>6, <2>1, <3>1, <3>2
    <2>4. CASE ~Pending(j)
      <3>1. j \in Current /\ View(cache)[j] = table[j]
        BY <1>1, <2>1, <2>4 DEF Current, Told, MInv, Mirrors
      <3>2. j # k
        <4>1. evq \in Seq([key : Keys, val : Vals \cup {None}])
          BY DEF BInv, Data
        <4>2. 1 \in DOMAIN evq /\ e = evq[1]
          BY <1>1, <1>2, <4>1, TailOfQueue
        <4> QED BY <1>3, <2>4, <4>2 DEF Pending
      <3>3. View(d)[j] = View(cache)[j]
        BY <1>6, <2>1, <3>2, ViewOf
      <3> QED BY <3>1, <3>3
    <2> QED BY <2>3, <2>4
  <1> QED BY <1>7, <1>8, <1>9, <1>10, <1>11 DEF MInv

\* An event is queued: it is the newest of its object.
LEMMA AppendKeepsFresh ==
    ASSUME BInv, NEW k \in Keys, NEW v \in Vals \cup {None},
           GroupOf[k] \in joined, joined' = joined,
           table' = [table EXCEPT ![k] = v],
           evq' = Append(evq, [key |-> k, val |-> v])
    PROVE  /\ Fresh(k)' /\ Pending(k)'
           /\ \A j \in Keys : j # k => /\ Pending(j)' = Pending(j)
                                       /\ Fresh(j) => Fresh(j)'
  <1> DEFINE E == [key : Keys, val : Vals \cup {None}]
             n == Len(evq)
  <1>0. PICK e : e = [key |-> k, val |-> v]
    OBVIOUS
  <1>1. e \in E /\ e.key = k /\ e.val = v /\ evq \in Seq(E)
    BY <1>0 DEF BInv, Data
  <1>2. evq' = Append(evq, e)
    BY <1>0
  <1>3. /\ table' \in [Keys -> Vals \cup {None}] /\ table'[k] = v
        /\ \A j \in Keys : j # k => table'[j] = table[j]
    BY DEF BInv, Data
  <1> HIDE DEF E
  <1>4. /\ n \in Nat /\ DOMAIN evq = 1..n /\ DOMAIN evq' = 1..(n + 1)
        /\ evq'[n + 1] = e /\ n + 1 \in 1..(n + 1)
        /\ \A i \in 1..n : evq'[i] = evq[i] /\ i \in 1..(n + 1)
    BY <1>1, <1>2
  <1> HIDE DEF n
  <1>5. /\ \A i \in 1..(n + 1) : i = n + 1 \/ i \in 1..n
        /\ \A i \in 1..n : n + 1 > i
    BY <1>4
  <1>6. Pending(k)'
    BY <1>1, <1>4 DEF Pending
  <1>7. Fresh(k)'
    <2> SUFFICES ASSUME NEW i \in 1..(n + 1), evq'[i].key = k,
                        \A j \in 1..(n + 1) : j > i => evq'[j].key # k
                 PROVE  evq'[i].val = v
      BY <1>3, <1>4 DEF Fresh
    <2>1. i = n + 1
      BY <1>1, <1>4, <1>5
    <2> QED BY <1>1, <1>4, <2>1
  <1>8. ASSUME NEW j \in Keys, j # k
        PROVE  Pending(j)' = Pending(j) /\ (Fresh(j) => Fresh(j)')
    <2>1. Pending(j)' <=> Pending(j)
      BY <1>1, <1>4, <1>5, <1>8 DEF Pending
    <2>2. ASSUME Fresh(j) PROVE Fresh(j)'
      <3> SUFFICES ASSUME NEW i \in 1..(n + 1), evq'[i].key = j,
                          \A m \in 1..(n + 1) : m > i => evq'[m].key # j
                   PROVE  evq'[i].val = table[j]
        BY <1>3, <1>4, <1>8, <2>1, <2>2 DEF Fresh
      <3>1. i \in 1..n /\ evq[i].key = j
        BY <1>1, <1>4, <1>5, <1>8
      <3>2. \A m \in 1..n : m > i => evq[m].key # j
        BY <1>4
      <3>3. evq[i].val = table[j]
        BY <1>4, <2>2, <3>1, <3>2 DEF Fresh
      <3> QED BY <1>4, <3>1, <3>3
    <2>3. Pending(j) \in BOOLEAN /\ Pending(j)' \in BOOLEAN
      BY DEF Pending
    <2> QED BY <2>1, <2>2, <2>3
  <1> QED BY <1>6, <1>7, <1>8

\* The kernel changes an object: nobody is told of it, its event is queued,
\* or its event is dropped.
LEMMA ChangeCases ==
    ASSUME NEW k \in Keys, NEW v \in Vals \cup {None}, Change(k, v)
    PROVE  \/ /\ GroupOf[k] \notin joined
              /\ UNCHANGED <<evq, err, congested>>
           \/ /\ GroupOf[k] \in joined /\ ~congested
              /\ evq' = Append(evq, [key |-> k, val |-> v])
              /\ UNCHANGED <<err, congested>>
           \/ /\ congested \/ Len(evq) >= RcvBuf
              /\ congested' /\ evq' = evq
              /\ err' = (err \/ ~congested)
  BY DEF Change, Deliver, kernelVars

\* What a change leaves alone.
LEMMA ChangeFrame ==
    ASSUME BInv, NEW k \in Keys, NEW v \in Vals \cup {None}, Change(k, v)
    PROVE  /\ UNCHANGED <<assocs, joined, cache, pc, cur, lost, drained, doubled>>
           /\ table' = [table EXCEPT ![k] = v]
           /\ \A j \in Keys : j # k => table'[j] = table[j]
           /\ todo \ {k} \subseteq todo' /\ todo' \subseteq todo
           /\ \A j : Managed(j)' = Managed(j)
           /\ ManagedTypes' = ManagedTypes
  BY DEF Change, mngrVars, appVars, BInv, Data, Managed, ManagedTypes

LEMMA ChangeKeepsMInv ==
    ASSUME BInv, OwnTypes, MInv, NEW k \in Keys, NEW v \in Vals \cup {None},
           Change(k, v)
    PROVE  MInv'
  <1>1. /\ UNCHANGED <<assocs, joined, cache, pc, cur, lost, drained, doubled>>
        /\ table' = [table EXCEPT ![k] = v]
        /\ \A j \in Keys : j # k => table'[j] = table[j]
        /\ todo \ {k} \subseteq todo' /\ todo' \subseteq todo
        /\ \A j : Managed(j)' = Managed(j)
        /\ ManagedTypes' = ManagedTypes
    BY ChangeFrame
  <1>2. Single' /\ Untouched'
    BY <1>1 DEF MInv, Single, Untouched
  <1>3. CASE GroupOf[k] \notin joined /\ UNCHANGED <<evq, err, congested>>
    <2>1. \A j \in Keys : Pending(j)' = Pending(j)
      BY <1>3 DEF Pending
    <2>2. ~Managed(k) /\ ~(pc = "dump" /\ TypeOf[k] = cur)
      BY <1>3, GroupJoined
    <2>3. \A j \in Keys : Fresh(j) => Fresh(j)'
      BY <1>1, <1>3, <2>1 DEF Fresh, Pending
    <2>4. Overrun' /\ AllFresh'
      BY <1>1, <1>3, <2>3 DEF MInv, Overrun, AllFresh
    <2>5. Filling'
      BY <1>1, <1>3, <2>1, <2>2 DEF MInv, Filling, KeysOf
    <2>6. Mirrors'
      BY <1>1, <1>3, <2>1, <2>2 DEF MInv, Mirrors, Current, Told
    <2> QED BY <1>2, <2>4, <2>5, <2>6 DEF MInv
  <1>4. CASE /\ GroupOf[k] \in joined /\ ~congested
             /\ evq' = Append(evq, [key |-> k, val |-> v])
             /\ UNCHANGED <<err, congested>>
    <2>1. /\ Fresh(k)' /\ Pending(k)'
          /\ \A j \in Keys : j # k => /\ Pending(j)' = Pending(j)
                                      /\ Fresh(j) => Fresh(j)'
      BY <1>1, <1>4, AppendKeepsFresh
    <2>2. Overrun'
      BY <1>4 DEF Overrun
    <2>3. AllFresh'
      BY <1>1, <1>4, <2>1 DEF MInv, AllFresh
    <2>4. Filling'
      <3> SUFFICES ASSUME pc = "dump", ~err, drained, cur \notin doubled,
                          NEW j \in Keys, TypeOf[j] = cur, j # k, ~Pending(j)
                   PROVE  \/ View(cache)[j] = table[j]
                          \/ j \in todo' /\ cache[j] = <<>>
        BY <1>1, <1>4, <2>1 DEF Filling, KeysOf
      <3> QED BY <1>1 DEF MInv, Filling, KeysOf
    <2>5. Mirrors'
      <3> SUFFICES ASSUME NEW j \in Current' PROVE View(cache)[j] = table'[j]
        BY <1>1 DEF Mirrors
      <3>1. j \in Current /\ j # k /\ j \in Keys
        BY <1>1, <1>4, <2>1 DEF Current, Told
      <3> QED BY <1>1, <3>1 DEF MInv, Mirrors
    <2> QED BY <1>2, <2>2, <2>3, <2>4, <2>5 DEF MInv
  <1>5. CASE /\ congested \/ Len(evq) >= RcvBuf
             /\ congested' /\ evq' = evq
             /\ err' = (err \/ ~congested)
    <2>1. evq # <<>>
      <3>1. RcvBuf > 0
        BY MngrAssumption
      <3>2. Len(<<>>) = 0
        OBVIOUS
      <3> QED BY <1>5, <3>1, <3>2, MngrAssumption DEF MInv, Overrun
    <2>2. ~err' => ~drained /\ lost = ManagedTypes /\ pc # "free"
      BY <1>5 DEF MInv, Overrun
    <2>3. Overrun'
      BY <1>1, <1>5, <2>1, <2>2 DEF Overrun
    <2>4. AllFresh' /\ Mirrors'
      BY <1>1, <2>2 DEF AllFresh, Mirrors, Current, Told, Managed
    <2>5. Filling'
      BY <1>1, <2>2 DEF Filling
    <2> QED BY <1>2, <2>3, <2>4, <2>5 DEF MInv
  <1> QED BY <1>3, <1>4, <1>5, ChangeCases

-----------------------------------------------------------------------------
LEMMA InitMInv == Init => MInv
  <1> SUFFICES ASSUME Init PROVE MInv
    OBVIOUS
  <1>1. /\ evq = <<>> /\ DOMAIN evq = {} /\ ManagedTypes = {} /\ pc = "idle"
        /\ ~congested
        /\ \A k \in Keys : cache[k] = <<>>
    BY DEF Init, ManagedTypes, EmptyCache
  <1>2. Single
    <2>1. Len(<<>>) <= 1
      OBVIOUS
    <2> QED BY <1>1, <2>1 DEF Single
  <1>3. \A k : ~Pending(k) /\ ~Managed(k)
    BY <1>1 DEF Pending, Managed
  <1>4. Overrun /\ Filling /\ Untouched
    BY <1>1 DEF Overrun, Filling, Untouched
  <1>5. AllFresh
    BY <1>1, <1>3 DEF AllFresh, Fresh
  <1>6. Mirrors
    BY <1>3 DEF Mirrors, Current, Told
  <1> QED BY <1>2, <1>4, <1>5, <1>6 DEF MInv

LEMMA StepMInv ==
    ASSUME BInv, OwnTypes, MInv, [Next]_vars
    PROVE  MInv'
  <1>1. CASE UNCHANGED vars
    <2>1. UNCHANGED <<assocs, cache, evq, err, congested, table, lost, drained,
                      joined, pc, cur, todo, doubled>>
      BY <1>1 DEF vars, mngrVars, callVars, kernelVars, appVars
    <2> QED BY <2>1 DEF MInv, Single, Untouched, Overrun, AllFresh, Fresh, Filling,
                        Mirrors, Current, Told, Managed, Pending, ManagedTypes, KeysOf
  <1>2. CASE \E f \in BOOLEAN, o \in {"ok", "noarray", "noconnect", "nosync"} :
                nl_cache_mngr_alloc(f, o)
    <2>1. UNCHANGED <<assocs, cache, evq, err, congested, table, lost, drained,
                      joined, pc, cur, todo, doubled>>
      BY <1>2 DEF nl_cache_mngr_alloc, callVars, kernelVars, appVars
    <2> QED BY <2>1 DEF MInv, Single, Untouched, Overrun, AllFresh, Fresh, Filling,
                        Mirrors, Current, Told, Managed, Pending, ManagedTypes, KeysOf
  <1>3. CASE FreeDone
    <2>1. ManagedTypes = {}
      BY <1>3 DEF FreeDone, ManagedTypes
    <2> QED BY <1>3, <2>1, QuietKeepsMInv DEF FreeDone, kernelVars, appVars
  <1>4. CASE \E t \in Types : nl_cache_mngt_register(t)
                              \/ nl_cache_mngt_unregister(t)
    BY <1>4, QuietKeepsMInv DEF nl_cache_mngt_register, callVars, kernelVars,
                                nl_cache_mngt_unregister, appVars
  <1>5. CASE \E t \in Types : AddStart(t)
    BY <1>5, QuietKeepsMInv DEF AddStart, kernelVars, appVars
  <1>6. CASE \E t \in Types : Recover(t)
    BY <1>6, StartFillKeepsMInv DEF Recover, mngrVars, kernelVars, appVars
  <1>7. CASE AddJoin \/ AddJoinFails \/ DataReady
    BY <1>7, QuietKeepsMInv DEF AddJoin, AddJoinFails, DataReady, mngrVars,
                                kernelVars, appVars
  <1>8. CASE AddFill
    <2>1. /\ cur \in Types /\ cur \notin ManagedTypes /\ pc = "join"
          /\ StartFill(cur) /\ cur' = cur
          /\ UNCHANGED <<assocs, joined, evq, err, congested, table, lost,
                         drained>>
      BY <1>8, TypesOfKeys DEF AddFill, BInv, Calls, mngrVars, kernelVars, appVars
    <2> QED BY <2>1, StartFillKeepsMInv
  <1>9. CASE ReadNobufs
    BY <1>9, ErrorKeepsMInv DEF ReadNobufs, DataReadyError, mngrVars, MInv,
                                Overrun
  <1>10. CASE event_input_fails
    <2>1. congested' => evq' # <<>>
      BY <1>10, ReadKeepsCongested DEF event_input_fails, Receive
    <2> QED BY <1>10, <2>1, ErrorKeepsMInv DEF event_input_fails, Receive,
                                               DataReadyError, mngrVars
  <1> QED BY <1>1, <1>2, <1>3, <1>4, <1>5, <1>6, <1>7, <1>8, <1>9, <1>10,
             FreeKeepsMInv, FreeCacheKeepsMInv, FillObjectKeepsMInv,
             FillRestartKeepsMInv, FillDoneKeepsMInv, FillFailsKeepsMInv,
             ReadAgainKeepsMInv, EventInputKeepsMInv, ChangeKeepsMInv
          DEF Next, Add, Fill, Poll

LEMMA MInvariance == OwnTypes => (Spec => []MInv)
  <1> SUFFICES ASSUME OwnTypes PROVE Spec => []MInv
    OBVIOUS
  <1>1. BInv /\ MInv /\ [Next]_vars => MInv'
    BY StepMInv
  <1> QED BY <1>1, InitMInv, BInvariance, PTL DEF Spec

\* For types with objects, groups and messages of their own, with a hash table
\* or without: whatever the order of dumps, events, restarts, overruns and
\* failures, an object that no queued event is about is in the managed cache as
\* it is in the kernel, if that cache was last filled with the event socket
\* read empty and, without a hash table, by a dump that was not restarted.
THEOREM CachesMirror == OwnTypes => (Spec => []Mirrors)
  <1> SUFFICES ASSUME OwnTypes PROVE Spec => []Mirrors
    OBVIOUS
  <1>1. MInv => Mirrors
    BY DEF MInv
  <1> QED BY <1>1, MInvariance, PTL

\* And the newest event queued for any other tells the present state of it.
THEOREM EventsLeadToTable == OwnTypes => (Spec => []QueueLeadsToTable)
  <1> SUFFICES ASSUME OwnTypes PROVE Spec => []QueueLeadsToTable
    OBVIOUS
  <1>1. BInv /\ MInv => QueueLeadsToTable
    <2> SUFFICES ASSUME BInv, MInv, NEW i \in DOMAIN evq, Told(evq[i].key),
                        \A j \in DOMAIN evq : j > i => evq[j].key # evq[i].key
                 PROVE  evq[i].val = table[evq[i].key]
      BY DEF QueueLeadsToTable
    <2>1. evq[i].key \in Keys
      BY QueuedEvent
    <2>2. Fresh(evq[i].key)
      BY <2>1 DEF MInv, AllFresh, Told
    <2> QED BY <2>2 DEF Fresh
  <1> QED BY <1>1, MInvariance, BInvariance, PTL

-----------------------------------------------------------------------------
(* What is told and cached is what the table held.                         *)

\* Steps without a change of the table, an event or an object.
LEMMA SameKeepsSInv ==
    ASSUME SInv, UNCHANGED <<table, seen, evq>>,
           \A k \in Keys : cache'[k] = cache[k] \/ cache'[k] = <<>>
    PROVE  SInv'
  <1> SUFFICES ASSUME NEW k \in Keys
               PROVE  \A i \in DOMAIN cache'[k] : cache'[k][i].val \in seen[k]
    BY DEF SInv
  <1>1. DOMAIN <<>> = {}
    OBVIOUS
  <1> QED BY <1>1 DEF SInv

LEMMA FreeKeepsSInv ==
    ASSUME SInv, nl_cache_mngr_free
    PROVE  SInv'
  <1>1. /\ UNCHANGED <<table, seen, cache>> /\ DOMAIN evq' = {}
    BY DEF nl_cache_mngr_free
  <1> QED BY <1>1 DEF SInv

LEMMA FillObjectKeepsSInv ==
    ASSUME BInv, SInv, NEW k \in Keys, FillObject(k)
    PROVE  SInv'
  <1>1. /\ UNCHANGED <<table, seen, evq>> /\ table[k] \in Vals
        /\ cache \in Contents
    BY DEF FillObject, kernelVars, BInv, Data, Calls
  <1>2. PICK d : d = __cache_add(OpsOf[cur], cache, k, table[k])
    OBVIOUS
  <1>3. cache' = d
    BY <1>2 DEF FillObject
  <1>4. \A j \in Keys : j # k => d[j] = cache[j]
    BY <1>1, <1>2, AddObject
  <1>5. \A i \in DOMAIN d[k] : d[k][i].val \in seen[k]
    <2>1. CASE d = cache
      BY <2>1 DEF SInv
    <2>2. CASE d = [cache EXCEPT ![k] = Append(cache[k], Object(table[k]))]
      <3> DEFINE S == [val : Vals, mark : BOOLEAN]
      <3>1. PICK q : q = cache[k]
        OBVIOUS
      <3>2. PICK o : o = Object(table[k])
        OBVIOUS
      <3>3. q \in Seq(S) /\ o \in S /\ o.val = table[k]
        BY <1>1, <3>1, <3>2, ObjectType DEF Contents
      <3>4. d[k] = Append(q, o)
        BY <1>1, <2>2, <3>1, <3>2 DEF Contents
      <3> HIDE DEF S
      <3>5. \A i \in DOMAIN d[k] : d[k][i] = o \/ \E n \in DOMAIN q : d[k][i] = q[n]
        <4>1. /\ DOMAIN d[k] = 1..(Len(q) + 1) /\ d[k][Len(q) + 1] = o
              /\ DOMAIN q = 1..Len(q) /\ Len(q) \in Nat
              /\ \A i \in 1..Len(q) : d[k][i] = q[i]
          BY <3>3, <3>4
        <4>2. \A i \in 1..(Len(q) + 1) : i = Len(q) + 1 \/ i \in 1..Len(q)
          BY <4>1
        <4> QED BY <4>1, <4>2
      <3>6. table[k] \in seen[k] /\ \A n \in DOMAIN q : q[n].val \in seen[k]
        BY <3>1 DEF SInv
      <3> QED BY <3>3, <3>5, <3>6
    <2> QED BY <1>2, <2>1, <2>2, AddedObject
  <1> QED BY <1>1, <1>3, <1>4, <1>5 DEF SInv

LEMMA ReadKeepsSInv ==
    ASSUME BInv, SInv, event_input \/ event_input_fails
    PROVE  SInv'
  <1>1. /\ UNCHANGED <<table, seen>> /\ evq # <<>> /\ evq' = Tail(evq)
        /\ evq \in Seq([key : Keys, val : Vals \cup {None}])
    BY DEF event_input, event_input_fails, Receive, BInv, Data
  <1>2. PICK e : e = Head(evq)
    OBVIOUS
  <1>3. /\ \A i \in DOMAIN evq' : \E n \in DOMAIN evq : evq'[i] = evq[n]
        /\ \E n \in DOMAIN evq : e = evq[n]
    <2>1. /\ Len(evq) \in Nat /\ Len(evq) >= 1 /\ Head(evq) = evq[1]
          /\ DOMAIN evq = 1..Len(evq)
          /\ DOMAIN evq' = 1..(Len(evq) - 1)
          /\ \A i \in 1..(Len(evq) - 1) : evq'[i] = evq[i + 1]
      BY <1>1, TailOfQueue
    <2>2. \A i \in 1..(Len(evq) - 1) : i + 1 \in 1..Len(evq)
      BY <2>1
    <2>3. 1 \in 1..Len(evq)
      BY <2>1
    <2> QED BY <1>2, <2>1, <2>2, <2>3
  <1>4. \A n \in DOMAIN evq : evq[n].key \in Keys /\ evq[n].val \in Vals \cup {None}
    BY QueuedEvent
  <1>5. PICK k \in Keys, v \in Vals \cup {None} :
           k = e.key /\ v = e.val /\ v \in seen[k]
    BY <1>3, <1>4 DEF SInv
  <1>6. \A j \in Keys : \A i \in DOMAIN cache'[j] : cache'[j][i].val \in seen[j]
    <2>1. CASE cache' = cache
      BY <2>1 DEF SInv
    <2>2. CASE include_cb(e)
      <3>1. PICK d : d = cache'
        OBVIOUS
      <3>2. d = cache_include(OpsOf[TypeOf[k]], cache, k, v,
                              IF v = None THEN "DEL" ELSE "NEW").cache
        BY <1>5, <2>2, <3>1 DEF include_cb
      <3>3. PICK o : o = OpsOf[TypeOf[k]]
        OBVIOUS
      <3>4. d = cache_include(o, cache, k, v,
                              IF v = None THEN "DEL" ELSE "NEW").cache
        BY <3>2, <3>3
      <3>5. AsTold(cache, d, k, v)
        BY <3>4, TypesOfKeys, IncludeEvent
      <3>6. \A i \in DOMAIN d[k] : d[k][i].val \in seen[k]
        BY <1>5, <3>5 DEF AsTold, SInv
      <3>7. \A j \in Keys : j # k => d[j] = cache[j]
        BY <3>5 DEF AsTold
      <3>8. \A j \in Keys : \A i \in DOMAIN d[j] : d[j][i].val \in seen[j]
        BY <3>6, <3>7 DEF SInv
      <3> QED BY <3>1, <3>8
    <2> QED BY <1>2, <2>1, <2>2 DEF event_input, event_input_fails
  <1> QED BY <1>1, <1>3, <1>6 DEF SInv

LEMMA ChangeKeepsSInv ==
    ASSUME BInv, SInv, NEW k \in Keys, NEW v \in Vals \cup {None}, Change(k, v)
    PROVE  SInv'
  <1>1. /\ cache' = cache /\ table' = [table EXCEPT ![k] = v]
        /\ seen' = [seen EXCEPT ![k] = @ \cup {v}]
        /\ table \in [Keys -> Vals \cup {None}]
        /\ seen \in [Keys -> SUBSET (Vals \cup {None})]
        /\ evq \in Seq([key : Keys, val : Vals \cup {None}])
    BY DEF Change, BInv, Data
  <1>2. \A j \in Keys : seen[j] \subseteq seen'[j] /\ table'[j] \in seen'[j]
    BY <1>1 DEF SInv
  <1>3. PICK e : e = [key |-> k, val |-> v]
    OBVIOUS
  <1>4. \A i \in DOMAIN evq' : evq'[i] = e \/ \E n \in DOMAIN evq : evq'[i] = evq[n]
    <2>1. CASE evq' = evq
      BY <2>1
    <2>2. CASE evq' = Append(evq, e)
      <3>1. e \in [key : Keys, val : Vals \cup {None}]
        BY <1>3
      <3>2. /\ DOMAIN evq' = 1..(Len(evq) + 1) /\ evq'[Len(evq) + 1] = e
            /\ DOMAIN evq = 1..Len(evq) /\ Len(evq) \in Nat
            /\ \A i \in 1..Len(evq) : evq'[i] = evq[i]
        BY <1>1, <2>2, <3>1
      <3>3. \A i \in 1..(Len(evq) + 1) : i = Len(evq) + 1 \/ i \in 1..Len(evq)
        BY <3>2
      <3> QED BY <3>2, <3>3
    <2> QED BY <1>3, <2>1, <2>2, ChangeCases
  <1>5. e.key = k /\ e.val = v /\ v \in seen'[k]
    BY <1>1, <1>3
  <1>6. ASSUME NEW j \in Keys, NEW i \in DOMAIN evq', evq'[i].key = j
        PROVE  evq'[i].val \in seen'[j]
    BY <1>2, <1>4, <1>5, <1>6 DEF SInv
  <1>7. \A j \in Keys : \A i \in DOMAIN cache'[j] : cache'[j][i].val \in seen'[j]
    BY <1>1, <1>2 DEF SInv
  <1> QED BY <1>2, <1>6, <1>7 DEF SInv

LEMMA StepSInv ==
    ASSUME BInv, SInv, [Next]_vars
    PROVE  SInv'
  <1>1. CASE UNCHANGED vars
    BY <1>1, SameKeepsSInv DEF vars, kernelVars
  <1>2. CASE \E f \in BOOLEAN, o \in {"ok", "noarray", "noconnect", "nosync"} :
                nl_cache_mngr_alloc(f, o)
    BY <1>2, SameKeepsSInv DEF nl_cache_mngr_alloc, kernelVars
  <1>3. CASE FreeCache \/ FreeDone
    BY <1>3, SameKeepsSInv DEF FreeCache, FreeDone, kernelVars
  <1>4. CASE \E t \in Types : nl_cache_mngt_register(t)
                              \/ nl_cache_mngt_unregister(t)
    BY <1>4, SameKeepsSInv DEF nl_cache_mngt_register, kernelVars,
                               nl_cache_mngt_unregister
  <1>5. CASE \E t \in Types : AddStart(t) \/ Recover(t)
    BY <1>5, SameKeepsSInv DEF AddStart, Recover, StartFill, kernelVars
  <1>6. CASE Add
    BY <1>6, SameKeepsSInv DEF Add, AddJoin, AddJoinFails, AddFill, StartFill,
                               kernelVars
  <1>7. CASE FillRestart \/ FillDone \/ FillFails
    BY <1>7, SameKeepsSInv DEF FillRestart, FillDone, FillFails, kernelVars
  <1>8. CASE DataReady \/ ReadNobufs \/ ReadAgain
    BY <1>8, SameKeepsSInv DEF DataReady, ReadNobufs, ReadAgain, kernelVars
  <1> QED BY <1>1, <1>2, <1>3, <1>4, <1>5, <1>6, <1>7, <1>8, FreeKeepsSInv,
             FillObjectKeepsSInv, ReadKeepsSInv, ChangeKeepsSInv
          DEF Next, Fill, Poll

LEMMA SInvariance == Spec => []SInv
  <1>1. Init => SInv
    <2> SUFFICES ASSUME Init PROVE SInv
      OBVIOUS
    <2>1. /\ DOMAIN evq = {} /\ \A k \in Keys : DOMAIN cache[k] = {}
      BY DEF Init, EmptyCache
    <2>2. \A k \in Keys : table[k] \in seen[k]
      BY DEF Init
    <2> QED BY <2>1, <2>2 DEF SInv
  <1>2. BInv /\ SInv /\ [Next]_vars => SInv'
    BY StepSInv
  <1> QED BY <1>1, <1>2, BInvariance, PTL DEF Spec

-----------------------------------------------------------------------------
(* The manager implements NlMirror.                                        *)

\* What a managed cache shows, the table held once, and what it shows of an
\* object that is up to date, the table holds.
Shows ==
    /\ \A k \in Keys : MngrView[k] \in seen[k] \cup {None}
    /\ \A k \in Current : k \in Keys /\ MngrView[k] = table[k]

LEMMA InvShows == BInv /\ MInv /\ SInv => Shows
  <1> SUFFICES ASSUME BInv, MInv, SInv PROVE Shows
    OBVIOUS
  <1>1. ASSUME NEW k \in Keys
        PROVE  MngrView[k] \in seen[k] \cup {None}
    <2>1. PICK q : q = cache[k]
      OBVIOUS
    <2>2. q \in Seq([val : Vals, mark : BOOLEAN])
      BY <2>1, TypesOfKeys DEF Contents
    <2>3. q # <<>> => 1 \in DOMAIN q /\ Head(q) = q[1]
      BY <2>2
    <2>4. q = <<>> \/ Head(q).val \in seen[k]
      BY <2>1, <2>3 DEF SInv
    <2>5. View(cache)[k] \in seen[k] \cup {None}
      BY <2>1, <2>4, ViewOf
    <2> QED BY <2>5 DEF MngrView
  <1>2. ASSUME NEW k \in Current
        PROVE  k \in Keys /\ MngrView[k] = table[k]
    BY DEF MInv, Mirrors, Current, Told, MngrView
  <1> QED BY <1>1, <1>2 DEF Shows

\* A step that changes no table and makes no object lag.
LEMMA RefreshStep ==
    ASSUME Shows, Shows', UNCHANGED <<table, seen>>, Current \subseteq Current'
    PROVE  Mirror!Refresh
  BY DEF Shows, Mirror!Refresh

\* Nothing is known to be up to date after an error.
LEMMA LoseStep ==
    ASSUME lost' = ManagedTypes, pc # "free", pc' # "free",
           UNCHANGED <<table, seen, cache, assocs>>
    PROVE  Mirror!Lose
  <1>1. ManagedTypes' = ManagedTypes /\ \A k : Managed(k)' = Managed(k)
    BY DEF ManagedTypes, Managed
  <1>2. Current' = {}
    BY <1>1 DEF Current, Told, Managed
  <1>3. MngrView' = MngrView
    BY <1>1 DEF MngrView
  <1> QED BY <1>2, <1>3 DEF Mirror!Lose

LEMMA CloseStep ==
    ASSUME nl_cache_mngr_free
    PROVE  Mirror!Close
  <1>1. UNCHANGED <<table, seen>> /\ \A k : ~Managed(k)'
    BY DEF nl_cache_mngr_free, Managed
  <1>2. Current' = {} /\ MngrView' = [k \in Keys |-> None]
    BY <1>1 DEF Current, Told, MngrView
  <1> QED BY <1>1, <1>2 DEF Mirror!Close, Mirror!Empty

\* A change makes its object lag, or all of them if its event is lost; one
\* that nobody is told of is of no managed object.
LEMMA ChangeStep ==
    ASSUME BInv, OwnTypes, MInv, NEW k \in Keys, NEW v \in Vals \cup {None},
           Change(k, v)
    PROVE  Mirror!Change(k, v)
  <1>1. /\ UNCHANGED <<assocs, joined, cache, pc, cur, lost, drained, doubled>>
        /\ table' = [table EXCEPT ![k] = v]
        /\ \A j : Managed(j)' = Managed(j)
        /\ ManagedTypes' = ManagedTypes
    BY ChangeFrame
  <1>2. seen' = [seen EXCEPT ![k] = @ \cup {v}]
    BY DEF Change
  <1>3. MngrView' = MngrView
    BY <1>1 DEF MngrView
  <1>4. Current' = Current \ {k} \/ Current' = {}
    <2>1. CASE GroupOf[k] \notin joined /\ UNCHANGED <<evq, err, congested>>
      <3>1. \A j \in Keys : Pending(j)' = Pending(j)
        BY <2>1 DEF Pending
      <3>2. ~Managed(k)
        BY <2>1, GroupJoined
      <3> QED BY <1>1, <2>1, <3>1, <3>2 DEF Current, Told
    <2>2. CASE /\ GroupOf[k] \in joined /\ ~congested
               /\ evq' = Append(evq, [key |-> k, val |-> v])
               /\ UNCHANGED <<err, congested>>
      <3>1. Pending(k)' /\ \A j \in Keys : j # k => Pending(j)' = Pending(j)
        BY <1>1, <2>2, AppendKeepsFresh
      <3> QED BY <1>1, <2>2, <3>1 DEF Current, Told
    <2>3. CASE /\ congested \/ Len(evq) >= RcvBuf
               /\ congested' /\ evq' = evq
               /\ err' = (err \/ ~congested)
      <3>1. ~err' => lost = ManagedTypes
        BY <2>3 DEF MInv, Overrun
      <3> QED BY <1>1, <3>1 DEF Current, Told, Managed
    <2> QED BY <2>1, <2>2, <2>3, ChangeCases
  <1> QED BY <1>1, <1>2, <1>3, <1>4 DEF Mirror!Change

\* Reading an event makes no object lag, nor does the end of a fill.
LEMMA EventInputStep ==
    ASSUME BInv, event_input
    PROVE  Current \subseteq Current'
  <1>1. /\ UNCHANGED <<assocs, joined, pc, err, table, lost, doubled>>
        /\ evq # <<>> /\ evq' = Tail(evq)
    BY DEF event_input, Receive, mngrVars, appVars
  <1>2. \A k \in Keys : Pending(k)' => Pending(k)
    BY <1>1, ReadKeepsFresh
  <1> QED BY <1>1, <1>2 DEF Current, Told, Managed, ManagedTypes

LEMMA FillDoneStep ==
    ASSUME BInv, FillDone
    PROVE  Current \subseteq Current'
  <1>1. /\ UNCHANGED <<evq, err, doubled>> /\ pc = "dump" /\ pc' = "idle"
        /\ lost' \subseteq lost \cup {cur}
    BY DEF FillDone, kernelVars
  <1>2. ManagedTypes \subseteq ManagedTypes'
    BY FillDoneTypes
  <1>3. \A k \in Current : k \in Keys /\ TypeOf[k] # cur
    BY <1>1, FillingNotTold DEF Current
  <1> QED BY <1>1, <1>2, <1>3 DEF Current, Told, Managed, Pending

\* What a fill does to its own cache makes no object lag either.
LEMMA FillStep ==
    ASSUME BInv, pc # "free", pc' # "free", NEW t,
           \A k \in Keys : TypeOf[k] = t => ~Told(k),
           doubled' \subseteq doubled \cup {t},
           UNCHANGED <<assocs, evq, err, lost>>
    PROVE  Current \subseteq Current'
  BY DEF Current, Told, Managed, Pending, ManagedTypes

\* Every step of the manager is one of NlMirror, or leaves it alone.
LEMMA MirrorStep ==
    ASSUME BInv, OwnTypes, MInv, Shows, Shows', [Next]_vars
    PROVE  [Mirror!Next]_(Mirror!vars)
  <1> DEFINE Same == UNCHANGED <<table, seen>> /\ Current \subseteq Current'
  <1> SUFFICES \/ Mirror!Refresh \/ Mirror!Lose \/ Mirror!Close
               \/ \E k \in Keys, v \in Vals \cup {None} : Mirror!Change(k, v)
    BY DEF Mirror!Next
  <1>0. ASSUME Same PROVE Mirror!Refresh
    BY <1>0, RefreshStep
  <1>1. CASE UNCHANGED vars
    <2>1. Same
      BY <1>1 DEF vars, mngrVars, callVars, kernelVars, appVars, Current, Told,
                  Managed, Pending, ManagedTypes
    <2> QED BY <1>0, <2>1
  <1>2. CASE \E f \in BOOLEAN, o \in {"ok", "noarray", "noconnect", "nosync"} :
                nl_cache_mngr_alloc(f, o)
    <2>1. UNCHANGED <<table, seen, assocs, evq, err, lost, pc, doubled>>
      BY <1>2 DEF nl_cache_mngr_alloc, callVars, kernelVars, appVars
    <2>2. Same
      BY <2>1 DEF Current, Told, Managed, Pending, ManagedTypes
    <2> QED BY <1>0, <2>2
  <1>3. CASE FreeCache \/ FreeDone
    <2>1. Same
      BY <1>3 DEF FreeCache, FreeDone, Current, Told, Managed
    <2> QED BY <1>0, <2>1
  <1>4. CASE \E t \in Types : nl_cache_mngt_register(t)
                              \/ nl_cache_mngt_unregister(t)
    <2>1. Same
      BY <1>4 DEF nl_cache_mngt_register, nl_cache_mngt_unregister, callVars,
                  kernelVars, appVars, Current, Told, Managed, Pending,
                  ManagedTypes
    <2> QED BY <1>0, <2>1
  <1>5. CASE \E t \in Types : AddStart(t) \/ Recover(t)
    <2>1. /\ UNCHANGED <<table, seen, assocs, evq, err, lost>>
          /\ pc' # "free" /\ doubled' \subseteq doubled
      BY <1>5 DEF AddStart, Recover, StartFill, mngrVars, kernelVars, appVars
    <2>2. Same
      BY <2>1 DEF Current, Told, Managed, Pending, ManagedTypes
    <2> QED BY <1>0, <2>2
  <1>6. CASE Add
    <2>1. /\ UNCHANGED <<table, seen, assocs, evq, err, lost>>
          /\ pc' # "free" /\ doubled' \subseteq doubled
      BY <1>6 DEF Add, AddJoin, AddJoinFails, AddFill, StartFill, mngrVars,
                  kernelVars, appVars
    <2>2. Same
      BY <2>1 DEF Current, Told, Managed, Pending, ManagedTypes
    <2> QED BY <1>0, <2>2
  <1>7. CASE FillRestart \/ FillFails \/ \E k \in Keys : FillObject(k)
    <2>1. /\ UNCHANGED <<table, seen, assocs, evq, err, lost>>
          /\ pc = "dump" /\ pc' # "free" /\ doubled' \subseteq doubled \cup {cur}
      BY <1>7 DEF FillRestart, FillFails, FillObject, mngrVars, kernelVars,
                  appVars
    <2>2. Same
      BY <2>1, FillStep, FillingNotTold
    <2> QED BY <1>0, <2>2
  <1>8. CASE FillDone
    BY <1>0, <1>8, FillDoneStep DEF FillDone
  <1>9. CASE DataReady \/ ReadAgain
    <2>1. Same
      BY <1>9 DEF DataReady, ReadAgain, mngrVars, kernelVars, appVars, Current,
                  Told, Managed, Pending, ManagedTypes
    <2> QED BY <1>0, <2>1
  <1>10. CASE event_input
    BY <1>0, <1>10, EventInputStep DEF event_input, Receive
  <1>11. CASE event_input_fails
    BY <1>11, LoseStep DEF event_input_fails, Receive, DataReadyError, mngrVars
  <1>12. CASE ReadNobufs
    BY <1>12, LoseStep DEF ReadNobufs, DataReadyError, mngrVars
  <1> QED BY <1>1, <1>2, <1>3, <1>4, <1>5, <1>6, <1>7, <1>8, <1>9, <1>10,
             <1>11, <1>12, CloseStep, ChangeStep
          DEF Next, Fill, Poll

\* For types with objects, groups and messages of their own, with a hash table
\* or without, the manager is a view of the kernel's tables that lags but only
\* shows what they held, and that is right wherever nothing is left to be told
\* (never so in a cache without a hash table whose last dump was restarted).
THEOREM ImplementsMirror == OwnTypes => (Spec => MirrorSpec)
  <1> SUFFICES ASSUME OwnTypes PROVE Spec => MirrorSpec
    OBVIOUS
  <1>1. Init => Mirror!Init
    <2> SUFFICES ASSUME Init PROVE Mirror!Init
      OBVIOUS
    <2>1. \A k : ~Managed(k)
      <3>1. DOMAIN assocs = {}
        BY DEF Init
      <3> QED BY <3>1 DEF Managed, ManagedTypes
    <2>2. table \in [Keys -> Vals \cup {None}]
      BY MngrAssumption DEF Init
    <2> QED BY <2>1, <2>2 DEF Init, Mirror!Init, Mirror!Empty, MngrView, Current,
                              Told
  <1>2. BInv /\ MInv /\ Shows /\ Shows' /\ [Next]_vars
           => [Mirror!Next]_(Mirror!vars)
    BY MirrorStep
  <1> QED BY <1>1, <1>2, InvShows, BInvariance, MInvariance, SInvariance, PTL
          DEF Spec, MirrorSpec, Mirror!Spec

=============================================================================
