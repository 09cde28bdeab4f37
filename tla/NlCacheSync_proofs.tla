------------------------ MODULE NlCacheSync_proofs -------------------------
(***************************************************************************)
(* Proofs about NlCacheSync: what nl_cache_refill() and nl_cache_resync()  *)
(* leave in a cache, for any keys, values, families and numbers of calls,  *)
(* interruptions and changes of the kernel's table.                        *)
(***************************************************************************)
EXTENDS NlCacheSync, NlInduction, FiniteSetTheorems, SequenceTheorems, TLAPS

-----------------------------------------------------------------------------
(* The invariants.                                                         *)

FamilySet == {Families[i] : i \in DOMAIN Families}

Msgs ==
    [kind : {"valid"}, seq : Nat, key : Keys, val : Vals, intr : BOOLEAN]
    \cup [kind : {"done"}, seq : Nat, intr : BOOLEAN]
    \cup [kind : {"error"}, seq : Nat]

Dumps == [on : BOOLEAN, seq : Nat, fam : FamilySet, todo : SUBSET Keys,
          dirty : BOOLEAN]

\* The types, of cache and call ...
CallOK ==
    /\ type \in Types /\ cache \in Contents
    /\ op \in {"none", "refill", "resync"}
    /\ pc \in {"idle", "request", "pickup"}
    /\ pc # "idle" => op # "none"
    /\ grp \in DOMAIN Families
    /\ interrupted \in BOOLEAN /\ restarted \in BOOLEAN /\ tainted \in BOOLEAN
    /\ result \in {"none", "ok", "error"}
    /\ snap \in Table /\ mirror \in Table
    /\ changes \in 0..MaxChanges /\ calls \in 0..MaxCalls
    /\ merged \subseteq Keys /\ (merged # {} => op = "resync" /\ type.update)

\* ... and of what the socket and the kernel hold.
SocketOK ==
    /\ seqNext \in 0..MaxDumps /\ seqExpect \in 0..seqNext
    /\ table \in Table /\ dump \in Dumps /\ rxq \in Seq(Msgs)
    /\ dump.on => dump.seq < seqNext
    /\ ~dump.on => dump.todo = {}
    /\ \A k \in dump.todo : table[k] # None
    /\ \A i \in DOMAIN rxq : rxq[i].seq < seqNext

\* A hash table never holds two identical objects; a refill marks none.
CacheOK ==
    /\ type.hashed => \A k \in Keys : Len(cache[k]) <= 1
    /\ op = "refill" => \A k \in Keys : Kept(cache[k]) = DOMAIN cache[k]

TInv == CallOK /\ SocketOK /\ CacheOK

\* While a type that merges is resynced, the objects it began with keep their
\* marks, whatever is merged into them, and a new one is never marked.
Merging == op = "resync" /\ type.update /\ pc # "idle"

Marked(s) == s # <<>> /\ Kept(s) = {}
Fresh(s)  == Len(s) <= 1 /\ Kept(s) = DOMAIN s

MergeOK ==
    Merging => \A k \in Keys : IF k \in merged THEN Marked(cache[k])
                               ELSE Fresh(cache[k])

\* No call has failed: before a request the socket is empty ...
Quiet ==
    rxq = <<>> /\ ~dump.on /\ seqExpect = seqNext /\ ~interrupted

\* ... the kernel may refuse the dump ...
Refused ==
    /\ Len(rxq) = 1 /\ rxq[1].kind = "error" /\ ~dump.on /\ ~interrupted

\* The running dump may still end without an interruption.
Intact ==
    IF dump.on THEN ~dump.dirty
    ELSE rxq # <<>> /\ rxq[Len(rxq)].kind = "done" /\ ~rxq[Len(rxq)].intr

\* ... or answers with each object of the family at most once, and then DONE.
Answer ==
    /\ \A i \in DOMAIN rxq :
          /\ rxq[i].kind # "error"
          /\ rxq[i].kind = "done" <=> ~dump.on /\ i = Len(rxq)
          /\ interrupted \/ rxq[i].intr => ~Intact
          /\ rxq[i].kind = "valid" => /\ FamilyOf[rxq[i].key] = Families[grp]
                                      /\ rxq[i].key \notin dump.todo
    /\ \A i, j \in DOMAIN rxq :
          rxq[i].kind = "valid" /\ rxq[j].kind = "valid" /\ rxq[i].key = rxq[j].key
             => i = j
    /\ rxq = <<>> => dump.on
    /\ interrupted => ~Intact
    /\ dump.on => dump.seq = seqExpect /\ dump.fam = Families[grp]
    /\ \A k \in dump.todo : FamilyOf[k] = Families[grp]

InStep ==
    IF pc = "pickup"
       THEN /\ seqNext = seqExpect + 1
            /\ \A i \in DOMAIN rxq : rxq[i].seq = seqExpect
            /\ Refused \/ Answer
       ELSE Quiet

\* The list s has one unmarked object, of value v.
Only(s, v) == \E i \in DOMAIN s : Kept(s) = {i} /\ s[i] = Object(v)

\* No object of the key has come yet.  Nothing is claimed after a restart.
Missing(k) == ~restarted => Kept(cache[k]) = {}

\* The object of the key has come.
Got(k, v) ==
    /\ Kept(cache[k]) # {}
    /\ ~restarted \/ (op = "resync" /\ type.hashed) => Only(cache[k], v)

Settled(k, v) == IF v = None THEN Missing(k) ELSE Got(k, v)

Before(k) == \E i \in DOMAIN Families : i < grp /\ Families[i] = FamilyOf[k]
After(k)  == \E i \in DOMAIN Families : i > grp /\ Families[i] = FamilyOf[k]
Now(k)    == FamilyOf[k] = Families[grp]

QueuedAt(k, i) == rxq[i].kind = "valid" /\ rxq[i].key = k
Outstanding(k) == k \in dump.todo \/ \E i \in DOMAIN rxq : QueuedAt(k, i)

\* What the dump that is running tells.
Told == IF dump.on THEN table ELSE snap

\* The families done agree with their dumps, the others have not begun, and
\* of the current one what is not outstanding has been told.
DoneOK(k)  == Before(k) => Settled(k, snap[k])
AheadOK(k) == After(k) \/ (Now(k) /\ pc = "request") => Missing(k)
CurrentOK(k) ==
    Now(k) /\ pc = "pickup" /\ Intact =>
       /\ Outstanding(k) => Missing(k)
       /\ ~Outstanding(k) => Settled(k, Told[k])
       /\ \A i \in DOMAIN rxq : QueuedAt(k, i) => rxq[i].val = Told[k]

Progress == \A k \in Keys \ merged : DoneOK(k) /\ AheadOK(k) /\ CurrentOK(k)

PInv ==
    /\ ~tainted => InStep
    /\ ~tainted /\ pc # "idle" => Progress
    /\ SyncExact /\ NothingMissing /\ ResyncFresh

IInv == TInv /\ MergeOK /\ CallbacksMirrorCache /\ PInv

-----------------------------------------------------------------------------
(* Lists of objects.                                                       *)

Objects == [val : Vals, mark : BOOLEAN]

LEMMA KeptPlaces ==
    ASSUME NEW s \in Seq(Objects)
    PROVE  /\ Kept(s) \subseteq 1..Len(s) /\ Kept(s) \subseteq Nat
           /\ IsFiniteSet(Kept(s)) /\ Cardinality(Kept(s)) \in Nat
           /\ \A m \in Nat : /\ IsFiniteSet({j \in Kept(s) : j <= m})
                             /\ Cardinality({j \in Kept(s) : j <= m}) \in Nat
  <1>1. Kept(s) \subseteq 1..Len(s) /\ Len(s) \in Nat
    BY DEF Kept
  <1>2. IsFiniteSet(1..Len(s))
    BY <1>1, FS_Interval
  <1>3. IsFiniteSet(Kept(s))
    BY <1>1, <1>2, FS_Subset
  <1>4. \A m \in Nat : IsFiniteSet({j \in Kept(s) : j <= m})
    <2> SUFFICES ASSUME NEW m \in Nat PROVE IsFiniteSet({j \in Kept(s) : j <= m})
      OBVIOUS
    <2>1. {j \in Kept(s) : j <= m} \subseteq Kept(s)
      OBVIOUS
    <2> QED BY <1>3, <2>1, FS_Subset
  <1> QED BY <1>1, <1>3, <1>4, FS_CardinalityType

\* Each number up to the number of unmarked objects is the rank of one.
LEMMA KeptRanks ==
    ASSUME NEW s \in Seq(Objects), NEW n \in 1..Cardinality(Kept(s))
    PROVE  \E i \in Kept(s) : Cardinality({j \in Kept(s) : j <= i}) = n
  <1>1. PICK K : K = Kept(s)
    OBVIOUS
  <1>2. PICK g : g = [m \in Nat |-> Cardinality({j \in K : j <= m})]
    OBVIOUS
  <1>3. PICK L \in Nat : \A j \in K : j \in Nat /\ j > 0 /\ j <= L
    <2>1. Len(s) \in Nat /\ \A j \in K : j \in 1..Len(s)
      BY <1>1, KeptPlaces
    <2>2. PICK L : L = Len(s)
      OBVIOUS
    <2>3. L \in Nat /\ \A j \in K : j \in 1..L
      BY ONLY <2>1, <2>2
    <2>4. \A j \in K : j \in Nat /\ j > 0 /\ j <= L
      BY ONLY <2>3
    <2> QED BY ONLY <2>3, <2>4
  <1>4. \A m \in Nat : IsFiniteSet({j \in K : j <= m}) /\ g[m] \in Nat
    BY <1>1, <1>2, KeptPlaces
  <1>5. g[0] = 0
    <2>1. {j \in K : j <= 0} = {}
      BY ONLY <1>3
    <2> QED BY <1>2, <2>1, FS_EmptySet
  <1>6. g[L] = Cardinality(K)
    <2>1. {j \in K : j <= L} = K
      BY ONLY <1>3
    <2> QED BY <1>2, <1>3, <2>1
  <1>7. ASSUME NEW m \in Nat, m + 1 \notin K PROVE g[m + 1] = g[m]
    <2>1. {j \in K : j <= m + 1} = {j \in K : j <= m}
      BY ONLY <1>3, <1>7, m \in Nat
    <2> QED BY <1>2, <2>1
  <1>8. ASSUME NEW m \in Nat, m + 1 \in K PROVE g[m + 1] = g[m] + 1
    <2>1. /\ {j \in K : j <= m + 1} = {j \in K : j <= m} \cup {m + 1}
          /\ m + 1 \notin {j \in K : j <= m}
      BY ONLY <1>3, <1>8, m \in Nat
    <2>2. Cardinality({j \in K : j <= m} \cup {m + 1}) = Cardinality({j \in K : j <= m}) + 1
      BY <1>4, <2>1, FS_AddElement
    <2> QED BY <1>2, <2>1, <2>2
  <1>9. PICK T : T = {m \in Nat : g[m] >= n}
    OBVIOUS
  <1>10. T \subseteq Nat /\ T # {} /\ n \in Nat /\ n > 0
    <2>1. n \in Nat /\ n > 0 /\ Cardinality(K) >= n
      BY <1>1, KeptPlaces
    <2> QED BY <1>6, <1>9, <2>1
  <1>11. PICK m \in T : \A j \in T : m <= j
    BY <1>10, LeastElement
  <1>12. m \in Nat /\ g[m] >= n /\ m # 0
    BY <1>5, <1>9, <1>10, <1>11
  <1>13. PICK l \in Nat : m = l + 1
    <2>1. m - 1 \in Nat /\ m = (m - 1) + 1
      BY <1>12
    <2> QED BY <2>1
  <1>14. l \notin T
    BY <1>11, <1>12, <1>13
  <1>15. g[l] < n /\ g[l] \in Nat
    <2>1. g[l] \in Nat /\ l \in Nat /\ n \in Nat
      BY <1>4, <1>10, <1>13
    <2>2. ~(g[l] >= n)
      BY <1>9, <1>14
    <2> QED BY ONLY <2>1, <2>2
  <1>16. m \in K /\ g[m] = n
    BY <1>4, <1>7, <1>8, <1>10, <1>12, <1>13, <1>15
  <1> QED BY <1>1, <1>2, <1>12, <1>16

\* What the sweep leaves of a list.
LEMMA UnmarkedType ==
    ASSUME NEW s \in Seq(Objects)
    PROVE  /\ Unmarked(s) \in Seq(Objects)
           /\ Len(Unmarked(s)) = Cardinality(Kept(s))
  <1> DEFINE place(n) == CHOOSE i \in Kept(s) : Cardinality({j \in Kept(s) : j <= i}) = n
  <1>1. ASSUME NEW n \in 1..Cardinality(Kept(s)) PROVE s[place(n)] \in Objects
    <2>1. place(n) \in Kept(s)
      BY KeptRanks
    <2> HIDE DEF place
    <2>2. place(n) \in DOMAIN s
      BY <2>1 DEF Kept
    <2> QED BY <2>2
  <1>2. Cardinality(Kept(s)) \in Nat
    BY KeptPlaces
  <1>3. Unmarked(s) = [n \in 1..Cardinality(Kept(s)) |-> s[place(n)]]
    BY DEF Unmarked
  <1> HIDE DEF place
  <1>4. PICK N : N = Cardinality(Kept(s))
    OBVIOUS
  <1>5. Unmarked(s) \in [1..N -> Objects] /\ N \in Nat
    BY <1>1, <1>2, <1>3, <1>4
  <1> QED BY <1>4, <1>5, SeqDef

LEMMA UnmarkedNone ==
    ASSUME NEW s \in Seq(Objects), Kept(s) = {}
    PROVE  Unmarked(s) = <<>>
  <1>1. Len(Unmarked(s)) = 0 /\ Unmarked(s) \in Seq(Objects)
    BY UnmarkedType, FS_EmptySet
  <1> QED BY <1>1, EmptySeq

LEMMA UnmarkedSome ==
    ASSUME NEW s \in Seq(Objects), Kept(s) # {}
    PROVE  Unmarked(s) # <<>>
  <1>1. Cardinality(Kept(s)) # 0
    BY KeptPlaces, FS_EmptySet
  <1>2. Len(Unmarked(s)) # 0
    BY <1>1, UnmarkedType
  <1> QED BY <1>2

LEMMA UnmarkedOne ==
    ASSUME NEW s \in Seq(Objects), NEW i, Kept(s) = {i}
    PROVE  Unmarked(s) = <<s[i]>>
  <1>1. Cardinality(Kept(s)) = 1
    BY FS_Singleton
  <1>2. PICK p : p \in Kept(s) /\ Unmarked(s)[1] = s[p]
    <2> DEFINE place == CHOOSE x \in Kept(s) : Cardinality({j \in Kept(s) : j <= x}) = 1
    <2>1. 1 \in 1..Cardinality(Kept(s))
      BY <1>1
    <2>2. place \in Kept(s)
      BY <2>1, KeptRanks
    <2>3. Unmarked(s)[1] = s[place]
      BY <2>1 DEF Unmarked
    <2> QED BY <2>2, <2>3
  <1>3. PICK u : u = Unmarked(s)
    OBVIOUS
  <1>4. u \in Seq(Objects) /\ Len(u) = 1 /\ u[1] = s[i]
    BY <1>1, <1>2, <1>3, UnmarkedType
  <1>5. u = <<s[i]>>
    BY <1>4
  <1> QED BY <1>3, <1>5

-----------------------------------------------------------------------------
(* The operations on a cache.                                              *)

LEMMA KeptOfAppend ==
    ASSUME NEW s \in Seq(Objects), NEW v \in Vals, NEW d, d = Append(s, Object(v))
    PROVE  /\ d \in Seq(Objects) /\ d # <<>>
           /\ Kept(d) = Kept(s) \cup {Len(s) + 1}
           /\ Kept(s) = {} => Only(d, v)
           /\ s = <<>> => Len(d) = 1 /\ Head(d).val = v
           /\ Kept(s) = DOMAIN s => Kept(d) = DOMAIN d
  <1>1. PICK o : o = Object(v)
    OBVIOUS
  <1>2. o \in Objects /\ ~o.mark /\ o.val = v
    BY <1>1 DEF Object, Objects
  <1>3. d = Append(s, o)
    BY <1>1
  <1>4. /\ d \in Seq(Objects) /\ Len(d) = Len(s) + 1 /\ Len(s) \in Nat
        /\ DOMAIN d = 1..(Len(s) + 1) /\ DOMAIN s = 1..Len(s)
        /\ d[Len(s) + 1] = o /\ \A i \in 1..Len(s) : d[i] = s[i]
    BY <1>2, <1>3
  <1>5. Kept(d) = Kept(s) \cup {Len(s) + 1}
    BY <1>2, <1>4 DEF Kept
  <1>6. Kept(s) = {} => Only(d, v)
    BY <1>1, <1>4, <1>5 DEF Only
  <1>7. s = <<>> => Len(d) = 1 /\ Head(d).val = v
    BY <1>2, <1>4
  <1> QED BY <1>4, <1>5, <1>6, <1>7

\* nl_cache_mark_all() changes the marks only.
LEMMA MarkAll ==
    ASSUME NEW c \in Contents, NEW d, d = nl_cache_mark_all(c)
    PROVE  /\ d \in Contents /\ View(d) = View(c)
           /\ \A k \in Keys : Kept(d[k]) = {} /\ Len(d[k]) = Len(c[k])
  <1>1. ASSUME NEW k \in Keys
        PROVE  /\ d[k] \in Seq(Objects) /\ Len(d[k]) = Len(c[k])
               /\ DOMAIN d[k] = DOMAIN c[k]
               /\ \A i \in DOMAIN c[k] : d[k][i].mark = TRUE /\ d[k][i].val = c[k][i].val
    <2>1. PICK s : s = c[k]
      OBVIOUS
    <2>0. s \in Seq(Objects)
      BY <2>1 DEF Contents, Objects
    <2>2. s \in Seq(Objects) /\ Len(s) \in Nat /\ DOMAIN s = 1..Len(s)
      BY <2>0
    <2>3. d[k] = [i \in 1..Len(s) |-> [s[i] EXCEPT !.mark = TRUE]]
      BY <2>1, <2>2 DEF nl_cache_mark_all
    <2>4. \A i \in 1..Len(s) : /\ [s[i] EXCEPT !.mark = TRUE] \in Objects
                               /\ [s[i] EXCEPT !.mark = TRUE].mark = TRUE
                               /\ [s[i] EXCEPT !.mark = TRUE].val = s[i].val
      <3>1. \A o \in Objects : LET e == [o EXCEPT !.mark = TRUE]
                               IN  e \in Objects /\ e.mark = TRUE /\ e.val = o.val
        BY DEF Objects
      <3>2. \A i \in 1..Len(s) : s[i] \in Objects
        BY <2>2
      <3> QED BY <3>1, <3>2
    <2>5. PICK e : e = d[k]
      OBVIOUS
    <2>6. e \in [1..Len(s) -> Objects]
      BY <2>3, <2>4, <2>5
    <2>7. e \in Seq(Objects) /\ Len(e) = Len(s) /\ DOMAIN e = 1..Len(s)
      BY <2>2, <2>6, SeqDef
    <2> QED BY <2>1, <2>2, <2>3, <2>4, <2>5, <2>7
  <1>2. d \in Contents
    <2>1. d = [k \in Keys |-> d[k]]
      BY DEF nl_cache_mark_all
    <2> QED BY <1>1, <2>1 DEF Contents, Objects
  <1>3. \A k \in Keys : Kept(d[k]) = {}
    BY <1>1 DEF Kept
  <1>4. \A k \in Keys : View(d)[k] = View(c)[k]
    <2> SUFFICES ASSUME NEW k \in Keys PROVE View(d)[k] = View(c)[k]
      OBVIOUS
    <2>1. PICK s : s = c[k]
      OBVIOUS
    <2>2. PICK e : e = d[k]
      OBVIOUS
    <2>3. /\ s \in Seq(Objects) /\ e \in Seq(Objects) /\ Len(e) = Len(s)
          /\ s # <<>> => e[1].val = s[1].val
      <3>1. s \in Seq(Objects)
        BY <2>1 DEF Contents, Objects
      <3>2. e \in Seq(Objects) /\ Len(e) = Len(s)
        BY <1>1, <2>1, <2>2
      <3>3. s # <<>> => 1 \in DOMAIN s
        BY <3>1
      <3> QED BY <1>1, <2>1, <2>2, <3>1, <3>2, <3>3
    <2>4. s = <<>> <=> e = <<>>
      BY <2>3
    <2>5. s # <<>> => Head(e).val = Head(s).val
      BY <2>3, <2>4
    <2> QED BY <2>1, <2>2, <2>4, <2>5 DEF View
  <1> QED BY <1>1, <1>2, <1>3, <1>4 DEF View

\* __cache_add() of an object that is not marked.
LEMMA CacheAdd ==
    ASSUME NEW t \in CacheTypes, NEW c \in Contents, NEW k \in Keys, NEW v \in Vals,
           NEW d, d = __cache_add(t, c, k, v), t.hashed => Len(c[k]) <= 1
    PROVE  /\ d \in Contents /\ \A x \in Keys : x # k => d[x] = c[x]
           /\ t.hashed => Len(d[k]) <= 1
           /\ d[k] # <<>>
           /\ c[k] = <<>> => d[k] = Append(c[k], Object(v))
           /\ ~t.hashed => d[k] = Append(c[k], Object(v))
           /\ c[k] # <<>> /\ t.hashed => d[k] = c[k]
  <1>1. PICK s : s = c[k]
    OBVIOUS
  <1>2. s \in Seq(Objects) /\ Object(v) \in Objects
    BY <1>1 DEF Contents, Objects, Object
  <1>3. CASE t.hashed /\ s # <<>>
    <2>1. d = c
      BY <1>1, <1>3 DEF __cache_add
    <2> QED BY <1>1, <1>3, <2>1
  <1>4. CASE ~(t.hashed /\ s # <<>>)
    <2>1. d = [c EXCEPT ![k] = Append(s, Object(v))]
      BY <1>1, <1>4 DEF __cache_add
    <2>2. PICK a : a = Append(s, Object(v))
      OBVIOUS
    <2>3. a \in Seq(Objects) /\ Len(a) = Len(s) + 1 /\ a # <<>>
      BY <1>2, <2>2
    <2>4. d \in Contents /\ d[k] = a /\ \A x \in Keys : x # k => d[x] = c[x]
      BY <2>1, <2>2, <2>3 DEF Contents, Objects
    <2>5. t.hashed => Len(d[k]) <= 1
      <3> SUFFICES ASSUME t.hashed PROVE Len(d[k]) <= 1
        OBVIOUS
      <3>1. Len(s) = 0
        BY <1>4
      <3>2. Len(a) = 1
        BY <2>3, <3>1
      <3> QED BY <2>4, <3>2
    <2> QED BY <1>1, <1>4, <2>2, <2>3, <2>4, <2>5
  <1> QED BY <1>3, <1>4

\* cache_include() of an object the kernel has sent: with a hash table it is
\* what the cache then has, and a callback tells so unless it had it before.
\* An object that replaces the old one is not marked.
LEMMA CacheInclude ==
    ASSUME NEW t \in CacheTypes, NEW c \in Contents, NEW k \in Keys, NEW v \in Vals,
           NEW inc, inc = cache_include(t, c, k, v, "NEW"),
           t.hashed => Len(c[k]) <= 1
    PROVE  /\ inc.cache \in Contents /\ \A x \in Keys : x # k => inc.cache[x] = c[x]
           /\ t.hashed => /\ Len(inc.cache[k]) <= 1 /\ View(inc.cache)[k] = v
                          /\ inc.event \in {"NEW", "CHANGE"} \/ View(c)[k] = v
           /\ inc.event \in {"NEW", "CHANGE", "none"}
           /\ ~t.update => /\ Kept(inc.cache[k]) # {}
                           /\ t.hashed \/ Kept(c[k]) = {} => Only(inc.cache[k], v)
           /\ t.update => /\ Marked(c[k]) => Marked(inc.cache[k])
                          /\ Fresh(c[k]) => /\ Fresh(inc.cache[k])
                                            /\ Only(inc.cache[k], v)
  <1>1. PICK s : s = c[k]
    OBVIOUS
  <1>2. s \in Seq(Objects)
    BY <1>1 DEF Contents, Objects
  <1>3. CASE s # <<>> /\ t.update
    <2>1. inc = [cache |-> [c EXCEPT ![k] = [s EXCEPT ![1].val = v]], event |-> "CHANGE"]
      BY <1>1, <1>3 DEF cache_include, Included
    <2>2. PICK e : e = [s EXCEPT ![1].val = v]
      OBVIOUS
    <2>3. /\ 1 \in DOMAIN s /\ s[1] \in Objects /\ DOMAIN s = 1..Len(s) /\ Len(s) \in Nat
      BY <1>2, <1>3
    <2>4. [s[1] EXCEPT !.val = v] \in Objects /\ [s[1] EXCEPT !.val = v].val = v
      BY <2>3 DEF Objects
    <2>5. e = [s EXCEPT ![1] = [s[1] EXCEPT !.val = v]]
      BY <2>2, <2>3
    <2>6. e \in [1..Len(s) -> Objects] /\ e[1].val = v
      <3>1. s \in [1..Len(s) -> Objects]
        BY <1>2
      <3> QED BY <2>3, <2>4, <2>5, <3>1
    <2>7. e \in Seq(Objects) /\ Len(e) = Len(s) /\ e # <<>> /\ Head(e).val = v
      <3>1. e \in Seq(Objects) /\ Len(e) = Len(s)
        BY <2>3, <2>6, SeqDef
      <3>2. e # <<>>
        BY <1>2, <1>3, <3>1
      <3> QED BY <2>6, <3>1, <3>2
    <2>8. PICK d : d = inc.cache
      OBVIOUS
    <2>9. /\ d = [c EXCEPT ![k] = e] /\ inc.event = "CHANGE"
      BY <2>1, <2>2, <2>8
    <2>10. d \in Contents /\ d[k] = e /\ \A x \in Keys : x # k => d[x] = c[x]
      BY <2>7, <2>9 DEF Contents, Objects
    <2>11. View(d)[k] = v
      BY <2>7, <2>10 DEF View
    <2>12. t.hashed => Len(d[k]) <= 1
      BY <1>1, <2>7, <2>10
    <2>13. e \in Seq(Objects) /\ Len(e) = Len(s) /\ DOMAIN e = DOMAIN s
           /\ \A i \in DOMAIN s : e[i].mark = s[i].mark
      <3>1. DOMAIN e = DOMAIN s
        BY <2>3, <2>6
      <3>2. [s[1] EXCEPT !.val = v].mark = s[1].mark
        BY <2>3 DEF Objects
      <3>3. \A i \in DOMAIN s : e[i] = IF i = 1 THEN [s[1] EXCEPT !.val = v] ELSE s[i]
        BY <2>5
      <3> QED BY <2>7, <3>1, <3>2, <3>3
    <2>14. Kept(e) = Kept(s)
      BY <2>13 DEF Kept
    <2>15. Marked(s) => Marked(e)
      BY <2>7, <2>14 DEF Marked
    <2>16. ASSUME Fresh(s) PROVE Fresh(e) /\ Only(e, v)
      <3>1. Len(s) = 1 /\ DOMAIN s = {1} /\ Kept(s) = {1}
        BY <1>2, <1>3, <2>3, <2>16 DEF Fresh
      <3>2. ~s[1].mark /\ s[1].mark \in BOOLEAN
        BY <2>3, <3>1 DEF Kept, Objects
      <3>3. e[1] = [val |-> v, mark |-> FALSE]
        BY <2>3, <2>5, <3>2 DEF Objects
      <3>4. Only(e, v)
        BY <2>13, <2>14, <3>1, <3>3 DEF Only, Object
      <3> QED BY <2>13, <2>14, <2>16, <3>4 DEF Fresh
    <2> QED BY <1>1, <1>3, <2>8, <2>9, <2>10, <2>11, <2>12, <2>15, <2>16
  <1>4. CASE s # <<>> /\ ~t.update
    <2>1. PICK r : r = nl_cache_remove(c, k)
      OBVIOUS
    <2>2. /\ Tail(s) \in Seq(Objects) /\ Len(Tail(s)) = Len(s) - 1 /\ Len(s) \in Nat
          /\ DOMAIN Tail(s) = 1..(Len(s) - 1) /\ \A i \in DOMAIN Tail(s) : Tail(s)[i] = s[i + 1]
      BY <1>2, <1>4
    <2>3. r \in Contents /\ r[k] = Tail(s) /\ \A x \in Keys : x # k => r[x] = c[x]
      BY <1>1, <2>1, <2>2 DEF nl_cache_remove, Contents, Objects
    <2>4. PICK d : d = __cache_add(t, r, k, v)
      OBVIOUS
    <2>5. /\ inc.cache = d
          /\ inc.event = IF Head(s).val # v THEN "CHANGE" ELSE "none"
      BY <1>1, <1>4, <2>1, <2>4 DEF cache_include, Included
    <2>6. t.hashed => Tail(s) = <<>>
      BY <1>1, <1>2, <1>4, <2>2
    <2>7. t.hashed => Len(r[k]) <= 1
      BY <2>3, <2>6
    <2>8. /\ d \in Contents /\ \A x \in Keys : x # k => d[x] = c[x]
          /\ t.hashed => Len(d[k]) <= 1
          /\ d[k] = Append(Tail(s), Object(v))
      <3>0. r \in Contents
        BY <2>3
      <3>1. /\ d \in Contents /\ \A x \in Keys : x # k => d[x] = r[x]
            /\ t.hashed => Len(d[k]) <= 1
            /\ r[k] = <<>> => d[k] = Append(r[k], Object(v))
            /\ ~t.hashed => d[k] = Append(r[k], Object(v))
        BY ONLY <2>4, <2>7, <3>0, CacheAdd, t \in CacheTypes, k \in Keys, v \in Vals
      <3>2. d[k] = Append(Tail(s), Object(v))
        <4>1. CASE t.hashed
          BY <2>3, <2>6, <3>1, <4>1
        <4>2. CASE ~t.hashed
          BY <2>3, <3>1, <4>2
        <4> QED BY <4>1, <4>2
      <3> QED BY <2>3, <3>1, <3>2
    <2>9. PICK e : e = d[k]
      OBVIOUS
    <2>10. PICK tl : tl = Tail(s)
      OBVIOUS
    <2>11. /\ tl \in Seq(Objects) /\ e = Append(tl, Object(v)) /\ Len(tl) \in Nat
      BY <2>2, <2>8, <2>9, <2>10
    <2>12. /\ Kept(e) = Kept(tl) \cup {Len(tl) + 1} /\ e # <<>>
           /\ Kept(tl) = {} => Only(e, v)
           /\ tl = <<>> => Len(e) = 1 /\ Head(e).val = v
      BY <2>11, KeptOfAppend
    <2>13. Kept(s) = {} => Kept(tl) = {}
      BY <1>2, <2>2, <2>10 DEF Kept
    <2>14. t.hashed => Kept(tl) = {} /\ tl = <<>>
      <3>1. tl = <<>> => Kept(tl) = {}
        BY DEF Kept
      <3> QED BY <2>6, <2>10, <3>1
    <2>15. t.hashed => View(d)[k] = v
      BY <2>9, <2>12, <2>14 DEF View
    <2>16. inc.event = "CHANGE" \/ (inc.event = "none" /\ View(c)[k] = v)
      BY <1>1, <1>4, <2>5 DEF View
    <2> QED BY <1>1, <1>4, <2>5, <2>8, <2>9, <2>12, <2>13, <2>14, <2>15, <2>16
  <1>5. CASE s = <<>>
    <2>1. PICK d : d = __cache_add(t, c, k, v)
      OBVIOUS
    <2>2. inc.cache = d /\ inc.event = "NEW"
      BY <1>1, <1>5, <2>1 DEF cache_include, Included
    <2>3. /\ d \in Contents /\ \A x \in Keys : x # k => d[x] = c[x]
          /\ t.hashed => Len(d[k]) <= 1
          /\ d[k] = Append(s, Object(v))
      <3>1. /\ d \in Contents /\ \A x \in Keys : x # k => d[x] = c[x]
            /\ t.hashed => Len(d[k]) <= 1
            /\ c[k] = <<>> => d[k] = Append(c[k], Object(v))
        BY <2>1, CacheAdd
      <3> QED BY <1>1, <1>5, <3>1
    <2>4. PICK e : e = d[k]
      OBVIOUS
    <2>5. /\ Kept(e) = Kept(s) \cup {Len(s) + 1} /\ e # <<>>
          /\ Kept(s) = {} => Only(e, v)
          /\ Len(e) = 1 /\ Head(e).val = v
      <3>1. e = Append(s, Object(v))
        BY <2>3, <2>4
      <3> QED BY <1>2, <1>5, <3>1, KeptOfAppend
    <2>6. Kept(s) = {} /\ ~Marked(s)
      BY <1>5 DEF Kept, Marked
    <2>7. View(d)[k] = v
      BY <2>4, <2>5 DEF View
    <2>8. Fresh(e)
      <3>1. e = Append(s, Object(v)) /\ Len(s) = 0 /\ Object(v) \in Objects
        BY <1>5, <2>3, <2>4 DEF Object, Objects
      <3>2. DOMAIN e = {1}
        BY <1>2, <3>1
      <3> QED BY <2>5, <2>6, <3>1, <3>2 DEF Fresh
    <2> QED BY <1>1, <2>2, <2>3, <2>4, <2>5, <2>6, <2>7, <2>8
  <1> QED BY <1>3, <1>4, <1>5

-----------------------------------------------------------------------------
(* Types, and the view of an application that follows the callbacks.       *)

LEMMA FamilyFacts ==
    /\ DOMAIN Families = 1..Len(Families) /\ Len(Families) \in Nat
    /\ Len(Families) > 0 /\ 1 \in DOMAIN Families
    /\ \A i, j \in DOMAIN Families : Families[i] = Families[j] => i = j
    /\ \A k \in Keys : \E i \in DOMAIN Families : Families[i] = FamilyOf[k]
    /\ \A i \in DOMAIN Families : Families[i] \in FamilySet
  <1>1. Families \in Seq(FamilySet) /\ Families # <<>>
    BY SyncAssumption DEF FamilySet
  <1>2. /\ DOMAIN Families = 1..Len(Families) /\ Len(Families) \in Nat
        /\ Len(Families) > 0
    BY <1>1
  <1>3. \A k \in Keys : FamilyOf[k] \in {Families[i] : i \in DOMAIN Families}
    BY SyncAssumption
  <1> QED BY <1>2, <1>3, SyncAssumption DEF FamilySet

LEMMA ViewType ==
    ASSUME NEW c \in Contents
    PROVE  View(c) \in Table
  <1>1. ASSUME NEW k \in Keys PROVE View(c)[k] \in Vals \cup {None}
    <2>1. PICK s : s = c[k]
      OBVIOUS
    <2>2. s \in Seq(Objects)
      BY <2>1 DEF Contents, Objects
    <2>3. s # <<>> => Head(s) \in Objects
      BY <2>2
    <2>4. s # <<>> => Head(s).val \in Vals
      BY <2>3 DEF Objects
    <2> QED BY <2>1, <2>4 DEF View
  <1> QED BY <1>1 DEF View, Table

LEMMA NothingKept ==
    /\ EmptyCache \in Contents
    /\ \A k \in Keys : EmptyCache[k] = <<>> /\ Kept(EmptyCache[k]) = {}
    /\ \A k \in Keys : DOMAIN EmptyCache[k] = {} /\ Len(EmptyCache[k]) = 0
  <1>1. Kept(<<>>) = {} /\ DOMAIN <<>> = {} /\ Len(<<>>) = 0
    BY DEF Kept
  <1> QED BY <1>1 DEF EmptyCache, Contents

\* The sweep keeps what is not marked.
LEMMA SweepType ==
    ASSUME NEW c \in Contents, NEW d, d = Sweep(c)
    PROVE  /\ d \in Contents
           /\ \A k \in Keys : d[k] = Unmarked(c[k]) /\ c[k] \in Seq(Objects)
           /\ \A k \in Keys : Len(c[k]) <= 1 => Len(d[k]) <= 1
  <1>1. ASSUME NEW k \in Keys
        PROVE  /\ c[k] \in Seq(Objects) /\ d[k] = Unmarked(c[k])
               /\ d[k] \in Seq(Objects)
    <2>1. c[k] \in Seq(Objects)
      BY DEF Contents, Objects
    <2> QED BY <2>1, UnmarkedType DEF Sweep
  <1>2. d \in Contents
    <2>1. d = [k \in Keys |-> d[k]]
      BY DEF Sweep
    <2> QED BY <1>1, <2>1 DEF Contents, Objects
  <1>3. ASSUME NEW k \in Keys, Len(c[k]) <= 1 PROVE Len(d[k]) <= 1
    <2>1. PICK s : s = c[k]
      OBVIOUS
    <2>2. /\ s \in Seq(Objects) /\ Len(s) \in Nat /\ Len(s) <= 1
          /\ Kept(s) \subseteq 1..Len(s) /\ Len(d[k]) = Cardinality(Kept(s))
      BY <1>1, <1>3, <2>1, UnmarkedType, KeptPlaces
    <2>3. Kept(s) \subseteq {1}
      BY <2>2
    <2>4. Kept(s) = {} \/ Kept(s) = {1}
      BY <2>3
    <2>5. Cardinality(Kept(s)) = 0 \/ Cardinality(Kept(s)) = 1
      BY <2>4, FS_EmptySet, FS_Singleton
    <2> QED BY <2>2, <2>5
  <1> QED BY <1>1, <1>2, <1>3

\* What an application knows that was told which keys the sweep empties.
LEMMA SweepView ==
    ASSUME NEW c \in Contents, NEW d, d = Sweep(c), \A k \in Keys : Len(c[k]) <= 1
    PROVE  View(d) = [k \in Keys |-> IF k \in Obsolete(c) THEN None ELSE View(c)[k]]
  <1>1. ASSUME NEW k \in Keys
        PROVE  View(d)[k] = IF k \in Obsolete(c) THEN None ELSE View(c)[k]
    <2>1. PICK s : s = c[k]
      OBVIOUS
    <2>2. PICK u : u = d[k]
      OBVIOUS
    <2>3. s \in Seq(Objects) /\ u = Unmarked(s) /\ Len(s) \in Nat /\ Len(s) <= 1
          /\ DOMAIN s = 1..Len(s)
      BY <2>1, <2>2, SweepType
    <2>4. CASE s = <<>>
      <3>1. Kept(s) = {} /\ k \notin Obsolete(c)
        <4>1. DOMAIN s = {}
          BY <2>4
        <4> QED BY <2>1, <4>1 DEF Kept, Obsolete
      <3>2. u = <<>>
        BY <2>3, <3>1, UnmarkedNone
      <3> QED BY <2>1, <2>2, <2>4, <3>1, <3>2 DEF View
    <2>5. CASE s # <<>>
      <3>1. DOMAIN s = {1} /\ Head(s) = s[1] /\ s[1] \in Objects
        BY <2>3, <2>5
      <3>2. k \in Obsolete(c) <=> s[1].mark
        BY <2>1, <3>1 DEF Obsolete
      <3>3. CASE s[1].mark
        <4>1. Kept(s) = {}
          BY <3>1, <3>3 DEF Kept
        <4>2. u = <<>>
          BY <2>3, <4>1, UnmarkedNone
        <4> QED BY <2>2, <3>2, <3>3, <4>2 DEF View
      <3>4. CASE ~s[1].mark
        <4>1. Kept(s) = {1}
          BY <3>1, <3>4 DEF Kept
        <4>2. u = <<s[1]>>
          BY <2>3, <4>1, UnmarkedOne
        <4>3. u # <<>> /\ Head(u) = s[1]
          BY <4>2
        <4> QED BY <2>1, <2>2, <2>5, <3>1, <3>2, <3>4, <4>3 DEF View
      <3> QED BY <3>3, <3>4
    <2> QED BY <2>4, <2>5
  <1> QED BY <1>1 DEF View

LEMMA InitIInv == Init => IInv
  <1> SUFFICES ASSUME Init PROVE IInv
    OBVIOUS
  <1>1. CallOK
    <2>1. MaxChanges \in Nat /\ MaxCalls \in Nat
      BY SyncAssumption
    <2>2. 0 \in 0..MaxChanges /\ 0 \in 0..MaxCalls
      BY <2>1
    <2>3. snap \in Table /\ mirror \in Table
      BY DEF Init, Table
    <2> QED BY <2>2, <2>3, FamilyFacts, NothingKept DEF Init, CallOK
  <1>2. SocketOK
    <2>1. dump \in Dumps /\ ~dump.on /\ dump.todo = {}
      BY FamilyFacts DEF Init, NoDump, Dumps
    <2>2. rxq = <<>> /\ rxq \in Seq(Msgs) /\ DOMAIN rxq = {}
      BY DEF Init
    <2> QED BY <2>1, <2>2, SyncAssumption DEF Init, SocketOK
  <1>3. CacheOK
    BY NothingKept DEF Init, CacheOK
  <1>4. CallbacksMirrorCache
    BY NothingKept DEF Init, CallbacksMirrorCache, View
  <1>5. PInv
    BY DEF Init, PInv, InStep, Quiet, NoDump, SyncExact, NothingMissing, ResyncFresh,
           Synced
  <1>6. MergeOK
    BY DEF Init, MergeOK, Merging
  <1> QED BY <1>1, <1>2, <1>3, <1>4, <1>5, <1>6 DEF IInv, TInv

TV == TInv /\ CallbacksMirrorCache

LEMMA SameSocket ==
    ASSUME TInv, UNCHANGED <<sockVars, kernelVars>>
    PROVE  SocketOK'
  BY DEF TInv, SocketOK, sockVars, kernelVars

LEMMA BeginTypes ==
    ASSUME TV, nl_cache_refill \/ nl_cache_resync
    PROVE  TV'
  <1>1. SocketOK'
    BY SameSocket DEF nl_cache_refill, nl_cache_resync, Begin, TV
  <1>2. calls' \in 0..MaxCalls
    <2>1. calls \in 0..MaxCalls /\ calls < MaxCalls /\ calls' = calls + 1
          /\ MaxCalls \in Nat
      BY SyncAssumption DEF TV, TInv, CallOK, nl_cache_refill, nl_cache_resync, Begin
    <2> QED BY <2>1
  <1>3. CASE nl_cache_refill
    <2>1. cache' \in Contents /\ \A k \in Keys : cache'[k] = <<>>
      BY <1>3, NothingKept DEF nl_cache_refill
    <2>2. CallOK'
      BY <1>2, <1>3, <2>1, FamilyFacts DEF TV, TInv, CallOK, nl_cache_refill, Begin
    <2>3. CacheOK'
      <3>1. \A k \in Keys : /\ Len(cache'[k]) = 0 /\ Kept(cache'[k]) = {}
                            /\ DOMAIN cache'[k] = {}
        BY <1>3, NothingKept DEF nl_cache_refill
      <3>2. \A k \in Keys : Len(cache'[k]) <= 1
        BY <3>1
      <3> QED BY <3>1, <3>2 DEF CacheOK
    <2>4. CallbacksMirrorCache'
      BY <1>3 DEF CallbacksMirrorCache, nl_cache_refill, Begin
    <2> QED BY <1>1, <2>2, <2>3, <2>4 DEF TV, TInv
  <1>4. CASE nl_cache_resync
    <2>0. cache \in Contents
      BY DEF TV, TInv, CallOK
    <2>1. /\ cache' \in Contents /\ View(cache') = View(cache)
          /\ \A k \in Keys : Len(cache'[k]) = Len(cache[k])
      BY <1>4, <2>0, MarkAll DEF nl_cache_resync
    <2>2. CallOK'
      BY <1>2, <1>4, <2>1, FamilyFacts DEF TV, TInv, CallOK, nl_cache_resync, Begin
    <2>3. CacheOK'
      BY <1>4, <2>1 DEF TV, TInv, CacheOK, nl_cache_resync, Begin
    <2>4. CallbacksMirrorCache'
      BY <1>4, <2>1 DEF TV, CallbacksMirrorCache, nl_cache_resync, Begin
    <2> QED BY <1>1, <2>2, <2>3, <2>4 DEF TV, TInv
  <1> QED BY <1>3, <1>4

LEMMA FailTypes ==
    ASSUME TV, pc # "idle", Fail(cache), UNCHANGED cache, SocketOK'
    PROVE  TV'
  <1>1. cache \in Contents /\ View(cache) \in Table
    BY ViewType DEF TV, TInv, CallOK
  <1>2. CallOK'
    BY <1>1 DEF TV, TInv, CallOK, Fail
  <1>3. CacheOK'
    BY DEF TV, TInv, CacheOK, Fail
  <1>4. CallbacksMirrorCache'
    BY DEF TV, TInv, CallOK, CallbacksMirrorCache, Fail
  <1> QED BY <1>2, <1>3, <1>4 DEF TV, TInv

LEMMA RestartTypes ==
    ASSUME TV, pc # "idle", UNCHANGED <<type, op, grp, result, changes, calls, merged,
           snap, mirror, cache>>, pc' = "request", interrupted' = FALSE, restarted' = TRUE,
           tainted' \in BOOLEAN, SocketOK'
    PROVE  TV'
  <1>1. CallOK'
    BY DEF TV, TInv, CallOK
  <1>2. CacheOK'
    BY DEF TV, TInv, CacheOK
  <1>3. CallbacksMirrorCache'
    BY DEF TV, CallbacksMirrorCache
  <1> QED BY <1>1, <1>2, <1>3 DEF TV, TInv

\* A message is taken from the queue, and if it ends a reply, counted.
LEMMA ReceiveTypes ==
    ASSUME TInv, NEW kind, Receive(kind),
           seqExpect' = seqExpect \/
              (Head(rxq).seq = seqExpect /\ seqExpect' = seqExpect + 1)
    PROVE  /\ SocketOK' /\ pc = "pickup"
           /\ Head(rxq) \in Msgs /\ Head(rxq) = rxq[1] /\ Head(rxq).kind = kind
           /\ rxq' = Tail(rxq) /\ Len(rxq) \in Nat /\ Len(rxq) > 0
           /\ DOMAIN rxq = 1..Len(rxq) /\ DOMAIN rxq' = 1..(Len(rxq) - 1)
           /\ \A i \in DOMAIN rxq' : i + 1 \in DOMAIN rxq /\ rxq'[i] = rxq[i + 1]
  <1>1. rxq \in Seq(Msgs) /\ rxq # <<>> /\ rxq' = Tail(rxq)
    BY DEF TInv, SocketOK, Receive
  <1>2. PICK q : q = rxq'
    OBVIOUS
  <1>3. /\ Head(rxq) \in Msgs /\ Head(rxq) = rxq[1] /\ Len(rxq) \in Nat /\ Len(rxq) > 0
        /\ DOMAIN rxq = 1..Len(rxq) /\ q \in Seq(Msgs) /\ DOMAIN q = 1..(Len(rxq) - 1)
        /\ \A i \in DOMAIN q : i + 1 \in DOMAIN rxq /\ q[i] = rxq[i + 1]
    BY <1>1, <1>2
  <1>4. seqExpect' \in 0..seqNext /\ seqNext' = seqNext
    <2>1. seqNext \in Nat /\ seqExpect \in 0..seqNext
      BY SyncAssumption DEF TInv, SocketOK
    <2>2. Head(rxq).seq < seqNext
      <3>1. 1 \in DOMAIN rxq
        BY <1>3
      <3> QED BY <1>3, <3>1 DEF TInv, SocketOK
    <2> QED BY <2>1, <2>2 DEF Receive
  <1>5. SocketOK'
    <2>1. \A i \in DOMAIN q : q[i].seq < seqNext
      BY <1>3 DEF TInv, SocketOK
    <2> QED BY <1>2, <1>3, <1>4, <2>1 DEF TInv, SocketOK, Receive
  <1> QED BY <1>1, <1>2, <1>3, <1>5 DEF Receive

LEMMA PickupObjectTypes ==
    ASSUME TV, PickupObject
    PROVE  TV'
  <1>1. /\ SocketOK' /\ pc = "pickup" /\ Head(rxq) \in Msgs
        /\ Head(rxq).kind = "valid"
    BY ReceiveTypes DEF TV, PickupObject
  <1>2. PICK k : k = Head(rxq).key
    OBVIOUS
  <1>3. PICK v : v = Head(rxq).val
    OBVIOUS
  <1>4. k \in Keys /\ v \in Vals /\ Head(rxq).intr \in BOOLEAN
    BY <1>1, <1>2, <1>3 DEF Msgs
  <1>5. /\ type \in CacheTypes /\ cache \in Contents /\ mirror \in Table
        /\ type.hashed => Len(cache[k]) <= 1
    BY <1>4, SyncAssumption DEF TV, TInv, CallOK, CacheOK
  <1>6. interrupted' \in BOOLEAN
    BY <1>4 DEF TV, TInv, CallOK, PickupObject
  <1>7. UNCHANGED <<type, op, pc, grp, result, changes, calls, restarted, tainted,
                    merged, snap>>
    BY DEF PickupObject
  <1>8. CASE op = "refill"
    <2>1. cache' = __cache_add(type, cache, k, v) /\ mirror' = mirror
      BY <1>2, <1>3, <1>8 DEF PickupObject
    <2>2. PICK d : d = cache'
      OBVIOUS
    <2>3. /\ d \in Contents /\ \A x \in Keys : x # k => d[x] = cache[x]
          /\ type.hashed => Len(d[k]) <= 1
          /\ cache[k] = <<>> => d[k] = Append(cache[k], Object(v))
          /\ ~type.hashed => d[k] = Append(cache[k], Object(v))
          /\ cache[k] # <<>> /\ type.hashed => d[k] = cache[k]
      BY <1>4, <1>5, <2>1, <2>2, CacheAdd
    <2>4. CallOK'
      BY <1>1, <1>6, <1>7, <2>1, <2>2, <2>3 DEF TV, TInv, CallOK
    <2>5. Kept(d[k]) = DOMAIN d[k]
      <3>1. PICK s : s = cache[k]
        OBVIOUS
      <3>2. PICK e : e = d[k]
        OBVIOUS
      <3>3. s \in Seq(Objects) /\ Kept(s) = DOMAIN s
        BY <1>4, <1>5, <1>8, <3>1 DEF TV, TInv, CacheOK, Contents, Objects
      <3>4. e = Append(s, Object(v)) \/ e = s
        BY <2>3, <3>1, <3>2
      <3>5. Kept(e) = DOMAIN e
        BY <1>4, <3>3, <3>4, KeptOfAppend
      <3> QED BY <3>2, <3>5
    <2>6. CacheOK'
      BY <1>7, <2>2, <2>3, <2>5 DEF TV, TInv, CacheOK
    <2>7. CallbacksMirrorCache'
      BY <1>1, <1>7, <1>8 DEF CallbacksMirrorCache
    <2> QED BY <1>1, <2>4, <2>6, <2>7 DEF TV, TInv
  <1>9. CASE op # "refill"
    <2>1. PICK inc : inc = cache_include(type, cache, k, v, "NEW")
      OBVIOUS
    <2>2. cache' = inc.cache /\ Notify(k, v, inc.event) /\ op = "resync"
      BY <1>1, <1>2, <1>3, <1>9, <2>1 DEF PickupObject, TV, TInv, CallOK
    <2>3. /\ inc.cache \in Contents /\ \A x \in Keys : x # k => inc.cache[x] = cache[x]
          /\ type.hashed => /\ Len(inc.cache[k]) <= 1 /\ View(inc.cache)[k] = v
                            /\ inc.event \in {"NEW", "CHANGE"} \/ View(cache)[k] = v
          /\ inc.event \in {"NEW", "CHANGE", "none"}
      BY <1>4, <1>5, <2>1, CacheInclude
    <2>4. \/ inc.event \in {"NEW", "CHANGE"} /\ mirror' = [mirror EXCEPT ![k] = v]
          \/ inc.event = "none" /\ mirror' = mirror
      BY <2>2, <2>3 DEF Notify
    <2>5. mirror' \in Table
      BY <1>4, <1>5, <2>4 DEF Table
    <2>6. CallOK'
      BY <1>1, <1>6, <1>7, <2>2, <2>3, <2>5 DEF TV, TInv, CallOK
    <2>7. CacheOK'
      BY <1>7, <1>9, <2>2, <2>3 DEF TV, TInv, CacheOK
    <2>8. CallbacksMirrorCache'
      <3> SUFFICES ASSUME type.hashed PROVE mirror' = View(cache')
        BY <1>7 DEF CallbacksMirrorCache
      <3>1. mirror = View(cache)
        BY <2>2 DEF TV, CallbacksMirrorCache
      <3>2. PICK d : d = cache'
        OBVIOUS
      <3>3. View(d)[k] = v /\ \A x \in Keys : x # k => View(d)[x] = View(cache)[x]
        BY <2>2, <2>3, <3>2 DEF View
      <3>4. View(d) = [View(cache) EXCEPT ![k] = v]
        BY <1>4, <3>3 DEF View
      <3>5. View(cache)[k] = v => View(d) = View(cache)
        BY <1>4, <3>3 DEF View
      <3> QED BY <2>3, <2>4, <3>1, <3>2, <3>4, <3>5
    <2> QED BY <1>1, <2>6, <2>7, <2>8 DEF TV, TInv
  <1> QED BY <1>8, <1>9

LEMMA PickupDoneTypes ==
    ASSUME TV, PickupDone
    PROVE  TV'
  <1>1. SocketOK' /\ pc = "pickup"
    BY ReceiveTypes DEF TV, PickupDone
  <1>2. CASE interrupted \/ Head(rxq).intr
    <2>1. Restart /\ UNCHANGED cache
      BY <1>2 DEF PickupDone
    <2> QED BY <1>1, <2>1, RestartTypes DEF Restart, TV, TInv, CallOK
  <1>3. CASE ~(interrupted \/ Head(rxq).intr) /\ MoreFamilies(grp)
    <2>1. /\ grp' = grp + 1 /\ pc' = "request" /\ UNCHANGED <<cache, result, mirror>>
          /\ UNCHANGED <<type, op, interrupted, changes, calls, restarted, tainted,
                         merged, snap>>
      BY <1>3 DEF PickupDone
    <2>2. grp' \in DOMAIN Families
      <3>1. grp < Len(Families) /\ grp \in DOMAIN Families
        BY <1>3 DEF MoreFamilies, TV, TInv, CallOK
      <3> QED BY <2>1, <3>1, FamilyFacts
    <2>3. CallOK'
      BY <1>1, <2>1, <2>2 DEF TV, TInv, CallOK
    <2>4. CacheOK'
      BY <2>1 DEF TV, TInv, CacheOK
    <2>5. CallbacksMirrorCache'
      BY <1>1, <2>1 DEF TV, CallbacksMirrorCache
    <2> QED BY <1>1, <2>3, <2>4, <2>5 DEF TV, TInv
  <1>4. CASE ~(interrupted \/ Head(rxq).intr) /\ ~MoreFamilies(grp)
    <2>1. Finish /\ UNCHANGED <<type, op, interrupted, changes, calls, restarted,
                                tainted, merged, snap>>
      BY <1>4 DEF PickupDone
    <2>2. cache \in Contents /\ mirror \in Table /\ op # "none"
      BY <1>1 DEF TV, TInv, CallOK
    <2>3. CASE op = "resync"
      <3>1. /\ cache' = Sweep(cache)
            /\ mirror' = [k \in Keys |-> IF k \in Obsolete(cache) THEN None ELSE mirror[k]]
            /\ pc' = "idle" /\ result' = "ok" /\ grp' = grp
        BY <2>1, <2>3 DEF Finish
      <3>2. cache' \in Contents /\ \A k \in Keys : Len(cache[k]) <= 1 => Len(cache'[k]) <= 1
        BY <2>2, <3>1, SweepType
      <3>3. mirror' \in Table
        BY <2>2, <3>1 DEF Table
      <3>4. CallOK'
        BY <2>1, <3>1, <3>2, <3>3 DEF TV, TInv, CallOK
      <3>5. CacheOK'
        BY <2>1, <2>3, <3>2 DEF TV, TInv, CacheOK
      <3>6. CallbacksMirrorCache'
        <4> SUFFICES ASSUME type.hashed PROVE mirror' = View(cache')
          BY <2>1 DEF CallbacksMirrorCache
        <4>1. mirror = View(cache) /\ \A k \in Keys : Len(cache[k]) <= 1
          BY <2>3 DEF TV, TInv, CacheOK, CallbacksMirrorCache
        <4> QED BY <2>2, <3>1, <4>1, SweepView
      <3> QED BY <1>1, <3>4, <3>5, <3>6 DEF TV, TInv
    <2>4. CASE op # "resync"
      <3>1. /\ cache' = cache /\ mirror' = View(cache)
            /\ pc' = "idle" /\ result' = "ok" /\ grp' = grp
        BY <2>1, <2>4 DEF Finish
      <3>2. mirror' \in Table
        BY <2>2, <3>1, ViewType
      <3>3. CallOK'
        BY <2>1, <2>2, <3>1, <3>2 DEF TV, TInv, CallOK
      <3>4. CacheOK'
        BY <2>1, <3>1 DEF TV, TInv, CacheOK
      <3>5. CallbacksMirrorCache'
        BY <3>1 DEF CallbacksMirrorCache
      <3> QED BY <1>1, <3>3, <3>4, <3>5 DEF TV, TInv
    <2> QED BY <2>3, <2>4
  <1> QED BY <1>2, <1>3, <1>4

LEMMA OtherPickupTypes ==
    ASSUME TV, PickupMismatch \/ PickupFails \/ PickupError
    PROVE  TV'
  <1>1. SocketOK' /\ pc = "pickup"
    BY ReceiveTypes DEF TV, PickupMismatch, PickupFails, PickupError
  <1>2. UNCHANGED cache
    BY DEF PickupMismatch, PickupFails, PickupError
  <1>3. tainted \in BOOLEAN
    BY DEF TV, TInv, CallOK
  <1>4. CASE Fail(cache)
    BY <1>1, <1>2, <1>4, FailTypes
  <1>5. CASE ~Fail(cache)
    <2>1. /\ pc' = "request" /\ interrupted' = FALSE /\ restarted' = TRUE
          /\ tainted' \in BOOLEAN
          /\ UNCHANGED <<type, op, grp, result, changes, calls, merged, snap, mirror>>
      BY <1>3, <1>5 DEF PickupMismatch, PickupFails, PickupError, Restart
    <2> QED BY <1>1, <1>2, <2>1, RestartTypes
  <1> QED BY <1>4, <1>5

LEMMA RequestTypes ==
    ASSUME TV, RequestDump \/ RequestFails
    PROVE  TV'
  <1>1. /\ pc = "request" /\ seqNext < MaxDumps /\ seqNext' = seqNext + 1
        /\ UNCHANGED <<seqExpect, table>>
    BY DEF RequestDump, RequestFails, kernelVars
  <1>2. /\ seqNext \in 0..MaxDumps /\ seqExpect \in 0..seqNext /\ MaxDumps \in Nat
        /\ dump \in Dumps /\ rxq \in Seq(Msgs) /\ table \in Table
        /\ dump.on => dump.seq < seqNext
        /\ ~dump.on => dump.todo = {}
        /\ \A k \in dump.todo : table[k] # None
        /\ \A i \in DOMAIN rxq : rxq[i].seq < seqNext
    BY SyncAssumption DEF TV, TInv, SocketOK
  <1>3. /\ seqNext' \in 0..MaxDumps /\ seqExpect' \in 0..seqNext' /\ seqNext \in Nat
        /\ \A n \in Nat : n < seqNext => n < seqNext'
    BY <1>1, <1>2
  <1>4. dump.seq \in Nat /\ \A i \in DOMAIN rxq : rxq[i].seq \in Nat
    BY <1>2 DEF Dumps, Msgs
  <1>5. ASSUME UNCHANGED <<dump, rxq>> PROVE SocketOK'
    BY <1>1, <1>2, <1>3, <1>4, <1>5 DEF SocketOK
  <1>6. CASE RequestFails
    BY <1>1, <1>5, <1>6, FailTypes DEF RequestFails, kernelVars
  <1>7. CASE RequestDump
    <2>1. SocketOK'
      <3>1. CASE rxq' = Append(rxq, [kind |-> "error", seq |-> seqNext]) /\ UNCHANGED dump
        <4>1. PICK e : e = [kind |-> "error", seq |-> seqNext]
          OBVIOUS
        <4>2. e \in Msgs /\ e.seq = seqNext
          BY <1>3, <4>1 DEF Msgs
        <4>3. PICK q : q = rxq'
          OBVIOUS
        <4>4. /\ q \in Seq(Msgs) /\ DOMAIN q = 1..(Len(rxq) + 1) /\ Len(rxq) \in Nat
              /\ DOMAIN rxq = 1..Len(rxq)
              /\ q[Len(rxq) + 1] = e /\ \A i \in 1..Len(rxq) : q[i] = rxq[i]
          BY <1>2, <3>1, <4>1, <4>2, <4>3
        <4>5. seqNext < seqNext'
          BY <1>1, <1>3
        <4>6. \A i \in DOMAIN q : q[i].seq < seqNext'
          BY <1>2, <1>3, <1>4, <4>2, <4>4, <4>5
        <4> QED BY <1>1, <1>2, <1>3, <1>4, <3>1, <4>3, <4>4, <4>6 DEF SocketOK
      <3>2. CASE /\ dump' = [on |-> TRUE, seq |-> seqNext, fam |-> Families[grp],
                             todo |-> {k \in Keys : /\ FamilyOf[k] = Families[grp]
                                                    /\ table[k] # None},
                             dirty |-> FALSE]
                 /\ UNCHANGED rxq
        <4>1. Families[grp] \in FamilySet
          BY FamilyFacts DEF TV, TInv, CallOK
        <4>2. dump' \in Dumps /\ dump'.on /\ dump'.seq = seqNext
              /\ \A k \in dump'.todo : table[k] # None
          BY <1>3, <3>2, <4>1 DEF Dumps
        <4>3. seqNext < seqNext'
          BY <1>1, <1>3
        <4> QED BY <1>1, <1>2, <1>3, <1>4, <3>2, <4>2, <4>3 DEF SocketOK
      <3> QED BY <1>7, <3>1, <3>2 DEF RequestDump
    <2>2. CallOK'
      BY <1>1, <1>7 DEF RequestDump, TV, TInv, CallOK, cacheVars, histVars
    <2>3. CacheOK'
      BY <1>7 DEF RequestDump, TV, TInv, CacheOK, cacheVars
    <2>4. CallbacksMirrorCache'
      BY <1>1, <1>7 DEF RequestDump, TV, CallbacksMirrorCache, cacheVars, histVars
    <2> QED BY <2>1, <2>2, <2>3, <2>4 DEF TV, TInv
  <1> QED BY <1>6, <1>7

LEMMA KernelTypes ==
    ASSUME TV, Dump \/ \E k \in Keys, v \in Vals \cup {None} : Change(k, v)
    PROVE  TV'
  <1>1. /\ dump \in Dumps /\ rxq \in Seq(Msgs) /\ table \in Table /\ snap \in Table
        /\ changes \in 0..MaxChanges /\ MaxChanges \in Nat
        /\ dump.on => dump.seq < seqNext
        /\ ~dump.on => dump.todo = {}
        /\ \A k \in dump.todo : table[k] # None
        /\ \A i \in DOMAIN rxq : rxq[i].seq < seqNext
    BY SyncAssumption DEF TV, TInv, CallOK, SocketOK
  <1>2. UNCHANGED <<type, cache, op, pc, grp, interrupted, result, seqNext, seqExpect,
                    calls, restarted, tainted, merged, mirror>>
    BY DEF Dump, DumpDone, DumpObject, Change, cacheVars, callVars, sockVars, histVars
  <1>3. CacheOK' /\ CallbacksMirrorCache'
    BY <1>2 DEF TV, TInv, CacheOK, CallbacksMirrorCache
  <1>4. ASSUME NEW m \in Msgs, m.seq < seqNext, rxq' = Append(rxq, m)
        PROVE  rxq' \in Seq(Msgs) /\ \A i \in DOMAIN rxq' : rxq'[i].seq < seqNext
    <2>1. PICK q : q = rxq'
      OBVIOUS
    <2>2. /\ q \in Seq(Msgs) /\ DOMAIN q = 1..(Len(rxq) + 1) /\ Len(rxq) \in Nat
          /\ DOMAIN rxq = 1..Len(rxq)
          /\ q[Len(rxq) + 1] = m /\ \A i \in 1..Len(rxq) : q[i] = rxq[i]
      BY <1>1, <1>4, <2>1
    <2>3. \A i \in DOMAIN q : q[i].seq < seqNext
      BY <1>1, <1>4, <2>2
    <2> QED BY <2>1, <2>2, <2>3
  <1>5. ASSUME NEW k \in Keys, DumpObject(k) PROVE TV'
    <2>1. PICK m : m = [kind |-> "valid", seq |-> dump.seq, key |-> k,
                        val |-> table[k], intr |-> dump.dirty]
      OBVIOUS
    <2>2. /\ dump.on /\ k \in dump.todo /\ rxq' = Append(rxq, m)
          /\ dump' = [dump EXCEPT !.todo = @ \ {k}]
          /\ UNCHANGED <<table, changes, snap>>
      BY <1>5, <2>1 DEF DumpObject, histVars
    <2>3. m \in Msgs /\ m.seq < seqNext
      BY <1>1, <1>5, <2>1, <2>2 DEF Msgs, Dumps, Table
    <2>4. /\ dump' \in Dumps /\ dump'.on = dump.on /\ dump'.seq = dump.seq
          /\ dump'.todo = dump.todo \ {k}
      BY <1>1, <2>2 DEF Dumps
    <2>5. rxq' \in Seq(Msgs) /\ \A i \in DOMAIN rxq' : rxq'[i].seq < seqNext
      BY <1>4, <2>2, <2>3
    <2>6. SocketOK'
      BY <1>1, <1>2, <2>2, <2>4, <2>5 DEF TV, TInv, SocketOK
    <2>7. CallOK'
      BY <1>2, <2>2 DEF TV, TInv, CallOK
    <2> QED BY <1>3, <2>6, <2>7 DEF TV, TInv
  <1>6. CASE DumpDone
    <2>1. PICK m : m = [kind |-> "done", seq |-> dump.seq, intr |-> dump.dirty]
      OBVIOUS
    <2>2. /\ dump.on /\ rxq' = Append(rxq, m) /\ dump' = NoDump
          /\ snap' = [k \in Keys |-> IF FamilyOf[k] = dump.fam THEN table[k] ELSE snap[k]]
          /\ UNCHANGED <<table, changes>>
      BY <1>6, <2>1 DEF DumpDone
    <2>3. m \in Msgs /\ m.seq < seqNext
      BY <1>1, <2>1, <2>2 DEF Msgs, Dumps
    <2>4. dump' \in Dumps /\ ~dump'.on /\ dump'.todo = {}
      BY <2>2, FamilyFacts DEF Dumps, NoDump
    <2>5. rxq' \in Seq(Msgs) /\ \A i \in DOMAIN rxq' : rxq'[i].seq < seqNext
      BY <1>4, <2>2, <2>3
    <2>6. SocketOK'
      BY <1>1, <1>2, <2>2, <2>4, <2>5 DEF TV, TInv, SocketOK
    <2>7. snap' \in Table
      BY <1>1, <2>2 DEF Table
    <2>8. CallOK'
      BY <1>2, <2>2, <2>7 DEF TV, TInv, CallOK
    <2> QED BY <1>3, <2>6, <2>8 DEF TV, TInv
  <1>7. ASSUME NEW k \in Keys, NEW v \in Vals \cup {None}, Change(k, v) PROVE TV'
    <2>1. /\ changes < MaxChanges /\ changes' = changes + 1
          /\ table' = [table EXCEPT ![k] = v] /\ UNCHANGED <<rxq, snap>>
          /\ dump' = [dump EXCEPT !.dirty = dump.dirty \/ (dump.on /\ FamilyOf[k] = dump.fam),
                                  !.todo = IF v = None THEN dump.todo \ {k} ELSE dump.todo]
      BY <1>7 DEF Change
    <2>2. changes' \in 0..MaxChanges
      BY <1>1, <2>1
    <2>3. table' \in Table
      BY <1>1, <2>1 DEF Table
    <2>4. /\ dump' \in Dumps /\ dump'.on = dump.on /\ dump'.seq = dump.seq
          /\ dump'.todo = IF v = None THEN dump.todo \ {k} ELSE dump.todo
      BY <1>1, <2>1 DEF Dumps
    <2>5. \A x \in dump'.todo : table'[x] # None
      BY <1>1, <2>1, <2>4 DEF Table, Dumps
    <2>6. SocketOK'
      BY <1>1, <1>2, <2>1, <2>3, <2>4, <2>5 DEF TV, TInv, SocketOK
    <2>7. CallOK'
      BY <1>2, <2>1, <2>2 DEF TV, TInv, CallOK
    <2> QED BY <1>3, <2>6, <2>7 DEF TV, TInv
  <1> QED BY <1>5, <1>6, <1>7 DEF Dump

LEMMA StepTypes ==
    ASSUME TV, [Next]_vars
    PROVE  TV'
  <1>1. CASE UNCHANGED vars
    <2>1. UNCHANGED <<type, cache, op, pc, grp, interrupted, result, seqNext, seqExpect,
                      table, dump, rxq, changes, calls, restarted, tainted, merged,
                      snap, mirror>>
      BY <1>1 DEF vars, cacheVars, callVars, sockVars, kernelVars, histVars
    <2> QED BY <2>1 DEF TV, TInv, CallOK, SocketOK, CacheOK, CallbacksMirrorCache
  <1>2. CASE Next
    BY <1>2, BeginTypes, PickupObjectTypes, PickupDoneTypes, OtherPickupTypes,
       RequestTypes, KernelTypes DEF Next, Library
  <1> QED BY <1>1, <1>2

\* Of a type that merges, only cache_include() touches an object in a resync.
LEMMA MergeStep ==
    ASSUME TInv, MergeOK, [Next]_vars
    PROVE  MergeOK'
  <1>1. CASE nl_cache_refill
    BY <1>1 DEF nl_cache_refill, Begin, MergeOK, Merging
  <1>2. CASE nl_cache_resync
    <2> SUFFICES ASSUME type.update, NEW k \in Keys
                 PROVE  IF k \in merged' THEN Marked(cache'[k]) ELSE Fresh(cache'[k])
      BY <1>2 DEF nl_cache_resync, Begin, MergeOK, Merging
    <2>1. cache \in Contents /\ cache[k] \in Seq(Objects)
      BY DEF TInv, CallOK, Contents, Objects
    <2>2. PICK s : s = cache[k]
      OBVIOUS
    <2>3. PICK d : d = cache'[k]
      OBVIOUS
    <2>4. /\ Kept(d) = {} /\ Len(d) = Len(s) /\ d \in Seq(Objects) /\ s \in Seq(Objects)
          /\ k \in merged' <=> s # <<>>
      <3>1. /\ cache' \in Contents
            /\ \A x \in Keys : Kept(cache'[x]) = {} /\ Len(cache'[x]) = Len(cache[x])
        BY <1>2, <2>1, MarkAll DEF nl_cache_resync
      <3>2. cache'[k] \in Seq(Objects)
        BY <3>1 DEF Contents, Objects
      <3> QED BY <1>2, <2>1, <2>2, <2>3, <3>1, <3>2 DEF nl_cache_resync
    <2>5. s = <<>> <=> d = <<>>
      BY <2>4
    <2>6. d = <<>> => Len(d) <= 1 /\ DOMAIN d = {}
      OBVIOUS
    <2> QED BY <2>3, <2>4, <2>5, <2>6 DEF Marked, Fresh
  <1>3. ASSUME pc' = "idle" PROVE MergeOK'
    BY <1>3 DEF MergeOK, Merging
  <1>4. ASSUME UNCHANGED <<type, op, cache, merged>>, pc # "idle" \/ pc' = pc
        PROVE  MergeOK'
    BY <1>4 DEF MergeOK, Merging
  <1>5. CASE PickupObject
    <2> SUFFICES ASSUME Merging', NEW x \in Keys
                 PROVE  IF x \in merged THEN Marked(cache'[x]) ELSE Fresh(cache'[x])
      BY <1>5 DEF MergeOK, PickupObject
    <2>1. /\ op = "resync" /\ type.update /\ pc = "pickup" /\ Receive("valid")
          /\ seqExpect' = seqExpect
      BY <1>5 DEF Merging, PickupObject, Receive
    <2>2. PICK k : k = Head(rxq).key
      OBVIOUS
    <2>3. PICK v : v = Head(rxq).val
      OBVIOUS
    <2>4. k \in Keys /\ v \in Vals
      <3>1. Head(rxq) \in Msgs /\ Head(rxq).kind = "valid"
        BY <2>1, ReceiveTypes
      <3> QED BY <2>2, <2>3, <3>1 DEF Msgs
    <2>5. PICK inc : inc = cache_include(type, cache, k, v, "NEW")
      OBVIOUS
    <2>6. cache' = inc.cache
      BY <1>5, <2>1, <2>2, <2>3, <2>5 DEF PickupObject
    <2>7. /\ type \in CacheTypes /\ cache \in Contents
          /\ type.hashed => Len(cache[k]) <= 1
      BY <2>4, SyncAssumption DEF TInv, CallOK, CacheOK
    <2>8. /\ \A y \in Keys : y # k => cache'[y] = cache[y]
          /\ Marked(cache[k]) => Marked(cache'[k])
          /\ Fresh(cache[k]) => Fresh(cache'[k])
      BY <2>1, <2>4, <2>5, <2>6, <2>7, CacheInclude
    <2>9. IF x \in merged THEN Marked(cache[x]) ELSE Fresh(cache[x])
      BY <2>1 DEF MergeOK, Merging
    <2>10. CASE x = k
      BY <2>8, <2>9, <2>10
    <2>11. CASE x # k
      BY <2>8, <2>9, <2>11
    <2> QED BY <2>10, <2>11
  <1>6. CASE PickupDone
    <2>1. pc = "pickup"
      BY <1>6 DEF PickupDone, Receive
    <2>2. pc' = "idle" \/ UNCHANGED <<type, op, cache, merged>>
      BY <1>6 DEF PickupDone, Restart, Finish
    <2> QED BY <1>3, <1>4, <2>1, <2>2
  <1>7. CASE PickupMismatch \/ PickupFails \/ PickupError \/ RequestFails
    <2>1. pc # "idle"
      BY <1>7 DEF PickupMismatch, PickupFails, PickupError, RequestFails, Receive
    <2>2. UNCHANGED <<type, op, cache, merged>>
      BY <1>7 DEF PickupMismatch, PickupFails, PickupError, RequestFails, Fail, Restart
    <2> QED BY <1>4, <2>1, <2>2
  <1>8. CASE RequestDump
    BY <1>4, <1>8 DEF RequestDump, cacheVars, histVars
  <1>9. CASE Dump \/ \E k \in Keys, v \in Vals \cup {None} : Change(k, v)
    <2>1. UNCHANGED <<type, op, cache, merged, pc>>
      BY <1>9 DEF Dump, DumpDone, DumpObject, Change, cacheVars, callVars, histVars
    <2> QED BY <1>4, <2>1
  <1>10. CASE UNCHANGED vars
    BY <1>4, <1>10 DEF vars, cacheVars, callVars, histVars
  <1> QED BY <1>1, <1>2, <1>5, <1>6, <1>7, <1>8, <1>9, <1>10 DEF Next, Library

-----------------------------------------------------------------------------
(* The answers to the dumps of a call and what they leave in the cache.    *)

LEMMA Tainted ==
    ASSUME tainted' = TRUE
    PROVE  PInv'
  BY DEF PInv, SyncExact, NothingMissing, ResyncFresh, Synced

LEMMA Busy ==
    ASSUME pc' # "idle", ~tainted' => InStep',
           ~tainted' => Progress'
    PROVE  PInv'
  BY DEF PInv, SyncExact, NothingMissing, ResyncFresh, Synced

LEMMA OneFamily ==
    ASSUME TInv, NEW k \in Keys
    PROVE  /\ Before(k) => ~Now(k)
           /\ After(k) => ~Now(k)
           /\ Before(k) \/ Now(k) \/ After(k)
  <1>1. grp \in DOMAIN Families /\ DOMAIN Families \subseteq Nat
    BY FamilyFacts DEF TInv, CallOK
  <1>2. PICK i \in DOMAIN Families : Families[i] = FamilyOf[k]
    BY FamilyFacts
  <1>3. \A j \in DOMAIN Families : Families[j] = FamilyOf[k] => j = i
    BY <1>2, FamilyFacts
  <1>4. i < grp \/ i = grp \/ i > grp
    BY <1>1, <1>2
  <1>5. i # grp => ~Now(k)
    BY <1>1, <1>3 DEF Now
  <1>6. Before(k) => i < grp
    BY <1>3 DEF Before
  <1>7. After(k) => i > grp
    BY <1>3 DEF After
  <1>8. i < grp => i # grp
    BY <1>1
  <1>9. i > grp => i # grp
    BY <1>1
  <1> QED BY <1>2, <1>4, <1>5, <1>6, <1>7, <1>8, <1>9 DEF Before, After, Now

\* What has come stays, whatever is restarted.
LEMMA SameSettled ==
    ASSUME NEW k, NEW v, cache'[k] = cache[k], UNCHANGED <<op, type>>,
           restarted' = restarted \/ restarted' = TRUE
    PROVE  /\ Settled(k, v) => Settled(k, v)'
           /\ Missing(k) => Missing(k)'
  BY DEF Settled, Got, Missing

LEMMA BeginProgress ==
    ASSUME IInv, nl_cache_refill \/ nl_cache_resync
    PROVE  PInv'
  <1>1. /\ pc = "idle" /\ pc' = "request" /\ grp' = 1 /\ restarted' = FALSE
        /\ UNCHANGED <<interrupted, seqNext, seqExpect, dump, rxq, tainted>>
    BY DEF nl_cache_refill, nl_cache_resync, Begin, sockVars, kernelVars
  <1>2. ~tainted' => InStep'
    BY <1>1 DEF IInv, PInv, InStep, Quiet
  <1>3. \A k \in Keys : Kept(cache'[k]) = {}
    BY NothingKept, MarkAll DEF nl_cache_refill, nl_cache_resync, IInv, TInv, CallOK
  <1>4. Progress'
    <2> SUFFICES ASSUME NEW k \in Keys PROVE DoneOK(k)' /\ AheadOK(k)' /\ CurrentOK(k)'
      BY DEF Progress
    <2>1. ~Before(k)'
      BY <1>1, FamilyFacts DEF Before
    <2>2. Missing(k)'
      BY <1>3 DEF Missing
    <2> QED BY <1>1, <2>1, <2>2 DEF DoneOK, AheadOK, CurrentOK
  <1> QED BY <1>1, <1>2, <1>4, Busy

LEMMA RequestProgress ==
    ASSUME IInv, RequestDump
    PROVE  PInv'
  <1>1. /\ pc = "request" /\ pc' = "pickup" /\ seqNext' = seqNext + 1
        /\ UNCHANGED <<type, cache, op, grp, interrupted, result, seqExpect, table,
                       changes, calls, restarted, tainted, merged, snap, mirror>>
    BY DEF RequestDump, cacheVars, histVars
  <1> SUFFICES ASSUME ~tainted
               PROVE  InStep' /\ Progress'
    BY <1>1, Busy
  <1>2. Quiet
    BY <1>1 DEF IInv, PInv, InStep
  <1>3. ASSUME NEW k \in Keys \ merged
        PROVE  DoneOK(k)' /\ AheadOK(k)' /\ (Now(k)' => Now(k) /\ Missing(k)')
    <2>1. DoneOK(k) /\ AheadOK(k)
      BY <1>1, <1>3 DEF IInv, PInv, Progress
    <2>2. (Before(k)' <=> Before(k)) /\ (After(k)' <=> After(k)) /\ (Now(k)' <=> Now(k))
      BY <1>1 DEF Before, After, Now
    <2>3. PICK v : v = snap[k]
      OBVIOUS
    <2>4. /\ Settled(k, v) => Settled(k, v)'
          /\ Missing(k) => Missing(k)'
      BY <1>1, SameSettled
    <2>5. DoneOK(k)'
      BY <1>1, <2>1, <2>2, <2>3, <2>4 DEF DoneOK
    <2> QED BY <1>1, <2>1, <2>2, <2>4, <2>5 DEF AheadOK
  <1>4. CASE rxq' = Append(rxq, [kind |-> "error", seq |-> seqNext]) /\ UNCHANGED dump
    <2>1. PICK e : e = [kind |-> "error", seq |-> seqNext]
      OBVIOUS
    <2>2. e.kind = "error" /\ e.seq = seqNext
      BY <2>1
    <2>3. rxq' = <<e>>
      BY <1>2, <1>4, <2>1 DEF Quiet
    <2>4. Len(rxq') = 1 /\ rxq'[1] = e /\ DOMAIN rxq' = {1} /\ rxq' # <<>>
      BY <2>3
    <2>5. Refused'
      BY <1>1, <1>2, <1>4, <2>2, <2>4 DEF Refused, Quiet
    <2>6. InStep'
      BY <1>1, <1>2, <2>2, <2>4, <2>5 DEF InStep, Quiet
    <2>7. ~Intact'
      BY <1>2, <1>4, <2>2, <2>4 DEF Intact, Quiet
    <2>8. Progress'
      BY <1>1, <1>3, <2>7 DEF Progress, CurrentOK
    <2> QED BY <2>6, <2>8
  <1>5. CASE /\ dump' = [on |-> TRUE, seq |-> seqNext, fam |-> Families[grp],
                         todo |-> {k \in Keys : /\ FamilyOf[k] = Families[grp]
                                                /\ table[k] # None},
                         dirty |-> FALSE]
             /\ UNCHANGED rxq
    <2>1. /\ dump'.on = TRUE /\ dump'.seq = seqExpect /\ dump'.fam = Families[grp]
          /\ dump'.dirty = FALSE /\ rxq' = <<>> /\ DOMAIN rxq' = {}
          /\ dump'.todo = {k \in Keys : FamilyOf[k] = Families[grp] /\ table[k] # None}
      BY <1>2, <1>5 DEF Quiet
    <2>2. Answer'
      BY <1>1, <1>2, <2>1 DEF Answer, Intact, Quiet
    <2>3. InStep'
      BY <1>1, <1>2, <2>1, <2>2 DEF InStep, Quiet
    <2>4. ASSUME NEW k \in Keys \ merged PROVE CurrentOK(k)'
      <3> SUFFICES ASSUME Now(k)' PROVE
                   /\ Outstanding(k)' => Missing(k)'
                   /\ ~Outstanding(k)' => Settled(k, Told[k])'
                   /\ \A i \in DOMAIN rxq' : QueuedAt(k, i)' => rxq'[i].val = Told'[k]
        BY DEF CurrentOK
      <3>1. Now(k) /\ Missing(k)'
        BY <1>3, <2>4
      <3>2. ~Outstanding(k)' => Told'[k] = None
        BY <1>1, <2>1, <3>1 DEF Outstanding, Told, Now
      <3>3. Told'[k] = None => Settled(k, Told[k])'
        BY <3>1 DEF Settled
      <3> QED BY <2>1, <3>1, <3>2, <3>3
    <2>5. Progress'
      BY <1>1, <1>3, <2>4 DEF Progress
    <2> QED BY <2>3, <2>5
  <1> QED BY <1>4, <1>5 DEF RequestDump

\* Unless a call has failed, what is received is of the answer.
LEMMA ReceiveInStep ==
    ASSUME IInv, ~tainted, NEW kind, Receive(kind)
    PROVE  /\ Head(rxq).seq = seqExpect /\ seqNext = seqExpect + 1 /\ pc = "pickup"
           /\ kind = "error" => Refused
           /\ kind # "error" => Answer
  <1>1. pc = "pickup" /\ rxq # <<>> /\ Head(rxq).kind = kind /\ rxq \in Seq(Msgs)
    BY DEF Receive, IInv, TInv, SocketOK
  <1>2. 1 \in DOMAIN rxq /\ Head(rxq) = rxq[1]
    BY <1>1
  <1>3. InStep
    BY DEF IInv, PInv
  <1>4. /\ seqNext = seqExpect + 1
        /\ Refused \/ Answer
        /\ \A i \in DOMAIN rxq : rxq[i].seq = seqExpect
    BY <1>1, <1>3 DEF InStep
  <1>5. Refused => kind = "error"
    BY <1>1, <1>2 DEF Refused
  <1>6. Answer => kind # "error"
    BY <1>1, <1>2 DEF Answer
  <1> QED BY <1>1, <1>2, <1>4, <1>5, <1>6

LEMMA OtherPickupProgress ==
    ASSUME IInv, PickupMismatch \/ PickupFails \/ PickupError \/ RequestFails
    PROVE  PInv'
  <1>1. tainted \in BOOLEAN
    BY DEF IInv, TInv, CallOK
  <1>2. tainted => tainted' = TRUE
    BY <1>1 DEF PickupMismatch, PickupFails, PickupError, RequestFails, Fail, Restart
  <1>3. ~tainted => tainted' = TRUE
    <2> SUFFICES ASSUME ~tainted PROVE tainted' = TRUE
      OBVIOUS
    <2>1. ~PickupMismatch
      BY ReceiveInStep DEF PickupMismatch
    <2>2. CASE PickupError
      <3>1. Refused
        BY <2>2, ReceiveInStep DEF PickupError
      <3> QED BY <2>2, <3>1 DEF PickupError, Refused, Fail
    <2>3. CASE PickupFails \/ RequestFails
      BY <2>3 DEF PickupFails, RequestFails, Fail
    <2> QED BY <2>1, <2>2, <2>3
  <1> QED BY <1>1, <1>2, <1>3, Tainted

\* An object is taken from the answer.
LEMMA AnswerTail ==
    ASSUME IInv, ~tainted, Receive("valid"), UNCHANGED <<grp, seqExpect>>,
           interrupted' = (interrupted \/ Head(rxq).intr),
           NEW k, k = Head(rxq).key
    PROVE  /\ Answer' /\ (Intact' <=> Intact)
           /\ \A i \in DOMAIN rxq' : rxq'[i].seq = seqExpect
           /\ UNCHANGED dump
           /\ QueuedAt(k, 1) /\ 1 \in DOMAIN rxq
           /\ ~Outstanding(k)'
           /\ FamilyOf[k] = Families[grp]
           /\ \A x \in Keys : x # k => (Outstanding(x)' <=> Outstanding(x))
           /\ \A i \in DOMAIN rxq' : i + 1 \in DOMAIN rxq /\ rxq'[i] = rxq[i + 1]
  <1>1. /\ Head(rxq) = rxq[1] /\ Head(rxq).kind = "valid"
        /\ rxq' = Tail(rxq) /\ Len(rxq) \in Nat /\ Len(rxq) > 0
        /\ DOMAIN rxq = 1..Len(rxq) /\ DOMAIN rxq' = 1..(Len(rxq) - 1)
        /\ \A i \in DOMAIN rxq' : i + 1 \in DOMAIN rxq /\ rxq'[i] = rxq[i + 1]
    BY ReceiveTypes DEF IInv
  <1>2. Answer /\ UNCHANGED dump /\ InStep /\ pc = "pickup"
    BY ReceiveInStep DEF Receive, IInv, PInv
  <1>3. PICK L \in Nat : L = Len(rxq)
    BY <1>1
  <1>4. PICK q : q = rxq'
    OBVIOUS
  <1>5. /\ DOMAIN rxq = 1..L /\ DOMAIN q = 1..(L - 1) /\ L > 0
        /\ \A i \in DOMAIN q : i + 1 \in DOMAIN rxq /\ q[i] = rxq[i + 1]
        /\ 1 \in DOMAIN rxq /\ rxq[1].kind = "valid"
    BY <1>1, <1>3, <1>4
  <1>6. Len(q) = L - 1 /\ (q = <<>> <=> L = 1)
    <2>1. rxq \in Seq(Msgs) /\ rxq # <<>> /\ q = Tail(rxq)
      BY <1>1, <1>4 DEF IInv, TInv, SocketOK, Receive
    <2>2. Len(q) = L - 1
      BY <1>3, <2>1
    <2>3. q \in Seq(Msgs)
      BY <2>1
    <2>4. q = <<>> <=> Len(q) = 0
      BY <2>3
    <2> QED BY <2>2, <2>4
  <1>7. ~dump.on => L # 1
    BY <1>2, <1>3, <1>5 DEF Answer
  <1>8. Intact' <=> Intact
    <2>1. CASE dump.on
      BY <1>2, <2>1 DEF Intact
    <2>2. CASE ~dump.on
      <3>1. L - 1 \in DOMAIN q /\ q # <<>> /\ rxq # <<>> /\ (L - 1) + 1 = L
        BY <1>1, <1>5, <1>6, <1>7, <2>2
      <3>2. q[L - 1] = rxq[L]
        BY <1>5, <3>1
      <3> QED BY <1>2, <1>3, <1>4, <1>6, <2>2, <3>1, <3>2 DEF Intact
    <2> QED BY <2>1, <2>2
  <1>9. ASSUME NEW i \in DOMAIN q
        PROVE  /\ q[i].seq = seqExpect /\ q[i].kind # "error"
               /\ q[i].kind = "done" <=> ~dump.on /\ i = Len(q)
               /\ interrupted \/ q[i].intr => ~Intact
               /\ q[i].kind = "valid" => /\ FamilyOf[q[i].key] = Families[grp]
                                         /\ q[i].key \notin dump.todo
    <2>1. i + 1 \in DOMAIN rxq /\ q[i] = rxq[i + 1]
      BY <1>5
    <2>2. i = Len(q) <=> i + 1 = L
      BY <1>5, <1>6, <1>9
    <2> QED BY <1>2, <1>3, <2>1, <2>2 DEF Answer, InStep
  <1>10. Head(rxq).intr => ~Intact
    BY <1>1, <1>2, <1>5 DEF Answer
  <1>11. ASSUME NEW i \in DOMAIN q, NEW j \in DOMAIN q,
                q[i].kind = "valid", q[j].kind = "valid", q[i].key = q[j].key
         PROVE  i = j
    <2>1. /\ i + 1 \in DOMAIN rxq /\ q[i] = rxq[i + 1]
          /\ j + 1 \in DOMAIN rxq /\ q[j] = rxq[j + 1]
      BY <1>5
    <2>2. i + 1 = j + 1
      BY <1>2, <1>11, <2>1 DEF Answer
    <2> QED BY <1>5, <2>2
  <1>12. q = <<>> => dump.on
    BY <1>6, <1>7
  <1>13. Answer'
    BY <1>2, <1>4, <1>8, <1>9, <1>10, <1>11, <1>12 DEF Answer
  <1>14. QueuedAt(k, 1) /\ FamilyOf[k] = Families[grp]
         /\ k \notin dump.todo
    BY <1>1, <1>2, <1>5 DEF QueuedAt, Answer
  <1>15. ~Outstanding(k)'
    <2> SUFFICES ASSUME NEW i \in DOMAIN q, q[i].kind = "valid", q[i].key = k
                 PROVE  FALSE
      BY <1>2, <1>4, <1>14 DEF Outstanding, QueuedAt
    <2>1. i + 1 \in DOMAIN rxq /\ q[i] = rxq[i + 1]
      BY <1>5
    <2>2. i + 1 = 1
      BY <1>1, <1>2, <1>5, <2>1 DEF Answer
    <2> QED BY <1>5, <2>2
  <1>16. ASSUME NEW x \in Keys, x # k
         PROVE  Outstanding(x)' <=> Outstanding(x)
    <2>1. ASSUME NEW i \in DOMAIN rxq, QueuedAt(x, i) PROVE Outstanding(x)'
      <3>1. i # 1
        BY <1>1, <1>16, <2>1 DEF QueuedAt
      <3>2. i - 1 \in DOMAIN q /\ (i - 1) + 1 = i
        BY <1>5, <3>1
      <3>3. q[i - 1] = rxq[i]
        BY <1>5, <3>2
      <3> QED BY <1>4, <2>1, <3>2, <3>3 DEF Outstanding, QueuedAt
    <2>2. ASSUME NEW i \in DOMAIN q, q[i].kind = "valid", q[i].key = x
          PROVE  Outstanding(x)
      BY <1>5, <2>2 DEF Outstanding, QueuedAt
    <2>3. x \in dump.todo => Outstanding(x) /\ Outstanding(x)'
      BY <1>2 DEF Outstanding
    <2>4. Outstanding(x) => Outstanding(x)'
      BY <2>1, <2>3 DEF Outstanding
    <2>5. Outstanding(x)' => Outstanding(x)
      BY <1>2, <1>4, <2>2, <2>3 DEF Outstanding, QueuedAt
    <2> QED BY <2>4, <2>5
  <1> QED BY <1>1, <1>2, <1>4, <1>5, <1>8, <1>9, <1>13, <1>14, <1>15, <1>16

\* The object that was missing is then in the cache, and no other is touched.
LEMMA GotObject ==
    ASSUME IInv, PickupObject,
           NEW k, k = Head(rxq).key, NEW v, v = Head(rxq).val
    PROVE  /\ k \in Keys /\ v \in Vals
           /\ \A x \in Keys : x # k => cache'[x] = cache[x]
           /\ Missing(k) /\ k \notin merged => Got(k, v)'
  <1>1. /\ Receive("valid") /\ op \in {"none", "refill", "resync"} /\ pc = "pickup"
        /\ UNCHANGED <<type, op, restarted>> /\ op # "none"
    BY DEF PickupObject, Receive, IInv, TInv, CallOK
  <1>2. k \in Keys /\ v \in Vals
    <2>1. rxq \in Seq(Msgs) /\ rxq # <<>> /\ Head(rxq).kind = "valid"
      BY <1>1 DEF Receive, IInv, TInv, SocketOK
    <2>2. Head(rxq) \in Msgs
      BY <2>1
    <2> QED BY <2>1, <2>2 DEF Msgs
  <1>3. /\ type \in CacheTypes /\ cache \in Contents
        /\ type.hashed => Len(cache[k]) <= 1
    BY <1>2, SyncAssumption DEF IInv, TInv, CallOK, CacheOK
  <1>4. PICK s : s = cache[k]
    OBVIOUS
  <1>5. PICK d : d = cache'[k]
    OBVIOUS
  <1>6. s \in Seq(Objects)
    BY <1>2, <1>3, <1>4 DEF Contents, Objects
  <1>7. CASE op = "refill"
    <2>1. cache' = __cache_add(type, cache, k, v)
      BY <1>7 DEF PickupObject
    <2>2. /\ \A x \in Keys : x # k => cache'[x] = cache[x]
          /\ s = <<>> => d = Append(s, Object(v))
          /\ ~type.hashed => d = Append(s, Object(v))
          /\ s # <<>> /\ type.hashed => d = s
      BY <1>2, <1>3, <1>4, <1>5, <2>1, CacheAdd
    <2>3. Kept(s) = DOMAIN s
      BY <1>2, <1>4, <1>7 DEF IInv, TInv, CacheOK
    <2>4. s # <<>> => Kept(s) # {}
      <3>1. s # <<>> => 1 \in DOMAIN s
        BY <1>6
      <3> QED BY <2>3, <3>1
    <2>5. Kept(s) = {} => s = <<>>
      BY <2>4
    <2>6. ASSUME d = Append(s, Object(v))
          PROVE  Kept(d) # {} /\ (Kept(s) = {} => Only(d, v))
      <3>1. Kept(d) = Kept(s) \cup {Len(s) + 1} /\ (Kept(s) = {} => Only(d, v))
        BY <1>2, <1>6, <2>6, KeptOfAppend
      <3> QED BY <3>1
    <2>7. Kept(d) # {}
      BY <2>2, <2>4, <2>6
    <2>8. Kept(s) = {} => Only(d, v)
      BY <2>2, <2>5, <2>6
    <2>9. Missing(k) => Got(k, v)'
      BY <1>1, <1>4, <1>5, <1>7, <2>7, <2>8 DEF Missing, Got
    <2> QED BY <1>2, <2>2, <2>9
  <1>8. CASE op = "resync"
    <2>1. PICK inc : inc = cache_include(type, cache, k, v, "NEW")
      OBVIOUS
    <2>2. cache' = inc.cache
      BY <1>8, <2>1 DEF PickupObject
    <2>3. /\ \A x \in Keys : x # k => cache'[x] = cache[x]
          /\ ~type.update => /\ Kept(d) # {}
                             /\ type.hashed \/ Kept(s) = {} => Only(d, v)
          /\ type.update /\ Fresh(s) => Only(d, v)
      BY <1>2, <1>3, <1>4, <1>5, <2>1, <2>2, CacheInclude
    <2>4. ASSUME k \notin merged
          PROVE  Kept(d) # {} /\ (type.hashed \/ Kept(s) = {} => Only(d, v))
      <3>1. type.update => Fresh(s)
        BY <1>1, <1>2, <1>4, <1>8, <2>4 DEF IInv, MergeOK, Merging
      <3>2. Only(d, v) => Kept(d) # {}
        BY DEF Only
      <3> QED BY <2>3, <3>1, <3>2
    <2>5. Missing(k) /\ k \notin merged => Got(k, v)'
      BY <1>1, <1>4, <1>5, <2>4 DEF Missing, Got
    <2> QED BY <1>2, <2>3, <2>5
  <1> QED BY <1>1, <1>7, <1>8

LEMMA PickupObjectProgress ==
    ASSUME IInv, PickupObject
    PROVE  PInv'
  <1>1. /\ Receive("valid") /\ pc = "pickup" /\ interrupted' = (interrupted \/ Head(rxq).intr)
        /\ UNCHANGED <<type, op, pc, grp, seqNext, seqExpect, restarted, tainted, merged,
                       snap, table, dump>>
    BY DEF PickupObject, Receive
  <1> SUFFICES ASSUME ~tainted
               PROVE  InStep' /\ Progress'
    BY <1>1, Busy
  <1>2. PICK k : k = Head(rxq).key
    OBVIOUS
  <1>3. PICK v : v = Head(rxq).val
    OBVIOUS
  <1>4. /\ Answer' /\ (Intact' <=> Intact)
        /\ \A i \in DOMAIN rxq' : rxq'[i].seq = seqExpect
        /\ QueuedAt(k, 1) /\ 1 \in DOMAIN rxq
        /\ ~Outstanding(k)'
        /\ FamilyOf[k] = Families[grp]
        /\ \A x \in Keys : x # k => (Outstanding(x)' <=> Outstanding(x))
        /\ \A i \in DOMAIN rxq' : i + 1 \in DOMAIN rxq /\ rxq'[i] = rxq[i + 1]
    BY <1>1, <1>2, AnswerTail
  <1>5. InStep'
    BY <1>1, <1>4, ReceiveInStep DEF InStep
  <1>6. ASSUME NEW x \in Keys \ merged
        PROVE  DoneOK(x)' /\ AheadOK(x)' /\ CurrentOK(x)'
    <2>1. DoneOK(x) /\ AheadOK(x) /\ CurrentOK(x)
      BY <1>1, <1>6 DEF IInv, PInv, Progress
    <2>2. /\ k \in Keys /\ v \in Vals
          /\ \A y \in Keys : y # k => cache'[y] = cache[y]
          /\ Missing(k) /\ k \notin merged => Got(k, v)'
      BY <1>2, <1>3, GotObject
    <2>3. (Before(x)' <=> Before(x)) /\ (After(x)' <=> After(x)) /\ (Now(x)' <=> Now(x))
      BY <1>1 DEF Before, After, Now
    <2>4. Told' = Told
      BY <1>1 DEF Told
    <2>5. PICK w : w = Told[x]
      OBVIOUS
    <2>6. PICK u : u = snap[x]
      OBVIOUS
    <2>7. CASE x = k
      <3>1. Now(x) /\ ~Before(x) /\ ~After(x)
        BY <1>4, <2>7, OneFamily DEF Now, IInv
      <3>2. ASSUME Intact PROVE Missing(x) /\ v = w
        <4>1. Outstanding(x)
          BY <1>4, <2>7 DEF Outstanding
        <4>2. rxq[1].val = w
          BY <1>1, <1>4, <2>1, <2>5, <2>7, <3>1, <3>2 DEF CurrentOK
        <4>3. Head(rxq) = rxq[1]
          BY <1>1 DEF Receive, IInv, TInv, SocketOK
        <4> QED BY <1>1, <1>3, <2>1, <3>1, <3>2, <4>1, <4>2, <4>3 DEF CurrentOK
      <3>3. Intact => Settled(x, w)'
        BY <1>6, <2>2, <2>7, <3>2, CacheAssumption DEF Settled
      <3>4. \A i \in DOMAIN rxq' : ~QueuedAt(x, i)'
        BY <1>4, <2>7 DEF Outstanding
      <3> QED BY <1>1, <1>4, <2>3, <2>4, <2>5, <2>7, <3>1, <3>3, <3>4
              DEF DoneOK, AheadOK, CurrentOK
    <2>8. CASE x # k
      <3>1. cache'[x] = cache[x]
        BY <2>2, <2>8
      <3>2. /\ Settled(x, w) => Settled(x, w)'
            /\ Settled(x, u) => Settled(x, u)'
            /\ Missing(x) => Missing(x)'
        BY <1>1, <3>1, SameSettled
      <3>3. Outstanding(x)' <=> Outstanding(x)
        BY <1>4, <2>8
      <3>4. \A i \in DOMAIN rxq' : QueuedAt(x, i)' => QueuedAt(x, i + 1)
        BY <1>4 DEF QueuedAt
      <3>5. CurrentOK(x)'
        BY <1>1, <1>4, <2>1, <2>3, <2>4, <2>5, <3>2, <3>3, <3>4 DEF CurrentOK
      <3> QED BY <1>1, <2>1, <2>3, <2>6, <3>2, <3>5 DEF DoneOK, AheadOK
    <2> QED BY <2>7, <2>8
  <1> QED BY <1>1, <1>5, <1>6 DEF Progress

\* DONE is the last message of its answer.
LEMMA DoneIsLast ==
    ASSUME IInv, ~tainted, Receive("done")
    PROVE  /\ rxq' = <<>> /\ ~dump.on /\ dump' = dump /\ seqNext' = seqNext
           /\ seqNext = seqExpect + 1
           /\ \A k \in Keys : ~Outstanding(k)
           /\ interrupted \/ Head(rxq).intr \/ Intact
  <1>1. /\ Answer /\ seqNext = seqExpect + 1 /\ dump.on \in BOOLEAN
        /\ rxq \in Seq(Msgs) /\ rxq # <<>> /\ Head(rxq).kind = "done"
        /\ rxq' = Tail(rxq) /\ UNCHANGED <<seqNext, dump>>
    BY ReceiveInStep DEF Receive, IInv, TInv, SocketOK, Dumps
  <1>2. 1 \in DOMAIN rxq /\ Head(rxq) = rxq[1]
    BY <1>1
  <1>3. ~dump.on /\ 1 = Len(rxq)
    BY <1>1, <1>2 DEF Answer
  <1>4. rxq' = <<>> /\ DOMAIN rxq = {1}
    BY <1>1, <1>3
  <1>5. dump.todo = {}
    BY <1>3 DEF IInv, TInv, SocketOK
  <1>6. \A k \in Keys : ~Outstanding(k)
    BY <1>1, <1>2, <1>4, <1>5 DEF Outstanding, QueuedAt
  <1>7. Head(rxq).intr \/ Intact
    BY <1>1, <1>2, <1>3 DEF Intact
  <1> QED BY <1>1, <1>3, <1>4, <1>6, <1>7

\* What the end of a call makes of a key that is settled.
LEMMA FinishKey ==
    ASSUME IInv, pc = "pickup", Finish, NEW k \in Keys, NEW v, Settled(k, v)
    PROVE  /\ v = None /\ ~restarted => cache'[k] = <<>>
           /\ v # None => cache'[k] # <<>>
           /\ v # None /\ ~restarted => cache'[k] = <<Object(v)>>
           /\ v # None /\ op = "resync" /\ type.hashed => cache'[k] = <<Object(v)>>
  <1>1. PICK s : s = cache[k]
    OBVIOUS
  <1>2. PICK d : d = cache'[k]
    OBVIOUS
  <1>3. /\ cache \in Contents /\ s \in Seq(Objects)
        /\ op \in {"refill", "resync"}
    BY <1>1 DEF IInv, TInv, CallOK, Contents, Objects
  <1>4. /\ Kept(s) = {} => d = <<>>
        /\ Kept(s) # {} => d # <<>>
        /\ Only(s, v) => d = <<Object(v)>>
    <2>1. CASE op = "resync"
      <3>1. d = Unmarked(s)
        BY <1>1, <1>2, <1>3, <2>1, SweepType DEF Finish
      <3>2. ASSUME NEW i \in DOMAIN s, Kept(s) = {i}, s[i] = Object(v)
            PROVE  d = <<Object(v)>>
        BY <1>3, <3>1, <3>2, UnmarkedOne
      <3> QED BY <1>3, <3>1, <3>2, UnmarkedNone, UnmarkedSome DEF Only
    <2>2. CASE op = "refill"
      <3>1. d = s /\ Kept(s) = DOMAIN s
        BY <1>1, <1>2, <2>2 DEF Finish, IInv, TInv, CacheOK
      <3>2. s # <<>> => 1 \in DOMAIN s
        BY <1>3
      <3>3. s = <<>> => DOMAIN s = {}
        OBVIOUS
      <3>4. ASSUME NEW i \in DOMAIN s, DOMAIN s = {i}, s[i] = Object(v)
            PROVE  s = <<Object(v)>>
        <4>1. PICK o : o = Object(v)
          OBVIOUS
        <4>2. Len(s) \in Nat /\ DOMAIN s = 1..Len(s)
          BY <1>3
        <4>3. 1 \in DOMAIN s /\ Len(s) \in DOMAIN s
          BY <3>4, <4>2
        <4>4. Len(s) = 1 /\ s[1] = o
          BY <3>4, <4>1, <4>3
        <4>5. s = <<o>>
          BY <1>3, <4>4
        <4> QED BY <4>1, <4>5
      <3> QED BY <3>1, <3>2, <3>3, <3>4 DEF Only
    <2> QED BY <1>3, <2>1, <2>2
  <1>5. v = None /\ ~restarted => Kept(s) = {}
    BY <1>1 DEF Settled, Missing
  <1>6. v # None => Kept(s) # {}
    BY <1>1 DEF Settled, Got
  <1>7. v # None /\ ~restarted => Only(s, v)
    BY <1>1 DEF Settled, Got
  <1>8. v # None /\ op = "resync" /\ type.hashed => Only(s, v)
    BY <1>1 DEF Settled, Got
  <1> QED BY <1>2, <1>4, <1>5, <1>6, <1>7, <1>8

LEMMA FinishProgress ==
    ASSUME IInv, ~tainted, pc = "pickup", Finish, Quiet',
           UNCHANGED <<type, op, restarted, tainted, merged, snap>>,
           \A k \in Keys \ merged : Settled(k, snap[k])
    PROVE  PInv'
  <1>1. pc' = "idle"
    BY DEF Finish
  <1>2. InStep'
    BY <1>1 DEF InStep
  <1>3. ASSUME NEW k \in Keys \ merged
        PROVE  /\ snap[k] = None /\ ~restarted => cache'[k] = <<>>
               /\ snap[k] # None => cache'[k] # <<>>
               /\ snap[k] # None /\ ~restarted => cache'[k] = <<Object(snap[k])>>
               /\ snap[k] # None /\ op = "resync" /\ type.hashed
                     => cache'[k] = <<Object(snap[k])>>
    <2>1. PICK v : v = snap[k]
      OBVIOUS
    <2>2. Settled(k, v)
      BY <1>3, <2>1
    <2> QED BY <2>1, <2>2, FinishKey
  <1>4. SyncExact'
    <2> SUFFICES ASSUME ~restarted PROVE Exact(snap)'
      BY DEF SyncExact
    <2>1. ASSUME NEW k \in Keys \ merged
          PROVE  cache'[k] = IF snap[k] = None THEN <<>> ELSE <<Object(snap[k])>>
      BY <1>3
    <2> QED BY <2>1 DEF Exact
  <1>5. NothingMissing'
    <2>1. ASSUME NEW k \in merged PROVE cache'[k] = <<>>
      <3>1. /\ k \in Keys /\ op = "resync" /\ Marked(cache[k]) /\ cache \in Contents
        BY <2>1 DEF IInv, TInv, CallOK, MergeOK, Merging
      <3>2. cache'[k] = Unmarked(cache[k]) /\ cache[k] \in Seq(Objects)
        BY <3>1, SweepType DEF Finish
      <3> QED BY <3>1, <3>2, UnmarkedNone DEF Marked
    <2> QED BY <1>3, <2>1 DEF NothingMissing
  <1>6. ResyncFresh'
    <2> SUFFICES ASSUME op = "resync", type.hashed, NEW k \in Keys \ merged,
                        snap[k] # None
                 PROVE  View(cache')[k] = snap[k]
      BY DEF ResyncFresh
    <2>1. PICK o : o = Object(snap[k])
      OBVIOUS
    <2>2. cache'[k] = <<o>> /\ o.val = snap[k]
      BY <1>3, <2>1 DEF Object
    <2>3. PICK d : d = cache'[k]
      OBVIOUS
    <2>4. d # <<>> /\ Head(d) = o
      BY <2>2, <2>3
    <2> QED BY <2>2, <2>3, <2>4 DEF View
  <1> QED BY <1>1, <1>2, <1>4, <1>5, <1>6 DEF PInv

LEMMA PickupDoneProgress ==
    ASSUME IInv, PickupDone
    PROVE  PInv'
  <1>1. /\ Receive("done") /\ pc = "pickup" /\ seqExpect' = seqExpect + 1
        /\ UNCHANGED <<type, op, tainted, merged, snap>>
        /\ tainted \in BOOLEAN
    BY DEF PickupDone, Receive, Restart, IInv, TInv, CallOK
  <1>2. CASE tainted
    BY <1>1, <1>2, Tainted
  <1>3. CASE ~tainted
    <2>1. /\ rxq' = <<>> /\ ~dump'.on /\ seqExpect' = seqNext'
          /\ \A k \in Keys : ~Outstanding(k)
          /\ interrupted \/ Head(rxq).intr \/ Intact
      BY <1>1, <1>3, DoneIsLast
    <2>2. Progress
      BY <1>1, <1>3 DEF IInv, PInv
    <2>3. CASE interrupted \/ Head(rxq).intr
      <3>1. /\ pc' = "request" /\ interrupted' = FALSE /\ restarted' = TRUE
            /\ UNCHANGED <<grp, cache>>
        BY <2>3 DEF PickupDone, Restart
      <3>2. InStep'
        BY <2>1, <3>1 DEF InStep, Quiet
      <3>3. ASSUME NEW k \in Keys \ merged
            PROVE  DoneOK(k)' /\ AheadOK(k)' /\ CurrentOK(k)'
        <4>1. PICK v : v = snap[k]
          OBVIOUS
        <4>2. Settled(k, v) => Settled(k, v)'
          BY <1>1, <3>1, SameSettled
        <4>3. Missing(k)'
          BY <3>1 DEF Missing
        <4>4. DoneOK(k)'
          BY <1>1, <2>2, <3>1, <3>3, <4>1, <4>2 DEF Progress, DoneOK, Before
        <4> QED BY <3>1, <4>3, <4>4 DEF AheadOK, CurrentOK
      <3> QED BY <1>1, <3>1, <3>2, <3>3, Busy DEF Progress
    <2>4. CASE ~(interrupted \/ Head(rxq).intr)
      <3>1. Intact /\ interrupted \in BOOLEAN /\ ~interrupted
        BY <2>1, <2>4 DEF IInv, TInv, CallOK
      <3>2. UNCHANGED <<interrupted, restarted>>
        BY <2>4 DEF PickupDone
      <3>3. Quiet'
        BY <2>1, <3>1, <3>2 DEF Quiet
      <3>4. ASSUME NEW k \in Keys \ merged, Now(k) PROVE Settled(k, snap[k])
        <4>1. Told = snap
          BY <1>1, <1>3, DoneIsLast DEF Told
        <4> QED BY <1>1, <2>1, <2>2, <3>1, <3>4, <4>1 DEF Progress, CurrentOK
      <3>5. ASSUME NEW k \in Keys \ merged, Before(k) PROVE Settled(k, snap[k])
        BY <2>2, <3>5 DEF Progress, DoneOK
      <3>6. grp \in Nat /\ DOMAIN Families = 1..Len(Families) /\ Len(Families) \in Nat
        BY FamilyFacts, SyncAssumption DEF IInv, TInv, CallOK
      <3>7. CASE MoreFamilies(grp)
        <4>1. pc' = "request" /\ grp' = grp + 1 /\ UNCHANGED cache
          BY <2>4, <3>7 DEF PickupDone
        <4>2. InStep'
          BY <3>3, <4>1 DEF InStep
        <4>3. ASSUME NEW k \in Keys \ merged
              PROVE  DoneOK(k)' /\ AheadOK(k)' /\ CurrentOK(k)'
          <5>1. PICK v : v = snap[k]
            OBVIOUS
          <5>2. /\ Settled(k, v) => Settled(k, v)'
                /\ Missing(k) => Missing(k)'
            BY <1>1, <3>2, <4>1, SameSettled
          <5>3. Before(k)' => Before(k) \/ Now(k)
            BY <3>6, <4>1 DEF Before, Now
          <5>4. After(k)' \/ Now(k)' => After(k)
            <6>1. ASSUME NEW i \in DOMAIN Families, i > grp + 1 PROVE i > grp
              BY <3>6, <6>1
            <6>2. grp + 1 \in DOMAIN Families /\ grp + 1 > grp
              BY <3>6, <3>7 DEF MoreFamilies
            <6> QED BY <4>1, <6>1, <6>2 DEF After, Now
          <5>5. DoneOK(k)'
            BY <1>1, <3>4, <3>5, <4>3, <5>1, <5>2, <5>3 DEF DoneOK
          <5>6. AheadOK(k)'
            BY <2>2, <4>3, <5>2, <5>4 DEF AheadOK, Progress
          <5> QED BY <4>1, <5>5, <5>6 DEF CurrentOK
        <4> QED BY <1>1, <4>1, <4>2, <4>3, Busy DEF Progress
      <3>8. CASE ~MoreFamilies(grp)
        <4>1. Finish
          BY <2>4, <3>8 DEF PickupDone
        <4>2. \A k \in Keys : ~After(k)
          BY <3>6, <3>8 DEF After, MoreFamilies
        <4>3. \A k \in Keys : Before(k) \/ Now(k)
          BY <4>2, OneFamily DEF IInv
        <4>4. \A k \in Keys \ merged : Settled(k, snap[k])
          BY <3>4, <3>5, <4>3
        <4> QED BY <1>1, <1>3, <3>2, <3>3, <4>1, <4>4, FinishProgress
      <3> QED BY <3>7, <3>8
    <2> QED BY <2>3, <2>4
  <1> QED BY <1>1, <1>2, <1>3

\* While the kernel dumps, the call waits for its answer.
LEMMA DumpInStep ==
    ASSUME IInv, ~tainted, dump.on
    PROVE  /\ pc = "pickup" /\ seqNext = seqExpect + 1 /\ Answer
           /\ \A i \in DOMAIN rxq : rxq[i].seq = seqExpect
           /\ dump.seq = seqExpect /\ dump.fam = Families[grp]
           /\ Intact <=> ~dump.dirty
           /\ \A i \in DOMAIN rxq : rxq[i].kind # "done"
           /\ Told = table
  <1>1. InStep
    BY DEF IInv, PInv
  <1>2. /\ pc = "pickup" /\ seqNext = seqExpect + 1 /\ Answer
        /\ \A i \in DOMAIN rxq : rxq[i].seq = seqExpect
    BY <1>1 DEF InStep, Quiet, Refused
  <1>3. /\ dump.seq = seqExpect /\ dump.fam = Families[grp]
        /\ \A i \in DOMAIN rxq : rxq[i].kind # "done"
    BY <1>2 DEF Answer
  <1> QED BY <1>2, <1>3 DEF Intact, Told

LEMMA DumpObjectProgress ==
    ASSUME IInv, NEW k \in Keys, DumpObject(k)
    PROVE  PInv'
  <1>1. UNCHANGED <<type, cache, op, pc, grp, interrupted, result, seqNext, seqExpect,
                    table, restarted, tainted, merged, snap>>
    BY DEF DumpObject, cacheVars, callVars, sockVars, histVars
  <1>2. PICK m : m = [kind |-> "valid", seq |-> dump.seq, key |-> k,
                      val |-> table[k], intr |-> dump.dirty]
    OBVIOUS
  <1>3. /\ m.kind = "valid" /\ m.seq = dump.seq /\ m.key = k /\ m.val = table[k]
        /\ m.intr = dump.dirty
    BY <1>2
  <1>4. dump.on /\ k \in dump.todo /\ rxq' = Append(rxq, m) /\ dump \in Dumps
        /\ dump' = [dump EXCEPT !.todo = @ \ {k}]
    BY <1>2 DEF DumpObject, IInv, TInv, SocketOK
  <1>5. /\ dump'.on = dump.on /\ dump'.seq = dump.seq /\ dump'.fam = dump.fam
        /\ dump'.dirty = dump.dirty /\ dump'.todo = dump.todo \ {k}
    BY <1>4 DEF Dumps
  <1>6. CASE tainted
    <2>1. tainted' = TRUE
      BY <1>1, <1>6 DEF IInv, TInv, CallOK
    <2> QED BY <2>1, Tainted
  <1>7. CASE ~tainted
    <2>1. /\ pc = "pickup" /\ seqNext = seqExpect + 1 /\ Answer
          /\ \A i \in DOMAIN rxq : rxq[i].seq = seqExpect
          /\ dump.seq = seqExpect /\ dump.fam = Families[grp]
          /\ Intact <=> ~dump.dirty
          /\ \A i \in DOMAIN rxq : rxq[i].kind # "done"
          /\ Told = table
      BY <1>4, <1>7, DumpInStep
    <2>2. PICK L \in Nat : L = Len(rxq)
      BY DEF IInv, TInv, SocketOK
    <2>3. PICK q : q = rxq'
      OBVIOUS
    <2>4. /\ DOMAIN rxq = 1..L /\ DOMAIN q = 1..(L + 1) /\ q[L + 1] = m /\ q # <<>>
          /\ \A i \in 1..L : q[i] = rxq[i]
      BY <1>4, <2>2, <2>3 DEF IInv, TInv, SocketOK
    <2>5. \A i \in DOMAIN q : i \in DOMAIN rxq \/ i = L + 1
      BY <2>4
    <2>6. /\ L + 1 \in DOMAIN q
          /\ \A i \in DOMAIN rxq : i \in DOMAIN q /\ q[i] = rxq[i]
      BY <2>4
    <2>7. (Intact' <=> ~dump.dirty) /\ Told' = table
      BY <1>1, <1>4, <1>5 DEF Intact, Told
    <2>8. ASSUME NEW i \in DOMAIN q
          PROVE  /\ q[i].seq = seqExpect /\ q[i].kind # "error" /\ q[i].kind # "done"
                 /\ interrupted \/ q[i].intr => dump.dirty
                 /\ q[i].kind = "valid" => /\ FamilyOf[q[i].key] = Families[grp]
                                           /\ q[i].key \notin dump.todo \ {k}
      <3>1. CASE i \in DOMAIN rxq
        BY <2>1, <2>6, <3>1 DEF Answer
      <3>2. CASE i = L + 1
        BY <1>3, <1>4, <2>1, <2>4, <3>2 DEF Answer
      <3> QED BY <2>5, <3>1, <3>2
    <2>9. ASSUME NEW i \in DOMAIN q, NEW j \in DOMAIN q,
                 q[i].kind = "valid", q[j].kind = "valid", q[i].key = q[j].key
          PROVE  i = j
      <3>1. ASSUME NEW n \in DOMAIN rxq, rxq[n].kind = "valid" PROVE rxq[n].key # k
        BY <1>4, <2>1, <3>1 DEF Answer
      <3>2. CASE i \in DOMAIN rxq /\ j \in DOMAIN rxq
        BY <2>1, <2>6, <2>9, <3>2 DEF Answer
      <3>3. CASE i \in DOMAIN rxq /\ j = L + 1
        BY <1>3, <2>4, <2>6, <2>9, <3>1, <3>3
      <3>4. CASE i = L + 1 /\ j \in DOMAIN rxq
        BY <1>3, <2>4, <2>6, <2>9, <3>1, <3>4
      <3> QED BY <2>5, <3>2, <3>3, <3>4
    <2>10. interrupted => dump.dirty
      BY <2>1 DEF Answer
    <2>11. Answer'
      BY <1>1, <1>4, <1>5, <2>1, <2>3, <2>4, <2>7, <2>8, <2>9, <2>10 DEF Answer
    <2>12. InStep'
      BY <1>1, <2>1, <2>3, <2>8, <2>11 DEF InStep
    <2>13. ASSUME NEW x \in Keys \ merged
           PROVE  DoneOK(x)' /\ AheadOK(x)' /\ CurrentOK(x)'
      <3>1. DoneOK(x) /\ AheadOK(x) /\ CurrentOK(x)
        BY <1>7, <2>1, <2>13 DEF IInv, PInv, Progress
      <3>2. Outstanding(x)' <=> Outstanding(x)
        <4>1. \A i \in DOMAIN rxq : QueuedAt(x, i) => QueuedAt(x, i)' /\ i \in DOMAIN rxq'
          BY <2>3, <2>6 DEF QueuedAt
        <4>2. x = k => QueuedAt(x, L + 1)' /\ L + 1 \in DOMAIN rxq'
          BY <1>3, <2>3, <2>4, <2>6 DEF QueuedAt
        <4>3. \A i \in DOMAIN rxq' : QueuedAt(x, i)' =>
                 x = k \/ (i \in DOMAIN rxq /\ QueuedAt(x, i))
          BY <1>3, <2>3, <2>4, <2>5, <2>6 DEF QueuedAt
        <4>4. x \in dump'.todo <=> x \in dump.todo /\ x # k
          BY <1>5
        <4> QED BY <1>4, <4>1, <4>2, <4>3, <4>4 DEF Outstanding
      <3>3. ASSUME NEW i \in DOMAIN rxq', QueuedAt(x, i)', Now(x), Intact
            PROVE  rxq'[i].val = table[x]
        <4>1. CASE i \in DOMAIN rxq
          BY <2>1, <2>3, <2>6, <3>1, <3>3, <4>1 DEF CurrentOK, QueuedAt
        <4>2. CASE i = L + 1
          BY <1>3, <2>3, <2>4, <3>3, <4>2 DEF QueuedAt
        <4> QED BY <2>3, <2>5, <4>1, <4>2
      <3>4. PICK w : w = table[x]
        OBVIOUS
      <3>5. PICK u : u = snap[x]
        OBVIOUS
      <3>6. /\ Settled(x, w) => Settled(x, w)'
            /\ Settled(x, u) => Settled(x, u)'
            /\ Missing(x) => Missing(x)'
        BY <1>1, SameSettled
      <3>7. CurrentOK(x)'
        BY <1>1, <2>1, <2>7, <3>1, <3>2, <3>3, <3>4, <3>6 DEF CurrentOK, Now
      <3> QED BY <1>1, <3>1, <3>5, <3>6, <3>7 DEF DoneOK, AheadOK, Before, After, Now
    <2> QED BY <1>1, <2>1, <2>12, <2>13, Busy DEF Progress
  <1> QED BY <1>6, <1>7

LEMMA DumpDoneProgress ==
    ASSUME IInv, DumpDone
    PROVE  PInv'
  <1>1. UNCHANGED <<type, cache, op, pc, grp, interrupted, result, seqNext, seqExpect,
                    table, restarted, tainted, merged>>
    BY DEF DumpDone, cacheVars, callVars, sockVars
  <1>2. PICK m : m = [kind |-> "done", seq |-> dump.seq, intr |-> dump.dirty]
    OBVIOUS
  <1>3. m.kind = "done" /\ m.seq = dump.seq /\ m.intr = dump.dirty
    BY <1>2
  <1>4. /\ dump.on /\ dump.todo = {} /\ rxq' = Append(rxq, m) /\ ~dump'.on
        /\ dump'.todo = {}
        /\ \A x \in Keys : snap'[x] = IF FamilyOf[x] = dump.fam THEN table[x] ELSE snap[x]
    BY <1>2 DEF DumpDone, NoDump
  <1>5. CASE tainted
    <2>1. tainted' = TRUE
      BY <1>1, <1>5 DEF IInv, TInv, CallOK
    <2> QED BY <2>1, Tainted
  <1>6. CASE ~tainted
    <2>1. /\ pc = "pickup" /\ seqNext = seqExpect + 1 /\ Answer
          /\ \A i \in DOMAIN rxq : rxq[i].seq = seqExpect
          /\ dump.seq = seqExpect /\ dump.fam = Families[grp]
          /\ Intact <=> ~dump.dirty
          /\ \A i \in DOMAIN rxq : rxq[i].kind # "done"
          /\ Told = table
      BY <1>4, <1>6, DumpInStep
    <2>2. PICK L \in Nat : L = Len(rxq)
      BY DEF IInv, TInv, SocketOK
    <2>3. PICK q : q = rxq'
      OBVIOUS
    <2>4. /\ DOMAIN rxq = 1..L /\ DOMAIN q = 1..(L + 1) /\ q[L + 1] = m /\ q # <<>>
          /\ \A i \in 1..L : q[i] = rxq[i]
          /\ Len(q) = L + 1
      BY <1>4, <2>2, <2>3 DEF IInv, TInv, SocketOK
    <2>5. \A i \in DOMAIN q : i \in DOMAIN rxq \/ i = L + 1
      BY <2>4
    <2>6. /\ L + 1 \in DOMAIN q
          /\ \A i \in DOMAIN rxq : i \in DOMAIN q /\ q[i] = rxq[i] /\ i # L + 1
      BY <2>4
    <2>7. (Intact' <=> ~dump.dirty) /\ Told' = snap'
      BY <1>3, <1>4, <2>3, <2>4 DEF Intact, Told
    <2>8. ASSUME NEW i \in DOMAIN q
          PROVE  /\ q[i].seq = seqExpect /\ q[i].kind # "error"
                 /\ q[i].kind = "done" <=> i = L + 1
                 /\ interrupted \/ q[i].intr => dump.dirty
                 /\ q[i].kind = "valid" => FamilyOf[q[i].key] = Families[grp]
      <3>1. CASE i \in DOMAIN rxq
        BY <2>1, <2>6, <3>1 DEF Answer
      <3>2. CASE i = L + 1
        BY <1>3, <1>4, <2>1, <2>4, <3>2 DEF Answer
      <3> QED BY <2>5, <3>1, <3>2
    <2>9. ASSUME NEW i \in DOMAIN q, NEW j \in DOMAIN q,
                 q[i].kind = "valid", q[j].kind = "valid", q[i].key = q[j].key
          PROVE  i = j
      <3>1. i \in DOMAIN rxq /\ j \in DOMAIN rxq
        BY <1>3, <2>4, <2>5, <2>9
      <3> QED BY <2>1, <2>6, <2>9, <3>1 DEF Answer
    <2>10. interrupted => dump.dirty
      BY <2>1 DEF Answer
    <2>11. Answer'
      BY <1>1, <1>4, <2>3, <2>4, <2>7, <2>8, <2>9, <2>10 DEF Answer
    <2>12. InStep'
      BY <1>1, <2>1, <2>3, <2>8, <2>11 DEF InStep
    <2>13. ASSUME NEW x \in Keys \ merged
           PROVE  DoneOK(x)' /\ AheadOK(x)' /\ CurrentOK(x)'
      <3>1. DoneOK(x) /\ AheadOK(x) /\ CurrentOK(x)
        BY <1>6, <2>1, <2>13 DEF IInv, PInv, Progress
      <3>2. Outstanding(x)' <=> Outstanding(x)
        <4>1. \A i \in DOMAIN rxq : QueuedAt(x, i) => QueuedAt(x, i)' /\ i \in DOMAIN rxq'
          BY <2>3, <2>6 DEF QueuedAt
        <4>2. \A i \in DOMAIN rxq' : QueuedAt(x, i)' => i \in DOMAIN rxq /\ QueuedAt(x, i)
          BY <1>3, <2>3, <2>4, <2>5, <2>6 DEF QueuedAt
        <4> QED BY <1>4, <4>1, <4>2 DEF Outstanding
      <3>3. Now(x) => snap'[x] = table[x]
        BY <1>4, <2>1 DEF Now
      <3>4. Before(x) => snap'[x] = snap[x]
        BY <1>4, <2>1, OneFamily DEF Now, IInv
      <3>5. ASSUME NEW i \in DOMAIN rxq', QueuedAt(x, i)', Now(x), Intact
            PROVE  rxq'[i].val = table[x]
        <4>1. CASE i \in DOMAIN rxq
          BY <2>1, <2>3, <2>6, <3>1, <3>5, <4>1 DEF CurrentOK, QueuedAt
        <4>2. CASE i = L + 1
          BY <1>3, <2>3, <2>4, <3>5, <4>2 DEF QueuedAt
        <4> QED BY <2>3, <2>5, <4>1, <4>2
      <3>6. PICK w : w = table[x]
        OBVIOUS
      <3>7. PICK u : u = snap[x]
        OBVIOUS
      <3>8. /\ Settled(x, w) => Settled(x, w)'
            /\ Settled(x, u) => Settled(x, u)'
            /\ Missing(x) => Missing(x)'
        BY <1>1, SameSettled
      <3>9. CurrentOK(x)'
        BY <1>1, <2>1, <2>7, <3>1, <3>2, <3>3, <3>5, <3>6, <3>8 DEF CurrentOK, Now
      <3>10. DoneOK(x)'
        BY <1>1, <3>1, <3>4, <3>7, <3>8 DEF DoneOK, Before
      <3> QED BY <1>1, <3>1, <3>8, <3>9, <3>10 DEF AheadOK, After, Now
    <2> QED BY <1>1, <2>1, <2>12, <2>13, Busy DEF Progress
  <1> QED BY <1>5, <1>6

LEMMA ChangeProgress ==
    ASSUME IInv, NEW k \in Keys, NEW v \in Vals \cup {None}, Change(k, v)
    PROVE  PInv'
  <1>1. UNCHANGED <<type, cache, op, pc, grp, interrupted, result, seqNext, seqExpect,
                    rxq, restarted, tainted, merged, snap>>
    BY DEF Change, cacheVars, callVars, sockVars
  <1>2. /\ table' = [table EXCEPT ![k] = v] /\ table \in Table /\ dump \in Dumps
        /\ dump' = [dump EXCEPT !.dirty = dump.dirty \/ (dump.on /\ FamilyOf[k] = dump.fam),
                                !.todo = IF v = None THEN dump.todo \ {k} ELSE dump.todo]
        /\ ~dump.on => dump.todo = {}
    BY DEF Change, IInv, TInv, SocketOK
  <1>3. /\ dump'.on = dump.on /\ dump'.seq = dump.seq /\ dump'.fam = dump.fam
        /\ dump'.dirty <=> dump.dirty \/ (dump.on /\ FamilyOf[k] = dump.fam)
        /\ dump'.todo \subseteq dump.todo
        /\ \A x : x # k => (x \in dump'.todo <=> x \in dump.todo)
    BY <1>2 DEF Dumps
  <1>4. \A x \in Keys : x # k => table'[x] = table[x]
    BY <1>2 DEF Table
  <1>5. SyncExact' /\ NothingMissing' /\ ResyncFresh'
    BY <1>1 DEF IInv, PInv, SyncExact, NothingMissing, ResyncFresh, Synced, Exact
  <1>6. Intact' => Intact
    BY <1>1, <1>3 DEF Intact
  <1>7. ASSUME ~tainted PROVE InStep'
    <2>1. InStep
      BY <1>7 DEF IInv, PInv
    <2>2. Quiet => Quiet'
      BY <1>1, <1>3 DEF Quiet
    <2>3. Refused => Refused'
      BY <1>1, <1>3 DEF Refused
    <2>4. Answer => Answer'
      BY <1>1, <1>3, <1>6 DEF Answer
    <2> QED BY <1>1, <2>1, <2>2, <2>3, <2>4 DEF InStep
  <1>8. ASSUME ~tainted, pc # "idle", NEW x \in Keys \ merged
        PROVE  DoneOK(x)' /\ AheadOK(x)' /\ CurrentOK(x)'
    <2>1. DoneOK(x) /\ AheadOK(x) /\ CurrentOK(x)
      BY <1>8 DEF IInv, PInv, Progress
    <2>2. PICK w : w = Told[x]
      OBVIOUS
    <2>3. PICK u : u = snap[x]
      OBVIOUS
    <2>4. /\ Settled(x, w) => Settled(x, w)'
          /\ Settled(x, u) => Settled(x, u)'
          /\ Missing(x) => Missing(x)'
      BY <1>1, SameSettled
    <2>5. CurrentOK(x)'
      <3> SUFFICES ASSUME Now(x), pc = "pickup", Intact'
                   PROVE  /\ Outstanding(x)' => Missing(x)'
                          /\ ~Outstanding(x)' => Settled(x, Told[x])'
                          /\ \A i \in DOMAIN rxq' :
                                QueuedAt(x, i)' => rxq'[i].val = Told'[x]
        BY <1>1 DEF CurrentOK, Now
      <3>1. Intact
        BY <1>6
      <3>2. dump.on => x # k
        <4> SUFFICES ASSUME dump.on, x = k PROVE FALSE
          OBVIOUS
        <4>1. dump.fam = Families[grp]
          BY <1>8, DumpInStep
        <4>2. dump'.dirty
          BY <1>3, <4>1 DEF Now
        <4> QED BY <1>3, <4>2 DEF Intact
      <3>3. Told'[x] = w
        BY <1>1, <1>3, <1>4, <2>2, <3>2 DEF Told
      <3>4. Outstanding(x)' <=> Outstanding(x)
        <4>1. x \in dump'.todo <=> x \in dump.todo
          BY <1>2, <1>3, <3>2
        <4> QED BY <1>1, <4>1 DEF Outstanding, QueuedAt
      <3>5. \A i \in DOMAIN rxq' : QueuedAt(x, i)' => rxq'[i].val = w
        BY <1>1, <2>1, <2>2, <3>1 DEF CurrentOK, QueuedAt
      <3> QED BY <2>1, <2>2, <2>4, <3>1, <3>3, <3>4, <3>5 DEF CurrentOK
    <2> QED BY <1>1, <2>1, <2>3, <2>4, <2>5 DEF DoneOK, AheadOK, Before, After, Now
  <1> QED BY <1>1, <1>5, <1>7, <1>8 DEF PInv, Progress

LEMMA StepIInv ==
    ASSUME IInv, [Next]_vars
    PROVE  IInv'
  <1>1. TV' /\ MergeOK'
    BY StepTypes, MergeStep DEF TV, IInv
  <1>2. CASE UNCHANGED vars
    <2>1. UNCHANGED <<type, cache, op, pc, grp, interrupted, result, seqNext, seqExpect,
                      table, dump, rxq, restarted, tainted, merged, snap>>
      BY <1>2 DEF vars, cacheVars, callVars, sockVars, kernelVars, histVars
    <2>2. InStep => InStep'
      BY <2>1 DEF InStep, Quiet, Refused, Answer, Intact
    <2>3. Progress => Progress'
      BY <2>1 DEF Progress, DoneOK, AheadOK, CurrentOK, Settled, Missing, Got, Before, After,
                  Now, Outstanding, QueuedAt, Told, Intact
    <2>4. SyncExact' /\ NothingMissing' /\ ResyncFresh'
      BY <2>1 DEF IInv, PInv, SyncExact, NothingMissing, ResyncFresh, Synced, Exact
    <2>5. PInv'
      BY <2>1, <2>2, <2>3, <2>4 DEF IInv, PInv
    <2> QED BY <1>1, <2>5 DEF TV, IInv
  <1>3. CASE Next
    <2>1. PInv'
      BY <1>3, BeginProgress, RequestProgress, OtherPickupProgress, PickupObjectProgress,
         PickupDoneProgress, DumpObjectProgress, DumpDoneProgress, ChangeProgress
         DEF Next, Library, Dump
    <2> QED BY <1>1, <2>1 DEF TV, IInv
  <1> QED BY <1>2, <1>3

-----------------------------------------------------------------------------
(* The theorems.                                                           *)

\* The invariant above holds of every behaviour.
THEOREM Invariance == Spec => []IInv
  <1>1. Init => IInv
    BY InitIInv
  <1>2. IInv /\ [Next]_vars => IInv'
    BY StepIInv
  <1> QED BY <1>1, <1>2, PTL DEF Spec

\* Every variable of a refill or a resync has its type, the sequence numbers
\* stay within their bound, and a hash table never holds two identical
\* objects (nl_hash_table_add() refuses them).
THEOREM TypeCorrect == Spec => []TypeOK
  <1>1. IInv => TypeOK
    <2> SUFFICES ASSUME IInv PROVE TypeOK
      OBVIOUS
    <2>1. {seqNext, seqExpect} \subseteq 0..MaxDumps
      BY SyncAssumption DEF IInv, TInv, SocketOK
    <2>2. dump.todo \subseteq Keys /\ merged \subseteq Keys
      BY DEF IInv, TInv, CallOK, SocketOK, Dumps
    <2>3. \A i \in DOMAIN rxq : rxq[i].kind \in {"valid", "done", "error"}
      BY DEF IInv, TInv, SocketOK, Msgs
    <2>4. {table, snap, mirror} \subseteq Table
      BY DEF IInv, TInv, SocketOK, CallOK
    <2>5. {interrupted, restarted, tainted} \subseteq BOOLEAN
      BY DEF IInv, TInv, CallOK
    <2> QED BY <2>1, <2>2, <2>3, <2>4, <2>5 DEF TypeOK, IInv, TInv, CallOK, CacheOK
  <1> QED BY <1>1, Invariance, PTL

\* A refill or a resync that returned success and met no interrupted dump has
\* left exactly the table as it was when the dumps of its families ended:
\* every object once, none that is gone, with the table changing all the
\* time.  The objects a resync of a type with oo_update began with are not
\* meant: RestartsLoseNothing says what becomes of them.
THEOREM SyncLeavesTable == Spec => []SyncExact
  <1>1. IInv => SyncExact
    BY DEF IInv, PInv
  <1> QED BY <1>1, Invariance, PTL

\* However often __cache_pickup() returned -NLE_DUMP_INTR and the request was
\* repeated with the cache as it was, nothing the table held when the dumps
\* ended is missing from the cache, but for the objects that a resync of a
\* type with oo_update began with: each of these is missing, as the object
\* merged into it keeps its mark and nl_cache_resync() removes it.
THEOREM RestartsLoseNothing == Spec => []NothingMissing
  <1>1. IInv => NothingMissing
    BY DEF IInv, PInv
  <1> QED BY <1>1, Invariance, PTL

\* After a resync of a cache with a hash table, also a restarted one, what
\* nl_cache_search() finds has the table's value, for every object of the
\* table that was not merged into one of before (those are missing).
THEOREM ResyncReplacesStale == Spec => []ResyncFresh
  <1>1. IInv => ResyncFresh
    BY DEF IInv, PInv
  <1> QED BY <1>1, Invariance, PTL

\* The change callbacks of nl_cache_resync() tell all that it does to a cache
\* with a hash table: during the call, after it, and when it fails half way.
THEOREM CallbacksTellAll == Spec => []CallbacksMirrorCache
  <1>1. IInv => CallbacksMirrorCache
    BY DEF IInv
  <1> QED BY <1>1, Invariance, PTL

=============================================================================
