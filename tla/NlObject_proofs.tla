-------------------------- MODULE NlObject_proofs ---------------------------
(***************************************************************************)
(* Reference counts, lists and hash tables agree for any number of objects *)
(* and caches, whichever insertions are refused or find no memory.  The    *)
(* calls are compositions of a few operations on the heap; each operation  *)
(* keeps the heap consistent, and what it does to the reference count is   *)
(* said by how it changes the references that are not the caches': `e' in  *)
(* the lemmas, held + leaked in the specification.                         *)
(***************************************************************************)
EXTENDS NlObject, TLAPS, FiniteSetTheorems

\* The nodes of the hash tables are the objects of the lists.
Matched(s) ==
    \A c \in Caches, o \in Objs :
        o \in s.hash[c] <=> c \in s.hashed /\ s.in[o] = c

\* A hash table never holds two identical objects.
Unique(s) ==
    \A c \in Caches : \A a, b \in s.hash[c] : s.key[a] = s.key[b] => a = b

\* Only caches that exist have objects, and these have been linked.
Placed(s) ==
    \A o \in Objs : s.in[o] # NoCache => s.in[o] \in s.open /\ s.linked[o]

HeapOK(s) ==
    /\ s \in Heap
    /\ s.bug = FALSE
    /\ Matched(s)
    /\ Unique(s)
    /\ Placed(s)

\* References of the caches to o: the list's and the hash table's.
CacheRefs(s, o) ==
    IF s.in[o] = NoCache THEN 0 ELSE IF s.in[o] \in s.hashed THEN 2 ELSE 1

\* The other references to each object are e.
Counted(s, e) ==
    /\ e \in [Objs -> Nat]
    /\ \A o \in Objs : s.ref[o] = e[o] + CacheRefs(s, o)

\* References of the application, and those left behind.
Others == [o \in Objs |-> held[o] + leaked[o]]

IInv ==
    /\ held \in [Objs -> 0..MaxHeld]
    /\ leaked \in [Objs -> Nat]
    /\ HeapOK(h)
    /\ Counted(h, Others)

-----------------------------------------------------------------------------
(* The operations on the heap.                                             *)

\* A reference taken and dropped again.
LEMMA UpDown ==
    ASSUME NEW e \in [Objs -> Nat], NEW o \in Objs
    PROVE  LET e1 == [e EXCEPT ![o] = @ + 1]
           IN  e1[o] > 0 /\ [e1 EXCEPT ![o] = @ - 1] = e
  <1> DEFINE e1 == [e EXCEPT ![o] = @ + 1]
  <1>1. e1 \in [Objs -> Nat] /\ e1[o] = e[o] + 1 /\ e[o] \in Nat
        /\ \A x \in Objs : x # o => e1[x] = e[x]
    OBVIOUS
  <1> HIDE DEF e1
  <1>2. \A x \in Objs : [e1 EXCEPT ![o] = @ - 1][x] = e[x]
    BY <1>1
  <1>3. [e1 EXCEPT ![o] = @ - 1] = e
    <2> DEFINE f == [e1 EXCEPT ![o] = @ - 1]
    <2>1. f \in [Objs -> Int] /\ \A x \in Objs : f[x] = e[x]
      BY <1>1, <1>2
    <2> HIDE DEF f
    <2>2. f = e
      BY <2>1
    <2> QED BY <2>2 DEF f
  <1> QED BY <1>1, <1>3 DEF e1

\* Get() takes a reference of an object that has one.
LEMMA GetHeap ==
    ASSUME NEW s, HeapOK(s), NEW e, Counted(s, e), NEW o \in Objs,
           s.ref[o] > 0
    PROVE  LET t == Get(s, o)
           IN  /\ HeapOK(t) /\ Counted(t, [e EXCEPT ![o] = @ + 1])
               /\ t.ref = [s.ref EXCEPT ![o] = @ + 1]
               /\ t.key = s.key /\ t.in = s.in /\ t.linked = s.linked
               /\ t.open = s.open /\ t.hashed = s.hashed /\ t.hash = s.hash
  <1> DEFINE t == Get(s, o)
  <1>1. t = [s EXCEPT !.ref[o] = @ + 1]
    BY DEF Get, Alive
  <1>2. /\ t.ref = [s.ref EXCEPT ![o] = @ + 1]
        /\ t.key = s.key /\ t.in = s.in /\ t.linked = s.linked
        /\ t.open = s.open /\ t.hashed = s.hashed /\ t.hash = s.hash
        /\ t.bug = s.bug
        /\ t \in Heap
    BY <1>1 DEF HeapOK, Heap
  <1> HIDE DEF t
  <1>3. HeapOK(t)
    BY <1>2 DEF HeapOK, Matched, Unique, Placed
  <1>4. Counted(t, [e EXCEPT ![o] = @ + 1])
    <2> SUFFICES ASSUME NEW x \in Objs
                 PROVE  t.ref[x] = [e EXCEPT ![o] = @ + 1][x] + CacheRefs(t, x)
      BY DEF Counted
    <2>1. CacheRefs(t, x) = CacheRefs(s, x) /\ CacheRefs(s, x) \in Nat
      BY <1>2 DEF CacheRefs
    <2> QED BY <1>2, <2>1 DEF Counted, HeapOK, Heap
  <1> QED BY <1>2, <1>3, <1>4 DEF t

\* Put() drops a reference that is not a cache's; no object is freed while
\* it is in a list.
LEMMA PutHeap ==
    ASSUME NEW s, HeapOK(s), NEW e, Counted(s, e), NEW o \in Objs,
           e[o] > 0
    PROVE  LET t == Put(s, o)
           IN  /\ HeapOK(t) /\ Counted(t, [e EXCEPT ![o] = @ - 1])
               /\ t.ref = [s.ref EXCEPT ![o] = @ - 1]
               /\ t.key = s.key /\ t.in = s.in /\ t.linked = s.linked
               /\ t.open = s.open /\ t.hashed = s.hashed /\ t.hash = s.hash
  <1> DEFINE t == Put(s, o)
  <1>0. /\ e[o] \in Nat /\ s.ref[o] \in Nat
        /\ s.ref[o] = e[o] + CacheRefs(s, o)
        /\ CacheRefs(s, o) \in Nat
        /\ s.in[o] # NoCache => CacheRefs(s, o) > 0
    BY DEF Counted, HeapOK, Heap, CacheRefs
  <1>1. t = [s EXCEPT !.ref[o] = @ - 1]
    <2>1. s.ref[o] > 1 \/ (s.ref[o] = 1 /\ s.in[o] = NoCache)
      BY <1>0
    <2> QED BY <2>1 DEF Put
  <1>2. /\ t.ref = [s.ref EXCEPT ![o] = @ - 1]
        /\ t.key = s.key /\ t.in = s.in /\ t.linked = s.linked
        /\ t.open = s.open /\ t.hashed = s.hashed /\ t.hash = s.hash
        /\ t.bug = s.bug
        /\ t \in Heap
    BY <1>0, <1>1 DEF HeapOK, Heap
  <1> HIDE DEF t
  <1>3. HeapOK(t)
    BY <1>2 DEF HeapOK, Matched, Unique, Placed
  <1>4. Counted(t, [e EXCEPT ![o] = @ - 1])
    <2>1. [e EXCEPT ![o] = @ - 1] \in [Objs -> Nat]
      BY <1>0 DEF Counted
    <2> SUFFICES ASSUME NEW x \in Objs
                 PROVE  t.ref[x] = [e EXCEPT ![o] = @ - 1][x] + CacheRefs(t, x)
      BY <2>1 DEF Counted
    <2>2. CacheRefs(t, x) = CacheRefs(s, x) /\ CacheRefs(s, x) \in Nat
      BY <1>2 DEF CacheRefs
    <2> QED BY <1>2, <2>2 DEF Counted, HeapOK, Heap
  <1> QED BY <1>2, <1>3, <1>4 DEF t

\* Alloc() of an object that does not exist gives it one reference.
LEMMA AllocHeap ==
    ASSUME NEW s, HeapOK(s), NEW e, Counted(s, e), NEW o \in Objs,
           NEW k \in Keys, s.ref[o] = 0
    PROVE  LET t == Alloc(s, o, k)
           IN  /\ HeapOK(t) /\ Counted(t, [e EXCEPT ![o] = 1])
               /\ e[o] = 0 /\ t.in = s.in /\ t.in[o] = NoCache
               /\ t.open = s.open /\ t.hashed = s.hashed /\ t.hash = s.hash
  <1> DEFINE t == Alloc(s, o, k)
  <1>1. /\ t.ref = [s.ref EXCEPT ![o] = 1]
        /\ t.key = [s.key EXCEPT ![o] = k] /\ t.in = s.in
        /\ t.linked = [s.linked EXCEPT ![o] = FALSE]
        /\ t.open = s.open /\ t.hashed = s.hashed /\ t.hash = s.hash
        /\ t.bug = s.bug
    BY DEF HeapOK, Heap, Alloc
  <1>2. t \in Heap
    BY DEF HeapOK, Heap, Alloc
  <1> HIDE DEF t
  <1>3. s.in[o] = NoCache /\ e[o] = 0
    BY DEF Counted, CacheRefs, HeapOK, Heap
  <1>4. \A c \in Caches : o \notin s.hash[c]
    BY <1>3, ObjectAssumption DEF HeapOK, Matched
  <1>5. HeapOK(t)
    <2>1. Matched(t)
      BY <1>1 DEF HeapOK, Matched
    <2>2. Unique(t)
      BY <1>1, <1>4 DEF HeapOK, Heap, Unique
    <2>3. Placed(t)
      BY <1>1, <1>3 DEF HeapOK, Heap, Placed
    <2> QED BY <1>1, <1>2, <2>1, <2>2, <2>3 DEF HeapOK
  <1>6. Counted(t, [e EXCEPT ![o] = 1])
    <2> SUFFICES ASSUME NEW x \in Objs
                 PROVE  t.ref[x] = [e EXCEPT ![o] = 1][x] + CacheRefs(t, x)
      BY DEF Counted
    <2>1. CacheRefs(t, x) = CacheRefs(s, x) /\ CacheRefs(s, x) \in Nat
      BY <1>1 DEF CacheRefs
    <2>2. x = o => CacheRefs(s, x) = 0
      BY <1>3 DEF CacheRefs
    <2> QED BY <1>1, <2>1, <2>2 DEF Counted, HeapOK, Heap
  <1> QED BY <1>1, <1>3, <1>5, <1>6 DEF t

\* nl_hash_table_del() of an object of the list finds the node of this object.
LEMMA OwnNode ==
    ASSUME NEW s, HeapOK(s), NEW o \in Objs, NEW c \in Caches,
           c \in s.hashed, s.in[o] = c
    PROVE  Identical(s, o, s.hash[c]) = {o}
  BY DEF HeapOK, Heap, Matched, Unique, Identical

\* nl_cache_remove(): the references of the caches, and nobody else's.
LEMMA RemoveHeap ==
    ASSUME NEW s, HeapOK(s), NEW e, Counted(s, e), NEW o \in Objs
    PROVE  LET t == Remove(s, o)
           IN  /\ HeapOK(t) /\ Counted(t, e)
               /\ t.in = [s.in EXCEPT ![o] = NoCache]
               /\ t.key = s.key /\ t.linked = s.linked
               /\ t.open = s.open /\ t.hashed = s.hashed
  <1> DEFINE t == Remove(s, o)
  <1>0. s \in Heap
    BY DEF HeapOK
  <1>1. CASE s.in[o] = NoCache
    <2>1. t = s
      BY <1>1 DEF Remove
    <2>2. s.in = [s.in EXCEPT ![o] = NoCache]
      BY <1>0, <1>1 DEF Heap
    <2> QED BY <2>1, <2>2
  <1>2. CASE s.in[o] # NoCache
    <2> DEFINE c == s.in[o]
               n == CacheRefs(s, o)
    <2>1. c \in Caches /\ n \in {1, 2} /\ (n = 2 <=> c \in s.hashed)
          /\ s.ref[o] = e[o] + n /\ e[o] \in Nat
      BY <1>0, <1>2 DEF Counted, CacheRefs, Heap
    <2>2. /\ t.ref = [s.ref EXCEPT ![o] = e[o]]
          /\ t.key = s.key /\ t.linked = s.linked
          /\ t.in = [s.in EXCEPT ![o] = NoCache]
          /\ t.open = s.open /\ t.hashed = s.hashed
          /\ t.hash = [s.hash EXCEPT ![c] = @ \ {o}]
          /\ t.bug = s.bug
          /\ t \in Heap
      <3>1. CASE c \in s.hashed
        <4> DEFINE s1 == nl_hash_table_del(s, c, o)
                   s2 == [s1 EXCEPT !.in[o] = NoCache]
        <4>1. s1 = [Put(s, o) EXCEPT !.hash[c] = @ \ {o}]
          <5>1. Identical(s, o, s.hash[c]) = {o}
            BY <3>1, <2>1, OwnNode
          <5>2. (CHOOSE x \in {o} : TRUE) = o
            OBVIOUS
          <5> QED BY <5>1, <5>2 DEF nl_hash_table_del
        <4>2. /\ Put(s, o).ref = [s.ref EXCEPT ![o] = e[o] + 1]
              /\ Put(s, o) = [s EXCEPT !.ref = Put(s, o).ref]
          <5>1. Put(s, o) = [s EXCEPT !.ref[o] = @ - 1]
            BY <2>1, <3>1 DEF Put
          <5>2. s.ref[o] - 1 = e[o] + 1
            BY <2>1, <3>1
          <5> QED BY <5>1, <5>2, <1>0 DEF Heap
        <4>3. /\ s1.ref = [s.ref EXCEPT ![o] = e[o] + 1]
              /\ s1.key = s.key /\ s1.linked = s.linked /\ s1.in = s.in
              /\ s1.open = s.open /\ s1.hashed = s.hashed
              /\ s1.hash = [s.hash EXCEPT ![c] = @ \ {o}]
              /\ s1.bug = s.bug
              /\ s1 \in Heap
          <5> DEFINE r == Put(s, o).ref
          <5>1. s1 = [[s EXCEPT !.ref = r] EXCEPT !.hash[c] = @ \ {o}]
            BY <4>1, <4>2
          <5>2. r = [s.ref EXCEPT ![o] = e[o] + 1] /\ r \in [Objs -> Nat]
            BY <4>2, <1>0, <2>1 DEF Heap
          <5> HIDE DEF r, s1
          <5> QED BY <5>1, <5>2, <1>0, <2>1 DEF Heap
        <4> HIDE DEF s1
        <4>4. /\ s2.ref = [s.ref EXCEPT ![o] = e[o] + 1]
              /\ s2.key = s.key /\ s2.linked = s.linked
              /\ s2.in = [s.in EXCEPT ![o] = NoCache]
              /\ s2.open = s.open /\ s2.hashed = s.hashed
              /\ s2.hash = [s.hash EXCEPT ![c] = @ \ {o}]
              /\ s2.bug = s.bug
              /\ s2 \in Heap
          BY <4>3 DEF Heap
        <4>5. t = Put(s2, o)
          BY <1>2, <3>1 DEF Remove, s1
        <4> HIDE DEF s2, t
        <4>6. t = [s2 EXCEPT !.ref[o] = @ - 1]
          <5>1. s2.ref[o] = e[o] + 1 /\ s2.in[o] = NoCache
            BY <4>4, <1>0 DEF Heap
          <5> QED BY <4>5, <5>1, <2>1 DEF Put
        <4> QED BY <4>4, <4>6, <1>0, <2>1 DEF Heap
      <3>2. CASE c \notin s.hashed
        <4> DEFINE s2 == [s EXCEPT !.in[o] = NoCache]
        <4>1. /\ s2.ref = s.ref
              /\ s2.key = s.key /\ s2.linked = s.linked
              /\ s2.in = [s.in EXCEPT ![o] = NoCache]
              /\ s2.open = s.open /\ s2.hashed = s.hashed
              /\ s2.hash = s.hash
              /\ s2.bug = s.bug
              /\ s2 \in Heap
          BY <1>0 DEF Heap
        <4>2. t = Put(s2, o)
          BY <1>2, <3>2 DEF Remove
        <4> HIDE DEF s2, t
        <4>3. t = [s2 EXCEPT !.ref[o] = @ - 1]
          <5>1. s2.ref[o] = e[o] + 1 /\ s2.in[o] = NoCache
            BY <4>1, <1>0, <2>1, <3>2 DEF Heap
          <5> QED BY <4>2, <5>1, <2>1 DEF Put
        <4>4. o \notin s.hash[c]
          BY <2>1, <3>2 DEF HeapOK, Matched
        <4>5. s.hash = [s.hash EXCEPT ![c] = @ \ {o}]
          BY <4>4, <1>0, <2>1 DEF Heap
        <4>6. s2.ref[o] = e[o] + 1
          BY <4>1, <1>0, <2>1, <3>2 DEF Heap
        <4> QED BY <4>1, <4>3, <4>5, <4>6, <1>0, <2>1 DEF Heap
      <3> QED BY <3>1, <3>2
    <2> HIDE DEF t
    <2>3. HeapOK(t)
      <3>1. Matched(t)
        BY <2>1, <2>2, <1>0, ObjectAssumption DEF HeapOK, Heap, Matched
      <3>2. Unique(t)
        BY <2>1, <2>2, <1>0 DEF HeapOK, Heap, Unique
      <3>3. Placed(t)
        BY <2>2, <1>0 DEF HeapOK, Heap, Placed
      <3> QED BY <2>2, <3>1, <3>2, <3>3 DEF HeapOK
    <2>4. Counted(t, e)
      <3> SUFFICES ASSUME NEW x \in Objs
                   PROVE  t.ref[x] = e[x] + CacheRefs(t, x)
        BY DEF Counted
      <3>1. CASE x = o
        BY <2>1, <2>2, <3>1, <1>0 DEF CacheRefs, Heap
      <3>2. CASE x # o
        <4>1. CacheRefs(t, x) = CacheRefs(s, x)
          BY <2>2, <3>2, <1>0 DEF CacheRefs, Heap
        <4>2. t.ref[x] = s.ref[x]
          BY <2>2, <3>2, <1>0 DEF Heap
        <4> QED BY <4>1, <4>2 DEF Counted
      <3> QED BY <3>1, <3>2
    <2> QED BY <2>2, <2>3, <2>4 DEF t
  <1> QED BY <1>1, <1>2

\* __cache_add() that is not refused: one of the other references becomes the
\* list's, and the hash table takes its own.
LEMMA AddHeap ==
    ASSUME NEW s, HeapOK(s), NEW e, Counted(s, e), NEW o \in Objs,
           NEW c \in Caches, c \in s.open, s.in[o] = NoCache, e[o] > 0,
           NEW mem, CanAdd(s, c, o, mem)
    PROVE  LET t == __cache_add(s, c, o, mem)
           IN  /\ HeapOK(t) /\ Counted(t, [e EXCEPT ![o] = @ - 1])
               /\ t.in = [s.in EXCEPT ![o] = c]
               /\ t.key = s.key /\ t.open = s.open /\ t.hashed = s.hashed
  <1> DEFINE t == __cache_add(s, c, o, mem)
             r == IF c \in s.hashed THEN s.ref[o] + 1 ELSE s.ref[o]
  <1>0. s \in Heap
    BY DEF HeapOK
  <1>1. s.ref[o] = e[o] /\ e[o] \in Nat /\ s.ref[o] > 0 /\ r \in Nat
    BY <1>0 DEF Counted, CacheRefs, Heap
  <1>2. /\ t.ref = [s.ref EXCEPT ![o] = r]
        /\ t.key = s.key /\ t.linked = [s.linked EXCEPT ![o] = TRUE]
        /\ t.in = [s.in EXCEPT ![o] = c]
        /\ t.open = s.open /\ t.hashed = s.hashed
        /\ t.hash = [s.hash EXCEPT ![c] = IF c \in s.hashed THEN @ \cup {o}
                                          ELSE @]
        /\ t.bug = s.bug
        /\ t \in Heap
    <2>1. CASE c \in s.hashed
      <3> DEFINE g == Get(s, o)
      <3>1. /\ g.ref = [s.ref EXCEPT ![o] = @ + 1]
            /\ g.key = s.key /\ g.in = s.in /\ g.linked = s.linked
            /\ g.open = s.open /\ g.hashed = s.hashed /\ g.hash = s.hash
            /\ g.bug = s.bug /\ g \in Heap
        BY <1>1, GetHeap DEF HeapOK
      <3> HIDE DEF g
      <3>2. t = [Link(g, c, o) EXCEPT !.hash[c] = @ \cup {o}]
        BY <2>1 DEF __cache_add, g
      <3> DEFINE l == Link(g, c, o)
      <3>3. /\ l.ref = [s.ref EXCEPT ![o] = @ + 1]
            /\ l.key = s.key /\ l.linked = [s.linked EXCEPT ![o] = TRUE]
            /\ l.in = [s.in EXCEPT ![o] = c]
            /\ l.open = s.open /\ l.hashed = s.hashed /\ l.hash = s.hash
            /\ l.bug = s.bug /\ l \in Heap
        BY <3>1 DEF Link, Heap
      <3> HIDE DEF l, t
      <3>4. t = [l EXCEPT !.hash[c] = @ \cup {o}]
        BY <3>2 DEF l
      <3>5. r = s.ref[o] + 1
        BY <2>1
      <3> QED BY <2>1, <3>3, <3>4, <3>5 DEF Heap
    <2>2. CASE c \notin s.hashed
      <3>1. t = Link(s, c, o)
        BY <2>2 DEF __cache_add
      <3>2. s.ref = [s.ref EXCEPT ![o] = r]
        BY <1>0, <2>2 DEF Heap
      <3>3. s.hash = [s.hash EXCEPT ![c] = IF c \in s.hashed THEN @ \cup {o}
                                           ELSE @]
        BY <1>0, <2>2 DEF Heap
      <3> HIDE DEF t, r
      <3> QED BY <1>0, <2>2, <3>1, <3>2, <3>3 DEF Link, Heap
    <2> QED BY <2>1, <2>2
  <1> HIDE DEF t
  <1>3. Matched(t)
    BY <1>0, <1>2, ObjectAssumption DEF HeapOK, Heap, Matched
  <1>4. Unique(t)
    BY <1>0, <1>2 DEF HeapOK, Heap, Unique, CanAdd, Identical
  <1>5. Placed(t)
    BY <1>0, <1>2 DEF HeapOK, Heap, Placed
  <1>6. HeapOK(t)
    BY <1>2, <1>3, <1>4, <1>5 DEF HeapOK
  <1>7. Counted(t, [e EXCEPT ![o] = @ - 1])
    <2>1. [e EXCEPT ![o] = @ - 1] \in [Objs -> Nat]
      BY <1>1 DEF Counted
    <2> SUFFICES ASSUME NEW x \in Objs
                 PROVE  t.ref[x] = [e EXCEPT ![o] = @ - 1][x] + CacheRefs(t, x)
      BY <2>1 DEF Counted
    <2>2. CASE x = o
      <3>1. CacheRefs(t, o) = IF c \in s.hashed THEN 2 ELSE 1
        BY <1>0, <1>2, ObjectAssumption DEF CacheRefs, Heap
      <3> QED BY <1>0, <1>1, <1>2, <2>2, <3>1 DEF Counted, Heap
    <2>3. CASE x # o
      <3>1. CacheRefs(t, x) = CacheRefs(s, x) /\ t.ref[x] = s.ref[x]
        BY <1>0, <1>2, <2>3 DEF CacheRefs, Heap
      <3> QED BY <2>3, <3>1 DEF Counted
    <2> QED BY <2>2, <2>3
  <1> QED BY <1>2, <1>6, <1>7 DEF t

\* Adding an object opens or closes no cache.
LEMMA AddOpens ==
    ASSUME NEW s \in Heap, NEW o \in Objs, NEW c \in Caches, NEW mem
    PROVE  __cache_add(s, c, o, mem).open = s.open
  <1> DEFINE g == Get(s, o)
             l == Link(g, c, o)
  <1>1. g \in Heap /\ g.open = s.open
    <2>1. CASE Alive(s, o)
      <3>1. g = [s EXCEPT !.ref[o] = @ + 1]
        BY <2>1 DEF Get
      <3> QED BY <3>1 DEF Heap
    <2>2. CASE ~Alive(s, o)
      <3>1. g = [s EXCEPT !.bug = TRUE]
        BY <2>2 DEF Get
      <3> QED BY <3>1 DEF Heap
    <2> QED BY <2>1, <2>2
  <1> HIDE DEF g
  <1>2. l \in Heap /\ l.open = s.open
    BY <1>1 DEF Link, Heap
  <1> HIDE DEF l
  <1>3. [l EXCEPT !.hash[c] = @ \cup {o}].open = s.open
    BY <1>2 DEF Heap
  <1>4. Link(s, c, o).open = s.open
    BY DEF Link, Heap
  <1> QED BY <1>3, <1>4 DEF __cache_add, g, l

\* nl_cache_move(): the reference it takes is the new list's, or is left
\* behind.
LEMMA MoveHeap ==
    ASSUME NEW s, HeapOK(s), NEW e, Counted(s, e), NEW o \in Objs,
           NEW c \in Caches, c \in s.open, s.ref[o] > 0, NEW mem
    PROVE  LET t == Move(s, c, o, mem)
           IN  /\ HeapOK(t)
               /\ Counted(t, IF MoveFails(s, c, o, mem)
                             THEN [e EXCEPT ![o] = @ + 1] ELSE e)
               /\ t.open = s.open
  <1> DEFINE e1 == [e EXCEPT ![o] = @ + 1]
             s1 == Get(s, o)
             s2 == Remove(s1, o)
  <1>1. HeapOK(s1) /\ Counted(s1, e1) /\ s1.open = s.open /\ s1 \in Heap
    BY GetHeap DEF HeapOK
  <1> HIDE DEF s1, e1
  <1>2. /\ HeapOK(s2) /\ Counted(s2, e1) /\ s2.in[o] = NoCache
        /\ s2.open = s.open
    <2>1. /\ HeapOK(s2) /\ Counted(s2, e1) /\ s2.open = s1.open
          /\ s2.in = [s1.in EXCEPT ![o] = NoCache]
      BY <1>1, RemoveHeap
    <2> QED BY <1>1, <2>1 DEF Heap
  <1>3. ~s1.linked[o] => s2 = s1
    BY <1>1 DEF Remove, HeapOK, Placed
  <1>4. Move(s, c, o, mem) = __cache_add(s2, c, o, mem)
    BY <1>3 DEF Move, s1
  <1>5. MoveFails(s, c, o, mem) <=> ~CanAdd(s2, c, o, mem)
    BY DEF MoveFails, s1
  <1> HIDE DEF s2
  <1>6. CASE CanAdd(s2, c, o, mem)
    <2>1. e1[o] > 0 /\ e = [e1 EXCEPT ![o] = @ - 1]
      BY UpDown DEF Counted, e1
    <2> DEFINE t == __cache_add(s2, c, o, mem)
    <2>2. /\ HeapOK(t) /\ Counted(t, [e1 EXCEPT ![o] = @ - 1])
          /\ t.open = s2.open
      <3>1. c \in s2.open /\ e1[o] > 0
        BY <1>2, <2>1
      <3>2. /\ HeapOK(__cache_add(s2, c, o, mem))
            /\ Counted(__cache_add(s2, c, o, mem), [e1 EXCEPT ![o] = @ - 1])
            /\ __cache_add(s2, c, o, mem).open = s2.open
        <4>1. HeapOK(s2) /\ Counted(s2, e1) /\ s2.in[o] = NoCache
          BY <1>2
        <4>2. /\ HeapOK(__cache_add(s2, c, o, mem))
              /\ Counted(__cache_add(s2, c, o, mem), [e1 EXCEPT ![o] = @ - 1])
          BY <4>1, <1>6, <3>1, AddHeap
        <4>3. __cache_add(s2, c, o, mem).open = s2.open
          BY <4>1, AddOpens DEF HeapOK
        <4> QED BY <4>2, <4>3
      <3> QED BY <3>2
    <2>3. HeapOK(t) /\ Counted(t, e) /\ t.open = s.open
      BY <1>2, <2>1, <2>2
    <2> QED BY <1>4, <1>5, <1>6, <2>3
  <1>7. CASE ~CanAdd(s2, c, o, mem)
    <2>1. __cache_add(s2, c, o, mem) = s2
      BY <1>7 DEF __cache_add
    <2> QED BY <1>2, <1>4, <1>5, <1>7, <2>1 DEF e1
  <1> QED BY <1>6, <1>7

\* nl_cache_add() of an object in no list gives back what it cannot use.
LEMMA AddNewHeap ==
    ASSUME NEW s, HeapOK(s), NEW e, Counted(s, e), NEW o \in Objs,
           NEW c \in Caches, c \in s.open, s.ref[o] > 0, s.in[o] = NoCache,
           NEW mem
    PROVE  HeapOK(AddNew(s, c, o, mem)) /\ Counted(AddNew(s, c, o, mem), e)
  <1> DEFINE e1 == [e EXCEPT ![o] = @ + 1]
             s1 == Get(s, o)
  <1>1. HeapOK(s1) /\ Counted(s1, e1) /\ s1.open = s.open /\ s1.in = s.in
    BY GetHeap
  <1>2. e1[o] > 0 /\ e = [e1 EXCEPT ![o] = @ - 1]
    BY UpDown DEF Counted
  <1>3. AddNew(s, c, o, mem) = IF CanAdd(s1, c, o, mem)
                               THEN __cache_add(s1, c, o, mem) ELSE Put(s1, o)
    BY DEF AddNew
  <1> HIDE DEF s1, e1
  <1>4. CASE CanAdd(s1, c, o, mem)
    <2>1. HeapOK(__cache_add(s1, c, o, mem))
          /\ Counted(__cache_add(s1, c, o, mem), [e1 EXCEPT ![o] = @ - 1])
      BY <1>1, <1>2, <1>4, AddHeap
    <2> QED BY <1>2, <1>3, <1>4, <2>1
  <1>5. CASE ~CanAdd(s1, c, o, mem)
    <2>1. HeapOK(Put(s1, o)) /\ Counted(Put(s1, o), [e1 EXCEPT ![o] = @ - 1])
      BY <1>1, <1>2, PutHeap
    <2> QED BY <1>2, <1>3, <1>5, <2>1
  <1> QED BY <1>4, <1>5

\* nl_cache_clear() returns the references of one cache.
LEMMA ClearHeap ==
    ASSUME NEW s, HeapOK(s), NEW e, Counted(s, e), NEW c \in Caches
    PROVE  LET t == Cleared(s, c)
           IN  /\ HeapOK(t) /\ Counted(t, e) /\ t \in Heap
               /\ \A o \in Objs : t.in[o] # c
               /\ t.open = s.open
  <1> DEFINE t == Cleared(s, c)
             drop(o) == (IF s.in[o] = c THEN 1 ELSE 0)
                            + (IF o \in s.hash[c] THEN 1 ELSE 0)
  <1>0. s \in Heap /\ s.bug = FALSE
    BY DEF HeapOK, Heap
  <1>1. ASSUME NEW o \in Objs
        PROVE  /\ drop(o) = IF s.in[o] = c THEN CacheRefs(s, o) ELSE 0
               /\ drop(o) <= s.ref[o] /\ drop(o) \in Nat /\ s.ref[o] \in Nat
               /\ s.ref[o] - drop(o) \in Nat
    <2>1. o \in s.hash[c] <=> c \in s.hashed /\ s.in[o] = c
      BY DEF HeapOK, Matched
    <2>2. drop(o) = IF s.in[o] = c THEN CacheRefs(s, o) ELSE 0
      BY <2>1, ObjectAssumption DEF CacheRefs
    <2>3. /\ s.ref[o] = e[o] + CacheRefs(s, o) /\ e[o] \in Nat
          /\ CacheRefs(s, o) \in Nat /\ s.ref[o] \in Nat
      BY <1>0 DEF Counted, CacheRefs, Heap
    <2> HIDE DEF drop
    <2> QED BY <2>2, <2>3
  <1>2. /\ t.ref = [o \in Objs |-> IF drop(o) <= s.ref[o]
                                   THEN s.ref[o] - drop(o) ELSE 0]
        /\ t.key = s.key /\ t.linked = s.linked
        /\ t.in = [o \in Objs |-> IF s.in[o] = c THEN NoCache ELSE s.in[o]]
        /\ t.open = s.open /\ t.hashed = s.hashed
        /\ t.hash = [s.hash EXCEPT ![c] = {}]
        /\ t.bug = (s.bug \/ \E o \in Objs : drop(o) > s.ref[o])
        /\ t = [s EXCEPT !.ref = t.ref, !.in = t.in, !.hash = t.hash,
                         !.bug = t.bug]
    BY <1>0 DEF Heap, Cleared
  <1>3. t.ref \in [Objs -> Nat] /\ t.bug = FALSE
    <2> HIDE DEF drop, t
    <2>1. t.ref \in [Objs -> Nat]
      BY <1>1, <1>2
    <2>2. ~ \E o \in Objs : drop(o) > s.ref[o]
      BY <1>1
    <2>3. (s.bug \/ \E o \in Objs : drop(o) > s.ref[o]) = FALSE
      BY <1>0, <2>2
    <2> QED BY <1>2, <2>1, <2>3
  <1>4. \A o \in Objs : t.ref[o] = s.ref[o] - drop(o)
    <2> HIDE DEF drop, t
    <2> QED BY <1>1, <1>2
  <1> HIDE DEF t, drop
  <1>5. t \in Heap
    <2>1. t.in \in [Objs -> Caches \cup {NoCache}]
      BY <1>0, <1>2 DEF Heap
    <2>2. t.hash \in [Caches -> SUBSET Objs]
      BY <1>0, <1>2 DEF Heap
    <2>3. t = [s EXCEPT !.ref = t.ref, !.in = t.in, !.hash = t.hash,
                        !.bug = t.bug]
      BY <1>2
    <2> QED BY <1>0, <1>3, <2>1, <2>2, <2>3 DEF Heap
  <1>6. HeapOK(t)
    <2>1. Matched(t)
      BY <1>0, <1>2, ObjectAssumption DEF HeapOK, Heap, Matched
    <2>2. Unique(t)
      BY <1>0, <1>2 DEF HeapOK, Heap, Unique
    <2>3. Placed(t)
      BY <1>0, <1>2 DEF HeapOK, Heap, Placed
    <2> QED BY <1>3, <1>5, <2>1, <2>2, <2>3 DEF HeapOK
  <1>7. Counted(t, e)
    <2> SUFFICES ASSUME NEW o \in Objs
                 PROVE  t.ref[o] = e[o] + CacheRefs(t, o)
      BY DEF Counted
    <2>1. s.ref[o] = e[o] + CacheRefs(s, o) /\ e[o] \in Nat
          /\ CacheRefs(s, o) \in Nat
      BY DEF Counted, CacheRefs
    <2>2. CacheRefs(t, o) = IF s.in[o] = c THEN 0 ELSE CacheRefs(s, o)
      BY <1>2 DEF CacheRefs
    <2> QED BY <1>1, <1>4, <2>1, <2>2
  <1>8. \A o \in Objs : t.in[o] # c
    BY <1>2, ObjectAssumption
  <1> QED BY <1>2, <1>5, <1>6, <1>7, <1>8 DEF t

-----------------------------------------------------------------------------
(* The calls.                                                              *)

\* What a call has to establish.
LEMMA Establish ==
    ASSUME HeapOK(h'), NEW e, Counted(h', e),
           held' \in [Objs -> 0..MaxHeld], leaked' \in [Objs -> Nat],
           \A o \in Objs : held'[o] + leaked'[o] = e[o]
    PROVE  IInv'
  <1>1. Others' \in [Objs -> Nat]
    BY ObjectAssumption DEF Others
  <1>2. \A o \in Objs : Others'[o] = e[o]
    BY DEF Others
  <1>3. Counted(h', Others')
    BY <1>1, <1>2 DEF Counted
  <1> QED BY <1>3 DEF IInv

\* Objects somebody refers to are alive, objects in no list have no other
\* references than the application's.
LEMMA Facts ==
    ASSUME IInv, NEW o \in Objs
    PROVE  /\ h \in Heap /\ h.key[o] \in Keys /\ h.ref[o] \in Nat
           /\ Others \in [Objs -> Nat] /\ Others[o] = held[o] + leaked[o]
           /\ held[o] \in 0..MaxHeld /\ leaked[o] \in Nat
           /\ held[o] > 0 => h.ref[o] > 0 /\ Others[o] > 0
           /\ h.in[o] # NoCache => h.ref[o] > 0 /\ h.linked[o]
           /\ h.in[o] # NoCache => h.in[o] \in h.open /\ h.in[o] \in Caches
  <1>1. h \in Heap /\ held \in [Objs -> 0..MaxHeld] /\ leaked \in [Objs -> Nat]
    BY DEF IInv, HeapOK
  <1>2. Others \in [Objs -> Nat] /\ Others[o] = held[o] + leaked[o]
    BY <1>1, ObjectAssumption DEF Others
  <1>3. h.ref[o] = Others[o] + CacheRefs(h, o) /\ CacheRefs(h, o) \in Nat
        /\ (h.in[o] # NoCache => CacheRefs(h, o) > 0)
    BY DEF IInv, Counted, CacheRefs
  <1>4. h.in[o] # NoCache => h.in[o] \in h.open /\ h.linked[o]
    BY DEF IInv, HeapOK, Placed
  <1>5. h.key[o] \in Keys /\ h.ref[o] \in Nat
        /\ (h.in[o] # NoCache => h.in[o] \in Caches)
    BY <1>1 DEF Heap
  <1>6. held[o] \in 0..MaxHeld /\ leaked[o] \in Nat
    BY <1>1
  <1>7. h.in[o] # NoCache => h.ref[o] > 0
    BY <1>2, <1>3
  <1>8. held[o] > 0 => h.ref[o] > 0 /\ Others[o] > 0
    BY <1>2, <1>3, <1>6, ObjectAssumption
  <1> QED BY <1>1, <1>2, <1>4, <1>5, <1>6, <1>7, <1>8

\* What a search finds is in the cache.
LEMMA FoundIn ==
    ASSUME IInv, NEW c \in Caches, NEW k, NEW o \in Found(c, k)
    PROVE  o \in Objs /\ h.in[o] = c /\ h.key[o] = k /\ h.ref[o] > 0
           /\ h.linked[o]
  <1>1. o \in Objs /\ h.in[o] = c /\ h.key[o] = k
    <2>1. \A x \in h.hash[c] : x \in Objs
      BY DEF IInv, HeapOK, Heap
    <2> QED BY <2>1 DEF Found, Items, IInv, HeapOK, Matched
  <1>2. h.in[o] # NoCache
    BY <1>1, ObjectAssumption
  <1> QED BY <1>1, <1>2, Facts

LEMMA ObjectAlloc ==
    ASSUME IInv, NEW o \in Objs, NEW k \in Keys, nl_object_alloc(o, k)
    PROVE  IInv'
  <1> DEFINE e == [Others EXCEPT ![o] = 1]
  <1>1. h.ref[o] = 0
    BY Facts DEF nl_object_alloc, Free, Alive
  <1>2. HeapOK(h') /\ Counted(h', e) /\ Others[o] = 0
    BY <1>1, AllocHeap DEF nl_object_alloc, IInv
  <1>3. held' = [held EXCEPT ![o] = 1] /\ leaked' = leaked /\ 1 \in 0..MaxHeld
    BY ObjectAssumption DEF nl_object_alloc
  <1>4. \A x \in Objs : held'[x] + leaked'[x] = e[x]
    BY <1>2, <1>3, Facts DEF IInv
  <1> HIDE DEF e
  <1>5. held' \in [Objs -> 0..MaxHeld] /\ leaked' \in [Objs -> Nat]
    BY <1>3 DEF IInv
  <1> QED BY <1>2, <1>4, <1>5, Establish

LEMMA ObjectClone ==
    ASSUME IInv, NEW o \in Objs, NEW n \in Objs, nl_object_clone(o, n)
    PROVE  IInv'
  <1> DEFINE e == [Others EXCEPT ![n] = 1]
  <1>1. h.ref[n] = 0 /\ h.key[o] \in Keys
    BY Facts DEF nl_object_clone, Free, Alive
  <1>2. HeapOK(h') /\ Counted(h', e) /\ Others[n] = 0
    BY <1>1, AllocHeap DEF nl_object_clone, IInv
  <1>3. held' = [held EXCEPT ![n] = 1] /\ leaked' = leaked /\ 1 \in 0..MaxHeld
    BY ObjectAssumption, Facts DEF nl_object_clone
  <1>4. \A x \in Objs : held'[x] + leaked'[x] = e[x]
    BY <1>2, <1>3, Facts DEF IInv
  <1> HIDE DEF e
  <1>5. held' \in [Objs -> 0..MaxHeld] /\ leaked' \in [Objs -> Nat]
    BY <1>3 DEF IInv
  <1> QED BY <1>2, <1>4, <1>5, Establish

\* The application takes a reference of an object that is alive.
LEMMA Acquire ==
    ASSUME IInv, NEW o \in Objs, h.ref[o] > 0, held[o] < MaxHeld,
           h' = Get(h, o), held' = [held EXCEPT ![o] = @ + 1], UNCHANGED leaked
    PROVE  IInv'
  <1> DEFINE e == [Others EXCEPT ![o] = @ + 1]
  <1>1. HeapOK(h') /\ Counted(h', e)
    BY GetHeap DEF IInv
  <1>2. held' \in [Objs -> 0..MaxHeld] /\ leaked' \in [Objs -> Nat]
    BY Facts, ObjectAssumption DEF IInv
  <1>3. \A x \in Objs : held'[x] + leaked'[x] = e[x]
    BY Facts DEF IInv
  <1> HIDE DEF e
  <1> QED BY <1>1, <1>2, <1>3, Establish

LEMMA ObjectGet ==
    ASSUME IInv, NEW o \in Objs, nl_object_get(o)
    PROVE  IInv'
  <1>1. h.ref[o] > 0 /\ held[o] < MaxHeld
    BY Facts, ObjectAssumption DEF nl_object_get
  <1> QED BY <1>1, Acquire DEF nl_object_get

LEMMA ObjectPut ==
    ASSUME IInv, NEW o \in Objs, nl_object_put(o)
    PROVE  IInv'
  <1> DEFINE e == [Others EXCEPT ![o] = @ - 1]
  <1>1. HeapOK(h') /\ Counted(h', e)
    BY PutHeap, Facts DEF IInv, nl_object_put
  <1>2. held' \in [Objs -> 0..MaxHeld] /\ leaked' \in [Objs -> Nat]
    BY Facts, ObjectAssumption DEF IInv, nl_object_put
  <1>3. \A x \in Objs : held'[x] + leaked'[x] = e[x]
    BY Facts, ObjectAssumption DEF IInv, nl_object_put
  <1> HIDE DEF e
  <1> QED BY <1>1, <1>2, <1>3, Establish

\* A call after which the application has the references it had before.
LEMMA KeepsOthers ==
    ASSUME IInv, HeapOK(h'), Counted(h', Others), UNCHANGED <<held, leaked>>
    PROVE  IInv'
  <1>1. \A x \in Objs : held'[x] + leaked'[x] = Others[x]
    BY Facts
  <1> QED BY <1>1, Establish DEF IInv

LEMMA CacheAlloc ==
    ASSUME IInv, NEW c \in Caches, NEW b \in BOOLEAN, nl_cache_alloc(c, b)
    PROVE  IInv'
  <1>0. h \in Heap /\ h.bug = FALSE /\ HeapOK(h) /\ Counted(h, Others)
    BY DEF IInv, HeapOK
  <1>1. /\ h'.ref = h.ref /\ h'.key = h.key /\ h'.in = h.in
        /\ h'.linked = h.linked /\ h'.hash = h.hash /\ h'.bug = h.bug
        /\ h'.open = h.open \cup {c}
        /\ h'.hashed = IF b THEN h.hashed \cup {c} ELSE h.hashed \ {c}
        /\ h' \in Heap
    BY <1>0 DEF nl_cache_alloc, Heap
  <1>2. \A o \in Objs : h.in[o] # c
    BY Facts, ObjectAssumption DEF nl_cache_alloc
  <1>3. HeapOK(h')
    <2>1. Matched(h')
      BY <1>0, <1>1, <1>2 DEF HeapOK, Matched
    <2>2. Unique(h') /\ Placed(h')
      BY <1>0, <1>1 DEF HeapOK, Unique, Placed
    <2> QED BY <1>0, <1>1, <2>1, <2>2 DEF HeapOK
  <1>4. Counted(h', Others)
    <2> SUFFICES ASSUME NEW o \in Objs
                 PROVE  h'.ref[o] = Others[o] + CacheRefs(h', o)
      BY <1>0 DEF Counted
    <2>1. CacheRefs(h', o) = CacheRefs(h, o)
      BY <1>1, <1>2 DEF CacheRefs
    <2> QED BY <1>0, <1>1, <2>1 DEF Counted
  <1> QED BY <1>3, <1>4, KeepsOthers DEF nl_cache_alloc

LEMMA CacheAdd ==
    ASSUME IInv, NEW c \in Caches, NEW o \in Objs, NEW mem,
           nl_cache_add(c, o, mem)
    PROVE  IInv'
  <1>1. h.ref[o] > 0 /\ h.in[o] = NoCache /\ c \in h.open
    BY Facts DEF nl_cache_add
  <1>2. HeapOK(h') /\ Counted(h', Others)
    BY <1>1, AddNewHeap DEF IInv, nl_cache_add
  <1> QED BY <1>2, KeepsOthers DEF nl_cache_add

LEMMA CacheAddClone ==
    ASSUME IInv, NEW c \in Caches, NEW o \in Objs, NEW n \in Objs, NEW mem,
           nl_cache_add_clone(c, o, n, mem)
    PROVE  IInv'
  <1> DEFINE s == Alloc(h, n, h.key[o])
             e == [Others EXCEPT ![n] = 1]
  <1>1. h.ref[n] = 0 /\ h.key[o] \in Keys /\ c \in h.open
    BY Facts DEF nl_cache_add_clone, Free, Alive
  <1>2. /\ HeapOK(s) /\ Counted(s, e) /\ Others[n] = 0
        /\ s.in[n] = NoCache /\ s.open = h.open
    BY <1>1, AllocHeap DEF IInv
  <1>3. e[n] > 0 /\ [e EXCEPT ![n] = @ - 1] = Others
    <2>1. Others \in [Objs -> Nat]
      BY Facts
    <2>2. e = [Others EXCEPT ![n] = @ + 1]
      BY <1>2, <2>1
    <2> QED BY <2>1, <2>2, UpDown
  <1>4. h' = IF CanAdd(s, c, n, mem) THEN __cache_add(s, c, n, mem)
             ELSE Put(s, n)
    BY DEF nl_cache_add_clone
  <1> HIDE DEF s, e
  <1>5. HeapOK(h') /\ Counted(h', [e EXCEPT ![n] = @ - 1])
    <2>1. CASE CanAdd(s, c, n, mem)
      <3>1. c \in s.open
        BY <1>1, <1>2
      <3>2. /\ HeapOK(__cache_add(s, c, n, mem))
            /\ Counted(__cache_add(s, c, n, mem), [e EXCEPT ![n] = @ - 1])
        BY <1>2, <1>3, <2>1, <3>1, AddHeap
      <3> QED BY <1>4, <2>1, <3>2
    <2>2. CASE ~CanAdd(s, c, n, mem)
      <3>1. HeapOK(Put(s, n)) /\ Counted(Put(s, n), [e EXCEPT ![n] = @ - 1])
        BY <1>2, <1>3, PutHeap
      <3> QED BY <1>4, <2>2, <3>1
    <2> QED BY <2>1, <2>2
  <1> QED BY <1>3, <1>5, KeepsOthers DEF nl_cache_add_clone

\* After a move that may have left a reference behind.
LEMMA LeakCounted ==
    ASSUME IInv, NEW o \in Objs, NEW fails \in BOOLEAN, Leak(o, fails),
           HeapOK(h'), UNCHANGED held,
           Counted(h', IF fails THEN [Others EXCEPT ![o] = @ + 1] ELSE Others)
    PROVE  IInv'
  <1>1. CASE fails
    <2> DEFINE e == [Others EXCEPT ![o] = @ + 1]
    <2>1. leaked' = [leaked EXCEPT ![o] = @ + 1]
      BY <1>1 DEF Leak
    <2>2. \A x \in Objs : held'[x] + leaked'[x] = e[x]
      BY <2>1, Facts DEF IInv
    <2>3. held' \in [Objs -> 0..MaxHeld] /\ leaked' \in [Objs -> Nat]
      BY <2>1 DEF IInv
    <2>4. Counted(h', e)
      BY <1>1
    <2> HIDE DEF e
    <2> QED BY <2>2, <2>3, <2>4, Establish
  <1>2. CASE ~fails
    BY <1>2, KeepsOthers DEF Leak
  <1> QED BY <1>1, <1>2

LEMMA MoveStep ==
    ASSUME IInv, NEW c \in Caches, NEW o \in Objs, NEW mem,
           c \in h.open, h.ref[o] > 0,
           h' = Move(h, c, o, mem), Leak(o, MoveFails(h, c, o, mem)),
           UNCHANGED held
    PROVE  IInv'
  <1>1. /\ HeapOK(h')
        /\ Counted(h', IF MoveFails(h, c, o, mem)
                       THEN [Others EXCEPT ![o] = @ + 1] ELSE Others)
    BY MoveHeap DEF IInv
  <1>2. MoveFails(h, c, o, mem) \in BOOLEAN
    BY DEF MoveFails
  <1> QED BY <1>1, <1>2, LeakCounted

LEMMA CacheMove ==
    ASSUME IInv, NEW c \in Caches, NEW o \in Objs, NEW mem,
           nl_cache_move(c, o, mem)
    PROVE  IInv'
  <1>1. h.ref[o] > 0
    BY Facts DEF nl_cache_move
  <1> QED BY <1>1, MoveStep DEF nl_cache_move

LEMMA CacheIncludeNew ==
    ASSUME IInv, NEW c \in Caches, NEW o \in Objs, NEW mem,
           IncludeNew(c, o, mem)
    PROVE  IInv'
  <1>1. h.ref[o] > 0
    BY Facts DEF IncludeNew
  <1> QED BY <1>1, MoveStep DEF IncludeNew

LEMMA CacheRemove ==
    ASSUME IInv, NEW o \in Objs, nl_cache_remove(o)
    PROVE  IInv'
  <1>1. HeapOK(h') /\ Counted(h', Others)
    BY RemoveHeap DEF IInv, nl_cache_remove
  <1> QED BY <1>1, KeepsOthers DEF nl_cache_remove

LEMMA CacheSearch ==
    ASSUME IInv, NEW c \in Caches, NEW o \in Objs, nl_cache_search(c, o)
    PROVE  IInv'
  <1>1. h.ref[o] > 0
    BY FoundIn DEF nl_cache_search
  <1> QED BY <1>1, Acquire DEF nl_cache_search

\* The object a search found, removed while the search's reference is held.
LEMMA Displaced ==
    ASSUME IInv, NEW c \in Caches, NEW k, NEW old \in Found(c, k)
    PROVE  LET e1 == [Others EXCEPT ![old] = @ + 1]
               s1 == Remove(Get(h, old), old)
           IN  /\ old \in Objs
               /\ HeapOK(s1) /\ Counted(s1, e1) /\ e1[old] > 0
               /\ [e1 EXCEPT ![old] = @ - 1] = Others
               /\ s1.open = h.open /\ s1.linked = h.linked
  <1> DEFINE e1 == [Others EXCEPT ![old] = @ + 1]
             g == Get(h, old)
  <1>1. old \in Objs /\ h.ref[old] > 0
    BY FoundIn
  <1>2. HeapOK(g) /\ Counted(g, e1) /\ g.open = h.open /\ g.linked = h.linked
    BY <1>1, GetHeap DEF IInv
  <1>3. Others \in [Objs -> Nat]
    BY <1>1, Facts
  <1>4. e1[old] > 0 /\ [e1 EXCEPT ![old] = @ - 1] = Others
    BY <1>1, <1>3, UpDown
  <1> HIDE DEF e1, g
  <1>5. HeapOK(Remove(g, old)) /\ Counted(Remove(g, old), e1)
    BY <1>1, <1>2, RemoveHeap
  <1>6. Remove(g, old).open = g.open /\ Remove(g, old).linked = g.linked
    BY <1>1, <1>2, RemoveHeap
  <1> QED BY <1>1, <1>2, <1>4, <1>5, <1>6 DEF e1, g

LEMMA CacheIncludeDel ==
    ASSUME IInv, NEW c \in Caches, NEW o \in Objs, NEW old \in Objs,
           IncludeDel(c, o, old)
    PROVE  IInv'
  <1> DEFINE e1 == [Others EXCEPT ![old] = @ + 1]
             s1 == Remove(Get(h, old), old)
  <1>1. /\ HeapOK(s1) /\ Counted(s1, e1) /\ e1[old] > 0
        /\ [e1 EXCEPT ![old] = @ - 1] = Others
    BY Displaced DEF IncludeDel
  <1>2. h' = Put(s1, old)
    BY DEF IncludeDel
  <1> HIDE DEF e1, s1
  <1>3. HeapOK(h') /\ Counted(h', Others)
    <2>1. HeapOK(Put(s1, old)) /\ Counted(Put(s1, old), [e1 EXCEPT ![old] = @ - 1])
      BY <1>1, PutHeap
    <2> QED BY <1>1, <1>2, <2>1
  <1> QED BY <1>3, KeepsOthers DEF IncludeDel

LEMMA CachePickupCheckdup ==
    ASSUME IInv, NEW c \in Caches, NEW o \in Objs, NEW old \in Objs, NEW mem,
           PickupCheckdup(c, o, old, mem)
    PROVE  IInv'
  <1> DEFINE e1 == [Others EXCEPT ![old] = @ + 1]
             s1 == Remove(Get(h, old), old)
             s2 == Put(s1, old)
  <1>1. /\ HeapOK(s1) /\ Counted(s1, e1) /\ e1[old] > 0
        /\ [e1 EXCEPT ![old] = @ - 1] = Others
        /\ s1.open = h.open /\ s1.linked = h.linked
    BY Displaced DEF PickupCheckdup
  <1>2. h' = AddNew(s2, c, o, mem)
    BY DEF PickupCheckdup
  <1> HIDE DEF e1, s1
  <1>3. HeapOK(s2) /\ Counted(s2, [e1 EXCEPT ![old] = @ - 1])
        /\ s2.open = s1.open /\ s2.linked = s1.linked
    BY <1>1, PutHeap
  <1> HIDE DEF s2
  <1>4. Counted(s2, Others) /\ c \in s2.open /\ ~s2.linked[o] /\ s2 \in Heap
    BY <1>1, <1>3 DEF PickupCheckdup, HeapOK
  <1>5. s2.in[o] = NoCache
    BY <1>3, <1>4 DEF HeapOK, Placed
  <1>6. s2.ref[o] > 0
    <2>1. s2.ref[o] = Others[o] + CacheRefs(s2, o) /\ CacheRefs(s2, o) \in Nat
      BY <1>4 DEF Counted, CacheRefs
    <2>2. Others[o] > 0 /\ Others[o] \in Nat
      BY Facts DEF PickupCheckdup
    <2> QED BY <2>1, <2>2
  <1>7. HeapOK(h') /\ Counted(h', Others)
    <2>1. HeapOK(AddNew(s2, c, o, mem)) /\ Counted(AddNew(s2, c, o, mem), Others)
      BY <1>3, <1>4, <1>5, <1>6, AddNewHeap
    <2> QED BY <1>2, <2>1
  <1> QED BY <1>7, KeepsOthers DEF PickupCheckdup

LEMMA CacheIncludeChange ==
    ASSUME IInv, NEW c \in Caches, NEW o \in Objs, NEW old \in Objs, NEW mem,
           IncludeChange(c, o, old, mem)
    PROVE  IInv'
  <1> DEFINE e1 == [Others EXCEPT ![old] = @ + 1]
             s1 == Remove(Get(h, old), old)
             fails == MoveFails(s1, c, o, mem)
             e2 == IF fails THEN [e1 EXCEPT ![o] = @ + 1] ELSE e1
             s2 == Move(s1, c, o, mem)
             e3 == IF fails THEN [Others EXCEPT ![o] = @ + 1] ELSE Others
  <1>0. /\ Others \in [Objs -> Nat] /\ Others[o] \in Nat /\ Others[o] > 0
        /\ c \in h.open
    BY Facts DEF IncludeChange
  <1>1. /\ HeapOK(s1) /\ Counted(s1, e1) /\ s1.open = h.open
    BY Displaced DEF IncludeChange
  <1>2. h' = Put(s2, old) /\ Leak(o, fails) /\ UNCHANGED held
    BY DEF IncludeChange
  <1>3. e1 \in [Objs -> Nat] /\ e1[o] > 0 /\ e1[old] = Others[old] + 1
    BY <1>0
  <1> HIDE DEF s1
  <1>4. s1.ref[o] > 0
    <2>1. s1.ref[o] = e1[o] + CacheRefs(s1, o) /\ CacheRefs(s1, o) \in Nat
      BY <1>1 DEF Counted, CacheRefs
    <2> QED BY <1>3, <2>1
  <1>5. HeapOK(s2) /\ Counted(s2, e2)
    <2> HIDE DEF e1
    <2> QED BY <1>0, <1>1, <1>4, MoveHeap
  <1>6. e2[old] > 0 /\ [e2 EXCEPT ![old] = @ - 1] = e3
    <2>1. e3 \in [Objs -> Nat]
      BY <1>0
    <2>2. e2 = [e3 EXCEPT ![old] = @ + 1]
      <3>1. CASE fails
        <4>1. e2 = [[Others EXCEPT ![old] = @ + 1] EXCEPT ![o] = @ + 1]
              /\ e3 = [Others EXCEPT ![o] = @ + 1]
          BY <3>1
        <4> QED BY <1>0, <4>1
      <3>2. CASE ~fails
        BY <3>2
      <3> QED BY <3>1, <3>2
    <2> HIDE DEF e2, e3
    <2> QED BY <2>1, <2>2, UpDown
  <1> HIDE DEF s2, e2
  <1>7. HeapOK(h') /\ Counted(h', e3)
    <2>1. HeapOK(Put(s2, old)) /\ Counted(Put(s2, old), [e2 EXCEPT ![old] = @ - 1])
      BY <1>5, <1>6, PutHeap
    <2> QED BY <1>2, <1>6, <2>1
  <1>8. fails \in BOOLEAN
    BY DEF MoveFails
  <1> HIDE DEF fails
  <1> QED BY <1>2, <1>7, <1>8, LeakCounted

LEMMA CacheClear ==
    ASSUME IInv, NEW c \in Caches, nl_cache_clear(c)
    PROVE  IInv'
  <1>1. HeapOK(h') /\ Counted(h', Others)
    BY ClearHeap DEF IInv, nl_cache_clear
  <1> QED BY <1>1, KeepsOthers DEF nl_cache_clear

LEMMA CacheFree ==
    ASSUME IInv, NEW c \in Caches, nl_cache_free(c)
    PROVE  IInv'
  <1> DEFINE s == Cleared(h, c)
  <1>1. HeapOK(s) /\ Counted(s, Others) /\ s \in Heap
    BY ClearHeap DEF IInv
  <1>2. \A o \in Objs : s.in[o] # c
    BY ClearHeap DEF IInv
  <1>3. h' = [s EXCEPT !.open = @ \ {c}]
    BY DEF nl_cache_free
  <1> HIDE DEF s
  <1>4. /\ h'.ref = s.ref /\ h'.key = s.key /\ h'.in = s.in
        /\ h'.linked = s.linked /\ h'.hash = s.hash /\ h'.bug = s.bug
        /\ h'.open = s.open \ {c} /\ h'.hashed = s.hashed
        /\ h' \in Heap
    BY <1>1, <1>3 DEF Heap
  <1>5. HeapOK(h')
    <2>1. Matched(h') /\ Unique(h')
      BY <1>1, <1>4 DEF HeapOK, Matched, Unique
    <2>2. Placed(h')
      BY <1>1, <1>2, <1>4 DEF HeapOK, Placed
    <2> QED BY <1>1, <1>4, <2>1, <2>2 DEF HeapOK
  <1>6. Counted(h', Others)
    BY <1>1, <1>4 DEF Counted, CacheRefs
  <1> QED BY <1>5, <1>6, KeepsOthers DEF nl_cache_free

-----------------------------------------------------------------------------
(* The inductive invariant and what it implies.                            *)

LEMMA InitIInv == Init => IInv
  <1> SUFFICES ASSUME Init PROVE IInv
    OBVIOUS
  <1>1. /\ h.ref = [o \in Objs |-> 0] /\ h.in = [o \in Objs |-> NoCache]
        /\ h.hash = [c \in Caches |-> {}] /\ h.bug = FALSE /\ h.hashed = {}
    BY DEF Init
  <1>2. (CHOOSE k \in Keys : TRUE) \in Keys
    BY ObjectAssumption
  <1>3. h \in Heap
    BY <1>2 DEF Init, Heap
  <1>4. HeapOK(h)
    BY <1>1, <1>3 DEF HeapOK, Matched, Unique, Placed
  <1>5. /\ held \in [Objs -> 0..MaxHeld] /\ leaked \in [Objs -> Nat]
        /\ \A o \in Objs : held[o] = 0 /\ leaked[o] = 0
    BY ObjectAssumption DEF Init
  <1>6. Others \in [Objs -> Nat] /\ \A o \in Objs : Others[o] = 0
    BY <1>5 DEF Others
  <1>7. Counted(h, Others)
    BY <1>1, <1>6 DEF Counted, CacheRefs
  <1> QED BY <1>4, <1>5, <1>7 DEF IInv

LEMMA StepIInv == IInv /\ [Next]_vars => IInv'
  <1> SUFFICES ASSUME IInv, [Next]_vars PROVE IInv'
    OBVIOUS
  <1>1. ASSUME NEW o \in Objs, NEW k \in Keys, nl_object_alloc(o, k) PROVE IInv'
    BY <1>1, ObjectAlloc
  <1>2. ASSUME NEW o \in Objs, NEW n \in Objs, nl_object_clone(o, n) PROVE IInv'
    BY <1>2, ObjectClone
  <1>3. ASSUME NEW o \in Objs, nl_object_get(o) \/ nl_object_put(o) PROVE IInv'
    BY <1>3, ObjectGet, ObjectPut
  <1>4. ASSUME NEW c \in Caches, NEW b \in BOOLEAN, nl_cache_alloc(c, b)
        PROVE  IInv'
    BY <1>4, CacheAlloc
  <1>5. ASSUME NEW c \in Caches, NEW o \in Objs, NEW mem \in BOOLEAN,
               \/ nl_cache_add(c, o, mem)
               \/ nl_cache_move(c, o, mem)
               \/ IncludeNew(c, o, mem)
        PROVE  IInv'
    BY <1>5, CacheAdd, CacheMove, CacheIncludeNew
  <1>6. ASSUME NEW c \in Caches, NEW o \in Objs, NEW mem \in BOOLEAN,
               NEW n \in Objs,
               \/ nl_cache_add_clone(c, o, n, mem)
               \/ IncludeChange(c, o, n, mem)
               \/ PickupCheckdup(c, o, n, mem)
        PROVE  IInv'
    BY <1>6, CacheAddClone, CacheIncludeChange, CachePickupCheckdup
  <1>7. ASSUME NEW c \in Caches, NEW o \in Objs, NEW n \in Objs,
               IncludeDel(c, o, n)
        PROVE  IInv'
    BY <1>7, CacheIncludeDel
  <1>8. ASSUME NEW c \in Caches, NEW o \in Objs, nl_cache_search(c, o)
        PROVE  IInv'
    BY <1>8, CacheSearch
  <1>9. ASSUME NEW o \in Objs, nl_cache_remove(o) PROVE IInv'
    BY <1>9, CacheRemove
  <1>10. ASSUME NEW c \in Caches, nl_cache_clear(c) \/ nl_cache_free(c)
         PROVE  IInv'
    BY <1>10, CacheClear, CacheFree
  <1>11. CASE UNCHANGED vars
    BY <1>11 DEF vars, IInv, Others
  <1> QED
    BY <1>1, <1>2, <1>3, <1>4, <1>5, <1>6, <1>7, <1>8, <1>9, <1>10, <1>11
    DEF Next

\* The inductive invariant holds for any number of objects and caches.
THEOREM Invariance == Spec => []IInv
  BY InitIInv, StepIInv, PTL DEF Spec

\* Each object is a node of the one hash table its list belongs to.
LEMMA NodesCounted ==
    ASSUME IInv, NEW o \in Objs
    PROVE  CacheRefs(h, o) = (IF h.in[o] = NoCache THEN 0 ELSE 1)
                                 + Cardinality(Nodes(o))
  <1>1. \A c \in Caches : c \in Nodes(o) <=> c \in h.hashed /\ h.in[o] = c
    BY DEF Nodes, IInv, HeapOK, Matched
  <1>2. Nodes(o) \subseteq Caches
    BY DEF Nodes
  <1>3. CASE h.in[o] # NoCache /\ h.in[o] \in h.hashed
    <2>1. Nodes(o) = {h.in[o]}
      BY <1>1, <1>2, <1>3, Facts
    <2>2. Cardinality(Nodes(o)) = 1
      BY <2>1, FS_Singleton
    <2> QED BY <1>3, <2>2 DEF CacheRefs
  <1>4. CASE ~(h.in[o] # NoCache /\ h.in[o] \in h.hashed)
    <2>1. Nodes(o) = {}
      BY <1>1, <1>2, <1>4, ObjectAssumption
    <2>2. Cardinality(Nodes(o)) = 0
      BY <2>1, FS_EmptySet
    <2> QED BY <1>4, <2>2 DEF CacheRefs
  <1> QED BY <1>3, <1>4

\* ce_refcnt, ce_cache and the hash nodes have their types, and no hash table
\* holds two identical objects: nl_hash_table_add() refuses the second one.
THEOREM TypeCorrect == Spec => []TypeOK
  <1>1. IInv => TypeOK
    BY DEF IInv, HeapOK, Unique, TypeOK
  <1> QED BY <1>1, Invariance, PTL

\* The reference count of every object is the number of references there are,
\* whichever calls of cache.c are refused or run out of memory.
THEOREM RefsAlwaysCounted == Spec => []RefsCounted
  <1>1. IInv => RefsCounted
    <2> SUFFICES ASSUME IInv, NEW o \in Objs PROVE h.ref[o] = References(o)
      BY DEF RefsCounted
    <2>1. h.ref[o] = held[o] + leaked[o] + CacheRefs(h, o)
      BY Facts DEF IInv, Counted
    <2>2. /\ held[o] \in Int /\ leaked[o] \in Int
          /\ Cardinality(Nodes(o)) \in Int
      <3>1. IsFiniteSet(Nodes(o))
        BY FS_Subset, ObjectAssumption DEF Nodes
      <3> QED BY <3>1, FS_CardinalityType, Facts, ObjectAssumption
    <2> QED BY <2>1, <2>2, NodesCounted DEF References
  <1> QED BY <1>1, Invariance, PTL

\* No call touches a freed object or frees one that is in a list, and the
\* BUG() of nl_object_put() is out of reach.
THEOREM NeverBug == Spec => []NoBug
  <1>1. IInv => NoBug
    BY DEF IInv, HeapOK, NoBug
  <1> QED BY <1>1, Invariance, PTL

\* The hash table of a cache finds exactly the objects of its list.
THEOREM HashAgreesWithList == Spec => []HashMatchesList
  <1>1. IInv => HashMatchesList
    <2> SUFFICES ASSUME IInv, NEW c \in h.open
                 PROVE  h.hash[c] = IF c \in h.hashed THEN Items(h, c) ELSE {}
      BY DEF HashMatchesList
    <2>1. c \in Caches /\ h.hash[c] \subseteq Objs
      BY DEF IInv, HeapOK, Heap
    <2>2. \A o \in Objs : o \in h.hash[c] <=> c \in h.hashed /\ h.in[o] = c
      BY <2>1 DEF IInv, HeapOK, Matched
    <2> QED BY <2>1, <2>2 DEF Items
  <1> QED BY <1>1, Invariance, PTL
=============================================================================
