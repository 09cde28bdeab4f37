------------------------- MODULE NlCacheMngr_proofs -------------------------
(***************************************************************************)
(* The cache manager's registry, subscriptions and caches, for any types,  *)
(* objects, receive buffer and bounds.                                     *)
(***************************************************************************)
EXTENDS NlCacheMngr, NlInduction, SequenceTheorems, TLAPS

USE DEF dumpVars, Return

-----------------------------------------------------------------------------
(* The invariants.                                                         *)

\* A cache is being added.
Adding == pc \in {"join", "dump"} /\ cur \notin ManagedTypes

\* t shares its objects with no other type.
Own(t) == \A u \in Types \ {t} : ObjOf[u] # ObjOf[t]

\* A type is in use exactly while a cache of it is provided, and is then in
\* the list.
RegistryOK(r) ==
    /\ r \in Registry
    /\ \A t \in Types : r.ref[t] = IF r.major[t] = NoType THEN 0 ELSE 1
    /\ \A t \in Types : r.major[t] # NoType => Registered(r, t)

\* The associations and the registry.
Assocs ==
    /\ \A i, j \in DOMAIN assocs : assocs[i] = assocs[j] => i = j
    /\ RegistryOK(reg)
    /\ Adding => Registered(reg, cur) /\ Len(assocs) < nassocs
    /\ provide => \A t \in ManagedTypes : Own(t) => reg.major[t] = t

\* Where a call is.
Calls ==
    /\ pc = "join" => cur \notin ManagedTypes
    /\ pc = "dump" /\ cur \in ManagedTypes => cur \in lost
    /\ pc # "dump" => todo = {}
    /\ \A k \in todo : table[k] # None
    /\ pc = "free" => lost = {}
    /\ pc # "idle" \/ assocs # <<>> => mngr = "on"

\* The memberships of a cache being added.
Joining ==
    Adding => \A j \in DOMAIN GroupsOf[cur] :
                 pc = "dump" \/ j < grp => GroupsOf[cur][j] \in joined

\* TypeOK in two parts: what has structure, and the rest.
Data ==
    /\ assocs \in Seq(Types) /\ nassocs \in Nat /\ Len(assocs) <= nassocs
    /\ joined \subseteq Groups
    /\ reg \in Registry
    /\ cache \in Contents
    /\ cur \in Types /\ grp \in Nat \ {0}
    /\ todo \subseteq KeysOf(cur)
    /\ evq \in Seq([key : Keys, val : Vals \cup {None}])
    /\ Len(evq) <= RcvBuf
    /\ table \in [Keys -> Vals \cup {None}]
    /\ lost \subseteq ManagedTypes /\ doubled \subseteq Types
    /\ seen \in [Keys -> SUBSET (Vals \cup {None})]

Flags ==
    /\ mngr \in {"none", "on", "doublefree", "nullpointer"}
    /\ pc \in {"idle", "join", "dump", "ready", "free"} /\ provide \in BOOLEAN
    /\ dirty \in BOOLEAN /\ err \in BOOLEAN /\ congested \in BOOLEAN
    /\ drained \in BOOLEAN
    /\ changes \in Nat /\ fails \in Nat /\ unregs \in Nat /\ allocs \in Nat

BInv == Data /\ Flags /\ Assocs /\ Calls /\ Joining /\ KeepsSubscribed

\* BUG() was reached: the manager is being freed and the type of its first
\* cache, which was not provided, is gone.
Stuck ==
    /\ ~provide /\ pc = "free" /\ assocs # <<>>
    /\ lookup_for_obj(reg, Head(assocs)) = NoType

\* References to the caches: the manager has one, the registry another if it
\* was provided.
RInv ==
    /\ reg.bug => Stuck
    /\ \A t \in Types :
          reg.major[t] = IF provide /\ t \in ManagedTypes THEN t ELSE NoType
    /\ \A t \in ManagedTypes : reg.cref[t] = IF provide THEN 2 ELSE 1
    /\ Adding => reg.cref[cur] = 1

-----------------------------------------------------------------------------
(* The registry.                                                           *)

\* cache_ops_lookup_for_obj() finds a registered type with these objects.
LEMMA LookupFinds ==
    ASSUME NEW r \in Registry, NEW c \in Types
    PROVE  \/ /\ lookup_for_obj(r, c) = NoType
              /\ \A t \in Types : ObjOf[t] = ObjOf[c] => ~Registered(r, t)
           \/ /\ lookup_for_obj(r, c) \in Types
              /\ ObjOf[lookup_for_obj(r, c)] = ObjOf[c]
              /\ Registered(r, lookup_for_obj(r, c))
  <1> DEFINE found == {i \in DOMAIN r.list : ObjOf[r.list[i]] = ObjOf[c]}
  <1>0. r.list \in Seq(Types)
    BY DEF Registry
  <1>1. CASE found = {}
    BY <1>1 DEF lookup_for_obj, Registered
  <1>2. CASE found # {}
    <2>1. found \subseteq Nat
      BY <1>0
    <2>2. \E i \in found : \A j \in found : i <= j
      BY <1>2, <2>1, LeastElement
    <2>3. PICK i \in found : lookup_for_obj(r, c) = r.list[i]
      BY <1>2, <2>2 DEF lookup_for_obj
    <2>4. r.list[i] \in Types /\ ObjOf[r.list[i]] = ObjOf[c] /\ i \in DOMAIN r.list
      BY <1>0
    <2> QED BY <2>3, <2>4 DEF Registered
  <1> QED BY <1>1, <1>2

\* For a type that shares its objects with no other, it finds that type.
LEMMA LookupOwn ==
    ASSUME NEW r \in Registry, NEW c \in Types, Own(c), Registered(r, c)
    PROVE  lookup_for_obj(r, c) = c
  BY LookupFinds DEF Own

LEMMA AnyTypeOK == AnyType \in Types
  BY MngrAssumption DEF AnyType

\* What each call does to the registry, field by field.
LEMMA GetCache ==
    ASSUME NEW r \in Registry, NEW c \in Types
    PROVE  /\ nl_cache_get(r, c) \in Registry
           /\ nl_cache_get(r, c).list = r.list
           /\ nl_cache_get(r, c).ref = r.ref
           /\ nl_cache_get(r, c).major = r.major
           /\ r.cref[c] > 0 =>
                 /\ nl_cache_get(r, c).bug = r.bug
                 /\ nl_cache_get(r, c).cref[c] = r.cref[c] + 1
                 /\ \A u \in Types : u # c => nl_cache_get(r, c).cref[u] = r.cref[u]
  <1> DEFINE f == [r.cref EXCEPT ![c] = @ + 1]
             g == nl_cache_get(r, c)
  <1>1. r.cref \in [Types -> Nat] /\ r.cref[c] \in Nat
    BY DEF Registry
  <1>2. CASE r.cref[c] > 0
    <2>1. f \in [Types -> Nat]
      BY <1>1, <1>2
    <2>2. g = [r EXCEPT !.cref = f]
      BY <1>2 DEF nl_cache_get
    <2>3. f[c] = r.cref[c] + 1 /\ \A u \in Types : u # c => f[u] = r.cref[u]
      BY <1>1
    <2> HIDE DEF f, g
    <2>4. /\ g \in Registry /\ g.list = r.list /\ g.ref = r.ref
          /\ g.major = r.major /\ g.bug = r.bug /\ g.cref = f
      BY <2>1, <2>2 DEF Registry
    <2> QED BY <1>2, <2>3, <2>4 DEF g
  <1>3. CASE ~(r.cref[c] > 0)
    <2>1. g = [r EXCEPT !.bug = TRUE]
      BY <1>3 DEF nl_cache_get
    <2> HIDE DEF g
    <2>2. /\ g \in Registry /\ g.list = r.list /\ g.ref = r.ref
          /\ g.major = r.major
      BY <2>1 DEF Registry
    <2> QED BY <1>3, <2>2 DEF g
  <1> QED BY <1>2, <1>3

LEMMA FreeCref ==
    ASSUME NEW r \in Registry, NEW c \in Types
    PROVE  /\ nl_cache_free(r, c) \in Registry
           /\ nl_cache_free(r, c).list = r.list
           /\ nl_cache_free(r, c).ref = r.ref
           /\ nl_cache_free(r, c).major = r.major
           /\ r.cref[c] > 0 =>
                 /\ nl_cache_free(r, c).bug = r.bug
                 /\ nl_cache_free(r, c).cref[c] = r.cref[c] - 1
                 /\ \A u \in Types : u # c => nl_cache_free(r, c).cref[u] = r.cref[u]
  <1> DEFINE f == [r.cref EXCEPT ![c] = @ - 1]
             g == nl_cache_free(r, c)
  <1>1. r.cref \in [Types -> Nat] /\ r.cref[c] \in Nat
    BY DEF Registry
  <1>2. CASE r.cref[c] > 0
    <2>1. f \in [Types -> Nat]
      BY <1>1, <1>2
    <2>2. g = [r EXCEPT !.cref = f]
      BY <1>2 DEF nl_cache_free
    <2>3. f[c] = r.cref[c] - 1 /\ \A u \in Types : u # c => f[u] = r.cref[u]
      BY <1>1
    <2> HIDE DEF f, g
    <2>4. /\ g \in Registry /\ g.list = r.list /\ g.ref = r.ref
          /\ g.major = r.major /\ g.bug = r.bug /\ g.cref = f
      BY <2>1, <2>2 DEF Registry
    <2> QED BY <1>2, <2>3, <2>4 DEF g
  <1>3. CASE ~(r.cref[c] > 0)
    <2>1. g = [r EXCEPT !.bug = TRUE]
      BY <1>3 DEF nl_cache_free
    <2> HIDE DEF g
    <2>2. /\ g \in Registry /\ g.list = r.list /\ g.ref = r.ref
          /\ g.major = r.major
      BY <2>1 DEF Registry
    <2> QED BY <1>3, <2>2 DEF g
  <1> QED BY <1>2, <1>3

\* Providing a cache: its type is in use, and remembers the cache.
LEMMA Provide ==
    ASSUME NEW r, RegistryOK(r), NEW c \in Types, Registered(r, c),
           NEW p, p = nl_cache_mngt_provide(r, c),
           NEW t, t = lookup_for_obj(r, c)
    PROVE  /\ RegistryOK(p) /\ p.list = r.list
           /\ t \in Types /\ ObjOf[t] = ObjOf[c]
           /\ p.major[t] = c
           /\ \A u \in Types : u # t => p.major[u] = r.major[u]
           /\ r.cref[c] > 0 =>
                 /\ p.bug = r.bug /\ p.cref[c] = r.cref[c] + 1
                 /\ \A u \in Types : u # c => p.cref[u] = r.cref[u]
  <1> DEFINE r1 == nl_cache_get(r, c)
             ref == [r.ref EXCEPT ![t] = IF r.major[t] = NoType THEN @ + 1 ELSE @]
             major == [r.major EXCEPT ![t] = c]
  <1>1. r \in Registry
    BY DEF RegistryOK
  <1>2. t \in Types /\ ObjOf[t] = ObjOf[c] /\ Registered(r, t) /\ t # NoType
    BY <1>1, LookupFinds, MngtAssumption
  <1>3. p = [r1 EXCEPT !.ref[t] = IF r.major[t] = NoType THEN @ + 1 ELSE @,
                       !.major[t] = c]
    BY <1>2 DEF nl_cache_mngt_provide
  <1>4. /\ r1 \in Registry /\ r1.list = r.list /\ r1.ref = r.ref
        /\ r1.major = r.major
        /\ r.cref[c] > 0 => /\ r1.bug = r.bug
                            /\ r1.cref[c] = r.cref[c] + 1
                            /\ \A u \in Types : u # c => r1.cref[u] = r.cref[u]
    BY <1>1, GetCache
  <1>5. p = [r1 EXCEPT !.ref = ref, !.major = major]
    BY <1>3, <1>4
  <1>6. r.ref \in [Types -> Nat] /\ r.major \in [Types -> Types \cup {NoType}]
    BY <1>1 DEF Registry
  <1>7. ref \in [Types -> Nat] /\ major \in [Types -> Types \cup {NoType}]
    BY <1>2, <1>6
  <1>8. \A u \in Types : ref[u] = IF major[u] = NoType THEN 0 ELSE 1
    BY <1>2, <1>6, MngtAssumption DEF RegistryOK
  <1>9. \A u \in Types : major[u] # NoType => Registered(r, u)
    BY <1>2, <1>6 DEF RegistryOK
  <1> HIDE DEF r1, ref, major
  <1>10. /\ p \in Registry /\ p.list = r.list /\ p.ref = ref
         /\ p.major = major /\ p.bug = r1.bug /\ p.cref = r1.cref
    BY <1>4, <1>5, <1>7 DEF Registry
  <1>11. RegistryOK(p)
    BY <1>8, <1>9, <1>10 DEF RegistryOK, Registered
  <1>12. p.major[t] = c /\ \A u \in Types : u # t => p.major[u] = r.major[u]
    BY <1>2, <1>6, <1>10 DEF major
  <1> QED BY <1>2, <1>4, <1>10, <1>11, <1>12

\* Unproviding a cache: its type is no longer in use, if it was the one.
LEMMA Unprovide ==
    ASSUME NEW r, RegistryOK(r), NEW c \in Types,
           NEW p, p = nl_cache_mngt_unprovide(r, c),
           NEW t, t = lookup_for_obj(r, c)
    PROVE  /\ RegistryOK(p) /\ p.list = r.list
           /\ \A u \in Types : u # t => p.major[u] = r.major[u]
           /\ t \in Types => ObjOf[t] = ObjOf[c]
           /\ t \in Types /\ r.major[t] = c /\ r.cref[c] > 0 =>
                 /\ p.bug = r.bug /\ p.major[t] = NoType
                 /\ p.cref[c] = r.cref[c] - 1
                 /\ \A u \in Types : u # c => p.cref[u] = r.cref[u]
  <1> DEFINE r1 == nl_cache_free(r, c)
             ref == [r.ref EXCEPT ![t] = @ - 1]
             major == [r.major EXCEPT ![t] = NoType]
  <1>1. r \in Registry
    BY DEF RegistryOK
  <1>2. \/ t = NoType
        \/ t \in Types /\ ObjOf[t] = ObjOf[c] /\ Registered(r, t) /\ t # NoType
    BY <1>1, LookupFinds, MngtAssumption
  <1>3. CASE t = NoType
    <2>1. p = [r EXCEPT !.bug = TRUE] /\ t \notin Types
      BY <1>3, MngtAssumption DEF nl_cache_mngt_unprovide
    <2>2. /\ p \in Registry /\ p.list = r.list /\ p.ref = r.ref
          /\ p.major = r.major
      BY <1>1, <2>1 DEF Registry
    <2>3. RegistryOK(p)
      BY <2>2 DEF RegistryOK, Registered
    <2> QED BY <2>1, <2>2, <2>3
  <1>4. CASE t # NoType /\ r.major[t] # c
    <2>1. p = r
      BY <1>4 DEF nl_cache_mngt_unprovide
    <2> QED BY <1>2, <1>4, <2>1
  <1>5. CASE t # NoType /\ r.major[t] = c
    <2>1. p = [r1 EXCEPT !.ref[t] = @ - 1, !.major[t] = NoType]
      BY <1>5 DEF nl_cache_mngt_unprovide
    <2>2. /\ r1 \in Registry /\ r1.list = r.list /\ r1.ref = r.ref
          /\ r1.major = r.major
          /\ r.cref[c] > 0 => /\ r1.bug = r.bug
                              /\ r1.cref[c] = r.cref[c] - 1
                              /\ \A u \in Types : u # c => r1.cref[u] = r.cref[u]
      BY <1>1, FreeCref
    <2>3. p = [r1 EXCEPT !.ref = ref, !.major = major]
      BY <2>1, <2>2
    <2>4. r.ref \in [Types -> Nat] /\ r.major \in [Types -> Types \cup {NoType}]
      BY <1>1 DEF Registry
    <2>5. r.ref[t] = 1
      BY <1>2, <1>5, MngtAssumption DEF RegistryOK
    <2>6. ref \in [Types -> Nat] /\ major \in [Types -> Types \cup {NoType}]
      BY <1>2, <1>5, <2>4, <2>5
    <2>7. \A u \in Types : ref[u] = IF major[u] = NoType THEN 0 ELSE 1
      BY <1>2, <1>5, <2>4, <2>5 DEF RegistryOK
    <2>8. /\ \A u \in Types : major[u] # NoType => Registered(r, u)
          /\ \A u \in Types : u # t => major[u] = r.major[u]
      BY <1>2, <1>5, <2>4 DEF RegistryOK
    <2> HIDE DEF r1, ref, major
    <2>9. /\ p \in Registry /\ p.list = r.list /\ p.ref = ref
          /\ p.major = major /\ p.bug = r1.bug /\ p.cref = r1.cref
      BY <2>2, <2>3, <2>6 DEF Registry
    <2>10. RegistryOK(p)
      BY <2>7, <2>8, <2>9 DEF RegistryOK, Registered
    <2>11. /\ \A u \in Types : u # t => p.major[u] = r.major[u]
           /\ t \in Types => ObjOf[t] = ObjOf[c]
           /\ r.cref[c] > 0 =>
                 /\ p.bug = r.bug
                 /\ p.cref[c] = r.cref[c] - 1
                 /\ \A u \in Types : u # c => p.cref[u] = r.cref[u]
      BY <1>2, <1>5, <2>2, <2>8, <2>9
    <2>12. t \in Types => p.major[t] = NoType
      BY <2>4, <2>9 DEF major
    <2> QED BY <2>9, <2>10, <2>11, <2>12
  <1> QED BY <1>3, <1>4, <1>5

LEMMA RegisterOK ==
    ASSUME NEW r, RegistryOK(r), NEW t \in Types
    PROVE  LET p == Register(r, t)
           IN  /\ RegistryOK(p) /\ p.major = r.major /\ p.cref = r.cref
               /\ p.bug = r.bug
  <1> DEFINE p == Register(r, t)
             list == << t >> \o r.list
             ref == [r.ref EXCEPT ![t] = 0]
  <1>1. r \in Registry
    BY DEF RegistryOK
  <1>2. CASE Registered(r, t)
    BY <1>2 DEF Register
  <1>3. CASE ~Registered(r, t)
    <2>1. p = [r EXCEPT !.list = list, !.ref = ref]
      BY <1>3 DEF Register
    <2>2. /\ r.list \in Seq(Types) /\ r.ref \in [Types -> Nat]
      BY <1>1 DEF Registry
    <2>3. list \in Seq(Types) /\ ref \in [Types -> Nat]
      BY <2>2
    <2>4. ASSUME NEW i \in DOMAIN r.list
          PROVE  i + 1 \in DOMAIN list /\ list[i + 1] = r.list[i]
      BY <2>2
    <2>5. r.ref[t] = 0
      <3>1. r.major[t] = NoType
        BY <1>3 DEF RegistryOK
      <3> QED BY <3>1 DEF RegistryOK
    <2>6. ref = r.ref
      BY <2>2, <2>5
    <2> HIDE DEF p, list, ref
    <2>7. /\ p \in Registry /\ p.list = list /\ p.ref = r.ref
          /\ p.major = r.major /\ p.bug = r.bug /\ p.cref = r.cref
      BY <1>1, <2>1, <2>3, <2>6 DEF Registry
    <2>8. \A u \in Types : Registered(r, u) => Registered(p, u)
      BY <2>4, <2>7 DEF Registered
    <2>9. RegistryOK(p)
      BY <2>7, <2>8 DEF RegistryOK
    <2> QED BY <2>7, <2>9 DEF p
  <1> QED BY <1>2, <1>3

\* A type in use is not unregistered.
LEMMA UnregisterOK ==
    ASSUME NEW r, RegistryOK(r), NEW t \in Types
    PROVE  LET p == Unregister(r, t)
           IN  /\ RegistryOK(p) /\ p.major = r.major /\ p.cref = r.cref
               /\ p.bug = r.bug
  <1> DEFINE p == Unregister(r, t)
             n == CHOOSE i \in DOMAIN r.list : r.list[i] = t
             s == r.list
             list == SubSeq(s, 1, n - 1) \o SubSeq(s, n + 1, Len(s))
  <1>1. r \in Registry
    BY DEF RegistryOK
  <1>2. CASE r.ref[t] > 0 \/ ~Registered(r, t)
    BY <1>2 DEF Unregister
  <1>3. CASE ~(r.ref[t] > 0) /\ Registered(r, t)
    <2>1. p = [r EXCEPT !.list = list]
      BY <1>3 DEF Unregister
    <2>2. s \in Seq(Types)
      BY <1>1 DEF Registry
    <2>3. n \in DOMAIN s /\ s[n] = t
      BY <1>3 DEF Registered
    <2> HIDE DEF n
    <2>4. n \in 1..Len(s) /\ Len(s) \in Nat
      BY <2>2, <2>3
    <2>5. /\ list \in Seq(Types) /\ Len(list) = Len(s) - 1
          /\ \A i \in 1..(n - 1) : list[i] = s[i]
          /\ \A i \in n..(Len(s) - 1) : list[i] = s[i + 1]
      <3> DEFINE a == SubSeq(s, 1, n - 1)
                 b == SubSeq(s, n + 1, Len(s))
      <3>1. /\ a \in Seq(Types) /\ Len(a) = n - 1
            /\ \A i \in 1..(n - 1) : a[i] = s[i]
        BY <2>2, <2>4
      <3>2. /\ b \in Seq(Types) /\ Len(b) = Len(s) - n
            /\ \A i \in 1..(Len(s) - n) : b[i] = s[n + i]
        BY <2>2, <2>4
      <3> HIDE DEF a, b
      <3>3. /\ a \o b \in Seq(Types) /\ Len(a \o b) = Len(s) - 1
            /\ \A i \in 1..(n - 1) : (a \o b)[i] = a[i]
            /\ \A i \in n..(Len(s) - 1) : (a \o b)[i] = b[i - (n - 1)]
        <4>1. /\ a \o b \in Seq(Types) /\ Len(a \o b) = Len(a) + Len(b)
              /\ \A i \in 1..Len(a) : (a \o b)[i] = a[i]
              /\ \A i \in (Len(a) + 1)..(Len(a) + Len(b)) :
                    (a \o b)[i] = b[i - Len(a)]
          <5>1. a \in Seq(Types) /\ b \in Seq(Types)
                /\ Len(a) \in Nat /\ Len(b) \in Nat
            BY <3>1, <3>2
          <5>2. /\ a \o b \in Seq(Types) /\ Len(a \o b) = Len(a) + Len(b)
                /\ \A i \in 1..(Len(a) + Len(b)) : (a \o b)[i] =
                      IF i <= Len(a) THEN a[i] ELSE b[i - Len(a)]
            BY <5>1, ConcatProperties
          <5> QED BY <5>1, <5>2
        <4>2. Len(a) = n - 1 /\ Len(a) + 1 = n /\ Len(a) + Len(b) = Len(s) - 1
          BY <2>4, <3>1, <3>2
        <4> QED BY <4>1, <4>2
      <3>4. \A i \in n..(Len(s) - 1) : b[i - (n - 1)] = s[i + 1]
        <4> SUFFICES ASSUME NEW i \in n..(Len(s) - 1)
                     PROVE  b[i - (n - 1)] = s[i + 1]
          OBVIOUS
        <4>1. /\ i - (n - 1) \in 1..(Len(s) - n)
              /\ n + (i - (n - 1)) = i + 1
          BY <2>4
        <4> QED BY <3>2, <4>1
      <3> QED BY <3>1, <3>3, <3>4 DEF a, b
    <2> HIDE DEF list, p
    <2>6. ASSUME NEW u \in Types, Registered(r, u), u # t
          PROVE  \E i \in DOMAIN list : list[i] = u
      <3>1. PICK i \in 1..Len(s) : s[i] = u
        BY <2>2, <2>6 DEF Registered
      <3>2. DOMAIN list = 1..(Len(s) - 1)
        BY <2>5
      <3>3. CASE i < n
        <4>1. i \in 1..(n - 1) /\ i \in DOMAIN list
          BY <2>4, <3>2, <3>3
        <4>2. list[i] = s[i]
          BY <2>5, <4>1
        <4> QED BY <3>1, <4>1, <4>2
      <3>4. CASE i > n
        <4>1. i - 1 \in n..(Len(s) - 1) /\ i - 1 \in DOMAIN list /\ (i - 1) + 1 = i
          BY <2>4, <3>2, <3>4
        <4>2. list[i - 1] = s[(i - 1) + 1]
          BY <2>5, <4>1
        <4> QED BY <3>1, <4>1, <4>2
      <3> QED BY <2>3, <2>4, <2>6, <3>1, <3>3, <3>4
    <2>7. r.major[t] = NoType
      BY <1>3 DEF RegistryOK
    <2> HIDE DEF s
    <2>8. /\ p \in Registry /\ p.list = list /\ p.ref = r.ref
          /\ p.major = r.major /\ p.bug = r.bug /\ p.cref = r.cref
      BY <1>1, <2>1, <2>5 DEF Registry
    <2>9. RegistryOK(p)
      BY <2>6, <2>7, <2>8 DEF RegistryOK, Registered
    <2> QED BY <2>8, <2>9 DEF p
  <1> QED BY <1>2, <1>3

-----------------------------------------------------------------------------
(* The caches.                                                             *)

\* nl_cache_clear() of the cache of one type.
LEMMA ClearType ==
    ASSUME NEW c \in Contents, NEW t
    PROVE  [k \in Keys |-> IF TypeOf[k] = t THEN <<>> ELSE c[k]] \in Contents
  <1> DEFINE S == [val : Vals, mark : BOOLEAN]
  <1>1. c \in [Keys -> Seq(S)]
    BY DEF Contents
  <1> HIDE DEF S
  <1>2. [k \in Keys |-> IF TypeOf[k] = t THEN <<>> ELSE c[k]] \in [Keys -> Seq(S)]
    BY <1>1
  <1> QED BY <1>2 DEF Contents, S

LEMMA ObjectType ==
    ASSUME NEW v \in Vals
    PROVE  Object(v) \in [val : Vals, mark : BOOLEAN] /\ Object(v).val = v
  BY DEF Object

\* __cache_add() of an object adds it unless a hash table has one like it,
LEMMA AddedObject ==
    ASSUME NEW o, NEW c, NEW k, NEW v, NEW d, d = __cache_add(o, c, k, v)
    PROVE  /\ o.hashed /\ c[k] # <<>> => d = c
           /\ ~(o.hashed /\ c[k] # <<>>)
                 => d = [c EXCEPT ![k] = Append(c[k], Object(v))]
  BY DEF __cache_add

\* and touches no other.
LEMMA AddObject ==
    ASSUME NEW o, NEW c \in Contents, NEW k \in Keys, NEW v \in Vals,
           NEW d, d = __cache_add(o, c, k, v)
    PROVE  d \in Contents /\ \A j \in Keys : j # k => d[j] = c[j]
  <1> DEFINE S == [val : Vals, mark : BOOLEAN]
             q == Append(c[k], Object(v))
  <1>1. c \in [Keys -> Seq(S)] /\ Object(v) \in S
    BY ObjectType DEF Contents
  <1> HIDE DEF S
  <1>2. q \in Seq(S)
    BY <1>1
  <1>3. d = c \/ d = [c EXCEPT ![k] = q]
    BY AddedObject
  <1> HIDE DEF q
  <1>4. d \in [Keys -> Seq(S)] /\ \A j \in Keys : j # k => d[j] = c[j]
    BY <1>1, <1>2, <1>3
  <1> QED BY <1>4 DEF Contents, S

\* Cache d is cache c after an event that told of k, of value v: in a cache
\* without duplicates, k is as the event told.
AsTold(c, d, k, v) ==
    /\ d \in Contents
    /\ \A j \in Keys : j # k => d[j] = c[j]
    /\ Len(c[k]) <= 1 => /\ Len(d[k]) <= 1
                         /\ v = None => d[k] = <<>>
                         /\ v # None => Len(d[k]) = 1 /\ d[k][1].val = v
    /\ \A i \in DOMAIN d[k] :
          \/ d[k][i].val = v
          \/ \E n \in DOMAIN c[k] : d[k][i].val = c[k][n].val

\* What include_cb() makes of an event.
LEMMA IncludeEvent ==
    ASSUME NEW o, NEW c \in Contents, NEW k \in Keys,
           NEW v \in Vals \cup {None},
           NEW d, d = cache_include(o, c, k, v,
                                    IF v = None THEN "DEL" ELSE "NEW").cache
    PROVE  AsTold(c, d, k, v)
  <1> DEFINE act == IF v = None THEN "DEL" ELSE "NEW"
             S == [val : Vals, mark : BOOLEAN]
             rest == IF c[k] # <<>> THEN nl_cache_remove(c, k) ELSE c
             one == Len(c[k]) <= 1
  <1>0. PICK e : e = d
    OBVIOUS
  <1> DEFINE Goal == /\ e \in Contents
                     /\ \A j \in Keys : j # k => e[j] = c[j]
                     /\ one => /\ Len(e[k]) <= 1
                               /\ v = None => e[k] = <<>>
                               /\ v # None => Len(e[k]) = 1 /\ e[k][1].val = v
                     /\ \A i \in DOMAIN e[k] :
                           \/ e[k][i].val = v
                           \/ \E n \in DOMAIN c[k] : e[k][i].val = c[k][n].val
  <1> SUFFICES Goal
    BY <1>0 DEF AsTold
  <1>1. c \in [Keys -> Seq(S)] /\ c[k] \in Seq(S)
    BY DEF Contents
  <1> HIDE DEF S
  <1>2. /\ rest \in [Keys -> Seq(S)]
        /\ \A j \in Keys : j # k => rest[j] = c[j]
        /\ rest[k] = IF c[k] # <<>> THEN Tail(c[k]) ELSE c[k]
    BY <1>1 DEF nl_cache_remove
  <1> HIDE DEF rest
  <1>3. /\ rest[k] \in Seq(S) /\ Len(rest[k]) <= Len(c[k])
        /\ Len(c[k]) <= 1 => rest[k] = <<>>
        /\ \A i \in DOMAIN rest[k] : \E n \in DOMAIN c[k] : rest[k][i] = c[k][n]
    <2>1. CASE c[k] = <<>>
      BY <1>1, <1>2, <2>1
    <2>2. CASE c[k] # <<>>
      <3>1. rest[k] = Tail(c[k])
        BY <1>2, <2>2
      <3>2. /\ Len(c[k]) \in Nat /\ Len(c[k]) >= 1
            /\ DOMAIN c[k] = 1..Len(c[k])
        BY <1>1, <2>2
      <3>3. /\ rest[k] \in Seq(S) /\ Len(rest[k]) = Len(c[k]) - 1
            /\ DOMAIN rest[k] = 1..(Len(c[k]) - 1)
            /\ \A i \in 1..(Len(c[k]) - 1) : rest[k][i] = c[k][i + 1]
        BY <1>1, <2>2, <3>1, <3>2
      <3>4. \A i \in 1..(Len(c[k]) - 1) : i + 1 \in DOMAIN c[k]
        BY <3>2
      <3>5. Len(c[k]) <= 1 => rest[k] = <<>>
        BY <3>2, <3>3
      <3>6. \A i \in DOMAIN rest[k] : \E n \in DOMAIN c[k] : rest[k][i] = c[k][n]
        BY <3>3, <3>4
      <3>7. Len(rest[k]) <= Len(c[k])
        BY <3>2, <3>3
      <3> QED BY <3>3, <3>5, <3>6, <3>7
    <2> QED BY <2>1, <2>2
  <1>4. CASE v = None
    <2>1. e = rest
      BY <1>0, <1>4 DEF cache_include, Included, rest
    <2>2. one => e[k] = <<>> /\ Len(e[k]) <= 1
      BY <1>3, <2>1
    <2>3. e \in Contents
      BY <1>2, <2>1 DEF Contents, S
    <2> QED BY <1>2, <1>3, <1>4, <2>1, <2>2, <2>3
  <1>5. CASE v # None /\ c[k] # <<>> /\ o.update
    <2> DEFINE q == [c[k] EXCEPT ![1] = [c[k][1] EXCEPT !.val = v]]
    <2>1. e = [c EXCEPT ![k] = q]
      BY <1>0, <1>5 DEF cache_include, Included
    <2>2. /\ Len(c[k]) \in Nat /\ Len(c[k]) >= 1 /\ c[k][1] \in S
          /\ DOMAIN c[k] = 1..Len(c[k])
      BY <1>1, <1>5
    <2>3. /\ [c[k][1] EXCEPT !.val = v] \in S
          /\ [c[k][1] EXCEPT !.val = v].val = v
      BY <1>5, <2>2 DEF S
    <2>4. /\ q \in Seq(S) /\ Len(q) = Len(c[k]) /\ q[1].val = v
          /\ DOMAIN q = DOMAIN c[k]
          /\ \A i \in DOMAIN q : i # 1 => q[i] = c[k][i]
      BY <1>1, <2>2, <2>3
    <2> HIDE DEF q
    <2>5. /\ e \in [Keys -> Seq(S)] /\ e[k] = q
          /\ \A j \in Keys : j # k => e[j] = c[j]
      BY <1>1, <2>1, <2>4
    <2>6. one => Len(e[k]) = 1 /\ Len(e[k]) <= 1
      BY <2>2, <2>4, <2>5
    <2>7. \A i \in DOMAIN e[k] :
             e[k][i].val = v \/ \E n \in DOMAIN c[k] : e[k][i].val = c[k][n].val
      BY <2>4, <2>5
    <2>8. e \in Contents
      BY <2>5 DEF Contents, S
    <2> QED BY <1>5, <2>4, <2>5, <2>6, <2>7, <2>8
  <1>6. CASE v # None /\ ~(c[k] # <<>> /\ o.update)
    <2>1. e = __cache_add(o, rest, k, v)
      BY <1>0, <1>6 DEF cache_include, Included, rest
    <2>2. v \in Vals /\ rest \in Contents
      BY <1>2, <1>6 DEF Contents, S
    <2>3. e \in Contents /\ \A j \in Keys : j # k => e[j] = rest[j]
      BY <2>1, <2>2, AddObject
    <2>4. Object(v) \in S /\ Object(v).val = v
      BY <2>2, ObjectType DEF S
    <2>5. CASE o.hashed /\ rest[k] # <<>>
      <3>1. e[k] = rest[k] /\ ~one
        BY <1>3, <2>1, <2>5, AddedObject
      <3> HIDE DEF one
      <3> QED BY <1>2, <1>3, <1>6, <2>3, <3>1
    <2>6. CASE ~(o.hashed /\ rest[k] # <<>>)
      <3> DEFINE ob == Object(v)
                 n == Len(rest[k])
      <3>1. e[k] = Append(rest[k], ob)
        <4>1. e = [rest EXCEPT ![k] = Append(rest[k], ob)]
          BY <2>1, <2>6, AddedObject
        <4> QED BY <1>2, <4>1
      <3> HIDE DEF ob
      <3>2. /\ n \in Nat /\ Len(e[k]) = n + 1 /\ e[k][n + 1] = ob
            /\ DOMAIN e[k] = 1..(n + 1) /\ DOMAIN rest[k] = 1..n
            /\ \A i \in 1..n : e[k][i] = rest[k][i]
        BY <1>3, <2>4, <3>1 DEF ob
      <3>3. Len(c[k]) <= 1 => n = 0
        BY <1>3
      <3> HIDE DEF n
      <3>4. \A i \in DOMAIN e[k] : i = n + 1 \/ i \in DOMAIN rest[k]
        BY <3>2
      <3>5. ob.val = v
        BY <2>4 DEF ob
      <3>6. \A i \in DOMAIN e[k] :
               e[k][i].val = v \/ \E j \in DOMAIN c[k] : e[k][i].val = c[k][j].val
        BY <1>3, <3>2, <3>4, <3>5
      <3>7. one => Len(e[k]) = 1 /\ Len(e[k]) <= 1 /\ e[k][1].val = v
        BY <3>2, <3>3, <3>5
      <3> QED BY <1>2, <1>6, <2>3, <3>6, <3>7
    <2> QED BY <2>5, <2>6
  <1> QED BY <1>4, <1>5, <1>6

-----------------------------------------------------------------------------
(* Each action keeps BInv, one lemma per action.                           *)

LEMMA AllocKeepsBInv ==
    ASSUME BInv, NEW f \in BOOLEAN, NEW o, nl_cache_mngr_alloc(f, o)
    PROVE  BInv'
  <1>a. /\ UNCHANGED <<assocs, nassocs, joined, reg, cache, callVars, kernelVars,
                       table, appVars, changes, unregs, seen>>
        /\ allocs' = allocs + 1 /\ fails' \in {fails, fails + 1}
        /\ mngr' \in {"none", "on", "doublefree", "nullpointer"}
        /\ provide' \in BOOLEAN /\ pc = "idle" /\ assocs = <<>>
    BY DEF nl_cache_mngr_alloc, BInv, Calls
  <1>b. ManagedTypes' = {}
    BY <1>a DEF ManagedTypes
  <1>1. Assocs'
    BY <1>a, <1>b DEF BInv, callVars, Assocs, Adding, ManagedTypes
  <1>2. Calls'
    BY <1>a DEF BInv, callVars, appVars, Calls, ManagedTypes
  <1>3. Joining'
    BY <1>a DEF BInv, callVars, Joining, Adding, ManagedTypes
  <1>4. KeepsSubscribed'
    BY <1>a DEF BInv, callVars, KeepsSubscribed
  <1>5. Data'
    BY <1>a DEF BInv, callVars, kernelVars, appVars, Data, ManagedTypes
  <1>6. Flags'
    BY <1>a DEF BInv, callVars, kernelVars, appVars, Flags
  <1> QED BY <1>1, <1>2, <1>3, <1>4, <1>5, <1>6 DEF BInv

LEMMA FreeKeepsBInv ==
    ASSUME BInv, nl_cache_mngr_free
    PROVE  BInv'
  <1>1. Assocs'
    BY DEF BInv, nl_cache_mngr_free, Assocs, Adding, ManagedTypes, Data
  <1>2. Calls'
    BY DEF BInv, nl_cache_mngr_free, Calls, ManagedTypes, Data, Dumped
  <1>3. Joining'
    BY DEF BInv, nl_cache_mngr_free, Joining, Calls, Adding, ManagedTypes
  <1>4. KeepsSubscribed'
    BY DEF BInv, nl_cache_mngr_free, KeepsSubscribed
  <1>5. Data'
    <2>1. evq' \in Seq([key : Keys, val : Vals \cup {None}]) /\ Len(evq') <= RcvBuf
      BY MngrAssumption DEF nl_cache_mngr_free
    <2> QED BY <2>1 DEF BInv, nl_cache_mngr_free, Data, ManagedTypes
  <1>6. Flags'
    BY DEF BInv, nl_cache_mngr_free, histVars, Flags
  <1> QED BY <1>1, <1>2, <1>3, <1>4, <1>5, <1>6 DEF BInv

LEMMA FreeCacheKeepsBInv ==
    ASSUME BInv, FreeCache
    PROVE  BInv'
  <1> DEFINE n == Len(assocs)
             c == Head(assocs)
             p == nl_cache_mngt_unprovide(reg, c)
             q == nl_cache_free(p, c)
  <1>a. n \in Nat /\ n > 0 /\ c \in Types /\ c = assocs[1] /\ pc = "free"
        /\ assocs \in Seq(Types)
    BY DEF BInv, FreeCache, callVars, kernelVars, appVars, histVars, Data
  <1>b. \/ assocs' = assocs /\ reg' = p /\ cache' = cache
        \/ assocs' = Tail(assocs) /\ reg' = q
    BY DEF FreeCache
  <1>g. assocs' = assocs => lookup_for_obj(reg, c) = NoType
    <2>1. Len(Tail(assocs)) = n - 1
      BY <1>a
    <2>2. Tail(assocs) # assocs
      BY <1>a, <2>1
    <2> QED BY <2>2 DEF FreeCache
  <1>c. /\ RegistryOK(p)
        /\ \A t \in Types : ObjOf[t] # ObjOf[c] => p.major[t] = reg.major[t]
    <2>1. PICK x : x = p
      OBVIOUS
    <2>2. PICK u : u = lookup_for_obj(reg, c)
      OBVIOUS
    <2>3. /\ RegistryOK(x) /\ (u \in Types => ObjOf[u] = ObjOf[c])
          /\ \A t \in Types : t # u => x.major[t] = reg.major[t]
      <3>1. RegistryOK(reg)
        BY DEF BInv, Assocs
      <3>2. x = nl_cache_mngt_unprovide(reg, c)
        BY <2>1
      <3> QED BY <1>a, <2>2, <3>1, <3>2, Unprovide
    <2> HIDE DEF p
    <2> QED BY <2>1, <2>3
  <1>d. RegistryOK(q) /\ q.major = p.major
    <2>1. p \in Registry
      BY <1>c DEF RegistryOK
    <2>2. /\ q \in Registry /\ q.list = p.list /\ q.ref = p.ref
          /\ q.major = p.major
      BY <1>a, <2>1, FreeCref
    <2> HIDE DEF p, q
    <2> QED BY <1>c, <2>2 DEF RegistryOK, Registered
  <1> HIDE DEF p, q, n, c
  <1>e. /\ \A i \in DOMAIN assocs' : \E j \in DOMAIN assocs :
              assocs'[i] = assocs[j] /\ (assocs' = assocs \/ j # 1)
        /\ assocs' \in Seq(Types) /\ Len(assocs') <= n
        /\ \A i, j \in DOMAIN assocs' : assocs'[i] = assocs'[j] => i = j
    <2>0. \A i, j \in DOMAIN assocs : assocs[i] = assocs[j] => i = j
      BY DEF BInv, Assocs
    <2>1. CASE assocs' = assocs
      BY <1>a, <2>0, <2>1 DEF n
    <2>2. CASE assocs' = Tail(assocs)
      <3>1. PICK a \in Seq(Types) : a = assocs
        BY <1>a
      <3>2. PICK b : b = assocs'
        OBVIOUS
      <3>3. b = Tail(a) /\ n = Len(a) /\ a # <<>>
        BY <1>a, <2>2, <3>1, <3>2 DEF n
      <3>4. /\ b \in Seq(Types) /\ Len(b) = n - 1 /\ DOMAIN b = 1..(n - 1)
            /\ DOMAIN a = 1..n /\ \A i \in 1..(n - 1) : b[i] = a[i + 1]
        BY <1>a, <3>3
      <3>5. \A i \in 1..(n - 1) : i + 1 \in 1..n /\ i + 1 # 1
        BY <1>a
      <3>6. \A i, j \in 1..(n - 1) : i + 1 = j + 1 => i = j
        BY <1>a
      <3>7. n - 1 <= n
        BY <1>a
      <3>8. \A i \in DOMAIN b : \E j \in DOMAIN a : b[i] = a[j] /\ j # 1
        BY <3>4, <3>5
      <3>9. \A i, j \in DOMAIN b : b[i] = b[j] => i = j
        BY <2>0, <3>1, <3>4, <3>5, <3>6
      <3>10. Len(b) <= n
        BY <3>4, <3>7
      <3> QED BY <3>1, <3>2, <3>4, <3>8, <3>9, <3>10
    <2> QED BY <1>b, <2>1, <2>2
  <1>f. RegistryOK(reg')
    BY <1>b, <1>c, <1>d
  <1>1. Assocs'
    <2>1. ASSUME provide', NEW t \in ManagedTypes', Own(t)
          PROVE  reg'.major[t] = t
      <3>1. PICK j \in DOMAIN assocs : t = assocs[j] /\ (assocs' = assocs \/ j # 1)
        BY <1>e DEF ManagedTypes
      <3>2. t \in ManagedTypes /\ t \in Types /\ provide
        BY <1>a, <2>1, <3>1 DEF ManagedTypes, FreeCache
      <3>3. reg.major[t] = t /\ Registered(reg, t)
        BY <2>1, <3>2, MngtAssumption DEF BInv, Assocs, RegistryOK
      <3>4. CASE t # c
        <4>1. ObjOf[t] # ObjOf[c]
          BY <1>a, <2>1, <3>2, <3>4 DEF Own
        <4> QED BY <1>b, <1>c, <1>d, <3>2, <3>3, <4>1
      <3>5. CASE t = c
        <4>1. j = 1
          <5>1. 1 \in DOMAIN assocs
            BY <1>a DEF n
          <5> QED BY <1>a, <3>1, <3>5, <5>1 DEF BInv, Assocs
        <4>2. assocs' = assocs
          BY <3>1, <4>1
        <4>3. reg \in Registry /\ NoType \notin Types
          BY MngtAssumption DEF BInv, Data
        <4> QED BY <1>g, <3>2, <3>3, <3>5, <4>2, <4>3, LookupFinds
      <3> QED BY <3>4, <3>5
    <2>4. ~Adding'
      BY <1>a DEF FreeCache, callVars, Adding
    <2> QED BY <1>e, <1>f, <2>1, <2>4 DEF Assocs
  <1>2. Calls'
    BY DEF BInv, FreeCache, callVars, appVars, Calls, ManagedTypes, Data,
       Dumped
  <1>3. Joining'
    BY DEF BInv, FreeCache, callVars, Joining, Calls, Adding, ManagedTypes
  <1>4. KeepsSubscribed'
    BY <1>a DEF FreeCache, callVars, KeepsSubscribed
  <1>5. Data'
    <2>1. cache' \in Contents
      <3>1. \/ cache' = cache
            \/ cache' = [k \in Keys |-> IF TypeOf[k] = c THEN <<>> ELSE cache[k]]
        BY DEF FreeCache, c
      <3> QED BY <3>1, ClearType DEF BInv, Data
    <2>2. reg' \in Registry
      BY <1>f DEF RegistryOK
    <2>3. Len(assocs') <= nassocs
      <3>1. Len(assocs') \in Nat /\ n <= nassocs /\ nassocs \in Nat
        BY <1>e DEF BInv, Data, n
      <3> QED BY <1>a, <1>e, <3>1
    <2>4. lost' = {} /\ doubled' \subseteq Types
      BY <1>a DEF BInv, FreeCache, callVars, kernelVars, appVars, Calls, Data
    <2> QED BY <1>e, <2>1, <2>2, <2>3, <2>4 DEF BInv, FreeCache, callVars,
               kernelVars, appVars, Data
  <1>6. Flags'
    BY DEF BInv, FreeCache, callVars, kernelVars, appVars, histVars, Flags
  <1> QED BY <1>1, <1>2, <1>3, <1>4, <1>5, <1>6 DEF BInv

LEMMA FreeDoneKeepsBInv ==
    ASSUME BInv, FreeDone
    PROVE  BInv'
  <1>1. Assocs'
    BY DEF BInv, FreeDone, Assocs, Adding, ManagedTypes, Data
  <1>2. Calls'
    BY DEF BInv, FreeDone, appVars, Calls, ManagedTypes, Data, Dumped
  <1>3. Joining'
    BY DEF BInv, FreeDone, Joining, Calls, Adding, ManagedTypes
  <1>4. KeepsSubscribed'
    BY DEF BInv, FreeDone, KeepsSubscribed
  <1>5. Data'
    <2>1. NAssocInit \in Nat /\ Len(<<>>) = 0
      BY MngrAssumption
    <2> QED BY <2>1 DEF BInv, FreeDone, kernelVars, appVars, Data, ManagedTypes
  <1>6. Flags'
    BY DEF BInv, FreeDone, kernelVars, appVars, histVars, Flags
  <1> QED BY <1>1, <1>2, <1>3, <1>4, <1>5, <1>6 DEF BInv

LEMMA RegisterKeepsBInv ==
    ASSUME BInv, NEW t \in Types, nl_cache_mngt_register(t)
    PROVE  BInv'
  <1>a. RegistryOK(reg') /\ reg'.major = reg.major
    BY RegisterOK DEF BInv, Assocs, nl_cache_mngt_register
  <1>1. Assocs'
    BY <1>a DEF BInv, nl_cache_mngt_register, callVars, Assocs, Adding,
       ManagedTypes
  <1>2. Calls'
    BY DEF BInv, nl_cache_mngt_register, callVars, appVars, Calls,
       ManagedTypes, Data, Dumped
  <1>3. Joining'
    BY DEF BInv, nl_cache_mngt_register, callVars, Joining, Calls, Adding,
       ManagedTypes
  <1>4. KeepsSubscribed'
    BY DEF BInv, nl_cache_mngt_register, callVars, KeepsSubscribed
  <1>5. Data'
    BY <1>a DEF BInv, nl_cache_mngt_register, callVars, kernelVars, appVars,
       Data, ManagedTypes, RegistryOK
  <1>6. Flags'
    BY DEF BInv, nl_cache_mngt_register, callVars, kernelVars, appVars,
       histVars, Flags
  <1> QED BY <1>1, <1>2, <1>3, <1>4, <1>5, <1>6 DEF BInv

LEMMA UnregisterKeepsBInv ==
    ASSUME BInv, NEW t \in Types, nl_cache_mngt_unregister(t)
    PROVE  BInv'
  <1>a. RegistryOK(reg') /\ reg'.major = reg.major
    BY UnregisterOK DEF BInv, Assocs, nl_cache_mngt_unregister
  <1>1. Assocs'
    BY <1>a DEF BInv, nl_cache_mngt_unregister, callVars, Assocs, Adding,
       ManagedTypes
  <1>2. Calls'
    BY DEF BInv, nl_cache_mngt_unregister, callVars, appVars, Calls,
       ManagedTypes, Data, Dumped
  <1>3. Joining'
    BY DEF BInv, nl_cache_mngt_unregister, callVars, Joining, Calls, Adding,
       ManagedTypes
  <1>4. KeepsSubscribed'
    BY DEF BInv, nl_cache_mngt_unregister, callVars, KeepsSubscribed
  <1>5. Data'
    BY <1>a DEF BInv, nl_cache_mngt_unregister, callVars, kernelVars, appVars,
       Data, ManagedTypes, RegistryOK
  <1>6. Flags'
    BY DEF BInv, nl_cache_mngt_unregister, callVars, kernelVars, appVars, Flags
  <1> QED BY <1>1, <1>2, <1>3, <1>4, <1>5, <1>6 DEF BInv

LEMMA AddStartKeepsBInv ==
    ASSUME BInv, NEW t \in Types, AddStart(t)
    PROVE  BInv'
  <1> DEFINE f == [reg.cref EXCEPT ![t] = 1]
  <1>a. reg' = [reg EXCEPT !.cref = f] /\ reg \in Registry /\ f \in [Types -> Nat]
    BY DEF BInv, AddStart, kernelVars, appVars, histVars, Data, Registry
  <1> HIDE DEF f
  <1>b. /\ reg' \in Registry /\ reg'.list = reg.list /\ reg'.ref = reg.ref
        /\ reg'.major = reg.major
    BY <1>a DEF Registry
  <1>c. RegistryOK(reg') /\ Registered(reg', t)
    BY <1>b DEF BInv, AddStart, kernelVars, appVars, histVars, Assocs,
       RegistryOK, Registered
  <1>d. nassocs' \in Nat /\ Len(assocs) < nassocs' /\ Len(assocs) <= nassocs'
    BY MngrAssumption DEF BInv, AddStart, kernelVars, appVars, histVars, Data
  <1>1. Assocs'
    BY <1>b, <1>c, <1>d DEF BInv, AddStart, Assocs, Adding, ManagedTypes
  <1>2. Calls'
    BY DEF BInv, AddStart, appVars, Calls, ManagedTypes, Data, Dumped
  <1>3. Joining'
    <2>1. grp' = 1 /\ cur' = t /\ pc' = "join" /\ GroupsOf[t] \in Seq(Groups)
      BY MngrAssumption DEF AddStart
    <2>2. \A j \in DOMAIN GroupsOf[t] : ~(j < 1)
      BY <2>1
    <2> QED BY <2>1, <2>2 DEF Joining
  <1>4. KeepsSubscribed'
    BY DEF BInv, AddStart, KeepsSubscribed
  <1>5. Data'
    <2>1. todo = {} /\ pc = "idle"
      BY DEF BInv, AddStart, kernelVars, appVars, Calls
    <2> QED BY <1>b, <1>d, <2>1 DEF BInv, AddStart, kernelVars, appVars, Data,
               ManagedTypes
  <1>6. Flags'
    BY DEF BInv, AddStart, kernelVars, appVars, histVars, Flags
  <1> QED BY <1>1, <1>2, <1>3, <1>4, <1>5, <1>6 DEF BInv

LEMMA RecoverKeepsBInv ==
    ASSUME BInv, NEW t \in Types, Recover(t)
    PROVE  BInv'
  <1>1. Assocs'
    BY DEF BInv, Recover, StartFill, mngrVars, Assocs, Adding, ManagedTypes,
       Data
  <1>2. Calls'
    BY DEF BInv, Recover, StartFill, mngrVars, appVars, Calls, ManagedTypes,
       Data, Dumped
  <1>3. Joining'
    <2>1. ~Adding'
      BY DEF BInv, Recover, StartFill, mngrVars, Adding, ManagedTypes, Data
    <2> QED BY <2>1 DEF Joining
  <1>4. KeepsSubscribed'
    BY DEF BInv, Recover, StartFill, mngrVars, KeepsSubscribed
  <1>5. Data'
    <2>1. cache' \in Contents /\ todo' \subseteq KeysOf(t)
      BY ClearType DEF BInv, Recover, StartFill, mngrVars, kernelVars,
         appVars, Data, Dumped
    <2> QED BY <2>1 DEF BInv, Recover, StartFill, mngrVars, kernelVars,
               appVars, Data, ManagedTypes
  <1>6. Flags'
    BY DEF BInv, Recover, StartFill, mngrVars, kernelVars, appVars, histVars,
       Flags
  <1> QED BY <1>1, <1>2, <1>3, <1>4, <1>5, <1>6 DEF BInv

LEMMA AddJoinKeepsBInv ==
    ASSUME BInv, AddJoin
    PROVE  BInv'
  <1>a. /\ cur \in Types /\ GroupsOf[cur] \in Seq(Groups) /\ grp \in DOMAIN GroupsOf[cur]
        /\ grp \in Nat /\ GroupsOf[cur][grp] \in Groups /\ grp # 0
    BY MngrAssumption DEF BInv, AddJoin, kernelVars, appVars, histVars, Data
  <1>1. Assocs'
    BY DEF BInv, AddJoin, Assocs, Adding, ManagedTypes, Data
  <1>2. Calls'
    BY DEF BInv, AddJoin, appVars, Calls, ManagedTypes, Data, Dumped
  <1>3. Joining'
    <2> SUFFICES ASSUME Adding', NEW j \in DOMAIN GroupsOf[cur],
                        pc' = "dump" \/ j < grp'
                 PROVE  GroupsOf[cur][j] \in joined'
      BY DEF Joining, AddJoin
    <2>1. j \in Nat /\ pc = "join" /\ pc' = "join" /\ grp' = grp + 1
      BY <1>a DEF AddJoin
    <2>2. j = grp \/ j < grp
      BY <1>a, <2>1
    <2>3. Adding
      BY DEF AddJoin, Adding, ManagedTypes
    <2> QED BY <2>1, <2>2, <2>3 DEF AddJoin, BInv, Joining
  <1>4. KeepsSubscribed'
    BY DEF BInv, AddJoin, KeepsSubscribed
  <1>5. Data'
    <2>1. joined' \subseteq Groups /\ grp' \in Nat \ {0}
      BY <1>a DEF BInv, AddJoin, kernelVars, appVars, Data
    <2> QED BY <2>1 DEF BInv, AddJoin, kernelVars, appVars, Data, ManagedTypes
  <1>6. Flags'
    BY DEF BInv, AddJoin, kernelVars, appVars, histVars, Flags
  <1> QED BY <1>1, <1>2, <1>3, <1>4, <1>5, <1>6 DEF BInv

LEMMA AddJoinFailsKeepsBInv ==
    ASSUME BInv, AddJoinFails
    PROVE  BInv'
  <1>a. cur \in Types /\ RegistryOK(reg) /\ reg \in Registry
        /\ reg' = nl_cache_free(reg, cur)
    BY DEF BInv, AddJoinFails, kernelVars, appVars, Data, Assocs
  <1>b. /\ reg' \in Registry /\ reg'.list = reg.list /\ reg'.ref = reg.ref
        /\ reg'.major = reg.major
    BY <1>a, FreeCref
  <1>c. RegistryOK(reg')
    BY <1>a, <1>b DEF RegistryOK, Registered
  <1>1. Assocs'
    BY <1>b, <1>c DEF BInv, AddJoinFails, Assocs, Adding, ManagedTypes
  <1>2. Calls'
    BY DEF BInv, AddJoinFails, appVars, Calls, ManagedTypes, Data, Dumped
  <1>3. Joining'
    BY DEF BInv, AddJoinFails, Joining, Calls, Adding, ManagedTypes
  <1>4. KeepsSubscribed'
    BY DEF BInv, AddJoinFails, KeepsSubscribed
  <1>5. Data'
    BY <1>b, AnyTypeOK DEF BInv, AddJoinFails, kernelVars, appVars, Data,
                           Calls, ManagedTypes
  <1>6. Flags'
    BY DEF BInv, AddJoinFails, kernelVars, appVars, Flags
  <1> QED BY <1>1, <1>2, <1>3, <1>4, <1>5, <1>6 DEF BInv

LEMMA AddFillKeepsBInv ==
    ASSUME BInv, AddFill
    PROVE  BInv'
  <1>1. Assocs'
    BY DEF BInv, AddFill, StartFill, mngrVars, Assocs, Adding, ManagedTypes,
       Data
  <1>2. Calls'
    BY DEF BInv, AddFill, StartFill, mngrVars, appVars, Calls, ManagedTypes,
       Data, Dumped
  <1>3. Joining'
    <2> SUFFICES ASSUME Adding', NEW j \in DOMAIN GroupsOf[cur]
                 PROVE  GroupsOf[cur][j] \in joined
      BY DEF Joining, BInv, AddFill, StartFill, mngrVars
    <2>1. /\ cur \in Types /\ GroupsOf[cur] \in Seq(Groups) /\ grp \in Nat \ {0}
          /\ grp \notin DOMAIN GroupsOf[cur]
      BY MngrAssumption DEF BInv, AddFill, StartFill, mngrVars, Data
    <2>2. j < grp
      BY <2>1
    <2>3. Adding
      BY DEF BInv, AddFill, StartFill, mngrVars, Adding, ManagedTypes
    <2> QED BY <2>2, <2>3 DEF BInv, Joining
  <1>4. KeepsSubscribed'
    BY DEF BInv, AddFill, StartFill, mngrVars, KeepsSubscribed
  <1>5. Data'
    <2>1. cache' \in Contents /\ todo' \subseteq KeysOf(cur)
      BY ClearType DEF BInv, AddFill, StartFill, mngrVars, kernelVars,
         appVars, Data, Dumped
    <2> QED BY <2>1 DEF BInv, AddFill, StartFill, mngrVars, kernelVars,
               appVars, Data, ManagedTypes
  <1>6. Flags'
    BY DEF BInv, AddFill, StartFill, mngrVars, kernelVars, appVars, histVars,
       Flags
  <1> QED BY <1>1, <1>2, <1>3, <1>4, <1>5, <1>6 DEF BInv

LEMMA FillObjectKeepsBInv ==
    ASSUME BInv, NEW k \in Keys, FillObject(k)
    PROVE  BInv'
  <1>1. Assocs'
    BY DEF BInv, FillObject, mngrVars, Assocs, Adding, ManagedTypes, Data
  <1>2. Calls'
    BY DEF BInv, FillObject, mngrVars, appVars, Calls, ManagedTypes, Data,
       Dumped
  <1>3. Joining'
    BY DEF BInv, FillObject, mngrVars, Joining, Calls, Adding, ManagedTypes
  <1>4. KeepsSubscribed'
    BY DEF BInv, FillObject, mngrVars, KeepsSubscribed
  <1>5. Data'
    <2>1. table[k] \in Vals
      BY DEF BInv, FillObject, mngrVars, kernelVars, appVars, Data, Calls
    <2>2. cache' \in Contents
      BY <2>1, AddObject DEF BInv, FillObject, mngrVars, kernelVars, appVars,
         Data
    <2>3. todo' \subseteq KeysOf(cur)
      BY DEF BInv, FillObject, mngrVars, kernelVars, appVars, Data
    <2> QED BY <2>2, <2>3 DEF BInv, FillObject, mngrVars, kernelVars, appVars,
               Data, ManagedTypes
  <1>6. Flags'
    BY DEF BInv, FillObject, mngrVars, kernelVars, appVars, histVars, Flags
  <1> QED BY <1>1, <1>2, <1>3, <1>4, <1>5, <1>6 DEF BInv

LEMMA FillRestartKeepsBInv ==
    ASSUME BInv, FillRestart
    PROVE  BInv'
  <1>1. Assocs'
    BY DEF BInv, FillRestart, mngrVars, Assocs, Adding, ManagedTypes, Data
  <1>2. Calls'
    BY DEF BInv, FillRestart, mngrVars, appVars, Calls, ManagedTypes, Dumped
  <1>3. Joining'
    BY DEF BInv, FillRestart, mngrVars, Joining, Calls, Adding, ManagedTypes
  <1>4. KeepsSubscribed'
    BY DEF BInv, FillRestart, mngrVars, KeepsSubscribed
  <1>5. Data'
    <2>1. todo' \subseteq KeysOf(cur)
      BY DEF BInv, FillRestart, mngrVars, kernelVars, appVars, Data, Dumped
    <2> QED BY <2>1 DEF BInv, FillRestart, mngrVars, kernelVars, appVars,
               Data, ManagedTypes
  <1>6. Flags'
    BY DEF BInv, FillRestart, mngrVars, kernelVars, appVars, histVars, Flags
  <1> QED BY <1>1, <1>2, <1>3, <1>4, <1>5, <1>6 DEF BInv

\* A cache that was added is managed from here on, and provided.
LEMMA FillDoneKeepsBInv ==
    ASSUME BInv, FillDone
    PROVE  BInv'
  <1>a. /\ cur \in Types /\ reg \in Registry /\ RegistryOK(reg) /\ pc = "dump"
        /\ assocs \in Seq(Types)
    BY DEF BInv, FillDone, kernelVars, histVars, Data, Assocs
  <1>b. ASSUME cur \in ManagedTypes
        PROVE  Assocs' /\ KeepsSubscribed' /\ Data'
    <2>1. assocs' = assocs /\ reg' = reg /\ lost' \subseteq lost \cup {cur}
      BY <1>b DEF FillDone
    <2>2. Assocs'
      BY <2>1 DEF BInv, FillDone, kernelVars, histVars, Assocs, Adding,
         ManagedTypes
    <2>3. KeepsSubscribed'
      BY <1>a, <2>1 DEF BInv, FillDone, kernelVars, histVars, KeepsSubscribed
    <2>4. Data'
      <3>1. /\ UNCHANGED <<nassocs, joined, cache, evq, table, seen, doubled>>
            /\ cur' \in Types /\ grp' \in Nat \ {0} /\ todo' = {}
        BY AnyTypeOK DEF FillDone, kernelVars
      <3>2. lost' \subseteq ManagedTypes' /\ ManagedTypes' = ManagedTypes
        BY <1>b, <2>1 DEF BInv, Data, ManagedTypes
      <3> QED BY <2>1, <3>1, <3>2 DEF BInv, Data
    <2> QED BY <2>2, <2>3, <2>4
  <1>c. ASSUME cur \notin ManagedTypes
        PROVE  Assocs' /\ KeepsSubscribed' /\ Data'
    <2> DEFINE n == Len(assocs)
               t == lookup_for_obj(reg, cur)
    <2>1. /\ assocs' = Append(assocs, cur) /\ Registered(reg, cur) /\ n < nassocs
          /\ reg' = IF provide THEN nl_cache_mngt_provide(reg, cur) ELSE reg
      BY <1>a, <1>c DEF BInv, FillDone, kernelVars, histVars, Assocs, Adding
    <2>2. /\ n \in Nat /\ DOMAIN assocs = 1..n /\ DOMAIN assocs' = 1..(n + 1)
          /\ assocs' \in Seq(Types) /\ Len(assocs') = n + 1
          /\ assocs'[n + 1] = cur
          /\ \A i \in 1..n : assocs'[i] = assocs[i]
      BY <1>a, <2>1
    <2>3. \A i \in 1..(n + 1) : i = n + 1 \/ i \in 1..n
      BY <2>2
    <2>4. \A i \in 1..n : assocs[i] # cur
      BY <1>c, <2>2 DEF ManagedTypes
    <2>5. RegistryOK(reg')
      BY <1>a, <2>1, Provide
    <2>6. provide =>
             /\ t \in Types /\ ObjOf[t] = ObjOf[cur] /\ reg'.major[t] = cur
             /\ \A u \in Types : u # t => reg'.major[u] = reg.major[u]
      BY <1>a, <2>1, Provide
    <2>7. Own(cur) => t = cur
      BY <1>a, <2>1, LookupOwn
    <2> HIDE DEF n, t
    <2>8. ManagedTypes' = ManagedTypes \cup {cur}
      BY <2>2, <2>3 DEF ManagedTypes
    <2>9. Assocs'
      <3>1. \A i, j \in DOMAIN assocs' : assocs'[i] = assocs'[j] => i = j
        BY <2>2, <2>3, <2>4 DEF BInv, Assocs
      <3>2. ASSUME provide, NEW u \in ManagedTypes', Own(u)
            PROVE  reg'.major[u] = u
        <4>1. u \in Types /\ ManagedTypes \subseteq Types
          BY <1>a, <2>2, <2>8 DEF ManagedTypes
        <4>2. reg.major \in [Types -> Types \cup {NoType}]
          BY <1>a DEF Registry
        <4>3. CASE u = cur
          BY <2>6, <2>7, <3>2, <4>1, <4>2, <4>3
        <4>4. CASE u # cur
          <5>1. t # u
            BY <1>a, <2>6, <3>2, <4>1, <4>4 DEF Own
          <5>2. reg.major[u] = u
            BY <2>8, <3>2, <4>4 DEF BInv, Assocs
          <5> QED BY <2>6, <3>2, <4>1, <4>2, <5>1, <5>2
        <4> QED BY <4>3, <4>4
      <3>3. ~Adding'
        BY DEF FillDone, Adding
      <3>4. provide' = provide
        BY DEF FillDone
      <3> QED BY <2>5, <3>1, <3>2, <3>3, <3>4 DEF Assocs
    <2>10. KeepsSubscribed'
      <3> SUFFICES ASSUME NEW i \in DOMAIN assocs',
                          NEW j \in DOMAIN GroupsOf[assocs'[i]],
                          ~\E u \in Types \ {assocs'[i]} : \E m \in DOMAIN GroupsOf[u] :
                               GroupsOf[u][m] = GroupsOf[assocs'[i]][j]
                   PROVE  GroupsOf[assocs'[i]][j] \in joined
        BY DEF KeepsSubscribed, FillDone
      <3>1. CASE i = n + 1
        BY <1>a, <1>c, <2>2, <3>1 DEF BInv, Joining, Adding
      <3>2. CASE i \in 1..n
        BY <1>a, <2>2, <3>2 DEF BInv, KeepsSubscribed
      <3> QED BY <2>2, <2>3, <3>1, <3>2
    <2>11. Data'
      <3>1. reg' \in Registry /\ n + 1 <= nassocs
        BY <2>1, <2>2, <2>5 DEF RegistryOK, BInv, Data
      <3>2. /\ UNCHANGED <<nassocs, joined, cache, evq, table, seen, doubled>>
            /\ cur' \in Types /\ grp' \in Nat \ {0} /\ todo' = {}
        BY AnyTypeOK DEF FillDone, kernelVars
      <3>3. lost' \subseteq ManagedTypes'
        BY <2>8 DEF BInv, Data, FillDone
      <3> QED BY <2>2, <3>1, <3>2, <3>3 DEF BInv, Data
    <2> QED BY <2>9, <2>10, <2>11
  <1>1. Assocs'
    BY <1>b, <1>c
  <1>2. Calls'
    BY DEF BInv, FillDone, Calls, ManagedTypes, Data, Dumped
  <1>3. Joining'
    BY DEF BInv, FillDone, Joining, Calls, Adding, ManagedTypes
  <1>4. KeepsSubscribed'
    BY <1>b, <1>c
  <1>5. Data'
    BY <1>b, <1>c
  <1>6. Flags'
    BY DEF BInv, FillDone, kernelVars, histVars, Flags
  <1> QED BY <1>1, <1>2, <1>3, <1>4, <1>5, <1>6 DEF BInv

LEMMA FillFailsKeepsBInv ==
    ASSUME BInv, FillFails
    PROVE  BInv'
  <1>a. /\ cur \in Types /\ RegistryOK(reg) /\ reg \in Registry
        /\ reg' = reg \/ reg' = nl_cache_free(reg, cur)
    BY DEF BInv, FillFails, kernelVars, Data, Assocs
  <1>b. /\ reg' \in Registry /\ reg'.list = reg.list /\ reg'.ref = reg.ref
        /\ reg'.major = reg.major
    BY <1>a, FreeCref
  <1>c. RegistryOK(reg')
    BY <1>a, <1>b DEF RegistryOK, Registered
  <1>1. Assocs'
    BY <1>b, <1>c DEF BInv, FillFails, Assocs, Adding, ManagedTypes
  <1>2. Calls'
    BY DEF BInv, FillFails, Calls, ManagedTypes, Data, Dumped
  <1>3. Joining'
    BY DEF BInv, FillFails, Joining, Calls, Adding, ManagedTypes
  <1>4. KeepsSubscribed'
    <2>1. CASE cur \in ManagedTypes
      BY <2>1 DEF BInv, FillFails, KeepsSubscribed
    <2>2. CASE cur \notin ManagedTypes
      <3> SUFFICES ASSUME NEW i \in DOMAIN assocs,
                          NEW j \in DOMAIN GroupsOf[assocs[i]],
                          ~\E u \in Types \ {assocs[i]} : \E m \in DOMAIN GroupsOf[u] :
                               GroupsOf[u][m] = GroupsOf[assocs[i]][j]
                   PROVE  GroupsOf[assocs[i]][j] \in joined'
        BY DEF KeepsSubscribed, FillFails
      <3>1. GroupsOf[assocs[i]][j] \in joined
        BY DEF BInv, KeepsSubscribed, FillFails
      <3>2. cur \in Types \ {assocs[i]}
        BY <1>a, <2>2 DEF ManagedTypes
      <3> QED BY <2>2, <3>1, <3>2 DEF FillFails
    <2> QED BY <2>1, <2>2
  <1>5. Data'
    <2>1. cache' \in Contents
      <3>1. \/ cache' = cache
            \/ cache' = [k \in Keys |-> IF TypeOf[k] = cur THEN <<>> ELSE cache[k]]
        BY DEF FillFails
      <3> QED BY <3>1, ClearType DEF BInv, Data
    <2>2. joined' \subseteq Groups /\ todo' = {}
      BY DEF BInv, FillFails, kernelVars, Data
    <2>3. doubled' \subseteq Types
      BY DEF BInv, FillFails, kernelVars, Data
    <2> QED BY <1>b, <2>1, <2>2, <2>3, AnyTypeOK DEF BInv, FillFails,
               kernelVars, Data, ManagedTypes
  <1>6. Flags'
    <2>1. fails' \in Nat
      BY DEF BInv, FillFails, kernelVars, Flags
    <2>2. drained' \in BOOLEAN
      BY DEF BInv, FillFails, kernelVars, Flags
    <2> QED BY <2>1, <2>2 DEF BInv, FillFails, kernelVars, Flags
  <1> QED BY <1>1, <1>2, <1>3, <1>4, <1>5, <1>6 DEF BInv

LEMMA DataReadyKeepsBInv ==
    ASSUME BInv, DataReady
    PROVE  BInv'
  <1>1. Assocs'
    BY DEF BInv, DataReady, mngrVars, Assocs, Adding, ManagedTypes, Data
  <1>2. Calls'
    BY DEF BInv, DataReady, mngrVars, appVars, Calls, ManagedTypes, Data,
       Dumped
  <1>3. Joining'
    BY DEF BInv, DataReady, mngrVars, Joining, Calls, Adding, ManagedTypes
  <1>4. KeepsSubscribed'
    BY DEF BInv, DataReady, mngrVars, KeepsSubscribed
  <1>5. Data'
    BY DEF BInv, DataReady, mngrVars, kernelVars, appVars, Data, ManagedTypes
  <1>6. Flags'
    BY DEF BInv, DataReady, mngrVars, kernelVars, appVars, histVars, Flags
  <1> QED BY <1>1, <1>2, <1>3, <1>4, <1>5, <1>6 DEF BInv

LEMMA EventInputKeepsBInv ==
    ASSUME BInv, event_input
    PROVE  BInv'
  <1>a. /\ evq' \in Seq([key : Keys, val : Vals \cup {None}])
        /\ Len(evq') <= RcvBuf /\ Head(evq) \in [key : Keys, val : Vals \cup {None}]
    <2>1. evq \in Seq([key : Keys, val : Vals \cup {None}]) /\ Len(evq) <= RcvBuf
          /\ evq # <<>> /\ evq' = Tail(evq) /\ RcvBuf \in Nat
      BY MngrAssumption DEF BInv, event_input, Receive, mngrVars, appVars, Data
    <2> HIDE DEF BInv
    <2>2. /\ evq' \in Seq([key : Keys, val : Vals \cup {None}])
          /\ Len(evq') = Len(evq) - 1
          /\ Head(evq) \in [key : Keys, val : Vals \cup {None}]
      BY <2>1, HeadTailProperties
    <2>3. Len(evq) \in Nat
      BY <2>1
    <2> QED BY <2>1, <2>2, <2>3
  <1>1. Assocs'
    BY DEF BInv, event_input, Receive, mngrVars, Assocs, Adding, ManagedTypes,
       Data
  <1>2. Calls'
    BY DEF BInv, event_input, Receive, mngrVars, appVars, Calls, ManagedTypes,
       Data, Dumped
  <1>3. Joining'
    BY DEF BInv, event_input, Receive, mngrVars, Joining, Calls, Adding,
       ManagedTypes
  <1>4. KeepsSubscribed'
    BY DEF BInv, event_input, Receive, mngrVars, KeepsSubscribed
  <1>5. Data'
    <2> DEFINE e == Head(evq)
    <2>1. cache \in Contents /\ e.key \in Keys /\ e.val \in Vals \cup {None}
      BY <1>a DEF BInv, Data
    <2>2. cache' = cache \/ include_cb(e)
      BY DEF event_input
    <2> HIDE DEF e
    <2>3. cache' \in Contents
      <3>1. CASE cache' = cache
        BY <2>1, <3>1
      <3>2. CASE include_cb(e)
        <4>1. PICK k \in Keys, v \in Vals \cup {None} : k = e.key /\ v = e.val
          BY <2>1
        <4>2. cache' = cache_include(OpsOf[TypeOf[k]], cache, k, v,
                                     IF v = None THEN "DEL" ELSE "NEW").cache
          BY <3>2, <4>1 DEF include_cb
        <4>3. PICK d : d = cache'
          OBVIOUS
        <4>4. d \in Contents
          BY <2>1, <4>2, <4>3, IncludeEvent DEF AsTold
        <4> QED BY <4>3, <4>4
      <3> QED BY <2>2, <3>1, <3>2
    <2> QED BY <1>a, <2>3 DEF BInv, event_input, Receive, mngrVars, appVars,
               Data, ManagedTypes
  <1>6. Flags'
    BY DEF BInv, event_input, Receive, mngrVars, appVars, Flags
  <1> QED BY <1>1, <1>2, <1>3, <1>4, <1>5, <1>6 DEF BInv

LEMMA EventFailsKeepsBInv ==
    ASSUME BInv, event_input_fails
    PROVE  BInv'
  <1>a. /\ evq' \in Seq([key : Keys, val : Vals \cup {None}])
        /\ Len(evq') <= RcvBuf /\ Head(evq) \in [key : Keys, val : Vals \cup {None}]
    <2>1. evq \in Seq([key : Keys, val : Vals \cup {None}]) /\ Len(evq) <= RcvBuf
          /\ evq # <<>> /\ evq' = Tail(evq) /\ RcvBuf \in Nat
      BY MngrAssumption DEF BInv, event_input_fails, Receive, DataReadyError,
         mngrVars, Data
    <2> HIDE DEF BInv
    <2>2. /\ evq' \in Seq([key : Keys, val : Vals \cup {None}])
          /\ Len(evq') = Len(evq) - 1
          /\ Head(evq) \in [key : Keys, val : Vals \cup {None}]
      BY <2>1, HeadTailProperties
    <2>3. Len(evq) \in Nat
      BY <2>1
    <2> QED BY <2>1, <2>2, <2>3
  <1>1. Assocs'
    BY DEF BInv, event_input_fails, Receive, DataReadyError, mngrVars, Assocs,
       Adding, ManagedTypes, Data
  <1>2. Calls'
    BY DEF BInv, event_input_fails, Receive, DataReadyError, mngrVars, Calls,
       ManagedTypes, Data, Dumped
  <1>3. Joining'
    BY DEF BInv, event_input_fails, Receive, DataReadyError, mngrVars,
       Joining, Calls, Adding, ManagedTypes
  <1>4. KeepsSubscribed'
    BY DEF BInv, event_input_fails, Receive, DataReadyError, mngrVars,
       KeepsSubscribed
  <1>5. Data'
    BY <1>a DEF BInv, event_input_fails, Receive, DataReadyError, mngrVars,
       Data, ManagedTypes
  <1>6. Flags'
    <2>1. fails' \in Nat
      BY DEF BInv, event_input_fails, Receive, DataReadyError, mngrVars, Flags
    <2>2. congested' \in BOOLEAN
      BY DEF BInv, event_input_fails, Receive, DataReadyError, mngrVars, Flags
    <2> QED BY <2>1, <2>2 DEF BInv, event_input_fails, Receive,
               DataReadyError, mngrVars, Flags
  <1> QED BY <1>1, <1>2, <1>3, <1>4, <1>5, <1>6 DEF BInv

LEMMA ReadNobufsKeepsBInv ==
    ASSUME BInv, ReadNobufs
    PROVE  BInv'
  <1>1. Assocs'
    BY DEF BInv, ReadNobufs, DataReadyError, mngrVars, Assocs, Adding,
       ManagedTypes, Data
  <1>2. Calls'
    BY DEF BInv, ReadNobufs, DataReadyError, mngrVars, Calls, ManagedTypes,
       Data, Dumped
  <1>3. Joining'
    BY DEF BInv, ReadNobufs, DataReadyError, mngrVars, Joining, Calls, Adding,
       ManagedTypes
  <1>4. KeepsSubscribed'
    BY DEF BInv, ReadNobufs, DataReadyError, mngrVars, KeepsSubscribed
  <1>5. Data'
    BY DEF BInv, ReadNobufs, DataReadyError, mngrVars, Data, ManagedTypes
  <1>6. Flags'
    BY DEF BInv, ReadNobufs, DataReadyError, mngrVars, histVars, Flags
  <1> QED BY <1>1, <1>2, <1>3, <1>4, <1>5, <1>6 DEF BInv

LEMMA ReadAgainKeepsBInv ==
    ASSUME BInv, ReadAgain
    PROVE  BInv'
  <1>1. Assocs'
    BY DEF BInv, ReadAgain, mngrVars, Assocs, Adding, ManagedTypes, Data
  <1>2. Calls'
    BY DEF BInv, ReadAgain, mngrVars, Calls, ManagedTypes, Data, Dumped
  <1>3. Joining'
    BY DEF BInv, ReadAgain, mngrVars, Joining, Calls, Adding, ManagedTypes
  <1>4. KeepsSubscribed'
    BY DEF BInv, ReadAgain, mngrVars, KeepsSubscribed
  <1>5. Data'
    BY DEF BInv, ReadAgain, mngrVars, kernelVars, Data, ManagedTypes
  <1>6. Flags'
    BY DEF BInv, ReadAgain, mngrVars, kernelVars, histVars, Flags
  <1> QED BY <1>1, <1>2, <1>3, <1>4, <1>5, <1>6 DEF BInv

LEMMA ChangeKeepsBInv ==
    ASSUME BInv, NEW k \in Keys, NEW v \in Vals \cup {None}, Change(k, v)
    PROVE  BInv'
  <1>1. Assocs'
    BY DEF BInv, Change, Deliver, mngrVars, Assocs, Adding, ManagedTypes, Data
  <1>2. Calls'
    BY DEF BInv, Change, Deliver, mngrVars, appVars, Calls, ManagedTypes,
       Data, Dumped
  <1>3. Joining'
    BY DEF BInv, Change, Deliver, mngrVars, Joining, Calls, Adding,
       ManagedTypes
  <1>4. KeepsSubscribed'
    BY DEF BInv, Change, Deliver, mngrVars, KeepsSubscribed
  <1>5. Data'
    <2> DEFINE e == [key |-> k, val |-> v]
               E == [key : Keys, val : Vals \cup {None}]
    <2>1. evq \in Seq(E) /\ Len(evq) <= RcvBuf /\ e \in E /\ RcvBuf \in Nat
      BY MngrAssumption DEF BInv, Data
    <2>2. \/ evq' = evq
          \/ evq' = Append(evq, e) /\ ~(Len(evq) >= RcvBuf)
      BY DEF BInv, Change, Deliver, mngrVars, kernelVars, appVars
    <2> HIDE DEF e, E
    <2>3. evq' \in Seq(E) /\ Len(evq') <= RcvBuf
      BY <2>1, <2>2
    <2>4. table' \in [Keys -> Vals \cup {None}] /\ todo' \subseteq KeysOf(cur)
      BY DEF BInv, Change, Deliver, mngrVars, kernelVars, appVars, Data
    <2>5. seen' \in [Keys -> SUBSET (Vals \cup {None})]
      BY DEF BInv, Change, Deliver, mngrVars, kernelVars, appVars, Data
    <2> QED BY <2>3, <2>4, <2>5 DEF BInv, Change, Deliver, mngrVars,
               kernelVars, appVars, Data, ManagedTypes, E
  <1>6. Flags'
    <2>1. changes' \in Nat
      BY DEF BInv, Change, Deliver, mngrVars, kernelVars, appVars, Flags
    <2>2. dirty' \in BOOLEAN
      BY DEF BInv, Change, Deliver, mngrVars, kernelVars, appVars, Flags
    <2>3. err' \in BOOLEAN /\ congested' \in BOOLEAN
      BY DEF BInv, Change, Deliver, mngrVars, kernelVars, appVars, Flags
    <2> QED BY <2>1, <2>2, <2>3 DEF BInv, Change, Deliver, mngrVars,
               kernelVars, appVars, Flags
  <1> QED BY <1>1, <1>2, <1>3, <1>4, <1>5, <1>6 DEF BInv

-----------------------------------------------------------------------------
(* What holds of every instance.                                           *)

LEMMA InitBInv == Init => BInv
  <1> SUFFICES ASSUME Init PROVE BInv
    OBVIOUS
  <1>1. /\ reg \in Registry /\ \A t \in Types : reg.ref[t] = 0
        /\ \A t \in Types : reg.major[t] = NoType
    BY MngrAssumption DEF Init, NewRegistry, Registry
  <1>2. RegistryOK(reg)
    BY <1>1 DEF RegistryOK
  <1>3. assocs = <<>> /\ ManagedTypes = {} /\ DOMAIN assocs = {}
    BY DEF Init, ManagedTypes
  <1>4. cache \in Contents
    BY DEF Init, EmptyCache, Contents
  <1>5. Data
    <2>1. cur \in Types
      BY AnyTypeOK DEF Init
    <2>2. table \in [Keys -> Vals \cup {None}]
      BY MngrAssumption DEF Init
    <2>3. seen \in [Keys -> SUBSET (Vals \cup {None})]
      BY <2>2 DEF Init
    <2>4. /\ assocs \in Seq(Types) /\ nassocs \in Nat /\ Len(assocs) <= nassocs
          /\ evq \in Seq([key : Keys, val : Vals \cup {None}])
          /\ Len(evq) <= RcvBuf
      BY MngrAssumption DEF Init
    <2> QED BY <1>1, <1>4, <2>1, <2>2, <2>3, <2>4 DEF Init, Data
  <1>6. Flags
    BY DEF Init, Flags
  <1>7. Assocs /\ Calls /\ Joining /\ KeepsSubscribed
    BY <1>2, <1>3 DEF Init, Assocs, Calls, Joining, Adding, KeepsSubscribed
  <1> QED BY <1>5, <1>6, <1>7 DEF BInv

LEMMA StepBInv == BInv /\ [Next]_vars => BInv'
  <1> SUFFICES ASSUME BInv, [Next]_vars PROVE BInv'
    OBVIOUS
  <1>1. CASE UNCHANGED vars
    BY <1>1 DEF BInv, Data, Flags, Assocs, Calls, Joining, Adding,
                KeepsSubscribed, ManagedTypes, vars, mngrVars, callVars,
                kernelVars, appVars, histVars
  <1>2. CASE \E f \in BOOLEAN, o \in {"ok", "noarray", "noconnect", "nosync"} :
                nl_cache_mngr_alloc(f, o)
    BY <1>2, AllocKeepsBInv
  <1>3. CASE nl_cache_mngr_free \/ FreeCache \/ FreeDone
    BY <1>3, FreeKeepsBInv, FreeCacheKeepsBInv, FreeDoneKeepsBInv
  <1>4. CASE \E t \in Types : nl_cache_mngt_register(t)
                              \/ nl_cache_mngt_unregister(t)
    BY <1>4, RegisterKeepsBInv, UnregisterKeepsBInv
  <1>5. CASE \E t \in Types : AddStart(t) \/ Recover(t)
    BY <1>5, AddStartKeepsBInv, RecoverKeepsBInv
  <1>6. CASE Add
    BY <1>6, AddJoinKeepsBInv, AddJoinFailsKeepsBInv, AddFillKeepsBInv DEF Add
  <1>7. CASE Fill
    BY <1>7, FillRestartKeepsBInv, FillDoneKeepsBInv, FillFailsKeepsBInv,
       FillObjectKeepsBInv DEF Fill
  <1>8. CASE Poll
    BY <1>8, DataReadyKeepsBInv, EventInputKeepsBInv, EventFailsKeepsBInv,
       ReadNobufsKeepsBInv, ReadAgainKeepsBInv DEF Poll
  <1>9. CASE \E k \in Keys, v \in Vals \cup {None} : Change(k, v)
    BY <1>9, ChangeKeepsBInv
  <1> QED BY <1>1, <1>2, <1>3, <1>4, <1>5, <1>6, <1>7, <1>8, <1>9 DEF Next

\* The inductive invariant of every instance: no type has two associations,
\* a type is in use exactly while a cache of it is provided, and a cache
\* being added has joined the groups it has come to.
THEOREM BInvariance == Spec => []BInv
  BY InitBInv, StepBInv, PTL DEF Spec

\* Every variable keeps its type: the array of associations has room for
\* what nl_cache_mngr_add_cache() appends, the socket's queue stays within
\* the receive buffer, and only managed caches wait to be filled again.
THEOREM TypeCorrect == Spec => []TypeOK
  <1>1. BInv => TypeOK
    BY DEF BInv, Data, Flags, TypeOK
  <1> QED BY <1>1, BInvariance, PTL

\* The event socket stays in the groups of every managed cache, whatever
\* joins of other caches fail, for any way types share groups.
THEOREM StaysSubscribed == Spec => []KeepsSubscribed
  <1>1. BInv => KeepsSubscribed
    BY DEF BInv
  <1> QED BY <1>1, BInvariance, PTL

\* nl_cache_mngt_require() returns the cache of every managed type that
\* shares its objects with no other, in whatever order types were registered
\* and unregistered.
THEOREM FindsProvided == Spec => []RequireFindsProvided
  <1>1. BInv => RequireFindsProvided
    <2> SUFFICES ASSUME BInv, provide, NEW t \in ManagedTypes, Own(t)
                 PROVE  Required(reg, t) = t
      BY DEF RequireFindsProvided, Own
    <2>1. t \in Types /\ reg.major[t] = t /\ RegistryOK(reg)
      BY DEF BInv, Data, Assocs, ManagedTypes
    <2>2. Registered(reg, t)
      BY <2>1, MngtAssumption DEF RegistryOK
    <2> QED BY <2>1, <2>2 DEF Required
  <1> QED BY <1>1, BInvariance, PTL

-----------------------------------------------------------------------------
(* The references to caches, when no type shares its objects.              *)

OwnObjects == \A t \in Types : Own(t)

\* Before BUG() is reached, and in steps that do not reach it.
LEMMA SameRegistry ==
    ASSUME RInv, UNCHANGED <<reg, assocs, provide>>, ~reg.bug,
           Adding' => Adding /\ cur' = cur
    PROVE  RInv'
  BY DEF RInv, ManagedTypes

\* (Un)registering a type leaves the caches alone.
LEMMA SameCaches ==
    ASSUME RInv, UNCHANGED <<assocs, pc, cur, provide>>, ~reg.bug,
           reg'.bug = reg.bug, reg'.major = reg.major, reg'.cref = reg.cref
    PROVE  RInv'
  BY DEF RInv, ManagedTypes, Adding

\* The first association's cache is unprovided and freed: its references were
\* there to be given back.  Only a type that is gone is not found, and its
\* cache was not provided.
LEMMA FreeCacheRInv ==
    ASSUME BInv, OwnObjects, RInv, FreeCache
    PROVE  RInv'
  <1> DEFINE n == Len(assocs)
  <1>0. PICK c : c = Head(assocs)
    OBVIOUS
  <1>1. /\ n \in Nat /\ n > 0 /\ assocs \in Seq(Types) /\ assocs # <<>>
        /\ pc = "free" /\ ~reg.bug /\ provide \in BOOLEAN
    BY DEF FreeCache, BInv, Data, Flags
  <1>2. /\ c \in Types /\ c \in ManagedTypes /\ DOMAIN assocs = 1..n
        /\ 1 \in 1..n /\ c = assocs[1]
    BY <1>0, <1>1 DEF ManagedTypes
  <1>3. PICK p : p = nl_cache_mngt_unprovide(reg, c)
    OBVIOUS
  <1>4. PICK q : q = nl_cache_free(p, c)
    OBVIOUS
  <1>5. RegistryOK(reg) /\ reg \in Registry /\ reg.bug = FALSE
    BY <1>1 DEF BInv, Assocs, RegistryOK, Registry
  <1>6. /\ reg.major[c] = IF provide THEN c ELSE NoType
        /\ reg.cref[c] = IF provide THEN 2 ELSE 1
    BY <1>2 DEF RInv
  <1>7. PICK u : u = lookup_for_obj(reg, c)
    OBVIOUS
  <1>8. u = NoType \/ u = c
    BY <1>2, <1>5, <1>7, LookupFinds DEF OwnObjects, Own
  <1>9. ~Adding' /\ pc' = "free" /\ provide' = provide
    BY <1>1 DEF FreeCache, Adding
  <1>10. CASE u = NoType
    <2>1. ~Registered(reg, c)
      <3>1. lookup_for_obj(reg, c) \notin Types
        BY <1>7, <1>10, MngtAssumption
      <3>2. \A t \in Types : ObjOf[t] = ObjOf[c] => ~Registered(reg, t)
        BY <1>2, <1>5, <3>1, LookupFinds
      <3> QED BY <1>2, <3>2
    <2>2. ~provide
      BY <1>2, <1>5, <1>6, <2>1, MngtAssumption DEF RegistryOK
    <2>3. reg' = p /\ assocs' = assocs /\ p = [reg EXCEPT !.bug = TRUE]
      BY <1>0, <1>3, <1>7, <1>10 DEF FreeCache, nl_cache_mngt_unprovide
    <2>4. reg'.list = reg.list /\ reg'.major = reg.major /\ reg'.cref = reg.cref
      BY <1>5, <2>3 DEF Registry
    <2>5. lookup_for_obj(reg', c) = NoType
      BY <1>7, <1>10, <2>4 DEF lookup_for_obj
    <2>6. Stuck'
      BY <1>0, <1>1, <1>9, <2>2, <2>3, <2>5 DEF Stuck
    <2> QED BY <1>9, <2>3, <2>4, <2>6 DEF RInv, ManagedTypes
  <1>11. CASE u = c
    <2>1. /\ p \in Registry /\ p.bug = FALSE /\ p.major[c] = NoType
          /\ p.cref[c] = 1
          /\ \A t \in Types : t # c => p.major[t] = reg.major[t]
          /\ \A t \in Types : t # c => p.cref[t] = reg.cref[t]
      <3>1. CASE provide
        <4>1. reg.major[c] = c /\ reg.cref[c] = 2 /\ reg.cref[c] > 0
          BY <1>6, <3>1
        <4>3. c = lookup_for_obj(reg, c)
          BY <1>7, <1>11
        <4>2. /\ RegistryOK(p) /\ p.bug = reg.bug /\ p.major[c] = NoType
              /\ p.cref[c] = reg.cref[c] - 1
              /\ \A t \in Types : t # c => p.major[t] = reg.major[t]
              /\ \A t \in Types : t # c => p.cref[t] = reg.cref[t]
          BY <1>2, <1>3, <1>5, <4>1, <4>3, Unprovide
        <4> QED BY <1>5, <4>1, <4>2 DEF RegistryOK
      <3>2. CASE ~provide
        <4>1. p = reg
          BY <1>2, <1>3, <1>6, <1>7, <1>11, <3>2, MngtAssumption
             DEF nl_cache_mngt_unprovide
        <4> QED BY <1>5, <1>6, <3>2, <4>1
      <3> QED BY <1>1, <3>1, <3>2
    <2>2. /\ q.bug = FALSE /\ q.major = p.major
          /\ \A t \in Types : t # c => q.cref[t] = p.cref[t]
      <3>1. p.cref[c] > 0
        BY <2>1
      <3> QED BY <1>2, <1>4, <2>1, <3>1, FreeCref
    <2>3. c # NoType
      BY <1>2, MngtAssumption
    <2>4. reg' = q /\ assocs' = Tail(assocs)
      BY <1>0, <1>3, <1>4, <1>7, <1>11, <2>3 DEF FreeCache
    <2>5. ASSUME NEW t \in Types
          PROVE  t \in ManagedTypes' <=> t \in ManagedTypes /\ t # c
      <3>1. /\ DOMAIN assocs' = 1..(n - 1)
            /\ \A i \in 1..(n - 1) : assocs'[i] = assocs[i + 1]
        <4>1. PICK a \in Seq(Types) : a = assocs
          BY <1>1
        <4>2. PICK b : b = assocs'
          OBVIOUS
        <4>3. n = Len(a) /\ b = Tail(a) /\ a # <<>>
          BY <1>1, <2>4, <4>1, <4>2
        <4>4. DOMAIN b = 1..(n - 1) /\ \A i \in 1..(n - 1) : b[i] = a[i + 1]
          BY <4>3
        <4> QED BY <4>1, <4>2, <4>4
      <3> HIDE DEF n
      <3>2. \A i \in 1..n : i = 1 \/ (i - 1 \in 1..(n - 1) /\ (i - 1) + 1 = i)
        BY <1>1
      <3>3. \A i \in 1..(n - 1) : i + 1 # 1 /\ i + 1 \in 1..n
        BY <1>1
      <3>4. \A i, j \in 1..n : assocs[i] = assocs[j] => i = j
        BY <1>2 DEF BInv, Assocs
      <3>5. ASSUME t \in ManagedTypes' PROVE t \in ManagedTypes /\ t # c
        <4>1. PICK i \in 1..(n - 1) : t = assocs[i + 1]
          BY <3>1, <3>5 DEF ManagedTypes
        <4> QED BY <1>2, <3>3, <3>4, <4>1 DEF ManagedTypes
      <3>6. ASSUME t \in ManagedTypes, t # c PROVE t \in ManagedTypes'
        <4>1. PICK i \in 1..n : t = assocs[i]
          BY <1>2, <3>6 DEF ManagedTypes
        <4>2. i # 1
          BY <1>2, <3>6, <4>1
        <4>3. PICK j \in 1..(n - 1) : j + 1 = i
          BY <3>2, <4>2
        <4> QED BY <3>1, <4>1, <4>3 DEF ManagedTypes
      <3> QED BY <3>5, <3>6
    <2>6. ASSUME NEW t \in Types
          PROVE  q.major[t] = IF provide /\ t \in ManagedTypes' THEN t ELSE NoType
      <3>1. CASE t = c
        BY <2>1, <2>2, <2>5, <3>1
      <3>2. CASE t # c
        BY <2>1, <2>2, <2>5, <3>2 DEF RInv
      <3> QED BY <3>1, <3>2
    <2>7. ManagedTypes' \subseteq Types
      <3>1. assocs' \in Seq(Types)
        BY <1>1, <2>4
      <3> QED BY <3>1 DEF ManagedTypes
    <2>8. ASSUME NEW t \in ManagedTypes'
          PROVE  q.cref[t] = IF provide THEN 2 ELSE 1
      <3>1. t \in Types /\ t \in ManagedTypes /\ t # c
        BY <2>5, <2>7
      <3> QED BY <2>1, <2>2, <3>1 DEF RInv
    <2> QED BY <1>9, <2>2, <2>4, <2>6, <2>8 DEF RInv
  <1> QED BY <1>8, <1>10, <1>11

\* An addition allocates its cache,
LEMMA AddStartRInv ==
    ASSUME BInv, RInv, NEW t \in Types, AddStart(t)
    PROVE  RInv'
  <1>1. PICK f : f = [reg.cref EXCEPT ![t] = 1]
    OBVIOUS
  <1>2. reg \in Registry /\ reg' = [reg EXCEPT !.cref = f]
    BY <1>1 DEF BInv, Data, AddStart
  <1>3. /\ f[t] = 1 /\ \A u \in Types : u # t => f[u] = reg.cref[u]
    BY <1>1, <1>2 DEF Registry
  <1>4. reg'.cref = f /\ reg'.bug = reg.bug /\ reg'.major = reg.major
    BY <1>2 DEF Registry
  <1>5. /\ t \notin ManagedTypes /\ ManagedTypes' = ManagedTypes /\ cur' = t
        /\ provide' = provide /\ ~reg.bug /\ ManagedTypes \subseteq Types
    BY DEF AddStart, ManagedTypes, RInv, Stuck, BInv, Data
  <1>6. \A u \in ManagedTypes : f[u] = IF provide THEN 2 ELSE 1
    BY <1>3, <1>5 DEF RInv
  <1> QED BY <1>3, <1>4, <1>5, <1>6 DEF RInv

\* gives its reference back when it fails,
LEMMA FailRInv ==
    ASSUME BInv, RInv, Adding, reg' = nl_cache_free(reg, cur), ~Adding',
           UNCHANGED <<assocs, provide>>
    PROVE  RInv'
  <1>1. PICK q : q = nl_cache_free(reg, cur)
    OBVIOUS
  <1>2. /\ cur \in Types /\ reg \in Registry /\ reg.cref[cur] > 0
        /\ cur \notin ManagedTypes /\ ManagedTypes \subseteq Types /\ ~reg.bug
    BY DEF BInv, Data, RInv, Adding, ManagedTypes, Stuck
  <1>3. /\ q.bug = reg.bug /\ q.major = reg.major
        /\ \A u \in Types : u # cur => q.cref[u] = reg.cref[u]
    BY <1>1, <1>2, FreeCref
  <1>4. reg' = q /\ ManagedTypes' = ManagedTypes
    BY <1>1 DEF ManagedTypes
  <1>5. \A u \in ManagedTypes : q.cref[u] = IF provide THEN 2 ELSE 1
    BY <1>2, <1>3 DEF RInv
  <1> QED BY <1>2, <1>3, <1>4, <1>5 DEF RInv

\* and has it provided when it succeeds.
LEMMA FillDoneRInv ==
    ASSUME BInv, OwnObjects, RInv, FillDone
    PROVE  RInv'
  <1>0. /\ ~Adding' /\ pc = "dump" /\ assocs \in Seq(Types) /\ cur \in Types
        /\ ~reg.bug /\ provide' = provide /\ provide \in BOOLEAN
    BY DEF FillDone, Adding, BInv, Data, Flags, RInv, Stuck
  <1>1. CASE cur \in ManagedTypes
    BY <1>0, <1>1, SameRegistry DEF FillDone
  <1>2. CASE cur \notin ManagedTypes
    <2>1. Adding
      BY <1>0, <1>2 DEF Adding
    <2>2. /\ RegistryOK(reg) /\ Registered(reg, cur) /\ reg.cref[cur] = 1
          /\ reg \in Registry /\ reg.major[cur] = NoType
      BY <1>0, <1>2, <2>1 DEF BInv, Assocs, RInv, RegistryOK
    <2>3. cur = lookup_for_obj(reg, cur)
      BY <1>0, <2>2, LookupOwn DEF OwnObjects
    <2>4. PICK p : p = reg'
      OBVIOUS
    <2>5. /\ p.bug = reg.bug
          /\ p.major[cur] = IF provide THEN cur ELSE NoType
          /\ p.cref[cur] = IF provide THEN 2 ELSE 1
          /\ \A u \in Types : u # cur => p.major[u] = reg.major[u]
          /\ \A u \in Types : u # cur => p.cref[u] = reg.cref[u]
      <3>1. reg.cref[cur] > 0
        BY <2>2
      <3>2. CASE provide
        <4>1. p = nl_cache_mngt_provide(reg, cur)
          BY <1>2, <2>4, <3>2 DEF FillDone
        <4>2. /\ p.bug = reg.bug /\ p.major[cur] = cur
              /\ p.cref[cur] = reg.cref[cur] + 1
              /\ \A u \in Types : u # cur => p.major[u] = reg.major[u]
              /\ \A u \in Types : u # cur => p.cref[u] = reg.cref[u]
          BY <1>0, <2>2, <2>3, <3>1, <4>1, Provide
        <4> QED BY <2>2, <3>2, <4>2
      <3>3. CASE ~provide
        <4>1. p = reg
          BY <2>4, <3>3 DEF FillDone
        <4> QED BY <2>2, <3>3, <4>1
      <3> QED BY <1>0, <3>2, <3>3
    <2>7. reg' = p /\ assocs' = Append(assocs, cur)
      BY <1>2, <2>4 DEF FillDone
    <2>8. ManagedTypes' = ManagedTypes \cup {cur} /\ ManagedTypes \subseteq Types
      <3> DEFINE n == Len(assocs)
      <3>1. /\ n \in Nat /\ DOMAIN assocs = 1..n /\ DOMAIN assocs' = 1..(n + 1)
            /\ assocs'[n + 1] = cur /\ n + 1 \in 1..(n + 1)
            /\ \A i \in 1..n : assocs'[i] = assocs[i] /\ i \in 1..(n + 1)
        BY <1>0, <2>7
      <3> HIDE DEF n
      <3>2. \A i \in 1..(n + 1) : i = n + 1 \/ i \in 1..n
        BY <3>1
      <3>3. ManagedTypes \subseteq Types
        BY <1>0 DEF ManagedTypes
      <3> QED BY <3>1, <3>2, <3>3 DEF ManagedTypes
    <2>9. ASSUME NEW t \in Types
          PROVE  p.major[t] = IF provide /\ t \in ManagedTypes' THEN t ELSE NoType
      <3>1. CASE t = cur
        BY <2>5, <2>8, <3>1
      <3>2. CASE t # cur
        BY <2>5, <2>8, <3>2 DEF RInv
      <3> QED BY <3>1, <3>2
    <2>10. ASSUME NEW t \in ManagedTypes'
           PROVE  p.cref[t] = IF provide THEN 2 ELSE 1
      <3>1. CASE t = cur
        BY <2>5, <3>1
      <3>2. CASE t # cur
        <4>1. t \in ManagedTypes /\ t \in Types
          BY <2>8, <3>2
        <4> QED BY <2>5, <3>2, <4>1 DEF RInv
      <3> QED BY <3>1, <3>2
    <2> QED BY <1>0, <2>5, <2>7, <2>9, <2>10 DEF RInv
  <1> QED BY <1>1, <1>2

LEMMA StepRInv ==
    ASSUME BInv, OwnObjects, RInv, [Next]_vars
    PROVE  RInv'
  <1>0. ASSUME pc # "free" PROVE ~reg.bug
    BY <1>0 DEF RInv, Stuck
  <1>1. CASE UNCHANGED vars
    BY <1>1 DEF RInv, Stuck, vars, mngrVars, callVars, Adding, ManagedTypes
  <1>2. CASE \E f \in BOOLEAN, o \in {"ok", "noarray", "noconnect", "nosync"} :
                nl_cache_mngr_alloc(f, o)
    <2>1. /\ pc = "idle" /\ assocs = <<>> /\ assocs' = <<>> /\ reg' = reg
          /\ ~Adding' /\ ManagedTypes = {} /\ ManagedTypes' = {}
      BY <1>2 DEF nl_cache_mngr_alloc, callVars, Adding, ManagedTypes, BInv, Calls
    <2> QED BY <1>0, <2>1 DEF RInv
  <1>3. CASE nl_cache_mngr_free
    BY <1>0, <1>3, SameRegistry DEF nl_cache_mngr_free, Adding
  <1>14. CASE FreeDone
    <2>1. /\ assocs = <<>> /\ assocs' = <<>> /\ reg' = reg /\ ~reg.bug
          /\ ~Adding' /\ ManagedTypes = {} /\ ManagedTypes' = {}
      BY <1>14 DEF FreeDone, Adding, ManagedTypes, RInv, Stuck
    <2> QED BY <2>1 DEF RInv
  <1>4. CASE \E t \in Types : nl_cache_mngt_register(t)
                              \/ nl_cache_mngt_unregister(t)
    <2>1. PICK t \in Types : nl_cache_mngt_register(t)
                             \/ nl_cache_mngt_unregister(t)
      BY <1>4
    <2>2. /\ UNCHANGED <<assocs, pc, cur, provide>> /\ pc = "idle"
          /\ reg' = Register(reg, t) \/ reg' = Unregister(reg, t)
      BY <2>1 DEF nl_cache_mngt_register, nl_cache_mngt_unregister, callVars
    <2>3. /\ reg'.bug = reg.bug /\ reg'.major = reg.major
          /\ reg'.cref = reg.cref
      BY <2>2, RegisterOK, UnregisterOK DEF BInv, Assocs
    <2> QED BY <1>0, <2>2, <2>3, SameCaches
  <1>5. CASE \E t \in Types : Recover(t)
    BY <1>0, <1>5, SameRegistry DEF Recover, mngrVars, Adding, ManagedTypes, BInv, Data
  <1>6. CASE AddJoin \/ AddFill
    BY <1>0, <1>6, SameRegistry DEF AddJoin, AddFill, StartFill, mngrVars, Adding,
                              ManagedTypes
  <1>7. CASE AddJoinFails
    <2>1. /\ Adding /\ ~Adding' /\ UNCHANGED <<assocs, provide>>
          /\ reg' = nl_cache_free(reg, cur)
      BY <1>7 DEF AddJoinFails, Adding, BInv, Calls
    <2> QED BY <2>1, FailRInv
  <1>8. CASE FillFails
    <2>1. CASE cur \in ManagedTypes
      BY <1>0, <1>8, <2>1, SameRegistry DEF FillFails, Adding
    <2>2. CASE cur \notin ManagedTypes
      BY <1>8, <2>2, FailRInv DEF FillFails, Adding
    <2> QED BY <2>1, <2>2
  <1>9. CASE FillRestart \/ \E k \in Keys : FillObject(k)
    BY <1>0, <1>9, SameRegistry DEF FillRestart, FillObject, mngrVars, Adding,
                              ManagedTypes
  <1>10. CASE DataReady \/ ReadNobufs \/ ReadAgain
    BY <1>0, <1>10, SameRegistry DEF DataReady, ReadNobufs, ReadAgain, DataReadyError,
                               mngrVars, Adding
  <1>11. CASE event_input \/ event_input_fails
    BY <1>0, <1>11, SameRegistry DEF event_input, event_input_fails, Receive,
                               DataReadyError, mngrVars, Adding
  <1>12. CASE \E k \in Keys, v \in Vals \cup {None} : Change(k, v)
    BY <1>12, SameRegistry DEF Change, mngrVars, Adding, ManagedTypes
  <1>13. CASE \E t \in Types : AddStart(t)
    BY <1>13, AddStartRInv
  <1> QED BY <1>1, <1>2, <1>3, <1>4, <1>5, <1>6, <1>7, <1>8, <1>9, <1>10,
             <1>11, <1>12, <1>13, <1>14, FreeCacheRInv, FillDoneRInv
          DEF Next, Add, Fill, Poll

\* When no type shares its objects, with NL_AUTO_PROVIDE or without: a BUG()
\* of the registry is reached in one case only, a manager without that flag
\* is freed after the type of one of its caches was unregistered; no freed
\* cache is touched, and what nl_cache_mngt_require() returns is a managed
\* cache with a reference of its own.
THEOREM CachesReferenced == OwnObjects => (Spec => []RegistrySafe)
  <1> SUFFICES ASSUME OwnObjects PROVE Spec => []RegistrySafe
    OBVIOUS
  <1>1. Init => RInv
    BY DEF Init, NewRegistry, RInv, ManagedTypes, Adding
  <1>2. BInv /\ RInv /\ [Next]_vars => RInv'
    BY StepRInv
  <1>3. BInv /\ RInv => RegistrySafe
    <2> SUFFICES ASSUME BInv, RInv PROVE RegistrySafe
      OBVIOUS
    <2>1. ASSUME NEW t \in Types, Required(reg, t) # NoType
          PROVE  /\ Required(reg, t) \in ManagedTypes
                 /\ reg.cref[Required(reg, t)] > 1
      <3>1. Required(reg, t) = reg.major[t] /\ reg.major[t] # NoType
        BY <2>1 DEF Required
      <3>2. t \in ManagedTypes /\ reg.major[t] = t /\ provide
        BY <3>1 DEF RInv
      <3>3. reg.cref[t] = 2
        BY <3>2 DEF RInv
      <3> QED BY <3>1, <3>2, <3>3
    <2> QED BY <2>1 DEF RegistrySafe, RInv, Stuck
  <1> QED BY <1>1, <1>2, <1>3, BInvariance, PTL DEF Spec

=============================================================================
