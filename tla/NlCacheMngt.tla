---------------------------- MODULE NlCacheMngt ----------------------------
(***************************************************************************)
(* The registry of cache types (lib/cache_mngt.c) as a value, and the      *)
(* calls that change it; cache_ops_lock is held throughout each of them.   *)
(* A cache is named after its type.                                        *)
(***************************************************************************)
EXTENDS Naturals, Sequences

CONSTANTS
    Types,     \* struct nl_cache_ops, each with a name of its own
    ObjOf,     \* ObjOf[t]: co_obj_ops
    NoType     \* NULL

ASSUME MngtAssumption == NoType \notin Types

\* list is cache_ops; per type, ref is co_refcnt and major is co_major_cache;
\* per cache, cref is c_refcnt, 0 when it is not allocated; bug is set by
\* BUG() and by touching a cache that is freed.
Registry == [list : Seq(Types), ref : [Types -> Nat],
             major : [Types -> Types \cup {NoType}], cref : [Types -> Nat],
             bug : BOOLEAN]

\* The library's constructors have registered all types, each at the head.
NewRegistry(list) ==
    [list |-> list, ref |-> [t \in Types |-> 0],
     major |-> [t \in Types |-> NoType], cref |-> [t \in Types |-> 0],
     bug |-> FALSE]

Registered(r, t) == \E i \in DOMAIN r.list : r.list[i] = t

\* nl_cache_mngt_register()
Register(r, t) ==
    IF Registered(r, t) THEN r
    ELSE [r EXCEPT !.list = <<t>> \o @, !.ref[t] = 0]

\* nl_cache_mngt_unregister(): refuses a type that is in use or not in the
\* list, and takes any other out of it.
Unregister(r, t) ==
    IF r.ref[t] > 0 \/ ~Registered(r, t) THEN r
    ELSE LET i == CHOOSE n \in DOMAIN r.list : r.list[n] = t
         IN  [r EXCEPT !.list = SubSeq(@, 1, i - 1) \o SubSeq(@, i + 1, Len(@))]

\* Mutant: the objects are not compared.
LookupAny(r, c) == IF r.list = <<>> THEN NoType ELSE r.list[1]

\* cache_ops_lookup_for_obj(): the first type with these objects.
lookup_for_obj(r, c) ==
    LET found == {i \in DOMAIN r.list : ObjOf[r.list[i]] = ObjOf[c]}
    IN  IF found = {} THEN NoType
        ELSE r.list[CHOOSE i \in found : \A j \in found : i <= j]

nl_cache_get(r, c) ==
    IF r.cref[c] > 0 THEN [r EXCEPT !.cref[c] = @ + 1]
    ELSE [r EXCEPT !.bug = TRUE]

nl_cache_free(r, c) ==
    IF r.cref[c] > 0 THEN [r EXCEPT !.cref[c] = @ - 1]
    ELSE [r EXCEPT !.bug = TRUE]

\* nl_cache_mngt_provide(): the cache gets a reference, and its type one for
\* the first cache provided; a cache provided before is overwritten.
nl_cache_mngt_provide(r, c) ==
    LET t  == lookup_for_obj(r, c)
        r1 == nl_cache_get(r, c)
    IN  IF t = NoType THEN [r EXCEPT !.bug = TRUE]
        ELSE [r1 EXCEPT !.ref[t] = IF r.major[t] = NoType THEN @ + 1 ELSE @,
                        !.major[t] = c]

\* Mutant: the pointer is not reset.
UnprovideKeepsPointer(r, c) ==
    LET t == lookup_for_obj(r, c)
    IN  IF t = NoType THEN [r EXCEPT !.bug = TRUE]
        ELSE IF r.major[t] # c THEN r
        ELSE [nl_cache_free(r, c) EXCEPT !.ref[t] = @ - 1]

\* nl_cache_mngt_unprovide(): only if this is the cache provided.
nl_cache_mngt_unprovide(r, c) ==
    LET t == lookup_for_obj(r, c)
    IN  IF t = NoType THEN [r EXCEPT !.bug = TRUE]
        ELSE IF r.major[t] # c THEN r
        ELSE [nl_cache_free(r, c) EXCEPT !.ref[t] = @ - 1, !.major[t] = NoType]

\* What nl_cache_mngt_require() returns for a name.
Required(r, t) == IF Registered(r, t) THEN r.major[t] ELSE NoType
=============================================================================
