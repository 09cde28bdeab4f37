------------------------------ MODULE NlCache ------------------------------
(***************************************************************************)
(* Contents of an object cache (lib/cache.c, lib/hashtable.c) as a value,  *)
(* and the operations on it.  Objects with the same key attributes are     *)
(* nl_object_identical(); the cache is, per key, the sequence of its       *)
(* objects in list order, each with its other attributes (val) and its     *)
(* NL_OBJ_MARK flag.  A cache type may have a hash table (oo_keygen) and   *)
(* may merge a new object into the old one (oo_update).                    *)
(***************************************************************************)
EXTENDS Naturals, Sequences

CONSTANTS Keys, Vals,
          None      \* no object with this key

ASSUME CacheAssumption == None \notin Vals

\* Cache types: hashed is oo_keygen # NULL, update is oo_update # NULL.
CacheTypes == [hashed : BOOLEAN, update : BOOLEAN]

Object(v) == [val |-> v, mark |-> FALSE]

Contents == [Keys -> Seq([val : Vals, mark : BOOLEAN])]

\* nl_cache_clear()
EmptyCache == [k \in Keys |-> <<>>]

\* What nl_cache_search() finds for each key.
View(c) == [k \in Keys |-> IF c[k] = <<>> THEN None ELSE Head(c[k]).val]

\* Mutant: the hash table is not asked for a duplicate.
AddUnchecked(t, c, k, v) == [c EXCEPT ![k] = Append(@, Object(v))]

\* __cache_add(): a hash table refuses a duplicate with -NLE_EXIST; without
\* one, the object is appended to the list whatever is there.
__cache_add(t, c, k, v) ==
    IF t.hashed /\ c[k] # <<>> THEN c
    ELSE [c EXCEPT ![k] = Append(@, Object(v))]

\* nl_cache_remove() of the object nl_cache_search() found.
nl_cache_remove(c, k) == [c EXCEPT ![k] = Tail(@)]

nl_cache_mark_all(c) ==
    [k \in Keys |-> [i \in DOMAIN c[k] |-> [c[k][i] EXCEPT !.mark = TRUE]]]

\* What cache_include() does with an object of key k: the new contents, and
\* the change callback it makes ("none" if there is none).
Included(c, act) == [cache |-> c, event |-> act]

\* Mutant: a replaced object is not taken out first.
IncludeWithoutRemove(t, c, k, v, act) ==
    IF c[k] # <<>> /\ act = "DEL"
       THEN Included(nl_cache_remove(c, k), "DEL")
    ELSE IF act = "NEW"
       THEN Included(__cache_add(t, c, k, v), "NEW")
       ELSE Included(c, "none")

\* Mutant: replacing an object calls nobody.
IncludeSilentChange(t, c, k, v, act) ==
    LET found == c[k] # <<>>
        rest  == IF found THEN nl_cache_remove(c, k) ELSE c
    IN  IF act = "DEL"
           THEN Included(rest, IF found THEN "DEL" ELSE "none")
           ELSE Included(__cache_add(t, rest, k, v),
                         IF found THEN "none" ELSE "NEW")

\* cache_include(): an old object that can be updated is, in place; any
\* other is removed, and for NL_ACT_NEW the new one moved in.  oo_update is
\* that of netconf: it merges NEW messages and refuses DEL.
cache_include(t, c, k, v, act) ==
    LET found == c[k] # <<>>
        rest  == IF found THEN nl_cache_remove(c, k) ELSE c
    IN  IF found /\ t.update /\ act = "NEW"
           THEN Included([c EXCEPT ![k][1].val = v], "CHANGE")
        ELSE IF act = "DEL"
           THEN Included(rest, IF found THEN "DEL" ELSE "none")
        ELSE Included(__cache_add(t, rest, k, v),
                      IF ~found THEN "NEW"
                      ELSE IF Head(c[k]).val # v THEN "CHANGE" ELSE "none")
=============================================================================
