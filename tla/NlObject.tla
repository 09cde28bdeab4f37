------------------------------ MODULE NlObject ------------------------------
(***************************************************************************)
(* Reference counts of cached objects: lib/object.c, lib/hashtable.c and   *)
(* the modifications of lib/cache.c.  An object is referenced by the       *)
(* application, by the list of at most one cache and by the node of that   *)
(* cache's hash table; it is freed with its last reference.  The library   *)
(* takes no lock around objects: a cache and its objects belong to one     *)
(* thread, and a call is one step.  The key attributes of an object in a   *)
(* cache are not changed.                                                  *)
(***************************************************************************)
EXTENDS Naturals, FiniteSets

CONSTANTS
    Objs, Caches, Keys,
    NoCache,     \* ce_cache is NULL
    MaxHeld,     \* bound: references of the application to one object
    MaxLeaks     \* bound: references left behind, per object

ASSUME ObjectAssumption ==
    /\ NoCache \notin Caches
    /\ IsFiniteSet(Caches)
    /\ Keys # {}
    /\ MaxHeld \in Nat /\ MaxLeaks \in Nat

VARIABLES
    h,       \* the heap: objects, caches and hash tables, see Heap
    held,    \* references of the application, per object
    leaked   \* history: references a failed nl_cache_move() left behind

vars == <<h, held, leaked>>

\* ref is ce_refcnt, 0 for an object that is not allocated; in is ce_cache,
\* the cache whose list the object is in; linked is set once ce_list has been
\* in a list (nl_list_del() does not reset it); hash are the nodes of a hash
\* table; bug is set by BUG() and by touching an object that is freed.
Heap == [ref : [Objs -> Nat], key : [Objs -> Keys],
         in : [Objs -> Caches \cup {NoCache}], linked : [Objs -> BOOLEAN],
         open : SUBSET Caches, hashed : SUBSET Caches,
         hash : [Caches -> SUBSET Objs], bug : BOOLEAN]

Alive(s, o)   == s.ref[o] > 0
Items(s, c)   == {o \in Objs : s.in[o] = c}
Free          == {o \in Objs : ~Alive(h, o)}

\* Objects identical to o in a set.
Identical(s, o, set) == {n \in set : s.key[n] = s.key[o]}

TypeOK ==
    /\ h \in Heap
    /\ held \in [Objs -> 0..MaxHeld]
    /\ leaked \in [Objs -> Nat]
    \* a hash table never holds two identical objects
    /\ \A c \in Caches : \A a, b \in h.hash[c] : h.key[a] = h.key[b] => a = b

Init ==
    /\ h = [ref |-> [o \in Objs |-> 0],
            key |-> [o \in Objs |-> CHOOSE k \in Keys : TRUE],
            in |-> [o \in Objs |-> NoCache],
            linked |-> [o \in Objs |-> FALSE],
            open |-> {}, hashed |-> {},
            hash |-> [c \in Caches |-> {}], bug |-> FALSE]
    /\ held = [o \in Objs |-> 0]
    /\ leaked = [o \in Objs |-> 0]

-----------------------------------------------------------------------------
(* The operations on the heap, in terms of which the calls are written.    *)

\* nl_object_alloc() of an object with key k.
Alloc(s, o, k) ==
    [s EXCEPT !.ref[o] = 1, !.key[o] = k, !.linked[o] = FALSE]

Get(s, o) ==
    IF Alive(s, o) THEN [s EXCEPT !.ref[o] = @ + 1]
    ELSE [s EXCEPT !.bug = TRUE]

\* Freeing an object that is in a list removes it from there, which drops a
\* reference that is not there: BUG().
Put(s, o) ==
    IF s.ref[o] > 1 \/ (s.ref[o] = 1 /\ s.in[o] = NoCache)
    THEN [s EXCEPT !.ref[o] = @ - 1]
    ELSE [s EXCEPT !.bug = TRUE]

\* Mutant: the hash table is not asked for an identical object.
CanAddAnyway(s, c, o, mem) == c \in s.hashed => mem

\* nl_hash_table_add() refuses identical objects, and fails without memory.
CanAdd(s, c, o, mem) ==
    c \in s.hashed => Identical(s, o, s.hash[c]) = {} /\ mem

Link(s, c, o) ==
    [s EXCEPT !.in[o] = c, !.linked[o] = TRUE]

\* Mutant: ce_cache is not reset when the hash table refuses the object.
AddForgetsReset(s, c, o, mem) ==
    IF CanAdd(s, c, o, mem)
    THEN IF c \in s.hashed
         THEN [Link(Get(s, o), c, o) EXCEPT !.hash[c] = @ \cup {o}]
         ELSE Link(s, c, o)
    ELSE [s EXCEPT !.in[o] = c]

\* __cache_add(): the list's reference is the caller's.
__cache_add(s, c, o, mem) ==
    IF CanAdd(s, c, o, mem)
    THEN IF c \in s.hashed
         THEN [Link(Get(s, o), c, o) EXCEPT !.hash[c] = @ \cup {o}]
         ELSE Link(s, c, o)
    ELSE s

\* nl_hash_table_del(): removes the node of an identical object and drops a
\* reference of this one.
nl_hash_table_del(s, c, o) ==
    LET nodes == Identical(s, o, s.hash[c])
    IN  IF nodes = {} THEN s
        ELSE [Put(s, o) EXCEPT !.hash[c] = @ \ {CHOOSE n \in nodes : TRUE}]

\* nl_cache_remove()
Remove(s, o) ==
    IF s.in[o] = NoCache THEN s
    ELSE LET s1 == IF s.in[o] \in s.hashed
                   THEN nl_hash_table_del(s, s.in[o], o) ELSE s
         IN  Put([s1 EXCEPT !.in[o] = NoCache], o)

\* nl_cache_add() of an object that was never in a list; any other is cloned
\* by the caller first (see nl_cache_add below).
AddNew(s, c, o, mem) ==
    LET s1 == Get(s, o)
    IN  IF CanAdd(s1, c, o, mem) THEN __cache_add(s1, c, o, mem)
        ELSE Put(s1, o)

\* Mutant: no reference is taken for the list.
MoveWithoutGet(s, c, o, mem) ==
    __cache_add(IF s.linked[o] THEN Remove(s, o) ELSE s, c, o, mem)

\* nl_cache_move(): the reference taken first is the list's; if the object
\* cannot be added it stays behind.
Move(s, c, o, mem) ==
    LET s1 == Get(s, o)
        s2 == IF s1.linked[o] THEN Remove(s1, o) ELSE s1
    IN  __cache_add(s2, c, o, mem)

\* Whether Move() left a reference behind.
MoveFails(s, c, o, mem) == ~CanAdd(Remove(Get(s, o), o), c, o, mem)

\* A reference of o is left behind if the move fails.
Leak(o, fails) ==
    /\ fails => leaked[o] < MaxLeaks
    /\ leaked' = IF fails THEN [leaked EXCEPT ![o] = @ + 1] ELSE leaked

-----------------------------------------------------------------------------
(* Objects.                                                                *)

nl_object_alloc(o, k) ==
    /\ o \in Free
    /\ MaxHeld > 0
    /\ h' = Alloc(h, o, k)
    /\ held' = [held EXCEPT ![o] = 1]
    /\ UNCHANGED leaked

nl_object_clone(o, n) ==
    /\ held[o] > 0
    /\ n \in Free
    /\ h' = Alloc(h, n, h.key[o])
    /\ held' = [held EXCEPT ![n] = 1]
    /\ UNCHANGED leaked

nl_object_get(o) ==
    /\ held[o] \in 1..(MaxHeld - 1)
    /\ h' = Get(h, o)
    /\ held' = [held EXCEPT ![o] = @ + 1]
    /\ UNCHANGED leaked

nl_object_put(o) ==
    /\ held[o] > 0
    /\ h' = Put(h, o)
    /\ held' = [held EXCEPT ![o] = @ - 1]
    /\ UNCHANGED leaked

-----------------------------------------------------------------------------
(* Caches.                                                                 *)

\* nl_cache_alloc(): a type with oo_keygen has a hash table, unless there is
\* no memory for it.
nl_cache_alloc(c, hashed) ==
    /\ c \notin h.open
    /\ h' = [h EXCEPT !.open = @ \cup {c},
                      !.hashed = IF hashed THEN @ \cup {c} ELSE @ \ {c}]
    /\ UNCHANGED <<held, leaked>>

\* nl_cache_add() of an object that has not been in a list.
nl_cache_add(c, o, mem) ==
    /\ c \in h.open
    /\ held[o] > 0
    /\ ~h.linked[o]
    /\ h' = AddNew(h, c, o, mem)
    /\ UNCHANGED <<held, leaked>>

\* nl_cache_add() of any other object: a clone is added, whose first
\* reference is the list's and is dropped if it cannot be added.
nl_cache_add_clone(c, o, n, mem) ==
    /\ c \in h.open
    /\ held[o] > 0 \/ h.in[o] # NoCache
    /\ h.linked[o]
    /\ n \in Free
    /\ LET s == Alloc(h, n, h.key[o])
       IN  h' = IF CanAdd(s, c, n, mem) THEN __cache_add(s, c, n, mem)
                ELSE Put(s, n)
    /\ UNCHANGED <<held, leaked>>

nl_cache_move(c, o, mem) ==
    /\ c \in h.open
    /\ held[o] > 0 \/ h.in[o] # NoCache
    /\ h' = Move(h, c, o, mem)
    /\ Leak(o, MoveFails(h, c, o, mem))
    /\ UNCHANGED held

nl_cache_remove(o) ==
    /\ h.in[o] # NoCache
    /\ h' = Remove(h, o)
    /\ UNCHANGED <<held, leaked>>

\* nl_cache_search(): finds a node of the hash table, or an object of the
\* list, with a reference.
Found(c, k) == {o \in (IF c \in h.hashed THEN h.hash[c] ELSE Items(h, c)) :
                    h.key[o] = k}

nl_cache_search(c, o) ==
    /\ c \in h.open
    /\ \E k \in Keys : o \in Found(c, k)
    /\ held[o] < MaxHeld
    /\ h' = Get(h, o)
    /\ held' = [held EXCEPT ![o] = @ + 1]
    /\ UNCHANGED leaked

\* cache_include() and pickup_checkdup_cb() when the object is not there.
IncludeNew(c, o, mem) ==
    /\ c \in h.open
    /\ held[o] > 0
    /\ Found(c, h.key[o]) = {}
    /\ h' = Move(h, c, o, mem)
    /\ Leak(o, MoveFails(h, c, o, mem))
    /\ UNCHANGED held

\* cache_include() with NL_ACT_DEL: the object found is removed while the
\* search's reference keeps it for the callback.
IncludeDel(c, o, old) ==
    /\ c \in h.open
    /\ held[o] > 0
    /\ old \in Found(c, h.key[o])
    /\ h' = Put(Remove(Get(h, old), old), old)
    /\ UNCHANGED <<held, leaked>>

\* Mutant: the search's reference is not returned.
IncludeKeepsOld(c, o, old, mem) ==
    /\ c \in h.open
    /\ held[o] > 0
    /\ old \in Found(c, h.key[o])
    /\ h' = Move(Remove(Get(h, old), old), c, o, mem)
    /\ Leak(o, MoveFails(Remove(h, old), c, o, mem))
    /\ UNCHANGED held

\* cache_include() with NL_ACT_NEW: the old object is removed, the new one
\* moved in, the callback made with both.  (A type with oo_update merges the
\* new object into the old one instead and leaves all references alone.)
IncludeChange(c, o, old, mem) ==
    /\ c \in h.open
    /\ held[o] > 0
    /\ old \in Found(c, h.key[o])
    /\ h' = Put(Move(Remove(Get(h, old), old), c, o, mem), old)
    /\ Leak(o, MoveFails(Remove(Get(h, old), old), c, o, mem))
    /\ UNCHANGED held

\* pickup_checkdup_cb(): as nl_cache_add() after the old object was removed.
PickupCheckdup(c, o, old, mem) ==
    /\ c \in h.open
    /\ held[o] > 0
    /\ ~h.linked[o]
    /\ old \in Found(c, h.key[o])
    /\ h' = AddNew(Put(Remove(Get(h, old), old), old), c, o, mem)
    /\ UNCHANGED <<held, leaked>>

\* nl_cache_remove() of every object of the list.
Cleared(s, c) ==
    LET drop(o) == (IF s.in[o] = c THEN 1 ELSE 0)
                       + (IF o \in s.hash[c] THEN 1 ELSE 0)
    IN  [s EXCEPT !.ref = [o \in Objs |-> IF drop(o) <= s.ref[o]
                                          THEN s.ref[o] - drop(o) ELSE 0],
                  !.in = [o \in Objs |-> IF s.in[o] = c THEN NoCache
                                         ELSE s.in[o]],
                  !.hash[c] = {},
                  !.bug = @ \/ \E o \in Objs : drop(o) > s.ref[o]]

nl_cache_clear(c) ==
    /\ c \in h.open
    /\ h' = Cleared(h, c)
    /\ UNCHANGED <<held, leaked>>

nl_cache_free(c) ==
    /\ c \in h.open
    /\ h' = [Cleared(h, c) EXCEPT !.open = @ \ {c}]
    /\ UNCHANGED <<held, leaked>>

-----------------------------------------------------------------------------
Next ==
    \/ \E o \in Objs, k \in Keys : nl_object_alloc(o, k)
    \/ \E o, n \in Objs : nl_object_clone(o, n)
    \/ \E o \in Objs : nl_object_get(o) \/ nl_object_put(o)
    \/ \E c \in Caches, b \in BOOLEAN : nl_cache_alloc(c, b)
    \/ \E c \in Caches, o \in Objs, mem \in BOOLEAN :
           \/ nl_cache_add(c, o, mem)
           \/ nl_cache_move(c, o, mem)
           \/ IncludeNew(c, o, mem)
           \/ \E n \in Objs :
                  \/ nl_cache_add_clone(c, o, n, mem)
                  \/ IncludeChange(c, o, n, mem)
                  \/ PickupCheckdup(c, o, n, mem)
    \/ \E c \in Caches, o, n \in Objs : IncludeDel(c, o, n)
    \/ \E c \in Caches, o \in Objs : nl_cache_search(c, o)
    \/ \E o \in Objs : nl_cache_remove(o)
    \/ \E c \in Caches : nl_cache_clear(c) \/ nl_cache_free(c)

Spec == Init /\ [][Next]_vars

-----------------------------------------------------------------------------
(* Properties.                                                             *)

Nodes(o) == {c \in Caches : o \in h.hash[c]}

\* References to o that something will return: the application, the list of
\* a cache, nodes of hash tables, and failed calls of nl_cache_move(), which
\* never will.
References(o) ==
    held[o] + leaked[o] + (IF h.in[o] = NoCache THEN 0 ELSE 1)
        + Cardinality(Nodes(o))

\* ce_refcnt is the number of references there are, whatever the order of
\* adding, moving, including, removing and clearing, and whichever of them
\* fail: an object is freed with its last reference and not before.
RefsCounted == \A o \in Objs : h.ref[o] = References(o)

\* No call touches a freed object, frees one that is in a list, or drops more
\* references than there are (the BUG() of nl_object_put()).
NoBug == ~h.bug

\* A cache with a hash table finds exactly the objects of its list, also
\* after additions the hash table refused or had no memory for.
HashMatchesList ==
    \A c \in h.open : h.hash[c] = IF c \in h.hashed THEN Items(h, c) ELSE {}
=============================================================================
