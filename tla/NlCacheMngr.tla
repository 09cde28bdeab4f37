---------------------------- MODULE NlCacheMngr ----------------------------
(***************************************************************************)
(* The cache manager of lib/cache_mngr.c: one socket that receives the     *)
(* events of all managed caches, a second one on which a cache is filled   *)
(* when it is added, and the application that polls.  The kernel changes   *)
(* its tables at any time, tells the groups the event socket has joined,   *)
(* and drops events when the socket's buffer is full.                      *)
(***************************************************************************)
EXTENDS NlCache, NlCacheMngt, FiniteSets

CONSTANTS
    OpsOf,         \* OpsOf[t]: whether t hashes and merges, as in NlCache
    GroupsOf,      \* GroupsOf[t]: co_groups, a sequence of groups
    MsgOf,         \* MsgOf[t]: co_msgtypes
    TypeOf,        \* TypeOf[k]: the type of the objects with key k
    GroupOf,       \* GroupOf[k]: the group told of changes of k
    NAssocInit, NAssocExpand,  \* NASSOC_INIT, NASSOC_EXPAND
    InitTables,    \* tables to start from
    RegOrder,      \* the registry's list of types at the start
    RcvBuf,        \* events the socket's receive buffer holds
    MaxChanges,    \* bound: changes of the tables
    MaxFails,      \* bound: calls that fail (no memory, refused dump)
    MaxUnregs,     \* bound: types unregistered
    MaxAllocs      \* bound: managers allocated one after the other

Groups == {GroupOf[k] : k \in Keys}
    \cup UNION {{GroupsOf[t][i] : i \in DOMAIN GroupsOf[t]} : t \in Types}

ASSUME MngrAssumption ==
    /\ Types # {}
    /\ TypeOf \in [Keys -> Types]
    /\ OpsOf \in [Types -> CacheTypes]
    /\ GroupsOf \in [Types -> Seq(Groups)]
    /\ \A k \in Keys : \E i \in DOMAIN GroupsOf[TypeOf[k]] :
           GroupsOf[TypeOf[k]][i] = GroupOf[k]
    /\ InitTables \subseteq [Keys -> Vals \cup {None}]
    /\ {NAssocInit, NAssocExpand, RcvBuf} \subseteq Nat \ {0}
    /\ RegOrder \in Seq(Types)
    /\ {MaxChanges, MaxFails, MaxUnregs, MaxAllocs} \subseteq Nat

VARIABLES
    mngr,       \* "none", "on", or how nl_cache_mngr_alloc() went wrong:
                \* "doublefree" or "nullpointer"
    provide,    \* cm_flags has NL_AUTO_PROVIDE
    assocs,     \* cm_assocs: the managed types, in slot order
    nassocs,    \* cm_nassocs
    joined,     \* groups cm_sock is a member of
    reg,        \* the registry of cache types, and references to caches
    cache,      \* the objects of all caches, by key
    pc,         \* "idle", "join", "dump", "ready" or "free": the call under
                \* way
    cur, grp,   \* the type being added or filled again, its next group
    todo, dirty,\* kernel: the running dump, and has its table changed
    doubled,    \* history: types without a hash table whose cache was filled
                \* by a dump that was asked for again
    evq,        \* kernel: events queued on cm_sock
    err,        \* kernel: ENOBUFS is to be reported on cm_sock
    congested,  \* kernel: events are dropped until the queue is empty
    table,      \* kernel: the tables, a value or None per key
    lost,       \* application: types to be filled again, after an error or
                \* because the socket had not been read empty
    drained,    \* application: no error since the socket was read empty
    changes, fails, unregs, allocs,  \* history: counts
    seen        \* history: what the table held so far, per key

AnyType == CHOOSE t \in Types : TRUE

mngrVars   == <<mngr, provide, assocs, nassocs, joined, reg>>
dumpVars   == <<todo, dirty, doubled>>
callVars   == <<pc, cur, grp, dumpVars>>
kernelVars == <<evq, err, congested>>
appVars    == <<lost, drained>>
histVars   == <<changes, fails, unregs, allocs>>
vars == <<mngrVars, cache, callVars, kernelVars, table, appVars, histVars,
          seen>>

ManagedTypes == {assocs[i] : i \in DOMAIN assocs}
Managed(k)   == pc # "free" /\ TypeOf[k] \in ManagedTypes
Pending(k)   == \E i \in DOMAIN evq : evq[i].key = k
KeysOf(t)    == {k \in Keys : TypeOf[k] = t}
Dumped(t)    == {k \in KeysOf(t) : table[k] # None}

TypeOK ==
    /\ mngr \in {"none", "on", "doublefree", "nullpointer"}
    /\ assocs \in Seq(Types) /\ nassocs \in Nat /\ Len(assocs) <= nassocs
    /\ joined \subseteq Groups
    /\ reg \in Registry
    /\ cache \in Contents
    /\ pc \in {"idle", "join", "dump", "ready", "free"}
    /\ cur \in Types /\ grp \in Nat \ {0}
    /\ todo \subseteq KeysOf(cur) /\ doubled \subseteq Types
    /\ {provide, dirty, err, congested, drained} \subseteq BOOLEAN
    /\ evq \in Seq([key : Keys, val : Vals \cup {None}])
    /\ Len(evq) <= RcvBuf
    /\ table \in [Keys -> Vals \cup {None}]
    /\ lost \subseteq ManagedTypes
    /\ {changes, fails, unregs, allocs} \subseteq Nat
    /\ seen \in [Keys -> SUBSET (Vals \cup {None})]

Init ==
    /\ mngr = "none" /\ provide = FALSE
    /\ assocs = <<>> /\ nassocs = NAssocInit
    /\ joined = {} /\ reg = NewRegistry(RegOrder)
    /\ cache = EmptyCache
    /\ pc = "idle" /\ cur = AnyType /\ grp = 1
    /\ todo = {} /\ dirty = FALSE /\ doubled = {}
    /\ evq = <<>> /\ err = FALSE /\ congested = FALSE
    /\ table \in InitTables
    /\ lost = {} /\ drained = TRUE
    /\ changes = 0 /\ fails = 0 /\ unregs = 0 /\ allocs = 0
    /\ seen = [k \in Keys |-> {table[k]}]

-----------------------------------------------------------------------------
(* The manager's life.                                                     *)

\* nl_cache_mngr_alloc(): the array of associations is allocated, the event
\* socket is connected and made non-blocking, then the socket for filling
\* caches is connected.  If the array cannot be allocated,
\* nl_cache_mngr_free() goes through it all the same, at a null pointer.  If
\* the last step fails, the socket is freed at errout_free_sync_sock and again
\* by nl_cache_mngr_free().  Any other failure leaves nothing behind.
nl_cache_mngr_alloc(flag, outcome) ==
    /\ mngr = "none"
    /\ allocs < MaxAllocs
    /\ outcome # "ok" => fails < MaxFails
    /\ allocs' = allocs + 1
    /\ fails' = IF outcome = "ok" THEN fails ELSE fails + 1
    /\ provide' = (flag /\ outcome = "ok")
    /\ mngr' = CASE outcome = "ok" -> "on"
                 [] outcome = "noarray" -> "nullpointer"
                 [] outcome = "nosync" -> "doublefree"
                 [] OTHER -> "none"
    /\ UNCHANGED <<assocs, nassocs, joined, reg, cache, callVars,
                   kernelVars, table, appVars, changes, unregs, seen>>

\* nl_cache_mngr_free(): closing the socket discards memberships and queued
\* events.
nl_cache_mngr_free ==
    /\ mngr = "on" /\ pc = "idle"
    /\ pc' = "free"
    /\ joined' = {}
    /\ evq' = <<>> /\ err' = FALSE /\ congested' = FALSE
    /\ lost' = {} /\ drained' = TRUE
    /\ UNCHANGED <<mngr, provide, assocs, nassocs, reg, cache, cur, grp,
                   dumpVars, table, histVars, seen>>

\* Every managed cache is unprovided and freed, then the manager.  BUG() ends
\* the program.
FreeCache ==
    /\ pc = "free"
    /\ assocs # <<>> /\ ~reg.bug
    /\ LET c == Head(assocs)
           r == nl_cache_mngt_unprovide(reg, c)
       IN  IF lookup_for_obj(reg, c) = NoType
           THEN reg' = r /\ UNCHANGED <<assocs, cache, doubled>>
           ELSE /\ reg' = nl_cache_free(r, c)
                /\ cache' = [k \in Keys |-> IF TypeOf[k] = c THEN <<>>
                                            ELSE cache[k]]
                /\ assocs' = Tail(assocs)
                /\ doubled' = doubled \ {c}
    /\ UNCHANGED <<mngr, provide, nassocs, joined, pc, cur, grp, todo, dirty,
                   kernelVars, table, appVars, histVars, seen>>

FreeDone ==
    /\ pc = "free"
    /\ assocs = <<>>
    /\ pc' = "idle"
    /\ mngr' = "none" /\ provide' = FALSE
    /\ nassocs' = NAssocInit
    /\ UNCHANGED <<assocs, joined, reg, cache, cur, grp, dumpVars,
                   kernelVars, table, appVars, histVars, seen>>

-----------------------------------------------------------------------------
(* Other parts of the program register and unregister types.               *)

nl_cache_mngt_register(t) ==
    /\ pc = "idle"
    /\ ~Registered(reg, t)
    /\ reg' = Register(reg, t)
    /\ UNCHANGED <<mngr, provide, assocs, nassocs, joined, cache, callVars,
                   kernelVars, table, appVars, histVars, seen>>

nl_cache_mngt_unregister(t) ==
    /\ pc = "idle"
    /\ unregs < MaxUnregs
    /\ Registered(reg, t)
    /\ unregs' = unregs + 1
    /\ reg' = Unregister(reg, t)
    /\ UNCHANGED <<mngr, provide, assocs, nassocs, joined, cache, callVars,
                   kernelVars, table, appVars, changes, fails, allocs, seen>>

-----------------------------------------------------------------------------
(* nl_cache_mngr_add() and nl_cache_mngr_add_cache()                       *)

\* Mutant: a full array of associations does not grow.
AddStartFull(t) ==
    /\ mngr = "on" /\ pc = "idle"
    /\ t \notin ManagedTypes
    /\ Registered(reg, t)
    /\ reg' = [reg EXCEPT !.cref[t] = 1]
    /\ pc' = "join"
    /\ cur' = t
    /\ grp' = 1
    /\ UNCHANGED <<mngr, provide, assocs, nassocs, joined, cache, dumpVars,
                   kernelVars, table, appVars, histVars, seen>>

\* Up to the memberships.  A type that is not registered or is managed
\* already is refused, a cache is allocated, a full array of associations
\* grows.  (A failed realloc() changes nothing.)
AddStart(t) ==
    /\ mngr = "on" /\ pc = "idle"
    /\ t \notin ManagedTypes
    /\ Registered(reg, t)
    /\ reg' = [reg EXCEPT !.cref[t] = 1]
    /\ nassocs' = IF Len(assocs) < nassocs THEN nassocs
                  ELSE nassocs + NAssocExpand
    /\ pc' = "join"
    /\ cur' = t
    /\ grp' = 1
    /\ UNCHANGED <<mngr, provide, assocs, joined, cache, dumpVars,
                   kernelVars, table, appVars, histVars, seen>>

AddJoin ==
    /\ pc = "join"
    /\ grp \in DOMAIN GroupsOf[cur]
    /\ joined' = joined \cup {GroupsOf[cur][grp]}
    /\ grp' = grp + 1
    /\ UNCHANGED <<mngr, provide, assocs, nassocs, reg, cache, pc, cur,
                   dumpVars, kernelVars, table, appVars, histVars, seen>>

\* The call is over; cur and grp mean nothing any more.
Return == pc' = "idle" /\ cur' = AnyType /\ grp' = 1

\* A membership is refused: the earlier ones stay, the cache is freed.
AddJoinFails ==
    /\ pc = "join"
    /\ grp \in DOMAIN GroupsOf[cur]
    /\ fails < MaxFails
    /\ fails' = fails + 1
    /\ Return
    /\ reg' = nl_cache_free(reg, cur)
    /\ UNCHANGED <<mngr, provide, assocs, nassocs, joined, cache, dumpVars,
                   kernelVars, table, appVars, changes, unregs, allocs, seen>>

\* nl_cache_refill() clears the cache and requests a dump.
StartFill(t) ==
    /\ pc' = "dump"
    /\ cache' = [k \in Keys |-> IF TypeOf[k] = t THEN <<>> ELSE cache[k]]
    /\ todo' = Dumped(t)
    /\ dirty' = FALSE
    /\ doubled' = doubled \ {t}

\* Mutant: the first group is enough.
AddFillEarly ==
    /\ pc = "join"
    /\ grp > 1
    /\ StartFill(cur)
    /\ UNCHANGED <<mngrVars, cur, grp, kernelVars, table, appVars, histVars,
                   seen>>

AddFill ==
    /\ pc = "join"
    /\ grp \notin DOMAIN GroupsOf[cur]
    /\ StartFill(cur)
    /\ UNCHANGED <<mngrVars, cur, grp, kernelVars, table, appVars, histVars,
                   seen>>

\* The kernel dumps an object and the library adds it; -NLE_EXIST, for an
\* object met before a restart, is skipped.
FillObject(k) ==
    /\ pc = "dump"
    /\ k \in todo
    /\ cache' = __cache_add(OpsOf[cur], cache, k, table[k])
    /\ todo' = todo \ {k}
    /\ UNCHANGED <<mngrVars, pc, cur, grp, dirty, doubled, kernelVars, table,
                   appVars, histVars, seen>>

\* The dump was interrupted: it is requested again, with the cache as it is.
FillRestart ==
    /\ pc = "dump"
    /\ todo = {} /\ dirty
    /\ todo' = Dumped(cur)
    /\ dirty' = FALSE
    /\ doubled' = IF OpsOf[cur].hashed THEN doubled ELSE doubled \cup {cur}
    /\ UNCHANGED <<mngrVars, cache, pc, cur, grp, kernelVars, table, appVars,
                   histVars, seen>>

\* The dump is complete (not every dump of the kernel tells of changes).  If
\* events from before the fill may still be queued, it is to be repeated.
FillDone ==
    /\ pc = "dump"
    /\ todo = {}
    /\ Return
    /\ dirty' = FALSE
    /\ lost' = IF drained THEN lost \ {cur} ELSE lost \cup {cur}
    /\ assocs' = IF cur \in ManagedTypes THEN assocs ELSE Append(assocs, cur)
    /\ reg' = IF cur \notin ManagedTypes /\ provide
              THEN nl_cache_mngt_provide(reg, cur) ELSE reg
    /\ UNCHANGED <<mngr, provide, nassocs, joined, cache, todo, doubled,
                   kernelVars, table, drained, histVars, seen>>

\* Mutant: all memberships are dropped.
FillFailsDropsAll ==
    /\ pc = "dump"
    /\ fails < MaxFails
    /\ fails' = fails + 1
    /\ Return
    /\ todo' = {} /\ dirty' = FALSE
    /\ IF cur \in ManagedTypes
          THEN UNCHANGED <<joined, reg, drained, cache, doubled>>
          ELSE /\ joined' = {}
               /\ reg' = nl_cache_free(reg, cur)
               /\ drained' = FALSE
               /\ doubled' = doubled \ {cur}
               /\ cache' = [k \in Keys |-> IF TypeOf[k] = cur THEN <<>>
                                           ELSE cache[k]]
    /\ UNCHANGED <<mngr, provide, assocs, nassocs, kernelVars,
                   table, lost, changes, unregs, allocs, seen>>

\* The dump fails.  An addition drops the memberships (events already queued
\* stay queued) and nl_cache_mngr_add() frees the cache.
FillFails ==
    /\ pc = "dump"
    /\ fails < MaxFails
    /\ fails' = fails + 1
    /\ Return
    /\ todo' = {} /\ dirty' = FALSE
    /\ IF cur \in ManagedTypes
          THEN UNCHANGED <<joined, reg, drained, cache, doubled>>
          ELSE /\ joined' = joined \ {GroupsOf[cur][i] :
                                          i \in DOMAIN GroupsOf[cur]}
               /\ reg' = nl_cache_free(reg, cur)
               /\ drained' = FALSE
               /\ doubled' = doubled \ {cur}
               /\ cache' = [k \in Keys |-> IF TypeOf[k] = cur THEN <<>>
                                           ELSE cache[k]]
    /\ UNCHANGED <<mngr, provide, assocs, nassocs, kernelVars,
                   table, lost, changes, unregs, allocs, seen>>

-----------------------------------------------------------------------------
(* nl_cache_mngr_data_ready(), called by nl_cache_mngr_poll().             *)

DataReady ==
    /\ mngr = "on" /\ pc = "idle"
    /\ evq # <<>> \/ err \/ ~drained
    /\ pc' = "ready"
    /\ UNCHANGED <<mngrVars, cache, cur, grp, dumpVars, kernelVars, table,
                   appVars, histVars, seen>>

\* recvmsg() of the next event, if no error is to be reported first.  A
\* congested socket takes events again once its queue is empty.
Receive ==
    /\ pc = "ready"
    /\ ~err /\ evq # <<>>
    /\ evq' = Tail(evq)
    /\ congested' = (congested /\ Len(evq) > 1)
    /\ UNCHANGED <<mngrVars, cur, grp, dumpVars, err, table, changes,
                   unregs, allocs, seen>>

\* The association whose type has the message's type, the first one found.
Finds(t) ==
    \E i \in DOMAIN assocs :
        /\ assocs[i] = t
        /\ \A j \in DOMAIN assocs : MsgOf[assocs[j]] = MsgOf[t] => i <= j

\* Mutant: an object an event announces is added beside the old one.
IncludeAsAdded(e) ==
    cache' = IF e.val = None
             THEN cache_include(OpsOf[TypeOf[e.key]], cache, e.key, e.val,
                                "DEL").cache
             ELSE __cache_add(OpsOf[TypeOf[e.key]], cache, e.key, e.val)

\* include_cb(): the event's object is included in the cache.  No type has a
\* co_event_filter, and the one with a co_include_event (xfrm sa, which is
\* not among the types meant here) goes through another cache_include().
include_cb(e) ==
    cache' = cache_include(OpsOf[TypeOf[e.key]], cache, e.key, e.val,
                           IF e.val = None THEN "DEL" ELSE "NEW").cache

\* event_input(): included if a managed cache has this type, else skipped.
event_input ==
    /\ Receive
    /\ IF Finds(TypeOf[Head(evq).key]) THEN include_cb(Head(evq))
       ELSE UNCHANGED cache
    /\ UNCHANGED <<pc, appVars, fails>>

\* An error is returned.  The application will read the socket empty and
\* then fill all caches again.
DataReadyError ==
    /\ pc' = "idle"
    /\ lost' = ManagedTypes
    /\ drained' = FALSE

\* Mutant: an event that cannot be parsed is passed over.
EventSkipped ==
    /\ Receive
    /\ fails < MaxFails
    /\ fails' = fails + 1
    /\ UNCHANGED <<cache, pc, appVars>>

\* The event cannot be parsed (no memory): it is gone.
event_input_fails ==
    /\ Receive
    /\ fails < MaxFails
    /\ fails' = fails + 1
    /\ DataReadyError
    /\ UNCHANGED cache

\* Mutant: every error ends the loop as -NLE_AGAIN does.
ReadNobufsIgnored ==
    /\ pc = "ready"
    /\ err
    /\ err' = FALSE
    /\ pc' = "idle"
    /\ UNCHANGED <<mngrVars, cache, cur, grp, dumpVars, evq, congested,
                   table, appVars, histVars, seen>>

\* Events were dropped: recvmsg() reports ENOBUFS before it hands out what is
\* still queued.
ReadNobufs ==
    /\ pc = "ready"
    /\ err
    /\ err' = FALSE
    /\ DataReadyError
    /\ UNCHANGED <<mngrVars, cache, cur, grp, dumpVars, evq, congested,
                   table, histVars, seen>>

\* -NLE_AGAIN ends the loop.
ReadAgain ==
    /\ pc = "ready"
    /\ ~err /\ evq = <<>>
    /\ pc' = "idle"
    /\ drained' = TRUE
    /\ UNCHANGED <<mngrVars, cache, cur, grp, dumpVars, kernelVars, table,
                   lost, histVars, seen>>

\* The application fills a cache again after an error, on a socket of its
\* own, once the event socket has been read empty.
Recover(t) ==
    /\ mngr = "on" /\ pc = "idle"
    /\ drained
    /\ t \in lost
    /\ cur' = t
    /\ grp' = 1
    /\ StartFill(t)
    /\ UNCHANGED <<mngrVars, kernelVars, table, appVars, histVars, seen>>

-----------------------------------------------------------------------------
(* The kernel.                                                             *)

\* An event for a member of the group: queued, or dropped with an error to
\* be reported.
Deliver(e) ==
    IF congested \/ Len(evq) >= RcvBuf
    THEN /\ congested' = TRUE
         /\ err' = (err \/ ~congested)
         /\ UNCHANGED evq
    ELSE /\ evq' = Append(evq, e)
         /\ UNCHANGED <<err, congested>>

Change(k, v) ==
    /\ mngr \in {"none", "on"} /\ ~reg.bug
    /\ changes < MaxChanges
    /\ v # table[k]
    /\ changes' = changes + 1
    /\ table' = [table EXCEPT ![k] = v]
    /\ seen' = [seen EXCEPT ![k] = @ \cup {v}]
    /\ dirty' = (dirty \/ (pc = "dump" /\ TypeOf[k] = cur))
    /\ todo' = IF v = None THEN todo \ {k} ELSE todo
    /\ IF GroupOf[k] \in joined THEN Deliver([key |-> k, val |-> v])
       ELSE UNCHANGED kernelVars
    /\ UNCHANGED <<mngrVars, cache, pc, cur, grp, doubled, appVars, fails,
                   unregs, allocs>>

-----------------------------------------------------------------------------
Add == AddJoin \/ AddJoinFails \/ AddFill

Fill == FillRestart \/ FillDone \/ FillFails \/ \E k \in Keys : FillObject(k)

Poll == DataReady \/ event_input \/ event_input_fails \/ ReadNobufs \/ ReadAgain

Next ==
    \/ \E flag \in BOOLEAN, o \in {"ok", "noarray", "noconnect", "nosync"} :
           nl_cache_mngr_alloc(flag, o)
    \/ nl_cache_mngr_free \/ FreeCache \/ FreeDone
    \/ \E t \in Types : nl_cache_mngt_register(t) \/ nl_cache_mngt_unregister(t)
    \/ \E t \in Types : AddStart(t) \/ Recover(t)
    \/ Add \/ Fill \/ Poll
    \/ \E k \in Keys, v \in Vals \cup {None} : Change(k, v)

\* Calls run to their end, the kernel finishes its dumps, and the
\* application polls and, after an error, fills its caches again.
Fairness ==
    /\ WF_vars(Add) /\ WF_vars(Fill) /\ WF_vars(Poll)
    /\ \A t \in Types : WF_vars(Recover(t))

Spec == Init /\ [][Next]_vars /\ Fairness

-----------------------------------------------------------------------------
(* Properties.                                                             *)

\* Nothing was lost: every change of k since its cache was filled is in the
\* cache or still queued.  Not so if the cache was filled twice over: each
\* attempt added its objects beside those of the attempt before, and an event
\* takes out only the oldest object of its key.
Told(k) ==
    /\ Managed(k) /\ ~err
    /\ TypeOf[k] \notin lost /\ TypeOf[k] \notin doubled

\* The view of the managed caches, and the keys that are up to date.
MngrView == [k \in Keys |-> IF Managed(k) THEN View(cache)[k] ELSE None]
Current  == {k \in Keys : Told(k) /\ ~Pending(k)}

\* Whatever the order of the dump, the events sent before, during and after
\* it, restarts, overruns and fills after errors: an object with no event
\* queued is in the cache as it is in the table.  This is claimed of a cache
\* that was last filled with the socket read empty and, if its type has no
\* hash table, without a restart (cache.c:1065); no other cache is current.
Mirrors == \A k \in Current : View(cache)[k] = table[k]

\* The newest event queued for an object tells its present state, so that
\* the cache ends up right when the queue has been read, although the older
\* events make it step back first.
QueueLeadsToTable ==
    \A i \in DOMAIN evq :
        LET k == evq[i].key
        IN  Told(k) /\ (\A j \in DOMAIN evq : j > i => evq[j].key # k)
                => evq[i].val = table[k]

\* The manager implements a view of the table that lags but is never wrong.
Mirror == INSTANCE NlMirror WITH view <- MngrView, current <- Current

MirrorSpec == Mirror!Spec

\* Once the table is left alone, all managed caches become and stay equal to
\* it, overruns, failed calls and caches added too early notwithstanding,
\* except those of types without a hash table whose fill was restarted.
Converges ==
    <>[](\A k \in Keys : Managed(k) /\ TypeOf[k] \notin doubled
                             => View(cache)[k] = table[k])

\* The registry's BUG()s, and touching a freed cache: with NL_AUTO_PROVIDE
\* never, since a type whose cache is provided cannot be unregistered.  Without
\* it in one place, nl_cache_mngt_unprovide() called by nl_cache_mngr_free()
\* for a cache whose type was unregistered meanwhile.  And what a lookup by
\* type returns is allocated and managed.
RegistrySafe ==
    /\ reg.bug => /\ ~provide /\ pc = "free" /\ assocs # <<>>
                  /\ lookup_for_obj(reg, Head(assocs)) = NoType
    /\ \A t \in Types : LET c == Required(reg, t)
                        IN  c # NoType => reg.cref[c] > 1 /\ c \in ManagedTypes

\* "The manager will subscribe to the notification group of the cache and
\* keep track of any further changes" (nl_cache_mngr_add_cache): whatever
\* happens to other caches, the socket stays in the groups of every managed
\* one, except in those that its type shares with another (qdisc, class and
\* cls): FillFails of the one drops them for all.
KeepsSubscribed ==
    pc # "free" => \A i \in DOMAIN assocs : \A j \in DOMAIN GroupsOf[assocs[i]] :
        \/ GroupsOf[assocs[i]][j] \in joined
        \/ \E t \in Types \ {assocs[i]} : \E n \in DOMAIN GroupsOf[t] :
               GroupsOf[t][n] = GroupsOf[assocs[i]][j]

\* "Return cache previously provided via nl_cache_mngt_provide()"
\* (nl_cache_mngt_require): the cache of each managed type, by its name,
\* except of types that share their objects (link and link/bridge): the cache
\* is then stored with the type registered last.
RequireFindsProvided ==
    provide /\ pc = "idle" =>
        \A t \in ManagedTypes :
            \/ Required(reg, t) = t
            \/ \E u \in Types \ {t} : ObjOf[u] = ObjOf[t]
=============================================================================
