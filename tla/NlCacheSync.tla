---------------------------- MODULE NlCacheSync ----------------------------
(***************************************************************************)
(* Bringing a cache in line with a kernel table: nl_cache_refill() and     *)
(* nl_cache_resync() of lib/cache.c.  Each sends dump requests, one per    *)
(* address family (NL_CACHE_AF_ITER), and picks the answers up while the   *)
(* table goes on changing; the kernel marks a dump it had to take from a   *)
(* changing table (NLM_F_DUMP_INTR), and the library then asks again.      *)
(***************************************************************************)
EXTENDS NlCache, FiniteSets

CONSTANTS
    Families,     \* sequence of the families dumped in turn
    FamilyOf,     \* FamilyOf[k]: the family of key k
    Types,        \* cache types to check
    MayFail,      \* sending, parsing and the kernel may fail, once in a run
    MaxChanges,   \* bound: changes of the kernel's table
    MaxCalls,     \* bound: calls of refill and resync
    MaxDumps      \* bound: dump requests; too large to be reached

ASSUME SyncAssumption ==
    /\ Types \subseteq CacheTypes
    \* the families of a type's nl_af_groups, none of them twice
    /\ Families \in Seq({Families[i] : i \in DOMAIN Families})
    /\ Families # <<>>
    /\ \A i, j \in DOMAIN Families : Families[i] = Families[j] => i = j
    /\ FamilyOf \in [Keys -> {Families[i] : i \in DOMAIN Families}]
    /\ MayFail \in BOOLEAN
    /\ {MaxChanges, MaxCalls, MaxDumps} \subseteq Nat

VARIABLES
    type,        \* c_ops: the cache's type
    cache,       \* c_items
    op,          \* "none", "refill" or "resync": the last call
    pc,          \* "idle", "request" or "pickup"
    grp,         \* index of the family being dumped
    interrupted, \* of the running nl_recvmsgs()
    result,      \* what the last call returned
    seqNext, seqExpect,   \* of the socket
    table,       \* kernel: the table, a value or None per key
    dump,        \* kernel: the running dump: todo keys, and has it changed
    rxq,         \* kernel: messages queued on the socket
    changes,     \* history: changes of the table so far
    calls,       \* history: calls so far
    restarted,   \* history: the call met an interrupted dump
    tainted,     \* history: a call failed, so that parts of its answer may
                 \* still be queued
    merged,      \* history: the keys of the objects a resync of a type that
                 \* merges began with
    snap,        \* history: the table when each family's last dump ended
    mirror       \* history: the application's view from change callbacks

cacheVars  == <<type, cache>>
callVars   == <<op, pc, grp, interrupted, result>>
sockVars   == <<seqNext, seqExpect>>
kernelVars == <<table, dump, rxq>>
histVars   == <<changes, calls, restarted, tainted, merged, snap, mirror>>
vars       == <<cacheVars, callVars, sockVars, kernelVars, histVars>>

NoDump == [on |-> FALSE, seq |-> 0, fam |-> Families[1], todo |-> {},
           dirty |-> FALSE]

Table == [Keys -> Vals \cup {None}]

TypeOK ==
    /\ type \in Types /\ cache \in Contents
    /\ op \in {"none", "refill", "resync"}
    /\ pc \in {"idle", "request", "pickup"}
    /\ grp \in DOMAIN Families
    /\ {interrupted, restarted, tainted} \subseteq BOOLEAN
    /\ result \in {"none", "ok", "error"}
    /\ {seqNext, seqExpect} \subseteq 0..MaxDumps
    /\ {table, snap, mirror} \subseteq Table
    /\ dump.todo \subseteq Keys /\ merged \subseteq Keys
    /\ \A i \in DOMAIN rxq : rxq[i].kind \in {"valid", "done", "error"}
    /\ changes \in 0..MaxChanges /\ calls \in 0..MaxCalls
    \* a hash table never holds two identical objects
    /\ type.hashed => \A k \in Keys : Len(cache[k]) <= 1

Init ==
    /\ type \in Types /\ cache = EmptyCache
    /\ op = "none" /\ pc = "idle" /\ grp = 1 /\ interrupted = FALSE
    /\ result = "none"
    /\ seqNext = 0 /\ seqExpect = 0
    /\ table \in Table /\ dump = NoDump /\ rxq = <<>>
    /\ changes = 0 /\ calls = 0 /\ restarted = FALSE /\ tainted = FALSE
    /\ merged = {} /\ snap = table
    /\ mirror = [k \in Keys |-> None]

-----------------------------------------------------------------------------
(* Entering the calls.                                                     *)

Begin(o) ==
    /\ pc = "idle"
    /\ calls < MaxCalls
    /\ calls' = calls + 1
    /\ op' = o
    /\ pc' = "request"
    /\ grp' = 1
    /\ restarted' = FALSE
    /\ result' = "none"
    /\ UNCHANGED <<type, interrupted, sockVars, kernelVars, changes, tainted,
                   snap, mirror>>

\* nl_cache_refill() begins with nl_cache_clear().
nl_cache_refill ==
    /\ Begin("refill")
    /\ cache' = EmptyCache
    /\ merged' = {}

\* nl_cache_resync() begins with nl_cache_mark_all().
nl_cache_resync ==
    /\ Begin("resync")
    /\ cache' = nl_cache_mark_all(cache)
    /\ merged' = {k \in Keys : type.update /\ cache[k] # <<>>}

\* An error is returned to the caller.  After a refill the application
\* looks at the cache; during a resync it has been called back.
Fail(c) ==
    /\ pc' = "idle"
    /\ result' = "error"
    /\ tainted' = TRUE
    /\ interrupted' = FALSE
    /\ mirror' = IF op = "refill" THEN View(c) ELSE mirror
    /\ UNCHANGED <<type, op, grp, changes, calls, restarted, merged, snap>>

-----------------------------------------------------------------------------
(* nl_cache_request_full_dump(): the kernel starts the dump at once, or    *)
(* refuses it, as it does (EBUSY) while an abandoned one is still running. *)

RequestDump ==
    /\ pc = "request"
    /\ seqNext < MaxDumps
    /\ seqNext' = seqNext + 1
    /\ LET f == Families[grp]
       IN  \/ /\ dump.on \/ (MayFail /\ ~tainted)
              /\ rxq' = Append(rxq, [kind |-> "error", seq |-> seqNext])
              /\ UNCHANGED dump
           \/ /\ ~dump.on
              /\ dump' = [on |-> TRUE, seq |-> seqNext, fam |-> f,
                          todo |-> {k \in Keys : /\ FamilyOf[k] = f
                                                 /\ table[k] # None},
                          dirty |-> FALSE]
              /\ UNCHANGED rxq
    /\ pc' = "pickup"
    /\ UNCHANGED <<cacheVars, op, grp, interrupted, result, seqExpect, table,
                   histVars>>

\* sendmsg() fails after the number was taken.
RequestFails ==
    /\ MayFail /\ ~tainted
    /\ pc = "request"
    /\ seqNext < MaxDumps
    /\ seqNext' = seqNext + 1
    /\ Fail(cache)
    /\ UNCHANGED <<cache, seqExpect, kernelVars>>

-----------------------------------------------------------------------------
(* __cache_pickup(): nl_recvmsgs() until NLMSG_DONE.                       *)

\* Mutant: the label is behind the request, so that no answer comes.
RestartUnasked ==
    /\ pc' = "pickup"
    /\ interrupted' = FALSE
    /\ restarted' = TRUE
    /\ UNCHANGED <<type, op, grp, result, changes, calls, tainted, merged,
                   snap, mirror>>

\* -NLE_DUMP_INTR: goto restart, with the cache as it is.
Restart ==
    /\ pc' = "request"
    /\ interrupted' = FALSE
    /\ restarted' = TRUE
    /\ UNCHANGED <<type, op, grp, result, changes, calls, tainted, merged,
                   snap, mirror>>

Receive(kind) ==
    /\ pc = "pickup"
    /\ rxq # <<>>
    /\ Head(rxq).kind = kind
    /\ rxq' = Tail(rxq)
    /\ UNCHANGED <<seqNext, table, dump>>

\* recvmsgs() refuses a message of another request than the expected one.
PickupMismatch ==
    /\ \E kind \in {"valid", "done", "error"} : Receive(kind)
    /\ Head(rxq).seq # seqExpect
    /\ IF interrupted THEN Restart ELSE Fail(cache)
    /\ UNCHANGED <<cache, seqExpect>>

\* The callback's effect on the application's view.
Notify(k, v, event) ==
    mirror' = CASE event \in {"NEW", "CHANGE"} -> [mirror EXCEPT ![k] = v]
                [] event = "DEL" -> [mirror EXCEPT ![k] = None]
                [] OTHER -> mirror

\* An object: pickup_cb() adds it, resync_cb() includes it.  -NLE_EXIST is
\* skipped by update_msg_parser().
PickupObject ==
    /\ Receive("valid")
    /\ LET msg == Head(rxq)
           inc == cache_include(type, cache, msg.key, msg.val, "NEW")
       IN  /\ msg.seq = seqExpect
           /\ interrupted' = (interrupted \/ msg.intr)
           /\ IF op = "refill"
                 THEN /\ cache' = __cache_add(type, cache, msg.key, msg.val)
                      /\ UNCHANGED mirror
                 ELSE /\ cache' = inc.cache
                      /\ Notify(msg.key, msg.val, inc.event)
    /\ UNCHANGED <<type, op, pc, grp, result, seqExpect, changes, calls,
                   restarted, tainted, merged, snap>>

\* The parser fails on an object: recvmsgs() leaves at once, the rest of the
\* answer stays queued.  An interruption seen before hides the error.
PickupFails ==
    /\ MayFail /\ ~tainted
    /\ Receive("valid")
    /\ Head(rxq).seq = seqExpect
    /\ IF interrupted \/ Head(rxq).intr
          THEN /\ pc' = "request"
               /\ interrupted' = FALSE
               /\ restarted' = TRUE
               /\ tainted' = TRUE
               /\ UNCHANGED <<type, op, grp, result, changes, calls, merged,
                              snap, mirror>>
          ELSE Fail(cache)
    /\ UNCHANGED <<cache, seqExpect>>

\* The kernel refused the dump.
PickupError ==
    /\ Receive("error")
    /\ Head(rxq).seq = seqExpect
    /\ seqExpect' = seqExpect + 1
    /\ IF interrupted THEN Restart ELSE Fail(cache)
    /\ UNCHANGED cache

\* The places of the unmarked objects in a list, and these objects, in order.
Kept(s) == {i \in DOMAIN s : ~s[i].mark}

Unmarked(s) ==
    [n \in 1..Cardinality(Kept(s)) |->
        s[CHOOSE i \in Kept(s) : Cardinality({j \in Kept(s) : j <= i}) = n]]

\* The keys an object of which the last loop of nl_cache_resync() removes.
Obsolete(c) == {k \in Keys : \E i \in DOMAIN c[k] : c[k][i].mark}

\* Mutant: the marked objects are left in the cache.
SweepNothing(c) == c

\* Removal of the objects that are still marked.
Sweep(c) == [k \in Keys |-> Unmarked(c[k])]

\* All families done: a resync removes what is still marked, with a
\* callback each.
Finish ==
    /\ pc' = "idle"
    /\ result' = "ok"
    /\ IF op = "resync"
          THEN /\ cache' = Sweep(cache)
               /\ mirror' = [k \in Keys |->
                                IF k \in Obsolete(cache) THEN None
                                ELSE mirror[k]]
          ELSE /\ mirror' = View(cache)
               /\ UNCHANGED cache
    /\ UNCHANGED grp

\* Mutant: the loop over the families stops after the first one.
FinishEarly(n) == FALSE

MoreFamilies(n) == n < Len(Families)

\* NLMSG_DONE: restart an interrupted dump, else go on to the next family.
PickupDone ==
    /\ Receive("done")
    /\ Head(rxq).seq = seqExpect
    /\ seqExpect' = seqExpect + 1
    /\ IF interrupted \/ Head(rxq).intr
          THEN Restart /\ UNCHANGED cache
          ELSE /\ IF MoreFamilies(grp)
                     THEN /\ grp' = grp + 1
                          /\ pc' = "request"
                          /\ UNCHANGED <<cache, result, mirror>>
                     ELSE Finish
               /\ UNCHANGED <<type, op, interrupted, changes, calls, restarted,
                              tainted, merged, snap>>

-----------------------------------------------------------------------------
(* The kernel.                                                             *)

Change(k, v) ==
    /\ changes < MaxChanges
    /\ v # table[k]
    /\ table' = [table EXCEPT ![k] = v]
    /\ changes' = changes + 1
    /\ dump' = [dump EXCEPT !.dirty = @ \/ (dump.on /\ FamilyOf[k] = dump.fam),
                            !.todo = IF v = None THEN @ \ {k} ELSE @]
    /\ UNCHANGED <<cacheVars, callVars, sockVars, rxq, calls, restarted,
                   tainted, merged, snap, mirror>>

DumpObject(k) ==
    /\ dump.on
    /\ k \in dump.todo
    /\ rxq' = Append(rxq, [kind |-> "valid", seq |-> dump.seq, key |-> k,
                           val |-> table[k], intr |-> dump.dirty])
    /\ dump' = [dump EXCEPT !.todo = @ \ {k}]
    /\ UNCHANGED <<cacheVars, callVars, sockVars, table, histVars>>

DumpDone ==
    /\ dump.on
    /\ dump.todo = {}
    /\ rxq' = Append(rxq, [kind |-> "done", seq |-> dump.seq,
                           intr |-> dump.dirty])
    /\ dump' = NoDump
    /\ snap' = [k \in Keys |-> IF FamilyOf[k] = dump.fam THEN table[k]
                               ELSE snap[k]]
    /\ UNCHANGED <<cacheVars, callVars, sockVars, table, changes, calls,
                   restarted, tainted, merged, mirror>>

-----------------------------------------------------------------------------
Library ==
    \/ RequestDump \/ RequestFails
    \/ PickupMismatch \/ PickupObject \/ PickupFails \/ PickupError
    \/ PickupDone

Dump == DumpDone \/ \E k \in Keys : DumpObject(k)

Next ==
    \/ nl_cache_refill \/ nl_cache_resync
    \/ Library
    \/ Dump
    \/ \E k \in Keys, v \in Vals \cup {None} : Change(k, v)

\* The library's thread runs unless recvmsg() blocks; the kernel finishes
\* its dumps.
Fairness == WF_vars(Library) /\ WF_vars(Dump)

Spec == Init /\ [][Next]_vars /\ Fairness

-----------------------------------------------------------------------------
(* Properties.  Synced: a call returned success, on a socket no earlier    *)
(* call had left in the middle of an answer.                               *)

Synced == pc = "idle" /\ result = "ok" /\ ~tainted

\* What a cache without duplicates, equal to table t, contains.
Exact(t) ==
    \A k \in Keys \ merged :
        cache[k] = IF t[k] = None THEN <<>> ELSE <<Object(t[k])>>

\* A refill or a resync that met no interrupted dump leaves exactly the table
\* as it was when the dumps ended: every object once, none that is gone.  (Of
\* the objects that a resync merges, see NothingMissing.)
SyncExact == Synced /\ ~restarted => Exact(snap)

\* Interrupted and restarted dumps never lose an object: all the table held
\* when the dumps ended is in the cache.  What a resync loses, restarted or
\* not, is the objects of a type with oo_update (netconf, and where they
\* merge route and mdb) that were in the cache before: cache_include() merges
\* the new object into the old one, which keeps its mark, and the last loop
\* of nl_cache_resync() removes it, each of them and no other.
NothingMissing ==
    Synced => \A k \in Keys : snap[k] # None =>
                 (cache[k] = <<>> <=> k \in merged)

\* A resync replaces what it finds, so the value an application looks up is
\* the table's, also after restarts, of all objects but those merged.  Only a
\* hash table guarantees this: the
\* duplicates a restarted refill leaves without one outlive a restarted
\* resync, which may then leave an outdated one in front.
ResyncFresh ==
    Synced /\ op = "resync" /\ type.hashed =>
        \A k \in Keys \ merged : snap[k] # None => View(cache)[k] = snap[k]

\* An application that only follows the change callbacks of
\* nl_cache_resync() always has the view of the cache, also when the resync
\* is restarted or fails half way.
CallbacksMirrorCache ==
    type.hashed /\ (pc = "idle" \/ op = "resync") => mirror = View(cache)

\* Once the table stops changing, a refill or a resync returns: a restart
\* starts from a clean state of the receiver, so that dumps are repeated only
\* as often as they are interrupted.
SyncReturns == pc # "idle" ~> pc = "idle"

\* "Clears the specified cache and fills it with the current state in the
\* kernel" (nl_cache_refill): after success, exactly the table.
RefillCurrent == Synced /\ op = "refill" => Exact(snap)
=============================================================================
