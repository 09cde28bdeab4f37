# TLA+ models of libnl

libnl is a C library for netlink sockets: it allocates and connects sockets,
numbers and sends requests, reads and dispatches answers and notifications,
builds and parses messages, and keeps caches of kernel objects (links, routes,
addresses, ...) in step with the kernel.  This directory holds TLA+ models of
it, the TLC configurations that check them and TLAPS proofs about them.  Source
paths below are relative to the repository, without the leading `src/`.

Contents: [the system](#the-system), [the models](#the-models), [the
runs](#runs), [what the violations mean](#what-the-three-violations-mean),
[proofs](#proofs), [what was seen in the code on the
way](#seen-in-the-code), [what is not modelled](#not-modelled), [the
plan](#plan).

## The system

| Component | State | Operations | What makes it correct |
|---|---|---|---|
| Ports and connection (`lib/socket.c`, `lib/nl.c`) | process-wide bitmap `used_ports_map` under `port_map_lock`; per socket `s_fd`, `s_local.nl_pid`, `NL_OWN_PORT` | alloc, free, connect, close, get/set local port, set fd | a bit is set exactly while a socket holds the port; no `BUG_ON`; no port twice; connect ends and reports the bound address |
| Request/reply engine (`lib/nl.c`) | `s_seq_next`, `s_seq_expect`, auto-ack flag, hook table `nl_cb`; locals of `recvmsgs()` | send, receive, wait for ACK, send synchronously | replies are matched to requests; dumps are read to the end; interruptions and errors are reported; waits end |
| Object caches (`lib/cache.c`, `lib/hashtable.c`, `lib/object.c`) | list of objects, optional hash table, mark flag, reference counts | add, move, remove, include, pickup, refill, resync | the cache equals the kernel's table; callbacks describe every change; list, hash table and counts agree |
| Cache manager (`lib/cache_mngr.c`) | associated caches, event socket, sync socket, group memberships | alloc, add cache, poll, data ready, free | after the queue is drained every managed cache mirrors its table |
| Cache type registry (`lib/cache_mngt.c`) | list of cache operations, reference counts, shared ("provided") caches | register, unregister, provide, unprovide, require | a cache in use is not freed; a provided one is found |
| Messages and attributes (`lib/msg.c`, `lib/attr.c`) | buffer, `nlmsg_len`, nesting | put, reserve, expand, nest, end, cancel, parse, validate | a reader finds what was put in; nothing is written outside the buffer |
| Object types (`lib/route`, `lib/netfilter`, `lib/xfrm`, `lib/idiag`, `lib/genl`, `lib/fib_lookup`) | `ce_mask`, the fields, what they point to | set, get, build, parse, compare, clone, free | what is set comes back from a message; comparisons tell what changed; each pointer has one owner |
| Callbacks (`lib/handlers.c`) | hook table and its reference count | set, clone, get, put | |
| Generic netlink (`lib/genl/`) | registered families and their ids | register, resolve, dispatch | |
| Tools, Python bindings | none | argument parsing, printing | |

Interaction: the cache calls the engine (`nl_send_auto()`, `nl_recvmsgs()` with
its own `NL_CB_VALID` hook); the engine calls back into the cache's parser for
each message; the parser is the object type's, and the object it makes is
compared, cloned and counted by `lib/object.c`; the manager combines a refill
on one socket with events on another and shares its caches through the
registry; all sockets of a process share the port bitmap.  The environment is
the kernel, which answers requests, runs dumps over tables that keep changing,
drops what finds no room in the receive buffer, and owns the port table that
other programs use too.

What is hard: threads sharing the bitmap; a connect that holds several ports
while it retries; replies that are lost, refused, late, split over datagrams or
mixed with notifications; hooks that stop a call anywhere; errors in the middle
of a dump; dumps interrupted by changes and asked for again; events older and
newer than the dump they are merged with, and events lost; memory that runs out
between two steps that must both happen; more than 700 attributes, each in
five or six hand-written tables that must agree.  `hazards` in `PROJECT.json`
lists these places line by line, with the properties that watch them.

## The models

### NlPorts: `lib/socket.c`, `nl_connect()`

One thread per socket (a socket is not thread safe), any number of them.
`used` is the bitmap, `port`/`own`/`fd` are the socket's fields, `ntries` and
`tried` the locals `ntries` and `used_ports` of `nl_connect()`; `bound` and
`foreign` are the kernel's port table, modelled from how `bind()` and
`getsockname()` are used.  A critical section of `port_map_lock` and a system
call are one step each; `nl_connect()` is split into its steps
(`ConnectStart` ... `ConnectGetname`), between which other threads and programs
run.  `generate_local_port()`'s pseudo-random walk over the map is the choice
of any free bit.  A failing `BUG_ON` sets `bug`.  All sockets use one protocol,
so that one port table suffices.  The one nondeterminism left out is failure of
`malloc()` in `nl_socket_alloc()`, which changes nothing.

### NlRecvmsgs: the request/reply engine of `lib/nl.c`

A message passes through `recvmsgs()` in stages, one per hook
(`MSG_IN`, sequence check, counting, `SEND_ACK`, branch on the type), because a
hook may go on, skip the message, stop the call or fail.  `seqNext` and
`seqExpect` are `s_seq_next` and `s_seq_expect`; `multipart`, `interrupted` and
`buf` are locals of `recvmsgs()`.  `nl_recv()` is represented by its outcomes:
a datagram, `ENOBUFS`, `EAGAIN`, a truncated datagram that is lost, no memory.
The kernel answers requests in order, runs one dump at a time beside them,
splits a dump into datagrams with or without `NLMSG_DONE` in the last one, and
may flag any part as interrupted.  `Hazards` switches on what can go wrong
(sends that fail or that the `NL_CB_MSG_OUT` hook withholds, dropped replies,
overlapping requests during a dump, changed options, stray messages,
truncation, lack of memory); `HookSets` and
`HookVerdicts` describe the application.  Abstracted: payloads, credentials,
addresses, the overwrite hooks (`cb_recv_ow` ...), a zero-length read, and the
wrap of sequence numbers at 2^32.

### NlCache and NlCacheSync: `lib/cache.c`

`NlCache` gives the contents of a cache as a value (per key, the objects with
this key in list order, each with a value and its mark) and the operations on
it, for the four kinds of cache type: with or without a hash table
(`oo_keygen`), with or without in-place update (`oo_update`; the one modelled
is netconf's).  `NlCacheSync` runs `nl_cache_refill()` and `nl_cache_resync()`
against a table that changes at any moment: requests per address family,
objects picked up one by one, restarts on `-NLE_DUMP_INTR`, failures of the
send or of the parser, the final sweep of marked objects.  A dump arrives one
message per datagram; the kernel refuses a dump while an abandoned one still
runs.  `mirror` is what an application knows that only listens to callbacks;
`merged` are the objects that a resync updated in place (`oo_update`).

### NlMirror, NlCacheMngt, NlCacheMngr: `lib/cache_mngr.c`, `lib/cache_mngt.c`

`NlMirror` is the abstract specification: a view of a table, and the set of
keys of which the view is up to date.  The table changes at will; the view may
lag, but a key that is current shows the table's value, and no key ever shows
what the table never held.

`NlCacheMngt` gives the registry as a value (`cache_ops` in list order, their
reference counts, `co_major_cache`, the references of the caches) with
registering, unregistering, providing, unproviding and requiring as operators.

`NlCacheMngr` composes `NlCache` and `NlCacheMngt` with the manager.  A call is
split where the kernel or another socket's traffic can come in between:
`AddStart`, `AddJoin` per group, `AddFill`, `FillObject` ... for
`nl_cache_mngr_add_cache()` (join the groups first, then dump on the second
socket, repeat the dump while it is interrupted); `DataReady`, `Receive`,
`event_input` ... for `nl_cache_mngr_data_ready()`, which reads events until
the socket is empty; freeing cache by cache.  The kernel sends one event per
change to the joined groups and loses it, with a pending `ENOBUFS`, when the
receive buffer is full.  `event_input()` takes the first association whose type
knows the message.  When the second socket cannot be connected,
`nl_cache_mngr_alloc()` frees it and calls `nl_cache_mngr_free()`, which frees
it again (`cache_mngr.c:198`); when the array of associations cannot be
allocated, the same function walks a null pointer (`168-171`, `627`).  `mngr` is
then `"doublefree"` or `"nullpointer"`, and nothing after that is modelled.
`include_cb()` is that of a type without `co_event_filter`, which no type sets,
and `co_include_event`, which only `xfrm/sa` does.

`Mirror == INSTANCE NlMirror WITH view <- MngrView, current <- Current` is the
refinement: the view are the caches in `cm_assocs`, and a key is current when
its cache is managed, nothing was lost since it was filled, no event about it
is queued and its type is not in `doubled`: a type without a hash table whose
fill was restarted has objects twice, and an event takes out only one of them.
Every step of the manager, a dump merged with older and newer events included,
is a step of the view or a stutter.

The application of the model follows one discipline, which the library does not
enforce: after an error it reads the event socket empty and then fills its caches
again (`Recover`).  Otherwise an event from before an overrun can still be queued
when the cache is filled; applied afterwards, it takes the object back to an old
state, and the event that would correct it was lost.  A cache may be added at any
time, also before the old events have been read; the model then does not claim
that it is current (`lost`) until it was filled once more.

### NlObject: `lib/object.c`, `lib/hashtable.c`, the modifications of `lib/cache.c`

Reference counts of objects in at most one list and its hash table.  A call is
one step and works on the heap `h`; every allocation in it may fail.
`ce_cache`, the list link, the hash nodes and `ce_refcnt` are modelled
separately, so that they can disagree.  `nl_cache_clone()` and
`nl_cache_subset()` are sequences of the modelled calls (allocate a cache, add
clones).  A failed `nl_cache_move()` keeps the reference it took
(`cache.c:524-540`); `leaked` counts these, so that `RefsCounted` can say that
there are no others.

### NlMsg: `lib/msg.c`, `lib/attr.c`

A buffer of words with real byte offsets.  `nlmsg_reserve()`, `nlmsg_put()`,
`nlmsg_expand()`, `nla_reserve()`, `nla_put()`, `nla_nest_start()`,
`nla_nest_end()` with its three outcomes (closed; cancelled because empty;
cancelled because longer than 16 bits) and `nla_nest_cancel()`; the reader
(`Read`) is `nla_for_each_attr` with `nla_ok` and `nla_next` over nothing but
the bytes, a recursive function of the bytes that are left (`Items`, one
`Round` per attribute).  `frames` is what the application put in, and
`Readable` compares the two.  Buffer sizes are multiples of four, as a comment
in `_nest_end()` demands (`attr.c:941-942`; nothing enforces it), and payloads
fit 16 bits, which `nla_reserve()` does not check.

### NlClone: `oo_clone` and `oo_free_data` of the object types

`nl_object_clone()` copies an object byte by byte and calls `oo_clone` to
replace each pointer.  Per type there is a table: the steps of its `oo_clone`
in order (duplicate, share with a reference, reset, fail, ...) and the fields
that its `oo_free_data` gives back.  The actions allocate an object, let a
setter replace a field, clone, with memory running out in a step, and free.  A
list has at most one element, but for the ports of an mdb group and the actions
of a classifier, which have two: that the second is treated otherwise than the
first is where the code goes wrong.

The properties hold with three kinds of exceptions, each a constant of the
instance: fields that are shared or lost without any failure (`Defective`),
copies whose failure does harm by itself (`Unsafe`), and, for the types that do
not reset their pointers first (`FailTypes`), failures that leave other fields
still to be copied.  Setters share addresses and links (`Shareable`).  See [Seen
in the code](#seen-in-the-code).

### NlAttr, NlAttrLink/Route/Tc/Xfrm/Nf/Diag, NlAttrs: the object types' attributes

`NlAttr` says what setters, getters, message builders, policies, parsers and
comparisons do, each driven by a table of rows; the six modules after it hold
the tables of 85 kinds of objects: links and their kinds (20 of them, in
`NlAttrLink`, with the link, neighbour, address, rule, route, ... objects in
`NlAttrRoute`), queueing disciplines, classes, classifiers and actions
(`NlAttrTc`), IPsec (`NlAttrXfrm`), connection tracking, logging and queueing
(`NlAttrNf`), socket diagnosis and the generic netlink controller
(`NlAttrDiag`).  Each table is taken from its own C function (the setter table
from the setters, the `put` table from the builder, the policy from the
`nla_policy` array, and so on), so nothing makes them agree; that they do is
what the properties of `NlAttrs` say.  `NlAttrs` fills in an object with
setters, or lets a parser fill it in from a message, and echoes it: builds a
message, validates it against the policy, parses it into another object.
Widths and byte order are kept (a `u16` written and a `u32` read disagree, and
so do host and network order on a little-endian machine).  A string is short or
`Long`: longer than the policy's `maxlen`; its setter takes it, cuts it off or
refuses it (`Text`), and `Valid` is `validate_nla()` with both lengths and the
check for NUL.

The real kernel's answer need not look like the request.  Attributes for which
the library itself does not keep its tables in step, or for which the kernel's
form is known to differ, are in the constant `Known` (listed by reason in
`MCNlAttrs`); the properties are about all the others.  `Unbounded` has the one
string whose setter takes more than the policy (an interface's alias), and
`Uncompared` the bits of the mask that no comparison looks at; every other bit is
subject to `DiffExact`, whether or not the comparison has a row for it.

## Runs

| Run | Bounds | Shows |
|---|---|---|
| `ports` | 2 sockets, 2 map ports, 1 other port (UINT32_MAX), 2 tries | all properties of NlPorts, deadlock included |
| `recv_orderly` | 3 requests of all kinds, dumps of up to 2 parts, 1 notification, queue of 3 datagrams | `SeqAccounting`, `NoHalfDump`, `InterruptReported`, `RepliesMatched`, `WaitReturns` for an application that lets replies run to their end |
| `recv_hazards` | 2 requests, 1 part, 1 event, queue of 2, all hazards, withheld sends included, hooks returning anything | `SeqNeverAhead`, `SyncVerdict` |
| `recv_ack` | 2 "get" requests | **violation**: `nl_wait_for_ack()` returns before the ACK |
| `sync` | 2 families with a key each, 2 values, 2 changes, 2 calls, a failure, all cache types | `SyncExact`, `NothingMissing`, `ResyncFresh`, `CallbacksMirrorCache`, `SyncReturns` |
| `sync_refill` | 2 keys of one family, 1 change, 2 calls | **violation**: a restarted refill is not the kernel's state |
| `mngr` | addresses (no hash table) and netconf (hash table, `oo_update`, 2 groups) with a key each, 3 changes, buffer of 2 events, 1 failure, 1 manager with or without `NL_AUTO_PROVIDE`, 1 type unregistered, `NASSOC_INIT` and `NASSOC_EXPAND` 1 | `RegistrySafe`, `Mirrors`, `QueueLeadsToTable`, `KeepsSubscribed`, `RequireFindsProvided`, the refinement `MirrorSpec`, `Converges` |
| `object` | 3 objects, 2 caches, 2 keys, 2 application references and 1 leak per object | `RefsCounted`, `NoBug`, `HashMatchesList`, deadlock included |
| `msg` | buffers of 28 and 48 bytes, header of 1 byte, containers with and without a structure of 5 bytes, payloads of 0, 1 and 4 bytes, attribute lengths below 20 | `Readable`, `InBuffer`, `CancelRestores` |
| `clone` | 24 types, 3 objects (symmetric), up to 2 fields or all of them, 2 references taken by setters, memory failures in all types: in any step of the 5 that reset their pointers, in the last one of the others | `Owned`, `CloneIsDeep`, `FailureHarmless` |
| `clone_contract` | all types, 2 objects with one field or all | **violation**: pointers of an object do not stay valid when its clone is freed |
| `attrs` | 85 kinds, both byte orders, values 0, 1 and too long a string, 2 setters or received attributes | `RoundTrip`, `NothingInvented`, `OwnMessagesValid`, `SettersIndependent`, `DiffExact` |

The bounds are the smallest that produce the interesting cases.

* Ports: two threads compete for a map that can be full, other programs can
  hold all its ports, and a connect can use up both its rounds and the map.
* Engine: three requests put a reply behind, between and before two others, and
  a second dump behind the first.
* Caches: one change is needed to interrupt a dump, a second one to interrupt
  the repetition or to precede it; the second call meets what the first one
  left.  `MaxDumps` of NlCacheSync is a ceiling no behaviour reaches:
  `SyncReturns` would fail at it.
* Manager: three changes with a buffer of two overrun the socket, or put an
  event before, one within and one after a dump; with an array of one
  association the second type needs the array to grow.
* Objects: three objects make an old, a new and an identical third one.
* Messages: the large buffer holds a container in a container with something
  behind it, the small one runs out at every call; the limit of 20 stands for
  2^16, so that a container that fits the buffer can be too long for its
  length field.
* Attributes: rows interact in pairs (one setter clears another's bit, one
  attribute is sent only with another), so two setters reach every interaction
  that tables of single rows can express; values 0 and 1 tell a flag's absence
  from zero.

Deadlock is not checked where the system may stop: in `recv_hazards` a blocking
read of a lost answer waits for ever, as the code does; `sync`, `mngr` and
`attrs` end when their bounded calls or changes are used up.

Fairness is weak fairness of the thread that is inside a library call (the
operating system schedules it) and of the kernel finishing answers and dumps it
has begun.  `ConnectTerminates`, `WaitReturns` and `SyncReturns` assume nothing
else: no application action, change of a table or foreign program is fair.
`WaitReturns` is checked where no reply is lost, the only case the code can
promise anything.  `Converges` also needs the application to do its part: it
polls when the socket is readable, and after an error it refills each cache;
the number of changes and failures is finite, the kernel's tables being at rest
in the end is what the property is about.

## What the three violations mean

* `recv_ack`: `recvmsgs()` returns after the first datagram that is not
  multipart.  A request answered by data and a separate ACK lets
  `nl_wait_for_ack()` and `nl_send_sync()` succeed after the data; the ACK is
  read by the next call.  The comment promises to wait until the ACK is
  received.
* `sync_refill`: `nl_cache_refill()` jumps behind `nl_cache_clear()` when a
  dump was interrupted.  Deleted objects stay; a hash table keeps the outdated
  version, and a cache without one gets duplicates.
* `clone_contract`: some types do not keep the contract that `object-api.h`
  states for `oo_clone`: a pointer stays shared without a reference, and
  freeing the clone frees what the source points to.  The finding lists the
  types.  The passing run `clone` excludes exactly these types and fields
  (`SoundTypes`, `KnownDefects`).

Two more consequences are visible in the models.  `ResyncFresh` is stated for
caches with a hash table: without one, the duplicates a restarted refill leaves
can make a restarted resync keep an outdated object in front of the current
one.  And a resync of a type with `oo_update` loses objects: one that is merged
in place keeps the mark that `nl_cache_resync()` set (`cache.c:809-817`, `935`),
and the sweep at `961` removes it although the kernel just sent it.
`NothingMissing` says that exactly these objects (`merged`) are missing;
`SyncExact` and `ResyncFresh` are about all the others.

## Proofs

The proofs hold for every value of the constants that the named assumptions
allow: any sets of sockets, objects, types, keys and messages, any bounds.  A
module `X_proofs` extends module `X` and has, in this order, the invariants, the
lemmas about the operators of `X`, one lemma per action (or per group of actions
that disturb the same conjuncts), and the theorems.

| module | theorems | hypothesis |
|---|---|---|
| `NlPorts_proofs` | `TypeOK`, `BugFree`, `PortsAccounted`, `PortsExclusive`, `AutoConnectNeverInUse`, `ConnectReturnsBoundAddress` | none |
| `NlObject_proofs` | `TypeOK`, `RefsCounted`, `NoBug`, `HashMatchesList` | none |
| `NlMsg_proofs` | `TypeOK`, `InBuffer`, `CancelRestores`, `Readable` | none |
| `NlCacheSync_proofs` | `TypeOK`, `SyncExact`, `NothingMissing`, `ResyncFresh`, `CallbacksMirrorCache` | none |
| `NlCacheMngr_proofs` | `TypeOK`, `KeepsSubscribed`, `RequireFindsProvided` | none |
| | `RegistrySafe` | `OwnObjects` |
| `NlMirror_proofs` | `Mirrors`, `QueueLeadsToTable`, the refinement `MirrorSpec` | `OwnTypes` |
| `NlRecvmsgs_proofs` | `TypeOK`, `SeqNeverAhead`, `InterruptReported`, `SyncVerdict` | none |
| | `NoHalfDump` | `Attentive` |
| | `SeqAccounting`, `RepliesMatched` | `Orderly` |

"None" is none beyond the `ASSUME`s of the modules, which TLC evaluates in the
runs: types of the constants; the port classes are disjoint; `NoType`, `NoCache`
and `None` are not members of the sets they are added to; buffer sizes are
multiples of `NLMSG_ALIGNTO`, as `_nest_end()` demands; a payload put into an
attribute fits the 16 bits of `nla_len`, which `nla_reserve()` leaves to its
caller; a type is a container's or an attribute's, not both; the families a
cache is dumped by are distinct, as they are in the
`nl_af_groups` of every type.

### NlPorts

None of the invariants is inductive alone.  `BugFree` needs to know that a port
about to be released is in the map; that needs `PortsAccounted`; and for a
release to keep `PortsAccounted`, no other socket may hold the port.  The
inductive invariant `IInv` adds to the properties

* `Partition`: the bits of the map are the disjoint union of what the sockets
  hold (their port, unless `NL_OWN_PORT`) and have set aside in `nl_connect()`;
* `ConnectInv`: what is known at each step of `nl_connect()`: ports are set
  aside only inside the loop, the port of the current round is owned by the
  socket and not among those set aside, a socket that gave up has port zero, a
  descriptor is open.

The lemmas `HeldStep` and `HeldFrame` reduce `Partition` to the one socket that
moves; there is one lemma per action, and `Invariance` combines them.

### NlObject

An operation of `cache.c` is a composition of small ones (take a reference, link,
insert into the table, unlink, drop a reference), and in between the references
do not add up.  So the heap is described relative to a function `e` of the
references that are not the caches': `Counted(s, e)` says `ce_refcnt` is `e` plus
one for the list and one for the hash table.  Each small operation has a lemma
from `HeapOK /\ Counted(s, e)` to the same with another `e`; an action's lemma
chains them and ends with `e` equal to what application and leaks hold.
`HeapOK` adds what the properties need: a table's nodes are exactly the objects
of its list (`Matched`), no table has two identical objects (`Unique`, without
which removal by key would take out another object's node), and only caches that
exist have objects (`Placed`).

### NlMsg

`InBuffer` needs the containers as well as the length: closing or cancelling one
writes at the place where it began.  `Stacked` says that the open containers lie
behind the message header, one behind the other, aligned, each with room for its
header, all below the tail; `BufferOK` that the tail lies in the buffer, which
holds because sizes are multiples of the alignment (`TailFits`).  That
`nla_nest_end()` always has room for its padding follows from this, so its `BUG()`
is unreachable.  `AlignUp`, `AlignLeast` and `PadUp` are the facts about the
alignment macros.

`Readable` says nothing while a container is open, so it is far from inductive.
`RInv` adds to `IInv` what the buffer holds at every depth (`Contents`): the bytes
between the structure of an open frame and the next open container, or the tail,
are `Tiled` by attributes, one header behind the other, and the reader finds in
them the items put into that frame.  Only the innermost frame may lack its
structure, and then nothing follows its header.

* The reader is well defined: `Items` satisfies its recursion (`ReadRound`).  A
  round looks only at what is found in fewer bytes (`RoundFewer`), so two readers
  of fewer than n bytes agree (`ReaderUnique`) and there is one for each n
  (`ReaderExists`), both by induction with `NlInduction`.
* Of tiled bytes the reader finds the tiles and stops at their end (`ReadTiled`);
  it depends on the bytes it reads only (`ReadSame`), so tiles stay tiles when
  memory elsewhere changes (`TiledSame`), and a header at their end makes one more
  (`TiledMore`).
* Each action then keeps the tiles of the frames it leaves alone (`FrameKept`: it
  writes above their end) and adds at most one: `nla_put()` an attribute with its
  data, `nla_nest_end()` a container whose reader finds what `Tiled` says of the
  frame that is closed (`CloseContents`).

### NlCacheSync

The properties speak of the moment a call returns; the invariant says how the
call gets there, message by message, while the table changes.

* `TInv`: the types; a hash table has at most one object per key; a refill marks
  nothing.  With `CallbacksMirrorCache` it is inductive by itself (`StepTypes`):
  each `cache_include()` tells what it did (`CacheInclude`), and the sweep tells
  of the keys it empties (`SweepView`).
* `InStep`: unless a call has failed, the socket is empty before a request and
  otherwise holds the answer to it: a refusal, or each object of the family at
  most once and then DONE, all with the number expected (`Answer`).  `Intact` says
  that no part of the answer is or will be marked as interrupted.  Without it a
  stale message could be taken for the object of another dump.
* `Progress`, key by key: the families done agree with what their last dump told
  (`DoneOK`), those ahead are still missing (`AheadOK`), and of the current one,
  as long as its dump is intact, what is outstanding is missing, the rest settled
  and the values queued are those of the table (`CurrentOK`).  A change of the
  table makes the dump of that family not intact, so the claim about it is given
  up until the restart asks again.  After a restart `Missing` claims nothing and
  `Got` only that there is an object; for a resync of a hash table also that it
  is the one told last, which is what `ResyncFresh` needs and a restarted refill
  does not have (`sync_refill`).

At the end of the last family every key is settled (`FinishProgress`), and the
sweep turns "unmarked" into "in the cache" (`UnmarkedNone`, `UnmarkedOne`,
`UnmarkedSome`).  The sweep is defined by the ranks of the unmarked places and
not by `SelectSeq`, whose library definition is recursive; that every rank has
its place (`KeptRanks`) is proved by induction with `NlInduction`.

### NlCacheMngr and NlMirror

`BInv` holds without a hypothesis.  Besides the types it says that no type is in
the manager twice, that a type is in use in the registry exactly while a cache of
it is provided, and what is known at each step of `nl_cache_mngr_add_cache()`
(`Calls`, `Joining`).  `KeepsSubscribed` rests on `Joining`: the groups before the
current one are joined.

`RegistrySafe` has the hypothesis `OwnObjects`: no two types share their object
operations.  It is needed: `nl_cache_mngt_provide()` looks a cache's type up by
its object operations (`cache_mngt.c:206`), and for `route/link` and
`link/bridge` it finds the one registered last; the invariant `RInv` (the manager
and, with `NL_AUTO_PROVIDE`, the registry each have one reference to a managed
cache) is false then.  Without `NL_AUTO_PROVIDE` the type of a managed cache can
be unregistered, and `nl_cache_mngr_free()` then runs into the `BUG()` of
`nl_cache_mngt_unprovide()` (`cache_mngt.c:372-374`).  The property says that
this is the only way to a `BUG()`, and the proof covers both settings.

`MInv` is the inductive invariant for the mirror: a queued event that is the
newest about its key agrees with the table and the socket is in the key's group
(`Fresh`); an overrun is either reported or known (`Overrun`); a cache being
filled misses only what the dump has still to send (`Filling`); no cache
outside `doubled` has an object twice (`Single`).  Neither `Mirrors` nor
`QueueLeadsToTable` is inductive without the others: an event lost in an
overrun, or a dump taken while events about the same objects are queued, breaks
each of them one step later.  `SInv` adds that nothing is cached or told that
the table never held, which the refinement needs.  The hypothesis `OwnTypes`
says that types have object operations, groups and messages of their own.  For
types that share groups a failed addition leaves the groups of the others
(`cache_mngr.c:360`), and `Mirrors` is not claimed.  Types without a hash table
(`addr`, `rule`, `qdisc`, `class`, `cls`, `mdb`) are included; but a refill
that an interruption restarts adds their objects a second time (see
`sync_refill`), and such a cache counts as not current until it is filled
again.  `ImplementsMirror` maps initial states to initial states and each step
to a step of `NlMirror` or a stutter; the mapping is the one the run `mngr`
checks.

### NlRecvmsgs

Four invariants, each on top of the last.

* `IInv`: a request that waits has a number no message, dump or earlier request
  has (`Waits`); a message carries the kernel's verdict on its request, and only
  parts of dumps are multipart (`Replies`); an interruption that was seen and not
  yet reported is remembered by the running call (`Remembered`).
  `InterruptReported` follows, and with `SyncInv` (after a clean `nl_send_sync()`
  only its own number is in flight) `SyncVerdict`.
* `SeqNeverAhead` counts messages: `seqExpect` plus the ends of replies in
  flight, requests and the dump is at most `seqNext`.  It is inductive together
  with `IInv` once the sets counted are known to be finite (`Sizes`); the
  lemmas are about how the cardinality of the ends in a queue changes when a
  datagram is appended, taken or walked through.  The type of `seqExpect`
  follows from it, not before.
* `HalfInv` under `Attentive`: the dump that is half read is the one expected, and
  the running call knows that it is in a multipart message.  `Attentive`: the
  application leaves the sequence check on and its callbacks neither stop a call
  nor replace it.  A callback that returns `NL_STOP` in the middle of a dump ends
  the call with success by design.
* `OInv` under `Orderly` (`Attentive`, and `Hazards = {}`: nothing lost, no memory
  shortage, no failed or overlapping use of the socket): `Line`, the messages
  not yet counted and the queue behind them are in the order of the requests with
  the end of each reply last; `Pending`, each number from `seqExpect` to `seqNext`
  has a request, a dump or a queued end, and requests come behind all that is
  queued.  From `Line` the head of what is unread has the number expected
  (`HeadExpected`), which is `RepliesMatched`; with `Pending` each step moves
  `seqExpect` exactly when an end is read, which is `SeqAccounting`.  Both
  properties are false with `Hazards`: the run `recv_hazards` checks
  `SeqNeverAhead` in their place.

`NlInduction` has the two facts about natural numbers that several proofs use,
least element and induction, stated for sets of numbers so that the provers can
instantiate them.

### Only model-checked

* `ConnectTerminates`, `WaitReturns`, `SyncReturns`, `Converges`: liveness under
  fairness, out of the prover's reach.
* NlClone and the attribute tables: the statements are about concrete tables,
  walked by folds; there is no parameter to generalise over but the values.

## Seen in the code

Differences between what the code does and what it seems meant to do, met while
the tables and models were written.  They are modelled as the code has them;
where a property would fail on one, the property or the run names the
exception.

Caches and manager

* A failed `nl_cache_mngr_add_cache()` leaves all groups of the type
  (`cache_mngr.c:360`), also those another managed cache needs: `qdisc`,
  `class` and `cls` share theirs, and so do `link` and `link/bridge`.
* A provided cache is stored with the first type in the list, the one
  registered last, that has its object operations (`cache_mngt.c:206`).
  `route/link` and `link/bridge` share theirs, so
  `nl_cache_mngt_require("route/link")` does not find a provided link cache.
* Cache type operations' reference counts are decremented outside the lock
  (`cache_mngt.c:68`), and `nl_cache_mngt_require_safe()` takes its reference
  after it gave up the one that protects the pointer (`391`): noted as hazards,
  not modelled.

Requests

* An `NL_CB_MSG_OUT` hook that returns `NL_SKIP` or `NL_STOP` keeps the message
  from being sent (`nl.c:339-341`), but the positive result looks like a success:
  `nl_send_sync()` then waits for an answer that cannot come.
* A read that fails in the middle of a dump (`nl.c:850`) loses the mark of an
  interruption that was seen before.

Messages

* `nla_nest_cancel()` subtracts the aligned distance from a length that may be
  unaligned (`attr.c:1003`; the comment at 990-992 says the container is
  removed): `nlmsg_len` can end up below the container's start, by less than
  an alignment.  `CancelRestores` is about the aligned tail, where the next
  attribute goes.
* `nla_reserve()` does not check that the length fits the 16 bits of `nla_len`.

Clones

* When memory runs out in the middle of `oo_clone`, `neigh`, `rule`, `addr`,
  `route`, `mroute`, the link types, `fw`, `u32`, `flower`, `ct`, `exp`, `ae`,
  `sa`, `sp` and `idiag_req` free what the source still uses: they neither
  reset their pointers nor leave before the byte copy.  (A run of `clone` with
  all types in `FailTypes` shows it.)
* `mdb`, when the second port of a group cannot be cloned, frees the group with
  `rtnl_mgrp_free()`, which does not free the ports added before (`mdb.c:165-167`,
  `818-822`).  `ct`, `exp`, `sriov` and `veth` assign a copy only if there is one,
  and free the source's otherwise; `rtnl_link_set_type()` leaves the kind it freed
  in place when memory runs out (`link.c:2668-2676`); `macvlan` writes to its list
  without looking whether it was allocated.
* `u32` and `flower` clone only the first action of a chain (`u32.c:217`,
  `flower.c:274`), `mall` appends the clones of the others to the source's chain.
* The setters of selectors and templates (`xfrmnl_sel_set_daddr()` ...) forget
  the address they replace.
* Selectors, lifetimes, templates and actions are duplicated with their
  reference count.  A route's nexthops lose realms and encapsulation.  The
  port counters of an mdb double.

Links

* `vxlan_compare()` compares `vxi_proxy` for eight other flags; `vxlan` and
  `geneve` send the port as `u32` and read a `u16`.
* `ipgre` puts OFLAGS under the number of another bit, `ipvti` OKEY under the
  bit of IKEY, `sit` looks at the wrong bit for the relay prefix length.
  `ppp`'s descriptor setter ors into the value.  `can_put_attrs()` uses bit
  numbers as attribute types.  `macvlan` needs a MACADDR_COUNT that it never
  sends.
* `macsec`: PORT is not parsed, WINDOW is sent only with REPLAY_PROTECT.
  `bridge`: the hardware mode goes to the wrong field, flags cannot be read as
  off, flushing VLANs clears 4096 bytes of a 512 byte bitmap
  (`link/bridge.c:59-62`, `857-878`).
* `sriov`: the statistics set the bit of the transmit rate, the VLAN protocol
  is written in host and read in network order.  `inet6` flags and token are
  never sent.  Many `*_put_attrs()` return 0 after `nla_put_failure`.
* `rtnl_link_set_ifalias()` takes an alias of any length (`link.c:2551-2562`);
  the policy allows IFALIASZ (`link.c:374`), and the library refuses its own
  message.

Routing

* `rtnl_neigh_set_type()` replaces the mask (`neigh.c:1069`).
  `rtnl_addr_set_link(addr, NULL)` and `rtnl_tc_set_link(tc, NULL)` put the
  link and keep the pointer.
* Not compared: an address' alias and prefix length, a rule's ports, protocols
  and l3mdev, a route's last metric, an mdb's groups (only counted), the
  parameters of most link kinds, those of all queueing disciplines, classifiers
  and actions; `UncomparedBits` in `MCNlAttrs` is the
  full list.
* Neighbour tables: THRESH3 is never sent and THRESH2 twice, DELAY_PROBE_TIME
  carries the proxy delay, times are written as `u64` and read as `u32`.

Traffic control

* `mqprio`'s parser never advances its index.  `netem`'s parser frees the data
  on a parse error, its builder changes the object.  An `htb` class without
  CEIL sends an uninitialised table.  `rtnl_act_parse()` misses the last
  action.  `u32`'s hash mask, selector and terminal setters do not set the bit.
  `nat` converts to network order in the setters only; `skbedit` writes `u32`
  and reads `u16`.  Classifiers set the ACTION bit before the action is
  appended, `mall` keeps it after the last one is gone.

IPsec, netfilter, generic netlink

* `ae`'s parser looks for the thresholds under the numbers of other attributes,
  and reads the replay state without looking whether there is one.  Differences
  of the replay state are reported as another bit.  `sa` sends the address
  structure, not the address.  The conversions to kernel structures swap mark
  value and mask (`sa.c:1069-1094`, `sp.c:733-758`).
* `exp`'s parser reads the NAT direction from the mask (`exp.c:264`).
  `nfnl_ct_build_message()` returns success and a freed message when the
  message has no room (`ct.c:543-549`).  A connection's zone and time stamp are
  not compared.  Log flags are never sent.  A verdict with payload is padded
  with what follows the payload (`queue_msg.c:242-285`).
* The version of a generic netlink family is truncated to 8 bits.

## Not modelled

* Dumping and printing (`oo_dump`, `*2str`), `lib/utils.c`, `lib/addr.c`,
  `lib/data.c`, `lib/error.c`: stateless conversions.  The dump functions are
  a large part of the object types' files.
* Command line tools and Python bindings: front ends.  Vendored kernel headers:
  no code.
* Extended matches (`cls/ematch*`), the name tables of `classid.c` and
  `pktloc.c`: parsers of text and bytes; the opaque data of a match is copied.
* `lib/genl/mngt.c`: dispatch of commands to handlers; `lib/handlers.c`:
  reference counts of hook tables (planned).
* Socket options and memberships outside the manager: setters of one field.
* The registry's races: co_refcnt is a plain integer changed with and without
  the lock.  The registry is modelled for one thread.
* The hash function and the order within a bucket: only equality matters.
* The reference counts of link modules (`io_refcnt`, `ao_refcnt`).
* Wrap of sequence numbers: 2^32 requests.

`components` in `PROJECT.json` has the status of every component.

## Plan

1. Done: NlPorts with proofs, NlRecvmsgs, NlCache, NlCacheSync.
2. Done: NlCacheMngt, NlCacheMngr refining NlMirror, NlObject, NlMsg, NlClone,
   the attribute tables.
3. Done: the proofs of NlObject, NlMsg, NlCacheSync, NlCacheMngr with the
   refinement of NlMirror, and NlRecvmsgs.
4. `nl_recv()`'s loop (peek, grow, retry), `nl_pickup()`, generic netlink's
   families, reference counts of callback sets.
