------------------------------- MODULE NlMsg --------------------------------
(***************************************************************************)
(* Building a netlink message and reading it back: lib/msg.c and           *)
(* lib/attr.c.  A message is a buffer of nm_size bytes of which nlmsg_len  *)
(* are used; attributes are appended at the aligned tail, containers are   *)
(* opened, closed or cancelled, raw structures are appended at the         *)
(* unaligned end.  The reader gets nothing but the bytes.                  *)
(*                                                                         *)
(* Lengths and offsets are the real ones, in bytes.  The contents are kept *)
(* per aligned word: an attribute header, data or zero.  The application   *)
(* follows the documentation: a structure is appended before the           *)
(* attributes that follow it, containers are closed innermost first, and   *)
(* the message is not expanded while one is open.  After a call that finds *)
(* no room, which changes nothing, it may go on.                           *)
(***************************************************************************)
EXTENDS Integers, Sequences

CONSTANTS
    Sizes,        \* the nm_size a message is allocated with or expanded to
    HdrLen,       \* length of the family header
    StructLen,    \* container types -> length of the structure they start with
    AttrTypes,    \* other attribute types
    PayloadLens,  \* their payload lengths
    U16           \* one more than USHRT_MAX, the limit of nla_len

ALIGNTO == 4
NLMSG_HDRLEN == 16
NLA_HDRLEN == 4

NestTypes == DOMAIN StructLen

ASSUME MsgAssumption ==
    \* _nest_end(): "the allocate message buffer must be a multiple of NLMSG_ALIGNTO"
    /\ \A s \in Sizes : s \in Nat /\ s >= NLMSG_HDRLEN /\ s % ALIGNTO = 0
    /\ Sizes # {}
    /\ HdrLen \in Nat
    /\ StructLen \in [NestTypes -> Nat]
    \* a type is a container's or not; the message is none
    /\ AttrTypes \cap NestTypes = {} /\ "message" \notin NestTypes
    /\ U16 \in Nat /\ U16 > NLA_HDRLEN
    \* nla_reserve() does not check that nla_len can hold the length
    /\ \A n \in PayloadLens : n \in Nat /\ NLA_HDRLEN + n < U16

VARIABLES
    m,       \* the message: [size, len, mem], nm_size, nlmsg_len, contents
    frames,  \* the message and the open containers: what was put into each
    bug      \* BUG()

vars == <<m, frames, bug>>

\* What the memory holds at an aligned offset: a header, data or zero.
Zero == [type |-> "zero", len |-> 0]
Data == [type |-> "data", len |-> 0]
Header(t, n) == [type |-> t, len |-> n]

Types == AttrTypes \cup NestTypes \cup {"message"}
Words(size) == {p \in NLMSG_HDRLEN..(size - 1) : p % ALIGNTO = 0}

\* Cancelling an unaligned container can leave nlmsg_len up to three bytes
\* short of the message header's end.
Message(size) ==
    [size : {size}, len : (NLMSG_HDRLEN - ALIGNTO + 1)..size,
     mem : [Words(size) -> {Zero, Data} \cup
                           {Header(t, n) : t \in AttrTypes \cup NestTypes,
                                           n \in NLA_HDRLEN..(U16 - 1)}]]

TypeOK ==
    /\ \E s \in Sizes : m \in Message(s)
    /\ bug \in BOOLEAN
    /\ Len(frames) > 0 /\ frames[1].type = "message"
    /\ \A i \in 1..Len(frames) :
          /\ frames[i].type \in Types
          /\ frames[i].struct \in BOOLEAN
          /\ frames[i].at \in 0..m.size /\ frames[i].at % ALIGNTO = 0

-----------------------------------------------------------------------------
(* Sizes.                                                                  *)

\* NLMSG_ALIGN() and NLA_ALIGN()
Align(n) == ((n + ALIGNTO - 1) \div ALIGNTO) * ALIGNTO

nla_attr_size(n)  == NLA_HDRLEN + n
nla_total_size(n) == Align(nla_attr_size(n))

\* Mutant: the tail is not aligned.
UnalignedTail(msg) == msg.len

nlmsg_tail(msg) == Align(msg.len)

\* What nlmsg_reserve() makes of a length: it aligns the length, not the end.
Padded(n, pad) == IF pad = 0 THEN n ELSE ((n + pad - 1) \div pad) * pad

\* The aligned words that the bytes from..to-1 touch.
Touched(msg, from, to) ==
    {p \in DOMAIN msg.mem : p + ALIGNTO > from /\ p < to}

Fill(msg, from, to, w) ==
    [p \in DOMAIN msg.mem |->
        IF p \in Touched(msg, from, to) THEN w ELSE msg.mem[p]]

-----------------------------------------------------------------------------
(* The operations on the buffer.                                           *)

CanReserve(msg, n, pad) ==
    /\ n <= msg.size
    /\ Padded(n, pad) + msg.len <= msg.size

\* nlmsg_reserve() and the copy into what it reserved
Raw(msg, n, pad) ==
    [msg EXCEPT !.len = @ + Padded(n, pad),
                !.mem = Fill(msg, msg.len, msg.len + n, Data)]

\* Mutant: the header of the attribute is not counted.
FitsPayload(msg, n) == nlmsg_tail(msg) + Align(n) <= msg.size

Fits(msg, n) == nlmsg_tail(msg) + nla_total_size(n) <= msg.size

\* nla_reserve() and the copy of the payload; nla_len has 16 bits
Attribute(msg, t, n) ==
    LET at == nlmsg_tail(msg)
    IN  [msg EXCEPT
           !.len = at + nla_total_size(n),
           !.mem = [Fill(msg, at + NLA_HDRLEN, at + nla_attr_size(n), Data)
                       EXCEPT ![at] = Header(t, nla_attr_size(n) % U16)]]

\* Mutant: the memory is cleared from the old tail on.
CancelClearsTail(msg, at) ==
    LET n == nlmsg_tail(msg) - at
    IN  [msg EXCEPT !.len = @ - n,
                    !.mem = Fill(msg, nlmsg_tail(msg), nlmsg_tail(msg) + n, Zero)]

\* nla_nest_cancel(): takes the aligned length of the container off a length
\* that need not be aligned.
Cancel(msg, at) ==
    LET n  == nlmsg_tail(msg) - at
        m1 == [msg EXCEPT !.len = @ - n]
    IN  [m1 EXCEPT !.mem = Fill(m1, nlmsg_tail(m1), nlmsg_tail(m1) + n, Zero)]

-----------------------------------------------------------------------------
(* Building.  frames is what the caller has put into the message and into  *)
(* each open container.                                                    *)

Open == frames[Len(frames)]     \* the innermost open container
Outer == SubSeq(frames, 1, Len(frames) - 1)

\* The structure that a container, or the message, starts with.
StructOf(f) == IF f.type = "message" THEN HdrLen ELSE StructLen[f.type]

\* Attributes come after the structure.
Ready == StructOf(Open) > 0 => Open.struct

Frame(t, at)    == [type |-> t, at |-> at, struct |-> FALSE, items |-> <<>>]
Item(t, n, sub) == [type |-> t, plen |-> n, sub |-> sub]

\* The caller has put an attribute into the innermost container.
PutInto(fs, item) == [fs EXCEPT ![Len(fs)].items = Append(@, item)]

\* __nlmsg_alloc(): calloc() and an aligned message header.
Allocated(size) ==
    [size |-> size, len |-> Align(NLMSG_HDRLEN), mem |-> [p \in Words(size) |-> Zero]]

Init ==
    /\ m \in {Allocated(s) : s \in Sizes}
    /\ frames = << Frame("message", 0) >>
    /\ bug = FALSE

\* nlmsg_free(), and nlmsg_alloc_size() for the next one.
nlmsg_alloc_size(size) ==
    /\ m' = Allocated(size)
    /\ frames' = << Frame("message", 0) >>
    /\ UNCHANGED bug

\* The family header, or a structure at the start of a container;
\* nlmsg_put() with a payload does the same with pad = NLMSG_ALIGNTO.
nlmsg_append(pad) ==
    /\ ~Ready
    /\ CanReserve(m, StructOf(Open), pad)
    /\ m' = Raw(m, StructOf(Open), pad)
    /\ frames' = [frames EXCEPT ![Len(frames)].struct = TRUE]
    /\ UNCHANGED bug

\* realloc() leaves the new memory undefined: as bad as data.
nlmsg_expand(size) ==
    /\ Len(frames) = 1
    /\ size > m.size
    /\ m' = [m EXCEPT !.size = size,
                      !.mem = [p \in Words(size) |->
                                 IF p \in Words(m.size) THEN m.mem[p] ELSE Data]]
    /\ UNCHANGED <<frames, bug>>

nla_put(t, n) ==
    /\ Ready
    /\ Fits(m, n)
    /\ m' = Attribute(m, t, n)
    /\ frames' = PutInto(frames, Item(t, n, <<>>))
    /\ UNCHANGED bug

nla_nest_start(t) ==
    /\ Ready
    /\ Fits(m, 0)
    /\ m' = Attribute(m, t, 0)
    /\ frames' = Append(frames, Frame(t, nlmsg_tail(m)))
    /\ UNCHANGED bug

\* Cancelling a container discards those that are open inside it.
nla_nest_cancel(i) ==
    /\ m' = Cancel(m, frames[i].at)
    /\ frames' = SubSeq(frames, 1, i - 1)
    /\ bug' = (bug \/ nlmsg_tail(m) < frames[i].at)

\* The length is stored in 16 bits, and the data padded to the tail; the
\* padding must fit.
Close(n) ==
    LET m1  == [m EXCEPT !.mem[Open.at] = Header(Open.type, n % U16)]
        pad == nlmsg_tail(m) - m.len
    IN  /\ m' = IF CanReserve(m1, pad, 0)
                THEN [m1 EXCEPT !.len = @ + pad] ELSE m1
        /\ bug' = (bug \/ ~CanReserve(m1, pad, 0))
        /\ frames' = PutInto(Outer, Item(Open.type, 0, Open.items))

\* Mutant: the size of the container is not checked.
NestEndUnchecked(keep) ==
    LET n == nlmsg_tail(m) - Open.at
    IN  /\ Len(frames) > 1
        /\ IF ~keep /\ n = NLA_HDRLEN
           THEN nla_nest_cancel(Len(frames)) ELSE Close(n)

\* _nest_end(): a container that is too large, or empty and not to be kept,
\* is taken out again.
nla_nest_end(keep) ==
    LET n == nlmsg_tail(m) - Open.at
    IN  /\ Len(frames) > 1
        /\ IF n >= U16 \/ (~keep /\ n = NLA_HDRLEN)
           THEN nla_nest_cancel(Len(frames)) ELSE Close(n)

Next ==
    \/ \E s \in Sizes : nlmsg_alloc_size(s) \/ nlmsg_expand(s)
    \/ \E pad \in {0, ALIGNTO} : nlmsg_append(pad)
    \/ \E t \in AttrTypes, n \in PayloadLens : nla_put(t, n)
    \/ \E t \in NestTypes : nla_nest_start(t)
    \/ \E i \in 2..Len(frames) : nla_nest_cancel(i)
    \/ \E keep \in BOOLEAN : nla_nest_end(keep)

Spec == Init /\ [][Next]_vars

-----------------------------------------------------------------------------
(* Reading.                                                                *)

nla_ok(mem, at, rem) ==
    /\ rem >= NLA_HDRLEN
    /\ mem[at].len >= NLA_HDRLEN
    /\ mem[at].len <= rem

\* The attribute at an offset, with what is found in it if it is a container.
\* Anything else where data is expected is garbage.
Found(mem, at, sub) ==
    LET h == mem[at]
        intact == \A p \in DOMAIN mem :
                     p \in (at + 1)..(at + h.len - 1) => mem[p] = Data
    IN  IF h.type \in NestTypes THEN Item(h.type, 0, sub)
        ELSE IF intact THEN Item(h.type, h.len - NLA_HDRLEN, <<>>)
        ELSE Item("garbage", 0, <<>>)

\* nla_for_each_attr() over rem bytes at an offset, and the same inside the
\* containers, if items tells what is found in fewer bytes.  Data, or memory
\* outside the buffer, where a header is expected is garbage.
Round(mem, items, rem, at) ==
    IF rem >= NLA_HDRLEN /\ (at \notin DOMAIN mem \/ mem[at] = Data)
    THEN << Item("garbage", 0, <<>>) >>
    ELSE IF ~nla_ok(mem, at, rem) THEN <<>>
    ELSE LET h    == mem[at]
             skip == NLA_HDRLEN + Align(StructLen[h.type])
         IN  << Found(mem, at, items[h.len - skip][at + skip]) >>
             \o items[rem - Align(h.len)][at + Align(h.len)]

\* What a reader finds in rem bytes at an offset: Items(mem)[rem][at].
Items(mem) ==
    LET items[rem \in Int] == [at \in Nat |-> Round(mem, items, rem, at)]
    IN  items

Read(mem, from, length) == Items(mem)[length][from]

\* nlmsg_attrdata() and nlmsg_attrlen()
AttrData == NLMSG_HDRLEN + Align(HdrLen)
AttrLen  == IF m.len > AttrData THEN m.len - AttrData ELSE 0

-----------------------------------------------------------------------------
(* Properties.                                                             *)

\* A reader of the message finds exactly the attributes that were put into
\* it and not cancelled, in order and with their contents, at every depth,
\* whatever was appended unaligned, cancelled, found empty or too large or
\* had no room.  Not while nlmsg_len is unaligned: nla_nest_cancel() of a
\* container that ends in unaligned data cuts up to three bytes off the
\* attribute before it, until the next one is put.
Readable ==
    Len(frames) = 1 /\ m.len % ALIGNTO = 0
       => Read(m.mem, AttrData, AttrLen) = frames[1].items

\* The message never grows out of its buffer, not even up to the tail where
\* the next attribute would go, and no BUG() is reached: in particular the
\* padding of a container always fits ("nlmsg_reserve() may never fail in
\* this situation").
InBuffer == ~bug /\ nlmsg_tail(m) <= m.size

\* nla_nest_cancel() "Removes any partially added nested Netlink attribute":
\* whatever was added since nla_nest_start(), the next attribute goes where
\* the container was, and the memory from there on is as it was before.
CancelRestores ==
    [][\A i \in 2..Len(frames) : nla_nest_cancel(i) =>
          /\ nlmsg_tail(m') = frames[i].at
          /\ \A p \in DOMAIN m.mem :
                /\ p < frames[i].at => m'.mem[p] = m.mem[p]
                /\ p \in frames[i].at..(nlmsg_tail(m) - 1) => m'.mem[p] = Zero
      ]_vars
=============================================================================
