---------------------------- MODULE NlMsg_proofs ----------------------------
(***************************************************************************)
(* A message never grows out of its buffer, the BUG()s of attr.c are out   *)
(* of reach, cancelling a container restores the buffer, and a reader      *)
(* finds exactly what was put into the message, for any buffer sizes,      *)
(* header and structure lengths, payloads and depth of nesting.            *)
(*                                                                         *)
(* There are two inductive invariants.  IInv is about where the open       *)
(* containers are: at aligned offsets, one after the other, each with its  *)
(* header before the tail.  RInv adds what is between them: the bytes of   *)
(* the message and of every open container are tiled by attributes, which  *)
(* the reader finds to be the ones that were put there.                    *)
(***************************************************************************)
EXTENDS NlMsg, NlInduction, SequenceTheorems, TLAPS

Cells == {Zero, Data} \cup {Header(t, n) : t \in AttrTypes \cup NestTypes,
                                           n \in NLA_HDRLEN..(U16 - 1)}

BufferOK(msg) ==
    /\ msg \in [size : Sizes, len : Nat, mem : [Words(msg.size) -> Cells]]
    /\ msg.len <= msg.size
    /\ nlmsg_tail(msg) >= NLMSG_HDRLEN

\* A sequence of frames, whatever was put into them.
FrameSeq(fs) ==
    /\ fs \in Seq({fs[i] : i \in 1..Len(fs)})
    /\ \A i \in 1..Len(fs) :
          fs[i] = [type |-> fs[i].type, at |-> fs[i].at,
                   struct |-> fs[i].struct, items |-> fs[i].items]
    /\ \A i \in 1..Len(fs) : fs[i].struct \in BOOLEAN

\* The first frame is the message, the others are containers below the tail.
Stacked(fs, tail) ==
    /\ Len(fs) > 0 /\ fs[1].type = "message" /\ fs[1].at = 0
    /\ \A i \in 2..Len(fs) :
          /\ fs[i].type \in NestTypes
          /\ fs[i].at \in Nat /\ fs[i].at % ALIGNTO = 0
          /\ NLMSG_HDRLEN <= fs[i].at /\ fs[i].at + NLA_HDRLEN <= tail
    /\ \A i, j \in 2..Len(fs) : i < j => fs[i].at + NLA_HDRLEN <= fs[j].at

IInv ==
    /\ BufferOK(m)
    /\ FrameSeq(frames)
    /\ Stacked(frames, nlmsg_tail(m))
    /\ bug = FALSE

-----------------------------------------------------------------------------
(* Alignment.                                                              *)

\* NLMSG_ALIGN() rounds up by less than an alignment.
LEMMA AlignUp ==
    ASSUME NEW n \in Nat
    PROVE  /\ Align(n) \in Nat /\ Align(n) % ALIGNTO = 0
           /\ n <= Align(n) /\ Align(n) < n + ALIGNTO
  BY DEF Align, ALIGNTO

\* It is the least multiple that is not smaller.
LEMMA AlignLeast ==
    ASSUME NEW n \in Nat, NEW y \in Nat, y % ALIGNTO = 0, n <= y
    PROVE  Align(n) <= y /\ (y < n + ALIGNTO => Align(n) = y)
  BY DEF Align, ALIGNTO

\* nlmsg_reserve()'s padding of a length only adds to it.
LEMMA PadUp ==
    ASSUME NEW n \in Nat, NEW pad \in {0, ALIGNTO}
    PROVE  Padded(n, pad) \in Nat /\ n <= Padded(n, pad)
  <1>1. CASE pad = 0
    BY <1>1 DEF Padded
  <1>2. CASE pad = ALIGNTO
    BY <1>2 DEF Padded, ALIGNTO
  <1> QED BY <1>1, <1>2

\* The tail of a message that fits its buffer is in the buffer, because the
\* size of the buffer is aligned.
LEMMA TailFits ==
    ASSUME NEW msg, msg.size \in Sizes, msg.len \in Nat, msg.len <= msg.size
    PROVE  /\ nlmsg_tail(msg) \in Nat /\ nlmsg_tail(msg) % ALIGNTO = 0
           /\ msg.len <= nlmsg_tail(msg)
           /\ nlmsg_tail(msg) < msg.len + ALIGNTO
           /\ nlmsg_tail(msg) <= msg.size
           /\ msg.size \in Nat /\ msg.size % ALIGNTO = 0
           /\ msg.size >= NLMSG_HDRLEN
  <1>1. msg.size \in Nat /\ msg.size % ALIGNTO = 0 /\ msg.size >= NLMSG_HDRLEN
    BY MsgAssumption
  <1> QED BY <1>1, AlignUp, AlignLeast DEF nlmsg_tail

-----------------------------------------------------------------------------
(* The buffer.                                                             *)

\* Filling words leaves cells.
LEMMA FillCells ==
    ASSUME NEW msg, NEW size, msg.mem \in [Words(size) -> Cells],
           NEW from, NEW to, NEW w \in Cells
    PROVE  Fill(msg, from, to, w) \in [Words(size) -> Cells]
  BY DEF Fill

LEMMA AllocatedOK ==
    ASSUME NEW s \in Sizes
    PROVE  BufferOK(Allocated(s)) /\ nlmsg_tail(Allocated(s)) = NLMSG_HDRLEN
  <1>1. Align(NLMSG_HDRLEN) = NLMSG_HDRLEN /\ NLMSG_HDRLEN \in Nat
    BY DEF Align, ALIGNTO, NLMSG_HDRLEN
  <1>2. nlmsg_tail(Allocated(s)) = NLMSG_HDRLEN
    BY <1>1 DEF nlmsg_tail, Allocated
  <1>3. s \in Nat /\ s >= NLMSG_HDRLEN
    BY MsgAssumption
  <1>4. [p \in Words(s) |-> Zero] \in [Words(s) -> Cells]
    BY DEF Cells
  <1> QED BY <1>1, <1>2, <1>3, <1>4 DEF BufferOK, Allocated, NLMSG_HDRLEN

\* Raw data that nlmsg_reserve() found room for.
LEMMA RawOK ==
    ASSUME NEW msg, BufferOK(msg), NEW n \in Nat, NEW pad \in {0, ALIGNTO},
           CanReserve(msg, n, pad)
    PROVE  BufferOK(Raw(msg, n, pad))
           /\ nlmsg_tail(msg) <= nlmsg_tail(Raw(msg, n, pad))
  <1> DEFINE r == Raw(msg, n, pad)
  <1>1. /\ r.size = msg.size /\ r.len = msg.len + Padded(n, pad)
        /\ r.mem = Fill(msg, msg.len, msg.len + n, Data)
        /\ r = [msg EXCEPT !.len = r.len, !.mem = r.mem]
    BY DEF Raw, BufferOK
  <1>2. r.mem \in [Words(msg.size) -> Cells]
    BY <1>1, FillCells DEF BufferOK, Cells
  <1>3. /\ msg.size \in Sizes /\ msg.len \in Nat /\ msg.len <= msg.size
        /\ r.len \in Nat /\ r.len <= msg.size /\ msg.len <= r.len
    <2>1. msg.size \in Sizes /\ msg.len \in Nat /\ msg.len <= msg.size
          /\ msg.size \in Nat
      BY MsgAssumption DEF BufferOK
    <2> QED BY <1>1, <2>1, PadUp DEF CanReserve
  <1> HIDE DEF r
  <1>4. r.size \in Sizes /\ r.len <= r.size
    BY <1>1, <1>3
  <1>5. /\ nlmsg_tail(r) \in Nat /\ nlmsg_tail(r) % ALIGNTO = 0
        /\ r.len <= nlmsg_tail(r)
    BY <1>3, <1>4, TailFits
  <1>6. nlmsg_tail(msg) \in Nat
    BY <1>3, TailFits
  <1>7. nlmsg_tail(msg) <= nlmsg_tail(r)
    <2>1. msg.len <= nlmsg_tail(r)
      BY <1>3, <1>5
    <2> QED BY <1>3, <1>5, <2>1, AlignLeast DEF nlmsg_tail
  <1>8. nlmsg_tail(r) >= NLMSG_HDRLEN
    BY <1>5, <1>6, <1>7 DEF BufferOK, NLMSG_HDRLEN
  <1> QED BY <1>1, <1>2, <1>3, <1>4, <1>7, <1>8 DEF BufferOK, r

\* An attribute that nla_reserve() found room for.
LEMMA AttributeOK ==
    ASSUME NEW msg, BufferOK(msg), NEW t \in AttrTypes \cup NestTypes,
           NEW n \in Nat, NLA_HDRLEN + n < U16, Fits(msg, n)
    PROVE  /\ BufferOK(Attribute(msg, t, n))
           /\ nlmsg_tail(Attribute(msg, t, n)) >= nlmsg_tail(msg) + NLA_HDRLEN
  <1> DEFINE a == Attribute(msg, t, n)
             at == nlmsg_tail(msg)
             total == nla_total_size(n)
             mem1 == Fill(msg, at + NLA_HDRLEN, at + nla_attr_size(n), Data)
             hd == Header(t, nla_attr_size(n) % U16)
  <1>1. /\ msg.size \in Sizes /\ msg.len \in Nat /\ msg.len <= msg.size
        /\ at \in Nat /\ at % ALIGNTO = 0 /\ msg.size \in Nat
    BY TailFits DEF BufferOK
  <1>2. total \in Nat /\ total % ALIGNTO = 0 /\ total >= NLA_HDRLEN
    BY AlignUp DEF nla_total_size, nla_attr_size, NLA_HDRLEN
  <1>3. at + total <= msg.size
    BY DEF Fits
  <1>4. hd \in Cells
    BY MsgAssumption DEF Cells, nla_attr_size, NLA_HDRLEN
  <1>5. mem1 \in [Words(msg.size) -> Cells]
    BY FillCells DEF BufferOK, Cells
  <1>6. a = [msg EXCEPT !.len = at + total, !.mem = [mem1 EXCEPT ![at] = hd]]
    BY DEF Attribute
  <1> HIDE DEF a, at, total, mem1, hd
  <1>7. [mem1 EXCEPT ![at] = hd] \in [Words(msg.size) -> Cells]
    BY <1>4, <1>5
  <1>8. /\ a.size = msg.size /\ a.len = at + total
        /\ a \in [size : Sizes, len : Nat, mem : [Words(msg.size) -> Cells]]
    <2> DEFINE f == [mem1 EXCEPT ![at] = hd]
               len == at + total
    <2>1. len \in Nat /\ f \in [Words(msg.size) -> Cells]
      BY <1>1, <1>2, <1>7
    <2>2. a = [msg EXCEPT !.len = len, !.mem = f]
      BY <1>6
    <2> HIDE DEF f, len
    <2>3. /\ a.size = msg.size /\ a.len = len
          /\ a \in [size : Sizes, len : Nat, mem : [Words(msg.size) -> Cells]]
      BY <2>1, <2>2 DEF BufferOK
    <2> QED BY <2>3 DEF len
  <1>9. nlmsg_tail(a) = at + total
    <2>1. (at + total) \in Nat /\ (at + total) % ALIGNTO = 0
      BY <1>1, <1>2 DEF ALIGNTO
    <2> QED BY <1>8, <2>1, AlignLeast DEF nlmsg_tail, ALIGNTO
  <1>10. at >= NLMSG_HDRLEN
    BY DEF BufferOK, at
  <1> QED BY <1>1, <1>2, <1>3, <1>8, <1>9, <1>10
          DEF BufferOK, a, at, NLA_HDRLEN, NLMSG_HDRLEN

\* nla_nest_cancel() at an aligned offset below the tail: the tail is that
\* offset again, what was before it is untouched and what was after is zero.
LEMMA CancelOK ==
    ASSUME NEW msg, BufferOK(msg), NEW at \in Nat, at % ALIGNTO = 0,
           NLMSG_HDRLEN <= at, at + NLA_HDRLEN <= nlmsg_tail(msg)
    PROVE  /\ BufferOK(Cancel(msg, at)) /\ nlmsg_tail(Cancel(msg, at)) = at
           /\ \A p \in DOMAIN msg.mem :
                 /\ p < at => Cancel(msg, at).mem[p] = msg.mem[p]
                 /\ p \in at..(nlmsg_tail(msg) - 1)
                       => Cancel(msg, at).mem[p] = Zero
  <1> DEFINE n == nlmsg_tail(msg) - at
             m1 == [msg EXCEPT !.len = @ - n]
             c == Cancel(msg, at)
  <1>1. /\ msg.size \in Sizes /\ msg.len \in Nat /\ msg.len <= msg.size
        /\ msg.mem \in [Words(msg.size) -> Cells]
        /\ nlmsg_tail(msg) \in Nat /\ msg.size \in Nat
        /\ msg.len <= nlmsg_tail(msg)
        /\ nlmsg_tail(msg) < msg.len + ALIGNTO
    BY TailFits DEF BufferOK
  <1>2. /\ n \in Nat /\ msg.len - n \in Nat /\ msg.len - n <= at
        /\ at < msg.len - n + ALIGNTO /\ msg.len - n <= msg.size
    BY <1>1 DEF NLA_HDRLEN, NLMSG_HDRLEN, ALIGNTO
  <1>3. /\ m1.len = msg.len - n /\ m1.mem = msg.mem /\ m1.size = msg.size
        /\ m1 \in [size : Sizes, len : Nat, mem : [Words(msg.size) -> Cells]]
    BY <1>1, <1>2 DEF BufferOK
  <1>4. nlmsg_tail(m1) = at
    BY <1>2, <1>3, AlignLeast DEF nlmsg_tail
  <1>5. c = [m1 EXCEPT !.mem = Fill(m1, nlmsg_tail(m1), nlmsg_tail(m1) + n, Zero)]
    BY DEF Cancel
  <1> HIDE DEF m1
  <1>6. Fill(m1, at, at + n, Zero) \in [Words(msg.size) -> Cells]
    BY <1>1, <1>3, FillCells DEF Cells
  <1>7. /\ c.mem = Fill(m1, at, at + n, Zero) /\ c.len = m1.len
        /\ c.size = msg.size
        /\ c \in [size : Sizes, len : Nat, mem : [Words(msg.size) -> Cells]]
    BY <1>3, <1>4, <1>5, <1>6
  <1> HIDE DEF c
  <1>8. nlmsg_tail(c) = at
    BY <1>4, <1>7 DEF nlmsg_tail
  <1>9. BufferOK(c)
    BY <1>2, <1>3, <1>7, <1>8 DEF BufferOK
  <1>10. ASSUME NEW p \in DOMAIN msg.mem
         PROVE  /\ p < at => c.mem[p] = msg.mem[p]
                /\ p \in at..(nlmsg_tail(msg) - 1) => c.mem[p] = Zero
    <2>1. p \in Words(msg.size) /\ p \in Nat /\ p % ALIGNTO = 0
      BY <1>1 DEF Words, NLMSG_HDRLEN
    <2>2. p < at => p + ALIGNTO <= at
      BY <2>1 DEF ALIGNTO
    <2>3. c.mem[p] = IF p \in Touched(m1, at, at + n) THEN Zero ELSE msg.mem[p]
      BY <1>3, <1>7 DEF Fill
    <2>4. p \in Touched(m1, at, at + n) <=> p + ALIGNTO > at /\ p < at + n
      BY <1>3 DEF Touched
    <2> QED BY <1>1, <1>2, <2>1, <2>2, <2>3, <2>4 DEF ALIGNTO
  <1> QED BY <1>8, <1>9, <1>10 DEF c

-----------------------------------------------------------------------------
(* The frames.                                                             *)

LEMMA FramesType ==
    ASSUME NEW fs, FrameSeq(fs)
    PROVE  Len(fs) \in Nat /\ DOMAIN fs = 1..Len(fs)
           /\ fs = [i \in 1..Len(fs) |-> fs[i]]
  BY DEF FrameSeq

LEMMA FramesFrom ==
    ASSUME NEW k \in Nat, NEW g, g = [i \in 1..k |-> g[i]],
           \A i \in 1..k : /\ g[i] = [type |-> g[i].type, at |-> g[i].at,
                                       struct |-> g[i].struct,
                                       items |-> g[i].items]
                           /\ g[i].struct \in BOOLEAN
    PROVE  FrameSeq(g) /\ Len(g) = k
  <1> DEFINE S == {g[i] : i \in 1..k}
  <1>1. \A i \in 1..k : g[i] \in S
    OBVIOUS
  <1> HIDE DEF S
  <1>2. g \in [1..k -> S]
    BY <1>1
  <1>3. g \in Seq(S) /\ Len(g) = k
    BY <1>2
  <1> QED BY <1>3 DEF FrameSeq, S

\* The first frame alone.
LEMMA FirstFrame ==
    ASSUME NEW tail
    PROVE  FrameSeq(<< Frame("message", 0) >>)
           /\ Stacked(<< Frame("message", 0) >>, tail)
  <1> DEFINE g == << Frame("message", 0) >>
  <1>1. g = [i \in 1..1 |-> g[i]] /\ Len(g) = 1 /\ g[1] = Frame("message", 0)
    OBVIOUS
  <1> HIDE DEF g
  <1>2. FrameSeq(g)
    <2> DEFINE e == << >>
    <2>1. g[1] = [type |-> "message", at |-> 0, struct |-> FALSE, items |-> e]
      BY <1>1 DEF Frame
    <2> HIDE DEF e
    <2>2. /\ g[1] = [type |-> g[1].type, at |-> g[1].at,
                     struct |-> g[1].struct, items |-> g[1].items]
          /\ g[1].struct \in BOOLEAN
      BY <2>1
    <2>3. \A i \in 1..1 : i = 1
      OBVIOUS
    <2> QED BY <1>1, <2>2, <2>3, FramesFrom
  <1>3. Stacked(g, tail)
    BY <1>1 DEF Frame, Stacked
  <1> QED BY <1>2, <1>3 DEF g

\* What changes the inside of a frame only leaves the frames stacked.
LEMMA InsideOnly ==
    ASSUME NEW fs, NEW g, NEW tail \in Nat, NEW tail2 \in Nat, tail <= tail2,
           FrameSeq(fs), Stacked(fs, tail), Len(g) = Len(fs),
           \A i \in 1..Len(fs) : g[i].type = fs[i].type /\ g[i].at = fs[i].at
    PROVE  Stacked(g, tail2)
  <1>1. Len(fs) \in Nat
    BY FramesType
  <1>2. /\ Len(g) > 0 /\ g[1].type = "message" /\ g[1].at = 0
    BY <1>1 DEF Stacked
  <1>3. ASSUME NEW i \in 2..Len(g)
        PROVE  /\ g[i].type \in NestTypes
               /\ g[i].at \in Nat /\ g[i].at % ALIGNTO = 0
               /\ NLMSG_HDRLEN <= g[i].at /\ g[i].at + NLA_HDRLEN <= tail2
    BY <1>1 DEF Stacked, NLA_HDRLEN
  <1>4. ASSUME NEW i \in 2..Len(g), NEW j \in 2..Len(g), i < j
        PROVE  g[i].at + NLA_HDRLEN <= g[j].at
    BY <1>1, <1>4 DEF Stacked
  <1> QED BY <1>2, <1>3, <1>4 DEF Stacked

\* Putting an attribute into the innermost container.
LEMMA PutIntoOK ==
    ASSUME NEW fs, FrameSeq(fs), Len(fs) > 0, NEW item
    PROVE  /\ FrameSeq(PutInto(fs, item)) /\ Len(PutInto(fs, item)) = Len(fs)
           /\ \A i \in 1..Len(fs) : /\ PutInto(fs, item)[i].type = fs[i].type
                                    /\ PutInto(fs, item)[i].at = fs[i].at
  <1> DEFINE k == Len(fs)
             g == PutInto(fs, item)
             its == Append(fs[k].items, item)
  <1>1. k \in Nat /\ k \in 1..k /\ fs = [i \in 1..k |-> fs[i]]
    BY FramesType
  <1>2. g = [fs EXCEPT ![k] = [fs[k] EXCEPT !.items = its]]
    BY DEF PutInto
  <1> HIDE DEF k, g, its
  <1>3. /\ g = [i \in 1..k |-> g[i]]
        /\ g[k] = [fs[k] EXCEPT !.items = its]
        /\ \A i \in 1..k : i # k => g[i] = fs[i]
    BY <1>1, <1>2
  <1>4. \A i \in 1..k : /\ fs[i] = [type |-> fs[i].type, at |-> fs[i].at,
                             struct |-> fs[i].struct, items |-> fs[i].items]
                        /\ fs[i].struct \in BOOLEAN
    BY DEF FrameSeq, k
  <1>5. g[k] = [type |-> fs[k].type, at |-> fs[k].at,
                struct |-> fs[k].struct, items |-> its]
    BY <1>1, <1>3, <1>4
  <1>6. \A i \in 1..k : /\ g[i] = [type |-> g[i].type, at |-> g[i].at,
                                  struct |-> g[i].struct, items |-> g[i].items]
                        /\ g[i].struct \in BOOLEAN
                        /\ g[i].type = fs[i].type /\ g[i].at = fs[i].at
    BY <1>1, <1>3, <1>4, <1>5
  <1>7. FrameSeq(g) /\ Len(g) = k
    BY <1>1, <1>3, <1>6, FramesFrom
  <1> QED BY <1>6, <1>7 DEF g, k

\* Taking the frames from some container on away.
LEMMA TakeFrames ==
    ASSUME NEW fs, FrameSeq(fs), NEW tail \in Nat, Stacked(fs, tail),
           NEW i \in 2..Len(fs)
    PROVE  /\ FrameSeq(SubSeq(fs, 1, i - 1)) /\ Len(SubSeq(fs, 1, i - 1)) = i - 1
           /\ \A j \in 1..(i - 1) : SubSeq(fs, 1, i - 1)[j] = fs[j]
           /\ Stacked(SubSeq(fs, 1, i - 1), fs[i].at)
  <1> DEFINE g == SubSeq(fs, 1, i - 1)
  <1>1. Len(fs) \in Nat /\ i \in Nat
    BY FramesType
  <1>2. g = [j \in 1..(i - 1) |-> fs[j]] /\ Len(g) = i - 1
    BY <1>1 DEF FrameSeq
  <1> HIDE DEF g
  <1>3. g = [j \in 1..(i - 1) |-> g[j]] /\ \A j \in 1..(i - 1) : g[j] = fs[j]
    BY <1>2
  <1>4. FrameSeq(g)
    <2>1. \A j \in 1..(i - 1) : j \in 1..Len(fs)
      BY <1>1
    <2>2. \A j \in 1..(i - 1) :
             /\ g[j] = [type |-> g[j].type, at |-> g[j].at,
                        struct |-> g[j].struct, items |-> g[j].items]
             /\ g[j].struct \in BOOLEAN
      BY <1>3, <2>1 DEF FrameSeq
    <2>3. i - 1 \in Nat
      BY <1>1
    <2> QED BY <1>3, <2>2, <2>3, FramesFrom
  <1>5. Stacked(g, fs[i].at)
    <2>1. Len(g) > 0 /\ g[1].type = "message" /\ g[1].at = 0
      BY <1>1, <1>2, <1>3 DEF Stacked
    <2>2. \A j \in 2..Len(g) : j \in 2..Len(fs) /\ g[j] = fs[j] /\ j < i
      BY <1>1, <1>2, <1>3
    <2>3. \A j \in 2..Len(g) :
             /\ g[j].type \in NestTypes
             /\ g[j].at \in Nat /\ g[j].at % ALIGNTO = 0
             /\ NLMSG_HDRLEN <= g[j].at /\ g[j].at + NLA_HDRLEN <= fs[i].at
      BY <2>2 DEF Stacked
    <2>4. \A j, k \in 2..Len(g) : j < k => g[j].at + NLA_HDRLEN <= g[k].at
      BY <2>2 DEF Stacked
    <2> QED BY <2>1, <2>3, <2>4 DEF Stacked
  <1> QED BY <1>2, <1>3, <1>4, <1>5 DEF g

-----------------------------------------------------------------------------
(* The actions.                                                            *)

LEMMA InitIInv == Init => IInv
  <1> SUFFICES ASSUME Init PROVE IInv
    OBVIOUS
  <1>1. PICK s \in Sizes : m = Allocated(s)
    BY DEF Init
  <1> QED BY <1>1, AllocatedOK, FirstFrame DEF Init, IInv

LEMMA AllocSize ==
    ASSUME IInv, NEW s \in Sizes, nlmsg_alloc_size(s)
    PROVE  IInv'
  <1>1. BufferOK(m')
    BY AllocatedOK DEF nlmsg_alloc_size
  <1>2. FrameSeq(frames') /\ Stacked(frames', nlmsg_tail(m'))
    BY FirstFrame DEF nlmsg_alloc_size
  <1> QED BY <1>1, <1>2 DEF IInv, nlmsg_alloc_size, BufferOK, FrameSeq, Stacked,
                            nlmsg_tail

\* The facts about the buffer and its frames that every action starts from.
LEMMA Before ==
    ASSUME IInv
    PROVE  /\ BufferOK(m) /\ FrameSeq(frames) /\ Stacked(frames, nlmsg_tail(m))
           /\ bug = FALSE
           /\ m.size \in Sizes /\ m.size \in Nat /\ m.size % ALIGNTO = 0
           /\ m.len \in Nat /\ m.len <= m.size
           /\ m.mem \in [Words(m.size) -> Cells]
           /\ nlmsg_tail(m) \in Nat /\ nlmsg_tail(m) % ALIGNTO = 0
           /\ m.len <= nlmsg_tail(m) /\ nlmsg_tail(m) < m.len + ALIGNTO
           /\ nlmsg_tail(m) <= m.size /\ NLMSG_HDRLEN <= nlmsg_tail(m)
           /\ Len(frames) \in Nat /\ Len(frames) > 0
  <1>1. /\ BufferOK(m) /\ FrameSeq(frames) /\ Stacked(frames, nlmsg_tail(m))
        /\ bug = FALSE
    BY DEF IInv
  <1>2. /\ m.size \in Sizes /\ m.len \in Nat /\ m.len <= m.size
        /\ m.mem \in [Words(m.size) -> Cells]
        /\ nlmsg_tail(m) >= NLMSG_HDRLEN
    BY <1>1 DEF BufferOK
  <1>3. Len(frames) \in Nat /\ Len(frames) > 0
    BY <1>1, FramesType DEF Stacked
  <1>4. /\ nlmsg_tail(m) \in Nat /\ nlmsg_tail(m) % ALIGNTO = 0
        /\ m.len <= nlmsg_tail(m) /\ nlmsg_tail(m) < m.len + ALIGNTO
        /\ nlmsg_tail(m) <= m.size
        /\ m.size \in Nat /\ m.size % ALIGNTO = 0
    BY <1>2, TailFits
  <1> QED BY <1>1, <1>2, <1>3, <1>4 DEF NLMSG_HDRLEN

\* Assembling the invariant of the next state.
LEMMA After ==
    ASSUME BufferOK(m'), FrameSeq(frames'), Stacked(frames', nlmsg_tail(m')),
           bug' = FALSE
    PROVE  IInv'
  BY DEF IInv, BufferOK, FrameSeq, Stacked, nlmsg_tail

LEMMA Expand ==
    ASSUME IInv, NEW s \in Sizes, nlmsg_expand(s)
    PROVE  IInv'
  <1> DEFINE f == [p \in Words(s) |->
                     IF p \in Words(m.size) THEN m.mem[p] ELSE Data]
  <1>1. m' = [m EXCEPT !.size = s, !.mem = f] /\ s > m.size
    BY DEF nlmsg_expand
  <1>2. f \in [Words(s) -> Cells]
    BY Before DEF Cells
  <1> HIDE DEF f
  <1>3. /\ m'.size = s /\ m'.len = m.len /\ m'.mem = f
        /\ m' \in [size : Sizes, len : Nat, mem : [Words(s) -> Cells]]
    BY <1>1, <1>2, Before DEF BufferOK
  <1>4. nlmsg_tail(m') = nlmsg_tail(m)
    BY <1>3 DEF nlmsg_tail
  <1>5. s \in Nat
    BY MsgAssumption
  <1>6. BufferOK(m')
    BY <1>1, <1>3, <1>4, <1>5, Before DEF BufferOK
  <1> QED BY <1>4, <1>6, Before, After DEF nlmsg_expand

LEMMA StructNat ==
    ASSUME IInv
    PROVE  /\ StructOf(Open) \in Nat
           /\ Open = frames[Len(frames)] /\ Len(frames) \in 1..Len(frames)
           /\ Len(frames) > 1 => Len(frames) \in 2..Len(frames)
  <1>1. Len(frames) \in Nat /\ Len(frames) > 0
    BY Before
  <1>2. CASE Len(frames) = 1
    BY <1>1, <1>2, Before, MsgAssumption DEF Stacked, Open, StructOf
  <1>3. CASE Len(frames) # 1
    <2>1. Open.type \in NestTypes
      BY <1>1, <1>3, Before DEF Stacked, Open
    <2> QED BY <1>1, <2>1, MsgAssumption DEF StructOf, Open
  <1> QED BY <1>2, <1>3

LEMMA AppendStruct ==
    ASSUME IInv, NEW pad \in {0, ALIGNTO}, nlmsg_append(pad)
    PROVE  IInv'
  <1> DEFINE k == Len(frames)
             n == StructOf(Open)
  <1>1. n \in Nat /\ k \in Nat /\ k \in 1..k
    BY Before, StructNat
  <1>2. m' = Raw(m, n, pad) /\ CanReserve(m, n, pad) /\ bug' = bug
        /\ frames' = [frames EXCEPT ![k] = [frames[k] EXCEPT !.struct = TRUE]]
    BY DEF nlmsg_append
  <1> HIDE DEF n
  <1>3. BufferOK(m') /\ nlmsg_tail(m) <= nlmsg_tail(m')
    BY <1>1, <1>2, Before, RawOK
  <1>4. nlmsg_tail(m') \in Nat
    BY <1>3, TailFits DEF BufferOK
  <1>5. FrameSeq(frames)
    BY Before
  <1>6. frames = [i \in 1..k |-> frames[i]]
    BY <1>5, FramesType
  <1>7. \A i \in 1..k : /\ frames[i] = [type |-> frames[i].type,
                              at |-> frames[i].at, struct |-> frames[i].struct,
                              items |-> frames[i].items]
                        /\ frames[i].struct \in BOOLEAN
    BY <1>5 DEF FrameSeq
  <1> HIDE DEF k
  <1>8. /\ frames' = [i \in 1..k |-> frames'[i]]
        /\ frames'[k] = [frames[k] EXCEPT !.struct = TRUE]
        /\ \A i \in 1..k : i # k => frames'[i] = frames[i]
    BY <1>1, <1>2, <1>6
  <1>9. frames'[k] = [type |-> frames[k].type, at |-> frames[k].at,
                      struct |-> TRUE, items |-> frames[k].items]
    BY <1>1, <1>7, <1>8
  <1>10. \A i \in 1..k : /\ frames'[i] = [type |-> frames'[i].type,
                              at |-> frames'[i].at, struct |-> frames'[i].struct,
                              items |-> frames'[i].items]
                         /\ frames'[i].struct \in BOOLEAN
                         /\ frames'[i].type = frames[i].type
                         /\ frames'[i].at = frames[i].at
    BY <1>1, <1>7, <1>8, <1>9
  <1>11. FrameSeq(frames') /\ Len(frames') = k
    BY <1>1, <1>8, <1>10, FramesFrom
  <1>12. Stacked(frames', nlmsg_tail(m'))
    BY <1>3, <1>4, <1>10, <1>11, Before, InsideOnly DEF k
  <1> QED BY <1>2, <1>3, <1>11, <1>12, Before, After

LEMMA Put ==
    ASSUME IInv, NEW t \in AttrTypes, NEW n \in PayloadLens, nla_put(t, n)
    PROVE  IInv'
  <1> DEFINE item == Item(t, n, << >>)
  <1>1. n \in Nat /\ NLA_HDRLEN + n < U16
    BY MsgAssumption
  <1>2. /\ Fits(m, n) /\ m' = Attribute(m, t, n) /\ bug' = bug
        /\ frames' = PutInto(frames, item)
    BY DEF nla_put
  <1> HIDE DEF item
  <1>3. /\ BufferOK(m')
        /\ nlmsg_tail(m') >= nlmsg_tail(m) + NLA_HDRLEN
    BY <1>1, <1>2, Before, AttributeOK
  <1>4. nlmsg_tail(m') \in Nat
    BY <1>3, TailFits DEF BufferOK
  <1>5. nlmsg_tail(m) <= nlmsg_tail(m')
    BY <1>3, <1>4, Before DEF NLA_HDRLEN
  <1>6. /\ FrameSeq(frames') /\ Len(frames') = Len(frames)
        /\ \A i \in 1..Len(frames) : /\ frames'[i].type = frames[i].type
                                     /\ frames'[i].at = frames[i].at
    BY <1>2, Before, PutIntoOK
  <1>7. Stacked(frames', nlmsg_tail(m'))
    BY <1>4, <1>5, <1>6, Before, InsideOnly
  <1> QED BY <1>2, <1>3, <1>6, <1>7, Before, After

\* The new container starts at the old tail, above all others.
LEMMA NestStart ==
    ASSUME IInv, NEW t \in NestTypes, nla_nest_start(t)
    PROVE  IInv'
  <1> DEFINE k == Len(frames)
             tail == nlmsg_tail(m)
             new == Frame(t, tail)
  <1>1. /\ Fits(m, 0) /\ m' = Attribute(m, t, 0) /\ bug' = bug
        /\ frames' = Append(frames, new)
    BY DEF nla_nest_start
  <1>2. NLA_HDRLEN + 0 < U16
    BY MsgAssumption DEF NLA_HDRLEN
  <1>3. BufferOK(m') /\ nlmsg_tail(m') >= tail + NLA_HDRLEN
    BY <1>1, <1>2, Before, AttributeOK
  <1>4. nlmsg_tail(m') \in Nat /\ tail \in Nat /\ k \in Nat /\ k > 0
    BY <1>3, TailFits, Before DEF BufferOK
  <1>5. /\ new = [type |-> new.type, at |-> new.at, struct |-> new.struct,
                  items |-> new.items]
        /\ new.struct \in BOOLEAN /\ new.type = t /\ new.at = tail
    <2> DEFINE e == << >>
    <2>1. new = [type |-> t, at |-> tail, struct |-> FALSE, items |-> e]
      BY DEF Frame
    <2> HIDE DEF e, new
    <2> QED BY <2>1
  <1> HIDE DEF new
  <1>6. /\ frames' = [i \in 1..(k + 1) |-> frames'[i]]
        /\ frames'[k + 1] = new
        /\ \A i \in 1..k : frames'[i] = frames[i]
    <2> DEFINE S == {frames[i] : i \in 1..k} \cup {new}
    <2>1. frames \in [1..k -> S]
      <3>1. frames = [i \in 1..k |-> frames[i]]
        BY Before, FramesType
      <3> QED BY <3>1
    <2> HIDE DEF S, k
    <2>2. frames \in Seq(S) /\ Len(frames) = k
      BY <1>4, <2>1 DEF k
    <2>3. new \in S
      BY DEF S
    <2>4. frames' \in Seq(S) /\ Len(frames') = k + 1
      BY <1>1, <1>4, <2>2, <2>3
    <2>5. frames' = [i \in 1..(k + 1) |-> frames'[i]]
      BY <2>4
    <2> QED BY <1>1, <1>4, <2>2, <2>3, <2>5
  <1>7. \A i \in 1..k : /\ frames[i] = [type |-> frames[i].type,
                              at |-> frames[i].at, struct |-> frames[i].struct,
                              items |-> frames[i].items]
                        /\ frames[i].struct \in BOOLEAN
    BY Before DEF FrameSeq
  <1>8. Stacked(frames, tail)
    BY Before
  <1> HIDE DEF k
  <1>9. \A i \in 1..(k + 1) : i = k + 1 \/ i \in 1..k
    BY <1>4
  <1>10. \A i \in 1..(k + 1) :
           /\ frames'[i] = [type |-> frames'[i].type, at |-> frames'[i].at,
                 struct |-> frames'[i].struct, items |-> frames'[i].items]
           /\ frames'[i].struct \in BOOLEAN
    BY <1>5, <1>6, <1>7, <1>9
  <1>11. FrameSeq(frames') /\ Len(frames') = k + 1
    BY <1>4, <1>6, <1>10, FramesFrom
  <1>12. Stacked(frames', nlmsg_tail(m'))
    <2>0. tail % ALIGNTO = 0 /\ NLMSG_HDRLEN <= tail
      BY Before
    <2> HIDE DEF tail
    <2>1. Len(frames') > 0 /\ frames'[1].type = "message" /\ frames'[1].at = 0
      BY <1>4, <1>6, <1>8, <1>11 DEF Stacked, k
    <2>2. ASSUME NEW i \in 2..(k + 1)
          PROVE  /\ frames'[i].type \in NestTypes
                 /\ frames'[i].at \in Nat /\ frames'[i].at % ALIGNTO = 0
                 /\ NLMSG_HDRLEN <= frames'[i].at
                 /\ frames'[i].at + NLA_HDRLEN <= nlmsg_tail(m')
      <3>1. CASE i = k + 1
        BY <1>3, <1>4, <1>5, <1>6, <2>0, <3>1
      <3>2. CASE i \in 2..k
        <4>1. /\ frames[i].type \in NestTypes
              /\ frames[i].at \in Nat /\ frames[i].at % ALIGNTO = 0
              /\ NLMSG_HDRLEN <= frames[i].at
              /\ frames[i].at + NLA_HDRLEN <= tail
          BY <1>8, <3>2 DEF Stacked, k
        <4>2. frames'[i] = frames[i]
          BY <1>4, <1>6, <3>2
        <4> QED BY <1>3, <1>4, <4>1, <4>2 DEF NLA_HDRLEN
      <3> QED BY <1>4, <3>1, <3>2
    <2>3. ASSUME NEW i \in 2..(k + 1), NEW j \in 2..(k + 1), i < j
          PROVE  frames'[i].at + NLA_HDRLEN <= frames'[j].at
      <3>0. i \in 2..k /\ frames'[i] = frames[i]
        BY <1>4, <1>6, <2>3
      <3>1. CASE j = k + 1
        BY <1>5, <1>6, <1>8, <3>0, <3>1 DEF Stacked, k
      <3>2. CASE j \in 2..k
        BY <1>4, <1>6, <1>8, <2>3, <3>0, <3>2 DEF Stacked, k
      <3> QED BY <1>4, <3>1, <3>2
    <2> QED BY <1>11, <2>1, <2>2, <2>3 DEF Stacked
  <1> QED BY <1>1, <1>3, <1>11, <1>12, Before, After

LEMMA NestCancel ==
    ASSUME IInv, NEW i \in 2..Len(frames), nla_nest_cancel(i)
    PROVE  /\ IInv'
           /\ nlmsg_tail(m') = frames[i].at
           /\ \A p \in DOMAIN m.mem :
                 /\ p < frames[i].at => m'.mem[p] = m.mem[p]
                 /\ p \in frames[i].at..(nlmsg_tail(m) - 1) => m'.mem[p] = Zero
  <1> DEFINE at == frames[i].at
  <1>1. /\ m' = Cancel(m, at) /\ frames' = SubSeq(frames, 1, i - 1)
        /\ bug' = (bug \/ nlmsg_tail(m) < at)
    BY DEF nla_nest_cancel
  <1>2. /\ at \in Nat /\ at % ALIGNTO = 0 /\ NLMSG_HDRLEN <= at
        /\ at + NLA_HDRLEN <= nlmsg_tail(m)
    BY Before DEF Stacked
  <1>3. FrameSeq(frames') /\ Stacked(frames', at)
    BY <1>1, Before, TakeFrames
  <1> HIDE DEF at
  <1>4. /\ BufferOK(m') /\ nlmsg_tail(m') = at
        /\ \A p \in DOMAIN m.mem :
              /\ p < at => m'.mem[p] = m.mem[p]
              /\ p \in at..(nlmsg_tail(m) - 1) => m'.mem[p] = Zero
    BY <1>1, <1>2, Before, CancelOK
  <1>5. bug' = FALSE
    <2>1. ~(nlmsg_tail(m) < at) /\ bug = FALSE
      BY <1>2, Before DEF NLA_HDRLEN
    <2> QED BY <1>1, <2>1
  <1>6. IInv'
    BY <1>3, <1>4, <1>5, After
  <1> QED BY <1>4, <1>6 DEF at

\* The padding of the last attribute in a container reaches the tail, which
\* is in the buffer.
LEMMA CloseNest ==
    ASSUME IInv, Len(frames) > 1, NEW n, n = nlmsg_tail(m) - Open.at, n < U16,
           Close(n)
    PROVE  IInv'
  <1> DEFINE k == Len(frames)
             at == Open.at
             hd == Header(Open.type, n % U16)
             f == [m.mem EXCEPT ![at] = hd]
             m1 == [m EXCEPT !.mem[Open.at] = Header(Open.type, n % U16)]
             pad == nlmsg_tail(m) - m.len
             item == Item(Open.type, 0, Open.items)
  <1>1. k \in Nat /\ k \in 2..k /\ Open = frames[k]
    BY Before, StructNat
  <1>2. /\ Open.type \in NestTypes /\ at \in Nat /\ at % ALIGNTO = 0
        /\ NLMSG_HDRLEN <= at /\ at + NLA_HDRLEN <= nlmsg_tail(m)
    BY <1>1, Before DEF Stacked
  <1>3. hd \in Cells
    <2>1. n \in Nat /\ NLA_HDRLEN <= n /\ U16 \in Nat
      BY <1>2, Before, MsgAssumption DEF NLA_HDRLEN
    <2>2. n \in NLA_HDRLEN..(U16 - 1)
      BY <2>1 DEF NLA_HDRLEN
    <2>3. n % U16 = n
      BY <2>1
    <2> QED BY <1>2, <2>2, <2>3 DEF Cells
  <1>4. m1 = [m EXCEPT !.mem = f]
    OBVIOUS
  <1>5. f \in [Words(m.size) -> Cells]
    BY <1>3, Before
  <1>6. pad \in Nat /\ pad <= m.size /\ m.len + pad = nlmsg_tail(m)
    BY Before DEF ALIGNTO
  <1> HIDE DEF f, m1, hd
  <1>7. /\ m1.size = m.size /\ m1.len = m.len
        /\ m1 \in [size : Sizes, len : Nat, mem : [Words(m.size) -> Cells]]
    BY <1>4, <1>5, Before DEF BufferOK
  <1>8. CanReserve(m1, pad, 0)
    <2>1. Padded(pad, 0) = pad
      BY DEF Padded
    <2>2. pad + m.len <= m.size
      BY <1>6, Before
    <2> QED BY <1>6, <1>7, <2>1, <2>2 DEF CanReserve
  <1>9. /\ m' = [m1 EXCEPT !.len = @ + pad] /\ bug' = FALSE
        /\ frames' = PutInto(Outer, item)
    BY <1>8, Before DEF Close, m1
  <1> HIDE DEF pad, item, at
  <1>10. /\ m'.size = m.size /\ m'.len = nlmsg_tail(m)
         /\ m' \in [size : Sizes, len : Nat, mem : [Words(m.size) -> Cells]]
    BY <1>6, <1>7, <1>9, Before
  <1>11. nlmsg_tail(m') = nlmsg_tail(m)
    BY <1>10, Before, AlignLeast DEF nlmsg_tail, ALIGNTO
  <1>12. BufferOK(m')
    BY <1>10, <1>11, Before DEF BufferOK
  <1>13. /\ FrameSeq(Outer) /\ Len(Outer) = k - 1 /\ Stacked(Outer, at)
    BY <1>1, Before, TakeFrames DEF Outer, at
  <1>14. /\ FrameSeq(frames') /\ Len(frames') = Len(Outer)
         /\ \A i \in 1..Len(Outer) : /\ frames'[i].type = Outer[i].type
                                     /\ frames'[i].at = Outer[i].at
    <2>1. Len(Outer) > 0
      BY <1>1, <1>13
    <2> QED BY <1>9, <1>13, <2>1, PutIntoOK
  <1>15. at <= nlmsg_tail(m') /\ nlmsg_tail(m') \in Nat
    BY <1>2, <1>11, Before DEF NLA_HDRLEN
  <1>16. Stacked(frames', nlmsg_tail(m'))
    BY <1>2, <1>13, <1>14, <1>15, InsideOnly
  <1> QED BY <1>9, <1>12, <1>14, <1>16, After

LEMMA NestEnd ==
    ASSUME IInv, NEW keep \in BOOLEAN, nla_nest_end(keep)
    PROVE  IInv'
  <1> DEFINE n == nlmsg_tail(m) - Open.at
  <1>1. Len(frames) > 1 /\ Len(frames) \in 2..Len(frames)
    BY StructNat DEF nla_nest_end
  <1>2. CASE nla_nest_cancel(Len(frames))
    BY <1>1, <1>2, NestCancel
  <1>3. CASE Close(n) /\ ~(n >= U16)
    <2>1. n \in Int /\ U16 \in Nat
      <3>1. Open.at \in Nat
        BY <1>1, Before DEF Stacked, Open
      <3> QED BY <3>1, Before, MsgAssumption
    <2>2. n < U16
      BY <1>3, <2>1
    <2> QED BY <1>1, <1>3, <2>2, CloseNest
  <1> QED BY <1>2, <1>3 DEF nla_nest_end

LEMMA Stutter ==
    ASSUME IInv, UNCHANGED vars
    PROVE  IInv'
  BY DEF vars, IInv, BufferOK, FrameSeq, Stacked, nlmsg_tail

LEMMA StepIInv == IInv /\ [Next]_vars => IInv'
  <1> SUFFICES ASSUME IInv, [Next]_vars PROVE IInv'
    OBVIOUS
  <1>1. CASE \E s \in Sizes : nlmsg_alloc_size(s)
    BY <1>1, AllocSize
  <1>2. CASE \E s \in Sizes : nlmsg_expand(s)
    BY <1>2, Expand
  <1>3. CASE \E pad \in {0, ALIGNTO} : nlmsg_append(pad)
    BY <1>3, AppendStruct
  <1>4. CASE \E t \in AttrTypes, n \in PayloadLens : nla_put(t, n)
    BY <1>4, Put
  <1>5. CASE \E t \in NestTypes : nla_nest_start(t)
    BY <1>5, NestStart
  <1>6. CASE \E i \in 2..Len(frames) : nla_nest_cancel(i)
    BY <1>6, NestCancel
  <1>7. CASE \E keep \in BOOLEAN : nla_nest_end(keep)
    BY <1>7, NestEnd
  <1>8. CASE UNCHANGED vars
    BY <1>8, Stutter
  <1> QED BY <1>1, <1>2, <1>3, <1>4, <1>5, <1>6, <1>7, <1>8 DEF Next

-----------------------------------------------------------------------------
(* The reader.                                                             *)

LEMMA CellFacts ==
    ASSUME NEW c \in Cells
    PROVE  c.len \in Nat /\ (c.len >= NLA_HDRLEN => c.type \in AttrTypes \cup NestTypes)
  <1>1. U16 \in Nat
    BY MsgAssumption
  <1> QED BY <1>1 DEF Cells, Zero, Data, Header, NLA_HDRLEN

\* Too few bytes for a header.
LEMMA RoundSmall ==
    ASSUME NEW mem, NEW f, NEW rem \in Int, rem < NLA_HDRLEN, NEW at
    PROVE  Round(mem, f, rem, at) = << >>
  <1>1. ~(rem >= NLA_HDRLEN)
    BY DEF NLA_HDRLEN
  <1> QED BY <1>1 DEF Round, nla_ok

\* An attribute that the reader accepts.
LEMMA Accepted ==
    ASSUME NEW size, NEW mem \in [Words(size) -> Cells], NEW rem \in Int, NEW at \in Nat,
           at \in DOMAIN mem, nla_ok(mem, at, rem)
    PROVE  /\ mem[at] \in Cells /\ mem[at].len \in Nat
           /\ NLA_HDRLEN <= mem[at].len /\ mem[at].len <= rem
           /\ Align(mem[at].len) \in Nat /\ Align(mem[at].len) % ALIGNTO = 0
           /\ mem[at].len <= Align(mem[at].len)
           /\ rem - Align(mem[at].len) \in Int /\ rem - Align(mem[at].len) < rem
           /\ mem[at].type \in AttrTypes \cup NestTypes
           /\ mem[at].type \in NestTypes =>
                 LET skip == NLA_HDRLEN + Align(StructLen[mem[at].type])
                 IN  /\ skip \in Nat /\ skip % ALIGNTO = 0 /\ skip >= NLA_HDRLEN
                     /\ mem[at].len - skip \in Int /\ mem[at].len - skip < rem
  <1>1. PICK h : h = mem[at]
    OBVIOUS
  <1>2. h \in Cells /\ h.len >= NLA_HDRLEN /\ h.len <= rem
    BY <1>1 DEF nla_ok
  <1>3. h.len \in Nat /\ h.type \in AttrTypes \cup NestTypes
    BY <1>2, CellFacts
  <1>4. PICK l \in Nat : l = h.len
    BY <1>3
  <1>5. /\ Align(l) \in Nat /\ Align(l) % ALIGNTO = 0 /\ l <= Align(l)
    BY AlignUp
  <1>6. NLA_HDRLEN <= l /\ l <= rem /\ rem - Align(l) \in Int /\ rem - Align(l) < rem
    BY <1>2, <1>4, <1>5 DEF NLA_HDRLEN
  <1>7. ASSUME h.type \in NestTypes
        PROVE  LET skip == NLA_HDRLEN + Align(StructLen[h.type])
               IN  /\ skip \in Nat /\ skip % ALIGNTO = 0 /\ skip >= NLA_HDRLEN
                   /\ l - skip \in Int /\ l - skip < rem
    <2>1. PICK s \in Nat : s = StructLen[h.type]
      BY <1>7, MsgAssumption
    <2>2. Align(s) \in Nat /\ Align(s) % ALIGNTO = 0
      BY AlignUp
    <2>3. PICK a : a = Align(s)
      OBVIOUS
    <2>4. /\ NLA_HDRLEN + a \in Nat /\ (NLA_HDRLEN + a) % ALIGNTO = 0
          /\ NLA_HDRLEN + a >= NLA_HDRLEN
          /\ l - (NLA_HDRLEN + a) \in Int /\ l - (NLA_HDRLEN + a) < rem
      BY <1>6, <2>2, <2>3 DEF NLA_HDRLEN, ALIGNTO
    <2> QED BY <2>1, <2>3, <2>4
  <1> QED BY <1>1, <1>2, <1>3, <1>4, <1>5, <1>6, <1>7

\* A round depends on what is found in fewer bytes only.
LEMMA RoundFewer ==
    ASSUME NEW size, NEW mem \in [Words(size) -> Cells], NEW f, NEW g,
           NEW rem \in Int, NEW at \in Nat, \A r \in Int : r < rem => f[r] = g[r]
    PROVE  Round(mem, f, rem, at) = Round(mem, g, rem, at)
  <1>1. CASE rem >= NLA_HDRLEN /\ (at \notin DOMAIN mem \/ mem[at] = Data)
    BY <1>1 DEF Round
  <1>2. CASE /\ ~(rem >= NLA_HDRLEN /\ (at \notin DOMAIN mem \/ mem[at] = Data))
             /\ ~nla_ok(mem, at, rem)
    BY <1>2 DEF Round
  <1>3. CASE /\ ~(rem >= NLA_HDRLEN /\ (at \notin DOMAIN mem \/ mem[at] = Data))
             /\ nla_ok(mem, at, rem)
    <2>1. at \in DOMAIN mem
      BY <1>3 DEF nla_ok
    <2>2. PICK h : h = mem[at]
      OBVIOUS
    <2>3. PICK skip : skip = NLA_HDRLEN + Align(StructLen[h.type])
      OBVIOUS
    <2>4. f[rem - Align(h.len)] = g[rem - Align(h.len)]
      BY <1>3, <2>1, <2>2, Accepted
    <2>5. PICK x : x = f[h.len - skip][at + skip]
      OBVIOUS
    <2>6. PICK y : y = g[h.len - skip][at + skip]
      OBVIOUS
    <2>7. Found(mem, at, x) = Found(mem, at, y)
      <3>1. CASE h.type \in NestTypes
        <4>1. f[h.len - skip] = g[h.len - skip]
          BY <1>3, <2>1, <2>2, <2>3, <3>1, Accepted
        <4> QED BY <2>5, <2>6, <4>1
      <3>2. CASE h.type \notin NestTypes
        BY <2>2, <3>2 DEF Found
      <3> QED BY <3>1, <3>2
    <2>8. Round(mem, f, rem, at) =
             << Found(mem, at, x) >> \o f[rem - Align(h.len)][at + Align(h.len)]
      BY <1>3, <2>2, <2>3, <2>5 DEF Round
    <2>9. Round(mem, g, rem, at) =
             << Found(mem, at, y) >> \o g[rem - Align(h.len)][at + Align(h.len)]
      BY <1>3, <2>2, <2>3, <2>6 DEF Round
    <2> QED BY <2>4, <2>7, <2>8, <2>9
  <1> QED BY <1>1, <1>2, <1>3

\* A reader of fewer than n bytes.
Reader(mem, g, n) ==
    \A r \in Int : r < n => g[r] = [at \in Nat |-> Round(mem, g, r, at)]

LEMMA ReaderUnique ==
    ASSUME NEW size, NEW mem \in [Words(size) -> Cells], NEW f, NEW g,
           NEW n \in Nat, NEW k \in Nat, Reader(mem, f, n), Reader(mem, g, k),
           NEW r \in Int, r < n, r < k
    PROVE  f[r] = g[r]
  <1>1. PICK P : P = {x \in Nat : \A i \in Int : i < x /\ i < n /\ i < k => f[i] = g[i]}
    OBVIOUS
  <1>2. 0 \in P
    <2> SUFFICES ASSUME NEW i \in Int, i < 0, i < n, i < k PROVE f[i] = g[i]
      BY <1>1
    <2>1. \A at \in Nat : Round(mem, f, i, at) = << >> /\ Round(mem, g, i, at) = << >>
      <3>1. i < NLA_HDRLEN
        BY DEF NLA_HDRLEN
      <3> QED BY <3>1, RoundSmall
    <2>2. /\ f[i] = [at \in Nat |-> Round(mem, f, i, at)]
          /\ g[i] = [at \in Nat |-> Round(mem, g, i, at)]
      BY DEF Reader
    <2> QED BY <2>1, <2>2
  <1>3. ASSUME NEW x \in Nat, x \in P PROVE x + 1 \in P
    <2> SUFFICES ASSUME NEW i \in Int, i < x + 1, i < n, i < k PROVE f[i] = g[i]
      BY <1>1
    <2>1. \A j \in Int : j < i => f[j] = g[j]
      BY <1>1, <1>3
    <2>2. \A at \in Nat : Round(mem, f, i, at) = Round(mem, g, i, at)
      BY <2>1, RoundFewer
    <2>3. /\ f[i] = [at \in Nat |-> Round(mem, f, i, at)]
          /\ g[i] = [at \in Nat |-> Round(mem, g, i, at)]
      BY DEF Reader
    <2> QED BY <2>2, <2>3
  <1>4. Nat \subseteq P
    BY <1>2, <1>3, SetInduction
  <1> QED BY <1>1, <1>4

LEMMA ReaderExists ==
    ASSUME NEW size, NEW mem \in [Words(size) -> Cells], NEW n \in Nat
    PROVE  \E g : Reader(mem, g, n)
  <1>1. PICK P : P = {x \in Nat : \E g : Reader(mem, g, x)}
    OBVIOUS
  <1>2. 0 \in P
    <2>1. PICK e : e = << >>
      OBVIOUS
    <2>2. PICK g : g = [r \in Int |-> [at \in Nat |-> e]]
      OBVIOUS
    <2>3. ASSUME NEW r \in Int, r < 0 PROVE g[r] = [at \in Nat |-> Round(mem, g, r, at)]
      <3>1. r < NLA_HDRLEN
        BY <2>3 DEF NLA_HDRLEN
      <3>2. \A at \in Nat : Round(mem, g, r, at) = e
        BY <2>1, <3>1, RoundSmall
      <3> QED BY <2>2, <3>2
    <2>4. Reader(mem, g, 0)
      BY <2>3 DEF Reader
    <2> QED BY <1>1, <2>4
  <1>3. ASSUME NEW x \in Nat, x \in P PROVE x + 1 \in P
    <2>1. PICK g : Reader(mem, g, x)
      BY <1>1, <1>3
    <2>2. PICK h : h = [at \in Nat |-> Round(mem, g, x, at)]
      OBVIOUS
    <2>3. PICK f : f = [r \in Int |-> IF r < x THEN g[r] ELSE h]
      OBVIOUS
    <2>4. \A r \in Int : r < x => f[r] = g[r]
      BY <2>3
    <2>5. ASSUME NEW r \in Int, r < x + 1
          PROVE  f[r] = [at \in Nat |-> Round(mem, f, r, at)]
      <3>1. \A j \in Int : j < r => g[j] = f[j]
        BY <2>4, <2>5
      <3>2. \A at \in Nat : Round(mem, g, r, at) = Round(mem, f, r, at)
        BY <3>1, RoundFewer
      <3>3. f[r] = [at \in Nat |-> Round(mem, g, r, at)]
        <4>1. CASE r < x
          BY <2>1, <2>4, <4>1 DEF Reader
        <4>2. CASE r = x
          BY <2>2, <2>3, <4>2
        <4> QED BY <2>5, <4>1, <4>2
      <3> QED BY <3>2, <3>3
    <2>6. Reader(mem, f, x + 1)
      BY <2>5 DEF Reader
    <2> QED BY <1>1, <2>6
  <1>4. Nat \subseteq P
    BY <1>2, <1>3, SetInduction
  <1> QED BY <1>1, <1>4

\* The reader of attr.h is well defined: it finds in rem bytes what a round
\* finds.
LEMMA ReadRound ==
    ASSUME NEW size, NEW mem \in [Words(size) -> Cells], NEW rem \in Int, NEW at \in Nat
    PROVE  Items(mem)[rem][at] = Round(mem, Items(mem), rem, at)
  <1> DEFINE G(n) == CHOOSE g : Reader(mem, g, n)
             Solves(f) == f = [r \in Int |-> [a \in Nat |-> Round(mem, f, r, a)]]
  <1>1. \A n \in Nat : Reader(mem, G(n), n)
    BY ReaderExists
  <1> HIDE DEF G
  <1>2. PICK f : f = [r \in Int |-> IF r < 0 THEN G(0)[r] ELSE G(r + 1)[r]]
    OBVIOUS
  <1>3. ASSUME NEW r \in Int, NEW n \in Nat, r < n PROVE f[r] = G(n)[r]
    <2>1. CASE r < 0
      <3>1. f[r] = G(0)[r]
        BY <1>2, <2>1
      <3>2. Reader(mem, G(0), 0) /\ Reader(mem, G(n), n)
        BY <1>1
      <3> QED BY <1>3, <2>1, <3>1, <3>2, ReaderUnique
    <2>2. CASE ~(r < 0)
      <3>1. f[r] = G(r + 1)[r] /\ r + 1 \in Nat /\ r < r + 1
        BY <1>2, <2>2
      <3>2. Reader(mem, G(r + 1), r + 1) /\ Reader(mem, G(n), n)
        BY <1>1, <3>1
      <3> QED BY <1>3, <3>1, <3>2, ReaderUnique
    <2> QED BY <2>1, <2>2
  <1>4. ASSUME NEW r \in Int PROVE f[r] = [a \in Nat |-> Round(mem, f, r, a)]
    <2>1. PICK n \in Nat : r < n
      <3>1. CASE r < 0
        BY <3>1
      <3>2. CASE ~(r < 0)
        <4>1. r + 1 \in Nat /\ r < r + 1
          BY <3>2
        <4> QED BY <4>1
      <3> QED BY <3>1, <3>2
    <2>2. G(n)[r] = [a \in Nat |-> Round(mem, G(n), r, a)]
      BY <1>1, <2>1 DEF Reader
    <2>3. \A j \in Int : j < r => G(n)[j] = f[j]
      BY <1>3, <2>1
    <2>4. \A a \in Nat : Round(mem, G(n), r, a) = Round(mem, f, r, a)
      <3>1. PICK g : g = G(n)
        OBVIOUS
      <3> QED BY <2>3, <3>1, RoundFewer
    <2>5. f[r] = G(n)[r]
      BY <1>3, <2>1
    <2> QED BY <2>2, <2>4, <2>5
  <1>5. Solves(f)
    BY <1>2, <1>4
  <1>6. Items(mem) = CHOOSE i : Solves(i)
    BY DEF Items
  <1>7. Solves(Items(mem))
    BY <1>5, <1>6
  <1> QED BY <1>7

\* A sequence put behind an element.
LEMMA Cons ==
    ASSUME NEW S, NEW x \in S, NEW d \in Nat, NEW s \in [1..d -> S]
    PROVE  << x >> \o s = [j \in 1..(d + 1) |-> IF j = 1 THEN x ELSE s[j - 1]]
  <1>1. s \in Seq(S) /\ Len(s) = d
    OBVIOUS
  <1>2. PICK c : c = << x >> \o s
    OBVIOUS
  <1>3. PICK o : o = << x >>
    OBVIOUS
  <1>4. o \in Seq(S) /\ Len(o) = 1 /\ o[1] = x
    BY <1>3
  <1>5. c = o \o s
    BY <1>2, <1>3
  <1>6. /\ o \o s \in Seq(S) /\ Len(o \o s) = Len(o) + Len(s)
        /\ \A i \in 1..(Len(o) + Len(s)) :
              (o \o s)[i] = IF i <= Len(o) THEN o[i] ELSE s[i - Len(o)]
    BY ONLY <1>1, <1>4, ConcatProperties, Zenon
  <1>7. c \in Seq(S) /\ Len(c) = d + 1
        /\ \A j \in 1..(d + 1) : c[j] = IF j = 1 THEN x ELSE s[j - 1]
    <2>1. /\ c \in Seq(S) /\ Len(c) = 1 + d
          /\ \A i \in 1..(1 + d) : c[i] = IF i <= 1 THEN o[i] ELSE s[i - 1]
      BY ONLY <1>1, <1>4, <1>5, <1>6, Zenon
    <2> QED BY <1>4, <2>1
  <1>8. c = [j \in 1..(d + 1) |-> c[j]]
    BY <1>7
  <1> QED BY <1>2, <1>7, <1>8

\* What the reader finds at the header of an attribute.
ItemAt(mem, at) ==
    LET h    == mem[at]
        skip == NLA_HDRLEN + Align(StructLen[h.type])
    IN  Found(mem, at, Read(mem, at + skip, h.len - skip))

\* The bytes from..to-1 are attributes, one behind the other, which the
\* reader finds to be its.
TiledBy(mem, from, to, its, n, pos) ==
    /\ pos[1] = from /\ pos[n + 1] = to
    /\ \A j \in 1..n :
          /\ pos[j] \in DOMAIN mem /\ mem[pos[j]].len >= NLA_HDRLEN
          /\ pos[j + 1] = pos[j] + Align(mem[pos[j]].len)
    /\ its = [j \in 1..n |-> ItemAt(mem, pos[j])]

Tiled(mem, from, to, its) ==
    \E n \in Nat : \E pos \in [1..(n + 1) -> from..to] :
       TiledBy(mem, from, to, its, n, pos)

LEMMA TiledNone ==
    ASSUME NEW mem, NEW from \in Nat
    PROVE  Tiled(mem, from, from, << >>)
  <1>1. PICK pos : pos = [j \in 1..(0 + 1) |-> from]
    OBVIOUS
  <1>2. pos \in [1..(0 + 1) -> from..from] /\ pos[1] = from /\ pos[0 + 1] = from
    BY <1>1
  <1>3. << >> = [j \in 1..0 |-> ItemAt(mem, pos[j])]
    <2>1. 1..0 = {}
      OBVIOUS
    <2> QED BY <2>1
  <1>4. TiledBy(mem, from, from, << >>, 0, pos)
    BY <1>2, <1>3 DEF TiledBy
  <1> QED BY <1>2, <1>4 DEF Tiled

\* The reader finds the attributes and stops at their end.
LEMMA ReadTiled ==
    ASSUME NEW size, NEW mem \in [Words(size) -> Cells], NEW from \in Nat, NEW to \in Nat,
           NEW its, Tiled(mem, from, to, its)
    PROVE  Read(mem, from, to - from) = its
  <1>0. PICK n \in Nat :
           \E p \in [1..(n + 1) -> from..to] : TiledBy(mem, from, to, its, n, p)
    BY DEF Tiled
  <1>1. PICK pos \in [1..(n + 1) -> from..to] : TiledBy(mem, from, to, its, n, pos)
    BY <1>0
  <1>2. PICK S : its \in [1..n -> S]
    <2>1. PICK S : S = {its[j] : j \in 1..n}
      OBVIOUS
    <2>2. its = [j \in 1..n |-> its[j]]
      BY <1>1 DEF TiledBy
    <2>3. its \in [1..n -> S]
      BY <2>1, <2>2
    <2> QED BY <2>3
  <1> DEFINE Rest(d) == [j \in 1..d |-> its[n - d + j]]
             Good(d) == Items(mem)[to - pos[n + 1 - d]][pos[n + 1 - d]] = Rest(d)
  <1> HIDE DEF Good, Rest
  <1>3. PICK P : P = {d \in Nat : d <= n => Good(d)}
    OBVIOUS
  <1>4. 0 \in P
    <2>1. pos[n + 1 - 0] = to /\ to - to = 0
      BY <1>1 DEF TiledBy
    <2>2. Items(mem)[0][to] = Round(mem, Items(mem), 0, to)
      BY ReadRound
    <2>3. Round(mem, Items(mem), 0, to) = << >>
      <3>1. 0 < NLA_HDRLEN
        BY DEF NLA_HDRLEN
      <3> QED BY <3>1, RoundSmall
    <2>4. Rest(0) = << >>
      <3>1. 1..0 = {}
        OBVIOUS
      <3> QED BY <3>1 DEF Rest
    <2>5. Good(0)
      BY <2>1, <2>2, <2>3, <2>4 DEF Good
    <2> QED BY <1>3, <2>5
  <1>5. ASSUME NEW d \in Nat, d \in P PROVE d + 1 \in P
    <2> SUFFICES ASSUME d + 1 <= n PROVE Good(d + 1)
      BY <1>3
    <2>1. Good(d)
      BY <1>3, <1>5
    <2>2. PICK k \in Nat : k = n - d
      <3>1. n - d \in Nat
        OBVIOUS
      <3> QED BY <3>1
    <2>3. k \in 1..n /\ k + 1 \in 1..(n + 1) /\ k \in 1..(n + 1)
          /\ n + 1 - d = k + 1 /\ n + 1 - (d + 1) = k /\ n - (d + 1) = k - 1
      BY <2>2
    <2>4. PICK p \in Nat : p = pos[k] /\ p <= to
      BY <2>3
    <2>5. PICK q \in Nat : q = pos[k + 1] /\ q <= to
      BY <2>3
    <2>6. PICK h : h = mem[p]
      OBVIOUS
    <2>7. p \in DOMAIN mem /\ h.len >= NLA_HDRLEN /\ q = p + Align(h.len)
          /\ h \in Cells /\ its[k] = ItemAt(mem, p) /\ its[k] \in S
      BY <1>1, <1>2, <2>3, <2>4, <2>5, <2>6 DEF TiledBy
    <2>8. h.len \in Nat /\ Align(h.len) \in Nat /\ h.len <= Align(h.len)
      BY <2>7, CellFacts, AlignUp
    <2>9. PICK rem \in Int : rem = to - p
      OBVIOUS
    <2>10. nla_ok(mem, p, rem) /\ rem - Align(h.len) = to - q /\ h # Data
      <3>1. rem >= h.len
        BY <2>4, <2>5, <2>7, <2>8, <2>9
      <3>2. rem >= NLA_HDRLEN /\ rem - Align(h.len) = to - q
        <4>1. PICK a \in Nat : a = Align(h.len)
          BY <2>8
        <4>2. rem = to - p /\ q = p + a
          BY <2>7, <2>9, <4>1
        <4>3. rem - a = to - q
          BY ONLY <4>2, p \in Nat, q \in Nat, to \in Nat, a \in Nat, rem \in Int
        <4>4. rem >= NLA_HDRLEN
          BY <2>7, <2>8, <3>1 DEF NLA_HDRLEN
        <4> QED BY <4>1, <4>3, <4>4
      <3>3. h # Data
        BY <2>7 DEF Data, NLA_HDRLEN
      <3> QED BY <2>6, <2>7, <3>1, <3>2, <3>3 DEF nla_ok
    <2>11. Items(mem)[rem][p] = << its[k] >> \o Items(mem)[to - q][q]
      <3>1. PICK skip : skip = NLA_HDRLEN + Align(StructLen[h.type])
        OBVIOUS
      <3>2. Items(mem)[rem][p] = Round(mem, Items(mem), rem, p)
        BY ReadRound
      <3>3. Round(mem, Items(mem), rem, p) =
               << Found(mem, p, Items(mem)[h.len - skip][p + skip]) >>
               \o Items(mem)[rem - Align(h.len)][p + Align(h.len)]
        BY <2>6, <2>7, <2>10, <3>1 DEF Round
      <3>4. its[k] = Found(mem, p, Items(mem)[h.len - skip][p + skip])
        BY <2>6, <2>7, <3>1 DEF ItemAt, Read
      <3> QED BY <2>7, <2>10, <3>2, <3>3, <3>4
    <2>12. Items(mem)[to - q][q] = Rest(d)
      BY <2>1, <2>3, <2>5 DEF Good
    <2>13. PICK r : r = Rest(d)
      OBVIOUS
    <2>14. r \in [1..d -> S] /\ \A j \in 1..d : r[j] = its[k + j]
      <3>1. \A j \in 1..d : n - d + j = k + j /\ k + j \in 1..n
        BY <2>2
      <3> QED BY <1>2, <2>13, <3>1 DEF Rest
    <2>15. << its[k] >> \o r = [j \in 1..(d + 1) |-> IF j = 1 THEN its[k] ELSE r[j - 1]]
      BY <2>7, <2>14, Cons
    <2>16. Rest(d + 1) = [j \in 1..(d + 1) |-> its[(k - 1) + j]]
      BY <2>3 DEF Rest
    <2>17. ASSUME NEW j \in 1..(d + 1)
           PROVE  its[(k - 1) + j] = IF j = 1 THEN its[k] ELSE r[j - 1]
      <3>1. CASE j = 1
        <4>1. (k - 1) + 1 = k
          OBVIOUS
        <4> QED BY <3>1, <4>1
      <3>2. CASE j # 1
        <4>1. j - 1 \in 1..d /\ k + (j - 1) = (k - 1) + j
          BY <3>2
        <4> QED BY <2>14, <3>2, <4>1
      <3> QED BY <3>1, <3>2
    <2>18. Rest(d + 1) = << its[k] >> \o r
      BY <2>15, <2>16, <2>17
    <2>19. Items(mem)[rem][p] = Rest(d + 1)
      BY <2>11, <2>12, <2>13, <2>18
    <2> QED BY <2>3, <2>4, <2>9, <2>19 DEF Good
  <1>6. Nat \subseteq P
    BY <1>4, <1>5, SetInduction
  <1>7. Good(n)
    BY <1>3, <1>6
  <1>8. pos[n + 1 - n] = from
    BY <1>1 DEF TiledBy
  <1>9. Rest(n) = its
    <2>1. \A j \in 1..n : n - n + j = j
      OBVIOUS
    <2> QED BY <1>2, <2>1 DEF Rest
  <1> QED BY <1>7, <1>8, <1>9 DEF Read, Good

\* One more attribute.
LEMMA TiledMore ==
    ASSUME NEW mem, NEW from \in Nat, NEW at \in Nat, NEW its, Tiled(mem, from, at, its),
           at \in DOMAIN mem, mem[at].len \in Nat, mem[at].len >= NLA_HDRLEN,
           NEW to, to = at + Align(mem[at].len), NEW item, item = ItemAt(mem, at)
    PROVE  Tiled(mem, from, to, Append(its, item))
  <1>0. PICK n \in Nat :
           \E p \in [1..(n + 1) -> from..at] : TiledBy(mem, from, at, its, n, p)
    BY DEF Tiled
  <1>1. PICK pos \in [1..(n + 1) -> from..at] : TiledBy(mem, from, at, its, n, pos)
    BY <1>0
  <1>2. to \in Nat /\ at <= to
    <2>1. PICK a : a = Align(mem[at].len)
      OBVIOUS
    <2>2. a \in Nat
      BY <2>1, AlignUp
    <2> QED BY <2>1, <2>2
  <1>3. PICK qos : qos = [j \in 1..((n + 1) + 1) |-> IF j <= n + 1 THEN pos[j] ELSE to]
    OBVIOUS
  <1>4. /\ qos \in [1..((n + 1) + 1) -> from..to]
        /\ \A j \in 1..(n + 1) : qos[j] = pos[j]
        /\ qos[(n + 1) + 1] = to /\ qos[1] = from /\ qos[n + 1] = at
    <2>1. \A j \in 1..((n + 1) + 1) : j <= n + 1 => pos[j] \in from..to
      BY <1>1, <1>2
    <2>2. \A j \in 1..(n + 1) : qos[j] = pos[j]
      BY <1>3
    <2>3. qos[(n + 1) + 1] = to
      BY <1>3
    <2> QED BY <1>1, <1>2, <1>3, <2>1, <2>2, <2>3 DEF TiledBy
  <1>5. ASSUME NEW j \in 1..(n + 1)
        PROVE  /\ qos[j] \in DOMAIN mem /\ mem[qos[j]].len >= NLA_HDRLEN
               /\ qos[j + 1] = qos[j] + Align(mem[qos[j]].len)
    <2>1. CASE j \in 1..n
      <3>1. j + 1 \in 1..(n + 1)
        BY <2>1
      <3> QED BY <1>1, <1>4, <2>1, <3>1 DEF TiledBy
    <2>2. CASE j = n + 1
      BY <1>4, <2>2
    <2> QED BY <2>1, <2>2
  <1>6. Append(its, item) = [j \in 1..(n + 1) |-> ItemAt(mem, qos[j])]
    <2>1. \A j \in 1..n : its[j] = ItemAt(mem, qos[j])
      BY <1>1, <1>4 DEF TiledBy
    <2>2. its = [j \in 1..n |-> its[j]]
      BY <1>1 DEF TiledBy
    <2>3. PICK S : S = {its[j] : j \in 1..n} \cup {item}
      OBVIOUS
    <2>4. its \in [1..n -> S] /\ item \in S
      BY <2>2, <2>3
    <2>5. its \in Seq(S) /\ Len(its) = n
      BY <2>4
    <2>6. PICK a : a = Append(its, item)
      OBVIOUS
    <2>7. a \in Seq(S) /\ Len(a) = n + 1 /\ a[n + 1] = item /\ \A j \in 1..n : a[j] = its[j]
      BY <2>4, <2>5, <2>6
    <2>8. a = [j \in 1..(n + 1) |-> a[j]]
      BY <2>7
    <2>9. \A j \in 1..(n + 1) : a[j] = ItemAt(mem, qos[j])
      <3>1. \A j \in 1..(n + 1) : j \in 1..n \/ j = n + 1
        OBVIOUS
      <3> QED BY <1>4, <2>1, <2>7, <3>1
    <2> QED BY <2>6, <2>8, <2>9
  <1>7. TiledBy(mem, from, to, Append(its, item), n + 1, qos)
    BY <1>4, <1>5, <1>6 DEF TiledBy
  <1> QED BY <1>4, <1>7 DEF Tiled

\* The structure that a container starts with.
LEMMA SkipFacts ==
    ASSUME NEW t \in NestTypes, NEW skip, skip = NLA_HDRLEN + Align(StructLen[t])
    PROVE  skip \in Nat /\ skip % ALIGNTO = 0 /\ skip >= NLA_HDRLEN
  <1>1. PICK s \in Nat : s = StructLen[t]
    BY MsgAssumption
  <1>2. PICK a \in Nat : a = Align(s) /\ a % ALIGNTO = 0
    BY AlignUp
  <1>3. skip = NLA_HDRLEN + a
    BY <1>1, <1>2
  <1> QED BY <1>2, <1>3 DEF NLA_HDRLEN, ALIGNTO

\* Two buffers with the same contents between two offsets.
SameIn(mem1, size1, mem2, size2, lo, to) ==
    /\ size1 \in Nat /\ size2 \in Nat /\ to \in Nat /\ to <= size1 /\ to <= size2
    /\ mem1 \in [Words(size1) -> Cells] /\ mem2 \in [Words(size2) -> Cells]
    /\ lo \in Nat /\ NLMSG_HDRLEN <= lo
    /\ \A p \in Words(to) : lo <= p => mem1[p] = mem2[p]

LEMMA FoundSame ==
    ASSUME NEW mem1, NEW size1, NEW mem2, NEW size2, NEW lo \in Nat, NEW to \in Nat,
           SameIn(mem1, size1, mem2, size2, lo, to),
           NEW at \in Words(to), lo <= at, at + mem1[at].len <= to, NEW x
    PROVE  Found(mem1, at, x) = Found(mem2, at, x)
  <1>1. mem2[at] = mem1[at] /\ to \in Nat /\ to <= size1 /\ to <= size2
        /\ size1 \in Nat /\ size2 \in Nat
        /\ DOMAIN mem1 = Words(size1) /\ DOMAIN mem2 = Words(size2)
        /\ \A p \in Words(to) : lo <= p => mem1[p] = mem2[p]
        /\ lo \in Nat /\ NLMSG_HDRLEN <= lo
    BY DEF SameIn
  <1>2. at \in Nat /\ NLMSG_HDRLEN <= at
    BY <1>1 DEF Words, NLMSG_HDRLEN
  <1>3. mem1[at].len \in Nat
    <2>1. at \in Words(size1)
      BY <1>1 DEF Words
    <2>2. mem1[at] \in Cells
      BY <2>1 DEF SameIn
    <2> QED BY <2>2, CellFacts
  <1>4. PICK l \in Nat : l = mem1[at].len
    BY <1>3
  <1>5. \A p \in (at + 1)..(at + l - 1) :
           /\ lo <= p
           /\ p \in DOMAIN mem1 <=> p \in Words(to)
           /\ p \in DOMAIN mem2 <=> p \in Words(to)
    BY <1>1, <1>2, <1>4 DEF Words, NLMSG_HDRLEN
  <1>6. (\A p \in DOMAIN mem1 : p \in (at + 1)..(at + l - 1) => mem1[p] = Data)
        <=> (\A p \in DOMAIN mem2 : p \in (at + 1)..(at + l - 1) => mem2[p] = Data)
    BY <1>1, <1>5
  <1> QED BY <1>1, <1>4, <1>6 DEF Found

\* The reader looks at the bytes it reads only.
LEMMA ReadSame ==
    ASSUME NEW mem1, NEW size1, NEW mem2, NEW size2, NEW lo \in Nat, NEW to \in Nat,
           SameIn(mem1, size1, mem2, size2, lo, to),
           NEW rem \in Int, NEW at \in Nat, at % ALIGNTO = 0, lo <= at,
           at + rem <= to
    PROVE  Read(mem1, at, rem) = Read(mem2, at, rem)
  <1>0. /\ size1 \in Nat /\ size2 \in Nat /\ to \in Nat /\ to <= size1 /\ to <= size2
        /\ mem1 \in [Words(size1) -> Cells] /\ mem2 \in [Words(size2) -> Cells]
        /\ \A p \in Words(to) : lo <= p => mem1[p] = mem2[p]
        /\ lo \in Nat /\ NLMSG_HDRLEN <= lo
    BY DEF SameIn
  <1> DEFINE Good(r) == \A a \in Nat :
                           a % ALIGNTO = 0 /\ lo <= a /\ a + r <= to
                              => Items(mem1)[r][a] = Items(mem2)[r][a]
  <1> HIDE DEF Good
  <1>1. PICK P : P = {n \in Nat : \A r \in Int : r < n => Good(r)}
    OBVIOUS
  <1>2. ASSUME NEW r \in Int, r < NLA_HDRLEN PROVE Good(r)
    <2> SUFFICES ASSUME NEW a \in Nat PROVE Items(mem1)[r][a] = Items(mem2)[r][a]
      BY DEF Good
    <2>1. /\ Items(mem1)[r][a] = Round(mem1, Items(mem1), r, a)
          /\ Items(mem2)[r][a] = Round(mem2, Items(mem2), r, a)
      BY <1>0, ReadRound
    <2> QED BY <1>2, <2>1, RoundSmall
  <1>3. 0 \in P
    <2>1. \A r \in Int : r < 0 => r < NLA_HDRLEN
      BY DEF NLA_HDRLEN
    <2> QED BY <1>1, <1>2, <2>1
  <1>4. ASSUME NEW r \in Int, r >= NLA_HDRLEN, \A i \in Int : i < r => Good(i)
        PROVE  Good(r)
    <2> SUFFICES ASSUME NEW a \in Nat, a % ALIGNTO = 0, lo <= a, a + r <= to
                 PROVE  Items(mem1)[r][a] = Items(mem2)[r][a]
      BY DEF Good
    <2>1. /\ Items(mem1)[r][a] = Round(mem1, Items(mem1), r, a)
          /\ Items(mem2)[r][a] = Round(mem2, Items(mem2), r, a)
      BY <1>0, ReadRound
    <2>2. a \in Words(to) /\ a \in Words(size1) /\ a \in Words(size2)
      BY <1>0, <1>4 DEF Words, NLA_HDRLEN, NLMSG_HDRLEN
    <2>3. PICK h : h = mem1[a]
      OBVIOUS
    <2>4. h = mem2[a] /\ a \in DOMAIN mem1 /\ a \in DOMAIN mem2
      BY <1>0, <2>2, <2>3
    <2>5. CASE h = Data
      BY <1>4, <2>1, <2>3, <2>4, <2>5 DEF Round
    <2>6. CASE h # Data /\ ~nla_ok(mem1, a, r)
      <3>1. ~nla_ok(mem2, a, r)
        BY <2>3, <2>4, <2>6 DEF nla_ok
      <3> QED BY <2>1, <2>3, <2>4, <2>6, <3>1 DEF Round
    <2>7. CASE h # Data /\ nla_ok(mem1, a, r)
      <3>1. nla_ok(mem2, a, r)
        BY <2>3, <2>4, <2>7 DEF nla_ok
      <3>2. PICK skip : skip = NLA_HDRLEN + Align(StructLen[h.type])
        OBVIOUS
      <3>3. /\ h.len \in Nat /\ NLA_HDRLEN <= h.len /\ h.len <= r
            /\ Align(h.len) \in Nat /\ Align(h.len) % ALIGNTO = 0 /\ h.len <= Align(h.len)
            /\ r - Align(h.len) \in Int /\ r - Align(h.len) < r
            /\ h.type \in NestTypes => /\ skip \in Nat /\ skip % ALIGNTO = 0
                                       /\ h.len - skip \in Int /\ h.len - skip < r
        <4>1. h \in Cells
          BY <1>0, <2>2, <2>3
        <4>2. PICK l \in Nat : l = h.len
          BY <4>1, CellFacts
        <4>3. PICK al \in Nat : al = Align(l) /\ al % ALIGNTO = 0 /\ l <= al
          BY AlignUp
        <4>4. NLA_HDRLEN <= l /\ l <= r
          BY <2>3, <2>7, <4>2 DEF nla_ok, NLA_HDRLEN
        <4>5. r - al \in Int /\ r - al < r
          BY <4>3, <4>4 DEF NLA_HDRLEN
        <4>6. ASSUME h.type \in NestTypes
              PROVE  /\ skip \in Nat /\ skip % ALIGNTO = 0
                     /\ l - skip \in Int /\ l - skip < r
          <5>1. skip \in Nat /\ skip % ALIGNTO = 0 /\ skip >= NLA_HDRLEN
            BY <3>2, <4>6, SkipFacts
          <5> QED BY <4>4, <5>1 DEF NLA_HDRLEN
        <4> QED BY <4>2, <4>3, <4>4, <4>5, <4>6
      <3>4. PICK l \in Nat : l = h.len
        BY <3>3
      <3>5. PICK al \in Nat : al = Align(h.len)
        BY <3>3
      <3>6. Items(mem1)[r - al][a + al] = Items(mem2)[r - al][a + al]
        <4>1. /\ r - al \in Int /\ r - al < r /\ a + al \in Nat
              /\ lo <= a + al
          BY <1>0, <3>3, <3>5
        <4>2. (a + al) % ALIGNTO = 0
          BY <3>3, <3>5 DEF ALIGNTO
        <4>3. (a + al) + (r - al) <= to
          BY <1>0
        <4>4. Good(r - al)
          BY <1>4, <4>1
        <4> QED BY <4>1, <4>2, <4>3, <4>4 DEF Good
      <3>7. PICK x : x = Items(mem1)[h.len - skip][a + skip]
        OBVIOUS
      <3>8. PICK y : y = Items(mem2)[h.len - skip][a + skip]
        OBVIOUS
      <3>9. h.type \in NestTypes => x = y
        <4> SUFFICES ASSUME h.type \in NestTypes PROVE x = y
          OBVIOUS
        <4>1. skip \in Nat /\ skip % ALIGNTO = 0 /\ l - skip \in Int /\ l - skip < r /\ l <= r
          BY <3>3, <3>4
        <4>2. a + skip \in Nat /\ lo <= a + skip
          BY <1>0, <4>1
        <4>3. (a + skip) % ALIGNTO = 0
          BY <4>1 DEF ALIGNTO
        <4>4. (a + skip) + (l - skip) <= to
          BY <1>0, <4>1
        <4>5. Good(l - skip)
          BY <1>4, <4>1
        <4> QED BY <3>4, <3>7, <3>8, <4>2, <4>3, <4>4, <4>5 DEF Good
      <3>10. Found(mem1, a, x) = Found(mem2, a, y)
        <4>1. a + mem1[a].len <= to
          <5>1. a + l <= to
            BY <1>0, <3>3, <3>4
          <5> QED BY <2>3, <3>4, <5>1
        <4>2. Found(mem1, a, x) = Found(mem2, a, x)
          BY <2>2, <4>1, FoundSame
        <4>3. Found(mem2, a, x) = Found(mem2, a, y)
          <5>1. CASE h.type \in NestTypes
            BY <3>9, <5>1
          <5>2. CASE h.type \notin NestTypes
            BY <2>4, <5>2 DEF Found
          <5> QED BY <5>1, <5>2
        <4> QED BY <4>2, <4>3
      <3>11. Round(mem1, Items(mem1), r, a) =
                << Found(mem1, a, x) >> \o Items(mem1)[r - al][a + al]
        BY <2>3, <2>4, <2>7, <3>2, <3>5, <3>7 DEF Round
      <3>12. Round(mem2, Items(mem2), r, a) =
                << Found(mem2, a, y) >> \o Items(mem2)[r - al][a + al]
        BY <2>3, <2>4, <2>7, <3>1, <3>2, <3>5, <3>8 DEF Round
      <3> QED BY <2>1, <3>6, <3>10, <3>11, <3>12
    <2> QED BY <2>5, <2>6, <2>7
  <1>5. ASSUME NEW n \in Nat, n \in P PROVE n + 1 \in P
    <2> SUFFICES ASSUME NEW r \in Int, r < n + 1 PROVE Good(r)
      BY <1>1
    <2>1. \A i \in Int : i < r => Good(i)
      BY <1>1, <1>5
    <2>2. r < NLA_HDRLEN \/ r >= NLA_HDRLEN
      BY DEF NLA_HDRLEN
    <2> QED BY <1>2, <1>4, <2>1, <2>2
  <1>6. Nat \subseteq P
    BY <1>3, <1>5, SetInduction
  <1>7. Good(rem)
    <2>1. CASE rem < NLA_HDRLEN
      BY <1>2, <2>1
    <2>2. CASE ~(rem < NLA_HDRLEN)
      <3>1. rem + 1 \in Nat /\ rem < rem + 1
        BY <2>2 DEF NLA_HDRLEN
      <3> QED BY <1>1, <1>6, <3>1
    <2> QED BY <2>1, <2>2
  <1> QED BY <1>7 DEF Good, Read

LEMMA TiledSame ==
    ASSUME NEW mem1, NEW size1, NEW mem2, NEW size2, NEW lo \in Nat, NEW to \in Nat,
           SameIn(mem1, size1, mem2, size2, lo, to),
           NEW from \in Nat, lo <= from, NEW end \in Nat, end <= to, NEW its,
           Tiled(mem1, from, end, its)
    PROVE  Tiled(mem2, from, end, its)
  <1>0. /\ size1 \in Nat /\ size2 \in Nat /\ to \in Nat /\ to <= size1 /\ to <= size2
        /\ mem1 \in [Words(size1) -> Cells] /\ mem2 \in [Words(size2) -> Cells]
        /\ \A p \in Words(to) : lo <= p => mem1[p] = mem2[p]
        /\ lo \in Nat /\ NLMSG_HDRLEN <= lo
    BY DEF SameIn
  <1>1. PICK n \in Nat :
           \E p \in [1..(n + 1) -> from..end] : TiledBy(mem1, from, end, its, n, p)
    BY DEF Tiled
  <1>2. PICK pos \in [1..(n + 1) -> from..end] : TiledBy(mem1, from, end, its, n, pos)
    BY <1>1
  <1>3. ASSUME NEW j \in 1..n
        PROVE  /\ pos[j] \in DOMAIN mem2 /\ mem2[pos[j]] = mem1[pos[j]]
               /\ ItemAt(mem2, pos[j]) = ItemAt(mem1, pos[j])
    <2>1. PICK a : a = pos[j]
      OBVIOUS
    <2>2. PICK h : h = mem1[a]
      OBVIOUS
    <2>3. /\ a \in Words(size1) /\ h \in Cells /\ h.len >= NLA_HDRLEN
          /\ pos[j + 1] = a + Align(h.len)
      BY <1>0, <1>2, <2>1, <2>2 DEF TiledBy
    <2>4. a \in Nat /\ lo <= a /\ NLMSG_HDRLEN <= a /\ a % ALIGNTO = 0
      <3>1. a \in from..end
        BY <1>2, <2>1
      <3> QED BY <1>0, <2>3, <3>1 DEF Words, NLMSG_HDRLEN
    <2>5. h.len \in Nat
      BY <2>3, CellFacts
    <2>6. PICK l \in Nat : l = h.len
      BY <2>5
    <2>7. PICK al \in Nat : al = Align(h.len) /\ l <= al
      BY <2>6, AlignUp
    <2>8. a + al <= end
      <3>1. j + 1 \in 1..(n + 1)
        OBVIOUS
      <3>2. pos[j + 1] \in from..end
        BY <3>1
      <3> QED BY <2>3, <2>7, <3>2
    <2>9. a + l <= to /\ l >= 4 /\ a < to
      <3>1. a + l <= to
        BY <1>0, <2>4, <2>7, <2>8
      <3>2. l >= 4
        BY <2>3, <2>6 DEF NLA_HDRLEN
      <3> QED BY <1>0, <2>4, <3>1, <3>2
    <2>10. a \in Words(to) /\ a \in Words(size2)
      BY <1>0, <2>4, <2>9 DEF Words, NLMSG_HDRLEN
    <2>11. a \in DOMAIN mem2 /\ mem2[a] = h
      BY <1>0, <2>2, <2>4, <2>10
    <2>12. PICK skip : skip = NLA_HDRLEN + Align(StructLen[h.type])
      OBVIOUS
    <2>13. PICK x : x = Read(mem1, a + skip, h.len - skip)
      OBVIOUS
    <2>14. PICK y : y = Read(mem2, a + skip, h.len - skip)
      OBVIOUS
    <2>15. Found(mem1, a, x) = Found(mem2, a, x)
      BY <2>2, <2>4, <2>6, <2>9, <2>10, FoundSame
    <2>16. Found(mem2, a, x) = Found(mem2, a, y)
      <3>1. CASE h.type \in NestTypes
        <4>1. nla_ok(mem1, a, l)
          BY <2>2, <2>3, <2>6, <2>9 DEF nla_ok, NLA_HDRLEN
        <4>2. skip \in Nat /\ skip % ALIGNTO = 0 /\ l - skip \in Int
          BY <2>12, <3>1, SkipFacts
        <4>3. a + skip \in Nat /\ lo <= a + skip
              /\ (a + skip) + (l - skip) <= to
          BY <1>0, <2>4, <2>9, <4>2 DEF NLMSG_HDRLEN
        <4>4. (a + skip) % ALIGNTO = 0
          BY <2>4, <4>2 DEF ALIGNTO
        <4>5. x = y
          <5>1. PICK r \in Int : r = l - skip
            BY <4>2
          <5>2. PICK b \in Nat : b = a + skip
            BY <4>3
          <5>3. b % ALIGNTO = 0 /\ lo <= b /\ b + r <= to
            BY <4>3, <4>4, <5>1, <5>2
          <5>4. Read(mem1, b, r) = Read(mem2, b, r)
            BY <5>3, ReadSame
          <5> QED BY <2>6, <2>13, <2>14, <5>1, <5>2, <5>4
        <4> QED BY <4>5
      <3>2. CASE h.type \notin NestTypes
        BY <2>11, <3>2 DEF Found
      <3> QED BY <3>1, <3>2
    <2>17. ItemAt(mem1, a) = Found(mem1, a, x)
      BY <2>2, <2>12, <2>13 DEF ItemAt
    <2>18. ItemAt(mem2, a) = Found(mem2, a, y)
      BY <2>11, <2>12, <2>14 DEF ItemAt
    <2> QED BY <2>1, <2>2, <2>11, <2>15, <2>16, <2>17, <2>18
  <1>4. its = [j \in 1..n |-> ItemAt(mem2, pos[j])]
    <2>1. its = [j \in 1..n |-> ItemAt(mem1, pos[j])]
      BY <1>2 DEF TiledBy
    <2> QED BY <1>3, <2>1
  <1>5. TiledBy(mem2, from, end, its, n, pos)
    <2>1. /\ pos[1] = from /\ pos[n + 1] = end
          /\ \A j \in 1..n : /\ mem1[pos[j]].len >= NLA_HDRLEN
                             /\ pos[j + 1] = pos[j] + Align(mem1[pos[j]].len)
      BY <1>2 DEF TiledBy
    <2> QED BY <1>3, <1>4, <2>1 DEF TiledBy
  <1> QED BY <1>5 DEF Tiled

-----------------------------------------------------------------------------
(* What the buffer holds between the actions.                              *)

\* Where the contents of a frame begin, and where its attributes do.
Base(f) == IF f.type = "message" THEN NLMSG_HDRLEN ELSE f.at + NLA_HDRLEN
Start(f) == Base(f) + Align(StructOf(f))

\* The structure of a frame, if it has one, has been appended.
Began(f) == StructOf(f) > 0 => f.struct

\* The attributes of a frame end where the next open container is.
EndOf(fs, i, tail) == IF i = Len(fs) THEN tail ELSE fs[i + 1].at

\* The attributes put into each frame are in the buffer.
Contents(fs, msg) ==
    \A i \in 1..Len(fs) :
       IF Began(fs[i])
       THEN Tiled(msg.mem, Start(fs[i]), EndOf(fs, i, nlmsg_tail(msg)), fs[i].items)
       ELSE i = Len(fs) /\ msg.len = Base(fs[i]) /\ fs[i].items = << >>

RInv == IInv /\ Contents(frames, m)

LEMMA RAfter ==
    ASSUME IInv', Contents(frames', m')
    PROVE  RInv'
  BY DEF RInv

LEMMA TiledOrder ==
    ASSUME NEW mem, NEW from \in Nat, NEW to \in Nat, NEW its, Tiled(mem, from, to, its)
    PROVE  from <= to
  <1>0. PICK n \in Nat :
           \E p \in [1..(n + 1) -> from..to] : TiledBy(mem, from, to, its, n, p)
    BY DEF Tiled
  <1>1. PICK pos \in [1..(n + 1) -> from..to] : TiledBy(mem, from, to, its, n, pos)
    BY <1>0
  <1>2. 1 \in 1..(n + 1)
    OBVIOUS
  <1>3. pos[1] \in from..to /\ pos[1] = from
    BY <1>1, <1>2 DEF TiledBy
  <1> QED BY <1>3

\* A multiple stays where it is, and moves the rounding with it.
LEMMA AlignMultiple ==
    ASSUME NEW b \in Nat, b % ALIGNTO = 0, NEW n \in Nat
    PROVE  Align(b) = b /\ Align(b + n) = b + Align(n)
  BY DEF Align, ALIGNTO

LEMMA AlignSum ==
    ASSUME NEW a \in Nat, NEW b \in Nat, a % ALIGNTO = 0, b % ALIGNTO = 0
    PROVE  (a + b) % ALIGNTO = 0
  BY DEF ALIGNTO

LEMMA AlignDifference ==
    ASSUME NEW a \in Nat, NEW b \in Nat, NEW d \in Nat, a % ALIGNTO = 0, b % ALIGNTO = 0,
           a + d = b
    PROVE  d % ALIGNTO = 0
  BY DEF ALIGNTO

LEMMA NoOverflow ==
    ASSUME NEW u \in Nat, NEW x \in Nat, x < u
    PROVE  x % u = x
  OBVIOUS

\* Where the frames begin and end.
LEMMA FrameBounds ==
    ASSUME NEW fs, NEW tail \in Nat, tail % ALIGNTO = 0, FrameSeq(fs), Stacked(fs, tail),
           NLMSG_HDRLEN <= tail, NEW i \in 1..Len(fs)
    PROVE  /\ StructOf(fs[i]) \in Nat
           /\ Base(fs[i]) \in Nat /\ Base(fs[i]) % ALIGNTO = 0
           /\ NLMSG_HDRLEN <= Base(fs[i]) /\ Base(fs[i]) <= tail
           /\ Start(fs[i]) \in Nat /\ Start(fs[i]) % ALIGNTO = 0
           /\ Base(fs[i]) <= Start(fs[i])
           /\ EndOf(fs, i, tail) \in Nat /\ EndOf(fs, i, tail) % ALIGNTO = 0
           /\ EndOf(fs, i, tail) <= tail
           /\ \A j \in 2..Len(fs) : i < j => EndOf(fs, i, tail) <= fs[j].at
  <1>1. Len(fs) \in Nat
    BY FramesType
  <1>2. /\ StructOf(fs[i]) \in Nat
        /\ Base(fs[i]) \in Nat /\ Base(fs[i]) % ALIGNTO = 0
        /\ NLMSG_HDRLEN <= Base(fs[i]) /\ Base(fs[i]) <= tail
    <2>1. CASE i = 1
      <3>1. fs[i].type = "message"
        BY <2>1 DEF Stacked
      <3> QED BY <3>1, MsgAssumption DEF StructOf, Base, NLMSG_HDRLEN, ALIGNTO
    <2>2. CASE i # 1
      <3>1. i \in 2..Len(fs)
        BY <1>1, <2>2
      <3>2. PICK at \in Nat : /\ at = fs[i].at /\ at % ALIGNTO = 0 /\ NLMSG_HDRLEN <= at
                              /\ at + NLA_HDRLEN <= tail
        BY <3>1 DEF Stacked
      <3>3. fs[i].type \in NestTypes /\ fs[i].type # "message"
        BY <3>1, MsgAssumption DEF Stacked
      <3>4. StructOf(fs[i]) \in Nat
        BY <3>3, MsgAssumption DEF StructOf
      <3>5. Base(fs[i]) = at + NLA_HDRLEN
        BY <3>2, <3>3 DEF Base
      <3>6. /\ at + NLA_HDRLEN \in Nat /\ (at + NLA_HDRLEN) % ALIGNTO = 0
            /\ NLMSG_HDRLEN <= at + NLA_HDRLEN
        BY <3>2 DEF NLA_HDRLEN, ALIGNTO, NLMSG_HDRLEN
      <3> QED BY <3>2, <3>4, <3>5, <3>6
    <2> QED BY <2>1, <2>2
  <1>3. /\ Start(fs[i]) \in Nat /\ Start(fs[i]) % ALIGNTO = 0
        /\ Base(fs[i]) <= Start(fs[i])
    <2>1. PICK s \in Nat : s = StructOf(fs[i])
      BY <1>2
    <2>2. PICK b \in Nat : b = Base(fs[i]) /\ b % ALIGNTO = 0
      BY <1>2
    <2>3. PICK a \in Nat : a = Align(s) /\ a % ALIGNTO = 0
      BY AlignUp
    <2>4. Start(fs[i]) = b + a
      BY <2>1, <2>2, <2>3 DEF Start
    <2>5. (b + a) % ALIGNTO = 0
      BY <2>2, <2>3, AlignSum
    <2> QED BY <2>2, <2>4, <2>5
  <1>4. /\ EndOf(fs, i, tail) \in Nat /\ EndOf(fs, i, tail) % ALIGNTO = 0
        /\ EndOf(fs, i, tail) <= tail
        /\ \A j \in 2..Len(fs) : i < j => EndOf(fs, i, tail) <= fs[j].at
    <2>1. CASE i = Len(fs)
      BY <1>1, <2>1 DEF EndOf
    <2>2. CASE i # Len(fs)
      <3>1. i + 1 \in 2..Len(fs)
        BY <1>1, <2>2
      <3>2. EndOf(fs, i, tail) = fs[i + 1].at
        BY <2>2 DEF EndOf
      <3>3. PICK at \in Nat : /\ at = fs[i + 1].at /\ at % ALIGNTO = 0
                              /\ at + NLA_HDRLEN <= tail
        BY <3>1 DEF Stacked
      <3>4. ASSUME NEW j \in 2..Len(fs), i < j PROVE at <= fs[j].at
        <4>1. CASE j = i + 1
          BY <3>3, <4>1
        <4>2. CASE j # i + 1
          <5>1. i + 1 < j
            BY <3>4, <4>2
          <5>2. fs[i + 1].at + NLA_HDRLEN <= fs[j].at /\ fs[j].at \in Nat
            BY <3>1, <5>1 DEF Stacked
          <5> QED BY <3>3, <5>2 DEF NLA_HDRLEN
        <4> QED BY <4>1, <4>2
      <3> QED BY <3>2, <3>3, <3>4 DEF NLA_HDRLEN
    <2> QED BY <2>1, <2>2
  <1> QED BY <1>2, <1>3, <1>4

\* What is in a frame stays there as long as the memory up to its end does.
LEMMA FrameKept ==
    ASSUME NEW fs, NEW msg, NEW msg2, BufferOK(msg), BufferOK(msg2), FrameSeq(fs),
           Stacked(fs, nlmsg_tail(msg)), Contents(fs, msg), NEW i \in 1..Len(fs),
           Began(fs[i]), NEW to \in Nat, EndOf(fs, i, nlmsg_tail(msg)) <= to,
           to <= msg.size, to <= msg2.size,
           \A p \in Words(to) : msg2.mem[p] = msg.mem[p]
    PROVE  Tiled(msg2.mem, Start(fs[i]), EndOf(fs, i, nlmsg_tail(msg)), fs[i].items)
  <1>1. /\ msg.size \in Nat /\ msg2.size \in Nat
        /\ nlmsg_tail(msg) \in Nat /\ nlmsg_tail(msg) % ALIGNTO = 0
        /\ NLMSG_HDRLEN <= nlmsg_tail(msg)
        /\ msg.mem \in [Words(msg.size) -> Cells] /\ msg2.mem \in [Words(msg2.size) -> Cells]
    <2>1. nlmsg_tail(msg) >= NLMSG_HDRLEN
      BY DEF BufferOK
    <2> QED BY <2>1, TailFits DEF BufferOK, NLMSG_HDRLEN
  <1>2. PICK tail \in Nat : tail = nlmsg_tail(msg)
    BY <1>1
  <1>3. PICK end \in Nat : end = EndOf(fs, i, nlmsg_tail(msg))
    BY <1>1, FrameBounds
  <1>4. PICK from \in Nat : from = Start(fs[i]) /\ NLMSG_HDRLEN <= from
    <2>1. /\ Start(fs[i]) \in Nat /\ Base(fs[i]) \in Nat
          /\ NLMSG_HDRLEN <= Base(fs[i]) /\ Base(fs[i]) <= Start(fs[i])
      BY <1>1, FrameBounds
    <2> QED BY <2>1 DEF NLMSG_HDRLEN
  <1>5. Tiled(msg.mem, from, end, fs[i].items)
    BY <1>3, <1>4 DEF Contents
  <1>6. PICK lo \in Nat : lo = NLMSG_HDRLEN
    BY DEF NLMSG_HDRLEN
  <1>7. SameIn(msg.mem, msg.size, msg2.mem, msg2.size, lo, to)
    BY <1>1, <1>6 DEF SameIn, NLMSG_HDRLEN
  <1>8. Tiled(msg2.mem, from, end, fs[i].items)
    BY <1>3, <1>4, <1>5, <1>6, <1>7, TiledSame
  <1> QED BY <1>3, <1>4, <1>8

\* Only the innermost frame can lack its structure.
LEMMA OuterBegan ==
    ASSUME NEW fs, NEW msg, Contents(fs, msg), NEW i \in 1..Len(fs), i # Len(fs)
    PROVE  Began(fs[i])
  BY DEF Contents

-----------------------------------------------------------------------------
(* The memory after an operation.                                          *)

LEMMA AlignedBelow ==
    ASSUME NEW p \in Nat, NEW b \in Nat, p % ALIGNTO = 0, b % ALIGNTO = 0, p < b
    PROVE  p + ALIGNTO <= b
  BY DEF ALIGNTO

\* An attribute: what is below the tail is untouched, its header is at the
\* tail and its data behind.
LEMMA AttributeMem ==
    ASSUME NEW msg, BufferOK(msg), NEW t \in AttrTypes \cup NestTypes,
           NEW n \in Nat, NLA_HDRLEN + n < U16, Fits(msg, n),
           NEW at \in Nat, at = nlmsg_tail(msg), NEW a, a = Attribute(msg, t, n)
    PROVE  /\ at % ALIGNTO = 0 /\ NLMSG_HDRLEN <= at /\ at <= msg.size /\ at \in Words(msg.size)
           /\ a.size = msg.size
           /\ a.len = at + Align(NLA_HDRLEN + n) /\ nlmsg_tail(a) = a.len
           /\ a.mem[at] = Header(t, NLA_HDRLEN + n)
           /\ \A p \in Words(at) : a.mem[p] = msg.mem[p]
           /\ \A p \in Words(msg.size) :
                 p \in (at + 1)..(at + NLA_HDRLEN + n - 1) => a.mem[p] = Data
  <1> DEFINE mem1 == Fill(msg, at + NLA_HDRLEN, at + nla_attr_size(n), Data)
             hd == Header(t, nla_attr_size(n) % U16)
  <1>1. /\ msg.size \in Nat /\ at % ALIGNTO = 0 /\ NLMSG_HDRLEN <= at
        /\ msg.mem \in [Words(msg.size) -> Cells]
    <2>1. nlmsg_tail(msg) >= NLMSG_HDRLEN
      BY DEF BufferOK
    <2> QED BY <2>1, TailFits DEF BufferOK, NLMSG_HDRLEN
  <1>2. PICK total \in Nat : /\ total = Align(NLA_HDRLEN + n) /\ total % ALIGNTO = 0
                             /\ NLA_HDRLEN + n <= total
    BY AlignUp DEF NLA_HDRLEN
  <1>3. at + total <= msg.size
    BY <1>2 DEF Fits, nla_total_size, nla_attr_size
  <1>4. at <= msg.size /\ at \in Words(msg.size)
    BY <1>1, <1>2, <1>3 DEF Words, NLA_HDRLEN, NLMSG_HDRLEN
  <1>5. hd = Header(t, NLA_HDRLEN + n)
    <2>1. NLA_HDRLEN + n \in Nat /\ U16 \in Nat
      BY MsgAssumption DEF NLA_HDRLEN
    <2>2. (NLA_HDRLEN + n) % U16 = NLA_HDRLEN + n
      BY <2>1
    <2> QED BY <2>2 DEF nla_attr_size
  <1>6. a = [msg EXCEPT !.len = at + total, !.mem = [mem1 EXCEPT ![at] = hd]]
    BY <1>2 DEF Attribute, nla_total_size, nla_attr_size
  <1>7. \A p \in Words(msg.size) :
           mem1[p] = IF p + ALIGNTO > at + NLA_HDRLEN /\ p < at + (NLA_HDRLEN + n)
                     THEN Data ELSE msg.mem[p]
    BY <1>1 DEF Fill, Touched, nla_attr_size
  <1>8. DOMAIN mem1 = Words(msg.size)
    BY <1>1 DEF Fill
  <1> HIDE DEF mem1, hd
  <1>9. a.size = msg.size /\ a.len = at + total /\ a.mem = [mem1 EXCEPT ![at] = hd]
    <2>1. PICK f : f = [mem1 EXCEPT ![at] = hd]
      OBVIOUS
    <2>2. PICK l : l = at + total
      OBVIOUS
    <2>3. a = [msg EXCEPT !.len = l, !.mem = f]
      BY <1>6, <2>1, <2>2
    <2>4. a.size = msg.size /\ a.len = l /\ a.mem = f
      BY <2>3 DEF BufferOK
    <2> QED BY <2>1, <2>2, <2>4
  <1>10. nlmsg_tail(a) = a.len
    <2>1. PICK l \in Nat : l = at + total
      OBVIOUS
    <2>2. l % ALIGNTO = 0
      BY <1>1, <1>2, <2>1, AlignSum
    <2>3. Align(l) = l
      BY <2>2, AlignMultiple
    <2> QED BY <1>9, <2>1, <2>3 DEF nlmsg_tail
  <1>11. a.mem[at] = hd
    BY <1>4, <1>8, <1>9
  <1>12. \A p \in Words(msg.size) : p # at => a.mem[p] = mem1[p]
    BY <1>8, <1>9
  <1>13. ASSUME NEW p \in Words(at) PROVE a.mem[p] = msg.mem[p]
    <2>1. p \in Nat /\ p % ALIGNTO = 0 /\ p < at /\ p \in Words(msg.size)
      BY <1>4, <1>1 DEF Words, NLMSG_HDRLEN
    <2>2. p + ALIGNTO <= at
      BY <1>1, <2>1, AlignedBelow
    <2>3. ~(p + ALIGNTO > at + NLA_HDRLEN)
      BY <2>1, <2>2 DEF NLA_HDRLEN, ALIGNTO
    <2>4. mem1[p] = msg.mem[p]
      BY <1>7, <2>1, <2>3
    <2> QED BY <1>12, <2>1, <2>4
  <1>14. ASSUME NEW p \in Words(msg.size), p \in (at + 1)..(at + NLA_HDRLEN + n - 1)
         PROVE  a.mem[p] = Data
    <2>1. p \in Nat /\ p % ALIGNTO = 0 /\ at < p /\ p # at /\ p < at + (NLA_HDRLEN + n)
      BY <1>1, <1>14 DEF Words, NLA_HDRLEN, NLMSG_HDRLEN
    <2>2. at + ALIGNTO <= p
      BY <1>1, <2>1, AlignedBelow
    <2>3. p + ALIGNTO > at + NLA_HDRLEN
      BY <2>1, <2>2 DEF ALIGNTO, NLA_HDRLEN
    <2> QED BY <1>7, <1>12, <2>1, <2>3
  <1> QED BY <1>1, <1>2, <1>4, <1>5, <1>9, <1>10, <1>11, <1>13, <1>14

\* A structure appended at an aligned end.
LEMMA RawMem ==
    ASSUME NEW msg, BufferOK(msg), NEW n \in Nat, NEW pad \in {0, ALIGNTO},
           CanReserve(msg, n, pad), msg.len % ALIGNTO = 0, NEW r, r = Raw(msg, n, pad)
    PROVE  /\ r.size = msg.size /\ nlmsg_tail(msg) = msg.len
           /\ nlmsg_tail(r) = msg.len + Align(n)
           /\ \A p \in Words(msg.len) : r.mem[p] = msg.mem[p]
  <1>1. /\ msg.size \in Nat /\ msg.len \in Nat /\ msg.len <= msg.size
        /\ msg.mem \in [Words(msg.size) -> Cells]
    BY TailFits DEF BufferOK
  <1>2. /\ r.size = msg.size /\ r.len = msg.len + Padded(n, pad)
        /\ r.mem = Fill(msg, msg.len, msg.len + n, Data)
    BY DEF Raw, BufferOK
  <1>3. PICK len \in Nat : len = msg.len /\ len % ALIGNTO = 0
    BY <1>1
  <1>4. nlmsg_tail(msg) = len
    BY <1>3, AlignMultiple DEF nlmsg_tail
  <1>5. Align(len + Padded(n, pad)) = len + Align(n)
    <2>1. CASE pad = 0
      <3>1. Padded(n, pad) = n
        BY <2>1 DEF Padded
      <3> QED BY <1>3, <3>1, AlignMultiple
    <2>2. CASE pad = ALIGNTO
      <3>1. Padded(n, pad) = Align(n)
        BY <2>2 DEF Padded, Align, ALIGNTO
      <3>2. PICK a \in Nat : a = Align(n) /\ a % ALIGNTO = 0
        BY AlignUp
      <3>3. (len + a) % ALIGNTO = 0
        BY <1>3, <3>2, AlignSum
      <3>4. Align(len + a) = len + a
        BY <3>3, AlignMultiple
      <3> QED BY <3>1, <3>2, <3>4
    <2> QED BY <2>1, <2>2
  <1>6. nlmsg_tail(r) = len + Align(n)
    BY <1>2, <1>3, <1>5 DEF nlmsg_tail
  <1>7. ASSUME NEW p \in Words(len) PROVE r.mem[p] = msg.mem[p]
    <2>1. p \in Nat /\ p % ALIGNTO = 0 /\ p < len /\ p \in Words(msg.size)
      BY <1>1, <1>3 DEF Words, NLMSG_HDRLEN
    <2>2. p + ALIGNTO <= len
      BY <1>3, <2>1, AlignedBelow
    <2>3. ~(p + ALIGNTO > len)
      BY <2>1, <2>2 DEF ALIGNTO
    <2> QED BY <1>1, <1>2, <1>3, <2>1, <2>3 DEF Fill, Touched
  <1> QED BY <1>2, <1>3, <1>4, <1>6, <1>7

-----------------------------------------------------------------------------
(* What the actions do to the contents.                                    *)

LEMMA SameFrame ==
    ASSUME NEW f, NEW g, g.type = f.type, g.at = f.at
    PROVE  /\ Base(g) = Base(f) /\ Start(g) = Start(f) /\ StructOf(g) = StructOf(f)
           /\ g.struct = f.struct => (Began(g) <=> Began(f))
  BY DEF Base, Start, StructOf, Began

LEMMA PutIntoItems ==
    ASSUME NEW fs, FrameSeq(fs), NEW k \in Nat, k = Len(fs), k > 0, NEW item,
           NEW g, g = PutInto(fs, item)
    PROVE  /\ Len(g) = k
           /\ \A i \in 1..k : i # k => g[i] = fs[i]
           /\ g[k].type = fs[k].type /\ g[k].at = fs[k].at /\ g[k].struct = fs[k].struct
           /\ g[k].items = Append(fs[k].items, item)
  <1>1. k \in 1..k /\ fs = [i \in 1..k |-> fs[i]]
    BY FramesType
  <1>2. PICK its : its = Append(fs[k].items, item)
    OBVIOUS
  <1>3. g = [fs EXCEPT ![k] = [fs[k] EXCEPT !.items = its]]
    BY <1>2 DEF PutInto
  <1>4. /\ g[k] = [fs[k] EXCEPT !.items = its]
        /\ \A i \in 1..k : i # k => g[i] = fs[i]
    BY <1>1, <1>3
  <1>5. fs[k] = [type |-> fs[k].type, at |-> fs[k].at, struct |-> fs[k].struct,
                 items |-> fs[k].items]
    BY <1>1 DEF FrameSeq
  <1>6. /\ g[k].type = fs[k].type /\ g[k].at = fs[k].at /\ g[k].struct = fs[k].struct
        /\ g[k].items = its
    BY <1>4, <1>5
  <1>7. Len(g) = k
    BY PutIntoOK
  <1> QED BY <1>2, <1>4, <1>6, <1>7

\* The message alone, just allocated.
LEMMA AllocContents ==
    ASSUME NEW s \in Sizes
    PROVE  Contents(<< Frame("message", 0) >>, Allocated(s))
  <1>1. PICK e : e = << >>
    OBVIOUS
  <1>2. PICK f : f = Frame("message", 0)
    OBVIOUS
  <1>3. f.type = "message" /\ f.struct = FALSE /\ f.items = e
    BY <1>1, <1>2 DEF Frame
  <1>4. Base(f) = NLMSG_HDRLEN /\ StructOf(f) = HdrLen /\ HdrLen \in Nat
    BY <1>3, MsgAssumption DEF Base, StructOf
  <1>5. PICK msg : msg = Allocated(s)
    OBVIOUS
  <1>6. msg.len = NLMSG_HDRLEN /\ nlmsg_tail(msg) = NLMSG_HDRLEN
    <2>1. Align(NLMSG_HDRLEN) = NLMSG_HDRLEN
      BY DEF Align, ALIGNTO, NLMSG_HDRLEN
    <2> QED BY <1>5, <2>1, AllocatedOK DEF Allocated
  <1>7. PICK fs : fs = << f >>
    OBVIOUS
  <1>8. Len(fs) = 1 /\ fs[1] = f /\ EndOf(fs, 1, nlmsg_tail(msg)) = NLMSG_HDRLEN
    BY <1>6, <1>7 DEF EndOf
  <1>9. ASSUME Began(f) PROVE Tiled(msg.mem, Start(f), NLMSG_HDRLEN, e)
    <2>1. HdrLen = 0
      BY <1>3, <1>4, <1>9 DEF Began
    <2>2. Start(f) = NLMSG_HDRLEN /\ NLMSG_HDRLEN \in Nat
      BY <1>4, <2>1 DEF Start, Align, ALIGNTO, NLMSG_HDRLEN
    <2> QED BY <1>1, <2>2, TiledNone
  <1>10. Contents(fs, msg)
    <2>1. \A i \in 1..Len(fs) : i = 1
      BY <1>8
    <2> QED BY <1>1, <1>3, <1>4, <1>6, <1>8, <1>9, <2>1 DEF Contents
  <1> QED BY <1>2, <1>5, <1>7, <1>10

LEMMA ExpandContents ==
    ASSUME RInv, NEW s \in Sizes, nlmsg_expand(s)
    PROVE  Contents(frames', m')
  <1>1. IInv /\ Contents(frames, m)
    BY DEF RInv
  <1>2. IInv'
    BY <1>1, Expand
  <1>3. BufferOK(m')
    BY <1>2 DEF IInv
  <1>4. frames' = frames /\ m'.len = m.len /\ m'.size = s /\ s > m.size
        /\ m'.mem = [p \in Words(s) |-> IF p \in Words(m.size) THEN m.mem[p] ELSE Data]
    BY <1>1, Before DEF nlmsg_expand, BufferOK
  <1>5. nlmsg_tail(m') = nlmsg_tail(m)
    BY <1>4 DEF nlmsg_tail
  <1>6. PICK to \in Nat : to = m.size
    BY <1>1, Before
  <1>7. s \in Nat
    BY MsgAssumption
  <1>8. \A p \in Words(to) : m'.mem[p] = m.mem[p]
    <2>1. \A p \in Words(to) : p \in Words(s)
      BY <1>4, <1>6, <1>7 DEF Words
    <2> QED BY <1>4, <1>6, <2>1
  <1>9. ASSUME NEW i \in 1..Len(frames), Began(frames[i])
        PROVE  Tiled(m'.mem, Start(frames[i]), EndOf(frames, i, nlmsg_tail(m)), frames[i].items)
    <2>1. EndOf(frames, i, nlmsg_tail(m)) <= nlmsg_tail(m)
          /\ EndOf(frames, i, nlmsg_tail(m)) \in Nat
      BY <1>1, Before, FrameBounds
    <2>2. EndOf(frames, i, nlmsg_tail(m)) <= to
      BY <1>1, <1>6, <2>1, Before
    <2>3. to <= m.size /\ to <= m'.size
      BY <1>4, <1>6, <1>7
    <2> QED BY <1>1, <1>3, <1>8, <1>9, <2>2, <2>3, Before, FrameKept
  <1> QED BY <1>1, <1>4, <1>5, <1>9 DEF Contents

\* The structure of the innermost frame.
LEMMA AppendContents ==
    ASSUME RInv, NEW pad \in {0, ALIGNTO}, nlmsg_append(pad)
    PROVE  Contents(frames', m')
  <1>1. IInv /\ Contents(frames, m)
    BY DEF RInv
  <1>2. BufferOK(m')
    BY <1>1, AppendStruct DEF IInv
  <1>3. PICK k \in Nat : k = Len(frames) /\ k > 0
    BY <1>1, Before
  <1>4. k \in 1..k /\ Open = frames[k]
    BY <1>3 DEF Open
  <1>5. PICK n \in Nat : n = StructOf(frames[k])
    BY <1>1, <1>4, StructNat
  <1>6. ~Began(frames[k]) /\ CanReserve(m, n, pad) /\ m' = Raw(m, n, pad)
        /\ frames' = [frames EXCEPT ![k] = [frames[k] EXCEPT !.struct = TRUE]]
    BY <1>3, <1>4, <1>5 DEF nlmsg_append, Ready, Began
  <1>7. m.len = Base(frames[k]) /\ frames[k].items = << >>
    BY <1>1, <1>3, <1>4, <1>6 DEF Contents
  <1>8. PICK b \in Nat : b = m.len /\ b % ALIGNTO = 0 /\ NLMSG_HDRLEN <= b
    BY <1>1, <1>3, <1>4, <1>7, Before, FrameBounds
  <1>9. /\ m'.size = m.size /\ nlmsg_tail(m) = b /\ nlmsg_tail(m') = b + Align(n)
        /\ \A p \in Words(b) : m'.mem[p] = m.mem[p]
    BY <1>1, <1>6, <1>8, Before, RawMem
  <1>10. /\ frames = [i \in 1..k |-> frames[i]]
         /\ frames[k] = [type |-> frames[k].type, at |-> frames[k].at,
                         struct |-> frames[k].struct, items |-> frames[k].items]
    BY <1>1, <1>3, <1>4, Before, FramesType DEF FrameSeq
  <1>11. PICK e : e = << >>
    OBVIOUS
  <1>12. /\ frames'[k] = [frames[k] EXCEPT !.struct = TRUE]
         /\ \A i \in 1..k : i # k => frames'[i] = frames[i]
         /\ frames' = [i \in 1..k |-> frames'[i]]
    BY <1>4, <1>6, <1>10
  <1>13. /\ frames'[k].type = frames[k].type /\ frames'[k].at = frames[k].at
         /\ frames'[k].struct = TRUE /\ frames'[k].items = e
    BY <1>7, <1>10, <1>11, <1>12
  <1>14. Len(frames') = k
    BY <1>12
  <1>15. Start(frames'[k]) = b + Align(n) /\ Began(frames'[k])
    <2>1. Start(frames'[k]) = Start(frames[k])
      BY <1>13, SameFrame
    <2> QED BY <1>5, <1>7, <1>8, <1>13, <2>1 DEF Start, Began
  <1>16. Tiled(m'.mem, Start(frames'[k]), nlmsg_tail(m'), frames'[k].items)
    <2>1. PICK t \in Nat : t = b + Align(n)
      BY AlignUp
    <2> QED BY <1>9, <1>11, <1>13, <1>15, <2>1, TiledNone
  <1>17. ASSUME NEW i \in 1..k, i # k
         PROVE  /\ Began(frames'[i])
                /\ Tiled(m'.mem, Start(frames'[i]), EndOf(frames', i, nlmsg_tail(m')),
                         frames'[i].items)
    <2>1. Began(frames[i]) /\ frames'[i] = frames[i]
      BY <1>1, <1>3, <1>12, <1>17, OuterBegan
    <2>2. EndOf(frames, i, nlmsg_tail(m)) <= b
      BY <1>1, <1>3, <1>9, Before, FrameBounds
    <2>3. b <= m.size /\ b <= m'.size
      BY <1>1, <1>8, <1>9, Before
    <2>4. Tiled(m'.mem, Start(frames[i]), EndOf(frames, i, nlmsg_tail(m)), frames[i].items)
      BY <1>1, <1>2, <1>3, <1>9, <2>1, <2>2, <2>3, Before, FrameKept
    <2>5. EndOf(frames', i, nlmsg_tail(m')) = EndOf(frames, i, nlmsg_tail(m))
      <3>1. i + 1 \in 1..k
        BY <1>17
      <3>2. frames'[i + 1].at = frames[i + 1].at
        BY <1>12, <1>13, <3>1
      <3> QED BY <1>3, <1>14, <1>17, <3>2 DEF EndOf
    <2> QED BY <2>1, <2>4, <2>5
  <1>18. EndOf(frames', k, nlmsg_tail(m')) = nlmsg_tail(m')
    BY <1>14 DEF EndOf
  <1> QED BY <1>14, <1>15, <1>16, <1>17, <1>18 DEF Contents

\* The new attribute is the last tile of the innermost frame.
LEMMA PutContents ==
    ASSUME RInv, NEW t \in AttrTypes, NEW n \in PayloadLens, nla_put(t, n)
    PROVE  Contents(frames', m')
  <1>1. IInv /\ Contents(frames, m)
    BY DEF RInv
  <1>2. BufferOK(m')
    BY <1>1, Put DEF IInv
  <1>3. PICK k \in Nat : k = Len(frames) /\ k > 0
    BY <1>1, Before
  <1>4. k \in 1..k /\ Open = frames[k]
    BY <1>3 DEF Open
  <1>5. n \in Nat /\ NLA_HDRLEN + n < U16
    BY MsgAssumption
  <1>6. PICK item : item = Item(t, n, << >>)
    OBVIOUS
  <1>7. Began(frames[k]) /\ Fits(m, n) /\ m' = Attribute(m, t, n)
        /\ frames' = PutInto(frames, item)
    BY <1>3, <1>4, <1>6 DEF nla_put, Ready, Began
  <1>8. PICK at \in Nat : at = nlmsg_tail(m)
    BY <1>1, Before
  <1>9. /\ at <= m.size /\ at \in Words(m.size) /\ m'.size = m.size
        /\ m'.len = at + Align(NLA_HDRLEN + n) /\ nlmsg_tail(m') = m'.len
        /\ m'.mem[at] = Header(t, NLA_HDRLEN + n)
        /\ \A p \in Words(at) : m'.mem[p] = m.mem[p]
        /\ \A p \in Words(m.size) :
              p \in (at + 1)..(at + NLA_HDRLEN + n - 1) => m'.mem[p] = Data
    BY <1>1, <1>5, <1>7, <1>8, Before, AttributeMem
  <1>10. /\ Len(frames') = k
         /\ \A i \in 1..k : i # k => frames'[i] = frames[i]
         /\ frames'[k].type = frames[k].type /\ frames'[k].at = frames[k].at
         /\ frames'[k].struct = frames[k].struct
         /\ frames'[k].items = Append(frames[k].items, item)
    <2>1. FrameSeq(frames)
      BY <1>1, Before
    <2> QED BY <1>3, <1>7, <2>1, PutIntoItems
  <1>11. ASSUME NEW i \in 1..k
         PROVE  /\ Began(frames[i])
                /\ Tiled(m'.mem, Start(frames[i]), EndOf(frames, i, nlmsg_tail(m)),
                         frames[i].items)
    <2>1. Began(frames[i])
      BY <1>1, <1>3, <1>7, OuterBegan
    <2>2. EndOf(frames, i, nlmsg_tail(m)) <= at
      BY <1>1, <1>3, <1>8, Before, FrameBounds
    <2>3. at <= m.size /\ at <= m'.size
      BY <1>9
    <2> QED BY <1>1, <1>2, <1>3, <1>9, <2>1, <2>2, <2>3, Before, FrameKept
  <1>12. ItemAt(m'.mem, at) = item
    <2>1. PICK mem : mem = m'.mem
      OBVIOUS
    <2>2. PICK h : h = mem[at]
      OBVIOUS
    <2>3. h.type = t /\ h.len = NLA_HDRLEN + n
      BY <1>9, <2>1, <2>2 DEF Header
    <2>4. t \notin NestTypes
      BY MsgAssumption
    <2>5. DOMAIN mem = Words(m.size)
      BY <1>2, <1>9, <2>1 DEF BufferOK
    <2>6. \A p \in DOMAIN mem : p \in (at + 1)..(at + h.len - 1) => mem[p] = Data
      <3>1. at + h.len - 1 = at + NLA_HDRLEN + n - 1
        BY <1>5, <2>3 DEF NLA_HDRLEN
      <3> QED BY <1>9, <2>1, <2>5, <3>1
    <2>7. h.len - NLA_HDRLEN = n
      BY <1>5, <2>3 DEF NLA_HDRLEN
    <2>8. \A x : Found(mem, at, x) = Item(t, n, << >>)
      BY <2>2, <2>3, <2>4, <2>6, <2>7 DEF Found
    <2> QED BY <1>6, <2>1, <2>8 DEF ItemAt
  <1>13. Tiled(m'.mem, Start(frames[k]), nlmsg_tail(m'), Append(frames[k].items, item))
    <2>1. PICK from \in Nat : from = Start(frames[k])
      BY <1>1, <1>3, <1>4, Before, FrameBounds
    <2>2. PICK its : its = frames[k].items
      OBVIOUS
    <2>3. PICK mem : mem = m'.mem
      OBVIOUS
    <2>4. Tiled(mem, from, at, its)
      <3>1. EndOf(frames, k, nlmsg_tail(m)) = at
        BY <1>3, <1>8 DEF EndOf
      <3> QED BY <1>4, <1>11, <2>1, <2>2, <2>3, <3>1
    <2>5. at \in DOMAIN mem
      BY <1>2, <1>9, <2>3 DEF BufferOK
    <2>6. mem[at].len = NLA_HDRLEN + n /\ mem[at].len \in Nat /\ mem[at].len >= NLA_HDRLEN
      <3>1. mem[at].len = NLA_HDRLEN + n
        BY <1>9, <2>3 DEF Header
      <3> QED BY <1>5, <3>1 DEF NLA_HDRLEN
    <2>7. nlmsg_tail(m') = at + Align(mem[at].len)
      BY <1>9, <2>6
    <2>8. item = ItemAt(mem, at)
      BY <1>12, <2>3
    <2>9. PICK to : to = nlmsg_tail(m')
      OBVIOUS
    <2>10. Tiled(mem, from, to, Append(its, item))
      BY <2>4, <2>5, <2>6, <2>7, <2>8, <2>9, TiledMore
    <2> QED BY <2>1, <2>2, <2>3, <2>9, <2>10
  <1>14. /\ Began(frames'[k])
         /\ Tiled(m'.mem, Start(frames'[k]), EndOf(frames', k, nlmsg_tail(m')), frames'[k].items)
    <2>1. Start(frames'[k]) = Start(frames[k]) /\ Began(frames'[k])
      BY <1>7, <1>10, SameFrame
    <2>2. EndOf(frames', k, nlmsg_tail(m')) = nlmsg_tail(m')
      BY <1>10 DEF EndOf
    <2> QED BY <1>10, <1>13, <2>1, <2>2
  <1>15. ASSUME NEW i \in 1..k, i # k
         PROVE  /\ Began(frames'[i])
                /\ Tiled(m'.mem, Start(frames'[i]), EndOf(frames', i, nlmsg_tail(m')),
                         frames'[i].items)
    <2>1. EndOf(frames', i, nlmsg_tail(m')) = EndOf(frames, i, nlmsg_tail(m))
      <3>1. i + 1 \in 1..k
        BY <1>15
      <3>2. frames'[i + 1].at = frames[i + 1].at
        BY <1>10, <3>1
      <3> QED BY <1>3, <1>10, <1>15, <3>2 DEF EndOf
    <2> QED BY <1>10, <1>11, <1>15, <2>1
  <1> QED BY <1>10, <1>14, <1>15 DEF Contents

\* The frames around a container that is opened.
LEMMA AppendFrame ==
    ASSUME NEW fs, FrameSeq(fs), NEW k \in Nat, k = Len(fs), NEW f,
           NEW g, g = Append(fs, f)
    PROVE  Len(g) = k + 1 /\ g[k + 1] = f /\ \A i \in 1..k : g[i] = fs[i]
  <1>1. PICK S : S = {fs[i] : i \in 1..k} \cup {f}
    OBVIOUS
  <1>2. fs = [i \in 1..k |-> fs[i]]
    BY FramesType
  <1>3. fs \in [1..k -> S] /\ f \in S
    BY <1>1, <1>2
  <1>4. fs \in Seq(S)
    BY <1>3
  <1> QED BY <1>3, <1>4

LEMMA NestStartContents ==
    ASSUME RInv, NEW t \in NestTypes, nla_nest_start(t)
    PROVE  Contents(frames', m')
  <1>1. IInv /\ Contents(frames, m)
    BY DEF RInv
  <1>2. BufferOK(m')
    BY <1>1, NestStart DEF IInv
  <1>3. PICK k \in Nat : k = Len(frames) /\ k > 0
    BY <1>1, Before
  <1>4. k \in 1..k /\ Open = frames[k]
    BY <1>3 DEF Open
  <1>5. PICK at \in Nat : at = nlmsg_tail(m)
    BY <1>1, Before
  <1>6. PICK f : f = Frame(t, at)
    OBVIOUS
  <1>7. Began(frames[k]) /\ Fits(m, 0) /\ m' = Attribute(m, t, 0)
        /\ frames' = Append(frames, f)
    BY <1>3, <1>4, <1>5, <1>6 DEF nla_nest_start, Ready, Began
  <1>8. /\ at <= m.size /\ m'.size = m.size
        /\ m'.len = at + Align(NLA_HDRLEN + 0) /\ nlmsg_tail(m') = m'.len
        /\ \A p \in Words(at) : m'.mem[p] = m.mem[p]
    <2>1. NLA_HDRLEN + 0 < U16 /\ 0 \in Nat
      BY MsgAssumption DEF NLA_HDRLEN
    <2> QED BY <1>1, <1>5, <1>7, <2>1, Before, AttributeMem
  <1>9. m'.len = at + NLA_HDRLEN
    <2>1. Align(NLA_HDRLEN + 0) = NLA_HDRLEN
      BY DEF Align, NLA_HDRLEN, ALIGNTO
    <2> QED BY <1>8, <2>1
  <1>10. Len(frames') = k + 1 /\ frames'[k + 1] = f
         /\ \A i \in 1..k : frames'[i] = frames[i]
    BY <1>1, <1>3, <1>7, Before, AppendFrame
  <1>11. ASSUME NEW i \in 1..k
         PROVE  /\ Began(frames'[i])
                /\ Tiled(m'.mem, Start(frames'[i]), EndOf(frames', i, nlmsg_tail(m')),
                         frames'[i].items)
    <2>1. Began(frames[i])
      BY <1>1, <1>3, <1>7, OuterBegan
    <2>2. EndOf(frames, i, nlmsg_tail(m)) <= at
      BY <1>1, <1>3, <1>5, Before, FrameBounds
    <2>3. at <= m.size /\ at <= m'.size
      BY <1>8
    <2>4. Tiled(m'.mem, Start(frames[i]), EndOf(frames, i, nlmsg_tail(m)), frames[i].items)
      BY <1>1, <1>2, <1>3, <1>8, <2>1, <2>2, <2>3, Before, FrameKept
    <2>5. EndOf(frames', i, nlmsg_tail(m')) = EndOf(frames, i, nlmsg_tail(m))
      <3>1. EndOf(frames', i, nlmsg_tail(m')) = frames'[i + 1].at
        BY <1>10 DEF EndOf
      <3>2. CASE i = k
        <4>1. f.at = at
          BY <1>6 DEF Frame
        <4> QED BY <1>3, <1>5, <1>10, <3>1, <3>2, <4>1 DEF EndOf
      <3>3. CASE i # k
        <4>1. i + 1 \in 1..k
          BY <3>3
        <4> QED BY <1>3, <1>10, <3>1, <3>3, <4>1 DEF EndOf
      <3> QED BY <3>2, <3>3
    <2> QED BY <1>10, <2>1, <2>4, <2>5
  <1>12. PICK e : e = << >>
    OBVIOUS
  <1>13. f.type = t /\ f.at = at /\ f.struct = FALSE /\ f.items = e
    BY <1>6, <1>12 DEF Frame
  <1>14. Base(f) = at + NLA_HDRLEN /\ StructOf(f) \in Nat
    BY <1>13, MsgAssumption DEF Base, StructOf
  <1>15. ASSUME Began(f)
         PROVE  Tiled(m'.mem, Start(f), EndOf(frames', k + 1, nlmsg_tail(m')), f.items)
    <2>1. StructOf(f) = 0
      BY <1>13, <1>14, <1>15 DEF Began
    <2>2. PICK b \in Nat : b = at + NLA_HDRLEN
      BY DEF NLA_HDRLEN
    <2>3. Align(0) = 0
      BY DEF Align, ALIGNTO
    <2>4. Start(f) = b
      BY <1>14, <2>1, <2>2, <2>3 DEF Start
    <2>5. EndOf(frames', k + 1, nlmsg_tail(m')) = b
      BY <1>8, <1>9, <1>10, <2>2 DEF EndOf
    <2> QED BY <1>12, <1>13, <2>4, <2>5, TiledNone
  <1>16. \A i \in 1..(k + 1) : i \in 1..k \/ i = k + 1
    OBVIOUS
  <1> QED BY <1>9, <1>10, <1>11, <1>12, <1>13, <1>14, <1>15, <1>16 DEF Contents

\* What was put before the container that is cancelled stays.
LEMMA CancelContents ==
    ASSUME RInv, NEW i \in 2..Len(frames), nla_nest_cancel(i)
    PROVE  Contents(frames', m')
  <1>1. IInv /\ Contents(frames, m)
    BY DEF RInv
  <1>2. BufferOK(m')
    BY <1>1, NestCancel DEF IInv
  <1>3. PICK k \in Nat : k = Len(frames) /\ k > 0
    BY <1>1, Before
  <1>4. PICK at \in Nat : at = frames[i].at /\ at + NLA_HDRLEN <= nlmsg_tail(m)
    BY <1>1, Before DEF Stacked
  <1>5. nlmsg_tail(m') = at /\ \A p \in DOMAIN m.mem : p < at => m'.mem[p] = m.mem[p]
    BY <1>1, <1>4, NestCancel
  <1>6. m' = Cancel(m, at) /\ frames' = SubSeq(frames, 1, i - 1)
    BY <1>4 DEF nla_nest_cancel
  <1>7. m'.size = m.size
    <2>1. m = [size |-> m.size, len |-> m.len, mem |-> m.mem]
      BY <1>1, Before DEF BufferOK
    <2> QED BY <1>6, <2>1 DEF Cancel
  <1>8. Len(frames') = i - 1 /\ \A j \in 1..(i - 1) : frames'[j] = frames[j]
    BY <1>1, <1>6, Before, TakeFrames
  <1>9. ASSUME NEW j \in 1..(i - 1)
        PROVE  /\ Began(frames'[j])
               /\ Tiled(m'.mem, Start(frames'[j]), EndOf(frames', j, nlmsg_tail(m')),
                        frames'[j].items)
    <2>0. j \in 1..Len(frames) /\ j # Len(frames) /\ j < i
      BY <1>3
    <2>1. Began(frames[j])
      BY <1>1, <2>0, OuterBegan
    <2>2. EndOf(frames, j, nlmsg_tail(m)) <= at
      BY <1>1, <1>4, <2>0, Before, FrameBounds
    <2>3. at <= m.size /\ at <= m'.size
      BY <1>1, <1>4, <1>7, Before DEF NLA_HDRLEN
    <2>4. \A p \in Words(at) : m'.mem[p] = m.mem[p]
      <3>1. \A p \in Words(at) : p \in Words(m.size) /\ p < at
        BY <1>1, <2>3, Before DEF Words
      <3>2. DOMAIN m.mem = Words(m.size)
        BY <1>1, Before
      <3> QED BY <1>5, <3>1, <3>2
    <2>5. Tiled(m'.mem, Start(frames[j]), EndOf(frames, j, nlmsg_tail(m)), frames[j].items)
      BY <1>1, <1>2, <2>0, <2>1, <2>2, <2>3, <2>4, Before, FrameKept
    <2>6. EndOf(frames', j, nlmsg_tail(m')) = EndOf(frames, j, nlmsg_tail(m))
      <3>1. EndOf(frames, j, nlmsg_tail(m)) = frames[j + 1].at
        BY <2>0 DEF EndOf
      <3>2. CASE j = i - 1
        <4>1. j + 1 = i
          BY <3>2
        <4> QED BY <1>4, <1>5, <1>8, <3>1, <3>2, <4>1 DEF EndOf
      <3>3. CASE j # i - 1
        <4>1. j + 1 \in 1..(i - 1)
          BY <3>3
        <4> QED BY <1>8, <3>1, <3>3, <4>1 DEF EndOf
      <3> QED BY <3>2, <3>3
    <2> QED BY <1>8, <2>1, <2>5, <2>6
  <1> QED BY <1>8, <1>9 DEF Contents

\* Closing a container: the reader of the container finds what was put into
\* it, and the container is the last tile of the frame around it.
LEMMA CloseContents ==
    ASSUME RInv, Len(frames) > 1, NEW n, n = nlmsg_tail(m) - Open.at, n < U16, Close(n)
    PROVE  Contents(frames', m')
  <1>1. IInv /\ Contents(frames, m)
    BY DEF RInv
  <1>2. BufferOK(m')
    BY <1>1, CloseNest DEF IInv
  <1>3. PICK k \in Nat : k = Len(frames) /\ k > 1
    BY <1>1, Before
  <1>4. k \in 2..k /\ k \in 1..k /\ k - 1 \in Nat /\ k - 1 > 0 /\ k - 1 \in 1..k
        /\ k - 1 # k /\ Open = frames[k]
    BY <1>3 DEF Open
  <1>5. PICK at \in Nat : /\ at = frames[k].at /\ at % ALIGNTO = 0
                          /\ NLMSG_HDRLEN <= at /\ at + NLA_HDRLEN <= nlmsg_tail(m)
    BY <1>1, <1>3, <1>4, Before DEF Stacked
  <1>6. PICK tail \in Nat : tail = nlmsg_tail(m) /\ tail % ALIGNTO = 0 /\ tail <= m.size
    BY <1>1, Before
  <1>7. PICK t \in NestTypes : t = frames[k].type /\ t # "message"
    BY <1>1, <1>3, <1>4, Before, MsgAssumption DEF Stacked
  <1>8. /\ n = tail - at /\ n \in Nat /\ NLA_HDRLEN <= n /\ at + n = tail
        /\ n % U16 = n /\ n % ALIGNTO = 0 /\ Align(n) = n
    <2>1. n = tail - at /\ n \in Nat /\ NLA_HDRLEN <= n /\ at + n = tail
      BY <1>4, <1>5, <1>6 DEF NLA_HDRLEN
    <2>2. n % U16 = n
      BY <2>1, MsgAssumption, NoOverflow
    <2>3. n % ALIGNTO = 0
      BY <1>5, <1>6, <2>1, AlignDifference
    <2> QED BY <2>1, <2>2, <2>3, AlignMultiple
  <1>9. PICK its : its = frames[k].items
    OBVIOUS
  <1>10. PICK item : item = Item(t, 0, its)
    OBVIOUS
  <1>11. PICK f : f = [m.mem EXCEPT ![at] = Header(t, n)]
    OBVIOUS
  <1>12. /\ m'.mem = f /\ m'.size = m.size /\ nlmsg_tail(m') = tail
         /\ frames' = PutInto(Outer, item)
    <2>1. frames' = PutInto(Outer, item)
      BY <1>4, <1>7, <1>9, <1>10 DEF Close
    <2>2. m = [size |-> m.size, len |-> m.len, mem |-> m.mem]
      BY <1>1, Before DEF BufferOK
    <2>3. PICK pad \in Nat : pad = tail - m.len /\ m.len + pad = tail
      BY <1>1, <1>6, Before
    <2>4. PICK m1 : m1 = [m EXCEPT !.mem = f]
      OBVIOUS
    <2>5. m1.size = m.size /\ m1.len = m.len /\ m1.mem = f
          /\ m1 = [size |-> m1.size, len |-> m1.len, mem |-> m1.mem]
      BY <2>2, <2>4
    <2>6. m1 = [m EXCEPT !.mem[Open.at] = Header(Open.type, n % U16)]
      BY <1>4, <1>5, <1>7, <1>8, <1>11, <2>4
    <2>7. CanReserve(m1, pad, 0)
      <3>1. Padded(pad, 0) = pad
        BY DEF Padded
      <3>2. pad <= m.size /\ pad + m.len <= m.size
        BY <1>1, <1>6, <2>3, Before
      <3> QED BY <2>5, <3>1, <3>2 DEF CanReserve
    <2>8. m' = [m1 EXCEPT !.len = @ + pad]
      BY <1>6, <2>3, <2>6, <2>7 DEF Close
    <2>9. m'.mem = f /\ m'.size = m.size /\ m'.len = m.len + pad
      BY <2>5, <2>8
    <2>10. nlmsg_tail(m') = tail
      BY <1>6, <2>3, <2>9, AlignMultiple DEF nlmsg_tail
    <2> QED BY <2>1, <2>9, <2>10
  <1>13. /\ f \in [Words(m.size) -> Cells] /\ m.mem \in [Words(m.size) -> Cells]
         /\ m.size \in Nat /\ at \in Words(m.size)
         /\ f[at] = Header(t, n) /\ \A p \in Words(m.size) : p # at => f[p] = m.mem[p]
    <2>1. m.mem \in [Words(m.size) -> Cells] /\ m.size \in Nat
      BY <1>1, Before
    <2>2. at \in Words(m.size)
      BY <1>5, <1>6, <2>1 DEF Words, NLMSG_HDRLEN, NLA_HDRLEN
    <2>3. f \in [Words(m.size) -> Cells]
      BY <1>2, <1>12 DEF BufferOK
    <2> QED BY <1>11, <2>1, <2>2, <2>3
  <1>14. PICK skip \in Nat : /\ skip = NLA_HDRLEN + Align(StructLen[t])
                             /\ skip % ALIGNTO = 0 /\ skip >= NLA_HDRLEN
    BY SkipFacts
  <1>15. Base(frames[k]) = at + NLA_HDRLEN /\ Start(frames[k]) = at + skip
    <2>1. Base(frames[k]) = at + NLA_HDRLEN
      BY <1>5, <1>7 DEF Base
    <2>2. StructOf(frames[k]) = StructLen[t]
      BY <1>7 DEF StructOf
    <2>3. PICK s \in Nat : s = Align(StructLen[t])
      BY AlignUp, MsgAssumption
    <2> QED BY <1>14, <2>1, <2>2, <2>3 DEF Start, NLA_HDRLEN
  \* the reader of the container
  <1>16. Read(f, at + skip, n - skip) = its
    <2>1. CASE Began(frames[k])
      <3>1. PICK from \in Nat : from = at + skip
        OBVIOUS
      <3>2. Tiled(m.mem, from, tail, its)
        BY <1>1, <1>3, <1>4, <1>6, <1>9, <1>15, <2>1, <3>1 DEF Contents, EndOf
      <3>3. NLMSG_HDRLEN <= from /\ at < from
        BY <1>5, <1>14, <3>1 DEF NLMSG_HDRLEN, NLA_HDRLEN
      <3>4. SameIn(m.mem, m.size, f, m.size, from, tail)
        <4>1. \A p \in Words(tail) : p \in Words(m.size) /\ (from <= p => p # at)
          BY <1>6, <1>13, <3>3 DEF Words
        <4> QED BY <1>6, <1>13, <3>3, <4>1 DEF SameIn
      <3>5. from <= from /\ tail <= tail
        OBVIOUS
      <3>6. Tiled(f, from, tail, its)
        BY <3>2, <3>4, <3>5, TiledSame
      <3>7. Read(f, from, tail - from) = its
        BY <1>13, <3>6, ReadTiled
      <3>8. tail - from = n - skip
        BY <1>8, <3>1
      <3> QED BY <3>1, <3>7, <3>8
    <2>2. CASE ~Began(frames[k])
      <3>1. its = << >> /\ m.len = at + NLA_HDRLEN
        BY <1>1, <1>3, <1>4, <1>9, <1>15, <2>2 DEF Contents
      <3>2. tail = at + NLA_HDRLEN
        <4>1. PICK l \in Nat : l = at + NLA_HDRLEN
          BY DEF NLA_HDRLEN
        <4>2. l % ALIGNTO = 0
          BY <1>5, <4>1 DEF ALIGNTO, NLA_HDRLEN
        <4> QED BY <1>6, <3>1, <4>1, <4>2, AlignMultiple DEF nlmsg_tail
      <3>3. PICK r \in Int : r = n - skip /\ r < NLA_HDRLEN
        BY <1>8, <1>14, <3>2 DEF NLA_HDRLEN
      <3>4. PICK b \in Nat : b = at + skip
        OBVIOUS
      <3>5. Items(f)[r][b] = Round(f, Items(f), r, b)
        BY <1>13, ReadRound
      <3>6. Round(f, Items(f), r, b) = << >>
        BY <3>3, RoundSmall
      <3> QED BY <3>1, <3>3, <3>4, <3>5, <3>6 DEF Read
    <2> QED BY <2>1, <2>2
  <1>17. ItemAt(f, at) = item
    <2>1. PICK h : h = f[at]
      OBVIOUS
    <2>2. h.type = t /\ h.len = n
      BY <1>13, <2>1 DEF Header
    <2>3. \A x : Found(f, at, x) = Item(t, 0, x)
      BY <2>1, <2>2 DEF Found
    <2>4. ItemAt(f, at) = Found(f, at, Read(f, at + skip, n - skip))
      BY <1>14, <2>1, <2>2 DEF ItemAt
    <2> QED BY <1>10, <1>16, <2>3, <2>4
  \* the frames around it
  <1>18. PICK j \in Nat : j = k - 1 /\ j > 0 /\ j \in 1..k /\ j # k /\ j \in 1..j
    BY <1>4
  <1>19. /\ FrameSeq(Outer) /\ Len(Outer) = j
         /\ \A i \in 1..j : Outer[i] = frames[i]
    BY <1>1, <1>3, <1>4, <1>18, Before, TakeFrames DEF Outer
  <1>20. /\ Len(frames') = j
         /\ \A i \in 1..j : i # j => frames'[i] = frames[i]
         /\ frames'[j].type = frames[j].type /\ frames'[j].at = frames[j].at
         /\ frames'[j].struct = frames[j].struct
         /\ frames'[j].items = Append(frames[j].items, item)
    <2>1. /\ Len(frames') = j
          /\ \A i \in 1..j : i # j => frames'[i] = Outer[i]
          /\ frames'[j].type = Outer[j].type /\ frames'[j].at = Outer[j].at
          /\ frames'[j].struct = Outer[j].struct
          /\ frames'[j].items = Append(Outer[j].items, item)
      BY <1>12, <1>18, <1>19, PutIntoItems
    <2> QED BY <1>18, <1>19, <2>1
  <1>21. ASSUME NEW i \in 1..j
         PROVE  /\ Began(frames[i])
                /\ Tiled(f, Start(frames[i]), EndOf(frames, i, nlmsg_tail(m)),
                         frames[i].items)
    <2>0. i \in 1..Len(frames) /\ i # Len(frames) /\ i < k
      BY <1>3, <1>18
    <2>1. Began(frames[i])
      BY <1>1, <2>0, OuterBegan
    <2>2. EndOf(frames, i, nlmsg_tail(m)) <= at
      BY <1>1, <1>3, <1>4, <1>5, <2>0, Before, FrameBounds
    <2>3. at <= m.size /\ at <= m'.size
      BY <1>5, <1>6, <1>12, <1>13 DEF NLA_HDRLEN
    <2>4. \A p \in Words(at) : m'.mem[p] = m.mem[p]
      <3>1. \A p \in Words(at) : p \in Words(m.size) /\ p # at
        BY <1>13, <2>3 DEF Words
      <3> QED BY <1>12, <1>13, <3>1
    <2> QED BY <1>1, <1>2, <1>12, <2>0, <2>1, <2>2, <2>3, <2>4, Before, FrameKept
  <1>22. Tiled(f, Start(frames[j]), tail, Append(frames[j].items, item))
    <2>1. PICK from \in Nat : from = Start(frames[j])
      BY <1>1, <1>3, <1>18, Before, FrameBounds
    <2>2. PICK old : old = frames[j].items
      OBVIOUS
    <2>3. EndOf(frames, j, nlmsg_tail(m)) = at
      <3>1. j + 1 = k
        BY <1>18
      <3> QED BY <1>3, <1>5, <1>18, <3>1 DEF EndOf
    <2>4. Tiled(f, from, at, old)
      BY <1>18, <1>21, <2>1, <2>2, <2>3
    <2>5. at \in DOMAIN f /\ f[at].len = n
      BY <1>13 DEF Header
    <2>6. tail = at + Align(f[at].len)
      BY <1>8, <2>5
    <2>7. Tiled(f, from, tail, Append(old, item))
      BY <1>8, <1>17, <2>4, <2>5, <2>6, TiledMore
    <2> QED BY <2>1, <2>2, <2>7
  <1>23. /\ Began(frames'[j])
         /\ Tiled(m'.mem, Start(frames'[j]), EndOf(frames', j, nlmsg_tail(m')), frames'[j].items)
    <2>1. Began(frames[j])
      BY <1>18, <1>21
    <2>2. Start(frames'[j]) = Start(frames[j]) /\ Began(frames'[j])
      BY <1>20, <2>1, SameFrame
    <2>3. EndOf(frames', j, nlmsg_tail(m')) = tail
      BY <1>12, <1>20 DEF EndOf
    <2> QED BY <1>12, <1>20, <1>22, <2>2, <2>3
  <1>24. ASSUME NEW i \in 1..j, i # j
         PROVE  /\ Began(frames'[i])
                /\ Tiled(m'.mem, Start(frames'[i]), EndOf(frames', i, nlmsg_tail(m')),
                         frames'[i].items)
    <2>1. EndOf(frames', i, nlmsg_tail(m')) = EndOf(frames, i, nlmsg_tail(m))
      <3>1. i + 1 \in 1..j /\ i # k
        BY <1>18, <1>24
      <3>2. frames'[i + 1].at = frames[i + 1].at
        BY <1>20, <3>1
      <3> QED BY <1>3, <1>20, <1>24, <3>1, <3>2 DEF EndOf
    <2> QED BY <1>12, <1>20, <1>21, <1>24, <2>1
  <1> QED BY <1>20, <1>23, <1>24 DEF Contents

LEMMA NestEndContents ==
    ASSUME RInv, NEW keep \in BOOLEAN, nla_nest_end(keep)
    PROVE  Contents(frames', m')
  <1>1. IInv
    BY DEF RInv
  <1>2. Len(frames) > 1 /\ Len(frames) \in 2..Len(frames)
    BY <1>1, StructNat DEF nla_nest_end
  <1>3. PICK n : n = nlmsg_tail(m) - Open.at
    OBVIOUS
  <1>4. CASE nla_nest_cancel(Len(frames))
    BY <1>2, <1>4, CancelContents
  <1>5. CASE Close(n) /\ ~(n >= U16)
    <2>1. n \in Int /\ U16 \in Nat
      <3>1. Open.at \in Nat
        BY <1>1, <1>2, Before DEF Stacked, Open
      <3> QED BY <1>1, <1>3, <3>1, Before, MsgAssumption
    <2>2. n < U16
      BY <1>5, <2>1
    <2> QED BY <1>2, <1>3, <1>5, <2>2, CloseContents
  <1> QED BY <1>3, <1>4, <1>5 DEF nla_nest_end

LEMMA StepRInv == RInv /\ [Next]_vars => RInv'
  <1> SUFFICES ASSUME RInv, [Next]_vars PROVE RInv'
    OBVIOUS
  <1>1. IInv /\ Contents(frames, m)
    BY DEF RInv
  <1>2. IInv'
    BY <1>1, StepIInv
  <1>3. CASE \E s \in Sizes : nlmsg_alloc_size(s)
    BY <1>2, <1>3, AllocContents, RAfter DEF nlmsg_alloc_size
  <1>4. CASE \E s \in Sizes : nlmsg_expand(s)
    BY <1>2, <1>4, ExpandContents, RAfter
  <1>5. CASE \E pad \in {0, ALIGNTO} : nlmsg_append(pad)
    BY <1>2, <1>5, AppendContents, RAfter
  <1>6. CASE \E t \in AttrTypes, n \in PayloadLens : nla_put(t, n)
    BY <1>2, <1>6, PutContents, RAfter
  <1>7. CASE \E t \in NestTypes : nla_nest_start(t)
    BY <1>2, <1>7, NestStartContents, RAfter
  <1>8. CASE \E i \in 2..Len(frames) : nla_nest_cancel(i)
    BY <1>2, <1>8, CancelContents, RAfter
  <1>9. CASE \E keep \in BOOLEAN : nla_nest_end(keep)
    BY <1>2, <1>9, NestEndContents, RAfter
  <1>10. CASE UNCHANGED vars
    <2>1. frames' = frames /\ m' = m
      BY <1>10 DEF vars
    <2>2. Contents(frames', m')
      BY <1>1, <2>1
    <2> QED BY <1>2, <2>2, RAfter
  <1> QED BY <1>3, <1>4, <1>5, <1>6, <1>7, <1>8, <1>9, <1>10 DEF Next

LEMMA InitRInv == Init => RInv
  <1> SUFFICES ASSUME Init PROVE RInv
    OBVIOUS
  <1>1. PICK s \in Sizes : m = Allocated(s)
    BY DEF Init
  <1>2. frames = << Frame("message", 0) >>
    BY DEF Init
  <1>3. Contents(frames, m)
    BY <1>1, <1>2, AllocContents
  <1> QED BY <1>3, InitIInv DEF RInv

\* The reader of the message finds its attributes.
LEMMA ContentsReadable == RInv => Readable
  <1> SUFFICES ASSUME RInv, Len(frames) = 1, m.len % ALIGNTO = 0
               PROVE  Read(m.mem, AttrData, AttrLen) = frames[1].items
    BY DEF Readable
  <1>1. IInv /\ Contents(frames, m)
    BY DEF RInv
  <1>2. 1 \in 1..Len(frames) /\ frames[1].type = "message"
    BY <1>1, Before DEF Stacked
  <1>3. PICK len \in Nat : len = m.len
    BY <1>1, Before
  <1>4. nlmsg_tail(m) = len
    BY <1>3, AlignMultiple DEF nlmsg_tail
  <1>5. StructOf(frames[1]) = HdrLen /\ Base(frames[1]) = NLMSG_HDRLEN
        /\ Start(frames[1]) = AttrData
    BY <1>2 DEF StructOf, Base, Start, AttrData
  <1>6. PICK from \in Nat : from = AttrData /\ NLMSG_HDRLEN <= from
    <2>1. PICK a \in Nat : a = Align(HdrLen)
      BY AlignUp, MsgAssumption
    <2> QED BY <2>1 DEF AttrData, NLMSG_HDRLEN
  <1>7. m.mem \in [Words(m.size) -> Cells]
    BY <1>1, Before
  <1>8. CASE Began(frames[1])
    <2>1. EndOf(frames, 1, nlmsg_tail(m)) = len
      BY <1>4 DEF EndOf
    <2>2. Tiled(m.mem, from, len, frames[1].items)
      BY <1>1, <1>2, <1>5, <1>6, <1>8, <2>1 DEF Contents
    <2>3. from <= len
      BY <2>2, TiledOrder
    <2>4. AttrLen = len - from
      BY <1>3, <1>6, <2>3 DEF AttrLen
    <2>5. Read(m.mem, from, len - from) = frames[1].items
      BY <1>7, <2>2, ReadTiled
    <2> QED BY <1>6, <2>4, <2>5
  <1>9. CASE ~Began(frames[1])
    <2>1. m.len = NLMSG_HDRLEN /\ frames[1].items = << >>
      BY <1>1, <1>2, <1>5, <1>9 DEF Contents
    <2>2. AttrLen = 0
      BY <1>3, <1>6, <2>1 DEF AttrLen, NLMSG_HDRLEN
    <2>3. Items(m.mem)[0][from] = Round(m.mem, Items(m.mem), 0, from)
      BY <1>7, ReadRound
    <2>4. 0 < NLA_HDRLEN
      BY DEF NLA_HDRLEN
    <2>5. Round(m.mem, Items(m.mem), 0, from) = << >>
      BY <2>4, RoundSmall
    <2> QED BY <1>6, <2>1, <2>2, <2>3, <2>5 DEF Read
  <1> QED BY <1>8, <1>9

-----------------------------------------------------------------------------
(* The theorems.                                                           *)

\* The buffer is well formed and the open containers of msg.c and attr.c are
\* stacked in it, in every reachable state.
THEOREM Invariance == Spec => []IInv
  <1>1. Init => IInv
    BY InitIInv
  <1>2. IInv /\ [Next]_vars => IInv'
    BY StepIInv
  <1> QED BY <1>1, <1>2, PTL DEF Spec

\* Every variable keeps its type: nlmsg_len stays within nm_size, every
\* header in the buffer has a length that 16 bits hold.
THEOREM TypeCorrect == Spec => []TypeOK
  <1>1. ASSUME IInv PROVE TypeOK
    <2>1. m \in Message(m.size) /\ m.size \in Sizes
      <3>1. m.len \in (NLMSG_HDRLEN - ALIGNTO + 1)..m.size
        BY <1>1, Before DEF NLMSG_HDRLEN, ALIGNTO
      <3>2. m = [size |-> m.size, len |-> m.len, mem |-> m.mem]
        BY <1>1, Before DEF BufferOK
      <3> QED BY <1>1, <3>1, <3>2, Before DEF Message, Cells
    <2>2. ASSUME NEW i \in 1..Len(frames)
          PROVE  /\ frames[i].type \in Types
                 /\ frames[i].struct \in BOOLEAN
                 /\ frames[i].at \in 0..m.size /\ frames[i].at % ALIGNTO = 0
      <3>1. CASE i = 1
        BY <1>1, <3>1, Before DEF Stacked, Types, FrameSeq, ALIGNTO
      <3>2. CASE i # 1
        BY <1>1, <3>2, Before DEF Stacked, Types, FrameSeq, NLA_HDRLEN
      <3> QED BY <3>1, <3>2
    <2>3. Len(frames) > 0 /\ frames[1].type = "message" /\ bug \in BOOLEAN
      BY <1>1, Before DEF Stacked
    <2> QED BY <2>1, <2>2, <2>3 DEF TypeOK
  <1>2. Spec => []IInv
    BY Invariance
  <1> QED BY <1>1, <1>2, PTL

\* No BUG() of attr.c is reached and the message, with the tail where the
\* next attribute goes, stays in its buffer: nla_nest_end() always finds room
\* for the padding ("nlmsg_reserve() may never fail in this situation").
THEOREM StaysInBuffer == Spec => []InBuffer
  <1>1. IInv => InBuffer
    BY Before DEF InBuffer
  <1>2. Spec => []IInv
    BY Invariance
  <1> QED BY <1>1, <1>2, PTL

\* nla_nest_cancel() at any depth leaves the buffer as it was before the
\* container was opened: the next attribute goes where the container was,
\* nothing before it changed and what it had written is zero.
THEOREM CancelsRestore == Spec => CancelRestores
  <1>1. IInv /\ [Next]_vars =>
           [\A i \in 2..Len(frames) : nla_nest_cancel(i) =>
              /\ nlmsg_tail(m') = frames[i].at
              /\ \A p \in DOMAIN m.mem :
                    /\ p < frames[i].at => m'.mem[p] = m.mem[p]
                    /\ p \in frames[i].at..(nlmsg_tail(m) - 1)
                          => m'.mem[p] = Zero]_vars
    BY NestCancel
  <1>2. Spec => []IInv
    BY Invariance
  <1> QED BY <1>1, <1>2, PTL DEF Spec, CancelRestores

\* Whatever is put into a message, nested to any depth, cancelled or found
\* too large, the reader of attr.h finds exactly the attributes that were put
\* and not cancelled, in order and with their contents, for any payloads,
\* structures and buffer sizes.
THEOREM ReaderFindsAll == Spec => []Readable
  <1>1. Init => RInv
    BY InitRInv
  <1>2. RInv /\ [Next]_vars => RInv'
    BY StepRInv
  <1>3. RInv => Readable
    BY ContentsReadable
  <1> QED BY <1>1, <1>2, <1>3, PTL DEF Spec
=============================================================================
