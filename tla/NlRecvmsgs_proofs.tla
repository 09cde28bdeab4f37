------------------------- MODULE NlRecvmsgs_proofs -------------------------
(***************************************************************************)
(* Requests, replies and sequence numbers of one socket, for any number of *)
(* requests, dumps and notifications and any size of the receive queue.    *)
(***************************************************************************)
EXTENDS NlRecvmsgs, NlInduction, FiniteSetTheorems, SequenceTheorems, TLAPS

-----------------------------------------------------------------------------
(* The invariants.                                                         *)

\* The messages of a datagram, of a queue of datagrams, and all that the
\* kernel or somebody else sent and no call has disposed of.
Elems(d)  == {d[j] : j \in DOMAIN d}
Queued(q) == UNION {Elems(q[i]) : i \in DOMAIN q}
Flying    == Queued(rxq) \cup Elems(buf)

\* The types, but for bounds that take an argument.
Shape ==
    /\ seqNext \in StartSeq..(StartSeq + MaxReq) /\ seqExpect \in Nat
    /\ autoAck \in BOOLEAN /\ hooks \subseteq Hooks
    /\ stage \in {"idle", "read"} \cup Stages
    /\ call \in {"none", "recv", "wait", "sync"}
    /\ multipart \in BOOLEAN /\ interrupted \in BOOLEAN /\ overrun \in BOOLEAN
    /\ result \in Results
    /\ events \in Nat /\ strays \in Nat /\ events + strays <= MaxEvents
    /\ outcome \in [Seqs -> {"pending", "ok", "error"}]
    /\ sync \in [seq : Seqs, clean : BOOLEAN]
    /\ open \subseteq Seqs /\ untold \subseteq Seqs

Queues ==
    /\ buf \in Seq(Msg)
    /\ requests \in Seq([seq : Seqs, kind : Kinds, ack : BOOLEAN])
    /\ dump \in [seq : Seqs, left : 0..MaxParts]
    /\ rxq \in Seq(Seq(Msg) \ {<<>>})
    /\ stage \in Stages \ {"msg_in"} => buf # <<>>
    /\ stage \in {"idle", "read"} => buf = <<>>

\* A request that waits has a number of its own, which no message, dump or
\* earlier request has.
Waits ==
    /\ \A i \in DOMAIN requests :
          LET q == requests[i].seq
          IN  /\ q # 0 /\ q < seqNext /\ q \notin open
              /\ outcome[q] = "pending"
              /\ dump.seq # q
              /\ \A x \in Flying : x.seq # q
    /\ \A i, j \in DOMAIN requests : i < j => requests[i].seq < requests[j].seq
    /\ \A q \in Seqs : q >= seqNext => outcome[q] = "pending"

\* A message is no reply, or tells what the kernel decided; those of a dump,
\* and only those, are parts of a multipart message.
Replies ==
    /\ \A x \in Flying :
          /\ x.seq < seqNext
          /\ x.seq # 0 => outcome[x.seq] = IF x.type = "ERROR" THEN "error"
                                           ELSE "ok"
          /\ x.multi => x.seq # 0 /\ x.type \in {"VALID", "DONE"}
          /\ x.intr => x.multi
          /\ x.seq = 0 => x.type \notin {"ACK", "ERROR", "DONE"}
    /\ \A x, y \in Flying : x.seq = y.seq /\ x.multi => y.multi
    /\ dump # NoDump => /\ dump.seq # 0 /\ dump.seq < seqNext
                        /\ outcome[dump.seq] = "ok"
                        /\ \A x \in Flying : x.seq = dump.seq => x.multi
    /\ \A q \in open : /\ q # 0 /\ q < seqNext
                       /\ \A x \in Flying : x.seq = q => x.multi

\* An interruption not yet reported is remembered by the running call.
Remembered == untold # {} => interrupted /\ stage # "idle"

IInv == Shape /\ Queues /\ Waits /\ Replies /\ Remembered

\* After a clean nl_send_sync() only its own request is answered.
Alone ==
    /\ sync.seq # 0
    /\ \A i \in DOMAIN requests : requests[i].seq = sync.seq
    /\ dump # NoDump => dump.seq = sync.seq
    /\ \A x \in Flying : x.seq \in {0, sync.seq}

\* The messages that pass the sequence check are its answer.
Asked ==
    /\ Alone
    /\ stage # "idle" => autoAck /\ seqExpect \in {sync.seq, sync.seq + 1}
    /\ stage = "count" => m.seq = seqExpect
    /\ stage \in {"count", "send_ack", "type"} => m.seq = sync.seq
    /\ stage = "msg_in" /\ buf = <<>> => outcome[sync.seq] = "ok"
    /\ stage = "idle" => /\ result = "ok" => outcome[sync.seq] = "ok"
                         /\ result = "kernel_error" => outcome[sync.seq] = "error"

SyncInv == call = "sync" /\ sync.clean /\ hooks \subseteq PassiveHooks => Asked

\* The application checks sequence numbers, and its hooks neither stop a
\* call nor hide messages from the check.
Attentive ==
    /\ "options" \notin Hazards
    /\ HookVerdicts \subseteq {"OK", "SKIP"}
    /\ \A H \in HookSets : H \cap {"MSG_IN", "SEQ_CHECK", "INVALID"} = {}

\* The dump that is half read is the one expected, and the running call
\* knows that it reads a multipart message.
HalfInv ==
    /\ hooks \in HookSets /\ autoAck = TRUE
    /\ open \subseteq {seqExpect}
    /\ stage = "count" => m.seq = seqExpect
    /\ open # {} => /\ stage \in {"send_ack", "type"} => multipart /\ m.type = "VALID"
                    /\ stage = "msg_in" /\ buf = <<>> => multipart
    /\ NoHalfDump

-----------------------------------------------------------------------------
(* Messages of datagrams and queues.                                       *)

LEMMA ElemsOfTail ==
    ASSUME NEW S, NEW d \in Seq(S), d # <<>>
    PROVE  /\ Elems(Tail(d)) \subseteq Elems(d)
           /\ Head(d) \in Elems(d) /\ Head(d) \in S /\ Tail(d) \in Seq(S)
  BY HeadTailProperties DEF Elems

LEMMA ElemsOfTuples ==
    /\ Elems(<<>>) = {}
    /\ \A x : Elems(<<x>>) = {x}
    /\ \A x, y : Elems(<<x, y>>) = {x, y}
  <1>1. DOMAIN <<>> = {} /\ \A x : DOMAIN <<x>> = {1}
    OBVIOUS
  <1>2. \A x, y : DOMAIN <<x, y>> = {1, 2}
    OBVIOUS
  <1> QED BY <1>1, <1>2 DEF Elems

LEMMA QueuedOfTail ==
    ASSUME NEW S, NEW q \in Seq(S), q # <<>>
    PROVE  /\ Queued(Tail(q)) \subseteq Queued(q)
           /\ Elems(Head(q)) \subseteq Queued(q)
  <1>1. \A i \in DOMAIN Tail(q) : i + 1 \in DOMAIN q /\ Tail(q)[i] = q[i + 1]
    BY HeadTailProperties
  <1>2. 1 \in DOMAIN q /\ Head(q) = q[1]
    OBVIOUS
  <1> QED BY <1>1, <1>2 DEF Queued

LEMMA QueuedOfConcat ==
    ASSUME NEW S, NEW q \in Seq(S), NEW r \in Seq(S)
    PROVE  Queued(q \o r) \subseteq Queued(q) \cup Queued(r)
  <1>1. \A i \in DOMAIN (q \o r) :
           \/ i \in DOMAIN q /\ (q \o r)[i] = q[i]
           \/ i - Len(q) \in DOMAIN r /\ (q \o r)[i] = r[i - Len(q)]
    BY ConcatProperties
  <1> QED BY <1>1 DEF Queued

LEMMA QueuedOfAppend ==
    ASSUME NEW S, NEW q \in Seq(S), NEW d \in S
    PROVE  Queued(Append(q, d)) \subseteq Queued(q) \cup Elems(d)
  <1>1. \A i \in DOMAIN Append(q, d) :
           \/ i \in DOMAIN q /\ Append(q, d)[i] = q[i]
           \/ Append(q, d)[i] = d
    BY AppendProperties
  <1> QED BY <1>1 DEF Queued

-----------------------------------------------------------------------------
(* The steps of recvmsgs() keep the invariant.                             *)

\* What a step that only disposes of messages leaves alone.
LEMMA FewerFlying ==
    ASSUME IInv, Flying' \subseteq Flying,
           UNCHANGED <<seqNext, requests, dump, outcome, open>>
    PROVE  Waits' /\ Replies'
  <1>1. Waits'
    BY DEF IInv, Waits
  <1>2. Replies'
    BY DEF IInv, Replies, NoDump
  <1> QED BY <1>1, <1>2

\* To the next stage or the next message.
LEMMA GotoKeepsIInv ==
    ASSUME IInv, stage \in Stages, buf # <<>>, NEW n \in Stages,
           NEW mp \in BOOLEAN, Goto(n, mp),
           UNCHANGED <<sockVars, open>>, Elsewhere
    PROVE  IInv'
  <1> USE DEF sockVars, kernelVars, Elsewhere, Goto
  <1>1. buf \in Seq(Msg)
    BY DEF IInv, Queues
  <1>2. buf' \in Seq(Msg) /\ Elems(buf') \subseteq Elems(buf)
    BY <1>1, ElemsOfTail
  <1>3. Waits' /\ Replies'
    <2>1. Flying' \subseteq Flying
      BY <1>2 DEF Flying
    <2> QED BY <2>1, FewerFlying
  <1>4. Shape'
    BY DEF IInv, Shape
  <1>5. Queues'
    BY <1>2 DEF IInv, Queues, Stages
  <1>6. Remembered'
    BY DEF IInv, Remembered, Stages
  <1> QED BY <1>3, <1>4, <1>5, <1>6 DEF IInv

\* Back to the caller, with a datagram lost or not.
LEMMA ReturnKeepsIInv ==
    ASSUME IInv, NEW r \in Results, Return(r), r = "ok" => interrupted = FALSE,
           overrun' \in BOOLEAN, rxq' = rxq \/ (rxq # <<>> /\ rxq' = Tail(rxq)),
           UNCHANGED <<sockVars, requests, dump, outcome, events, strays, sync,
                       open>>
    PROVE  IInv'
  <1> USE DEF sockVars, Return
  <1>1. rxq \in Seq(Seq(Msg) \ {<<>>})
    BY DEF IInv, Queues
  <1>2. rxq' \in Seq(Seq(Msg) \ {<<>>}) /\ Queued(rxq') \subseteq Queued(rxq)
    BY <1>1, QueuedOfTail, HeadTailProperties
  <1>3. Waits' /\ Replies'
    <2>1. Flying' \subseteq Flying
      BY <1>2, ElemsOfTuples DEF Flying
    <2> QED BY <2>1, FewerFlying
  <1>4. Shape'
    BY DEF IInv, Shape
  <1>5. Queues'
    BY <1>2 DEF IInv, Queues, Stages
  <1>6. Remembered'
    BY DEF IInv, Remembered, Stages
  <1> QED BY <1>3, <1>4, <1>5, <1>6 DEF IInv

LEMMA LeaveKeepsIInv ==
    ASSUME IInv, NEW r \in Results, Leave(r),
           UNCHANGED <<sockVars, open>>, Elsewhere
    PROVE  IInv'
  <1> DEFINE s == IF interrupted THEN "dump_intr" ELSE r
  <1>1. s \in Results /\ Return(s)
    BY DEF Leave, Results
  <1>2. s = "ok" => interrupted = FALSE
    BY DEF IInv, Shape
  <1>3. overrun' \in BOOLEAN
    BY DEF IInv, Shape, Elsewhere, kernelVars
  <1> HIDE DEF s
  <1> QED BY <1>1, <1>2, <1>3, ReturnKeepsIInv DEF Elsewhere, kernelVars

\* A hook decides: on, over this message, or out.
LEMMA HookMoves ==
    ASSUME NEW h, NEW n, NEW mp, NL_CB_CALL(h, n, mp)
    PROVE  \/ Goto(n, mp) \/ Goto("msg_in", mp)
           \/ Leave("ok") \/ Leave("hook_error")
  BY DEF NL_CB_CALL

\* A stage of a message, but for the counting, ends in one of these ways.
Moves ==
    \/ \E n \in Stages, mp \in BOOLEAN : Goto(n, mp)
    \/ \E r \in Results : Leave(r)

LEMMA MovesKeepIInv ==
    ASSUME IInv, stage \in Stages, buf # <<>>, Moves,
           UNCHANGED <<sockVars, open>>, Elsewhere
    PROVE  IInv'
  BY GotoKeepsIInv, LeaveKeepsIInv DEF Moves

LEMMA StagesMove ==
    ASSUME IInv, ConvertNomem \/ MsgIn \/ SeqCheck \/ SendAck \/ HandleType
    PROVE  /\ stage \in Stages /\ buf # <<>> /\ Moves
           /\ UNCHANGED <<sockVars, open>> /\ Elsewhere
  <1> USE DEF AtStage
  <1>1. multipart \in BOOLEAN
    BY DEF IInv, Shape
  <1>2. ASSUME NEW h, NEW n \in Stages, NEW mp \in BOOLEAN, NL_CB_CALL(h, n, mp)
        PROVE  Moves
    BY <1>2, HookMoves DEF Moves, Stages, Results
  <1>3. ASSUME NEW n \in Stages, NEW mp \in BOOLEAN, Goto(n, mp)
        PROVE  Moves
    BY <1>3 DEF Moves
  <1>4. ASSUME NEW r \in Results, Leave(r)
        PROVE  Moves
    BY <1>4 DEF Moves
  <1>5. CASE ConvertNomem
    BY <1>5, <1>4 DEF ConvertNomem, Stages, Results
  <1>6. CASE MsgIn
    BY <1>6, <1>1, <1>2, <1>3 DEF MsgIn, Hook, Stages
  <1>7. CASE SeqCheck
    BY <1>7, <1>1, <1>2, <1>3, <1>4 DEF SeqCheck, Hook, Stages, Results
  <1>8. CASE SendAck
    BY <1>8, <1>1, <1>2, <1>3 DEF SendAck, Hook, Stages
  <1>9. CASE HandleType
    <2>1. ASSUME ErrHook PROVE Moves
      BY <2>1, <1>1, <1>3, <1>4 DEF ErrHook, Stages, Results
    <2>2. stage \in Stages /\ buf # <<>> /\ UNCHANGED <<sockVars, open>> /\ Elsewhere
      BY <1>9 DEF HandleType, Stages
    <2>3. "msg_in" \in Stages /\ {"overflow", "trunc", "kernel_error"} \subseteq Results
      BY DEF Stages, Results
    <2>4. Moves
      BY <1>9, <2>1, <2>3, <1>1, <1>2, <1>3, <1>4 DEF HandleType, Hook
    <2> QED BY <2>2, <2>4
  <1> QED BY <1>5, <1>6, <1>7, <1>8, <1>9

LEMMA EndOfDatagramKeepsIInv ==
    ASSUME IInv, EndOfDatagram
    PROVE  IInv'
  <1>1. CASE multipart
    <2>1. UNCHANGED <<seqNext, seqExpect, autoAck, hooks, call, buf, multipart,
                      interrupted, result, untold, requests, dump, rxq, overrun,
                      outcome, events, strays, sync, open>>
      BY <1>1 DEF EndOfDatagram, sockVars, Elsewhere, kernelVars
    <2>2. stage' = "read" /\ stage = "msg_in" /\ buf = <<>>
      BY <1>1 DEF EndOfDatagram
    <2>3. Waits' /\ Replies'
      BY <2>1, FewerFlying DEF Flying
    <2>4. Shape' /\ Remembered'
      BY <2>1, <2>2 DEF IInv, Shape, Remembered
    <2>5. Queues'
      BY <2>1, <2>2 DEF IInv, Queues, Stages
    <2> QED BY <2>3, <2>4, <2>5 DEF IInv
  <1>2. CASE ~multipart
    BY <1>2, LeaveKeepsIInv DEF EndOfDatagram, Results
  <1> QED BY <1>1, <1>2

LEMMA ReadsKeepIInv ==
    ASSUME IInv,
           ReadDatagram \/ ReadNobufs \/ ReadAgain \/ ReadTruncated \/ ReadNomem
    PROVE  IInv'
  <1>1. overrun \in BOOLEAN
    BY DEF IInv, Shape
  <1>2. CASE ReadDatagram
    <2>1. UNCHANGED <<seqNext, seqExpect, autoAck, hooks, call, multipart,
                      interrupted, result, untold, requests, dump, overrun,
                      outcome, events, strays, sync, open>>
      BY <1>2 DEF ReadDatagram, sockVars, histVars
    <2>2. /\ stage' = "msg_in" /\ stage = "read" /\ rxq # <<>>
          /\ buf' = Head(rxq) /\ rxq' = Tail(rxq)
      BY <1>2 DEF ReadDatagram
    <2>3. rxq \in Seq(Seq(Msg) \ {<<>>})
      BY DEF IInv, Queues
    <2>4. buf' \in Seq(Msg) /\ rxq' \in Seq(Seq(Msg) \ {<<>>})
      BY <2>2, <2>3, HeadTailProperties
    <2>5. Flying' \subseteq Flying
      BY <2>2, <2>3, QueuedOfTail DEF Flying
    <2>6. Waits' /\ Replies'
      BY <2>1, <2>5, FewerFlying
    <2>7. Shape' /\ Remembered'
      BY <2>1, <2>2 DEF IInv, Shape, Remembered, Stages
    <2>8. Queues'
      BY <2>1, <2>2, <2>4 DEF IInv, Queues, Stages
    <2> QED BY <2>6, <2>7, <2>8 DEF IInv
  <1>3. CASE ReadNobufs
    BY <1>3, ReturnKeepsIInv DEF ReadNobufs, Results
  <1>4. CASE ReadAgain
    BY <1>4, <1>1, ReturnKeepsIInv DEF ReadAgain, Results, kernelVars
  <1>5. CASE ReadTruncated
    BY <1>5, <1>1, ReturnKeepsIInv DEF ReadTruncated, Results
  <1>6. CASE ReadNomem
    BY <1>6, <1>1, ReturnKeepsIInv DEF ReadNomem, Results, kernelVars
  <1> QED BY <1>2, <1>3, <1>4, <1>5, <1>6

\* The message at hand and its number.
LEMMA AtHand ==
    ASSUME IInv, buf # <<>>
    PROVE  /\ m \in Flying /\ m \in Msg /\ m.seq \in Nat /\ m.seq \in Seqs
           /\ m.seq < seqNext
  <1>1. buf \in Seq(Msg)
    BY DEF IInv, Queues
  <1>2. m \in Flying /\ m \in Msg
    BY <1>1, ElemsOfTail DEF m, Flying
  <1>3. m.seq \in Seqs
    BY <1>2 DEF Msg
  <1>4. m.seq \in Nat
    BY <1>3, RecvAssumption DEF Seqs
  <1> QED BY <1>2, <1>3, <1>4 DEF IInv, Replies

\* How the counting ends: as a stage does, or with the interruption noted.
Noted ==
    /\ m.intr
    /\ interrupted' = TRUE
    /\ untold' = untold \cup {m.seq}
    /\ stage' = "send_ack"
    /\ multipart' \in BOOLEAN
    /\ UNCHANGED <<call, buf, result>>

LEMMA CountMoves ==
    ASSUME IInv, Count
    PROVE  /\ stage = "count" /\ buf # <<>> /\ (Moves \/ Noted)
           /\ UNCHANGED <<seqNext, autoAck, hooks>> /\ Elsewhere
           /\ Advance
           /\ open' = IF ~m.multi THEN open
                      ELSE IF m.type = "DONE" THEN open \ {m.seq}
                      ELSE open \cup {m.seq}
  <1>1. stage = "count" /\ buf # <<>>
    BY DEF Count, AtStage
  <1>2. PICK mp \in BOOLEAN : mp = (multipart \/ m.multi)
    OBVIOUS
  <1>3. ASSUME NL_CB_CALL("DUMP_INTR", "send_ack", mp) PROVE Moves
    BY <1>3, HookMoves DEF Moves, Stages, Results
  <1>4. ASSUME Goto("send_ack", mp) PROVE Moves
    BY <1>4 DEF Moves, Stages
  <1>5. Moves \/ Noted
    BY <1>2, <1>3, <1>4 DEF Count, Hook, Noted
  <1> QED BY <1>1, <1>5 DEF Count

LEMMA CountKeepsIInv ==
    ASSUME IInv, Count
    PROVE  IInv'
  <1> USE CountMoves
  <1>1. buf \in Seq(Msg)
    BY DEF IInv, Queues
  <1>2. buf' \in Seq(Msg) /\ Elems(buf') \subseteq Elems(buf)
    <2>1. buf' = buf \/ buf' = Tail(buf) \/ buf' = <<>>
      BY DEF Moves, Noted, Goto, Leave, Return
    <2>2. <<>> \in Seq(Msg) /\ Elems(<<>>) = {}
      BY ElemsOfTuples
    <2>3. Tail(buf) \in Seq(Msg) /\ Elems(Tail(buf)) \subseteq Elems(buf)
      BY <1>1, ElemsOfTail
    <2> QED BY <1>1, <2>1, <2>2, <2>3
  <1>3. UNCHANGED <<seqNext, autoAck, hooks, requests, dump, rxq, overrun,
                    outcome, events, strays, sync>>
    BY DEF Elsewhere, kernelVars
  <1>4. Flying' \subseteq Flying
    BY <1>2, <1>3 DEF Flying
  <1>5. m \in Flying /\ m.seq \in Nat /\ m.seq \in Seqs /\ m.seq < seqNext
    BY AtHand
  <1>6. /\ open' \subseteq open \cup {m.seq}
        /\ m.seq \in open' => m.multi
    BY <1>5 DEF IInv, Replies
  <1>7. Waits'
    BY <1>3, <1>4, <1>5, <1>6 DEF IInv, Waits
  <1>8. Replies'
    <2>1. \A q \in open' : /\ q # 0 /\ q < seqNext
                           /\ \A x \in Flying : x.seq = q => x.multi
      BY <1>5, <1>6 DEF IInv, Replies
    <2> QED BY <1>3, <1>4, <2>1 DEF IInv, Replies, NoDump
  <1>9. Shape'
    <2>1. open' \subseteq Seqs
      BY <1>5, <1>6 DEF IInv, Shape
    <2>2. seqExpect' \in Nat
      BY DEF Advance, IInv, Shape
    <2>3. /\ stage' \in {"idle", "read"} \cup Stages
          /\ call' = call /\ multipart' \in BOOLEAN /\ interrupted' \in BOOLEAN
          /\ result' \in Results /\ untold' \subseteq untold \cup {m.seq}
      BY DEF Moves, Noted, Goto, Leave, Return, Stages, Results, IInv, Shape
    <2>4. untold' \subseteq Seqs
      BY <2>3, <1>5 DEF IInv, Shape
    <2> QED BY <1>3, <2>1, <2>2, <2>3, <2>4 DEF IInv, Shape
  <1>10. Queues'
    <2>1. /\ stage' \in Stages \ {"msg_in"} => buf' = buf
          /\ stage' = "idle" => buf' = <<>>
          /\ stage' # "read"
      BY DEF Moves, Noted, Goto, Leave, Return, Stages
    <2> QED BY <1>2, <1>3, <2>1 DEF IInv, Queues, Stages
  <1>11. Remembered'
    BY DEF Moves, Noted, Goto, Leave, Return, Stages, IInv, Remembered
  <1> QED BY <1>7, <1>8, <1>9, <1>10, <1>11 DEF IInv

-----------------------------------------------------------------------------
(* The application's steps.                                                *)

LEMMA Numbers ==
    ASSUME IInv
    PROVE  /\ Seqs \subseteq Nat /\ seqNext \in Nat /\ seqNext \in Seqs
           /\ seqNext # 0 /\ 0 \in Seqs
           /\ Flying \subseteq Msg
           /\ \A x \in Flying : x.seq \in Nat /\ x.seq \in Seqs
           /\ \A q \in open : q \in Nat
           /\ \A i \in DOMAIN requests :
                 /\ requests[i] \in [seq : Seqs, kind : Kinds, ack : BOOLEAN]
                 /\ requests[i].seq \in Nat /\ requests[i].seq \in Seqs
           /\ dump.seq \in Nat /\ dump.seq \in Seqs
  <1>1. Seqs \subseteq Nat /\ seqNext \in Nat /\ seqNext \in Seqs /\ seqNext # 0 /\ 0 \in Seqs
    BY RecvAssumption DEF IInv, Shape, Seqs
  <1>2. Flying \subseteq Msg
    <2>1. buf \in Seq(Msg) /\ rxq \in Seq(Seq(Msg))
      BY DEF IInv, Queues
    <2> QED BY <2>1 DEF Flying, Queued, Elems
  <1>3. \A x \in Flying : x.seq \in Seqs
    BY <1>2 DEF Msg
  <1>4. open \subseteq Seqs
    BY DEF IInv, Shape
  <1>5. \A i \in DOMAIN requests :
           requests[i] \in [seq : Seqs, kind : Kinds, ack : BOOLEAN]
    <2> DEFINE R == [seq : Seqs, kind : Kinds, ack : BOOLEAN]
    <2>1. requests \in Seq(R)
      BY DEF IInv, Queues
    <2> HIDE DEF R
    <2>2. \A i \in DOMAIN requests : requests[i] \in R
      BY <2>1
    <2> QED BY <2>2 DEF R
  <1>6. \A i \in DOMAIN requests : requests[i].seq \in Seqs
    BY <1>5
  <1>7. dump.seq \in Seqs
    BY DEF IInv, Queues
  <1> QED BY <1>1, <1>2, <1>3, <1>4, <1>5, <1>6, <1>7

\* A step that neither sends nor receives keeps what is on its way.
LEMMA SameFlying ==
    ASSUME IInv, UNCHANGED <<requests, dump, outcome, open, rxq, buf>>,
           seqNext' \in Nat, seqNext' >= seqNext
    PROVE  Waits' /\ Replies'
  <1>1. Flying' = Flying
    BY DEF Flying
  <1>2. Waits'
    BY <1>1, Numbers DEF IInv, Waits
  <1>3. Replies'
    BY <1>1, Numbers DEF IInv, Replies, NoDump
  <1> QED BY <1>2, <1>3

\* A new request has a number that nothing else has.
LEMMA SendKeepsIInv ==
    ASSUME IInv, NEW k \in Kinds, SendAuto(k),
           stage' \in {"idle", "read"}, call' \in {"none", "recv", "wait", "sync"},
           result' \in Results, sync' \in [seq : Seqs, clean : BOOLEAN],
           UNCHANGED <<seqExpect, autoAck, hooks, buf, multipart, interrupted,
                       dump, rxq, overrun, outcome, events, strays, open, untold>>
    PROVE  IInv'
  <1> DEFINE r == [seq |-> seqNext, kind |-> k, ack |-> autoAck]
             R == [seq : Seqs, kind : Kinds, ack : BOOLEAN]
  <1>1. /\ seqNext' = seqNext + 1 /\ seqNext < StartSeq + MaxReq /\ stage = "idle"
        /\ requests' = Append(requests, r)
    BY DEF SendAuto, MaySend, UseSeq
  <1>2. r \in R /\ requests \in Seq(R)
    BY Numbers DEF IInv, Shape, Queues
  <1>3. Shape'
    BY <1>1, RecvAssumption DEF IInv, Shape
  <1>4. r.seq = seqNext
    OBVIOUS
  <1> HIDE DEF r, R
  <1>5. /\ requests' \in Seq(R)
        /\ DOMAIN requests' = 1..Len(requests) + 1
        /\ DOMAIN requests = 1..Len(requests) /\ Len(requests) \in Nat
        /\ \A i \in DOMAIN requests : requests'[i] = requests[i]
        /\ requests'[Len(requests) + 1] = r
    BY <1>1, <1>2, AppendProperties
  <1>6. Queues'
    BY <1>1, <1>5 DEF IInv, Queues, R, Stages
  <1>7. Flying' = Flying
    BY DEF Flying
  <1>8. Waits'
    <2>1. ASSUME NEW i \in DOMAIN requests'
          PROVE  LET q == requests'[i].seq
                 IN  /\ q # 0 /\ q < seqNext' /\ q \notin open'
                     /\ outcome'[q] = "pending"
                     /\ dump'.seq # q
                     /\ \A x \in Flying' : x.seq # q
      <3>1. CASE i \in DOMAIN requests
        BY <3>1, <1>1, <1>5, <1>7, Numbers DEF IInv, Waits
      <3>2. CASE i = Len(requests) + 1
        <4>1. requests'[i].seq = seqNext
          BY <3>2, <1>4, <1>5
        <4>2. seqNext \notin open /\ \A x \in Flying : x.seq # seqNext
          BY Numbers DEF IInv, Replies
        <4>3. dump.seq # seqNext
          BY Numbers DEF IInv, Replies, NoDump
        <4>4. outcome[seqNext] = "pending"
          BY Numbers DEF IInv, Waits
        <4> QED BY <4>1, <4>2, <4>3, <4>4, <1>1, <1>7, Numbers
      <3> QED BY <3>1, <3>2, <1>5
    <2>2. ASSUME NEW i \in DOMAIN requests', NEW j \in DOMAIN requests', i < j
          PROVE  requests'[i].seq < requests'[j].seq
      <3>1. i \in DOMAIN requests
        BY <2>2, <1>5
      <3>2. CASE j \in DOMAIN requests
        BY <2>2, <3>1, <3>2, <1>5 DEF IInv, Waits
      <3>3. CASE j = Len(requests) + 1
        BY <3>1, <3>3, <1>4, <1>5 DEF IInv, Waits
      <3> QED BY <3>2, <3>3, <1>5
    <2>3. \A q \in Seqs : q >= seqNext' => outcome'[q] = "pending"
      BY <1>1, Numbers DEF IInv, Waits
    <2> QED BY <2>1, <2>2, <2>3 DEF Waits
  <1>9. Replies'
    BY <1>1, <1>7, Numbers DEF IInv, Replies, NoDump
  <1>10. Remembered'
    BY <1>1 DEF IInv, Remembered
  <1> QED BY <1>3, <1>6, <1>8, <1>9, <1>10 DEF IInv

LEMMA ApplicationKeepsIInv ==
    ASSUME IInv, Application
    PROVE  IInv'
  <1>1. ASSUME NEW k \in Kinds, nl_send_auto(k) PROVE IInv'
    BY <1>1, SendKeepsIInv
    DEF nl_send_auto, histVars, Results, IInv, Shape, SendAuto, MaySend
  <1>2. ASSUME NEW k \in Kinds, nl_send_sync(k) PROVE IInv'
    <2>1. sync' \in [seq : Seqs, clean : BOOLEAN]
      BY <1>2, Numbers DEF nl_send_sync
    <2>2. /\ stage' \in {"idle", "read"} /\ result' \in Results
          /\ call' \in {"none", "recv", "wait", "sync"}
          /\ UNCHANGED <<buf, multipart, interrupted>>
      BY <1>2 DEF nl_send_sync, Enter, Results, SendAuto, MaySend
    <2> QED BY <1>2, <2>1, <2>2, SendKeepsIInv DEF nl_send_sync
  <1>3. CASE nl_send_auto_fails \/ nl_socket_use_seq
    <2>1. /\ seqNext' = seqNext + 1 /\ seqNext < StartSeq + MaxReq
          /\ UNCHANGED <<seqExpect, autoAck, hooks, stage, buf, multipart,
                         interrupted, requests, dump, rxq, overrun, outcome,
                         events, strays, sync, open, untold>>
      BY <1>3 DEF nl_send_auto_fails, nl_socket_use_seq, MaySend, UseSeq,
                  callVars, kernelVars, histVars
    <2>2. call' \in {"none", call} /\ result' \in {"hook_error", "ok", result}
      BY <1>3 DEF nl_send_auto_fails, nl_socket_use_seq, callVars
    <2>3. Shape'
      BY <2>1, <2>2, RecvAssumption DEF IInv, Shape, Results
    <2>4. Waits' /\ Replies'
      BY <2>1, Numbers, SameFlying
    <2>5. Queues' /\ Remembered'
      BY <2>1 DEF IInv, Queues, Remembered
    <2> QED BY <2>3, <2>4, <2>5 DEF IInv
  <1>4. CASE \/ \E on \in BOOLEAN : SetAutoAck(on)
             \/ nl_socket_disable_seq_check
    <2>1. UNCHANGED <<seqNext, seqExpect, stage, call, buf, multipart,
                      interrupted, result, requests, dump, rxq, overrun, outcome,
                      events, strays, sync, open, untold>>
      BY <1>4 DEF SetAutoAck, nl_socket_disable_seq_check, callVars, kernelVars,
                  histVars
    <2>2. autoAck' \in BOOLEAN /\ hooks' \subseteq Hooks
      BY <1>4 DEF SetAutoAck, nl_socket_disable_seq_check, Hooks, IInv, Shape
    <2>3. Waits' /\ Replies'
      BY <2>1, Numbers, SameFlying
    <2>4. Shape'
      BY <2>1, <2>2 DEF IInv, Shape
    <2>5. Queues' /\ Remembered'
      BY <2>1 DEF IInv, Queues, Remembered
    <2> QED BY <2>3, <2>4, <2>5 DEF IInv
  <1>5. CASE nl_recvmsgs_default \/ nl_wait_for_ack
    <2>1. /\ UNCHANGED <<seqNext, seqExpect, autoAck, hooks, buf, multipart,
                        interrupted, requests, dump, rxq, overrun, outcome,
                        events, strays, sync, open, untold>>
          /\ stage = "idle" /\ stage' = "read" /\ call' \in {"recv", "wait"}
          /\ result' = "none"
      BY <1>5 DEF nl_recvmsgs_default, nl_wait_for_ack, Enter, sockVars,
                  kernelVars, histVars
    <2>2. Waits' /\ Replies'
      BY <2>1, Numbers, SameFlying
    <2>3. Shape'
      BY <2>1 DEF IInv, Shape, Results
    <2>4. Queues' /\ Remembered'
      BY <2>1 DEF IInv, Queues, Remembered, Stages
    <2> QED BY <2>2, <2>3, <2>4 DEF IInv
  <1>6. CASE nl_send_sync_withheld
    <2>1. /\ seqNext' = seqNext + 1 /\ seqNext < StartSeq + MaxReq
          /\ UNCHANGED <<seqExpect, autoAck, hooks, buf, multipart,
                         interrupted, requests, dump, rxq, overrun, outcome,
                         events, strays, open, untold>>
          /\ stage = "idle" /\ stage' = "read" /\ call' = "sync" /\ result' = "none"
          /\ sync' \in [seq : Seqs, clean : BOOLEAN]
      BY <1>6, Numbers DEF nl_send_sync_withheld, MaySend, UseSeq, Enter, kernelVars
    <2>2. Shape'
      BY <2>1, RecvAssumption DEF IInv, Shape, Results
    <2>3. Waits' /\ Replies'
      BY <2>1, Numbers, SameFlying
    <2>4. Queues' /\ Remembered'
      BY <2>1 DEF IInv, Queues, Remembered, Stages
    <2> QED BY <2>2, <2>3, <2>4 DEF IInv
  <1> QED BY <1>1, <1>2, <1>3, <1>4, <1>5, <1>6 DEF Application

-----------------------------------------------------------------------------
(* The kernel's steps, and those of other senders.                         *)

Datagrams == Seq(Msg) \ {<<>>}

LEMMA QueuedOfSubSeq ==
    ASSUME NEW S, NEW q \in Seq(S), NEW n \in 0..Len(q)
    PROVE  SubSeq(q, 1, n) \in Seq(S) /\ Queued(SubSeq(q, 1, n)) \subseteq Queued(q)
  <1>1. \A i \in 1..n : q[i] \in S
    OBVIOUS
  <1>2. /\ SubSeq(q, 1, n) \in Seq(S) /\ Len(SubSeq(q, 1, n)) = n
        /\ \A i \in 1..n : SubSeq(q, 1, n)[i] = q[i]
    BY <1>1, SubSeqProperties
  <1>3. \A i \in DOMAIN SubSeq(q, 1, n) : i \in DOMAIN q /\ SubSeq(q, 1, n)[i] = q[i]
    BY <1>2
  <1> QED BY <1>2, <1>3 DEF Queued

LEMMA OneDatagram ==
    (\A d : Queued(<<d>>) = Elems(d)) /\ Queued(<<>>) = {}
  <1>1. (\A d : DOMAIN <<d>> = {1}) /\ DOMAIN <<>> = {}
    OBVIOUS
  <1> QED BY <1>1 DEF Queued

LEMMA MessageShape ==
    ASSUME NEW t \in Terminators \cup {"VALID"}, NEW q \in Seqs, NEW i \in BOOLEAN
    PROVE  /\ Message(t, q) \in Msg
           /\ Message(t, q).type = t /\ Message(t, q).seq = q
           /\ Message(t, q).multi = FALSE /\ Message(t, q).intr = FALSE
           /\ Part(t, q, i) \in Msg
           /\ Part(t, q, i).type = t /\ Part(t, q, i).seq = q
           /\ Part(t, q, i).multi = TRUE /\ Part(t, q, i).intr = i
  BY DEF Message, Part, Msg

\* The messages that may answer a request.
Answers(q, ok) ==
    {x \in Msg : /\ x.seq = q /\ x.multi = FALSE /\ x.intr = FALSE
                 /\ ok => x.type \in {"VALID", "ACK"}
                 /\ ~ok => x.type = "ERROR"}

LEMMA ReplyShape ==
    ASSUME NEW r \in [seq : Seqs, kind : Kinds, ack : BOOLEAN],
           NEW ok \in BOOLEAN
    PROVE  /\ Reply(r, ok) \in Seq(Datagrams)
           /\ Queued(Reply(r, ok)) \subseteq Answers(r.seq, ok)
           /\ ok /\ r.kind = "dump" => Reply(r, ok) = <<>>
  <1> DEFINE V == Message("VALID", r.seq)
             A == Message("ACK", r.seq)
             E == Message("ERROR", r.seq)
  <1>1. V \in Msg /\ A \in Msg /\ E \in Msg
    BY MessageShape DEF Terminators
  <1>2. /\ V.type = "VALID" /\ V.seq = r.seq /\ V.multi = FALSE /\ V.intr = FALSE
        /\ A.type = "ACK" /\ A.seq = r.seq /\ A.multi = FALSE /\ A.intr = FALSE
        /\ E.type = "ERROR" /\ E.seq = r.seq /\ E.multi = FALSE /\ E.intr = FALSE
    BY DEF Message
  <1> HIDE DEF V, A, E
  <1>3. /\ ok => V \in Answers(r.seq, ok) /\ A \in Answers(r.seq, ok)
        /\ ~ok => E \in Answers(r.seq, ok)
    BY <1>1, <1>2 DEF Answers
  <1> DEFINE dv == IF r.kind = "get" THEN << <<V>> >> ELSE <<>>
             da == IF r.ack THEN << <<A>> >> ELSE <<>>
  <1>4. Reply(r, ok) = IF ~ok THEN << <<E>> >>
                       ELSE IF r.kind = "dump" THEN <<>> ELSE dv \o da
    BY DEF Reply, V, A, E
  <1>5. <<V>> \in Datagrams /\ <<A>> \in Datagrams /\ <<E>> \in Datagrams
    BY <1>1 DEF Datagrams
  <1>6. /\ dv \in Seq(Datagrams) /\ da \in Seq(Datagrams)
        /\ << <<E>> >> \in Seq(Datagrams) /\ <<>> \in Seq(Datagrams)
    BY <1>5
  <1>7. Queued(dv) \subseteq {V} /\ Queued(da) \subseteq {A}
    BY OneDatagram, ElemsOfTuples
  <1>8. Queued(<< <<E>> >>) = {E}
    BY OneDatagram, ElemsOfTuples
  <1> HIDE DEF dv, da
  <1>9. dv \o da \in Seq(Datagrams) /\ Queued(dv \o da) \subseteq {V, A}
    BY <1>6, <1>7, QueuedOfConcat, ConcatProperties
  <1> QED BY <1>3, <1>4, <1>6, <1>8, <1>9, OneDatagram

\* The shape of everything when a sender puts datagrams into the queue.
LEMMA SenderShape ==
    ASSUME IInv, rxq' \in Seq(Datagrams),
           dump' \in [seq : Seqs, left : 0..MaxParts],
           requests' \in Seq([seq : Seqs, kind : Kinds, ack : BOOLEAN]),
           overrun' \in BOOLEAN,
           outcome' \in [Seqs -> {"pending", "ok", "error"}],
           events' \in Nat, strays' \in Nat, events' + strays' <= MaxEvents,
           UNCHANGED <<sockVars, callVars, sync, open, untold>>
    PROVE  Shape' /\ Queues' /\ Remembered'
  <1> USE DEF sockVars, callVars
  <1>1. Shape' /\ Remembered'
    BY DEF IInv, Shape, Remembered
  <1>2. Queues'
    BY DEF IInv, Queues, Datagrams
  <1> QED BY <1>1, <1>2

LEMMA KernelAnswerKeepsIInv ==
    ASSUME IInv, KernelAnswer
    PROVE  /\ IInv'
           /\ 1 \in DOMAIN requests
           /\ \A x \in Flying' : x \in Flying \/ x.seq = requests[1].seq
           /\ dump' = dump \/ dump'.seq = requests[1].seq
           /\ \A i \in DOMAIN requests' : /\ i + 1 \in DOMAIN requests
                                          /\ requests'[i] = requests[i + 1]
  <1> DEFINE R == [seq : Seqs, kind : Kinds, ack : BOOLEAN]
  <1>1. PICK ok \in BOOLEAN :
           LET r == Head(requests) ds == Reply(r, ok)
           IN  /\ ok /\ r.kind = "dump" => dump = NoDump
               /\ \E n \in 0..Len(ds) :
                     /\ rxq' = rxq \o SubSeq(ds, 1, n)
                     /\ overrun' = (overrun \/ n < Len(ds))
               /\ IF ok /\ r.kind = "dump"
                     THEN \E n \in 0..MaxParts :
                             dump' = [seq |-> r.seq, left |-> n]
                     ELSE UNCHANGED dump
               /\ outcome' = [outcome EXCEPT ![r.seq] =
                                 IF ok THEN "ok" ELSE "error"]
    BY DEF KernelAnswer
  <1>2. PICK r : r = Head(requests)
    OBVIOUS
  <1>3. PICK ds : ds = Reply(r, ok)
    OBVIOUS
  <1>4. /\ requests # <<>> /\ requests' = Tail(requests)
        /\ UNCHANGED <<sockVars, callVars, histVars>>
    BY DEF KernelAnswer
  <1>5. requests \in Seq(R) /\ rxq \in Seq(Datagrams)
    BY DEF IInv, Queues, Datagrams
  <1>6. r \in R
    BY <1>2, <1>4, <1>5, HeadTailProperties
  <1>7. PICK n \in 0..Len(ds) : /\ rxq' = rxq \o SubSeq(ds, 1, n)
                                /\ overrun' = (overrun \/ n < Len(ds))
    BY <1>1, <1>2, <1>3
  <1>8. ds \in Seq(Datagrams) /\ Queued(ds) \subseteq Answers(r.seq, ok)
    BY <1>3, <1>6, ReplyShape
  <1>9. PICK ss : ss = SubSeq(ds, 1, n)
    OBVIOUS
  <1>10. ss \in Seq(Datagrams) /\ Queued(ss) \subseteq Answers(r.seq, ok)
    BY <1>8, <1>9, QueuedOfSubSeq
  <1>11. rxq' = rxq \o ss
    BY <1>7, <1>9
  <1>12. /\ rxq' \in Seq(Datagrams)
         /\ Queued(rxq') \subseteq Queued(rxq) \cup Answers(r.seq, ok)
    BY <1>5, <1>10, <1>11, ConcatProperties, QueuedOfConcat
  <1>13. Flying' \subseteq Flying \cup Answers(r.seq, ok)
    BY <1>12, <1>4 DEF Flying, callVars
  <1>14. /\ requests' \in Seq(R)
         /\ \A i \in DOMAIN requests' : /\ i + 1 \in DOMAIN requests
                                        /\ requests'[i] = requests[i + 1]
         /\ 1 \in DOMAIN requests /\ r = requests[1]
         /\ DOMAIN requests \subseteq Nat
    <2> HIDE DEF R
    <2> QED BY <1>2, <1>4, <1>5, HeadTailProperties
  <1>15. UNCHANGED <<seqNext, buf, open>>
    BY <1>4 DEF sockVars, callVars, histVars
  <1>16. /\ r.seq \in Seqs /\ r.seq # 0 /\ r.seq \in Nat /\ r.seq < seqNext
         /\ r.seq \notin open /\ dump.seq # r.seq
         /\ \A x \in Flying : x.seq # r.seq
    BY <1>14, Numbers DEF IInv, Waits
  <1>17. /\ dump' = dump \/ (dump'.seq = r.seq /\ ok = TRUE /\ dump = NoDump)
         /\ dump' \in [seq : Seqs, left : 0..MaxParts]
    BY <1>1, <1>2, <1>16 DEF IInv, Queues
  <1>18. /\ \A q \in Seqs : q # r.seq => outcome'[q] = outcome[q]
         /\ outcome'[r.seq] = IF ok THEN "ok" ELSE "error"
         /\ outcome' \in [Seqs -> {"pending", "ok", "error"}]
    BY <1>1, <1>2, <1>16 DEF IInv, Shape
  <1>19. Waits'
    <2>1. \A i \in DOMAIN requests' : /\ requests'[i].seq # r.seq
                                     /\ requests'[i].seq \in Seqs
      BY <1>14, Numbers DEF IInv, Waits
    <2>2. \A x \in Answers(r.seq, ok) : x.seq = r.seq
      BY DEF Answers
    <2>3. ASSUME NEW i \in DOMAIN requests'
          PROVE  LET q == requests'[i].seq
                 IN  /\ q # 0 /\ q < seqNext' /\ q \notin open'
                     /\ outcome'[q] = "pending"
                     /\ dump'.seq # q
                     /\ \A x \in Flying' : x.seq # q
      BY <2>1, <2>2, <1>13, <1>14, <1>15, <1>17, <1>18 DEF IInv, Waits
    <2>4. \A i, j \in DOMAIN requests' : i < j => requests'[i].seq < requests'[j].seq
      BY <1>14 DEF IInv, Waits
    <2>5. \A q \in Seqs : q >= seqNext' => outcome'[q] = "pending"
      BY <1>15, <1>16, <1>18, Numbers DEF IInv, Waits
    <2> QED BY <2>3, <2>4, <2>5 DEF Waits
  <1>20. Replies'
    <2>1. \A x \in Answers(r.seq, ok) :
             /\ x.seq = r.seq /\ x.multi = FALSE /\ x.intr = FALSE
             /\ (x.type = "ERROR") = ~ok
      BY DEF Answers
    <2>2. ASSUME NEW x \in Flying'
          PROVE  /\ x.seq < seqNext'
                 /\ x.seq # 0 => outcome'[x.seq] = IF x.type = "ERROR" THEN "error"
                                                  ELSE "ok"
                 /\ x.multi => x.seq # 0 /\ x.type \in {"VALID", "DONE"}
                 /\ x.intr => x.multi
                 /\ x.seq = 0 => x.type \notin {"ACK", "ERROR", "DONE"}
      <3>1. CASE x \in Flying
        BY <3>1, <1>15, <1>16, <1>18, Numbers DEF IInv, Replies
      <3>2. CASE x \in Answers(r.seq, ok)
        BY <3>2, <2>1, <1>15, <1>16, <1>18
      <3> QED BY <3>1, <3>2, <1>13
    <2>3. \A x, y \in Flying' : x.seq = y.seq /\ x.multi => y.multi
      BY <2>1, <1>13, <1>16 DEF IInv, Replies
    <2>4. dump' # NoDump => /\ dump'.seq # 0 /\ dump'.seq < seqNext'
                            /\ outcome'[dump'.seq] = "ok"
                            /\ \A x \in Flying' : x.seq = dump'.seq => x.multi
      <3>1. CASE dump' = dump
        BY <3>1, <2>1, <1>13, <1>15, <1>16, <1>18, Numbers DEF IInv, Replies
      <3>2. CASE dump'.seq = r.seq /\ ok = TRUE /\ dump = NoDump /\ dump' # dump
        <4>1. ds = <<>>
          BY <3>2, <1>1, <1>2, <1>3, <1>6, ReplyShape
        <4>2. n = 0
          BY <4>1, <1>7
        <4>3. ss = <<>>
          BY <4>2, <1>9, SubSeqEmpty
        <4>4. Queued(ss) = {}
          BY <4>3, OneDatagram
        <4>5. Queued(rxq') \subseteq Queued(rxq)
          BY <4>4, <1>5, <1>10, <1>11, QueuedOfConcat
        <4>6. Flying' \subseteq Flying
          BY <4>5, <1>15 DEF Flying
        <4> QED BY <3>2, <4>6, <1>15, <1>16, <1>18
      <3> QED BY <3>1, <3>2, <1>17
    <2>5. \A q \in open' : /\ q # 0 /\ q < seqNext'
                           /\ \A x \in Flying' : x.seq = q => x.multi
      BY <2>1, <1>13, <1>15, <1>16 DEF IInv, Replies
    <2> QED BY <2>2, <2>3, <2>4, <2>5 DEF Replies
  <1>21. Shape' /\ Queues' /\ Remembered'
    <2>1. /\ overrun' \in BOOLEAN
          /\ events' \in Nat /\ strays' \in Nat /\ events' + strays' <= MaxEvents
          /\ UNCHANGED <<sockVars, callVars, sync, open, untold>>
      BY <1>4, <1>7 DEF histVars, IInv, Shape
    <2> QED BY <2>1, <1>12, <1>14, <1>17, <1>18, SenderShape
  <1>22. \A x \in Flying' : x \in Flying \/ x.seq = requests[1].seq
    BY <1>13, <1>14 DEF Answers
  <1> QED BY <1>14, <1>17, <1>19, <1>20, <1>21, <1>22 DEF IInv

\* One more datagram, of messages with the number q, that are all parts of a
\* dump or no reply at all.
LEMMA DatagramKeepsIInv ==
    ASSUME IInv, NEW d \in Datagrams, rxq' = Append(rxq, d),
           NEW q \in Seqs,
           \A x \in Elems(d) :
              /\ x.seq = q /\ (x.intr => x.multi)
              /\ IF q = 0 THEN x.multi = FALSE /\ x.type \notin {"ACK", "ERROR", "DONE"}
                 ELSE x.multi = TRUE /\ x.type \in {"VALID", "DONE"},
           q # 0 => dump # NoDump /\ dump.seq = q,
           dump' = NoDump \/ (dump'.seq = dump.seq /\ (dump' # NoDump => dump # NoDump)),
           dump' \in [seq : Seqs, left : 0..MaxParts],
           events' \in Nat, strays' \in Nat, events' + strays' <= MaxEvents,
           UNCHANGED <<sockVars, callVars, requests, overrun, outcome, sync, open,
                       untold>>
    PROVE  IInv' /\ \A x \in Flying' : x \in Flying \/ x.seq = q
  <1>1. rxq \in Seq(Datagrams)
    BY DEF IInv, Queues, Datagrams
  <1>2. rxq' \in Seq(Datagrams) /\ Queued(rxq') \subseteq Queued(rxq) \cup Elems(d)
    BY <1>1, AppendProperties, QueuedOfAppend
  <1>3. UNCHANGED <<seqNext, buf, open>>
    BY DEF sockVars, callVars
  <1>4. Flying' \subseteq Flying \cup Elems(d)
    BY <1>2, <1>3 DEF Flying
  <1>5. q \in Nat /\ q < seqNext /\ (q # 0 => outcome[q] = "ok")
    BY Numbers DEF IInv, Replies
  <1>6. \A i \in DOMAIN requests : requests[i].seq # q
    BY DEF IInv, Waits
  <1>7. Waits'
    <2>1. \A x \in Flying' : \A i \in DOMAIN requests : x.seq # requests[i].seq
      BY <1>4, <1>6 DEF IInv, Waits
    <2>2. \A i \in DOMAIN requests : dump'.seq # requests[i].seq
      BY DEF IInv, Waits, NoDump
    <2> QED BY <2>1, <2>2, <1>3 DEF IInv, Waits
  <1>8. Replies'
    <2>1. ASSUME NEW x \in Flying'
          PROVE  /\ x.seq < seqNext
                 /\ x.seq # 0 => outcome[x.seq] = IF x.type = "ERROR" THEN "error"
                                                 ELSE "ok"
                 /\ x.multi => x.seq # 0 /\ x.type \in {"VALID", "DONE"}
                 /\ x.intr => x.multi
                 /\ x.seq = 0 => x.type \notin {"ACK", "ERROR", "DONE"}
      <3>1. CASE x \in Flying
        BY <3>1 DEF IInv, Replies
      <3>2. CASE x \in Elems(d)
        BY <3>2, <1>5
      <3> QED BY <3>1, <3>2, <1>4
    <2>2. \A x \in Elems(d) : x.multi <=> q # 0
      OBVIOUS
    <2>3. \A x \in Flying : x.seq = q => (x.multi <=> q # 0)
      BY DEF IInv, Replies
    <2>4. \A x, y \in Flying' : x.seq = y.seq /\ x.multi => y.multi
      BY <2>2, <2>3, <1>4 DEF IInv, Replies
    <2>5. dump' # NoDump => /\ dump'.seq # 0 /\ dump'.seq < seqNext
                            /\ outcome[dump'.seq] = "ok"
                            /\ \A x \in Flying' : x.seq = dump'.seq => x.multi
      BY <2>2, <1>4 DEF IInv, Replies
    <2>6. \A o \in open : /\ o # 0 /\ o < seqNext
                          /\ \A x \in Flying' : x.seq = o => x.multi
      BY <2>2, <1>4 DEF IInv, Replies
    <2> QED BY <2>1, <2>4, <2>5, <2>6, <1>3 DEF Replies
  <1>9. Shape' /\ Queues' /\ Remembered'
    <2>1. requests' \in Seq([seq : Seqs, kind : Kinds, ack : BOOLEAN])
      BY DEF IInv, Queues
    <2>2. overrun' \in BOOLEAN /\ outcome' \in [Seqs -> {"pending", "ok", "error"}]
      BY DEF IInv, Shape
    <2> QED BY <1>2, <2>1, <2>2, SenderShape
  <1> QED BY <1>4, <1>7, <1>8, <1>9 DEF IInv

LEMMA KernelDumpKeepsIInv ==
    ASSUME IInv, KernelDump
    PROVE  /\ IInv'
           /\ \A x \in Flying' : x \in Flying \/ x.seq = dump.seq
           /\ dump' = NoDump \/ dump'.seq = dump.seq
  <1>1. dump # NoDump /\ dump.seq \in Seqs /\ dump.seq # 0 /\ dump.left \in 0..MaxParts
    BY DEF KernelDump, IInv, Queues, Replies
  <1>2. UNCHANGED <<sockVars, callVars, requests, overrun, outcome, events,
                    strays, sync, open, untold>>
    BY DEF KernelDump, histVars
  <1>3. PICK i \in BOOLEAN, j \in BOOLEAN :
         \/ /\ dump.left > 0
            /\ rxq' = Append(rxq, <<Part("VALID", dump.seq, i)>>)
            /\ dump' = [dump EXCEPT !.left = @ - 1]
         \/ /\ rxq' = Append(rxq, <<Part("VALID", dump.seq, i),
                                    Part("DONE", dump.seq, j)>>)
            /\ dump' = NoDump
         \/ /\ rxq' = Append(rxq, <<Part("DONE", dump.seq, i)>>)
            /\ dump' = NoDump
    BY DEF KernelDump
  <1> DEFINE V == Part("VALID", dump.seq, i)
             D == Part("DONE", dump.seq, j)
             E == Part("DONE", dump.seq, i)
  <1>4. /\ V \in Msg /\ V.type = "VALID" /\ V.seq = dump.seq /\ V.multi = TRUE
        /\ D \in Msg /\ D.type = "DONE" /\ D.seq = dump.seq /\ D.multi = TRUE
        /\ E \in Msg /\ E.type = "DONE" /\ E.seq = dump.seq /\ E.multi = TRUE
    <2>1. V \in Msg /\ V.type = "VALID" /\ V.seq = dump.seq /\ V.multi = TRUE
      BY <1>1 DEF Part, Message, Msg
    <2>2. D \in Msg /\ D.type = "DONE" /\ D.seq = dump.seq /\ D.multi = TRUE
      BY <1>1 DEF Part, Message, Msg, Terminators
    <2>3. E \in Msg /\ E.type = "DONE" /\ E.seq = dump.seq /\ E.multi = TRUE
      BY <1>1 DEF Part, Message, Msg, Terminators
    <2> QED BY <2>1, <2>2, <2>3
  <1> HIDE DEF V, D, E
  <1>5. PICK d \in {<<V>>, <<V, D>>, <<E>>} : rxq' = Append(rxq, d)
    BY <1>3 DEF V, D, E
  <1>6. d \in Datagrams /\ Elems(d) \subseteq {V, D, E}
    <2>1. /\ <<V>> \in Datagrams /\ <<V, D>> \in Datagrams /\ <<E>> \in Datagrams
      BY <1>4 DEF Datagrams
    <2>2. Elems(<<V>>) = {V} /\ Elems(<<V, D>>) = {V, D} /\ Elems(<<E>>) = {E}
      BY ElemsOfTuples
    <2> QED BY <2>1, <2>2
  <1>7. /\ dump' = NoDump \/ (dump'.seq = dump.seq /\ (dump' # NoDump => dump # NoDump))
        /\ dump' \in [seq : Seqs, left : 0..MaxParts]
    <2>1. NoDump \in [seq : Seqs, left : 0..MaxParts]
      BY RecvAssumption DEF NoDump, Seqs
    <2>2. dump \in [seq : Seqs, left : 0..MaxParts]
      BY DEF IInv, Queues
    <2>3. CASE dump.left > 0 /\ dump' = [dump EXCEPT !.left = @ - 1]
      BY <2>2, <2>3, <1>1, RecvAssumption
    <2> QED BY <2>1, <2>3, <1>3
  <1>8. events' \in Nat /\ strays' \in Nat /\ events' + strays' <= MaxEvents
    BY <1>2 DEF IInv, Shape
  <1>9. \A x \in Elems(d) :
           /\ x.seq = dump.seq /\ (x.intr => x.multi)
           /\ x.multi = TRUE /\ x.type \in {"VALID", "DONE"}
    BY <1>4, <1>6
  <1> QED BY <1>1, <1>2, <1>5, <1>6, <1>7, <1>8, <1>9, DatagramKeepsIInv

LEMMA OthersKeepIInv ==
    ASSUME IInv, KernelNotify \/ PeerStray
    PROVE  IInv' /\ \A x \in Flying' : x \in Flying \/ x.seq = 0
  <1>1. dump \in [seq : Seqs, left : 0..MaxParts]
    BY DEF IInv, Queues
  <1>2. 0 \in Seqs
    BY Numbers
  <1>3. ASSUME NEW x \in Msg, rxq' = Append(rxq, <<x>>), x.seq = 0, x.multi = FALSE,
               x.intr = FALSE, x.type \notin {"ACK", "ERROR", "DONE"},
               events' \in Nat, strays' \in Nat, events' + strays' <= MaxEvents,
               UNCHANGED <<sockVars, callVars, requests, dump, overrun, outcome,
                           sync, open, untold>>
        PROVE  IInv' /\ \A y \in Flying' : y \in Flying \/ y.seq = 0
    <2>1. <<x>> \in Datagrams /\ Elems(<<x>>) = {x}
      BY <1>3, ElemsOfTuples DEF Datagrams
    <2> QED BY <2>1, <1>1, <1>2, <1>3, DatagramKeepsIInv
  <1>4. CASE KernelNotify
    <2>1. events' \in Nat /\ strays' \in Nat /\ events' + strays' <= MaxEvents
      BY <1>4, RecvAssumption DEF KernelNotify, IInv, Shape
    <2>2. UNCHANGED <<sockVars, callVars, requests, dump, outcome, sync, open, untold>>
      BY <1>4 DEF KernelNotify
    <2>3. CASE rxq' = Append(rxq, <<Message("VALID", 0)>>) /\ UNCHANGED overrun
      <3> DEFINE x == Message("VALID", 0)
      <3>1. /\ x \in Msg /\ x.seq = 0 /\ x.multi = FALSE /\ x.intr = FALSE
            /\ x.type = "VALID"
        BY <1>2 DEF Message, Msg
      <3> HIDE DEF x
      <3>2. rxq' = Append(rxq, <<x>>)
        BY <2>3 DEF x
      <3> QED BY <2>1, <2>2, <2>3, <3>1, <3>2, <1>3
    <2>4. CASE overrun' = TRUE /\ UNCHANGED rxq
      <3>1. Waits' /\ Replies'
        BY <2>2, <2>4, Numbers, SameFlying DEF sockVars, callVars
      <3>2. /\ rxq' \in Seq(Datagrams)
            /\ requests' \in Seq([seq : Seqs, kind : Kinds, ack : BOOLEAN])
        BY <2>2, <2>4 DEF IInv, Queues, Datagrams
      <3>3. outcome' \in [Seqs -> {"pending", "ok", "error"}]
        BY <2>2 DEF IInv, Shape
      <3>4. Shape' /\ Queues' /\ Remembered'
        BY <3>2, <3>3, <1>1, <2>1, <2>2, <2>4, SenderShape
      <3>5. Flying' = Flying
        BY <2>2, <2>4 DEF Flying, callVars
      <3> QED BY <3>1, <3>4, <3>5 DEF IInv
    <2> QED BY <1>4, <2>3, <2>4 DEF KernelNotify
  <1>5. CASE PeerStray
    <2>1. events' \in Nat /\ strays' \in Nat /\ events' + strays' <= MaxEvents
      BY <1>5, RecvAssumption DEF PeerStray, IInv, Shape
    <2>2. UNCHANGED <<sockVars, callVars, requests, dump, overrun, outcome, sync,
                      open, untold>>
      BY <1>5 DEF PeerStray
    <2>3. PICK t \in {"NOOP", "OVERRUN", "TRUNC"} :
             rxq' = Append(rxq, <<[Message(t, 0) EXCEPT !.ack = TRUE]>>)
      BY <1>5 DEF PeerStray
    <2> DEFINE x == [Message(t, 0) EXCEPT !.ack = TRUE]
    <2>4. /\ x \in Msg /\ x.seq = 0 /\ x.multi = FALSE /\ x.intr = FALSE
          /\ x.type = t
      BY <1>2 DEF Message, Msg, Terminators
    <2> HIDE DEF x
    <2>5. rxq' = Append(rxq, <<x>>)
      BY <2>3 DEF x
    <2> QED BY <2>1, <2>2, <2>4, <2>5, <1>3
  <1> QED BY <1>4, <1>5

-----------------------------------------------------------------------------
LEMMA InitIInv == Init => IInv
  <1> SUFFICES ASSUME Init PROVE IInv
    OBVIOUS
  <1>1. Shape
    <2>1. hooks \subseteq Hooks
      BY HooksAssumption DEF Init
    <2>2. StartSeq \in Nat /\ MaxReq \in Nat /\ MaxEvents \in Nat /\ 0 \in Seqs
      BY RecvAssumption DEF Seqs
    <2>3. outcome \in [Seqs -> {"pending", "ok", "error"}]
      BY DEF Init
    <2>4. sync \in [seq : Seqs, clean : BOOLEAN]
      BY <2>2 DEF Init
    <2> QED BY <2>1, <2>2, <2>3, <2>4 DEF Init, Shape, Results
  <1>2. Queues
    BY RecvAssumption DEF Init, Queues, NoDump, Stages, Seqs
  <1>3. Flying = {} /\ DOMAIN requests = {}
    <2>1. Queued(<<>>) = {} /\ Elems(<<>>) = {}
      BY OneDatagram, ElemsOfTuples
    <2>2. DOMAIN <<>> = {}
      OBVIOUS
    <2> QED BY <2>1, <2>2 DEF Init, Flying
  <1>4. Waits
    BY <1>3 DEF Init, Waits
  <1>5. Replies
    BY <1>3 DEF Init, Replies
  <1>6. Remembered
    BY DEF Init, Remembered
  <1> QED BY <1>1, <1>2, <1>4, <1>5, <1>6 DEF IInv

LEMMA StepIInv == IInv /\ [Next]_vars => IInv'
  <1> SUFFICES ASSUME IInv, [Next]_vars PROVE IInv'
    OBVIOUS
  <1>1. CASE UNCHANGED vars
    <2> USE <1>1 DEF vars, sockVars, callVars, kernelVars, histVars
    <2>1. Waits' /\ Replies'
      BY Numbers, SameFlying
    <2>2. Shape' /\ Queues' /\ Remembered'
      BY DEF IInv, Shape, Queues, Remembered
    <2> QED BY <2>1, <2>2 DEF IInv
  <1>2. CASE recvmsgs
    BY <1>2, StagesMove, MovesKeepIInv, EndOfDatagramKeepsIInv, ReadsKeepIInv,
       CountKeepsIInv DEF recvmsgs
  <1> QED BY <1>1, <1>2, ApplicationKeepsIInv, KernelAnswerKeepsIInv,
             KernelDumpKeepsIInv, OthersKeepIInv DEF Next, Kernel

\* Whatever is asked, lost, refused or abandoned, and whichever callbacks are
\* set: the inductive invariant of the request/reply engine.
THEOREM Invariance == Spec => []IInv
  BY InitIInv, StepIInv, PTL DEF Spec

\* A dump the kernel marked NLM_F_DUMP_INTR never ends in a successful call of
\* nl_recvmsgs() without NLE_DUMP_INTR, for any number of parts per datagram.
THEOREM InterruptsReported == Spec => []InterruptReported
  <1>1. IInv => InterruptReported
    BY DEF IInv, Remembered, InterruptReported
  <1> QED BY <1>1, Invariance, PTL

-----------------------------------------------------------------------------
(* What nl_send_sync() reports.                                            *)

\* A step of recvmsgs() sends nothing and decides nothing.
LEMMA RecvKeeps ==
    ASSUME IInv, recvmsgs
    PROVE  /\ UNCHANGED <<seqNext, autoAck, hooks, call, requests, dump, outcome,
                          sync>>
           /\ Flying' \subseteq Flying
  <1>1. CASE Count
    <2>1. buf' = buf \/ buf' = Tail(buf) \/ buf' = <<>>
      BY <1>1, CountMoves DEF Moves, Noted, Goto, Leave, Return
    <2>2. buf \in Seq(Msg) /\ buf # <<>>
      BY <1>1, CountMoves DEF IInv, Queues
    <2>3. Elems(buf') \subseteq Elems(buf)
      BY <2>1, <2>2, ElemsOfTail, ElemsOfTuples
    <2>4. UNCHANGED <<seqNext, autoAck, hooks, call, requests, dump, outcome,
                      sync, rxq>>
      BY <1>1, CountMoves DEF Elsewhere, kernelVars, Moves, Noted, Goto, Leave, Return
    <2> QED BY <2>3, <2>4 DEF Flying
  <1>2. CASE ConvertNomem \/ MsgIn \/ SeqCheck \/ SendAck \/ HandleType
    <2>1. buf' = buf \/ buf' = Tail(buf) \/ buf' = <<>>
      BY <1>2, StagesMove DEF Moves, Goto, Leave, Return
    <2>2. buf \in Seq(Msg) /\ buf # <<>>
      BY <1>2, StagesMove DEF IInv, Queues
    <2>3. Elems(buf') \subseteq Elems(buf)
      BY <2>1, <2>2, ElemsOfTail, ElemsOfTuples
    <2>4. UNCHANGED <<seqNext, autoAck, hooks, call, requests, dump, outcome,
                      sync, rxq>>
      BY <1>2, StagesMove DEF Elsewhere, kernelVars, sockVars, Moves, Goto, Leave,
                              Return
    <2> QED BY <2>3, <2>4 DEF Flying
  <1>3. CASE EndOfDatagram
    <2>1. buf' = <<>> /\ buf = <<>>
      BY <1>3 DEF EndOfDatagram, Leave, Return
    <2>2. UNCHANGED <<seqNext, autoAck, hooks, call, requests, dump, outcome,
                      sync, rxq>>
      BY <1>3 DEF EndOfDatagram, Elsewhere, kernelVars, sockVars, Leave, Return
    <2> QED BY <2>1, <2>2 DEF Flying
  <1>4. CASE ReadDatagram
    <2>1. /\ rxq # <<>> /\ buf' = Head(rxq) /\ rxq' = Tail(rxq)
          /\ UNCHANGED <<seqNext, autoAck, hooks, call, requests, dump, outcome, sync>>
      BY <1>4 DEF ReadDatagram, sockVars, histVars
    <2>2. rxq \in Seq(Seq(Msg) \ {<<>>})
      BY DEF IInv, Queues
    <2> QED BY <2>1, <2>2, QueuedOfTail DEF Flying
  <1>5. CASE ReadNobufs \/ ReadAgain \/ ReadTruncated \/ ReadNomem
    <2>1. /\ buf' = <<>> /\ (rxq' = rxq \/ (rxq # <<>> /\ rxq' = Tail(rxq)))
          /\ UNCHANGED <<seqNext, autoAck, hooks, call, requests, dump, outcome, sync>>
      BY <1>5 DEF ReadNobufs, ReadAgain, ReadTruncated, ReadNomem, sockVars,
                  kernelVars, Return
    <2>2. rxq \in Seq(Seq(Msg) \ {<<>>})
      BY DEF IInv, Queues
    <2> QED BY <2>1, <2>2, QueuedOfTail, ElemsOfTuples DEF Flying
  <1> QED BY <1>1, <1>2, <1>3, <1>4, <1>5 DEF recvmsgs

\* How the stages of a message end when the hooks are passive.
LEMMA RecvKeepsSync ==
    ASSUME IInv, SyncInv, recvmsgs
    PROVE  SyncInv'
  <1>1. SUFFICES ASSUME call = "sync", sync.clean, hooks \subseteq PassiveHooks
                 PROVE  Asked'
    BY RecvKeeps DEF SyncInv
  <1>2. Asked
    BY <1>1 DEF SyncInv
  <1>3. Alone'
    BY <1>2, RecvKeeps DEF Asked, Alone, NoDump
  <1>4. UNCHANGED <<autoAck, outcome, sync>>
    BY RecvKeeps
  <1>5. PICK s \in Nat : s = sync.seq /\ s # 0 /\ s \in Seqs
    BY <1>2, Numbers DEF IInv, Shape, Asked, Alone
  <1>6. ASSUME buf # <<>>
        PROVE  /\ m.seq \in {0, s}
               /\ m.seq = s => outcome[s] = IF m.type = "ERROR" THEN "error" ELSE "ok"
               /\ m.intr => m.type # "ERROR"
    BY <1>2, <1>5, <1>6, AtHand DEF IInv, Replies, Asked, Alone
  <1>7. Waiting
    BY <1>1 DEF Waiting
  \* out, with another result than the two that say something
  <1>8. ASSUME stage' = "idle", result' \notin {"ok", "kernel_error"}
        PROVE  Asked'
    BY <1>8, <1>3 DEF Asked
  \* the stage before the counting says nothing
  <1>9. CASE ReadDatagram
    <2>1. rxq \in Seq(Datagrams) /\ rxq # <<>>
      BY <1>9 DEF ReadDatagram, IInv, Queues, Datagrams
    <2>2. buf' # <<>>
      BY <1>9, <2>1, HeadTailProperties DEF ReadDatagram, Datagrams
    <2>3. stage' = "msg_in" /\ stage = "read" /\ UNCHANGED seqExpect
      BY <1>9 DEF ReadDatagram, sockVars
    <2> QED BY <2>2, <2>3, <1>2, <1>3, <1>4 DEF Asked
  <1>10. CASE ReadNobufs \/ ReadAgain \/ ReadTruncated \/ ReadNomem
    BY <1>10, <1>8 DEF ReadNobufs, ReadAgain, ReadTruncated, ReadNomem, Return
  <1>11. CASE EndOfDatagram
    <2>1. stage = "msg_in" /\ buf = <<>> /\ UNCHANGED seqExpect
      BY <1>11 DEF EndOfDatagram, sockVars
    <2>2. outcome[s] = "ok"
      BY <2>1, <1>2, <1>5 DEF Asked
    <2>3. \/ stage' = "read"
          \/ stage' = "idle" /\ result' # "kernel_error"
      BY <1>11 DEF EndOfDatagram, Leave, Return
    <2> QED BY <2>1, <2>2, <2>3, <1>2, <1>3, <1>4, <1>5 DEF Asked
  <1>12. CASE ConvertNomem
    BY <1>12, <1>8 DEF ConvertNomem, Leave, Return
  <1>13. CASE MsgIn
    <2>1. /\ stage = "msg_in" /\ stage' = "seq_check"
          /\ UNCHANGED <<buf, seqExpect>>
      BY <1>13, <1>1 DEF MsgIn, Hook, IsSet, PassiveHooks, Goto, AtStage, sockVars
    <2> QED BY <2>1, <1>2, <1>3, <1>4 DEF Asked
  <1>14. CASE SeqCheck
    <2>1. stage = "seq_check" /\ buf # <<>> /\ UNCHANGED seqExpect
      BY <1>14 DEF SeqCheck, AtStage, sockVars
    <2>2. autoAck /\ seqExpect \in {s, s + 1}
      BY <2>1, <1>2, <1>5 DEF Asked
    <2>3. CASE m.seq # seqExpect
      BY <1>14, <1>1, <1>8, <2>2, <2>3
      DEF SeqCheck, Hook, IsSet, PassiveHooks, Leave, Return
    <2>4. CASE m.seq = seqExpect
      <3>1. stage' = "count" /\ UNCHANGED buf
        BY <1>14, <1>1, <2>2, <2>4 DEF SeqCheck, Hook, IsSet, PassiveHooks, Goto
      <3>2. m.seq = s
        BY <2>1, <2>2, <2>4, <1>5, <1>6
      <3>3. m' = m
        BY <3>1 DEF m
      <3> QED BY <2>1, <2>2, <2>4, <3>1, <3>2, <3>3, <1>3, <1>4, <1>5 DEF Asked
    <2> QED BY <2>3, <2>4
  <1>15. CASE Count
    <2>1. stage = "count" /\ buf # <<>>
      BY <1>15, CountMoves
    <2>2. m.seq = s /\ seqExpect = s /\ autoAck
      BY <2>1, <1>2, <1>5 DEF Asked
    <2>3. seqExpect' \in {s, s + 1}
      BY <1>15, <2>2, CountMoves DEF Advance
    <2>4. \/ stage' = "send_ack" /\ buf' = buf
          \/ stage' = "msg_in" /\ m.intr
          \/ stage' = "idle" /\ m.intr /\ result' # "kernel_error"
      BY <1>15 DEF Count, Hook, NL_CB_CALL, Goto, Leave, Return
    <2>5. m.intr => outcome[s] = "ok"
      BY <2>1, <2>2, <1>6
    <2>6. stage' = "send_ack" => m' = m
      BY <2>4 DEF m
    <2> QED BY <2>2, <2>3, <2>4, <2>5, <2>6, <1>3, <1>4, <1>5 DEF Asked
  <1>16. CASE SendAck
    <2>1. stage = "send_ack" /\ buf # <<>> /\ UNCHANGED seqExpect
      BY <1>16 DEF SendAck, AtStage, sockVars
    <2>2. stage' = "type" /\ UNCHANGED buf
      BY <1>16, <1>1 DEF SendAck, Hook, IsSet, PassiveHooks, Goto
    <2>3. m' = m
      BY <2>2 DEF m
    <2> QED BY <2>1, <2>2, <2>3, <1>2, <1>3, <1>4 DEF Asked
  <1>17. CASE HandleType
    <2>1. stage = "type" /\ buf # <<>> /\ UNCHANGED seqExpect
      BY <1>17 DEF HandleType, AtStage, sockVars
    <2>2. m.seq = s
      BY <2>1, <1>2, <1>5 DEF Asked
    <2>3. CASE m.type = "ERROR"
      <3>1. stage' = "idle" /\ result' # "ok"
        BY <1>17, <1>1, <2>3 DEF HandleType, IsSet, PassiveHooks, Leave, Return
      <3>2. outcome[s] = "error"
        BY <2>1, <2>2, <2>3, <1>6
      <3> QED BY <3>1, <3>2, <1>3, <1>4, <1>5 DEF Asked
    <2>4. CASE m.type # "ERROR"
      <3>1. \/ stage' = "msg_in"
            \/ stage' = "idle" /\ result' # "kernel_error"
        BY <1>17, <2>4 DEF HandleType, Hook, NL_CB_CALL, Goto, Leave, Return
      <3>2. outcome[s] = "ok"
        BY <2>1, <2>2, <2>4, <1>6
      <3> QED BY <3>1, <3>2, <2>1, <1>2, <1>3, <1>4, <1>5 DEF Asked
    <2> QED BY <2>3, <2>4
  <1> QED BY <1>9, <1>10, <1>11, <1>12, <1>13, <1>14, <1>15, <1>16, <1>17
          DEF recvmsgs

LEMMA SendersKeepSync ==
    ASSUME IInv, SyncInv, Kernel \/ KernelNotify \/ PeerStray
    PROVE  SyncInv'
  <1>1. UNCHANGED <<seqExpect, autoAck, hooks, stage, call, buf, result, sync>>
    BY DEF Kernel, KernelAnswer, KernelDump, KernelNotify, PeerStray, sockVars,
           callVars, histVars
  <1>2. SUFFICES ASSUME call = "sync", sync.clean, hooks \subseteq PassiveHooks
                 PROVE  Asked'
    BY <1>1 DEF SyncInv
  <1>3. Asked
    BY <1>2 DEF SyncInv
  <1>4. m' = m
    BY <1>1 DEF m
  <1>5. ASSUME Alone', outcome'[sync.seq] = outcome[sync.seq]
        PROVE  Asked'
    BY <1>1, <1>3, <1>4, <1>5 DEF Asked
  <1>6. CASE KernelAnswer
    <2>1. requests[1].seq = sync.seq /\ 1 \in DOMAIN requests
      BY <1>3, <1>6, KernelAnswerKeepsIInv DEF Asked, Alone
    <2>2. Alone'
      BY <1>1, <1>3, <1>6, <2>1, KernelAnswerKeepsIInv DEF Asked, Alone, NoDump
    <2>3. outcome[sync.seq] = "pending"
      BY <2>1 DEF IInv, Waits
    <2>4. /\ ~(stage = "msg_in" /\ buf = <<>>)
          /\ stage = "idle" => result \notin {"ok", "kernel_error"}
      BY <1>3, <2>3 DEF Asked
    <2> QED BY <1>1, <1>3, <1>4, <2>2, <2>4 DEF Asked
  <1>7. CASE KernelDump
    <2>1. dump.seq = sync.seq /\ UNCHANGED <<requests, outcome>>
      BY <1>3, <1>7 DEF KernelDump, Asked, Alone
    <2>2. Alone'
      BY <1>1, <1>3, <1>7, <2>1, KernelDumpKeepsIInv DEF Asked, Alone, NoDump
    <2> QED BY <2>1, <2>2, <1>5
  <1>8. CASE KernelNotify \/ PeerStray
    <2>1. UNCHANGED <<requests, dump, outcome>>
      BY <1>8 DEF KernelNotify, PeerStray
    <2>2. Alone'
      BY <1>1, <1>3, <1>8, <2>1, OthersKeepIInv DEF Asked, Alone, NoDump
    <2> QED BY <2>1, <2>2, <1>5
  <1> QED BY <1>6, <1>7, <1>8 DEF Kernel

LEMMA ApplicationKeepsSync ==
    ASSUME IInv, SyncInv, Application
    PROVE  SyncInv'
  <1>1. CASE \/ \E k \in Kinds : nl_send_auto(k)
             \/ nl_send_auto_fails \/ nl_recvmsgs_default \/ nl_wait_for_ack
    <2>1. call' # "sync"
      BY <1>1 DEF nl_send_auto, nl_send_auto_fails, nl_recvmsgs_default,
                  nl_wait_for_ack, Enter
    <2> QED BY <2>1 DEF SyncInv
  <1>2. CASE nl_socket_use_seq \/ (\E on \in BOOLEAN : SetAutoAck(on))
    <2>1. /\ UNCHANGED <<seqExpect, hooks, stage, call, buf, result, requests,
                         dump, rxq, outcome, sync>>
          /\ stage = "idle"
      BY <1>2 DEF nl_socket_use_seq, SetAutoAck, MaySend, callVars, kernelVars,
                  histVars
    <2>2. Flying' = Flying
      BY <2>1 DEF Flying
    <2>3. Alone => Alone'
      BY <2>1, <2>2 DEF Alone, NoDump
    <2> QED BY <2>1, <2>3 DEF SyncInv, Asked
  <1>3. CASE nl_socket_disable_seq_check
    <2>1. ~(hooks' \subseteq PassiveHooks)
      BY <1>3 DEF nl_socket_disable_seq_check, PassiveHooks
    <2> QED BY <2>1 DEF SyncInv
  <1>4. ASSUME NEW k \in Kinds, nl_send_sync(k) PROVE SyncInv'
    <2>1. SUFFICES ASSUME call' = "sync", sync'.clean PROVE Asked'
      BY DEF SyncInv
    <2>2. autoAck /\ stage' = "read" /\ stage = "idle" /\ UNCHANGED buf
      BY <1>4, <2>1 DEF nl_send_sync, SendAuto, MaySend, Enter
    <2>3. /\ sync'.seq = seqNext /\ seqNext = seqExpect /\ Drained
          /\ UNCHANGED <<seqExpect, autoAck, dump, rxq>>
      BY <1>4, <2>1 DEF nl_send_sync
    <2>4. buf = <<>> /\ rxq = <<>> /\ requests = <<>> /\ dump = NoDump
      BY <2>2, <2>3 DEF Drained, IInv, Queues
    <2>5. Flying' = {}
      BY <2>2, <2>3, <2>4, OneDatagram, ElemsOfTuples DEF Flying
    <2> DEFINE r == [seq |-> seqNext, kind |-> k, ack |-> autoAck]
    <2>6. requests' = Append(requests, r) /\ r.seq = seqNext
      BY <1>4 DEF nl_send_sync, SendAuto
    <2> HIDE DEF r
    <2>7. requests' = <<r>>
      BY <2>4, <2>6
    <2>8. \A i \in DOMAIN requests' : requests'[i].seq = seqNext
      BY <2>6, <2>7
    <2>9. Alone'
      BY <2>3, <2>4, <2>5, <2>8, Numbers DEF Alone
    <2> QED BY <2>2, <2>3, <2>9, Numbers DEF Asked
  <1>5. CASE nl_send_sync_withheld
    <2>1. SUFFICES ASSUME sync'.clean PROVE Asked'
      BY DEF SyncInv
    <2>2. autoAck /\ stage' = "read" /\ stage = "idle" /\ UNCHANGED buf
      BY <1>5 DEF nl_send_sync_withheld, MaySend, Enter
    <2>3. /\ sync'.seq = seqNext /\ seqNext = seqExpect /\ Drained
          /\ UNCHANGED <<seqExpect, autoAck, dump, rxq, requests>>
      BY <1>5, <2>1 DEF nl_send_sync_withheld, kernelVars
    <2>4. buf = <<>> /\ rxq = <<>> /\ requests = <<>> /\ dump = NoDump
      BY <2>2, <2>3 DEF Drained, IInv, Queues
    <2>5. Flying' = {}
      BY <2>2, <2>3, <2>4, OneDatagram, ElemsOfTuples DEF Flying
    <2>6. Alone'
      BY <2>3, <2>4, <2>5, Numbers DEF Alone
    <2> QED BY <2>2, <2>3, <2>6, Numbers DEF Asked
  <1> QED BY <1>1, <1>2, <1>3, <1>4, <1>5 DEF Application

\* nl_send_sync() returns the verdict of its own request and of no other, for
\* any requests before it, events between and callbacks set.
THEOREM SyncReportsOwn == Spec => []SyncVerdict
  <1>1. Init => SyncInv
    BY DEF Init, SyncInv
  <1>2. IInv /\ SyncInv /\ [Next]_vars => SyncInv'
    <2> SUFFICES ASSUME IInv, SyncInv, [Next]_vars PROVE SyncInv'
      OBVIOUS
    <2>1. CASE UNCHANGED vars
      <3> USE <2>1 DEF vars, sockVars, callVars, kernelVars, histVars
      <3>1. Flying' = Flying /\ m' = m
        BY DEF Flying, m
      <3>2. Alone => Alone'
        BY <3>1 DEF Alone
      <3> QED BY <3>1, <3>2 DEF SyncInv, Asked
    <2> QED BY <2>1, RecvKeepsSync, SendersKeepSync, ApplicationKeepsSync DEF Next
  <1>3. SyncInv => SyncVerdict
    BY DEF SyncInv, Asked, SyncVerdict
  <1> QED BY <1>1, <1>2, <1>3, Invariance, PTL DEF Spec

-----------------------------------------------------------------------------
(* Dumps are read to their end.                                            *)

LEMMA RecvKeepsHalf ==
    ASSUME IInv, HalfInv, Attentive, recvmsgs
    PROVE  HalfInv'
  <1>1. hooks' \in HookSets /\ autoAck' = TRUE /\ UNCHANGED call
    BY RecvKeeps DEF HalfInv
  <1>2. /\ \A h \in {"MSG_IN", "SEQ_CHECK", "INVALID"} : ~IsSet(h)
        /\ HookVerdicts \subseteq {"OK", "SKIP"}
    BY DEF Attentive, HalfInv, IsSet
  <1>3. \A h : h # "ACK" => "STOP" \notin Verdicts(h) /\ "ERR" \notin Verdicts(h)
    BY <1>2 DEF Verdicts
  \* a step that leaves the numbers alone, with nothing half read
  <1>4. ASSUME open = {}, UNCHANGED <<seqExpect, open>>, stage' # "count"
        PROVE  HalfInv'
    BY <1>1, <1>4 DEF HalfInv, NoHalfDump
  \* out, with an error
  <1>5. ASSUME UNCHANGED <<seqExpect, open>>, stage' = "idle", result' # "ok"
        PROVE  HalfInv'
    BY <1>1, <1>5 DEF HalfInv, NoHalfDump
  \* on to the next message, inside a dump
  <1>6. ASSUME UNCHANGED <<seqExpect, open>>, stage' = "msg_in", multipart'
        PROVE  HalfInv'
    BY <1>1, <1>6 DEF HalfInv, NoHalfDump
  <1>7. CASE ReadDatagram
    <2>1. rxq \in Seq(Datagrams) /\ rxq # <<>>
      BY <1>7 DEF ReadDatagram, IInv, Queues, Datagrams
    <2>2. buf' # <<>>
      BY <1>7, <2>1, HeadTailProperties DEF ReadDatagram, Datagrams
    <2>3. stage' = "msg_in" /\ UNCHANGED <<seqExpect, open>>
      BY <1>7 DEF ReadDatagram, sockVars, histVars
    <2> QED BY <2>2, <2>3, <1>1 DEF HalfInv, NoHalfDump
  <1>8. CASE ReadNobufs \/ ReadAgain \/ ReadTruncated \/ ReadNomem
    BY <1>8, <1>5 DEF ReadNobufs, ReadAgain, ReadTruncated, ReadNomem, Return,
                      sockVars
  <1>9. CASE EndOfDatagram
    <2>1. stage = "msg_in" /\ buf = <<>> /\ UNCHANGED <<seqExpect, open>>
      BY <1>9 DEF EndOfDatagram, sockVars
    <2>2. stage' \in {"read", "idle"} /\ (stage' = "idle" => ~multipart)
      BY <1>9 DEF EndOfDatagram, Leave, Return
    <2>3. CASE stage' = "read"
      BY <2>1, <2>3, <1>1 DEF HalfInv, NoHalfDump
    <2>4. CASE stage' = "idle"
      BY <2>1, <2>2, <2>4, <1>4 DEF HalfInv
    <2> QED BY <2>2, <2>3, <2>4
  <1>10. CASE ConvertNomem
    BY <1>10, <1>5 DEF ConvertNomem, Leave, Return, sockVars
  <1>11. CASE MsgIn
    <2>1. stage' = "seq_check" /\ UNCHANGED <<seqExpect, open>>
      BY <1>11, <1>2 DEF MsgIn, Hook, Goto, sockVars
    <2> QED BY <2>1, <1>1 DEF HalfInv, NoHalfDump
  <1>12. CASE SeqCheck
    <2>1. UNCHANGED <<seqExpect, open>>
      BY <1>12 DEF SeqCheck, sockVars
    <2>2. CASE m.seq # seqExpect
      <3>1. Leave("seq_mismatch")
        BY <1>12, <1>2, <2>2 DEF SeqCheck, Hook, HalfInv
      <3> QED BY <3>1, <2>1, <1>5 DEF Leave, Return
    <2>3. CASE m.seq = seqExpect
      <3>1. stage' = "count" /\ UNCHANGED buf
        BY <1>12, <1>2, <2>3 DEF SeqCheck, Hook, Goto
      <3>2. m' = m
        BY <3>1 DEF m
      <3> QED BY <2>1, <2>3, <3>1, <3>2, <1>1 DEF HalfInv, NoHalfDump
    <2> QED BY <2>2, <2>3
  <1>13. CASE Count
    <2>1. stage = "count" /\ buf # <<>> /\ m.seq = seqExpect /\ open \subseteq {seqExpect}
      BY <1>13, CountMoves DEF HalfInv
    <2>2. /\ stage' \in {"send_ack", "msg_in"}
          /\ stage' = "send_ack" => buf' = buf
          /\ multipart' = (multipart \/ m.multi)
      BY <1>13, <1>3 DEF Count, Hook, NL_CB_CALL, Goto
    <2>3. stage' = "send_ack" => m' = m
      BY <2>2 DEF m
    <2>4. m \in Flying
      BY <2>1, AtHand
    <2>5. CASE m.multi /\ m.type # "DONE"
      <3>1. m.type = "VALID"
        BY <2>4, <2>5 DEF IInv, Replies
      <3>2. open' = open \cup {m.seq} /\ seqExpect' = seqExpect
        BY <1>13, <2>5, <3>1, CountMoves DEF Advance, Terminators
      <3> QED BY <2>1, <2>2, <2>3, <2>5, <3>1, <3>2, <1>1 DEF HalfInv, NoHalfDump
    <2>6. CASE ~m.multi \/ m.type = "DONE"
      <3>1. open' = {}
        BY <1>13, <2>1, <2>4, <2>6, CountMoves DEF IInv, Replies
      <3> QED BY <3>1, <2>2, <1>1 DEF HalfInv, NoHalfDump
    <2> QED BY <2>5, <2>6
  <1>14. CASE SendAck
    <2>1. stage = "send_ack" /\ UNCHANGED <<seqExpect, open, multipart>>
      BY <1>14, <1>3 DEF SendAck, Hook, NL_CB_CALL, Goto, AtStage, sockVars
    <2>2. (stage' = "type" /\ buf' = buf) \/ stage' = "msg_in"
      BY <1>14, <1>3 DEF SendAck, Hook, NL_CB_CALL, Goto
    <2>3. stage' = "type" => m' = m
      BY <2>2 DEF m
    <2> QED BY <2>1, <2>2, <2>3, <1>1 DEF HalfInv, NoHalfDump
  <1>15. CASE HandleType
    <2>1. stage = "type" /\ UNCHANGED <<seqExpect, open>>
      BY <1>15 DEF HandleType, AtStage, sockVars
    <2>2. stage' # "count"
      BY <1>15 DEF HandleType, Hook, NL_CB_CALL, ErrHook, Goto, Leave, Return
    <2>3. CASE open = {}
      BY <2>1, <2>2, <2>3, <1>4
    <2>4. CASE open # {}
      <3>1. multipart /\ m.type = "VALID"
        BY <2>1, <2>4 DEF HalfInv
      <3>2. stage' = "msg_in" /\ multipart' = multipart
        BY <1>15, <1>3, <3>1 DEF HandleType, Hook, NL_CB_CALL, Goto
      <3> QED BY <2>1, <3>1, <3>2, <1>6
    <2> QED BY <2>3, <2>4
  <1> QED BY <1>7, <1>8, <1>9, <1>10, <1>11, <1>12, <1>13, <1>14, <1>15
          DEF recvmsgs

LEMMA HalfInvariance == Attentive => (Spec => []HalfInv)
  <1> SUFFICES ASSUME Attentive PROVE Spec => []HalfInv
    OBVIOUS
  <1>1. Init => HalfInv
    BY DEF Init, HalfInv, NoHalfDump
  <1>2. IInv /\ HalfInv /\ [Next]_vars => HalfInv'
    <2> SUFFICES ASSUME IInv, HalfInv, [Next]_vars PROVE HalfInv'
      OBVIOUS
    <2>1. CASE \/ UNCHANGED vars \/ Kernel \/ KernelNotify \/ PeerStray
      <3>1. UNCHANGED <<seqExpect, autoAck, hooks, stage, call, buf, multipart,
                        result, open>>
        BY <2>1 DEF vars, Kernel, KernelAnswer, KernelDump, KernelNotify, PeerStray,
                    sockVars, callVars, kernelVars, histVars
      <3>2. m' = m
        BY <3>1 DEF m
      <3> QED BY <3>1, <3>2 DEF HalfInv, NoHalfDump
    <2>2. CASE Application
      <3>1. UNCHANGED <<seqExpect, autoAck, hooks, open>>
        BY <2>2 DEF Application, nl_send_auto, nl_send_sync, nl_send_auto_fails, nl_send_sync_withheld,
                    nl_socket_use_seq, SetAutoAck, nl_socket_disable_seq_check,
                    nl_recvmsgs_default, nl_wait_for_ack, Attentive, sockVars, histVars,
                    kernelVars
      <3>2. (stage' = "idle" /\ call' = "none") \/ stage' = "read"
        BY <2>2 DEF Application, nl_send_auto, nl_send_sync, nl_send_auto_fails, nl_send_sync_withheld,
                    nl_socket_use_seq, SetAutoAck, nl_socket_disable_seq_check,
                    nl_recvmsgs_default, nl_wait_for_ack, Attentive, Enter,
                    SendAuto, MaySend
      <3> QED BY <3>1, <3>2 DEF HalfInv, NoHalfDump
    <2> QED BY <2>1, <2>2, RecvKeepsHalf DEF Next
  <1> QED BY <1>1, <1>2, Invariance, PTL DEF Spec

\* For every application that leaves the sequence check to the library and
\* stops no call: a successful call leaves no dump half read.
THEOREM DumpsReadToEnd == Attentive => (Spec => []NoHalfDump)
  <1>1. HalfInv => NoHalfDump
    BY DEF HalfInv
  <1> QED BY <1>1, HalfInvariance, PTL

-----------------------------------------------------------------------------
(* Counting the ends of replies.                                           *)

LEMMA SameSize ==
    ASSUME NEW A, NEW B, IsFiniteSet(B), NEW f \in [A -> B],
           \A x, y \in A : f[x] = f[y] => x = y,
           \A y \in B : \E x \in A : f[x] = y
    PROVE  IsFiniteSet(A) /\ Cardinality(A) = Cardinality(B)
  <1>1. f \in Injection(A, B) /\ f \in Surjection(A, B)
    BY DEF Injection, Surjection, IsInjective
  <1> QED BY <1>1, FS_Injection

LEMMA DisjointUnion ==
    ASSUME NEW A, NEW B, IsFiniteSet(A), IsFiniteSet(B), A \cap B = {}
    PROVE  /\ IsFiniteSet(A \cup B)
           /\ Cardinality(A \cup B) = Cardinality(A) + Cardinality(B)
  <1>1. Cardinality(A) \in Nat /\ Cardinality(B) \in Nat
    BY FS_CardinalityType
  <1>2. Cardinality(A \cap B) = 0
    BY FS_EmptySet
  <1>3. /\ IsFiniteSet(A \cup B)
        /\ Cardinality(A \cup B) =
              Cardinality(A) + Cardinality(B) - Cardinality(A \cap B)
    BY FS_Union
  <1> QED BY <1>1, <1>2, <1>3

LEMMA EndsFinite ==
    ASSUME NEW S, NEW d \in Seq(S)
    PROVE  /\ IsFiniteSet(Ends(d)) /\ Cardinality(Ends(d)) \in Nat
           /\ Ends(d) \subseteq 1..Len(d)
  <1>1. Ends(d) \subseteq 1..Len(d) /\ IsFiniteSet(1..Len(d))
    BY FS_Interval DEF Ends
  <1>2. IsFiniteSet(Ends(d))
    BY <1>1, FS_Subset
  <1> QED BY <1>1, <1>2, FS_CardinalityType

LEMMA EndsOfTail ==
    ASSUME NEW S, NEW d \in Seq(S), d # <<>>
    PROVE  Cardinality(Ends(d)) =
              Cardinality(Ends(Tail(d)))
                 + IF Head(d).type \in Terminators THEN 1 ELSE 0
  <1> DEFINE A == Ends(Tail(d))
             B == Ends(d) \ {1}
             f == [j \in A |-> j + 1]
  <1>1. /\ Tail(d) \in Seq(S) /\ Len(Tail(d)) = Len(d) - 1 /\ Len(d) \in Nat
        /\ \A i \in 1..Len(Tail(d)) : Tail(d)[i] = d[i + 1]
    BY HeadTailProperties
  <1>2. /\ IsFiniteSet(Ends(d)) /\ Ends(d) \subseteq 1..Len(d)
        /\ IsFiniteSet(A) /\ A \subseteq 1..Len(d) - 1
        /\ Cardinality(A) \in Nat /\ Cardinality(Ends(d)) \in Nat
    BY <1>1, EndsFinite
  <1>3. /\ IsFiniteSet(B)
        /\ Cardinality(B) = IF 1 \in Ends(d) THEN Cardinality(Ends(d)) - 1
                            ELSE Cardinality(Ends(d))
    BY <1>2, FS_RemoveElement
  <1>4. \A j \in 1..Len(d) - 1 : j \in A <=> j + 1 \in Ends(d)
    BY <1>1 DEF Ends
  <1>5. f \in [A -> B]
    BY <1>2, <1>4
  <1>6. \A x, y \in A : f[x] = f[y] => x = y
    BY <1>2
  <1>7. \A y \in B : \E x \in A : f[x] = y
    <2> TAKE y \in B
    <2>1. y - 1 \in A /\ f[y - 1] = y
      BY <1>2, <1>4
    <2> QED BY <2>1
  <1> HIDE DEF A, B, f
  <1>8. Cardinality(A) = Cardinality(B)
    BY <1>3, <1>5, <1>6, <1>7, SameSize
  <1>9. 1 \in Ends(d) <=> Head(d).type \in Terminators
    BY DEF Ends
  <1>10. Cardinality(Ends(d)) = Cardinality(A)
            + IF Head(d).type \in Terminators THEN 1 ELSE 0
    BY <1>2, <1>3, <1>8, <1>9
  <1> QED BY <1>10 DEF A

LEMMA EndsOfNone == Ends(<<>>) = {} /\ Cardinality(Ends(<<>>)) = 0
  <1>1. DOMAIN <<>> = {}
    OBVIOUS
  <1> QED BY <1>1, FS_EmptySet DEF Ends

LEMMA EndsOfOne ==
    ASSUME NEW x
    PROVE  Cardinality(Ends(<<x>>)) = IF x.type \in Terminators THEN 1 ELSE 0
  <1>1. PICK d : d = <<x>>
    OBVIOUS
  <1>2. d \in Seq({x}) /\ d # <<>> /\ Tail(d) = <<>> /\ Head(d) = x
    BY <1>1
  <1>3. Cardinality(Ends(d)) = Cardinality(Ends(Tail(d)))
           + IF Head(d).type \in Terminators THEN 1 ELSE 0
    BY <1>2, EndsOfTail
  <1> QED BY <1>1, <1>2, <1>3, EndsOfNone

LEMMA EndsOfTwo ==
    ASSUME NEW x, NEW y, x.type \notin Terminators, y.type \in Terminators
    PROVE  Cardinality(Ends(<<x, y>>)) = 1
  <1>1. PICK d : d = <<x, y>>
    OBVIOUS
  <1>2. d \in Seq({x, y}) /\ d # <<>> /\ Tail(d) = <<y>> /\ Head(d) = x
    BY <1>1
  <1>3. Cardinality(Ends(d)) = Cardinality(Ends(Tail(d)))
           + IF Head(d).type \in Terminators THEN 1 ELSE 0
    BY <1>2, EndsOfTail
  <1> QED BY <1>1, <1>2, <1>3, EndsOfOne

LEMMA EndsInIs ==
    ASSUME NEW q
    PROVE  \A p : p \in EndsIn(q) <=> \E i \in DOMAIN q : \E j \in Ends(q[i]) : p = <<i, j>>
  BY DEF EndsIn

LEMMA EndsInOfAppend ==
    ASSUME NEW S, NEW q \in Seq(Seq(S)), NEW d \in Seq(S), IsFiniteSet(EndsIn(q))
    PROVE  /\ IsFiniteSet(EndsIn(Append(q, d)))
           /\ Cardinality(EndsIn(Append(q, d))) =
                 Cardinality(EndsIn(q)) + Cardinality(Ends(d))
  <1> DEFINE n == Len(q) + 1
             C == {<<n, j>> : j \in Ends(d)}
             f == [p \in C |-> p[2]]
  <1>0. PICK r : r = Append(q, d)
    OBVIOUS
  <1>1. /\ DOMAIN q = 1..Len(q) /\ Len(q) \in Nat
        /\ DOMAIN r = 1..n
        /\ \A i \in 1..Len(q) : r[i] = q[i]
        /\ r[n] = d
    BY <1>0, AppendProperties
  <1>2. EndsIn(r) = EndsIn(q) \cup C
    <2>1. \A p : p \in EndsIn(r) <=> p \in EndsIn(q) \/ p \in C
      <3> HIDE DEF n
      <3>1. n = Len(q) + 1
        BY DEF n
      <3>2. \A i : i \in 1..n <=> i \in 1..Len(q) \/ i = n
        BY <1>1, <3>1
      <3>3. /\ \A i \in DOMAIN q : i \in DOMAIN r /\ r[i] = q[i]
            /\ \A i \in DOMAIN r : i \in DOMAIN q \/ i = n
            /\ n \in DOMAIN r
        BY <1>1, <3>1, <3>2
      <3>4. ASSUME NEW p, p \in EndsIn(r) PROVE p \in EndsIn(q) \/ p \in C
        <4>1. PICK i \in DOMAIN r :
                 \E j \in Ends(r[i]) : p = <<i, j>>
          BY <3>4, EndsInIs
        <4>2. CASE i \in DOMAIN q
          BY <4>1, <4>2, <3>3, EndsInIs
        <4>3. CASE i = n
          BY <4>1, <4>3, <1>1
        <4> QED BY <4>2, <4>3, <3>3
      <3>5. ASSUME NEW p, p \in EndsIn(q) PROVE p \in EndsIn(r)
        <4>1. PICK i \in DOMAIN q : \E j \in Ends(q[i]) : p = <<i, j>>
          BY <3>5, EndsInIs
        <4> QED BY <4>1, <3>3, EndsInIs
      <3>6. ASSUME NEW p, p \in C PROVE p \in EndsIn(r)
        <4>1. PICK j \in Ends(d) : p = <<n, j>>
          BY <3>6
        <4> QED BY <4>1, <1>1, <3>3, EndsInIs
      <3> QED BY <3>4, <3>5, <3>6
    <2> QED BY <2>1
  <1>3. EndsIn(q) \cap C = {}
    BY <1>1, EndsInIs
  <1>4. f \in [C -> Ends(d)]
    OBVIOUS
  <1>5. /\ \A x, y \in C : f[x] = f[y] => x = y
        /\ \A y \in Ends(d) : \E x \in C : f[x] = y
    <2>1. \A x, y \in C : f[x] = f[y] => x = y
      OBVIOUS
    <2>2. \A y \in Ends(d) : <<n, y>> \in C /\ f[<<n, y>>] = y
      OBVIOUS
    <2> QED BY <2>1, <2>2
  <1> HIDE DEF C, f
  <1>6. IsFiniteSet(C) /\ Cardinality(C) = Cardinality(Ends(d))
    BY <1>4, <1>5, EndsFinite, SameSize
  <1> QED BY <1>0, <1>2, <1>3, <1>6, DisjointUnion

LEMMA EndsInOfTail ==
    ASSUME NEW S, NEW q \in Seq(Seq(S)), q # <<>>, IsFiniteSet(EndsIn(q))
    PROVE  /\ IsFiniteSet(EndsIn(Tail(q)))
           /\ Cardinality(EndsIn(q)) =
                 Cardinality(EndsIn(Tail(q))) + Cardinality(Ends(Head(q)))
  <1>0. PICK t : t = Tail(q)
    OBVIOUS
  <1> DEFINE B == {p \in EndsIn(q) : p[1] # 1}
             C == {p \in EndsIn(q) : p[1] = 1}
             T == EndsIn(t)
             H == Ends(Head(q))
             f == [p \in T |-> <<p[1] + 1, p[2]>>]
             g == [p \in C |-> p[2]]
  <1>1. /\ DOMAIN q = 1..Len(q) /\ Len(q) \in Nat /\ 1 \in DOMAIN q /\ q[1] = Head(q)
        /\ DOMAIN t = 1..Len(q) - 1
        /\ \A i \in 1..Len(q) - 1 : t[i] = q[i + 1]
        /\ Head(q) \in Seq(S)
    BY <1>0, HeadTailProperties
  <1>2. EndsIn(q) = B \cup C /\ B \cap C = {}
    OBVIOUS
  <1>3. IsFiniteSet(B) /\ IsFiniteSet(C)
    BY FS_Subset
  <1>4. \A p \in T : /\ p = <<p[1], p[2]>> /\ p[1] \in 1..Len(q) - 1
                      /\ p[2] \in Ends(q[p[1] + 1])
    <2> TAKE p \in T
    <2>1. PICK i \in DOMAIN t : \E j \in Ends(t[i]) : p = <<i, j>>
      BY EndsInIs
    <2>2. PICK j \in Ends(t[i]) : p = <<i, j>>
      BY <2>1
    <2>3. p[1] = i /\ p[2] = j
      BY <2>2
    <2> QED BY <1>1, <2>1, <2>2, <2>3
  <1>5. f \in [T -> B]
    <2>1. ASSUME NEW p \in T PROVE <<p[1] + 1, p[2]>> \in B
      <3>1. p[1] + 1 \in DOMAIN q /\ p[1] + 1 # 1
        BY <1>1, <1>4
      <3>2. <<p[1] + 1, p[2]>> \in EndsIn(q)
        BY <3>1, <1>4, EndsInIs
      <3> QED BY <3>1, <3>2
    <2> QED BY <2>1
  <1>6. \A x, y \in T : f[x] = f[y] => x = y
    <2> TAKE x \in T, y \in T
    <2> HAVE f[x] = f[y]
    <2>1. x[1] \in Nat /\ y[1] \in Nat /\ x = <<x[1], x[2]>> /\ y = <<y[1], y[2]>>
      BY <1>1, <1>4
    <2>2. <<x[1] + 1, x[2]>> = <<y[1] + 1, y[2]>>
      OBVIOUS
    <2>3. x[1] + 1 = y[1] + 1 /\ x[2] = y[2]
      BY <2>2
    <2>4. x[1] = y[1]
      BY <2>1, <2>3
    <2> QED BY <2>1, <2>3, <2>4
  <1>7. \A y \in B : \E x \in T : f[x] = y
    <2> TAKE y \in B
    <2>1. PICK i \in DOMAIN q : \E j \in Ends(q[i]) : y = <<i, j>>
      BY EndsInIs
    <2>2. PICK j \in Ends(q[i]) : y = <<i, j>>
      BY <2>1
    <2>3. i # 1 /\ i - 1 \in 1..Len(q) - 1 /\ (i - 1) + 1 = i
      BY <1>1, <2>2
    <2>4. <<i - 1, j>> \in T
      BY <1>1, <2>2, <2>3, EndsInIs
    <2>5. f[<<i - 1, j>>] = <<i, j>>
      BY <2>3, <2>4
    <2> QED BY <2>2, <2>4, <2>5
  <1>8. \A p \in C : p = <<1, p[2]>> /\ p[2] \in H
    BY <1>1, EndsInIs
  <1>9. g \in [C -> H]
    BY <1>8
  <1>10. \A x, y \in C : g[x] = g[y] => x = y
    BY <1>8
  <1>11. \A y \in H : \E x \in C : g[x] = y
    <2> TAKE y \in H
    <2>1. <<1, y>> \in EndsIn(q)
      BY <1>1, EndsInIs
    <2>2. <<1, y>> \in C /\ g[<<1, y>>] = y
      BY <2>1
    <2> QED BY <2>2
  <1>12. IsFiniteSet(H)
    BY <1>1, EndsFinite
  <1> HIDE DEF B, C, T, H, f, g
  <1>13. IsFiniteSet(T) /\ Cardinality(T) = Cardinality(B)
    BY <1>3, <1>5, <1>6, <1>7, SameSize
  <1>14. Cardinality(C) = Cardinality(H)
    BY <1>9, <1>10, <1>11, <1>12, SameSize
  <1>15. Cardinality(EndsIn(q)) = Cardinality(B) + Cardinality(C)
    BY <1>2, <1>3, DisjointUnion
  <1> QED BY <1>0, <1>13, <1>14, <1>15 DEF T, H

-----------------------------------------------------------------------------
(* The expected number is never ahead.                                     *)

\* What is uncounted once the stage of the message at hand is over.
Rest == IF stage \in {"count", "send_ack", "type"} THEN Tail(buf) ELSE buf

LEMMA UncountedSeq ==
    ASSUME IInv
    PROVE  /\ Uncounted \in Seq(Msg) /\ Rest \in Seq(Msg)
           /\ Cardinality(Ends(Uncounted)) \in Nat /\ Cardinality(Ends(Rest)) \in Nat
  <1>1. buf \in Seq(Msg) /\ (stage \in {"count", "send_ack", "type"} => buf # <<>>)
    BY DEF IInv, Queues, Stages
  <1>2. Uncounted \in Seq(Msg) /\ Rest \in Seq(Msg)
    BY <1>1, HeadTailProperties DEF Uncounted, Rest
  <1> QED BY <1>2, EndsFinite

\* A stage counts the message at hand at most, and may drop what follows it.
LEMMA StagesCount ==
    ASSUME IInv,
           \/ EndOfDatagram \/ ConvertNomem \/ MsgIn \/ SeqCheck
           \/ Count \/ SendAck \/ HandleType
    PROVE  /\ UNCHANGED <<seqNext, strays, requests, dump, rxq>>
           /\ seqExpect' + Cardinality(Ends(Rest)) =
                 seqExpect + Cardinality(Ends(Uncounted))
           /\ \/ Uncounted' = Rest
              \/ Uncounted' = <<>>
              \/ /\ MsgIn \/ SeqCheck
                 /\ Uncounted' = Tail(Rest) /\ Rest # <<>>
  <1>1. UNCHANGED <<seqNext, strays, requests, dump, rxq>>
    BY DEF EndOfDatagram, ConvertNomem, MsgIn, SeqCheck, Count, SendAck,
           HandleType, sockVars, Elsewhere, kernelVars
  <1>2. seqExpect' + Cardinality(Ends(Rest)) =
           seqExpect + Cardinality(Ends(Uncounted))
    <2>1. CASE stage # "count"
      <3>1. seqExpect' = seqExpect
        BY <2>1 DEF EndOfDatagram, ConvertNomem, MsgIn, SeqCheck, Count, SendAck,
                    HandleType, AtStage, sockVars
      <3>2. Rest = Uncounted
        BY <2>1 DEF Rest, Uncounted
      <3> QED BY <3>1, <3>2
    <2>2. CASE stage = "count"
      <3>1. Count
        BY <2>2 DEF EndOfDatagram, ConvertNomem, MsgIn, SeqCheck, SendAck,
                    HandleType, AtStage
      <3>2. seqExpect' = IF m.type \in Terminators THEN seqExpect + 1 ELSE seqExpect
        BY <3>1 DEF Count, Advance
      <3>3. Rest = Tail(buf) /\ Uncounted = buf /\ buf \in Seq(Msg) /\ buf # <<>>
        BY <2>2 DEF Rest, Uncounted, IInv, Queues, Stages
      <3>4. Cardinality(Ends(buf)) = Cardinality(Ends(Tail(buf)))
               + IF Head(buf).type \in Terminators THEN 1 ELSE 0
        BY <3>3, EndsOfTail
      <3>5. Cardinality(Ends(Tail(buf))) \in Nat /\ seqExpect \in Nat
        BY <3>3, UncountedSeq DEF IInv, Shape
      <3> QED BY <3>2, <3>3, <3>4, <3>5 DEF m
    <2> QED BY <2>1, <2>2
  <1> SUFFICES \/ Uncounted' = Rest
               \/ Uncounted' = <<>>
               \/ /\ MsgIn \/ SeqCheck
                  /\ Uncounted' = Tail(Rest) /\ Rest # <<>>
    BY <1>1, <1>2
  <1>3. ASSUME stage' = "idle", buf' = <<>> PROVE Uncounted' = <<>>
    BY <1>3 DEF Uncounted
  <1>4. CASE EndOfDatagram
    BY <1>4, <1>3 DEF EndOfDatagram, Leave, Return, Uncounted, Rest
  <1>5. CASE ConvertNomem
    BY <1>5, <1>3 DEF ConvertNomem, Leave, Return
  <1>6. CASE MsgIn
    <2>1. stage = "msg_in" /\ buf # <<>>
      BY <1>6 DEF MsgIn, AtStage
    <2>2. \/ stage' = "seq_check" /\ buf' = buf
          \/ stage' = "msg_in" /\ buf' = Tail(buf)
          \/ stage' = "idle" /\ buf' = <<>>
      BY <1>6 DEF MsgIn, Hook, NL_CB_CALL, Goto, Leave, Return
    <2> QED BY <1>6, <2>1, <2>2, <1>3 DEF Uncounted, Rest
  <1>7. CASE SeqCheck
    <2>1. stage = "seq_check" /\ buf # <<>>
      BY <1>7 DEF SeqCheck, AtStage
    <2>2. \/ stage' = "count" /\ buf' = buf
          \/ stage' = "msg_in" /\ buf' = Tail(buf)
          \/ stage' = "idle" /\ buf' = <<>>
      BY <1>7 DEF SeqCheck, Hook, NL_CB_CALL, Goto, Leave, Return
    <2> QED BY <1>7, <2>1, <2>2, <1>3 DEF Uncounted, Rest
  <1>8. CASE Count
    <2>1. stage = "count" /\ buf # <<>>
      BY <1>8 DEF Count, AtStage
    <2>2. \/ stage' = "send_ack" /\ buf' = buf
          \/ stage' = "msg_in" /\ buf' = Tail(buf)
          \/ stage' = "idle" /\ buf' = <<>>
      BY <1>8 DEF Count, Hook, NL_CB_CALL, Goto, Leave, Return
    <2> QED BY <2>1, <2>2, <1>3 DEF Uncounted, Rest
  <1>9. CASE SendAck
    <2>1. stage = "send_ack" /\ buf # <<>>
      BY <1>9 DEF SendAck, AtStage
    <2>2. \/ stage' = "type" /\ buf' = buf
          \/ stage' = "msg_in" /\ buf' = Tail(buf)
          \/ stage' = "idle" /\ buf' = <<>>
      BY <1>9 DEF SendAck, Hook, NL_CB_CALL, Goto, Leave, Return
    <2> QED BY <2>1, <2>2, <1>3 DEF Uncounted, Rest
  <1>10. CASE HandleType
    <2>1. stage = "type" /\ buf # <<>>
      BY <1>10 DEF HandleType, AtStage
    <2>2. \/ stage' = "msg_in" /\ buf' = Tail(buf)
          \/ stage' = "idle" /\ buf' = <<>>
      BY <1>10 DEF HandleType, Hook, NL_CB_CALL, ErrHook, Goto, Leave, Return
    <2> QED BY <2>1, <2>2, <1>3 DEF Uncounted, Rest
  <1> QED BY <1>4, <1>5, <1>6, <1>7, <1>8, <1>9, <1>10

\* The sizes are numbers.
Sizes == IsFiniteSet(EndsIn(rxq))

LEMMA SizesAreNumbers ==
    ASSUME IInv, Sizes
    PROVE  /\ Cardinality(EndsIn(rxq)) \in Nat /\ Len(requests) \in Nat
           /\ Cardinality(Ends(Uncounted)) \in Nat /\ seqExpect \in Nat
           /\ seqNext \in Nat /\ strays \in Nat
  <1>1. Cardinality(EndsIn(rxq)) \in Nat
    BY FS_CardinalityType DEF Sizes
  <1>2. requests \in Seq([seq : Seqs, kind : Kinds, ack : BOOLEAN])
    BY DEF IInv, Queues
  <1>3. Len(requests) \in Nat
    BY <1>2
  <1> QED BY <1>1, <1>3, UncountedSeq, Numbers DEF IInv, Shape

LEMMA QueueIsSeq ==
    ASSUME IInv
    PROVE  rxq \in Seq(Seq(Msg)) /\ rxq \in Seq(Datagrams)
  BY DEF IInv, Queues, Datagrams

\* Reading moves a datagram, or loses it.
LEMMA ReadsCount ==
    ASSUME IInv, Sizes,
           ReadDatagram \/ ReadNobufs \/ ReadAgain \/ ReadTruncated \/ ReadNomem
    PROVE  /\ UNCHANGED <<seqNext, seqExpect, strays, requests, dump>>
           /\ Sizes'
           /\ Cardinality(EndsIn(rxq)) >=
                 Cardinality(EndsIn(rxq')) + Cardinality(Ends(Uncounted'))
           /\ ~ReadTruncated => Cardinality(EndsIn(rxq)) =
                 Cardinality(EndsIn(rxq')) + Cardinality(Ends(Uncounted'))
           /\ Cardinality(Ends(Uncounted)) = 0
           /\ Cardinality(EndsIn(rxq')) \in Nat /\ Cardinality(Ends(Uncounted')) \in Nat
  <1>1. UNCHANGED <<seqNext, seqExpect, strays, requests, dump>>
    BY DEF ReadDatagram, ReadNobufs, ReadAgain, ReadTruncated, ReadNomem,
           sockVars, kernelVars, histVars
  <1>2. stage = "read" /\ buf = <<>> /\ Uncounted = <<>>
    BY DEF ReadDatagram, ReadNobufs, ReadAgain, ReadTruncated, ReadNomem, IInv,
           Queues, Uncounted
  <1>3. CASE ReadDatagram
    <2>1. rxq # <<>> /\ rxq' = Tail(rxq) /\ buf' = Head(rxq) /\ stage' = "msg_in"
      BY <1>3 DEF ReadDatagram
    <2>2. Uncounted' = Head(rxq)
      BY <2>1 DEF Uncounted
    <2>3. /\ IsFiniteSet(EndsIn(Tail(rxq)))
          /\ Cardinality(EndsIn(rxq)) =
                Cardinality(EndsIn(Tail(rxq))) + Cardinality(Ends(Head(rxq)))
      BY <2>1, QueueIsSeq, EndsInOfTail DEF Sizes
    <2>4. Head(rxq) \in Seq(Msg)
      BY <2>1, QueueIsSeq, HeadTailProperties
    <2>5. Cardinality(EndsIn(rxq')) \in Nat /\ Cardinality(Ends(Head(rxq))) \in Nat
      BY <2>1, <2>3, <2>4, FS_CardinalityType, EndsFinite
    <2> QED BY <1>1, <1>2, <2>1, <2>2, <2>3, <2>5, EndsOfNone DEF Sizes
  <1>4. CASE ReadTruncated
    <2>1. rxq # <<>> /\ rxq' = Tail(rxq) /\ buf' = <<>> /\ stage' = "idle"
      BY <1>4 DEF ReadTruncated, Return
    <2>2. Uncounted' = <<>>
      BY <2>1 DEF Uncounted
    <2>3. /\ IsFiniteSet(EndsIn(Tail(rxq)))
          /\ Cardinality(EndsIn(rxq)) =
                Cardinality(EndsIn(Tail(rxq))) + Cardinality(Ends(Head(rxq)))
      BY <2>1, QueueIsSeq, EndsInOfTail DEF Sizes
    <2>4. Head(rxq) \in Seq(Msg)
      BY <2>1, QueueIsSeq, HeadTailProperties
    <2>5. Cardinality(EndsIn(rxq')) \in Nat /\ Cardinality(Ends(Head(rxq))) \in Nat
      BY <2>1, <2>3, <2>4, FS_CardinalityType, EndsFinite
    <2> QED BY <1>1, <1>2, <1>4, <2>1, <2>2, <2>3, <2>5, EndsOfNone DEF Sizes
  <1>5. CASE ReadNobufs \/ ReadAgain \/ ReadNomem
    <2>1. rxq' = rxq /\ buf' = <<>> /\ stage' = "idle"
      BY <1>5 DEF ReadNobufs, ReadAgain, ReadNomem, Return, kernelVars
    <2>2. Uncounted' = <<>>
      BY <2>1 DEF Uncounted
    <2> QED BY <1>1, <1>2, <2>1, <2>2, EndsOfNone, SizesAreNumbers DEF Sizes
  <1> QED BY <1>3, <1>4, <1>5

\* The queue qq is q with datagrams added that hold c ends of replies.
Grows(q, qq, c) ==
    /\ qq \in Seq(Seq(Msg)) /\ IsFiniteSet(EndsIn(qq))
    /\ Cardinality(EndsIn(qq)) = Cardinality(EndsIn(q)) + c

\* One datagram more, of one message.
LEMMA OneMore ==
    ASSUME NEW q \in Seq(Seq(Msg)), IsFiniteSet(EndsIn(q)), NEW x \in Msg, NEW d,
           d = <<x>>
    PROVE  Grows(q, Append(q, d), IF x.type \in Terminators THEN 1 ELSE 0)
  <1>2. d \in Seq(Msg)
    OBVIOUS
  <1>3. PICK r : r = Append(q, d)
    OBVIOUS
  <1>4. /\ IsFiniteSet(EndsIn(r))
        /\ Cardinality(EndsIn(r)) = Cardinality(EndsIn(q)) + Cardinality(Ends(d))
    BY <1>2, <1>3, EndsInOfAppend
  <1>5. Cardinality(Ends(d)) = IF x.type \in Terminators THEN 1 ELSE 0
    BY EndsOfOne
  <1>6. r \in Seq(Seq(Msg))
    BY <1>2, <1>3, AppendProperties
  <1>7. Grows(q, r, IF x.type \in Terminators THEN 1 ELSE 0)
    BY <1>4, <1>5, <1>6 DEF Grows
  <1> QED BY <1>3, <1>7

\* Short queues and their first datagrams.
LEMMA ShortQueues ==
    ASSUME NEW S, NEW d \in S, NEW e \in S
    PROVE  /\ <<d>> \in Seq(S) /\ Len(<<d>>) = 1 /\ <<d>>[1] = d
           /\ <<d, e>> \in Seq(S) /\ Len(<<d, e>>) = 2
           /\ <<d, e>>[1] = d /\ <<d, e>>[2] = e
           /\ Len(<<>>) = 0
           /\ <<d>> \o <<e>> = <<d, e>>
           /\ <<d>> \o <<>> = <<d>> /\ <<>> \o <<d>> = <<d>> /\ <<>> \o <<>> = <<>>
  <1>1. /\ <<d>> \in Seq(S) /\ Len(<<d>>) = 1 /\ <<d>>[1] = d
        /\ <<e>> \in Seq(S) /\ Len(<<e>>) = 1 /\ <<e>>[1] = e
    OBVIOUS
  <1>2. /\ <<d, e>> \in Seq(S) /\ Len(<<d, e>>) = 2
        /\ <<d, e>>[1] = d /\ <<d, e>>[2] = e
    OBVIOUS
  <1>3. <<>> \in Seq(S) /\ Len(<<>>) = 0
    OBVIOUS
  <1>4. PICK s : s = <<d>>
    OBVIOUS
  <1>5. PICK t : t = <<e>>
    OBVIOUS
  <1>6. PICK u : u = <<d, e>>
    OBVIOUS
  <1>7. PICK w : w = s \o t
    OBVIOUS
  <1>8. /\ w \in Seq(S) /\ Len(w) = 2
        /\ w[1] = d /\ w[2] = e
    <2>1. /\ s \in Seq(S) /\ Len(s) = 1 /\ s[1] = d
          /\ t \in Seq(S) /\ Len(t) = 1 /\ t[1] = e
      BY <1>1, <1>4, <1>5
    <2>2. w \in Seq(S) /\ Len(w) = 2
      BY <2>1, <1>7, ConcatProperties
    <2>3. w[1] = s[1] /\ w[2] = t[1]
      BY <2>1, <1>7, ConcatProperties
    <2> QED BY <2>1, <2>2, <2>3
  <1>9. u \in Seq(S) /\ Len(u) = 2 /\ u[1] = d /\ u[2] = e
    BY <1>2, <1>6
  <1>10. w = u
    BY <1>8, <1>9, SeqEqual
  <1>11. <<d>> \o <<>> = <<d>> /\ <<>> \o <<d>> = <<d>> /\ <<>> \o <<>> = <<>>
    BY <1>1, <1>3, ConcatEmptySeq
  <1> QED BY <1>1, <1>2, <1>3, <1>4, <1>5, <1>6, <1>7, <1>10, <1>11

LEMMA TakeNone ==
    ASSUME NEW S, NEW q \in Seq(S), NEW s
    PROVE  q \o SubSeq(s, 1, 0) = q
  <1>1. SubSeq(s, 1, 0) = <<>>
    BY SubSeqEmpty
  <1> QED BY <1>1, ConcatEmptySeq

LEMMA TakeOne ==
    ASSUME NEW S, NEW q \in Seq(S), NEW s \in Seq(S), Len(s) >= 1
    PROVE  q \o SubSeq(s, 1, 1) = Append(q, s[1])
  <1>1. PICK t : t = SubSeq(s, 1, 1)
    OBVIOUS
  <1>2. s[1] \in S
    OBVIOUS
  <1>3. t \in Seq(S) /\ Len(t) = 1 /\ t[1] = s[1]
    BY <1>1, <1>2, SubSeqProperties
  <1>4. <<s[1]>> \in Seq(S) /\ Len(<<s[1]>>) = 1 /\ <<s[1]>>[1] = s[1]
    BY <1>2, ShortQueues
  <1>5. t = <<s[1]>>
    BY <1>3, <1>4, SeqEqual
  <1> QED BY <1>1, <1>2, <1>5, AppendIsConcat

LEMMA TakeTwo ==
    ASSUME NEW S, NEW q \in Seq(S), NEW s \in Seq(S), Len(s) = 2
    PROVE  q \o SubSeq(s, 1, 2) = Append(Append(q, s[1]), s[2])
  <1>1. PICK t : t = SubSeq(s, 1, 2)
    OBVIOUS
  <1>2. s[1] \in S /\ s[2] \in S
    <2>1. \A i \in 1..Len(s) : s[i] \in S
      OBVIOUS
    <2>2. 1 \in 1..Len(s) /\ 2 \in 1..Len(s)
      OBVIOUS
    <2> QED BY <2>1, <2>2
  <1>3. t \in Seq(S) /\ Len(t) = 2 /\ t[1] = s[1] /\ t[2] = s[2]
    BY <1>1, <1>2, SubSeqProperties
  <1>4. PICK l : l = q \o t
    OBVIOUS
  <1>5. PICK a : a = Append(q, s[1])
    OBVIOUS
  <1>6. PICK b : b = Append(a, s[2])
    OBVIOUS
  <1>7. /\ a \in Seq(S) /\ Len(a) = Len(q) + 1 /\ a[Len(q) + 1] = s[1]
        /\ \A i \in 1..Len(q) : a[i] = q[i]
    BY <1>2, <1>5, AppendProperties
  <1>8. /\ b \in Seq(S) /\ Len(b) = Len(q) + 2 /\ b[Len(q) + 1] = s[1]
        /\ b[Len(q) + 2] = s[2] /\ \A i \in 1..Len(q) : b[i] = q[i]
    BY <1>2, <1>6, <1>7, AppendProperties
  <1>9. /\ l \in Seq(S) /\ Len(l) = Len(q) + 2
        /\ \A i \in 1..Len(q) : l[i] = q[i]
        /\ l[Len(q) + 1] = t[1] /\ l[Len(q) + 2] = t[2]
    <2>1. Len(q) \in Nat
      OBVIOUS
    <2>2. /\ l \in Seq(S) /\ Len(l) = Len(q) + Len(t)
          /\ \A i \in 1..Len(q) + Len(t) :
                l[i] = IF i <= Len(q) THEN q[i] ELSE t[i - Len(q)]
      BY <1>3, <1>4, ConcatProperties
    <2> QED BY <1>3, <2>1, <2>2
  <1>10. \A i \in 1..Len(l) : l[i] = b[i]
    <2>1. \A i \in 1..Len(l) : i \in 1..Len(q) \/ i = Len(q) + 1 \/ i = Len(q) + 2
      BY <1>9
    <2> QED BY <1>3, <1>8, <1>9, <2>1
  <1>11. l = b
    BY <1>8, <1>9, <1>10, SeqEqual
  <1> QED BY <1>1, <1>4, <1>5, <1>6, <1>11

\* The datagrams that answer a request end its reply at most once, and
\* exactly once if it asked for an ACK and no datagram is dropped.
LEMMA RepliesCount ==
    ASSUME NEW q \in Seq(Seq(Msg)), IsFiniteSet(EndsIn(q)),
           NEW r \in [seq : Seqs, kind : Kinds, ack : BOOLEAN],
           NEW ok \in BOOLEAN, NEW ds, ds = Reply(r, ok), NEW n \in 0..Len(ds)
    PROVE  \E c \in {0, 1} :
              /\ Grows(q, q \o SubSeq(ds, 1, n), c)
              /\ ok /\ r.kind = "dump" => c = 0
              /\ r.ack /\ n = Len(ds) /\ ~(ok /\ r.kind = "dump") => c = 1
  <1>1. PICK V : V = Message("VALID", r.seq)
    OBVIOUS
  <1>2. PICK A : A = Message("ACK", r.seq)
    OBVIOUS
  <1>3. PICK E : E = Message("ERROR", r.seq)
    OBVIOUS
  <1>4. V \in Msg /\ A \in Msg /\ E \in Msg
    BY <1>1, <1>2, <1>3 DEF Message, Msg, Terminators
  <1>5. /\ V.type \notin Terminators /\ A.type \in Terminators
        /\ E.type \in Terminators
    BY <1>1, <1>2, <1>3 DEF Message, Terminators
  <1>6. PICK v : v = <<V>>
    OBVIOUS
  <1>7. PICK a : a = <<A>>
    OBVIOUS
  <1>8. PICK e : e = <<E>>
    OBVIOUS
  <1>9. v \in Seq(Msg) /\ a \in Seq(Msg) /\ e \in Seq(Msg)
    BY <1>4, <1>6, <1>7, <1>8
  <1>10. /\ ~ok => ds = <<e>>
         /\ ok /\ r.kind = "dump" => ds = <<>>
         /\ ok /\ r.kind # "dump" =>
               ds = (IF r.kind = "get" THEN <<v>> ELSE <<>>)
                    \o (IF r.ack THEN <<a>> ELSE <<>>)
    BY <1>1, <1>2, <1>3, <1>6, <1>7, <1>8 DEF Reply
  <1>11. /\ <<v>> \o <<a>> = <<v, a>> /\ <<v>> \o <<>> = <<v>>
         /\ <<>> \o <<a>> = <<a>> /\ <<>> \o <<>> = <<>>
    BY <1>9, ShortQueues
  <1>12. \/ ds = <<>> /\ ok /\ (r.kind = "dump" \/ ~r.ack)
         \/ ds = <<e>> /\ ~ok
         \/ ds = <<v>> /\ ok /\ ~r.ack /\ r.kind # "dump"
         \/ ds = <<a>> /\ ok /\ r.kind # "dump"
         \/ ds = <<v, a>> /\ ok /\ r.kind # "dump"
    BY <1>10, <1>11
  <1>13. Grows(q, q, 0)
    <2>1. Cardinality(EndsIn(q)) \in Nat
      BY FS_CardinalityType
    <2> QED BY <2>1 DEF Grows
  <1>14. Grows(q, Append(q, v), 0) /\ Grows(q, Append(q, a), 1) /\ Grows(q, Append(q, e), 1)
    <2>1. Grows(q, Append(q, v), 0)
      BY <1>4, <1>5, <1>6, OneMore
    <2>2. Grows(q, Append(q, a), 1)
      BY <1>4, <1>5, <1>7, OneMore
    <2>3. Grows(q, Append(q, e), 1)
      BY <1>4, <1>5, <1>8, OneMore
    <2> QED BY <2>1, <2>2, <2>3
  <1>15. Grows(q, Append(Append(q, v), a), 1)
    <2>1. PICK q1 : q1 = Append(q, v)
      OBVIOUS
    <2>2. /\ q1 \in Seq(Seq(Msg)) /\ IsFiniteSet(EndsIn(q1))
          /\ Cardinality(EndsIn(q1)) = Cardinality(EndsIn(q)) + 0
      BY <2>1, <1>14 DEF Grows
    <2>3. Grows(q1, Append(q1, a), 1)
      BY <2>2, <1>4, <1>5, <1>7, OneMore
    <2>4. Cardinality(EndsIn(q)) \in Nat
      BY FS_CardinalityType
    <2>5. Grows(q, Append(q1, a), 1)
      BY <2>2, <2>3, <2>4 DEF Grows
    <2> QED BY <2>1, <2>5
  <1>16. CASE ds = <<>> /\ ok /\ (r.kind = "dump" \/ ~r.ack)
    <2>0. ds = <<>>
      BY <1>16
    <2>1. n = 0
      BY <2>0
    <2>2. q \o SubSeq(ds, 1, n) = q
      BY <2>1, TakeNone
    <2> QED BY <2>2, <1>13, <1>16
  <1>17. CASE ds = <<e>> /\ ~ok
    <2>0. ds = <<e>>
      BY <1>17
    <2>1. ds \in Seq(Seq(Msg)) /\ Len(ds) = 1 /\ ds[1] = e
      BY <1>9, <2>0, ShortQueues
    <2>2. n \in {0, 1}
      BY <2>1
    <2>3. n = 0 => q \o SubSeq(ds, 1, n) = q
      BY TakeNone
    <2>4. n = 1 => q \o SubSeq(ds, 1, n) = Append(q, e)
      BY <2>1, TakeOne
    <2> QED BY <2>1, <2>2, <2>3, <2>4, <1>13, <1>14, <1>17
  <1>18. CASE ds = <<v>> /\ ok /\ ~r.ack /\ r.kind # "dump"
    <2>0. ds = <<v>>
      BY <1>18
    <2>1. ds \in Seq(Seq(Msg)) /\ Len(ds) = 1 /\ ds[1] = v
      BY <1>9, <2>0, ShortQueues
    <2>2. n \in {0, 1}
      BY <2>1
    <2>3. n = 0 => q \o SubSeq(ds, 1, n) = q
      BY TakeNone
    <2>4. n = 1 => q \o SubSeq(ds, 1, n) = Append(q, v)
      BY <2>1, TakeOne
    <2> QED BY <2>1, <2>2, <2>3, <2>4, <1>13, <1>14, <1>18
  <1>19. CASE ds = <<a>> /\ ok /\ r.kind # "dump"
    <2>0. ds = <<a>>
      BY <1>19
    <2>1. ds \in Seq(Seq(Msg)) /\ Len(ds) = 1 /\ ds[1] = a
      BY <1>9, <2>0, ShortQueues
    <2>2. n \in {0, 1}
      BY <2>1
    <2>3. n = 0 => q \o SubSeq(ds, 1, n) = q
      BY TakeNone
    <2>4. n = 1 => q \o SubSeq(ds, 1, n) = Append(q, a)
      BY <2>1, TakeOne
    <2> QED BY <2>1, <2>2, <2>3, <2>4, <1>13, <1>14, <1>19
  <1>20. CASE ds = <<v, a>> /\ ok /\ r.kind # "dump"
    <2>0. ds = <<v, a>>
      BY <1>20
    <2>1. ds \in Seq(Seq(Msg)) /\ Len(ds) = 2 /\ ds[1] = v /\ ds[2] = a
      BY <1>9, <2>0, ShortQueues
    <2>2. n \in {0, 1, 2}
      BY <2>1
    <2>3. n = 0 => q \o SubSeq(ds, 1, n) = q
      BY TakeNone
    <2>4. n = 1 => q \o SubSeq(ds, 1, n) = Append(q, v)
      BY <2>1, TakeOne
    <2>5. n = 2 => q \o SubSeq(ds, 1, n) = Append(Append(q, v), a)
      BY <2>1, TakeTwo
    <2> QED BY <2>1, <2>2, <2>3, <2>4, <2>5, <1>13, <1>14, <1>15, <1>20
  <1> QED BY <1>12, <1>16, <1>17, <1>18, <1>19, <1>20

\* The kernel turns requests and dumps into ends of replies.
LEMMA KernelAnswerCounts ==
    ASSUME IInv, Sizes, KernelAnswer
    PROVE  /\ Sizes' /\ Outstanding' <= Outstanding
           /\ Outstanding' \in Nat
           /\ ("drop_reply" \notin Hazards /\ requests[1].ack) =>
                 Outstanding' = Outstanding
  <1>1. PICK ok \in BOOLEAN :
           LET r == Head(requests) ds == Reply(r, ok)
           IN  /\ ok /\ r.kind = "dump" => dump = NoDump
               /\ \E n \in 0..Len(ds) :
                     /\ n < Len(ds) => "drop_reply" \in Hazards
                     /\ rxq' = rxq \o SubSeq(ds, 1, n)
               /\ IF ok /\ r.kind = "dump"
                     THEN \E n \in 0..MaxParts :
                             dump' = [seq |-> r.seq, left |-> n]
                     ELSE UNCHANGED dump
    BY DEF KernelAnswer
  <1>2. PICK r : r = Head(requests)
    OBVIOUS
  <1>3. PICK n \in 0..Len(Reply(r, ok)) :
           /\ n < Len(Reply(r, ok)) => "drop_reply" \in Hazards
           /\ rxq' = rxq \o SubSeq(Reply(r, ok), 1, n)
    BY <1>1, <1>2
  <1> DEFINE R == [seq : Seqs, kind : Kinds, ack : BOOLEAN]
  <1>4. requests \in Seq(R) /\ requests # <<>> /\ requests' = Tail(requests)
    BY DEF KernelAnswer, IInv, Queues
  <1>5. r \in R /\ Len(requests') = Len(requests) - 1 /\ r = requests[1]
    <2> HIDE DEF R
    <2> QED BY <1>2, <1>4, HeadTailProperties
  <1>6. Uncounted' = Uncounted
    BY DEF KernelAnswer, callVars, Uncounted
  <1>7. PICK ds : ds = Reply(r, ok)
    OBVIOUS
  <1>8. PICK k \in {0, 1} :
           /\ Grows(rxq, rxq', k)
           /\ ok /\ r.kind = "dump" => k = 0
           /\ r.ack /\ n = Len(ds) /\ ~(ok /\ r.kind = "dump") => k = 1
    BY <1>3, <1>5, <1>7, QueueIsSeq, RepliesCount DEF Sizes
  <1>9. Cardinality(EndsIn(rxq')) \in Nat
    BY <1>8, FS_CardinalityType DEF Grows
  <1>10. "drop_reply" \notin Hazards => n = Len(ds)
    <2>1. Reply(r, ok) \in Seq(Datagrams)
      BY <1>5, ReplyShape
    <2>2. Len(Reply(r, ok)) \in Nat
      BY <2>1
    <2> QED BY <1>3, <1>7, <2>2
  <1>11. /\ ok /\ r.kind = "dump" => dump = NoDump /\ dump' # NoDump
         /\ ~(ok /\ r.kind = "dump") => dump' = dump
    <2>1. CASE ok /\ r.kind = "dump"
      <3>1. r.seq # 0
        BY <1>4, <1>5 DEF IInv, Waits
      <3>2. dump = NoDump /\ \E j \in 0..MaxParts : dump' = [seq |-> r.seq, left |-> j]
        BY <1>1, <1>2, <2>1
      <3>3. dump' # NoDump
        BY <3>1, <3>2 DEF NoDump
      <3> QED BY <2>1, <3>2, <3>3
    <2>2. CASE ~(ok /\ r.kind = "dump")
      BY <1>1, <1>2, <2>2
    <2> QED BY <2>1, <2>2
  <1>12. Len(requests') \in Nat
    BY <1>4, <1>5, HeadTailProperties
  <1>13. Len(requests') + 1 = Len(requests)
    BY <1>5, SizesAreNumbers
  <1> HIDE DEF R
  <1> DEFINE L  == Len(requests)
             LL == Len(requests')
             Q  == Cardinality(EndsIn(rxq))
             QQ == Cardinality(EndsIn(rxq'))
             U  == Cardinality(Ends(Uncounted))
             d  == IF dump = NoDump THEN 0 ELSE 1
             dd == IF dump' = NoDump THEN 0 ELSE 1
  <1>14. Outstanding = L + d + Q + U /\ Outstanding' = LL + dd + QQ + U
    BY <1>6 DEF Outstanding
  <1>15. L \in Nat /\ LL \in Nat /\ Q \in Nat /\ QQ \in Nat /\ U \in Nat
    BY <1>9, <1>12, SizesAreNumbers
  <1>16. /\ d \in Nat /\ dd \in Nat /\ k \in Nat /\ dd + k <= d + 1
         /\ "drop_reply" \notin Hazards /\ r.ack => dd + k = d + 1
    BY <1>8, <1>10, <1>11
  <1>17. LL + 1 = L /\ QQ = Q + k
    BY <1>8, <1>13 DEF Grows
  <1>18. Sizes'
    BY <1>8 DEF Sizes, Grows
  <1> HIDE DEF L, LL, Q, QQ, U, d, dd
  <1> QED BY <1>5, <1>14, <1>15, <1>16, <1>17, <1>18

\* A datagram added by somebody else, with c ends.
LEMMA AddedCounts ==
    ASSUME IInv, Sizes, NEW d \in Seq(Msg), rxq' = Append(rxq, d),
           UNCHANGED <<requests, stage, buf>>
    PROVE  /\ Sizes'
           /\ (dump = NoDump <=> dump' = NoDump) =>
                 Outstanding' = Outstanding + Cardinality(Ends(d))
           /\ dump # NoDump /\ dump' = NoDump =>
                 Outstanding' + 1 = Outstanding + Cardinality(Ends(d))
           /\ Outstanding' \in Nat
  <1>1. /\ IsFiniteSet(EndsIn(rxq'))
        /\ Cardinality(EndsIn(rxq')) = Cardinality(EndsIn(rxq)) + Cardinality(Ends(d))
    BY QueueIsSeq, EndsInOfAppend DEF Sizes
  <1>2. Cardinality(EndsIn(rxq')) \in Nat /\ Cardinality(Ends(d)) \in Nat
    BY <1>1, EndsFinite, FS_CardinalityType
  <1>3. Uncounted' = Uncounted
    BY DEF Uncounted
  <1> DEFINE L  == Len(requests)
             Q  == Cardinality(EndsIn(rxq))
             QQ == Cardinality(EndsIn(rxq'))
             U  == Cardinality(Ends(Uncounted))
             k  == IF dump = NoDump THEN 0 ELSE 1
             kk == IF dump' = NoDump THEN 0 ELSE 1
             c  == Cardinality(Ends(d))
  <1>4. Outstanding = L + k + Q + U /\ Outstanding' = L + kk + QQ + U
    BY <1>3 DEF Outstanding
  <1>5. /\ L \in Nat /\ Q \in Nat /\ QQ \in Nat /\ U \in Nat /\ c \in Nat
        /\ k \in Nat /\ kk \in Nat /\ QQ = Q + c
    BY <1>1, <1>2, SizesAreNumbers
  <1>6. Sizes'
    BY <1>1 DEF Sizes
  <1>7. /\ (dump = NoDump <=> dump' = NoDump) => kk = k
        /\ dump # NoDump /\ dump' = NoDump => k = 1 /\ kk = 0
    OBVIOUS
  <1> HIDE DEF L, Q, QQ, U, k, kk, c
  <1>8. /\ kk = k => Outstanding' = Outstanding + c
        /\ k = 1 /\ kk = 0 => Outstanding' + 1 = Outstanding + c
        /\ Outstanding' \in Nat
    BY <1>4, <1>5
  <1> QED BY <1>6, <1>7, <1>8 DEF c

LEMMA OutstandingIsNumber ==
    IInv /\ Sizes => Outstanding \in Nat
  BY SizesAreNumbers DEF Outstanding

\* The DONE of a dump replaces the dump.
LEMMA KernelDumpCounts ==
    ASSUME IInv, Sizes, KernelDump
    PROVE  Sizes' /\ Outstanding' = Outstanding
  <1>1. dump # NoDump /\ dump.seq \in Seqs /\ dump.seq # 0
    BY DEF KernelDump, IInv, Queues, Replies
  <1>2. UNCHANGED <<requests, stage, buf>>
    BY DEF KernelDump, callVars
  <1>3. PICK i \in BOOLEAN, j \in BOOLEAN :
         \/ /\ rxq' = Append(rxq, <<Part("VALID", dump.seq, i)>>)
            /\ dump' = [dump EXCEPT !.left = @ - 1]
         \/ /\ rxq' = Append(rxq, <<Part("VALID", dump.seq, i),
                                    Part("DONE", dump.seq, j)>>)
            /\ dump' = NoDump
         \/ /\ rxq' = Append(rxq, <<Part("DONE", dump.seq, i)>>)
            /\ dump' = NoDump
    BY DEF KernelDump
  <1>4. PICK V : V = Part("VALID", dump.seq, i)
    OBVIOUS
  <1>5. PICK D : D = Part("DONE", dump.seq, j)
    OBVIOUS
  <1>6. PICK E : E = Part("DONE", dump.seq, i)
    OBVIOUS
  <1>7. /\ V \in Msg /\ D \in Msg /\ E \in Msg
        /\ V.type \notin Terminators /\ D.type \in Terminators /\ E.type \in Terminators
    <2>1. V \in Msg /\ V.type = "VALID"
      BY <1>1, <1>4 DEF Part, Message, Msg
    <2>2. D \in Msg /\ D.type = "DONE"
      BY <1>1, <1>5 DEF Part, Message, Msg, Terminators
    <2>3. E \in Msg /\ E.type = "DONE"
      BY <1>1, <1>6 DEF Part, Message, Msg, Terminators
    <2> QED BY <2>1, <2>2, <2>3 DEF Terminators
  <1>8. Outstanding \in Nat
    BY OutstandingIsNumber
  <1>9. CASE /\ rxq' = Append(rxq, <<V>>)
             /\ dump' = [dump EXCEPT !.left = @ - 1]
    <2>1. dump' # NoDump
      <3>1. dump'.seq # 0
        BY <1>1, <1>9 DEF IInv, Queues
      <3> QED BY <3>1 DEF NoDump
    <2>2. PICK d : d = <<V>>
      OBVIOUS
    <2>3. d \in Seq(Msg) /\ Cardinality(Ends(d)) = 0
      BY <2>2, <1>7, EndsOfOne
    <2>4. rxq' = Append(rxq, d)
      BY <1>9, <2>2
    <2>5. Sizes' /\ Outstanding' = Outstanding + Cardinality(Ends(d))
      BY <2>1, <2>3, <2>4, <1>1, <1>2, AddedCounts
    <2> QED BY <2>3, <2>5, <1>8
  <1>10. CASE /\ rxq' = Append(rxq, <<V, D>>) \/ rxq' = Append(rxq, <<E>>)
              /\ dump' = NoDump
    <2>1. ASSUME NEW d \in Seq(Msg), Cardinality(Ends(d)) = 1, rxq' = Append(rxq, d)
          PROVE  Sizes' /\ Outstanding' = Outstanding
      <3>1. /\ Sizes' /\ Outstanding' \in Nat
            /\ Outstanding' + 1 = Outstanding + Cardinality(Ends(d))
        BY <2>1, <1>1, <1>2, <1>10, AddedCounts
      <3>2. Outstanding' + 1 = Outstanding + 1
        BY <2>1, <3>1
      <3>3. \A a, b \in Nat : a + 1 = b + 1 => a = b
        OBVIOUS
      <3>4. Outstanding' = Outstanding
        BY ONLY <3>1, <3>2, <3>3, <1>8
      <3> QED BY <3>1, <3>4
    <2>2. PICK f : f = <<V, D>>
      OBVIOUS
    <2>3. PICK g : g = <<E>>
      OBVIOUS
    <2>4. /\ f \in Seq(Msg) /\ Cardinality(Ends(f)) = 1
          /\ g \in Seq(Msg) /\ Cardinality(Ends(g)) = 1
      BY <2>2, <2>3, <1>7, EndsOfOne, EndsOfTwo
    <2>5. rxq' = Append(rxq, f) \/ rxq' = Append(rxq, g)
      BY <2>2, <2>3, <1>10
    <2> QED BY <2>1, <2>4, <2>5
  <1> QED BY <1>3, <1>4, <1>5, <1>6, <1>9, <1>10

\* A stray message counts as an end that no request announced.
LEMMA OthersCount ==
    ASSUME IInv, Sizes, KernelNotify \/ PeerStray
    PROVE  /\ Sizes'
           /\ \/ Outstanding' = Outstanding /\ strays' = strays
              \/ PeerStray /\ Outstanding' = Outstanding + 1 /\ strays' = strays + 1
  <1>1. UNCHANGED <<requests, stage, buf, dump>>
    BY DEF KernelNotify, PeerStray, callVars
  <1>2. Outstanding \in Nat /\ strays \in Nat /\ 0 \in Seqs
    BY OutstandingIsNumber, Numbers DEF IInv, Shape
  <1>3. ASSUME NEW x \in Msg, rxq' = Append(rxq, <<x>>)
        PROVE  Sizes' /\ Outstanding' = Outstanding
                                         + IF x.type \in Terminators THEN 1 ELSE 0
    <2>1. PICK d : d = <<x>>
      OBVIOUS
    <2>2. d \in Seq(Msg) /\ rxq' = Append(rxq, d)
      BY <2>1, <1>3
    <2>3. Cardinality(Ends(d)) = IF x.type \in Terminators THEN 1 ELSE 0
      BY <2>1, EndsOfOne
    <2>4. Sizes' /\ Outstanding' = Outstanding + Cardinality(Ends(d))
      BY <2>2, <1>1, AddedCounts
    <2> QED BY <2>3, <2>4
  <1>4. CASE KernelNotify
    <2>1. UNCHANGED strays
      BY <1>4 DEF KernelNotify
    <2>2. CASE rxq' = Append(rxq, <<Message("VALID", 0)>>)
      <3>1. PICK x : x = Message("VALID", 0)
        OBVIOUS
      <3>2. x \in Msg /\ x.type \notin Terminators
        BY <3>1, <1>2 DEF Message, Msg, Terminators
      <3>3. rxq' = Append(rxq, <<x>>)
        BY <3>1, <2>2
      <3> QED BY <2>1, <3>2, <3>3, <1>2, <1>3
    <2>3. CASE UNCHANGED rxq
      <3>1. Outstanding' = Outstanding
        BY <2>3, <1>1 DEF Outstanding, Uncounted
      <3> QED BY <2>1, <2>3, <3>1, <1>2 DEF Sizes
    <2> QED BY <1>4, <2>2, <2>3 DEF KernelNotify
  <1>5. CASE PeerStray
    <2>1. strays' = strays + 1
      BY <1>5 DEF PeerStray
    <2>2. PICK t \in {"NOOP", "OVERRUN", "TRUNC"} :
             rxq' = Append(rxq, <<[Message(t, 0) EXCEPT !.ack = TRUE]>>)
      BY <1>5 DEF PeerStray
    <2>3. PICK x : x = [Message(t, 0) EXCEPT !.ack = TRUE]
      OBVIOUS
    <2>4. x \in Msg /\ x.type \in Terminators
      BY <2>3, <1>2 DEF Message, Msg, Terminators
    <2>5. rxq' = Append(rxq, <<x>>)
      BY <2>2, <2>3
    <2> QED BY <2>1, <2>4, <2>5, <1>2, <1>3, <1>5
  <1> QED BY <1>4, <1>5

\* The application uses a number for every request, and for some it does
\* not send.
LEMMA ApplicationCounts ==
    ASSUME IInv, Sizes, Application
    PROVE  /\ Sizes' /\ UNCHANGED <<seqExpect, strays>>
           /\ \/ seqNext' = seqNext + 1 /\ Outstanding' = Outstanding + 1
              \/ seqNext' = seqNext /\ Outstanding' = Outstanding
              \/ /\ nl_send_auto_fails \/ nl_send_sync_withheld \/ nl_socket_use_seq
                 /\ seqNext' = seqNext + 1 /\ Outstanding' = Outstanding
  <1>1. UNCHANGED <<seqExpect, strays, rxq, dump, buf>>
    BY DEF Application, nl_send_auto, nl_send_sync, nl_send_auto_fails, nl_send_sync_withheld,
           nl_socket_use_seq, SetAutoAck, nl_socket_disable_seq_check,
           nl_recvmsgs_default, nl_wait_for_ack, Enter, sockVars, callVars,
           kernelVars, histVars
  <1>2. stage \in {"idle", "read"} /\ stage' \in {"idle", "read"}
    BY DEF Application, nl_send_auto, nl_send_sync, nl_send_auto_fails, nl_send_sync_withheld,
           nl_socket_use_seq, SetAutoAck, nl_socket_disable_seq_check,
           nl_recvmsgs_default, nl_wait_for_ack, Enter, SendAuto, MaySend,
           callVars
  <1>3. Sizes' /\ Uncounted' = Uncounted
    BY <1>1, <1>2 DEF Sizes, Uncounted
  <1>4. ASSUME NEW k \in Kinds, SendAuto(k)
        PROVE  seqNext' = seqNext + 1 /\ Outstanding' = Outstanding + 1
    <2> DEFINE R == [seq : Seqs, kind : Kinds, ack : BOOLEAN]
    <2>1. PICK r : r = [seq |-> seqNext, kind |-> k, ack |-> autoAck]
      OBVIOUS
    <2>2. r \in R /\ requests \in Seq(R)
      BY <2>1, Numbers DEF IInv, Shape, Queues
    <2>3. requests' = Append(requests, r) /\ seqNext' = seqNext + 1
      BY <1>4, <2>1 DEF SendAuto, UseSeq
    <2> HIDE DEF R
    <2>4. Len(requests') = Len(requests) + 1
      BY <2>2, <2>3, AppendProperties
    <2>5. Outstanding' = Outstanding + 1
      BY <2>4, <1>1, <1>3, SizesAreNumbers DEF Outstanding
    <2> QED BY <2>3, <2>5
  <1>5. ASSUME UNCHANGED requests PROVE Outstanding' = Outstanding
    BY <1>1, <1>3, <1>5 DEF Outstanding
  <1>6. CASE \E k \in Kinds : nl_send_auto(k) \/ nl_send_sync(k)
    BY <1>1, <1>3, <1>4, <1>6 DEF nl_send_auto, nl_send_sync
  <1>7. CASE nl_send_auto_fails \/ nl_send_sync_withheld \/ nl_socket_use_seq
    BY <1>1, <1>3, <1>5, <1>7
    DEF nl_send_auto_fails, nl_send_sync_withheld, nl_socket_use_seq, UseSeq, kernelVars
  <1>8. CASE \/ \E on \in BOOLEAN : SetAutoAck(on)
             \/ nl_socket_disable_seq_check \/ nl_recvmsgs_default
             \/ nl_wait_for_ack
    <2>1. UNCHANGED <<seqNext, requests>>
      BY <1>8 DEF SetAutoAck, nl_socket_disable_seq_check, nl_recvmsgs_default,
                  nl_wait_for_ack, sockVars, kernelVars
    <2> QED BY <1>1, <1>3, <1>5, <2>1
  <1> QED BY <1>6, <1>7, <1>8 DEF Application

\* A step of recvmsgs() never raises the sum.
LEMMA RecvCounts ==
    ASSUME IInv, Sizes, recvmsgs
    PROVE  /\ Sizes' /\ UNCHANGED <<seqNext, strays>>
           /\ seqExpect' + Outstanding' <= seqExpect + Outstanding
  <1> DEFINE L  == Len(requests)
             Q  == Cardinality(EndsIn(rxq))
             QQ == Cardinality(EndsIn(rxq'))
             U  == Cardinality(Ends(Uncounted))
             UU == Cardinality(Ends(Uncounted'))
             R  == Cardinality(Ends(Rest))
             k  == IF dump = NoDump THEN 0 ELSE 1
  <1>1. L \in Nat /\ Q \in Nat /\ U \in Nat /\ R \in Nat /\ seqExpect \in Nat /\ k \in Nat
    BY SizesAreNumbers, UncountedSeq
  <1>2. Outstanding = L + k + Q + U
    BY DEF Outstanding
  <1>3. CASE \/ EndOfDatagram \/ ConvertNomem \/ MsgIn \/ SeqCheck
             \/ Count \/ SendAck \/ HandleType
    <2>1. UNCHANGED <<seqNext, strays, requests, dump, rxq>> /\ seqExpect' + R = seqExpect + U
      BY <1>3, StagesCount
    <2>2. UU \in Nat /\ UU <= R
      <3>1. \/ Uncounted' = Rest \/ Uncounted' = <<>>
            \/ Uncounted' = Tail(Rest) /\ Rest # <<>>
        BY <1>3, StagesCount
      <3>2. Rest # <<>> => /\ Cardinality(Ends(Tail(Rest))) \in Nat
                           /\ Cardinality(Ends(Tail(Rest))) <= R
        <4>1. Rest \in Seq(Msg)
          BY UncountedSeq
        <4>2. ASSUME Rest # <<>>
              PROVE  /\ Tail(Rest) \in Seq(Msg)
                     /\ R = Cardinality(Ends(Tail(Rest)))
                             + IF Head(Rest).type \in Terminators THEN 1 ELSE 0
          BY <4>1, <4>2, HeadTailProperties, EndsOfTail
        <4>3. ASSUME Rest # <<>> PROVE Cardinality(Ends(Tail(Rest))) \in Nat
          BY <4>2, <4>3, EndsFinite
        <4> HIDE DEF R
        <4> QED BY <4>2, <4>3, <1>1
      <3>3. CASE Uncounted' = Rest
        BY <3>3, <1>1
      <3>4. CASE Uncounted' = <<>>
        <4>1. UU = 0
          BY <3>4, EndsOfNone
        <4> QED BY <4>1, <1>1
      <3>5. CASE Uncounted' = Tail(Rest) /\ Rest # <<>>
        BY <3>2, <3>5
      <3> QED BY <3>1, <3>3, <3>4, <3>5
    <2>3. Outstanding' = L + k + Q + UU
      BY <2>1 DEF Outstanding
    <2>4. Sizes'
      BY <2>1 DEF Sizes
    <2>5. seqExpect' \in Nat
      BY StepIInv DEF IInv, Shape, Next
    <2> HIDE DEF L, Q, U, UU, R, k
    <2>6. seqExpect' + R = seqExpect + U
      BY <2>1
    <2>7. \A e, ee, r, u, uu, w \in Nat :
             ee + r = e + u /\ uu <= r => ee + (w + uu) <= e + (w + u)
      OBVIOUS
    <2>8. L + k + Q \in Nat
      BY <1>1
    <2>9. seqExpect' + (L + k + Q + UU) <= seqExpect + (L + k + Q + U)
      BY <1>1, <2>2, <2>5, <2>6, <2>7, <2>8
    <2> QED BY <1>2, <2>1, <2>3, <2>4, <2>9
  <1>4. CASE ReadDatagram \/ ReadNobufs \/ ReadAgain \/ ReadTruncated \/ ReadNomem
    <2>1. /\ UNCHANGED <<seqNext, seqExpect, strays, requests, dump>> /\ Sizes'
          /\ Q >= QQ + UU /\ U = 0 /\ QQ \in Nat /\ UU \in Nat
      BY <1>4, ReadsCount
    <2>2. Outstanding' = L + k + QQ + UU
      BY <2>1 DEF Outstanding
    <2> HIDE DEF L, Q, QQ, U, UU, R, k
    <2> QED BY <1>1, <1>2, <2>1, <2>2
  <1> QED BY <1>3, <1>4 DEF recvmsgs

LEMMA CountInvariance == Spec => [](Sizes /\ SeqNeverAhead)
  <1> DEFINE J == Sizes /\ SeqNeverAhead
  <1>1. Init => J
    <2> SUFFICES ASSUME Init PROVE J
      OBVIOUS
    <2>1. EndsIn(rxq) = {}
      <3>1. DOMAIN <<>> = {}
        OBVIOUS
      <3> QED BY <3>1 DEF Init, EndsIn
    <2>2. IsFiniteSet(EndsIn(rxq)) /\ Cardinality(EndsIn(rxq)) = 0
      BY <2>1, FS_EmptySet
    <2>3. Cardinality(Ends(Uncounted)) = 0
      BY EndsOfNone DEF Init, Uncounted
    <2>4. Len(requests) = 0 /\ dump = NoDump /\ seqExpect = seqNext /\ strays = 0
      BY DEF Init
    <2>5. Outstanding = 0
      BY <2>2, <2>3, <2>4 DEF Outstanding
    <2>6. seqNext \in Nat /\ seqExpect \in Nat
      BY RecvAssumption DEF Init
    <2> QED BY <2>2, <2>4, <2>5, <2>6 DEF Sizes, SeqNeverAhead
  <1>2. IInv /\ J /\ [Next]_vars => J'
    <2> SUFFICES ASSUME IInv, J, [Next]_vars PROVE J'
      OBVIOUS
    <2>1. IInv' /\ (Sizes' => Outstanding' \in Nat)
      <3>1. IInv'
        BY StepIInv
      <3>2. ASSUME Sizes' PROVE Outstanding' \in Nat
        <4>1. (IInv /\ Sizes => Outstanding \in Nat)'
          BY OutstandingIsNumber, PTL
        <4> QED BY <3>1, <3>2, <4>1
      <3> QED BY <3>1, <3>2
    <2>2. /\ Outstanding \in Nat /\ seqNext \in Nat /\ seqExpect \in Nat /\ strays \in Nat
          /\ seqNext' \in Nat /\ seqExpect' \in Nat /\ strays' \in Nat
      <3>1. seqNext \in Nat /\ seqExpect \in Nat /\ strays \in Nat
        BY RecvAssumption DEF IInv, Shape
      <3>2. seqNext' \in Nat /\ seqExpect' \in Nat /\ strays' \in Nat
        BY <2>1, RecvAssumption DEF IInv, Shape
      <3> QED BY <3>1, <3>2, OutstandingIsNumber
    <2>3. CASE UNCHANGED vars
      BY <2>3 DEF vars, sockVars, callVars, kernelVars, histVars, Sizes,
                  SeqNeverAhead, Outstanding, Uncounted
    <2>4. CASE recvmsgs
      <3>1. /\ Sizes' /\ UNCHANGED <<seqNext, strays>>
            /\ seqExpect' + Outstanding' <= seqExpect + Outstanding
        BY <2>4, RecvCounts
      <3> QED BY <2>1, <2>2, <3>1 DEF SeqNeverAhead
    <2>5. CASE KernelAnswer
      <3>1. UNCHANGED <<seqNext, seqExpect, strays>>
        BY <2>5 DEF KernelAnswer, sockVars, histVars
      <3>2. Sizes' /\ Outstanding' <= Outstanding
        BY <2>5, KernelAnswerCounts
      <3> QED BY <2>1, <2>2, <3>1, <3>2 DEF SeqNeverAhead
    <2>6. CASE KernelDump
      <3>1. UNCHANGED <<seqNext, seqExpect, strays>>
        BY <2>6 DEF KernelDump, sockVars, histVars
      <3>2. Sizes' /\ Outstanding' = Outstanding
        BY <2>6, KernelDumpCounts
      <3> QED BY <3>1, <3>2 DEF SeqNeverAhead
    <2>7. CASE KernelNotify \/ PeerStray
      <3>1. UNCHANGED <<seqNext, seqExpect>>
        BY <2>7 DEF KernelNotify, PeerStray, sockVars
      <3>2. /\ Sizes'
            /\ \/ Outstanding' = Outstanding /\ strays' = strays
               \/ Outstanding' = Outstanding + 1 /\ strays' = strays + 1
        BY <2>7, OthersCount
      <3>3. seqExpect + Outstanding <= seqNext + strays
        BY DEF SeqNeverAhead
      <3>4. seqExpect' + Outstanding' <= seqNext' + strays'
        BY <2>2, <3>1, <3>2, <3>3
      <3> QED BY <3>2, <3>4 DEF SeqNeverAhead
    <2>8. CASE Application
      <3>1. /\ Sizes' /\ UNCHANGED <<seqExpect, strays>>
            /\ \/ seqNext' = seqNext + 1 /\ Outstanding' = Outstanding + 1
               \/ seqNext' \in {seqNext, seqNext + 1} /\ Outstanding' = Outstanding
        BY <2>8, ApplicationCounts
      <3> QED BY <2>2, <3>1 DEF SeqNeverAhead
    <2> QED BY <2>3, <2>4, <2>5, <2>6, <2>7, <2>8 DEF Next, Kernel
  <1> QED BY <1>1, <1>2, Invariance, PTL DEF Spec

\* s_seq_expect is never ahead of the replies that can still come, for any
\* number of requests, whatever is lost, refused, overlapped or abandoned.
THEOREM NeverAhead == Spec => []SeqNeverAhead
  BY CountInvariance, PTL

\* The types; the bound of s_seq_expect rests on the accounting.
THEOREM TypeCorrect == Spec => []TypeOK
  <1>1. IInv /\ Sizes /\ SeqNeverAhead => TypeOK
    <2> SUFFICES ASSUME IInv, Sizes, SeqNeverAhead PROVE TypeOK
      OBVIOUS
    <2>1. seqExpect \in Seqs
      <3>1. Outstanding \in Nat
        BY OutstandingIsNumber
      <3>2. /\ seqExpect \in Nat /\ seqNext \in Nat /\ strays \in Nat /\ events \in Nat
            /\ seqNext <= StartSeq + MaxReq /\ events + strays <= MaxEvents
        BY RecvAssumption DEF IInv, Shape
      <3>3. seqExpect + Outstanding <= seqNext + strays
        BY DEF SeqNeverAhead
      <3>4. StartSeq \in Nat /\ MaxReq \in Nat /\ MaxEvents \in Nat
        BY RecvAssumption
      <3>5. seqExpect <= StartSeq + MaxReq + MaxEvents
        BY <3>1, <3>2, <3>3, <3>4
      <3> QED BY <3>2, <3>4, <3>5 DEF Seqs
    <2>2. seqNext \in Seqs
      BY Numbers
    <2>3. events \in 0..MaxEvents /\ strays \in 0..MaxEvents
      BY RecvAssumption DEF IInv, Shape
    <2>4. /\ autoAck \in BOOLEAN /\ multipart \in BOOLEAN /\ interrupted \in BOOLEAN
          /\ overrun \in BOOLEAN
          /\ hooks \subseteq Hooks
          /\ stage \in {"idle", "read"} \cup Stages
          /\ call \in {"none", "recv", "wait", "sync"}
          /\ result \in Results
          /\ outcome \in [Seqs -> {"pending", "ok", "error"}]
          /\ sync \in [seq : Seqs, clean : BOOLEAN]
          /\ open \subseteq Seqs /\ untold \subseteq Seqs
      BY DEF IInv, Shape
    <2>5. Queues
      BY DEF IInv
    <2> QED BY <2>1, <2>2, <2>3, <2>4, <2>5 DEF TypeOK, Queues
  <1> QED BY <1>1, Invariance, CountInvariance, PTL
-----------------------------------------------------------------------------
(* Requests that are let run to their end: the exact account.              *)

\* The application leaves sequence numbers to the library, lets every call
\* run to its end, and nothing goes wrong.
Orderly == Attentive /\ Hazards = {}

\* x may come before y: replies arrive in the order of the requests, and the
\* end of a reply last.
Ahead(x, y) ==
    x.seq # 0 /\ y.seq # 0 =>
       x.seq <= y.seq /\ (x.type \in Terminators => x.seq < y.seq)

Ordered(d) == \A a, b \in DOMAIN d : a < b => Ahead(d[a], d[b])

\* What is left of a datagram, d, and the queue behind it, q, are in order.
Order(d, q) ==
    /\ Ordered(d)
    /\ \A i \in DOMAIN q : Ordered(q[i])
    /\ \A i, j \in DOMAIN q : i < j =>
          \A x \in Elems(q[i]), y \in Elems(q[j]) : Ahead(x, y)
    /\ \A x \in Elems(d), y \in Queued(q) : Ahead(x, y)

\* Only parts of a dump share a datagram.
Single(d) == \A a, b \in DOMAIN d : a # b => d[a].multi

Line ==
    /\ Order(Uncounted, rxq)
    /\ Single(buf) /\ \A i \in DOMAIN rxq : Single(rxq[i])
    /\ \A x \in Flying : x.type \in {"VALID", "DONE", "ACK", "ERROR"}
    /\ stage # "idle" => result = "none"

\* Each number from the expected one on has one end still to come, and
\* nothing older is unread.
Unread == Elems(Uncounted) \cup Queued(rxq)
Alive(n) ==
    \/ \E i \in DOMAIN requests : requests[i].seq = n
    \/ dump # NoDump /\ dump.seq = n
    \/ \E x \in Unread : x.seq = n /\ x.type \in Terminators
Pending ==
    /\ seqExpect <= seqNext
    /\ \A x \in Unread : x.seq # 0 => x.seq >= seqExpect
    /\ dump # NoDump =>
          /\ requests = <<>> /\ dump.seq >= seqExpect
          /\ \A x \in Unread : /\ x.seq <= dump.seq
                               /\ x.type \in Terminators => x.seq < dump.seq
    /\ \A i \in DOMAIN requests :
          /\ requests[i].ack = TRUE /\ requests[i].seq >= seqExpect
          /\ requests[i].kind = "dump" => i = Len(requests)
          /\ \A x \in Unread : x.seq < requests[i].seq
    /\ \A n \in Nat : seqExpect <= n /\ n < seqNext => Alive(n)

OInv == IInv /\ HalfInv /\ Sizes /\ Line /\ Pending

LEMMA ElemsSplit ==
    ASSUME NEW S, NEW d \in Seq(S), d # <<>>
    PROVE  Elems(d) = {Head(d)} \cup Elems(Tail(d))
  <1>1. /\ Len(d) \in Nat /\ Len(d) >= 1 /\ DOMAIN d = 1..Len(d) /\ Head(d) = d[1]
        /\ DOMAIN Tail(d) = 1..(Len(d) - 1)
        /\ \A i \in 1..(Len(d) - 1) : Tail(d)[i] = d[i + 1]
    BY HeadTailProperties
  <1>2. ASSUME NEW i \in 1..Len(d) PROVE d[i] \in {Head(d)} \cup Elems(Tail(d))
    <2>1. CASE i = 1
      BY <2>1, <1>1
    <2>2. CASE i # 1
      <3>1. i - 1 \in 1..(Len(d) - 1) /\ Tail(d)[i - 1] = d[i]
        BY <2>2, <1>1
      <3> QED BY <3>1, <1>1 DEF Elems
    <2> QED BY <2>1, <2>2
  <1>3. Elems(Tail(d)) \subseteq Elems(d) /\ Head(d) \in Elems(d)
    BY ElemsOfTail
  <1> QED BY <1>1, <1>2, <1>3 DEF Elems

LEMMA QueuedSplit ==
    ASSUME NEW S, NEW q \in Seq(S), q # <<>>
    PROVE  Queued(q) = Elems(Head(q)) \cup Queued(Tail(q))
  <1>1. /\ Len(q) \in Nat /\ Len(q) >= 1 /\ DOMAIN q = 1..Len(q) /\ Head(q) = q[1]
        /\ DOMAIN Tail(q) = 1..(Len(q) - 1)
        /\ \A i \in 1..(Len(q) - 1) : Tail(q)[i] = q[i + 1]
    BY HeadTailProperties
  <1>2. ASSUME NEW i \in 1..Len(q)
        PROVE  Elems(q[i]) \subseteq Elems(Head(q)) \cup Queued(Tail(q))
    <2>1. CASE i = 1
      BY <2>1, <1>1
    <2>2. CASE i # 1
      <3>1. i - 1 \in 1..(Len(q) - 1) /\ Tail(q)[i - 1] = q[i]
        BY <2>2, <1>1
      <3> QED BY <3>1, <1>1 DEF Queued
    <2> QED BY <2>1, <2>2
  <1>3. Queued(q) \subseteq Elems(Head(q)) \cup Queued(Tail(q))
    BY <1>1, <1>2 DEF Queued
  <1> QED BY <1>3, QueuedOfTail

LEMMA QueuedJoin ==
    ASSUME NEW S, NEW q \in Seq(S), NEW d \in S
    PROVE  Queued(Append(q, d)) = Queued(q) \cup Elems(d)
  <1>1. PICK r : r = Append(q, d)
    OBVIOUS
  <1>2. /\ Len(q) \in Nat /\ DOMAIN q = 1..Len(q) /\ DOMAIN r = 1..(Len(q) + 1)
        /\ \A i \in 1..Len(q) : r[i] = q[i]
        /\ r[Len(q) + 1] = d
    BY <1>1, AppendProperties
  <1>3. /\ \A i \in DOMAIN q : i \in DOMAIN r /\ r[i] = q[i]
        /\ Len(q) + 1 \in DOMAIN r
    BY <1>2
  <1>4. Queued(q) \cup Elems(d) \subseteq Queued(r)
    BY <1>2, <1>3 DEF Queued
  <1> QED BY <1>1, <1>4, QueuedOfAppend

\* The order of a shorter line.
LEMMA OrderOfTail ==
    ASSUME NEW S, NEW d \in Seq(S), d # <<>>, NEW q, Order(d, q)
    PROVE  /\ Order(Tail(d), q)
           /\ \A y \in Elems(Tail(d)) \cup Queued(q) : Ahead(Head(d), y)
  <1>1. /\ Len(d) \in Nat /\ Len(d) >= 1 /\ DOMAIN d = 1..Len(d) /\ Head(d) = d[1]
        /\ DOMAIN Tail(d) = 1..(Len(d) - 1)
        /\ \A i \in 1..(Len(d) - 1) : Tail(d)[i] = d[i + 1]
    BY HeadTailProperties
  <1>2. Ordered(d)
    BY DEF Order
  <1>3. Ordered(Tail(d))
    <2> SUFFICES ASSUME NEW a \in 1..(Len(d) - 1), NEW b \in 1..(Len(d) - 1), a < b
                 PROVE  Ahead(Tail(d)[a], Tail(d)[b])
      BY <1>1 DEF Ordered
    <2>1. a + 1 \in DOMAIN d /\ b + 1 \in DOMAIN d /\ a + 1 < b + 1
      BY <1>1
    <2>2. Ahead(d[a + 1], d[b + 1])
      BY <2>1, <1>2 DEF Ordered
    <2> QED BY <2>2, <1>1
  <1>4. Elems(Tail(d)) \subseteq Elems(d) /\ Head(d) \in Elems(d)
    BY ElemsOfTail
  <1>5. \A y \in Elems(Tail(d)) : Ahead(Head(d), y)
    <2> SUFFICES ASSUME NEW b \in 1..(Len(d) - 1) PROVE Ahead(Head(d), Tail(d)[b])
      BY <1>1 DEF Elems
    <2>1. 1 \in DOMAIN d /\ b + 1 \in DOMAIN d /\ 1 < b + 1
      BY <1>1
    <2>2. Ahead(d[1], d[b + 1])
      BY <2>1, <1>2 DEF Ordered
    <2> QED BY <2>2, <1>1
  <1> QED BY <1>3, <1>4, <1>5 DEF Order

LEMMA OrderOfRead ==
    ASSUME NEW S, NEW q \in Seq(S), q # <<>>, NEW d, Order(d, q)
    PROVE  Order(Head(q), Tail(q))
  <1>1. /\ Len(q) \in Nat /\ Len(q) >= 1 /\ DOMAIN q = 1..Len(q) /\ Head(q) = q[1]
        /\ DOMAIN Tail(q) = 1..(Len(q) - 1)
        /\ \A i \in 1..(Len(q) - 1) : Tail(q)[i] = q[i + 1]
    BY HeadTailProperties
  <1>2. \A i, j \in DOMAIN q : i < j =>
           \A x \in Elems(q[i]), y \in Elems(q[j]) : Ahead(x, y)
    BY DEF Order
  <1>3. \A i \in DOMAIN Tail(q) :
           i + 1 \in DOMAIN q /\ Tail(q)[i] = q[i + 1] /\ 1 < i + 1
    BY <1>1
  <1>4. Ordered(Head(q)) /\ \A i \in DOMAIN Tail(q) : Ordered(Tail(q)[i])
    BY <1>1, <1>3 DEF Order
  <1>5. \A i, j \in DOMAIN Tail(q) : i < j =>
           \A x \in Elems(Tail(q)[i]), y \in Elems(Tail(q)[j]) : Ahead(x, y)
    <2> SUFFICES ASSUME NEW i \in DOMAIN Tail(q), NEW j \in DOMAIN Tail(q), i < j
                 PROVE  \A x \in Elems(Tail(q)[i]), y \in Elems(Tail(q)[j]) : Ahead(x, y)
      OBVIOUS
    <2>1. i + 1 < j + 1
      BY <1>1
    <2> QED BY <2>1, <1>2, <1>3
  <1>6. \A x \in Elems(Head(q)), y \in Queued(Tail(q)) : Ahead(x, y)
    <2> SUFFICES ASSUME NEW x \in Elems(Head(q)), NEW j \in DOMAIN Tail(q),
                        NEW y \in Elems(Tail(q)[j])
                 PROVE  Ahead(x, y)
      BY DEF Queued
    <2> QED BY <1>1, <1>2, <1>3
  <1> QED BY <1>4, <1>5, <1>6 DEF Order

\* A datagram added behind everything.
LEMMA OrderOfAppend ==
    ASSUME NEW S, NEW q \in Seq(S), NEW e \in S, NEW d, Order(d, q), Ordered(e),
           \A x \in Elems(d) \cup Queued(q), y \in Elems(e) : Ahead(x, y)
    PROVE  Order(d, Append(q, e))
  <1>1. PICK r : r = Append(q, e)
    OBVIOUS
  <1>2. /\ Len(q) \in Nat /\ DOMAIN q = 1..Len(q) /\ DOMAIN r = 1..(Len(q) + 1)
        /\ \A i \in 1..Len(q) : r[i] = q[i]
        /\ r[Len(q) + 1] = e
    BY <1>1, AppendProperties
  <1>3. \A i \in DOMAIN r : (i \in DOMAIN q /\ r[i] = q[i]) \/ (i = Len(q) + 1 /\ r[i] = e)
    BY <1>2
  <1>4. Queued(r) = Queued(q) \cup Elems(e)
    BY <1>1, QueuedJoin
  <1>5. \A i \in DOMAIN r : Ordered(r[i])
    BY <1>3 DEF Order
  <1>6. ASSUME NEW i \in DOMAIN r, NEW j \in DOMAIN r, i < j,
               NEW x \in Elems(r[i]), NEW y \in Elems(r[j])
        PROVE  Ahead(x, y)
    <2>1. i \in DOMAIN q /\ r[i] = q[i]
      BY <1>2, <1>6
    <2>2. x \in Queued(q)
      BY <2>1, <1>6 DEF Queued
    <2>3. CASE j \in DOMAIN q /\ r[j] = q[j]
      BY <2>1, <2>3, <1>6 DEF Order
    <2>4. CASE r[j] = e
      BY <2>2, <2>4, <1>6
    <2> QED BY <2>3, <2>4, <1>3
  <1>7. \A x \in Elems(d), y \in Queued(r) : Ahead(x, y)
    BY <1>4 DEF Order
  <1>8. Order(d, r)
    BY <1>5, <1>6, <1>7 DEF Order
  <1> QED BY <1>1, <1>8

LEMMA NothingShared ==
    ASSUME NEW S, NEW d \in Seq(S), d # <<>>, Single(d), ~Head(d).multi
    PROVE  Tail(d) = <<>>
  <1>1. Len(d) \in Nat /\ Len(d) >= 1 /\ DOMAIN d = 1..Len(d) /\ Head(d) = d[1]
    BY HeadTailProperties
  <1>2. Len(d) = 1
    <2> SUFFICES ASSUME Len(d) # 1 PROVE FALSE
      OBVIOUS
    <2>1. 1 \in DOMAIN d /\ 2 \in DOMAIN d
      BY <1>1
    <2> QED BY <2>1, <1>1 DEF Single
  <1>3. Tail(d) \in Seq(S) /\ Len(Tail(d)) = 0
    BY <1>2, HeadTailProperties
  <1> QED BY <1>3, EmptySeq

\* What is at hand or unread is on its way.
LEMMA UnreadFlies ==
    ASSUME IInv
    PROVE  Unread \subseteq Flying
  <1>1. buf \in Seq(Msg) /\ (stage \in {"send_ack", "type"} => buf # <<>>)
    BY DEF IInv, Queues, Stages
  <1>2. Elems(Uncounted) \subseteq Elems(buf)
    BY <1>1, ElemsOfTail DEF Uncounted
  <1> QED BY <1>2 DEF Unread, Flying

\* The numbers of requests and of the dump are numbers.
LEMMA AskedNumbers ==
    ASSUME IInv
    PROVE  /\ dump.seq \in Nat
           /\ \A i \in DOMAIN requests :
                 /\ requests[i] \in [seq : Seqs, kind : Kinds, ack : BOOLEAN]
                 /\ requests[i].seq \in Nat
  <1> DEFINE R == [seq : Seqs, kind : Kinds, ack : BOOLEAN]
  <1>1. Seqs \subseteq Nat
    BY Numbers
  <1>2. dump.seq \in Seqs /\ requests \in Seq(R)
    BY DEF IInv, Queues
  <1>3. \A r \in R : r.seq \in Nat
    BY <1>1
  <1> HIDE DEF R
  <1>4. \A i \in DOMAIN requests : requests[i] \in R
    BY <1>2
  <1> QED BY <1>1, <1>2, <1>3, <1>4 DEF R

\* A queue behind d that is in order, of datagrams the kernel sends.
Tidy(d, q) ==
    /\ Order(d, q)
    /\ \A i \in DOMAIN q : Single(q[i])
    /\ \A x \in Queued(q) : x.type \in {"VALID", "DONE", "ACK", "ERROR"}

\* What is known of the line and of its numbers.
LEMMA QueueTidy ==
    ASSUME OInv
    PROVE  /\ Tidy(Uncounted, rxq) /\ rxq \in Seq(Seq(Msg))
           /\ \A x \in Unread : x.seq \in Nat /\ x.seq < seqNext
           /\ seqExpect \in Nat /\ seqNext \in Nat /\ dump.seq \in Nat
           /\ \A i \in DOMAIN requests : requests[i].seq \in Nat
  <1>1. Tidy(Uncounted, rxq)
    BY DEF OInv, Line, Tidy, Flying
  <1>2. rxq \in Seq(Seq(Msg))
    BY QueueIsSeq DEF OInv
  <1>3. \A x \in Unread : x.seq \in Nat /\ x.seq < seqNext
    BY UnreadFlies, Numbers DEF OInv, IInv, Replies
  <1>4. seqExpect \in Nat /\ seqNext \in Nat /\ Seqs \subseteq Nat
    BY Numbers DEF OInv, IInv, Shape
  <1>5. dump.seq \in Nat /\ \A i \in DOMAIN requests : requests[i].seq \in Nat
    BY AskedNumbers DEF OInv
  <1> QED BY <1>1, <1>2, <1>3, <1>4, <1>5

\* Nothing is older than the message at hand: a reply has the expected number.
LEMMA HeadExpected ==
    ASSUME OInv, Uncounted # <<>>
    PROVE  Head(Uncounted).seq \in {0, seqExpect}
  <1> DEFINE x == Head(Uncounted)
  <1>1. Uncounted \in Seq(Msg)
    BY UncountedSeq DEF OInv
  <1>2. Elems(Uncounted) = {x} \cup Elems(Tail(Uncounted))
    BY <1>1, ElemsSplit
  <1>3. \A y \in Elems(Tail(Uncounted)) \cup Queued(rxq) : Ahead(x, y)
    BY <1>1, OrderOfTail DEF OInv, Line
  <1> HIDE DEF x
  <1>4. x \in Unread /\ \A y \in Unread : y = x \/ Ahead(x, y)
    BY <1>2, <1>3 DEF Unread
  <1>5. \A y \in Unread : y.seq \in Nat /\ y.seq < seqNext
    BY UnreadFlies, Numbers DEF OInv, IInv, Replies
  <1>6. seqExpect \in Nat /\ seqNext \in Nat
    BY Numbers DEF OInv, IInv, Shape
  <1> SUFFICES ASSUME x.seq # 0, x.seq # seqExpect PROVE FALSE
    BY DEF x
  <1>7. x.seq > seqExpect /\ seqExpect < seqNext
    BY <1>4, <1>5, <1>6 DEF OInv, Pending
  <1>8. Alive(seqExpect)
    BY <1>6, <1>7 DEF OInv, Pending
  <1>9. CASE \E i \in DOMAIN requests : requests[i].seq = seqExpect
    BY <1>4, <1>5, <1>6, <1>7, <1>9 DEF OInv, Pending
  <1>10. CASE dump # NoDump /\ dump.seq = seqExpect
    BY <1>4, <1>5, <1>6, <1>7, <1>10 DEF OInv, Pending
  <1>11. CASE \E y \in Unread : y.seq = seqExpect /\ y.type \in Terminators
    <2>1. PICK y \in Unread : y.seq = seqExpect /\ y.type \in Terminators
      BY <1>11
    <2>2. Ahead(x, y) /\ y.seq # 0
      BY <2>1, <1>4, <1>7, UnreadFlies DEF OInv, IInv, Replies, Line, Terminators
    <2>3. x.seq <= y.seq
      BY <2>2 DEF Ahead
    <2> QED BY <2>1, <2>3, <1>4, <1>5, <1>6, <1>7
  <1> QED BY <1>8, <1>9, <1>10, <1>11 DEF Alive

\* A step of recvmsgs() reads a datagram, passes a message that is no reply
\* or has the expected number, or leaves what is unread alone.
Reads ==
    /\ Uncounted = <<>> /\ rxq # <<>> /\ seqExpect' = seqExpect
    /\ Uncounted' = Head(rxq) /\ rxq' = Tail(rxq)
Keeps ==
    Uncounted' = Uncounted /\ rxq' = rxq /\ seqExpect' = seqExpect
Passes ==
    /\ Uncounted # <<>> /\ Uncounted' = Tail(Uncounted) /\ rxq' = rxq
    /\ LET x == Head(Uncounted)
       IN  IF x.type \in Terminators
              THEN x.seq = seqExpect /\ seqExpect' = seqExpect + 1
              ELSE seqExpect' = seqExpect

LEMMA RecvPasses ==
    ASSUME OInv, Orderly, recvmsgs
    PROVE  Reads \/ Keeps \/ Passes
  <1>1. /\ \A h \in {"MSG_IN", "SEQ_CHECK", "INVALID"} : ~IsSet(h)
        /\ HookVerdicts \subseteq {"OK", "SKIP"}
    BY DEF Orderly, Attentive, OInv, HalfInv, IsSet
  <1>2. \A h : h # "ACK" => "STOP" \notin Verdicts(h) /\ "ERR" \notin Verdicts(h)
    BY <1>1 DEF Verdicts
  <1>3. IInv /\ HalfInv /\ Line
    BY DEF OInv
  <1>4. buf \in Seq(Msg)
    BY <1>3 DEF IInv, Queues
  <1>5. ASSUME stage \in {"send_ack", "type"}, buf # <<>>, ~m.multi
        PROVE  Uncounted = <<>>
    BY <1>3, <1>4, <1>5, NothingShared DEF Uncounted, Line, m
  <1>6. buf # <<>> => /\ m.type \in {"VALID", "DONE", "ACK", "ERROR"}
                      /\ m.type \in {"ACK", "ERROR"} => ~m.multi
                      /\ m.seq = 0 => ~m.multi /\ m.type \notin Terminators
    <2> SUFFICES ASSUME buf # <<>>
                 PROVE  /\ m.type \in {"VALID", "DONE", "ACK", "ERROR"}
                        /\ m.type \in {"ACK", "ERROR"} => ~m.multi
                        /\ m.seq = 0 => ~m.multi /\ m.type \notin Terminators
      OBVIOUS
    <2>1. m \in Flying
      BY <1>3, AtHand
    <2> QED BY <2>1, <1>3 DEF IInv, Replies, Line, Terminators
  <1>7. CASE ReadDatagram
    <2>1. stage = "read" /\ buf = <<>> /\ stage' = "msg_in"
      BY <1>7, <1>3 DEF ReadDatagram, IInv, Queues
    <2> QED BY <1>7, <2>1 DEF ReadDatagram, Reads, Uncounted, sockVars
  <1>8. CASE ReadNobufs \/ ReadAgain
    <2>1. stage = "read" /\ buf = <<>> /\ stage' = "idle" /\ buf' = <<>>
      BY <1>8, <1>3 DEF ReadNobufs, ReadAgain, Return, IInv, Queues
    <2>2. UNCHANGED <<rxq, seqExpect>>
      BY <1>8 DEF ReadNobufs, ReadAgain, sockVars, kernelVars
    <2> QED BY <2>1, <2>2 DEF Keeps, Uncounted
  <1>9. CASE ReadTruncated \/ ReadNomem \/ ConvertNomem
    BY <1>9 DEF ReadTruncated, ReadNomem, ConvertNomem, Orderly
  <1>10. CASE EndOfDatagram
    <2>1. stage = "msg_in" /\ buf = <<>> /\ stage' \in {"idle", "read"} /\ buf' = <<>>
      BY <1>10 DEF EndOfDatagram, Leave, Return
    <2>2. UNCHANGED <<rxq, seqExpect>>
      BY <1>10 DEF EndOfDatagram, sockVars, Elsewhere, kernelVars
    <2> QED BY <2>1, <2>2 DEF Keeps, Uncounted
  <1>11. CASE MsgIn
    <2>1. stage = "msg_in" /\ stage' = "seq_check" /\ buf' = buf
      BY <1>11, <1>1 DEF MsgIn, Hook, Goto, AtStage
    <2>2. UNCHANGED <<rxq, seqExpect>>
      BY <1>11 DEF MsgIn, sockVars, Elsewhere, kernelVars
    <2> QED BY <2>1, <2>2 DEF Keeps, Uncounted
  <1>12. CASE SeqCheck
    <2>1. UNCHANGED <<rxq, seqExpect>> /\ stage = "seq_check" /\ buf # <<>>
      BY <1>12 DEF SeqCheck, AtStage, sockVars, Elsewhere, kernelVars
    <2>2. Uncounted = buf
      BY <2>1 DEF Uncounted
    <2>3. CASE m.seq # seqExpect
      <3>1. Leave("seq_mismatch")
        BY <1>12, <1>1, <2>3 DEF SeqCheck, Hook, OInv, HalfInv
      <3>2. stage' = "idle" /\ buf' = <<>>
        BY <3>1 DEF Leave, Return
      <3>3. m.seq = 0
        BY <2>1, <2>2, <2>3, HeadExpected DEF m
      <3>4. Tail(buf) = <<>>
        BY <2>1, <3>3, <1>3, <1>4, <1>6, NothingShared DEF Line, m
      <3> QED BY <2>1, <2>2, <3>2, <3>3, <3>4, <1>6 DEF Passes, Uncounted, m
    <2>4. CASE m.seq = seqExpect
      <3>1. stage' = "count" /\ buf' = buf
        BY <1>12, <1>1, <2>4 DEF SeqCheck, Hook, Goto
      <3> QED BY <2>1, <2>2, <3>1 DEF Keeps, Uncounted
    <2> QED BY <2>3, <2>4
  <1>13. CASE Count
    <2>1. stage = "count" /\ buf # <<>> /\ m.seq = seqExpect /\ rxq' = rxq
      BY <1>13, <1>3 DEF Count, AtStage, HalfInv, Elsewhere, kernelVars
    <2>2. seqExpect' = IF m.type \in Terminators THEN seqExpect + 1 ELSE seqExpect
      BY <1>13 DEF Count, Advance
    <2>3. \/ stage' = "send_ack" /\ buf' = buf
          \/ stage' = "msg_in" /\ buf' = Tail(buf)
      BY <1>13, <1>2 DEF Count, Hook, NL_CB_CALL, Goto
    <2>4. Uncounted = buf /\ Uncounted' = Tail(buf)
      BY <2>1, <2>3 DEF Uncounted
    <2> QED BY <2>1, <2>2, <2>4 DEF Passes, m
  <1>14. CASE SendAck
    <2>1. stage = "send_ack" /\ UNCHANGED <<rxq, seqExpect>>
      BY <1>14 DEF SendAck, AtStage, sockVars, Elsewhere, kernelVars
    <2>2. \/ stage' = "type" /\ buf' = buf
          \/ stage' = "msg_in" /\ buf' = Tail(buf)
      BY <1>14, <1>2 DEF SendAck, Hook, NL_CB_CALL, Goto
    <2> QED BY <2>1, <2>2 DEF Keeps, Uncounted
  <1>15. CASE HandleType
    <2>1. stage = "type" /\ buf # <<>> /\ UNCHANGED <<rxq, seqExpect>>
      BY <1>15 DEF HandleType, AtStage, sockVars, Elsewhere, kernelVars
    <2>2. \/ stage' = "msg_in" /\ buf' = Tail(buf)
          \/ stage' = "idle" /\ buf' = <<>>
      BY <1>15 DEF HandleType, Hook, NL_CB_CALL, ErrHook, Goto, Leave, Return
    <2>3. CASE m.type \in {"ACK", "ERROR"}
      <3>1. Uncounted = <<>> /\ Uncounted = Tail(buf)
        BY <2>1, <2>3, <1>5, <1>6 DEF Uncounted
      <3> QED BY <2>1, <2>2, <3>1 DEF Keeps, Uncounted
    <2>4. CASE m.type \in {"VALID", "DONE"}
      <3>1. stage' = "msg_in" /\ buf' = Tail(buf)
        BY <1>15, <1>2, <2>4 DEF HandleType, Hook, NL_CB_CALL, Goto
      <3> QED BY <2>1, <3>1 DEF Keeps, Uncounted
    <2> QED BY <2>1, <2>3, <2>4, <1>6
  <1> QED BY <1>7, <1>8, <1>9, <1>10, <1>11, <1>12, <1>13, <1>14, <1>15
          DEF recvmsgs

\* The buffer only gets shorter, or is the next datagram.
LEMMA BufStep ==
    ASSUME IInv, recvmsgs
    PROVE  \/ buf' = buf \/ buf' = <<>> \/ (buf # <<>> /\ buf' = Tail(buf))
           \/ rxq # <<>> /\ buf' = Head(rxq)
  <1>1. CASE ReadDatagram
    BY <1>1 DEF ReadDatagram
  <1>2. CASE ReadNobufs \/ ReadAgain \/ ReadTruncated \/ ReadNomem \/ ConvertNomem
    BY <1>2 DEF ReadNobufs, ReadAgain, ReadTruncated, ReadNomem, ConvertNomem,
                Leave, Return
  <1>3. CASE EndOfDatagram
    BY <1>3 DEF EndOfDatagram, Leave, Return
  <1>4. CASE Count
    BY <1>4 DEF Count, AtStage, Hook, NL_CB_CALL, Goto, Leave, Return
  <1>5. CASE MsgIn \/ SeqCheck \/ SendAck \/ HandleType
    <2>1. buf # <<>> /\ Moves
      BY <1>5, StagesMove
    <2> QED BY <2>1 DEF Moves, Goto, Leave, Return
  <1> QED BY <1>1, <1>2, <1>3, <1>4, <1>5 DEF recvmsgs

LEMMA SingleOfTail ==
    ASSUME NEW S, NEW d \in Seq(S), d # <<>>, Single(d)
    PROVE  Single(Tail(d))
  <1>1. /\ Len(d) \in Nat /\ Len(d) >= 1 /\ DOMAIN d = 1..Len(d)
        /\ DOMAIN Tail(d) = 1..(Len(d) - 1)
        /\ \A i \in 1..(Len(d) - 1) : Tail(d)[i] = d[i + 1]
    BY HeadTailProperties
  <1> SUFFICES ASSUME NEW a \in 1..(Len(d) - 1), NEW b \in 1..(Len(d) - 1), a # b
               PROVE  Tail(d)[a].multi
    BY <1>1 DEF Single
  <1>2. a + 1 \in DOMAIN d /\ b + 1 \in DOMAIN d /\ a + 1 # b + 1
    BY <1>1
  <1>3. d[a + 1].multi
    BY <1>2 DEF Single
  <1> QED BY <1>1, <1>3

LEMMA RecvKeepsLine ==
    ASSUME OInv, Orderly, recvmsgs
    PROVE  Line'
  <1>1. IInv /\ Line /\ buf \in Seq(Msg) /\ rxq \in Seq(Datagrams) /\ rxq \in Seq(Seq(Msg))
    BY QueueIsSeq DEF OInv, IInv, Queues
  <1>2. Order(Uncounted', rxq')
    <2>1. Uncounted \in Seq(Msg)
      BY <1>1, UncountedSeq
    <2>2. CASE Reads
      BY <1>1, <2>2, OrderOfRead DEF Reads, Line
    <2>3. CASE Keeps
      BY <1>1, <2>3 DEF Keeps, Line
    <2>4. CASE Passes
      BY <1>1, <2>1, <2>4, OrderOfTail DEF Passes, Line
    <2> QED BY <2>2, <2>3, <2>4, RecvPasses
  <1>3. rxq # <<>> => 1 \in DOMAIN rxq /\ Head(rxq) = rxq[1]
    BY <1>1
  <1>4. Single(buf')
    <2>1. Single(<<>>)
      <3>1. DOMAIN <<>> = {}
        OBVIOUS
      <3> QED BY <3>1 DEF Single
    <2> QED BY <2>1, <1>1, <1>3, BufStep, SingleOfTail DEF Line
  <1>5. \A i \in DOMAIN rxq' : Single(rxq'[i])
    <2>1. rxq' = rxq \/ (rxq # <<>> /\ rxq' = Tail(rxq))
      BY RecvPasses DEF Reads, Keeps, Passes
    <2>2. ASSUME rxq # <<>>
          PROVE  \A i \in DOMAIN Tail(rxq) : i + 1 \in DOMAIN rxq /\ Tail(rxq)[i] = rxq[i + 1]
      BY <1>1, <2>2, HeadTailProperties
    <2> QED BY <1>1, <2>1, <2>2 DEF Line
  <1>6. \A x \in Flying' : x.type \in {"VALID", "DONE", "ACK", "ERROR"}
    BY <1>1, RecvKeeps DEF Line
  <1>7. stage' # "idle" => result' = "none"
    <2>1. stage # "idle"
      BY DEF recvmsgs, ReadDatagram, ReadNobufs, ReadAgain, ReadTruncated, ReadNomem,
             EndOfDatagram, ConvertNomem, MsgIn, SeqCheck, Count, SendAck, HandleType,
             AtStage
    <2>2. stage' = "idle" \/ result' = result
      <3>1. CASE ReadDatagram \/ ReadNobufs \/ ReadAgain \/ ReadTruncated \/ ReadNomem
        BY <3>1 DEF ReadDatagram, ReadNobufs, ReadAgain, ReadTruncated, ReadNomem, Return
      <3>2. CASE EndOfDatagram
        BY <3>2 DEF EndOfDatagram, Leave, Return
      <3>3. CASE Count
        BY <3>3 DEF Count, Hook, NL_CB_CALL, Goto, Leave, Return
      <3>4. CASE ConvertNomem \/ MsgIn \/ SeqCheck \/ SendAck \/ HandleType
        BY <3>4, <1>1, StagesMove DEF Moves, Goto, Leave, Return
      <3> QED BY <3>1, <3>2, <3>3, <3>4 DEF recvmsgs
    <2> QED BY <2>1, <2>2, <1>1 DEF Line
  <1> QED BY <1>2, <1>4, <1>5, <1>6, <1>7 DEF Line

LEMMA RecvKeepsPending ==
    ASSUME OInv, Orderly, recvmsgs
    PROVE  Pending'
  <1>1. UNCHANGED <<requests, dump, seqNext>>
    BY RecvKeeps DEF OInv
  <1>2. Uncounted \in Seq(Msg) /\ rxq \in Seq(Datagrams)
    BY UncountedSeq, QueueIsSeq DEF OInv
  <1>3. Pending
    BY DEF OInv
  <1>4. ASSUME Unread' = Unread, seqExpect' = seqExpect
        PROVE  Pending'
    BY <1>1, <1>3, <1>4 DEF Pending, Alive
  <1>5. CASE Reads
    <2>1. Queued(rxq) = Elems(Head(rxq)) \cup Queued(Tail(rxq))
      BY <1>2, <1>5, QueuedSplit DEF Reads
    <2>2. Unread' = Unread
      BY <1>5, <2>1, ElemsOfTuples DEF Reads, Unread
    <2> QED BY <1>4, <1>5, <2>2 DEF Reads
  <1>6. CASE Keeps
    BY <1>4, <1>6 DEF Keeps, Unread
  <1>7. CASE Passes
    <2>1. PICK x : x = Head(Uncounted)
      OBVIOUS
    <2>2. Elems(Uncounted) = {x} \cup Elems(Tail(Uncounted))
      BY <1>2, <1>7, <2>1, ElemsSplit DEF Passes
    <2>3. Unread' = Elems(Tail(Uncounted)) \cup Queued(rxq) /\ Unread = {x} \cup Unread'
      BY <1>7, <2>2 DEF Passes, Unread
    <2>4. \A y \in Unread' : Ahead(x, y)
      BY <1>2, <1>7, <2>1, <2>3, OrderOfTail DEF Passes, OInv, Line
    <2>5. \A y \in Unread : y.seq \in Nat
      BY UnreadFlies, Numbers DEF OInv
    <2>6. seqExpect \in Nat /\ seqNext \in Nat /\ Seqs \subseteq Nat
      BY Numbers DEF OInv, IInv, Shape
    <2>7. /\ dump.seq \in Nat
          /\ \A i \in DOMAIN requests : requests[i].seq \in Nat
      BY AskedNumbers DEF OInv
    <2>8. CASE x.type \notin Terminators
      <3>1. seqExpect' = seqExpect
        BY <1>7, <2>1, <2>8 DEF Passes
      <3>2. ASSUME NEW n \in Nat, Alive(n) PROVE Alive(n)'
        BY <1>1, <2>3, <2>8, <3>2 DEF Alive
      <3> QED BY <1>1, <1>3, <2>3, <3>1, <3>2 DEF Pending
    <2>9. CASE x.type \in Terminators
      <3>1. seqExpect' = seqExpect + 1 /\ x.seq = seqExpect
        BY <1>7, <2>1, <2>9 DEF Passes
      <3>2. x.seq # 0 /\ x \in Unread
        BY <2>3, <2>9, UnreadFlies DEF OInv, IInv, Replies, Line, Terminators
      <3>3. \A y \in Unread' : y.seq # 0 => y.seq >= seqExpect'
        BY <2>3, <2>4, <2>5, <2>6, <2>9, <3>1, <3>2 DEF Ahead
      <3>4. ASSUME NEW n \in Nat, seqExpect' <= n, n < seqNext PROVE Alive(n)'
        <4>1. Alive(n) /\ n # x.seq
          BY <1>3, <2>6, <3>1, <3>4 DEF Pending
        <4> QED BY <1>1, <2>3, <4>1 DEF Alive
      <3>5. dump # NoDump => dump.seq >= seqExpect'
        BY <1>3, <2>6, <2>7, <2>9, <3>1, <3>2 DEF Pending
      <3>6. \A i \in DOMAIN requests : requests[i].seq >= seqExpect'
        BY <1>3, <2>6, <2>7, <3>1, <3>2 DEF Pending
      <3>7. Unread' \subseteq Unread
        BY <2>3
      <3>8. seqExpect' <= seqNext'
        BY <1>1, <2>6, <3>1, <3>2, QueueTidy
      <3> QED BY <1>1, <1>3, <3>3, <3>4, <3>5, <3>6, <3>7, <3>8 DEF Pending
    <2> QED BY <2>8, <2>9
  <1> QED BY <1>5, <1>6, <1>7, RecvPasses

LEMMA TidyAppend ==
    ASSUME NEW S, NEW q \in Seq(S), NEW d, Tidy(d, q), NEW e \in S,
           Ordered(e), Single(e),
           \A y \in Elems(e) : /\ y.type \in {"VALID", "DONE", "ACK", "ERROR"}
                               /\ \A x \in Elems(d) \cup Queued(q) : Ahead(x, y)
    PROVE  Tidy(d, Append(q, e))
  <1>1. PICK r : r = Append(q, e)
    OBVIOUS
  <1>2. Order(d, r)
    BY <1>1, OrderOfAppend DEF Tidy
  <1>3. \A i \in DOMAIN r : (i \in DOMAIN q /\ r[i] = q[i]) \/ r[i] = e
    BY <1>1, AppendProperties
  <1>4. Queued(r) = Queued(q) \cup Elems(e)
    BY <1>1, QueuedJoin
  <1>5. Tidy(d, r)
    BY <1>2, <1>3, <1>4 DEF Tidy
  <1> QED BY <1>1, <1>5

LEMMA ShortDatagrams ==
    /\ \A x : Ordered(<<x>>) /\ Single(<<x>>)
    /\ \A x, y : /\ Ahead(x, y) => Ordered(<<x, y>>)
                 /\ x.multi /\ y.multi => Single(<<x, y>>)
  <1>1. ASSUME NEW x PROVE Ordered(<<x>>) /\ Single(<<x>>)
    <2>1. PICK d : d = <<x>>
      OBVIOUS
    <2>2. DOMAIN d = {1}
      BY <2>1
    <2>3. Ordered(d) /\ Single(d)
      BY <2>2 DEF Ordered, Single
    <2> QED BY <2>1, <2>3
  <1>2. ASSUME NEW x, NEW y
        PROVE  /\ Ahead(x, y) => Ordered(<<x, y>>)
               /\ x.multi /\ y.multi => Single(<<x, y>>)
    <2>1. PICK d : d = <<x, y>>
      OBVIOUS
    <2>2. DOMAIN d = {1, 2} /\ d[1] = x /\ d[2] = y
      BY <2>1
    <2>3. Ahead(x, y) => Ordered(d)
      BY <2>2 DEF Ordered
    <2>4. x.multi /\ y.multi => Single(d)
      BY <2>2 DEF Single
    <2> QED BY <2>1, <2>3, <2>4
  <1> QED BY <1>1, <1>2

\* What somebody else sends leaves the call alone.
LEMMA LineOfQueue ==
    ASSUME OInv, Tidy(Uncounted, rxq'), UNCHANGED <<stage, buf, result>>
    PROVE  Line'
  <1>1. Uncounted' = Uncounted
    BY DEF Uncounted
  <1>2. \A x \in Flying' : x.type \in {"VALID", "DONE", "ACK", "ERROR"}
    BY DEF Flying, Tidy, OInv, Line
  <1> QED BY <1>1, <1>2 DEF Tidy, OInv, Line

\* The requests behind the first.
LEMMA RequestsBehind ==
    ASSUME OInv, requests # <<>>
    PROVE  /\ Len(requests) \in Nat /\ Len(requests) >= 1
           /\ 1 \in DOMAIN requests /\ Head(requests) = requests[1]
           /\ DOMAIN Tail(requests) = 1..(Len(requests) - 1)
           /\ Len(Tail(requests)) = Len(requests) - 1
           /\ \A i \in DOMAIN Tail(requests) :
                 /\ i + 1 \in DOMAIN requests /\ Tail(requests)[i] = requests[i + 1]
                 /\ requests[1].seq < Tail(requests)[i].seq
           /\ \A i \in DOMAIN requests : i = 1 \/
                 \E j \in DOMAIN Tail(requests) : Tail(requests)[j] = requests[i]
  <1> DEFINE R == [seq : Seqs, kind : Kinds, ack : BOOLEAN]
  <1>1. requests \in Seq(R)
    BY DEF OInv, IInv, Queues
  <1> HIDE DEF R
  <1>2. /\ Len(requests) \in Nat /\ Len(requests) >= 1 /\ DOMAIN requests = 1..Len(requests)
        /\ Head(requests) = requests[1]
        /\ DOMAIN Tail(requests) = 1..(Len(requests) - 1)
        /\ Len(Tail(requests)) = Len(requests) - 1
        /\ \A i \in 1..(Len(requests) - 1) : Tail(requests)[i] = requests[i + 1]
    BY <1>1, HeadTailProperties
  <1>3. ASSUME NEW i \in DOMAIN Tail(requests)
        PROVE  /\ i + 1 \in DOMAIN requests /\ Tail(requests)[i] = requests[i + 1]
               /\ requests[1].seq < Tail(requests)[i].seq
    <2>1. 1 \in DOMAIN requests /\ i + 1 \in DOMAIN requests /\ 1 < i + 1
          /\ Tail(requests)[i] = requests[i + 1]
      BY <1>2
    <2>2. requests[1].seq < requests[i + 1].seq
      BY <2>1 DEF OInv, IInv, Waits
    <2> QED BY <2>1, <2>2
  <1>4. ASSUME NEW i \in DOMAIN requests, i # 1
        PROVE  \E j \in DOMAIN Tail(requests) : Tail(requests)[j] = requests[i]
    <2>1. i - 1 \in DOMAIN Tail(requests) /\ Tail(requests)[i - 1] = requests[i]
      BY <1>2, <1>4
    <2> QED BY <2>1
  <1> QED BY <1>2, <1>3, <1>4

LEMMA AnswerKeeps ==
    ASSUME OInv, Orderly, KernelAnswer
    PROVE  Line' /\ Pending' /\ Outstanding' = Outstanding
  <1>1. requests # <<>> /\ requests' = Tail(requests)
    BY DEF KernelAnswer
  <1>2. UNCHANGED <<seqNext, seqExpect, stage, buf, result>>
    BY DEF KernelAnswer, sockVars, callVars
  <1>3. PICK r : r = Head(requests)
    OBVIOUS
  <1>4. PICK ok \in BOOLEAN :
           /\ \E n \in 0..Len(Reply(r, ok)) :
                 /\ n < Len(Reply(r, ok)) => "drop_reply" \in Hazards
                 /\ rxq' = rxq \o SubSeq(Reply(r, ok), 1, n)
           /\ IF ok /\ r.kind = "dump"
                 THEN \E n \in 0..MaxParts : dump' = [seq |-> r.seq, left |-> n]
                 ELSE UNCHANGED dump
    BY <1>3 DEF KernelAnswer
  <1>5. /\ r \in [seq : Seqs, kind : Kinds, ack : BOOLEAN] /\ r = requests[1]
        /\ r.ack = TRUE /\ r.seq >= seqExpect /\ r.seq \in Nat /\ r.seq # 0
        /\ r.seq < seqNext
        /\ r.kind = "dump" => Len(requests) = 1
        /\ \A x \in Unread : x.seq < r.seq
        /\ dump = NoDump
    <2>1. r = requests[1] /\ 1 \in DOMAIN requests
      BY <1>1, <1>3, RequestsBehind
    <2>2. r \in [seq : Seqs, kind : Kinds, ack : BOOLEAN]
      BY <2>1, AskedNumbers DEF OInv
    <2> QED BY <2>1, <2>2, <1>1, QueueTidy DEF OInv, Pending, IInv, Waits
  <1>6. Len(Reply(r, ok)) \in Nat
    <2>1. Reply(r, ok) \in Seq(Datagrams)
      BY <1>5, ReplyShape
    <2> QED BY <2>1
  <1>7. rxq' = rxq \o SubSeq(Reply(r, ok), 1, Len(Reply(r, ok)))
    <2>1. PICK n \in 0..Len(Reply(r, ok)) :
             /\ n < Len(Reply(r, ok)) => "drop_reply" \in Hazards
             /\ rxq' = rxq \o SubSeq(Reply(r, ok), 1, n)
      BY <1>4
    <2>2. n = Len(Reply(r, ok))
      BY <2>1, <1>6 DEF Orderly
    <2> QED BY <2>1, <2>2
  <1>8. PICK V : V = Message("VALID", r.seq)
    OBVIOUS
  <1>9. PICK A : A = Message("ACK", r.seq)
    OBVIOUS
  <1>10. PICK E : E = Message("ERROR", r.seq)
    OBVIOUS
  <1>11. /\ ok /\ r.kind = "dump" => rxq' = rxq
         /\ ~ok => rxq' = Append(rxq, <<E>>)
         /\ ok /\ r.kind # "dump" => \/ rxq' = Append(rxq, <<A>>)
                                    \/ rxq' = Append(Append(rxq, <<V>>), <<A>>)
    <2>1. PICK ds : ds = Reply(r, ok)
      OBVIOUS
    <2>2. PICK q : q = rxq
      OBVIOUS
    <2>3. PICK qq : qq = rxq'
      OBVIOUS
    <2>4. r \in [seq : Seqs, kind : Kinds, ack : BOOLEAN] /\ r.ack
      BY <1>5
    <2>5. q \in Seq(Seq(Msg)) /\ qq = q \o SubSeq(ds, 1, Len(ds))
      BY <1>7, <2>1, <2>2, <2>3, QueueTidy
    <2>6. /\ ok /\ r.kind = "dump" => qq = q
          /\ ~ok => qq = Append(q, <<E>>)
          /\ ok /\ r.kind # "dump" => \/ qq = Append(q, <<A>>)
                                     \/ qq = Append(Append(q, <<V>>), <<A>>)
      <3>1. V \in Msg /\ A \in Msg /\ E \in Msg
        BY <1>8, <1>9, <1>10, <2>4 DEF Message, Msg, Terminators
      <3>2. PICK v : v = <<V>>
        OBVIOUS
      <3>3. PICK a : a = <<A>>
        OBVIOUS
      <3>4. PICK e : e = <<E>>
        OBVIOUS
      <3>5. v \in Seq(Msg) /\ a \in Seq(Msg) /\ e \in Seq(Msg)
        BY <3>1, <3>2, <3>3, <3>4
      <3>7. /\ ~ok => ds = <<e>>
            /\ ok /\ r.kind = "dump" => ds = <<>>
            /\ ok /\ r.kind # "dump" =>
                  ds = (IF r.kind = "get" THEN <<v>> ELSE <<>>) \o <<a>>
        BY <1>8, <1>9, <1>10, <2>1, <2>4, <3>2, <3>3, <3>4 DEF Reply
      <3>8. <<v>> \o <<a>> = <<v, a>> /\ <<>> \o <<a>> = <<a>>
        BY <3>5, ShortQueues
      <3>9. qq = q \o SubSeq(ds, 1, Len(ds)) /\ q \in Seq(Seq(Msg))
        BY <2>5
      <3>10. CASE ok /\ r.kind = "dump"
        <4>1. Len(ds) = 0
          BY <3>7, <3>10
        <4> QED BY <3>9, <3>10, <4>1, TakeNone
      <3>11. CASE ~ok
        <4>0. ds = <<e>>
          BY <3>7, <3>11
        <4>1. ds \in Seq(Seq(Msg)) /\ Len(ds) = 1 /\ ds[1] = e
          BY <4>0, <3>5, ShortQueues
        <4>2. qq = Append(q, e)
          BY <3>9, <4>1, TakeOne
        <4> QED BY <3>4, <3>11, <4>2
      <3>12. CASE ok /\ r.kind # "dump" /\ r.kind = "get"
        <4>0. ds = <<v, a>>
          BY <3>7, <3>8, <3>12
        <4>1. ds \in Seq(Seq(Msg)) /\ Len(ds) = 2 /\ ds[1] = v /\ ds[2] = a
          BY <4>0, <3>5, ShortQueues
        <4>2. qq = Append(Append(q, v), a)
          BY <3>9, <4>1, TakeTwo
        <4> QED BY <3>2, <3>3, <3>12, <4>2
      <3>13. CASE ok /\ r.kind # "dump" /\ r.kind # "get"
        <4>0. ds = <<a>>
          BY <3>7, <3>8, <3>13
        <4>1. ds \in Seq(Seq(Msg)) /\ Len(ds) = 1 /\ ds[1] = a
          BY <4>0, <3>5, ShortQueues
        <4>2. qq = Append(q, a)
          BY <3>9, <4>1, TakeOne
        <4> QED BY <3>3, <3>13, <4>2
      <3> QED BY <3>10, <3>11, <3>12, <3>13
    <2> QED BY <2>2, <2>3, <2>6
  <1>12. /\ V.seq = r.seq /\ V.type = "VALID" /\ V \in Msg
         /\ A.seq = r.seq /\ A.type = "ACK" /\ A \in Msg
         /\ E.seq = r.seq /\ E.type = "ERROR" /\ E \in Msg
    BY <1>5, <1>8, <1>9, <1>10 DEF Message, Msg, Terminators
  <1>13. Uncounted' = Uncounted
    BY <1>2 DEF Uncounted
  \* a datagram of the reply
  <1>14. ASSUME NEW q \in Seq(Seq(Msg)), Tidy(Uncounted, q), NEW x \in Msg,
                x.seq = r.seq, x.type \in {"VALID", "ACK", "ERROR"},
                \A y \in Elems(Uncounted) \cup Queued(q) :
                   y.seq \in Nat /\ (y.seq < r.seq \/ y = V)
         PROVE  /\ Tidy(Uncounted, Append(q, <<x>>)) /\ Append(q, <<x>>) \in Seq(Seq(Msg))
                /\ Queued(Append(q, <<x>>)) = Queued(q) \cup {x}
    <2>1. PICK d : d = <<x>>
      OBVIOUS
    <2>2. d \in Seq(Msg) /\ Elems(d) = {x} /\ Ordered(d) /\ Single(d)
      BY <2>1, ElemsOfTuples, ShortDatagrams
    <2>3. \A y \in Elems(Uncounted) \cup Queued(q) : Ahead(y, x)
      BY <1>5, <1>12, <1>14 DEF Ahead, Terminators
    <2>4. Tidy(Uncounted, Append(q, d))
      BY <1>14, <2>2, <2>3, TidyAppend
    <2>5. Queued(Append(q, d)) = Queued(q) \cup {x} /\ Append(q, d) \in Seq(Seq(Msg))
      BY <2>2, QueuedJoin, AppendProperties
    <2> QED BY <2>1, <2>4, <2>5
  <1>15. /\ Tidy(Uncounted, rxq) /\ rxq \in Seq(Seq(Msg))
         /\ \A y \in Elems(Uncounted) \cup Queued(rxq) : y.seq \in Nat /\ y.seq < r.seq
    BY <1>5, QueueTidy DEF Unread
  <1>16. \/ /\ ok /\ r.kind = "dump" /\ rxq' = rxq
         \/ /\ ~(ok /\ r.kind = "dump") /\ Tidy(Uncounted, rxq')
            /\ \E T \in {A, E} : \/ Unread' = Unread \cup {T}
                                 \/ Unread' = Unread \cup {V, T}
    <2>1. CASE ~ok /\ rxq' = Append(rxq, <<E>>)
      <3>1. Tidy(Uncounted, rxq') /\ Queued(rxq') = Queued(rxq) \cup {E}
        BY <2>1, <1>12, <1>14, <1>15
      <3> QED BY <2>1, <3>1, <1>13 DEF Unread
    <2>2. CASE ok /\ r.kind # "dump" /\ rxq' = Append(rxq, <<A>>)
      <3>1. Tidy(Uncounted, rxq') /\ Queued(rxq') = Queued(rxq) \cup {A}
        BY <2>2, <1>12, <1>14, <1>15
      <3> QED BY <2>2, <3>1, <1>13 DEF Unread
    <2>3. CASE ok /\ r.kind # "dump" /\ rxq' = Append(Append(rxq, <<V>>), <<A>>)
      <3>1. PICK q : q = Append(rxq, <<V>>)
        OBVIOUS
      <3>2. /\ Tidy(Uncounted, q) /\ q \in Seq(Seq(Msg))
            /\ Queued(q) = Queued(rxq) \cup {V}
        BY <3>1, <1>12, <1>14, <1>15
      <3>3. \A y \in Elems(Uncounted) \cup Queued(q) :
               y.seq \in Nat /\ (y.seq < r.seq \/ y = V)
        BY <3>2, <1>5, <1>12, <1>15
      <3>4. rxq' = Append(q, <<A>>)
        BY <2>3, <3>1
      <3>5. Tidy(Uncounted, rxq') /\ Queued(rxq') = Queued(q) \cup {A}
        BY <3>2, <3>3, <3>4, <1>12, <1>14
      <3>6. Unread' = Unread \cup {V, A}
        BY <3>2, <3>5, <1>13 DEF Unread
      <3> QED BY <2>3, <3>5, <3>6
    <2> QED BY <2>1, <2>2, <2>3, <1>11
  <1>17. Line'
    BY <1>2, <1>15, <1>16, LineOfQueue
  <1>18. /\ \A i \in DOMAIN requests' :
               /\ requests'[i].ack = TRUE /\ requests'[i].seq >= seqExpect
               /\ requests'[i].kind = "dump" => i = Len(requests')
               /\ r.seq < requests'[i].seq
               /\ \A x \in Unread : x.seq < requests'[i].seq
         /\ \A i \in DOMAIN requests : requests[i] = r \/
               \E j \in DOMAIN requests' : requests'[j] = requests[i]
    <2>1. ASSUME NEW i \in DOMAIN requests'
          PROVE  /\ requests'[i].ack = TRUE /\ requests'[i].seq >= seqExpect
                 /\ requests'[i].kind = "dump" => i = Len(requests')
                 /\ r.seq < requests'[i].seq
                 /\ \A x \in Unread : x.seq < requests'[i].seq
      <3>1. /\ i + 1 \in DOMAIN requests /\ requests'[i] = requests[i + 1]
            /\ r.seq < requests'[i].seq /\ Len(requests') = Len(requests) - 1
            /\ i \in Nat /\ Len(requests) \in Nat
        BY <1>1, <1>5, <2>1, RequestsBehind
      <3>2. requests[i + 1].kind = "dump" => i + 1 = Len(requests)
        BY <3>1 DEF OInv, Pending
      <3>3. requests'[i].kind = "dump" => i = Len(requests')
        BY <3>1, <3>2
      <3> QED BY <3>1, <3>3 DEF OInv, Pending
    <2>2. \A i \in DOMAIN requests : requests[i] = r \/
             \E j \in DOMAIN requests' : requests'[j] = requests[i]
      BY <1>1, <1>5, RequestsBehind
    <2> QED BY <2>1, <2>2
  <1>19. Pending'
    <2>1. CASE ok /\ r.kind = "dump" /\ rxq' = rxq
      <3>1. Unread' = Unread
        BY <2>1, <1>13 DEF Unread
      <3>2. dump'.seq = r.seq /\ dump' # NoDump
        BY <2>1, <1>4, <1>5 DEF NoDump
      <3>3. requests' = <<>>
        <4>1. Len(requests') = 0 /\ requests' \in Seq([seq : Seqs, kind : Kinds, ack : BOOLEAN])
          <5>1. Len(requests) = 1
            BY <2>1, <1>5
          <5>2. requests \in Seq([seq : Seqs, kind : Kinds, ack : BOOLEAN])
            BY DEF OInv, IInv, Queues
          <5> QED BY <5>1, <5>2, <1>1, HeadTailProperties
        <4> QED BY <4>1, EmptySeq
      <3>4. ASSUME NEW n \in Nat, Alive(n) PROVE Alive(n)'
        BY <3>1, <3>2, <3>4, <1>5, <1>18 DEF Alive
      <3>5. \A x \in Unread' : x.seq <= dump'.seq /\ x.seq < dump'.seq
        BY <3>1, <3>2, <1>5, QueueTidy
      <3>6. dump'.seq >= seqExpect'
        BY <3>2, <1>2, <1>5
      <3> QED BY <3>1, <3>3, <3>4, <3>5, <3>6, <1>2, <1>18 DEF OInv, Pending
    <2>2. CASE ~(ok /\ r.kind = "dump") /\
               \E T \in {A, E} : \/ Unread' = Unread \cup {T}
                                 \/ Unread' = Unread \cup {V, T}
      <3>1. dump' = NoDump
        BY <2>2, <1>4, <1>5
      <3>2. PICK T \in {A, E} : \/ Unread' = Unread \cup {T}
                                \/ Unread' = Unread \cup {V, T}
        BY <2>2
      <3>3. /\ T \in Unread' /\ T.seq = r.seq /\ T.type \in Terminators
            /\ Unread \subseteq Unread'
            /\ \A x \in Unread' : x \in Unread \/ x.seq = r.seq
        BY <3>2, <1>12 DEF Terminators
      <3>4. ASSUME NEW n \in Nat, Alive(n) PROVE Alive(n)'
        BY <3>3, <3>4, <1>5, <1>18 DEF Alive
      <3>5. \A x \in Unread' : x.seq # 0 => x.seq >= seqExpect
        BY <3>3, <1>5 DEF OInv, Pending
      <3>6. \A i \in DOMAIN requests' : \A x \in Unread' : x.seq < requests'[i].seq
        BY <3>3, <1>18
      <3> QED BY <3>1, <3>4, <3>5, <3>6, <1>2, <1>18 DEF OInv, Pending
    <2> QED BY <2>1, <2>2, <1>16
  <1>20. Outstanding' = Outstanding
    BY <1>5, KernelAnswerCounts DEF OInv, Orderly
  <1> QED BY <1>17, <1>19, <1>20

LEMMA DumpKeeps ==
    ASSUME OInv, KernelDump
    PROVE  Line' /\ Pending'
  <1>1. dump # NoDump /\ requests = <<>> /\ dump.seq \in Seqs /\ dump.seq \in Nat
        /\ dump.seq # 0 /\ dump.seq >= seqExpect
    BY QueueTidy DEF KernelDump, OInv, Pending, IInv, Queues, Replies
  <1>2. UNCHANGED <<seqNext, seqExpect, requests, stage, buf, result>>
    BY DEF KernelDump, sockVars, callVars
  <1>3. Uncounted' = Uncounted
    BY <1>2 DEF Uncounted
  <1>4. \A x \in Unread : /\ x.seq \in Nat /\ x.seq <= dump.seq
                          /\ x.type \in Terminators => x.seq < dump.seq
    BY <1>1, QueueTidy DEF OInv, Pending
  \* a datagram of the dump
  <1>5. ASSUME NEW d \in Seq(Msg), rxq' = Append(rxq, d), Ordered(d), Single(d),
               \A y \in Elems(d) : y.seq = dump.seq /\ y.type \in {"VALID", "DONE"}
        PROVE  Line' /\ Unread' = Unread \cup Elems(d)
    <2>1. \A y \in Elems(d) :
             /\ y.type \in {"VALID", "DONE", "ACK", "ERROR"}
             /\ \A x \in Elems(Uncounted) \cup Queued(rxq) : Ahead(x, y)
      BY <1>4, <1>5 DEF Ahead, Unread
    <2>2. Tidy(Uncounted, rxq')
      BY <1>5, <2>1, QueueTidy, TidyAppend
    <2>3. Line'
      BY <1>2, <2>2, LineOfQueue
    <2>4. Queued(rxq') = Queued(rxq) \cup Elems(d)
      BY <1>5, QueueTidy, QueuedJoin
    <2> QED BY <2>3, <2>4, <1>3 DEF Unread
  <1>6. PICK i \in BOOLEAN, j \in BOOLEAN :
         \/ /\ rxq' = Append(rxq, <<Part("VALID", dump.seq, i)>>)
            /\ dump' = [dump EXCEPT !.left = @ - 1]
         \/ /\ rxq' = Append(rxq, <<Part("VALID", dump.seq, i),
                                    Part("DONE", dump.seq, j)>>)
            /\ dump' = NoDump
         \/ /\ rxq' = Append(rxq, <<Part("DONE", dump.seq, i)>>)
            /\ dump' = NoDump
    BY DEF KernelDump
  <1>7. PICK V : V = Part("VALID", dump.seq, i)
    OBVIOUS
  <1>8. PICK D : D = Part("DONE", dump.seq, j)
    OBVIOUS
  <1>9. PICK E : E = Part("DONE", dump.seq, i)
    OBVIOUS
  <1>10. /\ V \in Msg /\ V.type = "VALID" /\ V.seq = dump.seq /\ V.multi
         /\ D \in Msg /\ D.type = "DONE" /\ D.seq = dump.seq /\ D.multi
         /\ E \in Msg /\ E.type = "DONE" /\ E.seq = dump.seq /\ E.multi
    <2>1. V \in Msg /\ V.type = "VALID" /\ V.seq = dump.seq /\ V.multi
      BY <1>1, <1>7 DEF Part, Message, Msg
    <2>2. D \in Msg /\ D.type = "DONE" /\ D.seq = dump.seq /\ D.multi
      BY <1>1, <1>8 DEF Part, Message, Msg, Terminators
    <2>3. E \in Msg /\ E.type = "DONE" /\ E.seq = dump.seq /\ E.multi
      BY <1>1, <1>9 DEF Part, Message, Msg, Terminators
    <2> QED BY <2>1, <2>2, <2>3
  <1>11. CASE /\ rxq' = Append(rxq, <<V>>)
              /\ dump' = [dump EXCEPT !.left = @ - 1]
    <2>1. dump'.seq = dump.seq /\ dump' # NoDump
      <3>1. dump'.seq = dump.seq
        BY <1>11 DEF OInv, IInv, Queues
      <3> QED BY <3>1, <1>1 DEF NoDump
    <2>2. PICK d : d = <<V>>
      OBVIOUS
    <2>3. d \in Seq(Msg) /\ Elems(d) = {V} /\ Ordered(d) /\ Single(d)
      BY <2>2, <1>10, ElemsOfTuples, ShortDatagrams
    <2>4. Line' /\ Unread' = Unread \cup {V}
      BY <2>2, <2>3, <1>5, <1>10, <1>11
    <2>5. ASSUME NEW n \in Nat, Alive(n) PROVE Alive(n)'
      BY <1>1, <1>2, <2>1, <2>4, <2>5 DEF Alive
    <2>6. V.type \notin Terminators
      BY <1>10 DEF Terminators
    <2>7. Pending'
      BY <1>1, <1>2, <1>4, <1>10, <2>1, <2>4, <2>5, <2>6 DEF OInv, Pending
    <2> QED BY <2>4, <2>7
  <1>12. CASE /\ rxq' = Append(rxq, <<V, D>>) \/ rxq' = Append(rxq, <<E>>)
              /\ dump' = NoDump
    <2>1. ASSUME NEW d \in Seq(Msg), rxq' = Append(rxq, d), Ordered(d), Single(d),
                 \A y \in Elems(d) : y.seq = dump.seq /\ y.type \in {"VALID", "DONE"},
                 NEW T \in Elems(d), T.type \in Terminators
          PROVE  Line' /\ Pending'
      <3>1. Line' /\ Unread' = Unread \cup Elems(d)
        BY <2>1, <1>5
      <3>2. ASSUME NEW n \in Nat, Alive(n) PROVE Alive(n)'
        BY <1>1, <2>1, <3>1, <3>2 DEF Alive
      <3>3. \A x \in Unread' : x.seq # 0 => x.seq >= seqExpect
        BY <1>1, <2>1, <3>1 DEF OInv, Pending
      <3>4. requests' = <<>> /\ DOMAIN <<>> = {}
        BY <1>1, <1>2
      <3> QED BY <1>2, <1>12, <3>1, <3>2, <3>3, <3>4 DEF OInv, Pending
    <2>2. PICK f : f = <<V, D>>
      OBVIOUS
    <2>3. PICK g : g = <<E>>
      OBVIOUS
    <2>4. Ahead(V, D)
      BY <1>1, <1>10 DEF Ahead, Terminators
    <2>5. /\ f \in Seq(Msg) /\ Elems(f) = {V, D} /\ Ordered(f) /\ Single(f)
          /\ g \in Seq(Msg) /\ Elems(g) = {E} /\ Ordered(g) /\ Single(g)
      <3>1. f \in Seq(Msg) /\ g \in Seq(Msg)
        BY <2>2, <2>3, <1>10
      <3> QED BY <3>1, <2>2, <2>3, <2>4, <1>10, ElemsOfTuples, ShortDatagrams
    <2>6. D.type \in Terminators /\ E.type \in Terminators
      BY <1>10 DEF Terminators
    <2>7. rxq' = Append(rxq, f) \/ rxq' = Append(rxq, g)
      BY <2>2, <2>3, <1>12
    <2>8. CASE rxq' = Append(rxq, f)
      BY <2>1, <2>5, <2>6, <2>8, <1>10
    <2>9. CASE rxq' = Append(rxq, g)
      BY <2>1, <2>5, <2>6, <2>9, <1>10
    <2> QED BY <2>7, <2>8, <2>9
  <1> QED BY <1>6, <1>7, <1>8, <1>9, <1>11, <1>12

LEMMA NotifyKeeps ==
    ASSUME OInv, KernelNotify
    PROVE  Line' /\ Pending'
  <1>1. UNCHANGED <<seqNext, seqExpect, requests, dump, stage, buf, result>>
    BY DEF KernelNotify, sockVars, callVars
  <1>2. Uncounted' = Uncounted
    BY <1>1 DEF Uncounted
  <1>3. CASE UNCHANGED rxq
    <2>1. Unread' = Unread
      BY <1>2, <1>3 DEF Unread
    <2>2. Pending'
      BY <1>1, <2>1 DEF OInv, Pending, Alive
    <2> QED BY <1>1, <1>3, <2>2, QueueTidy, LineOfQueue
  <1>4. CASE rxq' = Append(rxq, <<Message("VALID", 0)>>)
    <2>1. PICK x : x = Message("VALID", 0)
      OBVIOUS
    <2>2. x \in Msg /\ x.type = "VALID" /\ x.seq = 0 /\ x.type \notin Terminators
      BY <2>1, Numbers DEF Message, Msg, Terminators, OInv
    <2>3. PICK d : d = <<x>>
      OBVIOUS
    <2>4. d \in Seq(Msg) /\ Elems(d) = {x} /\ Ordered(d) /\ Single(d)
      BY <2>2, <2>3, ElemsOfTuples, ShortDatagrams
    <2>5. rxq' = Append(rxq, d)
      BY <2>1, <2>3, <1>4
    <2>6. \A y : Ahead(y, x)
      BY <2>2 DEF Ahead
    <2>7. Tidy(Uncounted, rxq')
      BY <2>2, <2>4, <2>5, <2>6, QueueTidy, TidyAppend
    <2>8. Unread' = Unread \cup {x}
      <3>1. Queued(rxq') = Queued(rxq) \cup {x}
        BY <2>4, <2>5, QueueTidy, QueuedJoin
      <3> QED BY <3>1, <1>2 DEF Unread
    <2>9. ASSUME NEW n \in Nat, Alive(n) PROVE Alive(n)'
      BY <1>1, <2>8, <2>9 DEF Alive
    <2>10. dump # NoDump => x.seq <= dump.seq
      BY <2>2, QueueTidy
    <2>11. \A i \in DOMAIN requests : x.seq < requests[i].seq
      BY <2>2, QueueTidy DEF OInv, IInv, Waits
    <2>12. Pending'
      BY <1>1, <2>2, <2>8, <2>9, <2>10, <2>11 DEF OInv, Pending
    <2> QED BY <1>1, <2>7, <2>12, LineOfQueue
  <1> QED BY <1>3, <1>4 DEF KernelNotify

LEMMA ApplicationKeeps ==
    ASSUME OInv, Orderly, Application
    PROVE  /\ Line' /\ Pending'
           /\ \/ seqNext' = seqNext + 1 /\ Outstanding' = Outstanding + 1
              \/ seqNext' = seqNext /\ Outstanding' = Outstanding
           /\ seqExpect' = seqExpect
  <1>1. CASE nl_send_auto_fails \/ nl_send_sync_withheld \/ nl_socket_use_seq
             \/ nl_socket_disable_seq_check
             \/ \E on \in BOOLEAN : SetAutoAck(on)
    BY <1>1 DEF nl_send_auto_fails, nl_send_sync_withheld, nl_socket_use_seq, SetAutoAck,
                nl_socket_disable_seq_check, Orderly
  <1>2. CASE \/ \E k \in Kinds : nl_send_auto(k) \/ nl_send_sync(k)
             \/ nl_recvmsgs_default \/ nl_wait_for_ack
    <2>1. /\ stage = "idle" /\ UNCHANGED <<seqExpect, dump, rxq, buf>>
          /\ \/ stage' = "idle"
             \/ stage' = "read" /\ result' = "none"
          /\ \/ UNCHANGED <<seqNext, requests>>
             \/ \E k \in Kinds : SendAuto(k)
      BY <1>2 DEF nl_send_auto, nl_send_sync, nl_recvmsgs_default, nl_wait_for_ack,
                  SendAuto, MaySend, Enter, sockVars, kernelVars
    <2>2. Uncounted' = Uncounted /\ Unread' = Unread /\ Flying' = Flying
      BY <2>1 DEF Uncounted, Unread, Flying
    <2>3. Line'
      BY <2>1, <2>2 DEF OInv, Line
    <2>4. /\ \/ seqNext' = seqNext + 1 /\ Outstanding' = Outstanding + 1
             \/ seqNext' = seqNext /\ Outstanding' = Outstanding
          /\ seqExpect' = seqExpect
      <3>1. ~nl_send_auto_fails /\ ~nl_send_sync_withheld /\ ~nl_socket_use_seq
        BY DEF nl_send_auto_fails, nl_send_sync_withheld, nl_socket_use_seq, Orderly
      <3> QED BY <3>1, ApplicationCounts DEF OInv
    <2>5. CASE UNCHANGED <<seqNext, requests>>
      <3>1. Pending'
        BY <2>1, <2>2, <2>5 DEF OInv, Pending, Alive
      <3> QED BY <2>3, <2>4, <3>1
    <2>6. CASE \E k \in Kinds : SendAuto(k)
      <3>1. PICK k \in Kinds : SendAuto(k)
        BY <2>6
      <3>2. PICK r : r = [seq |-> seqNext, kind |-> k, ack |-> autoAck]
        OBVIOUS
      <3>3. r.seq = seqNext /\ r.kind = k /\ r.ack = TRUE
        BY <3>2 DEF OInv, HalfInv
      <3>4. /\ requests' = Append(requests, r) /\ seqNext' = seqNext + 1
            /\ dump = NoDump /\ \A i \in DOMAIN requests : requests[i].kind # "dump"
        BY <3>1, <3>2 DEF SendAuto, MaySend, NoDumpPending, UseSeq, Orderly
      <3>5. requests \in Seq([seq : Seqs, kind : Kinds, ack : BOOLEAN])
            /\ r \in [seq : Seqs, kind : Kinds, ack : BOOLEAN]
        BY <3>2, Numbers DEF OInv, IInv, Queues, Shape
      <3>6. /\ Len(requests) \in Nat /\ DOMAIN requests = 1..Len(requests)
            /\ DOMAIN requests' = 1..(Len(requests) + 1)
            /\ Len(requests') = Len(requests) + 1
            /\ \A i \in 1..Len(requests) : requests'[i] = requests[i]
            /\ requests'[Len(requests) + 1] = r
        BY <3>4, <3>5, AppendProperties
      <3>7. /\ \A i \in DOMAIN requests' :
                  \/ i \in DOMAIN requests /\ requests'[i] = requests[i]
                  \/ i = Len(requests') /\ requests'[i] = r
            /\ \A i \in DOMAIN requests : i \in DOMAIN requests' /\ requests'[i] = requests[i]
            /\ Len(requests') \in DOMAIN requests' /\ requests'[Len(requests')] = r
        BY <3>6
      <3>8. /\ seqExpect \in Nat /\ seqNext \in Nat /\ seqExpect <= seqNext
            /\ \A x \in Unread : x.seq < seqNext
        BY QueueTidy DEF OInv, Pending
      <3>9. \A i \in DOMAIN requests' :
               /\ requests'[i].ack = TRUE /\ requests'[i].seq >= seqExpect
               /\ requests'[i].kind = "dump" => i = Len(requests')
               /\ \A x \in Unread : x.seq < requests'[i].seq
        <4> SUFFICES ASSUME NEW i \in DOMAIN requests'
                     PROVE  /\ requests'[i].ack = TRUE /\ requests'[i].seq >= seqExpect
                            /\ requests'[i].kind = "dump" => i = Len(requests')
                            /\ \A x \in Unread : x.seq < requests'[i].seq
          OBVIOUS
        <4>1. CASE i \in DOMAIN requests /\ requests'[i] = requests[i]
          BY <4>1, <3>4 DEF OInv, Pending
        <4>2. CASE i = Len(requests') /\ requests'[i] = r
          BY <4>2, <3>3, <3>8
        <4> QED BY <4>1, <4>2, <3>7
      <3>10. ASSUME NEW n \in Nat, seqExpect <= n, n < seqNext' PROVE Alive(n)'
        <4>1. CASE n = seqNext
          BY <4>1, <3>3, <3>7 DEF Alive
        <4>2. CASE n # seqNext
          <5>1. Alive(n)
            BY <4>2, <3>4, <3>8, <3>10 DEF OInv, Pending
          <5> QED BY <5>1, <3>7, <2>1, <2>2 DEF Alive
        <4> QED BY <4>1, <4>2
      <3>11. dump' = NoDump /\ seqExpect' <= seqNext'
        BY <2>1, <3>4, <3>8
      <3>12. Pending'
        BY <2>1, <2>2, <3>9, <3>10, <3>11 DEF OInv, Pending
      <3> QED BY <2>3, <2>4, <3>12
    <2> QED BY <2>1, <2>5, <2>6
  <1> QED BY <1>1, <1>2 DEF Application

\* Nothing a step of recvmsgs() drops is the end of a reply.
LEMMA RecvExact ==
    ASSUME OInv, Orderly, recvmsgs
    PROVE  seqExpect' + Outstanding' = seqExpect + Outstanding
  <1> DEFINE L  == Len(requests)
             Q  == Cardinality(EndsIn(rxq))
             QQ == Cardinality(EndsIn(rxq'))
             U  == Cardinality(Ends(Uncounted))
             UU == Cardinality(Ends(Uncounted'))
             k  == IF dump = NoDump THEN 0 ELSE 1
  <1>1. L \in Nat /\ Q \in Nat /\ U \in Nat /\ seqExpect \in Nat /\ k \in Nat
    BY SizesAreNumbers DEF OInv
  <1>2. UNCHANGED <<requests, dump>>
    BY RecvKeeps DEF OInv
  <1>3. Outstanding = L + k + Q + U /\ Outstanding' = L + k + QQ + UU
    BY <1>2 DEF Outstanding
  <1>4. rxq \in Seq(Seq(Msg)) /\ Uncounted \in Seq(Msg) /\ IsFiniteSet(EndsIn(rxq))
    BY QueueIsSeq, UncountedSeq DEF OInv, Sizes
  <1>5. CASE Keeps
    BY <1>3, <1>5 DEF Keeps
  <1>6. CASE Reads
    <2>1. /\ IsFiniteSet(EndsIn(Tail(rxq)))
          /\ Cardinality(EndsIn(rxq)) =
                Cardinality(EndsIn(Tail(rxq))) + Cardinality(Ends(Head(rxq)))
      BY <1>4, <1>6, EndsInOfTail DEF Reads
    <2>2. Head(rxq) \in Seq(Msg)
      BY <1>4, <1>6, HeadTailProperties DEF Reads
    <2>3. QQ \in Nat /\ UU \in Nat
      BY <1>6, <2>1, <2>2, FS_CardinalityType, EndsFinite DEF Reads
    <2>4. Q = QQ + UU /\ U = 0 /\ seqExpect' = seqExpect
      BY <1>6, <2>1, EndsOfNone DEF Reads
    <2> HIDE DEF L, Q, QQ, U, UU, k
    <2> QED BY <1>1, <1>3, <2>3, <2>4
  <1>7. CASE Passes
    <2>1. /\ Tail(Uncounted) \in Seq(Msg)
          /\ U = Cardinality(Ends(Tail(Uncounted)))
                 + IF Head(Uncounted).type \in Terminators THEN 1 ELSE 0
      BY <1>4, <1>7, HeadTailProperties, EndsOfTail DEF Passes
    <2>2. UU \in Nat /\ UU = Cardinality(Ends(Tail(Uncounted))) /\ QQ = Q
      BY <2>1, <1>7, EndsFinite DEF Passes
    <2>3. seqExpect' + UU = seqExpect + U
      <3>1. CASE Head(Uncounted).type \in Terminators
        <4>1. seqExpect' = seqExpect + 1 /\ U = UU + 1
          BY <3>1, <2>1, <2>2, <1>7 DEF Passes
        <4> HIDE DEF U, UU
        <4> QED BY <4>1, <2>2, <1>1
      <3>2. CASE Head(Uncounted).type \notin Terminators
        <4>1. seqExpect' = seqExpect /\ U = UU + 0
          BY <3>2, <2>1, <2>2, <1>7 DEF Passes
        <4> HIDE DEF U, UU
        <4> QED BY <4>1, <2>2, <1>1
      <3> QED BY <3>1, <3>2
    <2>4. seqExpect' \in Nat
      BY <1>1, <1>7 DEF Passes
    <2> HIDE DEF L, Q, QQ, U, UU, k
    <2>5. \A e, ee, u, uu, w \in Nat :
             ee + uu = e + u => ee + (w + uu) = e + (w + u)
      OBVIOUS
    <2>6. L + k + Q \in Nat
      BY <1>1
    <2>7. seqExpect' + (L + k + Q + UU) = seqExpect + (L + k + Q + U)
      BY <1>1, <2>2, <2>3, <2>4, <2>5, <2>6
    <2> QED BY <1>3, <2>2, <2>7
  <1> QED BY <1>5, <1>6, <1>7, RecvPasses

LEMMA OrderlyInvariance == Orderly => (Spec => []OInv /\ []SeqAccounting)
  <1> SUFFICES ASSUME Orderly PROVE Spec => []OInv /\ []SeqAccounting
    OBVIOUS
  <1> DEFINE J == Line /\ Pending /\ SeqAccounting
             K == IInv /\ HalfInv /\ Sizes
  <1>1. Init => J
    <2> SUFFICES ASSUME Init PROVE J
      OBVIOUS
    <2>0. DOMAIN <<>> = {}
      OBVIOUS
    <2>1. Uncounted = <<>> /\ buf = <<>> /\ rxq = <<>> /\ requests = <<>> /\ dump = NoDump
          /\ stage = "idle" /\ strays = 0 /\ seqNext = StartSeq /\ seqExpect = StartSeq
      BY DEF Init, Uncounted
    <2>2. Elems(Uncounted) = {} /\ Queued(rxq) = {} /\ Elems(buf) = {}
      BY <2>0, <2>1 DEF Elems, Queued
    <2>3. Line
      BY <2>0, <2>1, <2>2 DEF Line, Order, Ordered, Single, Flying
    <2>4. StartSeq \in Nat
      BY RecvAssumption
    <2>5. Pending
      BY <2>0, <2>1, <2>2, <2>4 DEF Pending, Unread
    <2>6. EndsIn(rxq) = {} /\ Ends(Uncounted) = {}
      BY <2>0, <2>1, EndsOfNone DEF EndsIn
    <2>7. Cardinality(EndsIn(rxq)) = 0 /\ Cardinality(Ends(Uncounted)) = 0
      BY <2>6, FS_EmptySet
    <2>8. Len(requests) = 0
      BY <2>1
    <2>9. Outstanding = 0
      BY <2>1, <2>7, <2>8 DEF Outstanding
    <2>10. SeqAccounting
      BY <2>1, <2>4, <2>9 DEF SeqAccounting
    <2> QED BY <2>3, <2>5, <2>10
  <1>2. K /\ J /\ [Next]_vars => J'
    <2> SUFFICES ASSUME K, J, [Next]_vars PROVE J'
      OBVIOUS
    <2>1. OInv /\ seqExpect + Outstanding = seqNext
      BY DEF OInv, SeqAccounting
    <2>2. seqExpect \in Nat /\ seqNext \in Nat /\ Outstanding \in Nat
      BY <2>1, QueueTidy, OutstandingIsNumber
    <2>3. CASE UNCHANGED vars
      <3>1. Uncounted' = Uncounted /\ Unread' = Unread /\ Flying' = Flying /\ Outstanding' = Outstanding
        BY <2>3 DEF vars, sockVars, callVars, kernelVars, histVars, Uncounted, Unread,
                    Flying, Outstanding
      <3> QED BY <2>3, <3>1 DEF vars, sockVars, callVars, kernelVars, histVars, Line,
                                Pending, Alive, SeqAccounting
    <2>4. CASE recvmsgs
      <3>1. Line' /\ Pending' /\ seqExpect' + Outstanding' = seqExpect + Outstanding
        BY <2>1, <2>4, RecvKeepsLine, RecvKeepsPending, RecvExact
      <3>2. seqNext' = seqNext
        BY <2>4, RecvKeeps
      <3> QED BY <2>1, <3>1, <3>2 DEF SeqAccounting
    <2>5. CASE KernelAnswer
      <3>1. UNCHANGED <<seqNext, seqExpect>>
        BY <2>5 DEF KernelAnswer, sockVars
      <3> QED BY <2>1, <2>5, <3>1, AnswerKeeps DEF SeqAccounting
    <2>6. CASE KernelDump
      <3>1. UNCHANGED <<seqNext, seqExpect>>
        BY <2>6 DEF KernelDump, sockVars
      <3> QED BY <2>1, <2>6, <3>1, DumpKeeps, KernelDumpCounts DEF SeqAccounting
    <2>7. CASE KernelNotify
      <3>1. UNCHANGED <<seqNext, seqExpect, strays>> /\ strays \in Nat
        BY <2>7 DEF KernelNotify, sockVars, IInv, Shape
      <3>2. Outstanding' = Outstanding
        <4>1. ~PeerStray
          BY DEF PeerStray, Orderly
        <4> QED BY <2>7, <4>1, OthersCount
      <3> QED BY <2>1, <2>7, <3>1, <3>2, NotifyKeeps DEF SeqAccounting
    <2>8. CASE PeerStray
      BY <2>8 DEF PeerStray, Orderly
    <2>9. CASE Application
      <3>1. /\ Line' /\ Pending' /\ seqExpect' = seqExpect
            /\ \/ seqNext' = seqNext + 1 /\ Outstanding' = Outstanding + 1
               \/ seqNext' = seqNext /\ Outstanding' = Outstanding
        BY <2>1, <2>9, ApplicationKeeps
      <3>2. seqExpect' + Outstanding' = seqNext'
        BY <2>1, <2>2, <3>1
      <3> QED BY <3>1, <3>2 DEF SeqAccounting
    <2> QED BY <2>3, <2>4, <2>5, <2>6, <2>7, <2>8, <2>9 DEF Next, Kernel
  <1>3. Attentive
    BY DEF Orderly
  <1>4. K /\ J => OInv /\ SeqAccounting
    BY DEF OInv
  <1>5. Spec => []K
    BY <1>3, Invariance, HalfInvariance, CountInvariance, PTL
  <1> QED BY <1>1, <1>2, <1>4, <1>5, PTL DEF Spec

\* For an application that leaves sequence numbers to the library and lets
\* calls run to their end, with nothing lost: the distance of s_seq_next and
\* s_seq_expect is the number of replies still to come, for any number of
\* requests, events and dumps, in every state of every call.
THEOREM OrderlyAccounts == Orderly => (Spec => []SeqAccounting)
  BY OrderlyInvariance, PTL

\* And recvmsgs() refuses no reply for its number: each request's replies are
\* read before the next one's, however requests and events interleave.
THEOREM OrderlyMatches == Orderly => (Spec => RepliesMatched)
  <1> SUFFICES ASSUME Orderly PROVE Spec => RepliesMatched
    OBVIOUS
  <1> DEFINE A == stage = "seq_check" /\ result' = "seq_mismatch" => m.seq = 0
  <1>1. OInv /\ [Next]_vars => [A]_vars
    <2> SUFFICES ASSUME OInv, Next, stage = "seq_check", result' = "seq_mismatch"
                 PROVE  m.seq = 0
      OBVIOUS
    <2>1. result = "none"
      BY DEF OInv, Line
    <2>2. SeqCheck
      <3>1. ~Application
        BY DEF Application, nl_send_auto, nl_send_sync, nl_send_auto_fails, nl_send_sync_withheld,
               nl_socket_use_seq, SetAutoAck, nl_socket_disable_seq_check,
               nl_recvmsgs_default, nl_wait_for_ack, SendAuto, MaySend
      <3>2. ~Kernel /\ ~KernelNotify /\ ~PeerStray
        BY <2>1 DEF Kernel, KernelAnswer, KernelDump, KernelNotify, PeerStray, callVars
      <3> QED BY <3>1, <3>2 DEF Next, recvmsgs, ReadDatagram, ReadNobufs, ReadAgain,
                 ReadTruncated, ReadNomem, EndOfDatagram, ConvertNomem, MsgIn, Count,
                 SendAck, HandleType, AtStage
    <2>3. buf # <<>> /\ Uncounted = buf
      BY <2>2 DEF SeqCheck, AtStage, Uncounted
    <2>4. ~IsSet("SEQ_CHECK")
      BY DEF Orderly, Attentive, OInv, HalfInv, IsSet
    <2>5. m.seq # seqExpect
      BY <2>1, <2>2, <2>4 DEF SeqCheck, Goto
    <2> QED BY <2>3, <2>5, HeadExpected DEF m
  <1> QED BY <1>1, OrderlyInvariance, PTL DEF Spec, RepliesMatched
=============================================================================
