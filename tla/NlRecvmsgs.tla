----------------------------- MODULE NlRecvmsgs -----------------------------
(***************************************************************************)
(* The request/reply engine of lib/nl.c: nl_send_auto() numbers a request, *)
(* the kernel answers it, and recvmsgs() reads datagrams, checks sequence  *)
(* numbers and calls the application's hooks.  One thread drives the       *)
(* socket; the kernel, and the event sources it forwards, run beside it.   *)
(* A message is processed in stages, one per hook, because each hook can   *)
(* end the message or the whole call.                                      *)
(***************************************************************************)
EXTENDS Naturals, Sequences, FiniteSets

CONSTANTS
    StartSeq,     \* time(NULL) when the socket was allocated, not zero
    MaxReq,       \* bound: sequence numbers used per behaviour
    MaxEvents,    \* bound: notifications and stray messages per behaviour
    MaxParts,     \* bound: data messages of a dump
    RxCap,        \* datagrams the socket's receive buffer holds
    Kinds,        \* request kinds the application uses
    HookSets,     \* sets of hooks the application may have set
    HookVerdicts, \* what the application's hooks return
    Hazards       \* what may go wrong, of the names below

ASSUME RecvAssumption ==
    /\ StartSeq \in Nat \ {0}
    /\ {MaxReq, MaxEvents, MaxParts, RxCap} \subseteq Nat
    /\ Kinds \subseteq {"set", "get", "dump"}
    /\ HookVerdicts \subseteq {"OK", "SKIP", "STOP", "ERR"}
    /\ Hazards \subseteq {"send_fails", "drop_reply", "overlap", "options",
                          "stray", "trunc", "nomem"}

VARIABLES
    seqNext, seqExpect,  \* s_seq_next, s_seq_expect
    autoAck,             \* ~NL_NO_AUTO_ACK
    hooks,               \* hooks set in s_cb (cb_set, and "ERR" for cb_err)
    stage,               \* "idle", or the place in recvmsgs()
    call,                \* the entry point that runs, or ran last
    buf,                 \* messages of the datagram not yet processed
    multipart, interrupted,   \* locals of recvmsgs()
    result,              \* what the last call returned
    requests,            \* kernel: requests sent and not yet answered
    dump,                \* kernel: the dump in progress
    rxq,                 \* kernel: receive queue, a sequence of datagrams
    overrun,             \* kernel: ENOBUFS to be reported
    outcome,             \* history: how the kernel decided each request
    events, strays,      \* history: notifications and stray messages so far
    sync,                \* history: the request of the last nl_send_sync(),
                         \* and whether nothing was outstanding before it
    open,                \* history: dumps with parts consumed but no DONE
    untold               \* history: interrupted dumps consumed since a call
                         \* last returned an error

sockVars   == <<seqNext, seqExpect, autoAck, hooks>>
callVars   == <<stage, call, buf, multipart, interrupted, result>>
kernelVars == <<requests, dump, rxq, overrun, outcome>>
histVars   == <<events, strays, sync, open, untold>>
vars       == <<sockVars, callVars, kernelVars, histVars>>

-----------------------------------------------------------------------------
\* Message types after which s_seq_expect advances; ACK is NLMSG_ERROR with
\* error 0, TRUNC an NLMSG_ERROR too short for its payload.
Terminators == {"DONE", "ACK", "ERROR", "TRUNC", "NOOP", "OVERRUN"}
Hooks == {"MSG_IN", "SEQ_CHECK", "INVALID", "DUMP_INTR", "SEND_ACK", "FINISH",
          "SKIPPED", "OVERRUN", "ERR", "ACK", "VALID"}
ASSUME HooksAssumption == HookSets \subseteq SUBSET Hooks

Stages == {"msg_in", "seq_check", "count", "send_ack", "type"}
Results == {"none", "ok", "again", "nobufs", "trunc", "seq_mismatch",
            "dump_intr", "overflow", "kernel_error", "hook_error", "nomem"}
Seqs == 0..(StartSeq + MaxReq + MaxEvents)
Msg == [type : Terminators \cup {"VALID"}, seq : Seqs, multi : BOOLEAN,
        intr : BOOLEAN, ack : BOOLEAN]

Message(t, q) ==
    [type |-> t, seq |-> q, multi |-> FALSE, intr |-> FALSE, ack |-> FALSE]
Part(t, q, i) == [Message(t, q) EXCEPT !.multi = TRUE, !.intr = i]

NoDump == [seq |-> 0, left |-> 0]

TypeOK ==
    /\ {seqNext, seqExpect} \subseteq Seqs
    /\ {autoAck, multipart, interrupted, overrun} \subseteq BOOLEAN
    /\ hooks \subseteq Hooks
    /\ stage \in {"idle", "read"} \cup Stages
    /\ call \in {"none", "recv", "wait", "sync"}
    /\ buf \in Seq(Msg)
    /\ result \in Results
    /\ requests \in Seq([seq : Seqs, kind : Kinds, ack : BOOLEAN])
    /\ dump \in [seq : Seqs, left : 0..MaxParts]
    /\ rxq \in Seq(Seq(Msg) \ {<<>>})
    /\ outcome \in [Seqs -> {"pending", "ok", "error"}]
    /\ {events, strays} \subseteq 0..MaxEvents
    /\ sync \in [seq : Seqs, clean : BOOLEAN]
    /\ open \subseteq Seqs /\ untold \subseteq Seqs
    \* a message is looked at only while there is one
    /\ stage \in Stages \ {"msg_in"} => buf # <<>>
    /\ stage \in {"idle", "read"} => buf = <<>>

Init ==
    /\ seqNext = StartSeq /\ seqExpect = StartSeq
    /\ autoAck = TRUE
    /\ hooks \in HookSets
    /\ stage = "idle" /\ call = "none" /\ buf = <<>>
    /\ multipart = FALSE /\ interrupted = FALSE
    /\ result = "none"
    /\ requests = <<>> /\ dump = NoDump /\ rxq = <<>> /\ overrun = FALSE
    /\ outcome = [q \in Seqs |-> "pending"]
    /\ events = 0 /\ strays = 0
    /\ sync = [seq |-> 0, clean |-> FALSE] /\ open = {} /\ untold = {}

-----------------------------------------------------------------------------
(* Sending.                                                                *)

\* Nothing of an earlier request is on its way.
Drained == requests = <<>> /\ dump = NoDump /\ rxq = <<>>

\* Unless the hazard is on, the application sends no request while a dump
\* of its own is unfinished.
NoDumpPending ==
    /\ dump = NoDump /\ open = {}
    /\ \A i \in DOMAIN requests : requests[i].kind # "dump"
    /\ \A i \in DOMAIN rxq : \A j \in DOMAIN rxq[i] : ~rxq[i][j].multi

\* s_seq_next++
UseSeq == seqNext' = seqNext + 1

MaySend ==
    /\ stage = "idle"
    /\ seqNext < StartSeq + MaxReq
    /\ "overlap" \in Hazards \/ NoDumpPending

\* nl_complete_msg() and a successful nl_send() of a request of kind k.
SendAuto(k) ==
    /\ MaySend
    /\ UseSeq
    /\ requests' = Append(requests, [seq |-> seqNext, kind |-> k,
                                     ack |-> autoAck])

nl_send_auto(k) ==
    /\ SendAuto(k)
    /\ call' = "none" /\ result' = "ok"
    /\ UNCHANGED <<seqExpect, autoAck, hooks, stage, buf, multipart,
                   interrupted, dump, rxq, overrun, outcome, histVars>>

\* sendmsg() or the NL_CB_MSG_OUT hook fails, or the hook returns NL_SKIP or
\* NL_STOP: nothing is sent and the number is used up.  A positive verdict of
\* the hook looks like a success.
nl_send_auto_fails ==
    /\ "send_fails" \in Hazards
    /\ MaySend
    /\ UseSeq
    /\ call' = "none" /\ result' \in {"hook_error", "ok"}
    /\ UNCHANGED <<seqExpect, autoAck, hooks, stage, buf, multipart,
                   interrupted, kernelVars, histVars>>

\* nl_socket_use_seq(): the application numbers a message of its own.
nl_socket_use_seq ==
    /\ "options" \in Hazards
    /\ MaySend
    /\ UseSeq
    /\ UNCHANGED <<seqExpect, autoAck, hooks, callVars, kernelVars, histVars>>

\* nl_socket_enable_auto_ack(), nl_socket_disable_auto_ack()
SetAutoAck(on) ==
    /\ "options" \in Hazards
    /\ stage = "idle"
    /\ autoAck # on
    /\ autoAck' = on
    /\ UNCHANGED <<seqNext, seqExpect, hooks, callVars, kernelVars, histVars>>

nl_socket_disable_seq_check ==
    /\ "options" \in Hazards
    /\ stage = "idle"
    /\ "SEQ_CHECK" \notin hooks
    /\ hooks' = hooks \cup {"SEQ_CHECK"}
    /\ UNCHANGED <<seqNext, seqExpect, autoAck, callVars, kernelVars,
                   histVars>>

-----------------------------------------------------------------------------
(* Entering and leaving recvmsgs().                                        *)

Enter(c) ==
    /\ stage' = "read"
    /\ call' = c
    /\ result' = "none"
    /\ UNCHANGED <<buf, multipart, interrupted>>

\* Mutant: the rest of the datagram is kept for the next call.
ReturnKeepsBuffer(r) ==
    /\ stage' = "idle"
    /\ result' = r
    /\ multipart' = FALSE
    /\ interrupted' = FALSE
    /\ untold' = IF r = "ok" THEN untold ELSE {}
    /\ UNCHANGED <<call, buf>>

\* Back to the caller; the locals are gone, and with them what is left of
\* the datagram.
Return(r) ==
    /\ stage' = "idle"
    /\ result' = r
    /\ buf' = <<>>
    /\ multipart' = FALSE
    /\ interrupted' = FALSE
    /\ untold' = IF r = "ok" THEN untold ELSE {}
    /\ UNCHANGED call

\* Mutant: the interruption is forgotten once the dump is complete.
LeaveForgets(r) == Return(IF interrupted /\ multipart THEN "dump_intr" ELSE r)

\* The label out: an interrupted dump takes precedence over any result.
Leave(r) == Return(IF interrupted THEN "dump_intr" ELSE r)

nl_recvmsgs_default ==
    /\ stage = "idle"
    /\ Enter("recv")
    /\ UNCHANGED <<sockVars, kernelVars, histVars>>

\* nl_wait_for_ack(), called while a request is outstanding.
nl_wait_for_ack ==
    /\ stage = "idle"
    /\ autoAck
    /\ seqNext # seqExpect
    /\ Enter("wait")
    /\ UNCHANGED <<sockVars, kernelVars, histVars>>

\* nl_send_sync(): wait_for_ack() returns at once without auto-ack.
nl_send_sync(k) ==
    /\ SendAuto(k)
    /\ IF autoAck
          THEN Enter("sync")
          ELSE /\ call' = "none" /\ result' = "ok"
               /\ UNCHANGED <<stage, buf, multipart, interrupted>>
    /\ sync' = [seq |-> seqNext, clean |-> Drained /\ seqNext = seqExpect]
    /\ UNCHANGED <<seqExpect, autoAck, hooks, dump, rxq, overrun, outcome,
                   events, strays, open, untold>>

\* nl_send_sync() of a message the NL_CB_MSG_OUT hook withholds with NL_SKIP or
\* NL_STOP: it waits for an ACK all the same.
nl_send_sync_withheld ==
    /\ "send_fails" \in Hazards
    /\ MaySend
    /\ UseSeq
    /\ autoAck
    /\ Enter("sync")
    /\ sync' = [seq |-> seqNext, clean |-> Drained /\ seqNext = seqExpect]
    /\ UNCHANGED <<seqExpect, autoAck, hooks, kernelVars, events, strays, open,
                   untold>>

-----------------------------------------------------------------------------
(* nl_recv(): the next datagram, or an error that recvmsgs() returns as it *)
(* is, not looking at interrupted.                                         *)

ReadDatagram ==
    /\ stage = "read"
    /\ ~overrun
    /\ rxq # <<>>
    /\ buf' = Head(rxq)
    /\ rxq' = Tail(rxq)
    /\ stage' = "msg_in"
    /\ UNCHANGED <<sockVars, call, multipart, interrupted, result, requests,
                   dump, overrun, outcome, histVars>>

\* The receive buffer overran; the kernel reports it before any data.
ReadNobufs ==
    /\ stage = "read"
    /\ overrun
    /\ overrun' = FALSE
    /\ Return("nobufs")
    /\ UNCHANGED <<sockVars, requests, dump, rxq, outcome, events, strays,
                   sync, open>>

\* Non-blocking socket and no data; nl_wait_for_ack() needs a blocking one.
ReadAgain ==
    /\ stage = "read"
    /\ call = "recv"
    /\ ~overrun
    /\ rxq = <<>>
    /\ Return("again")
    /\ UNCHANGED <<sockVars, kernelVars, events, strays, sync, open>>

\* Without MSG_PEEK, a datagram larger than the buffer is consumed and lost.
ReadTruncated ==
    /\ "trunc" \in Hazards
    /\ stage = "read"
    /\ ~overrun
    /\ rxq # <<>>
    /\ rxq' = Tail(rxq)
    /\ Return("trunc")
    /\ UNCHANGED <<sockVars, requests, dump, overrun, outcome, events, strays,
                   sync, open>>

\* malloc() fails before the datagram is taken off the queue.
ReadNomem ==
    /\ "nomem" \in Hazards
    /\ stage = "read"
    /\ Return("nomem")
    /\ UNCHANGED <<sockVars, kernelVars, events, strays, sync, open>>

-----------------------------------------------------------------------------
(* Processing one message, the head of buf.                                *)

m == Head(buf)

\* To the next stage of the message or, at the label skip ("msg_in"), to the
\* next message of the datagram.
Goto(next, mp) ==
    /\ stage' = next
    /\ buf' = IF next = "msg_in" THEN Tail(buf) ELSE buf
    /\ multipart' = mp
    /\ UNCHANGED <<call, interrupted, result, untold>>

\* nl_wait_for_ack() sets its own ACK hook in a clone of the hooks.
Waiting == call \in {"wait", "sync"}
IsSet(h) == h \in hooks \/ (h = "ACK" /\ Waiting)

\* What hook h can return: nl_wait_for_ack()'s hook stops, the one of
\* nl_socket_disable_seq_check() accepts.
Verdicts(h) ==
    IF h = "ACK" /\ Waiting THEN {"STOP"}
    ELSE IF h = "SEQ_CHECK" THEN {"OK"} ELSE HookVerdicts

\* The macro NL_CB_CALL: the hook decides how to go on.
NL_CB_CALL(h, next, mp) ==
    \/ "OK" \in Verdicts(h) /\ Goto(next, mp)
    \/ "SKIP" \in Verdicts(h) /\ Goto("msg_in", mp)
    \/ "STOP" \in Verdicts(h) /\ Leave("ok")
    \/ "ERR" \in Verdicts(h) /\ Leave("hook_error")

\* A hook if it is set, the default otherwise.
Hook(h, next, mp, default) ==
    IF IsSet(h) THEN NL_CB_CALL(h, next, mp) ELSE default

AtStage(s) == stage = s /\ buf # <<>>

\* What no stage but "count" changes.
Elsewhere == UNCHANGED <<kernelVars, events, strays, sync>>

\* Mutant: a dump's datagram ends the call although more will follow.
EndOfDatagramStops ==
    /\ stage = "msg_in" /\ buf = <<>>
    /\ Leave("ok")
    /\ UNCHANGED <<sockVars, open>> /\ Elsewhere

\* Mutant: reading goes on until a hook stops it, as if every answer ended
\* with an ACK.
EndOfDatagramReadsOn ==
    /\ stage = "msg_in" /\ buf = <<>>
    /\ stage' = "read"
    /\ UNCHANGED <<call, buf, multipart, interrupted, result, untold>>
    /\ UNCHANGED <<sockVars, open>> /\ Elsewhere

\* All messages of the datagram processed: read on inside a multipart
\* message, else return the number of messages.
EndOfDatagram ==
    /\ stage = "msg_in" /\ buf = <<>>
    /\ IF multipart
          THEN /\ stage' = "read"
               /\ UNCHANGED <<call, buf, multipart, interrupted, result,
                              untold>>
          ELSE Leave("ok")
    /\ UNCHANGED <<sockVars, open>> /\ Elsewhere

\* nlmsg_convert() finds no memory for the message.
ConvertNomem ==
    /\ "nomem" \in Hazards
    /\ AtStage("msg_in")
    /\ Leave("nomem")
    /\ UNCHANGED <<sockVars, open>> /\ Elsewhere

MsgIn ==
    /\ AtStage("msg_in")
    /\ Hook("MSG_IN", "seq_check", multipart, Goto("seq_check", multipart))
    /\ UNCHANGED <<sockVars, open>> /\ Elsewhere

\* Mutant: sequence numbers are not checked while waiting for an ACK.
SeqCheckNotWaiting ==
    /\ AtStage("seq_check")
    /\ IF IsSet("SEQ_CHECK")
          THEN NL_CB_CALL("SEQ_CHECK", "count", multipart)
          ELSE IF autoAck /\ m.seq # seqExpect /\ ~Waiting
          THEN Hook("INVALID", "count", multipart, Leave("seq_mismatch"))
          ELSE Goto("count", multipart)
    /\ UNCHANGED <<sockVars, open>> /\ Elsewhere

\* The hook checks, or auto-ack mode requires the expected number.
SeqCheck ==
    /\ AtStage("seq_check")
    /\ IF IsSet("SEQ_CHECK")
          THEN NL_CB_CALL("SEQ_CHECK", "count", multipart)
          ELSE IF autoAck /\ m.seq # seqExpect
          THEN Hook("INVALID", "count", multipart, Leave("seq_mismatch"))
          ELSE Goto("count", multipart)
    /\ UNCHANGED <<sockVars, open>> /\ Elsewhere

\* Mutant: the expected number also advances on the data of a reply.
AdvanceAlways == seqExpect' = seqExpect + 1

\* Mutant: an error reply does not advance the expected number.
AdvanceNotOnError ==
    seqExpect' = IF m.type \in Terminators \ {"ERROR"}
                    THEN seqExpect + 1 ELSE seqExpect

\* A message that ends a reply advances s_seq_expect.
Advance ==
    seqExpect' = IF m.type \in Terminators THEN seqExpect + 1 ELSE seqExpect

\* The expected number, NLM_F_MULTI, and NLM_F_DUMP_INTR: without a hook,
\* remembered until the call returns.
Count ==
    /\ AtStage("count")
    /\ Advance
    /\ LET mp == multipart \/ m.multi
       IN  IF m.intr
              THEN Hook("DUMP_INTR", "send_ack", mp,
                        /\ interrupted' = TRUE
                        /\ untold' = untold \cup {m.seq}
                        /\ stage' = "send_ack"
                        /\ multipart' = mp
                        /\ UNCHANGED <<call, buf, result>>)
              ELSE Goto("send_ack", mp)
    /\ open' = IF ~m.multi THEN open
               ELSE IF m.type = "DONE" THEN open \ {m.seq}
               ELSE open \cup {m.seq}
    /\ UNCHANGED <<seqNext, autoAck, hooks>> /\ Elsewhere

SendAck ==
    /\ AtStage("send_ack")
    /\ IF m.ack
          THEN Hook("SEND_ACK", "type", multipart, Goto("type", multipart))
          ELSE Goto("type", multipart)
    /\ UNCHANGED <<sockVars, open>> /\ Elsewhere

\* cb_err: NL_OK and NL_SKIP go on, NL_STOP returns the kernel's error.
ErrHook ==
    \/ HookVerdicts \cap {"OK", "SKIP"} # {} /\ Goto("msg_in", multipart)
    \/ "STOP" \in HookVerdicts /\ Leave("kernel_error")
    \/ "ERR" \in HookVerdicts /\ Leave("hook_error")

\* The branch on the message type.
HandleType ==
    /\ AtStage("type")
    /\ \/ /\ m.type = "DONE"
          /\ Hook("FINISH", "msg_in", FALSE, Goto("msg_in", FALSE))
       \/ /\ m.type = "NOOP"
          /\ Hook("SKIPPED", "msg_in", multipart, Goto("msg_in", multipart))
       \/ /\ m.type = "OVERRUN"
          /\ Hook("OVERRUN", "msg_in", multipart, Leave("overflow"))
       \/ /\ m.type = "TRUNC"
          /\ Hook("INVALID", "msg_in", multipart, Leave("trunc"))
       \/ /\ m.type = "ERROR"
          /\ IF IsSet("ERR") THEN ErrHook ELSE Leave("kernel_error")
       \/ /\ m.type = "ACK"
          /\ Hook("ACK", "msg_in", multipart, Goto("msg_in", multipart))
       \/ /\ m.type = "VALID"
          /\ Hook("VALID", "msg_in", multipart, Goto("msg_in", multipart))
    /\ UNCHANGED <<sockVars, open>> /\ Elsewhere

-----------------------------------------------------------------------------
(* The kernel, and what else sends to the socket.                          *)

Room(n) == Len(rxq) + n <= RxCap

\* The datagrams that answer request r.
Reply(r, ok) ==
    IF ~ok THEN << <<Message("ERROR", r.seq)>> >>
    ELSE IF r.kind = "dump" THEN <<>>
    ELSE (IF r.kind = "get" THEN << <<Message("VALID", r.seq)>> >> ELSE <<>>)
         \o (IF r.ack THEN << <<Message("ACK", r.seq)>> >> ELSE <<>>)

\* A request is decided and answered; a dump is started, or refused (EBUSY)
\* while another one runs.  A reply that finds no room is dropped.
KernelAnswer ==
    /\ requests # <<>>
    /\ \E ok \in BOOLEAN :
         LET r  == Head(requests)
             ds == Reply(r, ok)
         IN  /\ ok /\ r.kind = "dump" => dump = NoDump
             /\ \E n \in 0..Len(ds) :
                   /\ n < Len(ds) => "drop_reply" \in Hazards
                   /\ Room(n)
                   /\ rxq' = rxq \o SubSeq(ds, 1, n)
                   /\ overrun' = (overrun \/ n < Len(ds))
             /\ IF ok /\ r.kind = "dump"
                   THEN \E n \in 0..MaxParts :
                           dump' = [seq |-> r.seq, left |-> n]
                   ELSE UNCHANGED dump
             /\ outcome' = [outcome EXCEPT ![r.seq] =
                               IF ok THEN "ok" ELSE "error"]
    /\ requests' = Tail(requests)
    /\ UNCHANGED <<sockVars, callVars, histVars>>

\* A datagram of the dump; the last one carries DONE too.  Any message may
\* say that the dumped table changed meanwhile.
KernelDump ==
    /\ dump # NoDump
    /\ Room(1)
    /\ \E i, j \in BOOLEAN :
         \/ /\ dump.left > 0
            /\ rxq' = Append(rxq, <<Part("VALID", dump.seq, i)>>)
            /\ dump' = [dump EXCEPT !.left = @ - 1]
         \/ /\ dump.left = 1
            /\ rxq' = Append(rxq, <<Part("VALID", dump.seq, i),
                                    Part("DONE", dump.seq, j)>>)
            /\ dump' = NoDump
         \/ /\ dump.left = 0
            /\ rxq' = Append(rxq, <<Part("DONE", dump.seq, i)>>)
            /\ dump' = NoDump
    /\ UNCHANGED <<sockVars, callVars, requests, overrun, outcome, histVars>>

\* An event of a multicast group the socket joined; it may find no room.
KernelNotify ==
    /\ events + strays < MaxEvents
    /\ events' = events + 1
    /\ \/ /\ Room(1)
          /\ rxq' = Append(rxq, <<Message("VALID", 0)>>)
          /\ UNCHANGED overrun
       \/ /\ overrun' = TRUE
          /\ UNCHANGED rxq
    /\ UNCHANGED <<sockVars, callVars, requests, dump, outcome, strays, sync,
                   open, untold>>

\* Another process sends a control message the kernel never sends.
PeerStray ==
    /\ "stray" \in Hazards
    /\ events + strays < MaxEvents
    /\ Room(1)
    /\ strays' = strays + 1
    /\ \E t \in {"NOOP", "OVERRUN", "TRUNC"} :
         rxq' = Append(rxq, <<[Message(t, 0) EXCEPT !.ack = TRUE]>>)
    /\ UNCHANGED <<sockVars, callVars, requests, dump, overrun, outcome,
                   events, sync, open, untold>>

-----------------------------------------------------------------------------
Application ==
    \/ \E k \in Kinds : nl_send_auto(k) \/ nl_send_sync(k)
    \/ nl_send_auto_fails \/ nl_send_sync_withheld
    \/ nl_socket_use_seq
    \/ \E on \in BOOLEAN : SetAutoAck(on)
    \/ nl_socket_disable_seq_check
    \/ nl_recvmsgs_default
    \/ nl_wait_for_ack

recvmsgs ==
    \/ ReadDatagram \/ ReadNobufs \/ ReadAgain \/ ReadTruncated \/ ReadNomem
    \/ EndOfDatagram \/ ConvertNomem
    \/ MsgIn \/ SeqCheck \/ Count \/ SendAck \/ HandleType

Kernel == KernelAnswer \/ KernelDump

Next ==
    \/ Application
    \/ recvmsgs
    \/ Kernel
    \/ KernelNotify
    \/ PeerStray

\* The thread inside recvmsgs() runs unless recvmsg() blocks; the kernel
\* works off requests and dumps.
Fairness == WF_vars(recvmsgs) /\ WF_vars(Kernel)

Spec == Init /\ [][Next]_vars /\ Fairness

-----------------------------------------------------------------------------
(* Properties.                                                             *)

\* The ends of replies in a datagram, and in a queue of datagrams.
Ends(d)   == {j \in DOMAIN d : d[j].type \in Terminators}
EndsIn(q) == UNION {{<<i, j>> : j \in Ends(q[i])} : i \in DOMAIN q}

\* The messages of buf that recvmsgs() has not counted yet.
Uncounted == IF stage \in {"send_ack", "type"} THEN Tail(buf) ELSE buf

\* Ends of replies still to come: requests and dumps the kernel has not
\* answered, and terminators not yet counted.
Outstanding ==
    Len(requests) + (IF dump = NoDump THEN 0 ELSE 1)
                  + Cardinality(EndsIn(rxq)) + Cardinality(Ends(Uncounted))

\* recvmsgs() and nl_send_auto() keep s_seq_expect and s_seq_next in step:
\* for an application that lets replies run to their end, the distance is
\* the number of replies still to come, in every state of every call.
SeqAccounting == seqExpect + Outstanding = seqNext

\* Whatever is lost, refused, overlapped or abandoned, the socket never
\* expects a number ahead of the replies that can still come.
SeqNeverAhead == seqExpect + Outstanding <= seqNext + strays

\* "filled in automatically and matched again when a reply is received"
\* (doc/core.txt): recvmsgs() refuses a message for its sequence number only
\* if it is no reply (notifications carry number 0).
RepliesMatched ==
    [][stage = "seq_check" /\ result' = "seq_mismatch" => m.seq = 0]_vars

\* A receive call that returns success never leaves a dump half read: it
\* returned at the dump's DONE, across all its datagrams and after earlier
\* calls that failed in the middle.
NoHalfDump ==
    stage = "idle" /\ call # "none" /\ result = "ok" => open = {}

\* A dump the kernel marked as interrupted is never reported as a success by
\* all the calls that read it, even if one of them fails for another reason.
InterruptReported == stage = "idle" => untold = {}

\* The hooks that leave the answer to a request alone.
PassiveHooks == {"VALID", "ACK", "DUMP_INTR"}

\* nl_send_sync() on a socket with nothing outstanding reports what the
\* kernel decided on this request, not on another one, though notifications
\* arrive in between, replies are dropped and hooks stop the parser.
SyncVerdict ==
    stage = "idle" /\ call = "sync" /\ sync.clean /\ hooks \subseteq PassiveHooks
       => /\ result = "ok" => outcome[sync.seq] = "ok"
          /\ result = "kernel_error" => outcome[sync.seq] = "error"

\* nl_wait_for_ack(): "Waits until an ACK is received": when it returns
\* success, it has just processed an ACK.
WaitSeesAck ==
    [][Waiting /\ stage # "idle" /\ stage' = "idle" /\ result' = "ok"
          => buf # <<>> /\ m.type = "ACK"]_vars

\* A wait for an answer that is outstanding returns: the answer is never
\* consumed by somebody else or refused without an error.
WaitReturns == Waiting /\ stage # "idle" ~> stage = "idle"
=============================================================================
