------------------------------ MODULE NlPorts ------------------------------
(***************************************************************************)
(* Local port (nl_pid) management of netlink sockets: the process-wide     *)
(* bitmap used_ports_map of lib/socket.c, the socket operations that take  *)
(* a port from it or give one back, and the bind/retry loop of nl_connect  *)
(* in lib/nl.c.                                                            *)
(*                                                                         *)
(* Every socket is driven by one thread (struct nl_sock is not thread      *)
(* safe), so a socket stands for its thread; the threads share the bitmap  *)
(* under port_map_lock and the kernel's table of bound ports.  A critical  *)
(* section, and a system call, is one step.                                *)
(***************************************************************************)
EXTENDS Naturals, FiniteSets

CONSTANTS
    Sockets,      \* struct nl_sock slots, one thread each
    GenPorts,     \* ports generate_local_port() can return: one per bit
    OtherPorts,   \* every other non-zero port, UINT32_MAX included
    Unspec,       \* port 0, "unspecified"
    MaxPort,      \* UINT32_MAX
    MaxTries      \* attempts of nl_connect's bind loop (6 in the code)

ASSUME PortsAssumption ==
    /\ MaxPort \in OtherPorts
    /\ GenPorts \cap OtherPorts = {}
    /\ Unspec \notin GenPorts \cup OtherPorts

ASSUME MaxTriesAssumption == MaxTries \in Nat

VARIABLES
    used,      \* used_ports_map: the ports whose bit is set
    bug,       \* TRUE once a BUG_ON of socket.c has fired
    fd,        \* fd[s]: s_fd is an open descriptor
    port,      \* port[s]: s_local.nl_pid
    own,       \* own[s]: NL_OWN_PORT, the port is not taken from the map
    pc,        \* "unalloc", "idle", or the place in nl_connect
    ntries,    \* local variable of nl_connect
    tried,     \* local variable used_ports of nl_connect
    auto,      \* history: the connect began with an unspecified port
    result,    \* return of the last nl_connect
    bound,     \* kernel: the port the descriptor of s is bound to
    foreign    \* kernel: ports bound by descriptors not owned by a socket

mapVars    == <<used, bug>>
addrVars   == <<port, own>>
loopVars   == <<ntries, tried>>
histVars   == <<auto, result>>
kernelVars == <<bound, foreign>>

vars == <<mapVars, fd, addrVars, pc, loopVars, histVars, kernelVars>>

NonZeroPorts == GenPorts \cup OtherPorts
AllPorts     == NonZeroPorts \cup {Unspec}

ConnectPCs == {"generate", "trybind", "abandon", "release_bound",
               "release_unbound", "bind", "getname"}

TypeOK ==
    /\ used \subseteq GenPorts
    /\ bug \in BOOLEAN
    /\ fd \in [Sockets -> BOOLEAN]
    /\ port \in [Sockets -> AllPorts]
    /\ own \in [Sockets -> BOOLEAN]
    /\ pc \in [Sockets -> {"unalloc", "idle"} \cup ConnectPCs]
    /\ ntries \in [Sockets -> 0..MaxTries]
    /\ tried \in [Sockets -> SUBSET GenPorts]
    /\ auto \in [Sockets -> BOOLEAN]
    /\ result \in [Sockets -> {"none", "ok", "inuse", "error"}]
    /\ bound \in [Sockets -> AllPorts]
    /\ foreign \subseteq NonZeroPorts

Init ==
    /\ used = {}
    /\ bug = FALSE
    /\ fd = [s \in Sockets |-> FALSE]
    /\ port = [s \in Sockets |-> Unspec]
    /\ own = [s \in Sockets |-> TRUE]
    /\ pc = [s \in Sockets |-> "unalloc"]
    /\ ntries = [s \in Sockets |-> 0]
    /\ tried = [s \in Sockets |-> {}]
    /\ auto = [s \in Sockets |-> FALSE]
    /\ result = [s \in Sockets |-> "none"]
    /\ bound = [s \in Sockets |-> Unspec]
    /\ foreign \in SUBSET NonZeroPorts

-----------------------------------------------------------------------------
(* The bitmap.  Each operator is one critical section of port_map_lock.    *)

\* Mutant: a bit is set although the map is full.
GenerateWhenFull(p) ==
    /\ IF used = GenPorts THEN p = Unspec ELSE p \in GenPorts \ used
    /\ used' = used \cup {p}
    /\ UNCHANGED bug

\* Mutant: the walk does not skip the bits that are set.
GenerateIgnoresMap(p) ==
    /\ p \in GenPorts
    /\ used' = used \cup {p}
    /\ UNCHANGED bug

\* generate_local_port(): p is a port it can return in this state, zero
\* when all the bits are set; the walk over the map picks any free bit.
generate_local_port(p) ==
    /\ IF used = GenPorts THEN p = Unspec ELSE p \in GenPorts \ used
    /\ used' = used \cup ({p} \ {Unspec})
    /\ UNCHANGED bug

\* _nl_socket_used_ports_release_all() for a set of ports and, with one
\* port, release_local_port(): BUG_ON a bit that is not set, then clear.
ReleasePorts(ports) ==
    /\ bug' = (bug \/ ~(ports \subseteq used))
    /\ used' = used \ ports

\* Mutant: an unconditional release, as if NL_OWN_PORT were not tested.
ReleaseAlways(s) == ReleasePorts({port[s]})

\* Mutant: the port of the socket is forgotten, not released.
ReleaseNever(s) == UNCHANGED <<used, bug>>

\* The test `if (!(sk->s_flags & NL_OWN_PORT)) release_local_port(...)`.
ReleaseOwnedPort(s) ==
    IF own[s] THEN UNCHANGED <<used, bug>> ELSE ReleasePorts({port[s]})

-----------------------------------------------------------------------------
(* The kernel's side: which ports are bound.                               *)

BoundPorts == foreign \cup {bound[s] : s \in Sockets}

\* bind() of s to p succeeds and the descriptor is then bound to q: p itself
\* or, for p = 0, any port that is free (netlink_autobind).
KernelBind(s, p, q) ==
    /\ q \in NonZeroPorts \ BoundPorts
    /\ p # Unspec => q = p
    /\ bound' = [bound EXCEPT ![s] = q]

\* close(): the descriptor's port is free again.
KernelClose(s) ==
    /\ fd' = [fd EXCEPT ![s] = FALSE]
    /\ bound' = [bound EXCEPT ![s] = Unspec]

-----------------------------------------------------------------------------
(* Socket operations other than nl_connect.                                *)

nl_socket_alloc(s) ==
    /\ pc[s] = "unalloc"
    /\ pc' = [pc EXCEPT ![s] = "idle"]
    /\ fd' = [fd EXCEPT ![s] = FALSE]
    /\ port' = [port EXCEPT ![s] = Unspec]
    /\ own' = [own EXCEPT ![s] = TRUE]
    /\ result' = [result EXCEPT ![s] = "none"]
    /\ UNCHANGED <<mapVars, loopVars, auto, kernelVars>>

nl_socket_free(s) ==
    /\ pc[s] = "idle"
    /\ KernelClose(s)
    /\ ReleaseOwnedPort(s)
    /\ pc' = [pc EXCEPT ![s] = "unalloc"]
    \* the struct is gone: canonical values for the slot
    /\ port' = [port EXCEPT ![s] = Unspec]
    /\ own' = [own EXCEPT ![s] = TRUE]
    /\ result' = [result EXCEPT ![s] = "none"]
    /\ UNCHANGED <<loopVars, auto, foreign>>

\* nl_close() keeps the port: a later nl_connect() binds to it again.
nl_close(s) ==
    /\ pc[s] = "idle"
    /\ fd[s]
    /\ KernelClose(s)
    /\ UNCHANGED <<mapVars, addrVars, pc, loopVars, histVars, foreign>>

\* With an unspecified port, takes one; when there is none, UINT32_MAX.
nl_socket_get_local_port(s) ==
    /\ pc[s] = "idle"
    /\ port[s] = Unspec
    /\ \E p \in GenPorts \cup {Unspec} :
          /\ generate_local_port(p)
          /\ port' = [port EXCEPT ![s] = IF p = Unspec THEN MaxPort ELSE p]
          /\ own' = [own EXCEPT ![s] = p = Unspec]
    /\ UNCHANGED <<fd, pc, loopVars, histVars, kernelVars>>

nl_socket_set_local_port(s, p) ==
    /\ pc[s] = "idle"
    /\ ReleaseOwnedPort(s)
    /\ own' = [own EXCEPT ![s] = TRUE]
    /\ port' = [port EXCEPT ![s] = p]
    /\ UNCHANGED <<fd, pc, loopVars, histVars, kernelVars>>

\* Adopts a descriptor opened elsewhere, bound to p or not bound at all.
\* The error returns leave the socket alone.
nl_socket_set_fd(s, p) ==
    /\ pc[s] = "idle"
    /\ ~fd[s]
    /\ p \in foreign \cup {Unspec}
    /\ ReleaseOwnedPort(s)
    /\ own' = [own EXCEPT ![s] = TRUE]
    /\ port' = [port EXCEPT ![s] = p]
    /\ fd' = [fd EXCEPT ![s] = TRUE]
    /\ bound' = [bound EXCEPT ![s] = p]
    /\ foreign' = foreign \ {p}
    /\ UNCHANGED <<pc, loopVars, histVars>>

-----------------------------------------------------------------------------
(* nl_connect(), one action per critical section or system call.           *)

\* Return from nl_connect with r; on errout the descriptor is closed.
Return(s, r) ==
    /\ pc' = [pc EXCEPT ![s] = "idle"]
    /\ result' = [result EXCEPT ![s] = r]

\* socket() and nl_socket_set_buffer_size(); a socket that is already
\* connected (-NLE_BAD_SOCK) or a failure changes nothing but the result.
ConnectStart(s) ==
    /\ pc[s] = "idle"
    /\ \/ /\ ~fd[s]
          /\ fd' = [fd EXCEPT ![s] = TRUE]
          /\ pc' = [pc EXCEPT ![s] =
                       IF port[s] = Unspec THEN "generate" ELSE "bind"]
          /\ auto' = [auto EXCEPT ![s] = port[s] = Unspec]
          /\ result' = [result EXCEPT ![s] = "none"]
       \/ /\ Return(s, "error")
          /\ UNCHANGED <<fd, auto>>
    /\ UNCHANGED <<mapVars, addrVars, loopVars, kernelVars>>

\* Mutant: the loop is left without resetting the port.
GiveUpKeepsPort(s) ==
    /\ pc[s] = "generate"
    /\ ntries[s] = MaxTries
    /\ pc' = [pc EXCEPT ![s] = "release_unbound"]
    /\ UNCHANGED <<mapVars, fd, addrVars, loopVars, histVars, kernelVars>>

\* Head of the loop, attempts spent: the port is unspecified again
\* (_nl_socket_set_local_port_no_release(sk, 0)).
ConnectGiveUp(s) ==
    /\ pc[s] = "generate"
    /\ ntries[s] = MaxTries
    /\ port' = [port EXCEPT ![s] = Unspec]
    /\ own' = [own EXCEPT ![s] = TRUE]
    /\ pc' = [pc EXCEPT ![s] = "release_unbound"]
    /\ UNCHANGED <<mapVars, fd, loopVars, histVars, kernelVars>>

\* Head of the loop: take another port, not releasing the previous one
\* (_nl_socket_set_local_port_no_release(sk, 1)); no port ends the loop.
ConnectGenerate(s) ==
    /\ pc[s] = "generate"
    /\ ntries[s] < MaxTries
    /\ \E p \in GenPorts \cup {Unspec} :
          /\ generate_local_port(p)
          /\ port' = [port EXCEPT ![s] = p]
          /\ own' = [own EXCEPT ![s] = p = Unspec]
          /\ pc' = [pc EXCEPT ![s] =
                IF p = Unspec THEN "release_unbound" ELSE "trybind"]
    /\ ntries' = [ntries EXCEPT ![s] = @ + 1]
    /\ UNCHANGED <<fd, tried, histVars, kernelVars>>

\* bind() inside the loop succeeds.
ConnectTryBindOk(s) ==
    /\ pc[s] = "trybind"
    /\ KernelBind(s, port[s], port[s])
    /\ pc' = [pc EXCEPT ![s] = "release_bound"]
    /\ UNCHANGED <<mapVars, fd, addrVars, loopVars, histVars, foreign>>

\* Mutant: a port in use is given back at once and the attempt not counted.
InUseReleases(s) ==
    /\ pc[s] = "trybind"
    /\ port[s] \in BoundPorts
    /\ ReleasePorts({port[s]})
    /\ port' = [port EXCEPT ![s] = Unspec]
    /\ own' = [own EXCEPT ![s] = TRUE]
    /\ ntries' = [ntries EXCEPT ![s] = @ - 1]
    /\ pc' = [pc EXCEPT ![s] = "generate"]
    /\ UNCHANGED <<fd, tried, histVars, kernelVars>>

\* bind() inside the loop fails with EADDRINUSE: the port is put aside, its
\* bit still set, so that the next attempt takes another one.
ConnectTryBindInUse(s) ==
    /\ pc[s] = "trybind"
    /\ port[s] \in BoundPorts
    /\ tried' = [tried EXCEPT ![s] = @ \cup {port[s]}]
    /\ pc' = [pc EXCEPT ![s] = "generate"]
    /\ UNCHANGED <<mapVars, fd, addrVars, ntries, histVars, kernelVars>>

\* bind() inside the loop fails with another error.
ConnectTryBindError(s) ==
    /\ pc[s] = "trybind"
    /\ pc' = [pc EXCEPT ![s] = "abandon"]
    /\ UNCHANGED <<mapVars, fd, addrVars, loopVars, histVars, kernelVars>>

\* Release of the ports put aside, then errout: the port of the last
\* attempt stays with the socket.
ConnectAbandon(s) ==
    /\ pc[s] = "abandon"
    /\ ReleasePorts(tried[s])
    /\ tried' = [tried EXCEPT ![s] = {}]
    /\ ntries' = [ntries EXCEPT ![s] = 0]
    /\ KernelClose(s)
    /\ Return(s, "error")
    /\ UNCHANGED <<addrVars, auto, foreign>>

\* After the loop: release of the ports put aside.
ConnectRelease(s) ==
    /\ pc[s] \in {"release_bound", "release_unbound"}
    /\ ReleasePorts(tried[s])
    /\ tried' = [tried EXCEPT ![s] = {}]
    /\ ntries' = [ntries EXCEPT ![s] = 0]
    /\ pc' = [pc EXCEPT ![s] =
                 IF pc[s] = "release_bound" THEN "getname" ELSE "bind"]
    /\ UNCHANGED <<fd, addrVars, histVars, kernelVars>>

\* bind() with the port the socket has, when the loop did not bind: the
\* user's port, UINT32_MAX, a port kept from before, or unspecified.
ConnectBind(s) ==
    /\ pc[s] = "bind"
    /\ \/ /\ \E q \in NonZeroPorts : KernelBind(s, port[s], q)
          /\ pc' = [pc EXCEPT ![s] = "getname"]
          /\ UNCHANGED <<fd, result>>
       \/ /\ port[s] \in BoundPorts \ {Unspec}
          /\ KernelClose(s)
          /\ Return(s, "inuse")
       \/ /\ KernelClose(s)
          /\ Return(s, "error")
    /\ UNCHANGED <<mapVars, addrVars, loopVars, auto, foreign>>

\* Mutant: the address the kernel reports is not stored in the socket.
GetnameKeepsPort(s) ==
    /\ pc[s] = "getname"
    /\ Return(s, "ok")
    /\ UNCHANGED <<mapVars, fd, addrVars, loopVars, auto, kernelVars>>

\* getsockname(); a port the kernel chose replaces the socket's own.
ConnectGetname(s) ==
    /\ pc[s] = "getname"
    /\ \/ /\ IF port[s] = bound[s]
                THEN UNCHANGED <<mapVars, own>>
                ELSE /\ ReleaseOwnedPort(s)
                     /\ own' = [own EXCEPT ![s] = TRUE]
          /\ port' = [port EXCEPT ![s] = bound[s]]
          /\ Return(s, "ok")
          /\ UNCHANGED <<fd, bound>>
       \/ /\ KernelClose(s)
          /\ Return(s, "error")
          /\ UNCHANGED <<mapVars, addrVars>>
    /\ UNCHANGED <<loopVars, auto, foreign>>

-----------------------------------------------------------------------------
(* Descriptors of other processes, and of this process outside libnl.      *)

ForeignBind(p) ==
    /\ p \in NonZeroPorts \ BoundPorts
    /\ foreign' = foreign \cup {p}
    /\ UNCHANGED <<mapVars, fd, addrVars, pc, loopVars, histVars, bound>>

ForeignClose(p) ==
    /\ p \in foreign
    /\ foreign' = foreign \ {p}
    /\ UNCHANGED <<mapVars, fd, addrVars, pc, loopVars, histVars, bound>>

-----------------------------------------------------------------------------
ConnectStep(s) ==
    \/ ConnectGiveUp(s)
    \/ ConnectGenerate(s)
    \/ ConnectTryBindOk(s)
    \/ ConnectTryBindInUse(s)
    \/ ConnectTryBindError(s)
    \/ ConnectAbandon(s)
    \/ ConnectRelease(s)
    \/ ConnectBind(s)
    \/ ConnectGetname(s)

SocketStep(s) ==
    \/ nl_socket_alloc(s)
    \/ nl_socket_free(s)
    \/ nl_close(s)
    \/ nl_socket_get_local_port(s)
    \/ \E p \in AllPorts : nl_socket_set_local_port(s, p)
    \/ \E p \in AllPorts : nl_socket_set_fd(s, p)
    \/ ConnectStart(s)
    \/ ConnectStep(s)

Next ==
    \/ \E s \in Sockets : SocketStep(s)
    \/ \E p \in NonZeroPorts : ForeignBind(p) \/ ForeignClose(p)

\* A thread inside nl_connect keeps running: nothing in the loop blocks
\* (the lock is held for a bounded loop, bind() does not wait).
Fairness == \A s \in Sockets : WF_vars(ConnectStep(s))

Spec == Init /\ [][Next]_vars /\ Fairness

-----------------------------------------------------------------------------
(* Properties.                                                             *)

\* The ports socket s is accountable for: its own generated port and the
\* ports its running nl_connect has put aside.
Held(s) == tried[s] \cup (IF own[s] THEN {} ELSE {port[s]})

\* The BUG_ON checks of release_local_port() and of
\* _nl_socket_used_ports_release_all() never fire: in every interleaving, a
\* bit is released only by who holds it, and only once.
BugFree == ~bug

\* No bit of used_ports_map leaks and none is cleared under its holder: the
\* set bits are exactly the ports some socket still has to release, through
\* every error return of nl_connect.
PortsAccounted == used = UNION {Held(s) : s \in Sockets}

\* Two sockets never hold the same generated port, also while a connect is
\* retrying: generate_local_port() hands out a bit to one thread only.
PortsExclusive ==
    \A s, t \in Sockets : s # t => Held(s) \cap Held(t) = {}

\* A connect that began with an unspecified port never fails because ports
\* are in use: after the attempts the kernel chooses the port.
AutoConnectNeverInUse ==
    \A s \in Sockets : auto[s] => result[s] # "inuse"

\* When nl_connect() returns success the socket is open and s_local is the
\* address the kernel bound, whoever chose the port: generate_local_port(),
\* the caller, or the kernel after all attempts.
ConnectReturnsBoundAddress ==
    [][\A s \in Sockets :
          pc[s] \in ConnectPCs /\ pc'[s] = "idle" /\ result'[s] = "ok" =>
             /\ fd'[s]
             /\ bound'[s] # Unspec
             /\ port'[s] = bound'[s]]_vars

\* Every nl_connect returns, whatever the other threads and processes do to
\* the ports: the attempts are bounded and nothing waits.
ConnectTerminates ==
    \A s \in Sockets : pc[s] \in ConnectPCs ~> pc[s] = "idle"
=============================================================================
