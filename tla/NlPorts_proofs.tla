--------------------------- MODULE NlPorts_proofs ---------------------------
(***************************************************************************)
(* The ports of used_ports_map are accounted for, in every interleaving of *)
(* any number of sockets.  The inductive invariant adds to the properties  *)
(* of NlPorts where a port may be while nl_connect is running: a port that *)
(* was put aside stays the socket's s_local until the next attempt, which  *)
(* overwrites it without a release.                                        *)
(***************************************************************************)
EXTENDS NlPorts, TLAPS

\* A port that is not the user's or the kernel's came from the map.
OwnedFromMap == \A s \in Sockets : ~own[s] => port[s] \in GenPorts

\* Ports are put aside only while the loop of nl_connect runs.
NothingAside ==
    \A s \in Sockets :
        pc[s] \in {"unalloc", "idle", "bind", "getname"} => tried[s] = {}

\* At the head of the loop the last port has been put aside, so that
\* overwriting it loses nothing; anywhere else it has not, so that releasing
\* the ports put aside does not release it.
AsideOnlyAtHead ==
    \A s \in Sockets :
        ~own[s] => (port[s] \in tried[s] <=> pc[s] = "generate")

\* bind() in the loop is for a port from the map.
TryBindOwned == \A s \in Sockets : pc[s] = "trybind" => ~own[s]

\* A slot without a socket holds nothing.
UnallocHoldsNothing == \A s \in Sockets : pc[s] = "unalloc" => own[s]

\* A connect that began with an unspecified port leaves the loop unbound
\* only with an unspecified port.
AutoUnspecified ==
    \A s \in Sockets :
        /\ pc[s] = "release_unbound" => port[s] = Unspec
        /\ pc[s] = "bind" /\ auto[s] => port[s] = Unspec

\* What nl_connect knows of its descriptor.
DescriptorOpen ==
    \A s \in Sockets :
        /\ pc[s] \in ConnectPCs => fd[s]
        /\ pc[s] \in {"release_bound", "getname"} => bound[s] # Unspec

Partition ==
    /\ \A s \in Sockets : Held(s) \subseteq used
    /\ \A p \in used : \E s \in Sockets : p \in Held(s)
    /\ PortsExclusive

ConnectInv ==
    /\ OwnedFromMap
    /\ NothingAside
    /\ AsideOnlyAtHead
    /\ TryBindOwned
    /\ UnallocHoldsNothing
    /\ AutoUnspecified
    /\ AutoConnectNeverInUse
    /\ DescriptorOpen

IInv == TypeOK /\ BugFree /\ Partition /\ ConnectInv

-----------------------------------------------------------------------------
\* The three parts of Partition say exactly that the set bits are the ports
\* the sockets hold.
LEMMA PartitionAccounted == Partition => PortsAccounted
  BY DEF Partition, PortsAccounted

\* A step that touches what one socket holds keeps the partition if the map
\* changes by the same difference and what the socket gains was free.
LEMMA HeldStep ==
    ASSUME Partition, NEW s \in Sockets,
           \A t \in Sockets \ {s} : Held(t)' = Held(t),
           used' = (used \ Held(s)) \cup Held(s)',
           (Held(s)' \ Held(s)) \cap used = {}
    PROVE  Partition'
  <1>1. \A t \in Sockets : (Held(t) \subseteq used)'
    BY DEF Partition, PortsExclusive
  <1>2. ASSUME NEW p \in used' PROVE \E t \in Sockets : p \in Held(t)'
    <2>1. CASE p \in Held(s)'
      BY <2>1
    <2>2. CASE p \in used \ Held(s)
      <3>1. PICK t \in Sockets : p \in Held(t)
        BY <2>2 DEF Partition
      <3> QED BY <3>1, <2>2
    <2> QED BY <1>2, <2>1, <2>2
  <1>3. ASSUME NEW t \in Sockets, NEW u \in Sockets, t # u
        PROVE  Held(t)' \cap Held(u)' = {}
    <2>1. CASE t # s /\ u # s
      BY <1>3, <2>1 DEF Partition, PortsExclusive
    <2>2. CASE t = s
      BY <1>3, <2>2 DEF Partition, PortsExclusive
    <2>3. CASE u = s
      BY <1>3, <2>3 DEF Partition, PortsExclusive
    <2> QED BY <2>1, <2>2, <2>3
  <1> QED BY <1>1, <1>2, <1>3 DEF Partition, PortsExclusive

\* A step that changes neither the map nor what a socket holds.
LEMMA HeldFrame ==
    ASSUME Partition, UNCHANGED used, \A t \in Sockets : Held(t)' = Held(t)
    PROVE  Partition'
  BY DEF Partition, PortsExclusive

\* The initial state holds no port.
LEMMA InitIInv == Init => IInv
  <1> SUFFICES ASSUME Init PROVE IInv
    OBVIOUS
  <1>1. TypeOK
    <2>1. port \in [Sockets -> AllPorts] /\ bound \in [Sockets -> AllPorts]
      BY DEF Init, AllPorts
    <2>2. ntries \in [Sockets -> 0..MaxTries]
      BY MaxTriesAssumption DEF Init
    <2>3. used \subseteq GenPorts /\ foreign \subseteq NonZeroPorts
      BY DEF Init
    <2> QED BY <2>1, <2>2, <2>3 DEF Init, TypeOK
  <1>2. \A s \in Sockets : Held(s) = {}
    BY DEF Init, Held
  <1>3. Partition
    BY <1>2 DEF Init, Partition, PortsExclusive
  <1>4. ConnectInv
    BY DEF Init, ConnectInv, OwnedFromMap, NothingAside, AsideOnlyAtHead,
           TryBindOwned, UnallocHoldsNothing, AutoUnspecified,
           AutoConnectNeverInUse, DescriptorOpen, ConnectPCs
  <1> QED BY <1>1, <1>3, <1>4 DEF Init, IInv, BugFree

-----------------------------------------------------------------------------
(* One lemma per operation: it keeps the invariant.                        *)

\* A fresh socket holds nothing.
LEMMA AllocKeeps ==
    ASSUME IInv, NEW s \in Sockets, nl_socket_alloc(s)
    PROVE  IInv'
  <1> USE DEF IInv, nl_socket_alloc, mapVars, addrVars, loopVars, histVars,
              kernelVars
  <1>1. TypeOK'
    BY PortsAssumption DEF TypeOK, AllPorts, NonZeroPorts, ConnectPCs
  <1>2. \A t \in Sockets : Held(t)' = Held(t)
    BY DEF TypeOK, Held, ConnectInv, UnallocHoldsNothing, AsideOnlyAtHead
  <1>3. Partition'
    BY <1>2, HeldFrame
  <1>4. ConnectInv'
    BY PortsAssumption
       DEF TypeOK, ConnectInv, OwnedFromMap, NothingAside,
           AsideOnlyAtHead, TryBindOwned, UnallocHoldsNothing,
           AutoUnspecified, AutoConnectNeverInUse, DescriptorOpen, ConnectPCs
  <1> QED BY <1>1, <1>3, <1>4 DEF BugFree

\* nl_socket_free() gives back the port the socket took.
LEMMA FreeKeeps ==
    ASSUME IInv, NEW s \in Sockets, nl_socket_free(s)
    PROVE  IInv'
  <1> USE DEF IInv, nl_socket_free, KernelClose, ReleaseOwnedPort, ReleasePorts,
              mapVars, addrVars, loopVars, histVars, kernelVars
  <1>1. TypeOK'
    BY PortsAssumption DEF TypeOK, AllPorts, NonZeroPorts, ConnectPCs
  <1>2. tried[s] = {} /\ (own[s] \/ port[s] \in used)
    BY DEF ConnectInv, NothingAside, AsideOnlyAtHead, OwnedFromMap,
           Partition, Held
  <1>3. \A t \in Sockets \ {s} : Held(t)' = Held(t)
    BY DEF TypeOK, Held
  <1>4. Held(s)' = {}
    BY <1>2, PortsAssumption DEF TypeOK, Held
  <1>5. used' = (used \ Held(s)) \cup Held(s)' /\ BugFree'
    BY <1>2, <1>4 DEF Held, BugFree
  <1>6. Partition'
    BY <1>2, <1>3, <1>4, <1>5, HeldStep DEF Held
  <1>7. ConnectInv'
    BY <1>2, PortsAssumption
       DEF TypeOK, ConnectInv, OwnedFromMap, NothingAside,
           AsideOnlyAtHead, TryBindOwned, UnallocHoldsNothing,
           AutoUnspecified, AutoConnectNeverInUse, DescriptorOpen, ConnectPCs
  <1> QED BY <1>1, <1>5, <1>6, <1>7

\* nl_close() keeps the port.
LEMMA CloseKeeps ==
    ASSUME IInv, NEW s \in Sockets, nl_close(s)
    PROVE  IInv'
  <1> USE DEF IInv, nl_close, KernelClose, mapVars, addrVars, loopVars, histVars,
              kernelVars
  <1>1. TypeOK'
    BY PortsAssumption DEF TypeOK, AllPorts, NonZeroPorts, ConnectPCs
  <1>2. \A t \in Sockets : Held(t)' = Held(t)
    BY DEF TypeOK, Held, ConnectInv, UnallocHoldsNothing, AsideOnlyAtHead
  <1>3. Partition'
    BY <1>2, HeldFrame
  <1>4. ConnectInv'
    BY PortsAssumption
       DEF TypeOK, ConnectInv, OwnedFromMap, NothingAside,
           AsideOnlyAtHead, TryBindOwned, UnallocHoldsNothing,
           AutoUnspecified, AutoConnectNeverInUse, DescriptorOpen, ConnectPCs
  <1> QED BY <1>1, <1>3, <1>4 DEF BugFree

\* nl_socket_set_local_port() gives back a generated port.
LEMMA SetPortKeeps ==
    ASSUME IInv, NEW s \in Sockets, NEW p \in AllPorts, nl_socket_set_local_port(s, p)
    PROVE  IInv'
  <1> USE DEF IInv, nl_socket_set_local_port, ReleaseOwnedPort, ReleasePorts,
              mapVars, addrVars, loopVars, histVars, kernelVars
  <1>1. TypeOK'
    BY PortsAssumption DEF TypeOK, AllPorts, NonZeroPorts, ConnectPCs
  <1>2. tried[s] = {} /\ (own[s] \/ port[s] \in used)
    BY DEF ConnectInv, NothingAside, AsideOnlyAtHead, OwnedFromMap,
           Partition, Held
  <1>3. \A t \in Sockets \ {s} : Held(t)' = Held(t)
    BY DEF TypeOK, Held
  <1>4. Held(s)' = {}
    BY <1>2, PortsAssumption DEF TypeOK, Held
  <1>5. used' = (used \ Held(s)) \cup Held(s)' /\ BugFree'
    BY <1>2, <1>4 DEF Held, BugFree
  <1>6. Partition'
    BY <1>2, <1>3, <1>4, <1>5, HeldStep DEF Held
  <1>7. ConnectInv'
    BY <1>2, PortsAssumption
       DEF TypeOK, ConnectInv, OwnedFromMap, NothingAside,
           AsideOnlyAtHead, TryBindOwned, UnallocHoldsNothing,
           AutoUnspecified, AutoConnectNeverInUse, DescriptorOpen, ConnectPCs
  <1> QED BY <1>1, <1>5, <1>6, <1>7

\* nl_socket_set_fd() gives back a generated port.
LEMMA SetFdKeeps ==
    ASSUME IInv, NEW s \in Sockets, NEW p \in AllPorts, nl_socket_set_fd(s, p)
    PROVE  IInv'
  <1> USE DEF IInv, nl_socket_set_fd, ReleaseOwnedPort, ReleasePorts, mapVars,
              addrVars, loopVars, histVars, kernelVars
  <1>1. TypeOK'
    BY PortsAssumption DEF TypeOK, AllPorts, NonZeroPorts, ConnectPCs
  <1>2. tried[s] = {} /\ (own[s] \/ port[s] \in used)
    BY DEF ConnectInv, NothingAside, AsideOnlyAtHead, OwnedFromMap,
           Partition, Held
  <1>3. \A t \in Sockets \ {s} : Held(t)' = Held(t)
    BY DEF TypeOK, Held
  <1>4. Held(s)' = {}
    BY <1>2, PortsAssumption DEF TypeOK, Held
  <1>5. used' = (used \ Held(s)) \cup Held(s)' /\ BugFree'
    BY <1>2, <1>4 DEF Held, BugFree
  <1>6. Partition'
    BY <1>2, <1>3, <1>4, <1>5, HeldStep DEF Held
  <1>7. ConnectInv'
    BY <1>2, PortsAssumption
       DEF TypeOK, ConnectInv, OwnedFromMap, NothingAside,
           AsideOnlyAtHead, TryBindOwned, UnallocHoldsNothing,
           AutoUnspecified, AutoConnectNeverInUse, DescriptorOpen, ConnectPCs
  <1> QED BY <1>1, <1>5, <1>6, <1>7

\* nl_connect() up to its loop takes no port.
LEMMA StartKeeps ==
    ASSUME IInv, NEW s \in Sockets, ConnectStart(s)
    PROVE  IInv'
  <1> USE DEF IInv, ConnectStart, Return, mapVars, addrVars, loopVars, histVars,
              kernelVars
  <1>1. TypeOK'
    BY PortsAssumption DEF TypeOK, AllPorts, NonZeroPorts, ConnectPCs
  <1>2. \A t \in Sockets : Held(t)' = Held(t)
    BY DEF TypeOK, Held, ConnectInv, UnallocHoldsNothing, AsideOnlyAtHead
  <1>3. Partition'
    BY <1>2, HeldFrame
  <1>4. ConnectInv'
    BY PortsAssumption
       DEF TypeOK, ConnectInv, OwnedFromMap, NothingAside,
           AsideOnlyAtHead, TryBindOwned, UnallocHoldsNothing,
           AutoUnspecified, AutoConnectNeverInUse, DescriptorOpen, ConnectPCs
  <1> QED BY <1>1, <1>3, <1>4 DEF BugFree

\* Giving up drops a port that has been put aside already.
LEMMA GiveUpKeeps ==
    ASSUME IInv, NEW s \in Sockets, ConnectGiveUp(s)
    PROVE  IInv'
  <1> USE DEF IInv, ConnectGiveUp, mapVars, addrVars, loopVars, histVars,
              kernelVars
  <1>1. TypeOK'
    BY PortsAssumption DEF TypeOK, AllPorts, NonZeroPorts, ConnectPCs
  <1>2. \A t \in Sockets : Held(t)' = Held(t)
    BY DEF TypeOK, Held, ConnectInv, UnallocHoldsNothing, AsideOnlyAtHead
  <1>3. Partition'
    BY <1>2, HeldFrame
  <1>4. ConnectInv'
    BY PortsAssumption
       DEF TypeOK, ConnectInv, OwnedFromMap, NothingAside,
           AsideOnlyAtHead, TryBindOwned, UnallocHoldsNothing,
           AutoUnspecified, AutoConnectNeverInUse, DescriptorOpen, ConnectPCs
  <1> QED BY <1>1, <1>3, <1>4 DEF BugFree

\* A successful bind() keeps the port.
LEMMA TryBindOkKeeps ==
    ASSUME IInv, NEW s \in Sockets, ConnectTryBindOk(s)
    PROVE  IInv'
  <1> USE DEF IInv, ConnectTryBindOk, KernelBind, mapVars, addrVars, loopVars,
              histVars, kernelVars
  <1>1. TypeOK'
    BY PortsAssumption DEF TypeOK, AllPorts, NonZeroPorts, ConnectPCs
  <1>2. \A t \in Sockets : Held(t)' = Held(t)
    BY DEF TypeOK, Held, ConnectInv, UnallocHoldsNothing, AsideOnlyAtHead
  <1>3. Partition'
    BY <1>2, HeldFrame
  <1>4. ConnectInv'
    BY PortsAssumption
       DEF TypeOK, ConnectInv, OwnedFromMap, NothingAside,
           AsideOnlyAtHead, TryBindOwned, UnallocHoldsNothing,
           AutoUnspecified, AutoConnectNeverInUse, DescriptorOpen, ConnectPCs
  <1> QED BY <1>1, <1>3, <1>4 DEF BugFree

\* A port in use is put aside, still held.
LEMMA TryBindInUseKeeps ==
    ASSUME IInv, NEW s \in Sockets, ConnectTryBindInUse(s)
    PROVE  IInv'
  <1> USE DEF IInv, ConnectTryBindInUse, mapVars, addrVars, loopVars, histVars,
              kernelVars
  <1>0. ~own[s] /\ port[s] \in GenPorts
    BY DEF ConnectInv, TryBindOwned, OwnedFromMap
  <1>1. TypeOK'
    BY <1>0 DEF TypeOK, ConnectPCs
  <1>2. \A t \in Sockets : Held(t)' = Held(t)
    BY <1>0 DEF TypeOK, Held
  <1>3. Partition'
    BY <1>2, HeldFrame
  <1>4. ConnectInv'
    BY <1>0, PortsAssumption
       DEF TypeOK, ConnectInv, OwnedFromMap, NothingAside,
           AsideOnlyAtHead, TryBindOwned, UnallocHoldsNothing,
           AutoUnspecified, AutoConnectNeverInUse, DescriptorOpen, ConnectPCs
  <1> QED BY <1>1, <1>3, <1>4 DEF BugFree

\* A failed bind() keeps the port.
LEMMA TryBindErrorKeeps ==
    ASSUME IInv, NEW s \in Sockets, ConnectTryBindError(s)
    PROVE  IInv'
  <1> USE DEF IInv, ConnectTryBindError, mapVars, addrVars, loopVars, histVars,
              kernelVars
  <1>1. TypeOK'
    BY PortsAssumption DEF TypeOK, AllPorts, NonZeroPorts, ConnectPCs
  <1>2. \A t \in Sockets : Held(t)' = Held(t)
    BY DEF TypeOK, Held, ConnectInv, UnallocHoldsNothing, AsideOnlyAtHead
  <1>3. Partition'
    BY <1>2, HeldFrame
  <1>4. ConnectInv'
    BY PortsAssumption
       DEF TypeOK, ConnectInv, OwnedFromMap, NothingAside,
           AsideOnlyAtHead, TryBindOwned, UnallocHoldsNothing,
           AutoUnspecified, AutoConnectNeverInUse, DescriptorOpen, ConnectPCs
  <1> QED BY <1>1, <1>3, <1>4 DEF BugFree

\* Abandoning releases the ports put aside, not the last one.
LEMMA AbandonKeeps ==
    ASSUME IInv, NEW s \in Sockets, ConnectAbandon(s)
    PROVE  IInv'
  <1> USE DEF IInv, ConnectAbandon, KernelClose, Return, ReleasePorts, mapVars,
              addrVars, loopVars, histVars, kernelVars
  <1>1. TypeOK'
    BY PortsAssumption, MaxTriesAssumption DEF TypeOK, AllPorts, NonZeroPorts, ConnectPCs
  <1>2. Held(s) \subseteq used /\ (own[s] \/ port[s] \notin tried[s])
    BY DEF ConnectInv, NothingAside, AsideOnlyAtHead, OwnedFromMap,
           Partition, Held
  <1>3. \A t \in Sockets \ {s} : Held(t)' = Held(t)
    BY DEF TypeOK, Held
  <1>4. Held(s)' = Held(s) \ tried[s]
    BY <1>2, PortsAssumption DEF TypeOK, Held
  <1>5. used' = (used \ Held(s)) \cup Held(s)' /\ BugFree'
    BY <1>2, <1>4 DEF Held, BugFree
  <1>6. Partition'
    BY <1>2, <1>3, <1>4, <1>5, HeldStep DEF Held
  <1>7. ConnectInv'
    BY <1>2, PortsAssumption
       DEF TypeOK, ConnectInv, OwnedFromMap, NothingAside,
           AsideOnlyAtHead, TryBindOwned, UnallocHoldsNothing,
           AutoUnspecified, AutoConnectNeverInUse, DescriptorOpen, ConnectPCs
  <1> QED BY <1>1, <1>5, <1>6, <1>7

\* The release after the loop spares the port that was bound.
LEMMA ReleaseKeeps ==
    ASSUME IInv, NEW s \in Sockets, ConnectRelease(s)
    PROVE  IInv'
  <1> USE DEF IInv, ConnectRelease, ReleasePorts, mapVars, addrVars, loopVars,
              histVars, kernelVars
  <1>1. TypeOK'
    BY PortsAssumption, MaxTriesAssumption DEF TypeOK, AllPorts, NonZeroPorts, ConnectPCs
  <1>2. Held(s) \subseteq used /\ (own[s] \/ port[s] \notin tried[s])
    BY DEF ConnectInv, NothingAside, AsideOnlyAtHead, OwnedFromMap,
           Partition, Held
  <1>3. \A t \in Sockets \ {s} : Held(t)' = Held(t)
    BY DEF TypeOK, Held
  <1>4. Held(s)' = Held(s) \ tried[s]
    BY <1>2, PortsAssumption DEF TypeOK, Held
  <1>5. used' = (used \ Held(s)) \cup Held(s)' /\ BugFree'
    BY <1>2, <1>4 DEF Held, BugFree
  <1>6. Partition'
    BY <1>2, <1>3, <1>4, <1>5, HeldStep DEF Held
  <1>7. ConnectInv'
    BY <1>2, PortsAssumption
       DEF TypeOK, ConnectInv, OwnedFromMap, NothingAside,
           AsideOnlyAtHead, TryBindOwned, UnallocHoldsNothing,
           AutoUnspecified, AutoConnectNeverInUse, DescriptorOpen, ConnectPCs
  <1> QED BY <1>1, <1>5, <1>6, <1>7

\* bind() after the loop touches no port of the map.
LEMMA BindKeeps ==
    ASSUME IInv, NEW s \in Sockets, ConnectBind(s)
    PROVE  IInv'
  <1> USE DEF IInv, ConnectBind, KernelBind, KernelClose, Return, mapVars, addrVars,
              loopVars, histVars, kernelVars
  <1>0. PICK q \in AllPorts :
           /\ bound' = [bound EXCEPT ![s] = q]
           /\ pc'[s] = "getname" => q # Unspec
    BY PortsAssumption DEF AllPorts, NonZeroPorts, TypeOK
  <1>1. TypeOK'
    BY <1>0 DEF TypeOK, ConnectPCs
  <1>2. \A t \in Sockets : Held(t)' = Held(t)
    BY DEF TypeOK, Held, ConnectInv, UnallocHoldsNothing, AsideOnlyAtHead
  <1>3. Partition'
    BY <1>2, HeldFrame
  <1>4. ConnectInv'
    BY <1>0, PortsAssumption
       DEF TypeOK, ConnectInv, OwnedFromMap, NothingAside,
           AsideOnlyAtHead, TryBindOwned, UnallocHoldsNothing,
           AutoUnspecified, AutoConnectNeverInUse, DescriptorOpen, ConnectPCs
  <1> QED BY <1>1, <1>3, <1>4 DEF BugFree


\* What generate_local_port() returns was free, and is the only bit it sets.
LEMMA GenerateTakesFree ==
    ASSUME TypeOK, NEW p \in GenPorts \cup {Unspec}, generate_local_port(p)
    PROVE  /\ used' = used \cup ({p} \ {Unspec})
           /\ p \notin used
           /\ used' \subseteq GenPorts
           /\ bug' = bug
  BY PortsAssumption DEF generate_local_port, TypeOK

\* nl_socket_get_local_port() takes a port, or UINT32_MAX outside the map.
LEMMA GetPortKeeps ==
    ASSUME IInv, NEW s \in Sockets, nl_socket_get_local_port(s)
    PROVE  IInv'
  <1> USE DEF IInv, nl_socket_get_local_port, loopVars, histVars, kernelVars
  <1>1. PICK p \in GenPorts \cup {Unspec} :
           /\ generate_local_port(p)
           /\ port' = [port EXCEPT ![s] = IF p = Unspec THEN MaxPort ELSE p]
           /\ own' = [own EXCEPT ![s] = p = Unspec]
    OBVIOUS
  <1>2. /\ used' = used \cup ({p} \ {Unspec}) /\ p \notin used
        /\ used' \subseteq GenPorts /\ bug' = bug
    BY <1>1, GenerateTakesFree
  <1>3. own[s] /\ tried[s] = {}
    BY PortsAssumption DEF ConnectInv, OwnedFromMap, NothingAside
  <1>4. TypeOK'
    BY <1>1, <1>2, PortsAssumption DEF TypeOK, AllPorts, NonZeroPorts
  <1>5. \A t \in Sockets \ {s} : Held(t)' = Held(t)
    BY <1>1 DEF TypeOK, Held
  <1>6. Held(s) = {} /\ Held(s)' = {p} \ {Unspec}
    BY <1>1, <1>3, PortsAssumption DEF TypeOK, Held
  <1>7. Partition'
    BY <1>2, <1>5, <1>6, HeldStep
  <1>8. ConnectInv'
    BY <1>1, <1>3, PortsAssumption
       DEF TypeOK, ConnectInv, OwnedFromMap, NothingAside,
           AsideOnlyAtHead, TryBindOwned, UnallocHoldsNothing,
           AutoUnspecified, AutoConnectNeverInUse, DescriptorOpen, ConnectPCs
  <1> QED BY <1>2, <1>4, <1>7, <1>8 DEF BugFree

\* An attempt takes a port; the one it overwrites has been put aside.
LEMMA GenerateKeeps ==
    ASSUME IInv, NEW s \in Sockets, ConnectGenerate(s)
    PROVE  IInv'
  <1> USE DEF IInv, ConnectGenerate, histVars, kernelVars
  <1>1. PICK p \in GenPorts \cup {Unspec} :
           /\ generate_local_port(p)
           /\ port' = [port EXCEPT ![s] = p]
           /\ own' = [own EXCEPT ![s] = p = Unspec]
           /\ pc' = [pc EXCEPT ![s] =
                 IF p = Unspec THEN "release_unbound" ELSE "trybind"]
    OBVIOUS
  <1>2. /\ used' = used \cup ({p} \ {Unspec}) /\ p \notin used
        /\ used' \subseteq GenPorts /\ bug' = bug
    BY <1>1, GenerateTakesFree
  <1>3. /\ own[s] \/ port[s] \in tried[s]
        /\ tried[s] \subseteq used
        /\ p \notin tried[s]
    BY <1>2 DEF ConnectInv, AsideOnlyAtHead, Partition, Held
  <1>4. TypeOK'
    BY <1>1, <1>2, MaxTriesAssumption
       DEF TypeOK, AllPorts, NonZeroPorts, ConnectPCs
  <1>5. \A t \in Sockets \ {s} : Held(t)' = Held(t)
    BY <1>1 DEF TypeOK, Held
  <1>6. Held(s) = tried[s] /\ Held(s)' = tried[s] \cup ({p} \ {Unspec})
    <2>1. Held(s) = tried[s]
      BY <1>3 DEF Held
    <2>2. /\ own'[s] <=> p = Unspec
          /\ port'[s] = p
          /\ tried' = tried
      BY <1>1 DEF TypeOK
    <2> QED BY <2>1, <2>2, PortsAssumption DEF Held
  <1>7. Partition'
    BY <1>2, <1>3, <1>5, <1>6, HeldStep
  <1>8. ConnectInv'
    <2> HIDE DEF ConnectGenerate
    <2>1. UNCHANGED <<fd, tried, auto, result, bound>> /\ pc[s] = "generate"
      BY DEF ConnectGenerate
    <2>2. /\ p \in GenPorts => port'[s] \in GenPorts /\ ~own'[s]
          /\ p = Unspec => own'[s]
      BY <1>1, PortsAssumption DEF TypeOK
    <2> QED BY <1>1, <1>3, <2>1, <2>2, PortsAssumption
       DEF TypeOK, ConnectInv, OwnedFromMap, NothingAside,
           AsideOnlyAtHead, TryBindOwned, UnallocHoldsNothing,
           AutoUnspecified, AutoConnectNeverInUse, DescriptorOpen, ConnectPCs
  <1> QED BY <1>2, <1>4, <1>7, <1>8 DEF BugFree

\* getsockname(): the port is given back if the kernel's is another one.
LEMMA GetnameKeeps ==
    ASSUME IInv, NEW s \in Sockets, ConnectGetname(s)
    PROVE  IInv'
  <1> USE DEF IInv, Return, mapVars, addrVars, loopVars
  <1>1. tried[s] = {} /\ (own[s] \/ port[s] \in used)
    BY DEF ConnectGetname, ConnectInv, NothingAside, Partition, Held
  <1>2. CASE port[s] = bound[s] \/ result'[s] # "ok"
    <2>1. /\ UNCHANGED <<used, bug, port, own, tried, ntries, auto, foreign>>
          /\ UNCHANGED <<fd, bound>> \/ KernelClose(s)
          /\ pc' = [pc EXCEPT ![s] = "idle"]
          /\ \E r \in {"ok", "error"} : result' = [result EXCEPT ![s] = r]
      BY <1>2 DEF ConnectGetname, TypeOK
    <2>2. TypeOK'
      BY <2>1 DEF TypeOK, KernelClose, AllPorts
    <2>3. Partition'
      BY <2>1, HeldFrame DEF Held
    <2>4. ConnectInv'
      BY <1>1, <2>1, PortsAssumption
       DEF TypeOK, KernelClose, ConnectInv, OwnedFromMap, NothingAside,
           AsideOnlyAtHead, TryBindOwned, UnallocHoldsNothing,
           AutoUnspecified, AutoConnectNeverInUse, DescriptorOpen, ConnectPCs
    <2> QED BY <2>1, <2>2, <2>3, <2>4 DEF BugFree
  <1>3. CASE port[s] # bound[s] /\ result'[s] = "ok"
    <2>1. /\ ReleaseOwnedPort(s)
          /\ own' = [own EXCEPT ![s] = TRUE]
          /\ port' = [port EXCEPT ![s] = bound[s]]
          /\ pc' = [pc EXCEPT ![s] = "idle"]
          /\ result' = [result EXCEPT ![s] = "ok"]
          /\ UNCHANGED <<fd, bound, tried, ntries, auto, foreign>>
      BY <1>3 DEF ConnectGetname, TypeOK
    <2>2. TypeOK'
      BY <2>1 DEF TypeOK, ReleaseOwnedPort, ReleasePorts
    <2>3. Held(s)' = {} /\ \A t \in Sockets \ {s} : Held(t)' = Held(t)
      BY <1>1, <2>1 DEF TypeOK, Held
    <2>4. used' = used \ Held(s) /\ BugFree'
      BY <1>1, <2>1 DEF ReleaseOwnedPort, ReleasePorts, Held, BugFree
    <2>5. Partition'
      BY <2>3, <2>4, HeldStep
    <2>6. ConnectInv'
      BY <1>1, <2>1, PortsAssumption
       DEF TypeOK, ConnectInv, OwnedFromMap, NothingAside,
           AsideOnlyAtHead, TryBindOwned, UnallocHoldsNothing,
           AutoUnspecified, AutoConnectNeverInUse, DescriptorOpen, ConnectPCs
    <2> QED BY <2>2, <2>4, <2>5, <2>6
  <1> QED BY <1>2, <1>3

\* Descriptors outside libnl do not touch the map.
LEMMA ForeignKeeps ==
    ASSUME IInv, NEW p \in NonZeroPorts, ForeignBind(p) \/ ForeignClose(p)
    PROVE  IInv'
  <1> USE DEF IInv, ForeignBind, ForeignClose, mapVars, addrVars, loopVars,
              histVars
  <1>1. TypeOK'
    BY DEF TypeOK
  <1>2. Partition'
    BY HeldFrame DEF Held
  <1>3. ConnectInv'
    BY
       DEF TypeOK, ConnectInv, OwnedFromMap, NothingAside,
           AsideOnlyAtHead, TryBindOwned, UnallocHoldsNothing,
           AutoUnspecified, AutoConnectNeverInUse, DescriptorOpen, ConnectPCs
  <1> QED BY <1>1, <1>2, <1>3 DEF BugFree

-----------------------------------------------------------------------------
\* Every step keeps the invariant.
LEMMA NextIInv == IInv /\ [Next]_vars => IInv'
  <1> SUFFICES ASSUME IInv, [Next]_vars PROVE IInv'
    OBVIOUS
  <1>1. CASE UNCHANGED vars
    <2>1. Partition'
      BY <1>1, HeldFrame
         DEF IInv, vars, mapVars, addrVars, loopVars, Held
    <2> QED
      BY <1>1, <2>1
         DEF IInv, TypeOK, BugFree, ConnectInv, OwnedFromMap, NothingAside, AsideOnlyAtHead,
           TryBindOwned, UnallocHoldsNothing, AutoUnspecified,
           AutoConnectNeverInUse, DescriptorOpen, ConnectPCs,
             vars, mapVars, addrVars, loopVars, histVars, kernelVars
  <1>2. ASSUME NEW s \in Sockets, SocketStep(s) PROVE IInv'
    <2>1. ASSUME ConnectStep(s) PROVE IInv'
      BY <2>1, GiveUpKeeps, GenerateKeeps, TryBindOkKeeps,
         TryBindInUseKeeps, TryBindErrorKeeps, AbandonKeeps, ReleaseKeeps,
         BindKeeps, GetnameKeeps
         DEF ConnectStep
    <2> QED
      BY <1>2, <2>1, AllocKeeps, FreeKeeps, CloseKeeps, GetPortKeeps,
         SetPortKeeps, SetFdKeeps, StartKeeps
         DEF SocketStep
  <1>3. ASSUME NEW p \in NonZeroPorts, ForeignBind(p) \/ ForeignClose(p)
        PROVE  IInv'
    BY <1>3, ForeignKeeps
  <1> QED BY <1>1, <1>2, <1>3 DEF Next

\* The inductive invariant holds in every reachable state.
THEOREM Invariance == Spec => []IInv
  BY InitIInv, NextIInv, PTL DEF Spec

\* The state of the port map and of the sockets stays well typed.
THEOREM TypeCorrect == Spec => []TypeOK
  <1>1. IInv => TypeOK
    BY DEF IInv
  <1> QED BY <1>1, Invariance, PTL

\* The BUG_ON checks on the port map in lib/socket.c never fire.
THEOREM BugOnNeverFires == Spec => []BugFree
  <1>1. IInv => BugFree
    BY DEF IInv
  <1> QED BY <1>1, Invariance, PTL

\* No bit of the port map leaks, whatever error nl_connect returns with, and
\* none is cleared under the socket that holds it.
THEOREM NoPortLeaks == Spec => []PortsAccounted
  <1>1. IInv => PortsAccounted
    BY PartitionAccounted DEF IInv
  <1> QED BY <1>1, Invariance, PTL

\* generate_local_port() never hands one port to two sockets.
THEOREM PortsNeverShared == Spec => []PortsExclusive
  <1>1. IInv => PortsExclusive
    BY DEF IInv, Partition
  <1> QED BY <1>1, Invariance, PTL

\* nl_connect() with an unspecified port never fails for ports in use.
THEOREM AutoConnectSucceeds == Spec => []AutoConnectNeverInUse
  <1>1. IInv => AutoConnectNeverInUse
    BY DEF IInv, ConnectInv
  <1> QED BY <1>1, Invariance, PTL

\* A successful nl_connect() leaves the address the kernel bound in s_local.
THEOREM ConnectAddress == Spec => ConnectReturnsBoundAddress
  <1>1. ASSUME IInv, [Next]_vars, NEW s \in Sockets,
               pc[s] \in ConnectPCs, pc'[s] = "idle", result'[s] = "ok"
        PROVE  fd'[s] /\ bound'[s] # Unspec /\ port'[s] = bound'[s]
    <2>1. ConnectGetname(s)
      BY <1>1
         DEF IInv, TypeOK, Next, SocketStep, ConnectStep, ConnectPCs,
             nl_socket_alloc, nl_socket_free, nl_close,
             nl_socket_get_local_port, nl_socket_set_local_port,
             nl_socket_set_fd, ConnectStart, ConnectGiveUp,
             ConnectGenerate, ConnectTryBindOk, ConnectTryBindInUse,
             ConnectTryBindError, ConnectAbandon, ConnectRelease,
             ConnectBind, ConnectGetname, ForeignBind, ForeignClose,
             Return, vars
    <2> QED
      BY <1>1, <2>1
         DEF IInv, TypeOK, ConnectInv, DescriptorOpen, ConnectPCs,
             ConnectGetname, Return
  <1>2. IInv /\ [Next]_vars =>
           [\A s \in Sockets :
              pc[s] \in ConnectPCs /\ pc'[s] = "idle" /\ result'[s] = "ok" =>
                 /\ fd'[s]
                 /\ bound'[s] # Unspec
                 /\ port'[s] = bound'[s]]_vars
    BY <1>1
  <1> QED BY <1>2, Invariance, PTL DEF Spec, ConnectReturnsBoundAddress
=============================================================================
