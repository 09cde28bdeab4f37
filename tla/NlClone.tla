------------------------------ MODULE NlClone -------------------------------
(***************************************************************************)
(* Who owns what an object points to.  nl_object_clone() copies an object  *)
(* byte by byte, pointers included, and leaves it to the oo_clone of the   *)
(* type to replace every pointer by a copy of its own; oo_free_data gives  *)
(* back what the pointers of an object refer to, also of a clone whose     *)
(* oo_clone failed half way.  Each object type is a table: the steps of    *)
(* its oo_clone, in order, and the fields its oo_free_data gives back.     *)
(*                                                                         *)
(* What the blocks contain is left out; a list has at most one element,    *)
(* the ports of an mdb group and the actions of a classifier at most two;  *)
(* the fields of a structure that a field points to are fields of the      *)
(* object, within that field.  The counts of the link modules              *)
(* (io_refcnt, ao_refcnt) are not modelled.                                *)
(***************************************************************************)
EXTENDS Integers, Sequences, FiniteSets, FiniteSetsExt, SequencesExt

CONSTANTS
    Objs,       \* objects that may exist at a time
    Types,      \* the object types of this instance, names of Table
    Defective,  \* <<type, field>>: fields no object of this instance has
    FailTypes,  \* types that reset their pointers before they copy: memory
                \* may run out in any step
    Unsafe,     \* <<type, field>>: copies that never fail in this instance
    Shareable,  \* fields that a setter may let point to a block in use
    MaxFields,  \* bound: fields chosen for an object, unless it has all
    MaxShared   \* bound: references to a block taken by setters

NULL == <<>>    \* no block
NoObj == <<>>

-----------------------------------------------------------------------------
(* The steps of an oo_clone for a field f.  All but reset, fail and        *)
(* corrupt only happen if the source has the field.                        *)

Step(op, f) == [op |-> op, f |-> f]

Dup(f)   == Step("dup", f)     \* assign a copy; NULL and an error if there is none
Late(f)  == Step("late", f)    \* the same, but without a copy the structure that
                               \* holds f is freed, with no other list element
Keep(f)  == Step("keep", f)    \* an error too, but only a copy that exists is assigned
Try(f)   == Step("try", f)     \* assign a copy or NULL: the error is not noticed
Crash(f) == Step("crash", f)   \* use a copy without looking whether there is one
Copy(f)  == Step("copy", f)    \* a copy made by memcpy(), its reference count too
Get(f)   == Step("get", f)     \* share the block and count the reference
Free(f)  == Step("free", f)    \* give the block back, the pointer stays
Swap(f)  == Step("swap", f)    \* make a copy, then free what the pointer refers to
Over(f)  == Step("over", f)    \* assign a copy over one made before
Reset(F) == Step("reset", F)   \* pointers set to NULL, lists initialised
Fail     == Step("fail", {})   \* not supported
Corrupt  == Step("corrupt", {})  \* append to a list head copied from the source
Tangle(f) == Step("tangle", f)   \* append to a chain that is the source's

\* The steps that allocate, and may fail.
Allocates(op) == op \in {"dup", "late", "keep", "try", "crash", "copy", "swap", "over"}

-----------------------------------------------------------------------------
(* Routing objects.                                                        *)

neigh == [clone |-> << Dup("lladdr"), Dup("dst") >>,
          frees |-> {"lladdr", "dst"}]

rule == [clone |-> << Dup("src"), Dup("dst") >>, frees |-> {"src", "dst"}]

\* Mutant: the reference to the link is not counted.
AddrWithoutGet ==
    [clone |-> << Dup("peer"), Dup("local"), Dup("bcast"), Dup("multicast"),
                  Dup("anycast") >>,
     frees |-> {"peer", "local", "bcast", "multicast", "anycast", "link"}]

addr ==
    [clone |-> << Get("link"), Dup("peer"), Dup("local"), Dup("bcast"),
                  Dup("multicast"), Dup("anycast") >>,
     frees |-> {"peer", "local", "bcast", "multicast", "anycast", "link"}]

\* rtnl_route_nh_clone() and rtnl_route_nh_free(): the encapsulation is not
\* cloned.
nexthop == [clone |-> << Dup("nh"), Dup("gateway"), Dup("newdst"), Dup("via") >>,
            frees |-> {"nh", "gateway", "newdst", "via", "nh_encap"}]

route ==
    [clone |-> << Dup("dst"), Dup("src"), Dup("pref_src"),
                  Reset(nexthop.frees) >> \o nexthop.clone,
     frees |-> {"dst", "src", "pref_src"} \cup nexthop.frees]

mroute ==
    [clone |-> << Dup("dst"), Dup("src"), Reset(nexthop.frees) >> \o nexthop.clone,
     frees |-> {"dst", "src"} \cup nexthop.frees]

\* Mutant: the ports of a group are not cloned.
MdbWithoutPorts ==
    [clone |-> << Reset({"mrport", "mgrp", "mgrp_addr", "mgport", "mgport2"}),
                  Dup("mrport"), Dup("mgrp"), Dup("mgrp_addr") >>,
     frees |-> {"mrport", "mgrp", "mgrp_addr", "mgport", "mgport2"}]

\* Up to two ports of a group; the group joins its list when it is complete.
mdb == [clone |-> << Reset({"mrport", "mgrp", "mgrp_addr", "mgport", "mgport2"}),
                     Dup("mrport"), Dup("mgrp"), Dup("mgrp_addr"),
                     Late("mgport"), Late("mgport2") >>,
        frees |-> {"mrport", "mgrp", "mgrp_addr", "mgport", "mgport2"}]

\* rtnl_link_sriov_clone(): the structure of the VLANs is copied over the
\* new one, pointer to the array included.
sriov == [clone |-> << Dup("vf_list"), Copy("vf"), Keep("vf_lladdr"),
                       Copy("vf_vlans") >>,
          frees |-> {"vf_list", "vf", "vf_lladdr", "vf_vlans", "vf_vlan_array"}]

\* link_clone() and link_free_data(), without link info (io_clone)
LinkSteps(info) ==
    << Dup("addr"), Dup("bcast"), Dup("ifalias"), Dup("kind"), Dup("slave_kind") >>
    \o info
    \o << Dup("af_data"), Dup("phys_port_id"), Dup("phys_switch_id") >>
    \o sriov.clone

LinkFrees == {"addr", "bcast", "ifalias", "kind", "slave_kind", "af_data",
              "phys_port_id", "phys_switch_id"} \cup sriov.frees

link == [clone |-> LinkSteps(<<>>), frees |-> LinkFrees]

\* rtnl_link_set_type() on the clone, after the link module has set l_info to
\* NULL: the kind is freed, the info allocated and only then the kind set.
set_type == << Free("kind"), Dup("info"), Keep("kind") >>

\* Link modules with a plain structure: vxlan, sit, vrf, ipgre, ipvti, ipip,
\* ip6tnl, macsec, ppp, geneve, xfrmi, ipvlan.
link_plain ==
    [clone |-> LinkSteps(<< Reset({"info"}) >> \o set_type),
     frees |-> LinkFrees \cup {"info"}]

link_vlan ==
    [clone |-> LinkSteps(<< Reset({"info", "egress"}) >> \o set_type
                         \o << Dup("egress") >>),
     frees |-> LinkFrees \cup {"info", "egress"}]

link_macvlan ==
    [clone |-> LinkSteps(<< Reset({"info", "macs", "mac"}) >> \o set_type
                         \o << Crash("macs"), Try("mac") >>),
     frees |-> LinkFrees \cup {"info", "macs", "mac"}]

link_can ==
    [clone |-> LinkSteps(<< Reset({"info"}) >> \o set_type \o << Over("info") >>),
     frees |-> LinkFrees \cup {"info"}]

\* The info of a veth link is its peer.  If the peer cannot be cloned the
\* clone is left with the source's, and frees it; that the peer's pointer back
\* to the source is NULL by then is left out.
link_veth == [clone |-> LinkSteps(<< Keep("info") >>),
              frees |-> LinkFrees \cup {"info"}]

-----------------------------------------------------------------------------
(* Traffic control: qdiscs, classes, classifiers and actions.              *)

\* rtnl_tc_clone() and rtnl_tc_free_data(), with the to_clone and the
\* to_free_data of the kind
TcSteps(to_clone) ==
    << Get("link"), Reset({"opts", "xstats", "subdata"}),
       Dup("opts"), Dup("xstats"), Dup("subdata") >> \o to_clone

TcFrees == {"link", "opts", "xstats", "subdata"}

\* Kinds whose data has no pointers.
tc == [clone |-> TcSteps(<<>>), frees |-> TcFrees]

\* The actions of a classifier: the object is copied with its header, only
\* the first of a chain, and a_next set to NULL last.
ActSteps == << Copy("act"), Dup("act_opts"), Dup("act_xstats"),
               Dup("act_subdata"), Get("act_link"), Reset({"act_next"}) >>
ActFrees == {"act", "act_opts", "act_xstats", "act_subdata", "act_link", "act_next"}

fw == [clone |-> TcSteps(<< Dup("cf_act"), Dup("police") >>),
       frees |-> TcFrees \cup {"cf_act", "police"}]

u32 == [clone |-> TcSteps(<< Dup("selector"), Dup("mark") >> \o ActSteps
                          \o << Dup("police"), Dup("pcnt") >>),
        frees |-> TcFrees \cup ActFrees \cup {"selector", "mark", "police", "pcnt"}]

flower ==
    [clone |-> TcSteps(<< Dup("dst_mac"), Dup("dst_mask"), Dup("src_mac"),
                          Dup("src_mask") >> \o ActSteps \o << Dup("police") >>),
     frees |-> TcFrees \cup ActFrees \cup
               {"police", "dst_mac", "dst_mask", "src_mac", "src_mask"}]

basic == [clone |-> TcSteps(<< Fail >>), frees |-> TcFrees \cup {"b_act", "ematch"}]

\* The copy is made in memory that is forgotten.
cgroup == [clone |-> TcSteps(<<>>), frees |-> TcFrees \cup {"ematch"}]

\* The rest of the chain is cloned and appended behind a_next, as copied.
mall == [clone |-> TcSteps(<< Copy("act"), Tangle("act_next") >>),
         frees |-> TcFrees \cup ActFrees]

netem == [clone |-> TcSteps(<<>>), frees |-> TcFrees \cup {"dist_data"}]

-----------------------------------------------------------------------------
(* Netfilter, XFRM, inet_diag, fib_lookup and generic netlink.             *)

ct == [clone |-> << Keep("orig_src"), Keep("orig_dst"), Keep("repl_src"),
                    Keep("repl_dst") >>,
       frees |-> {"orig_src", "orig_dst", "repl_src", "repl_dst"}]

exp ==
    [clone |-> << Keep("expect_src"), Keep("expect_dst"), Keep("master_src"),
                  Keep("master_dst"), Keep("mask_src"), Keep("mask_dst"),
                  Keep("nat_src"), Keep("nat_dst"), Try("fn"), Try("helper_name") >>,
     frees |-> {"expect_src", "expect_dst", "master_src", "master_dst", "mask_src",
                "mask_dst", "nat_src", "nat_dst", "fn", "helper_name"}]

\* Cloned with the setters, which free what the clone points to.
log_msg == [clone |-> << Free("payload"), Dup("payload"), Free("prefix"),
                         Dup("prefix") >>,
            frees |-> {"payload", "prefix"}]

queue_msg == [clone |-> << Swap("payload") >>, frees |-> {"payload"}]

ae == [clone |-> << Dup("daddr"), Dup("saddr"), Dup("replay_state_esn") >>,
       frees |-> {"daddr", "saddr", "replay_state_esn"}]

\* xfrmnl_sel_clone() with sel_destroy(); the addresses must exist
sel == [clone |-> << Copy("sel"), Try("sel_daddr"), Try("sel_saddr") >>,
        frees |-> {"sel", "sel_daddr", "sel_saddr"}]

\* xfrmnl_user_tmpl_clone() and xfrmnl_user_tmpl_free()
user_tmpl == [clone |-> << Dup("tmpl"), Try("tmpl_daddr"), Try("tmpl_saddr") >>,
              frees |-> {"tmpl", "tmpl_daddr", "tmpl_saddr"}]

\* Copy("lft") is xfrmnl_ltime_cfg_clone().
sa ==
    [clone |-> sel.clone \o
               << Copy("lft"), Dup("daddr"), Dup("saddr"), Dup("aead"), Dup("auth"),
                  Dup("crypt"), Dup("comp"), Dup("encap"), Dup("coaddr"),
                  Dup("sec_ctx"), Dup("replay_state_esn") >>,
     frees |-> sel.frees \cup
               {"lft", "daddr", "saddr", "aead", "auth", "crypt", "comp", "encap",
                "encap_oa", "coaddr", "sec_ctx", "replay_state_esn"}]

sp == [clone |-> sel.clone \o << Copy("lft"), Dup("sec_ctx"), Reset(user_tmpl.frees) >>
                 \o user_tmpl.clone,
       frees |-> sel.frees \cup {"lft", "sec_ctx"} \cup user_tmpl.frees]

\* Mutant: the pointers are not reset first, as in most other types.
IdiagWithoutReset ==
    [clone |-> << Dup("cong"), Dup("src"), Dup("dst"), Dup("meminfo"),
                  Dup("vegasinfo") >>,
     frees |-> {"cong", "src", "dst", "meminfo", "vegasinfo"}]

idiag_msg ==
    [clone |-> << Reset({"cong", "src", "dst", "meminfo", "vegasinfo"}),
                  Dup("cong"), Dup("src"), Dup("dst"), Dup("meminfo"),
                  Dup("vegasinfo") >>,
     frees |-> {"cong", "src", "dst", "meminfo", "vegasinfo"}]

idiag_req == [clone |-> << Dup("src"), Dup("dst") >>, frees |-> {"src", "dst"}]

request == [clone |-> << Dup("lr_addr") >>, frees |-> {"lr_addr"}]

result == [clone |-> << Dup("fr_req") >> \o request.clone,
           frees |-> {"fr_req"} \cup request.frees]

\* The heads of the lists are copied with the rest.
family == [clone |-> << Corrupt >>, frees |-> {"ops", "mc_grps"}]

-----------------------------------------------------------------------------
Table ==
    [neigh |-> neigh, rule |-> rule, addr |-> addr, route |-> route,
     mroute |-> mroute, mdb |-> mdb, link |-> link, link_plain |-> link_plain,
     link_vlan |-> link_vlan, link_macvlan |-> link_macvlan, link_can |-> link_can,
     link_veth |-> link_veth, tc |-> tc, fw |-> fw, u32 |-> u32, flower |-> flower,
     basic |-> basic, cgroup |-> cgroup, mall |-> mall, netem |-> netem,
     ct |-> ct, exp |-> exp, log_msg |-> log_msg, queue_msg |-> queue_msg,
     ae |-> ae, sa |-> sa, sp |-> sp, idiag_msg |-> idiag_msg,
     idiag_req |-> idiag_req, request |-> request, result |-> result,
     family |-> family]

\* The field whose block holds a field, for those that are not in the object
\* itself.
Holder ==
    [gateway |-> "nh", newdst |-> "nh", via |-> "nh", nh_encap |-> "nh",
     mgrp_addr |-> "mgrp", mgport |-> "mgrp", mgport2 |-> "mgrp",
     vf |-> "vf_list", vf_lladdr |-> "vf", vf_vlans |-> "vf",
     vf_vlan_array |-> "vf_vlans",
     info |-> "kind", egress |-> "info", macs |-> "info", mac |-> "macs",
     cf_act |-> "subdata", police |-> "subdata", selector |-> "subdata",
     mark |-> "subdata", pcnt |-> "subdata", dst_mac |-> "subdata",
     dst_mask |-> "subdata", src_mac |-> "subdata", src_mask |-> "subdata",
     b_act |-> "subdata", ematch |-> "subdata", dist_data |-> "subdata",
     act |-> "subdata", act_opts |-> "act", act_xstats |-> "act",
     act_subdata |-> "act", act_link |-> "act", act_next |-> "act",
     sel_daddr |-> "sel", sel_saddr |-> "sel",
     tmpl_daddr |-> "tmpl", tmpl_saddr |-> "tmpl", encap_oa |-> "encap",
     lr_addr |-> "fr_req"]

\* Fields that what holds them is never without; rtnl_tc_data() allocates the
\* data of a kind when it is first used.
Always == {"sel_daddr", "sel_saddr", "tmpl_daddr", "tmpl_saddr", "encap_oa",
           "macs", "mac", "vf_vlan_array", "mgrp_addr", "subdata"}

FieldsOf(t) == Table[t].frees

HolderIn(t, f) == f \in DOMAIN Holder /\ Holder[f] \in FieldsOf(t)

ASSUME CloneAssumption ==
    /\ Types \subseteq DOMAIN Table
    /\ FailTypes \subseteq Types
    /\ \A d \in Defective \cup Unsafe : d[1] \in Types => d[2] \in FieldsOf(d[1])
    \* a shared block has no fields of its own
    /\ \A f \in DOMAIN Holder : Holder[f] \notin Shareable
    /\ {MaxFields, MaxShared} \subseteq Nat

\* The fields C, those that hold them and those that come with them.
Closure(t, C) ==
    LET up[f \in FieldsOf(t)] ==
          {f} \cup (IF HolderIn(t, f) THEN up[Holder[f]] ELSE {})
        has[f \in FieldsOf(t)] ==
          \/ f \in UNION {up[g] : g \in C}
          \/ f \in Always /\ (HolderIn(t, f) => has[Holder[f]])
    IN  {f \in FieldsOf(t) : has[f]}

\* The sets of fields that an object may have: all, or a few.
Contents(t) ==
    LET F == {f \in FieldsOf(t) : <<t, f>> \notin Defective}
        few == {Range(x) : x \in [1..MaxFields -> F]}
    IN  {C \in {Closure(t, G) : G \in few \cup {{}, F}} : C \subseteq F}

-----------------------------------------------------------------------------
VARIABLES
    type,   \* the type of the objects
    obj,    \* object -> NoObj or its pointers, a block or NULL for each field
    heap,   \* allocated block -> its reference count; 1 if it has none
    bug     \* memory freed twice or used after it was freed

vars == <<type, obj, heap, bug>>

Live == {o \in Objs : obj[o] # NoObj}

\* A field can be reached if the blocks that hold it are there.
Reachable(t, p) ==
    LET has[f \in FieldsOf(t)] ==
          p[f] # NULL /\ (HolderIn(t, f) => has[Holder[f]])
    IN  {f \in FieldsOf(t) : has[f]}

\* n[b] references to the block b are given back.
Dropped(h, n) ==
    [b \in {c \in DOMAIN h : h[c] > n[c]} |-> h[b] - n[b]]

\* More are given back than there are.
TooMany(h, n) == \E b \in DOMAIN n : n[b] > (IF b \in DOMAIN h THEN h[b] ELSE 0)

\* How often the fields F of p refer to a block.
RefsOf(h, p, F) ==
    [b \in DOMAIN h \cup {p[f] : f \in F} |-> Cardinality({f \in F : p[f] = b})]

\* A block that is not in use; blocks are numbered per field.
NewBlock(h, f) ==
    CHOOSE b \in {<<f, i>> : i \in 1..(Cardinality(Objs) + 1)} : b \notin DOMAIN h

-----------------------------------------------------------------------------
(* oo_clone, one step after the other, on [p: the pointers of the clone,   *)
(* heap, err, bug].                                                        *)

WithCopy(s, f, count) ==
    LET b == NewBlock(s.heap, f)
    IN  [s EXCEPT !.p[f] = b,
                  !.heap = [c \in DOMAIN s.heap \cup {b} |->
                               IF c = b THEN count ELSE s.heap[c]]]

FreeFields(s, F) ==
    LET n == RefsOf(s.heap, s.p, F)
    IN  [s EXCEPT !.heap = Dropped(@, n), !.bug = @ \/ TooMany(s.heap, n)]

FreeField(s, f) == FreeFields(s, {f})

\* A structure is freed with what it is never without, and not linked.
FreeHolder(s, h) ==
    LET F == {h} \cup {g \in Always \cap DOMAIN Holder : Holder[g] = h}
    IN  [FreeFields(s, F) EXCEPT !.p[h] = NULL]

Succeeds(s, src, op, f) ==
    CASE op \in {"dup", "late", "keep", "try", "crash", "over"} -> WithCopy(s, f, 1)
      [] op = "copy"    -> WithCopy(s, f, s.heap[src[f]])
      [] op = "swap"    -> WithCopy(FreeField(s, f), f, 1)
      [] op = "get"     -> [s EXCEPT !.p[f] = src[f], !.heap[src[f]] = @ + 1]
      [] op = "free"    -> FreeField(s, f)
      [] op = "reset"   -> [s EXCEPT !.p = [g \in DOMAIN s.p |->
                                              IF g \in f THEN NULL ELSE s.p[g]]]
      [] op = "fail"    -> [s EXCEPT !.err = TRUE]
      [] op \in {"corrupt", "tangle"} -> [s EXCEPT !.bug = TRUE]

Fails(s, op, f) ==
    CASE op \in {"dup", "copy"}          -> [s EXCEPT !.p[f] = NULL, !.err = TRUE]
      [] op = "late" -> [FreeHolder(s, Holder[f]) EXCEPT !.err = TRUE]
      [] op \in {"keep", "swap", "over"} -> [s EXCEPT !.err = TRUE]
      [] op = "try"                      -> [s EXCEPT !.p[f] = NULL]
      [] op = "crash"                    -> [s EXCEPT !.bug = TRUE]

Happens(src, st) == st.op \in {"reset", "fail", "corrupt"} \/ src[st.f] # NULL

\* The steps of a type's oo_clone, of which the k-th fails (none for 0).
Cloned(t, src, k) ==
    LET steps == Table[t].clone
        do(s, i) == LET st == steps[i]
                    IN  IF s.err \/ s.bug \/ ~Happens(src, st) THEN s
                        ELSE IF i = k THEN Fails(s, st.op, st.f)
                        ELSE Succeeds(s, src, st.op, st.f)
    IN  FoldLeft(do, [p |-> src, heap |-> heap, err |-> FALSE, bug |-> bug],
                 [i \in 1..Len(steps) |-> i])

-----------------------------------------------------------------------------
(* The operations.                                                         *)

Init ==
    /\ type \in Types
    /\ obj = [o \in Objs |-> NoObj]
    /\ heap = <<>>
    /\ bug = FALSE

\* An object is allocated and its fields C are filled.
nl_object_alloc(o, t, C) ==
    /\ Live = {}
    /\ LET empty == [p |-> [f \in FieldsOf(t) |-> NULL], heap |-> heap]
           fill(f, s) == WithCopy(s, f, 1)
           s == FoldSet(fill, empty, C)
       IN  heap' = s.heap /\ obj' = [obj EXCEPT ![o] = s.p]
    /\ type' = t
    /\ UNCHANGED bug

\* oo_free_data of an object with the pointers p, in the heap h.
FreeData(t, p, h) ==
    LET n == RefsOf(h, p, Reachable(t, p))
    IN  [heap |-> Dropped(h, n), bug |-> TooMany(h, n)]

\* The k-th step of oo_clone fails; the clone is freed again.
nl_object_clone(o, n, k) ==
    /\ o \in Live /\ n \notin Live
    /\ LET s == Cloned(type, obj[o], k)
           r == FreeData(type, s.p, s.heap)
       IN  IF s.err
           THEN /\ heap' = r.heap
                /\ bug' = (s.bug \/ r.bug)
                /\ UNCHANGED obj
           ELSE /\ heap' = s.heap
                /\ bug' = s.bug
                /\ obj' = [obj EXCEPT ![n] = s.p]
    /\ UNCHANGED type

\* The fields of the clone that step k leaves as memcpy() made them: the
\* source's, still to be copied, and not reset.
LeftToCopy(o, k) ==
    LET steps == Table[type].clone
        copied(i) == steps[i].op \notin {"reset", "fail", "corrupt"}
        reset == UNION {steps[i].f : i \in {j \in 1..k : steps[j].op = "reset"}}
    IN  {steps[i].f : i \in {j \in k + 1 .. Len(steps) :
                                copied(j) /\ obj[o][steps[j].f] # NULL}} \ reset

\* Memory runs out in a step that happens: any step of a type that resets its
\* pointers, of the others the last one that this object needs.
CanFail(o, k) ==
    LET st == Table[type].clone[k]
    IN  /\ Allocates(st.op) /\ obj[o][st.f] # NULL
        /\ <<type, st.f>> \notin Unsafe
        /\ type \in FailTypes \/ LeftToCopy(o, k) = {}

nl_object_free(o) ==
    /\ o \in Live
    /\ LET r == FreeData(type, obj[o], heap)
       IN  heap' = r.heap /\ bug' = (bug \/ r.bug)
    /\ obj' = [obj EXCEPT ![o] = NoObj]
    /\ UNCHANGED type

\* A setter: the application gives an object what another one has.
__assign_addr(o, p, f) ==
    /\ o \in Live /\ p \in Live
    /\ f \in Reachable(type, obj[p])
    /\ HolderIn(type, f) => Holder[f] \in Reachable(type, obj[o])
    /\ obj[o][f] # obj[p][f]
    /\ heap[obj[p][f]] <= MaxShared
    /\ LET s == [p |-> obj[o], heap |-> heap, err |-> FALSE, bug |-> bug]
           freed == IF obj[o][f] = NULL THEN s ELSE FreeField(s, f)
       IN  /\ heap' = [freed.heap EXCEPT ![obj[p][f]] = @ + 1]
           /\ bug' = freed.bug
    /\ obj' = [obj EXCEPT ![o][f] = obj[p][f]]
    /\ UNCHANGED type

Next ==
    \/ \E o \in Objs, t \in Types : \E C \in Contents(t) : nl_object_alloc(o, t, C)
    \/ \E o \in Live, n \in Objs : nl_object_clone(o, n, 0)
    \/ \E o \in Live, n \in Objs : \E k \in 1..Len(Table[type].clone) :
          CanFail(o, k) /\ nl_object_clone(o, n, k)
    \/ \E o \in Live : nl_object_free(o)
    \/ \E o, p \in Live, f \in Shareable \cap FieldsOf(type) : __assign_addr(o, p, f)

Spec == Init /\ [][Next]_vars

-----------------------------------------------------------------------------
(* Properties.                                                             *)

\* "when the object is cloned, you must ensure for your pointer stay valid even
\* if one of the clones is freed by either making a clone as well or increase
\* the reference count" (object-api.h).
PointersStayValid ==
    ~bug /\ \A o \in Live : \A f \in Reachable(type, obj[o]) : obj[o][f] \in DOMAIN heap

\* However objects are cloned, changed and freed, each block has exactly as
\* many references as there are pointers to it: nothing is freed twice, used
\* after it was freed or lost.  So too when memory runs out in oo_clone, of
\* every type, but in the steps that are known to do harm (Unsafe) and, unless
\* the type resets its pointers first, those that leave some field to copy.
\* Changed: addresses and links are shared by their setters (Shareable).  Not
\* by those that forget the address they had (xfrmnl_sel_set_daddr() and the
\* like), and not selectors and lifetimes, whose copies inherit a count.
Owned ==
    /\ PointersStayValid
    /\ \A b \in DOMAIN heap :
          heap[b] = Cardinality({x \in Live \X FieldsOf(type) :
                       x[2] \in Reachable(type, obj[x[1]]) /\ obj[x[1]][x[2]] = b})

\* A field that the type shares between an object and its clones.
SharedBy(t, f) ==
    \E i \in 1..Len(Table[t].clone) :
       Table[t].clone[i].op = "get" /\ Table[t].clone[i].f = f

\* nl_object_clone() is to "copy all data from an existing object": the clone
\* has every field that the source has, each in a block of its own unless the
\* type shares it with a reference, and the source is as before.
CloneIsDeep ==
    [][\A o \in Live, n \in Objs : nl_object_clone(o, n, 0) /\ obj'[n] # NoObj =>
          /\ Reachable(type, obj'[n]) = Reachable(type, obj[o])
          /\ \A f \in Reachable(type, obj[o]) :
                SharedBy(type, f) \/ obj'[n][f] \notin DOMAIN heap
          /\ obj'[o] = obj[o]
      ]_vars

\* A clone that fails half way leaves no trace: what it had copied is freed,
\* and what it still shared with the source is not.  This holds wherever memory
\* runs out in the types that reset their pointers first (traffic control
\* without pointers in the kind's data, mdb, idiag_msg, fib_lookup); of all the
\* others, where no field is left to copy: the pointers oo_clone did not reach
\* are the source's, and freed with the clone.  Not where Unsafe says so: a
\* second port of an mdb group (the first one is lost, mdb.c:165), the copies
\* that ct, exp, sriov and veth assign only on success, the kind of a link that
\* was freed before (link.c:2676) and macvlan's list, used unchecked.
FailureHarmless ==
    [][\A o \in Live, n \in Objs : \A k \in 1..Len(Table[type].clone) :
          CanFail(o, k) /\ nl_object_clone(o, n, k) /\ obj'[n] = NoObj
             => UNCHANGED <<obj, heap, bug>>
      ]_vars
=============================================================================
