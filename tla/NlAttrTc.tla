------------------------------ MODULE NlAttrTc ------------------------------
(***************************************************************************)
(* The tables of traffic control: the part common to all objects           *)
(* (lib/route/tc.c), qdiscs, classes, classifiers and actions.  The        *)
(* options of a kind have a mask of their own.                             *)
(***************************************************************************)
EXTENDS NlAttr

-----------------------------------------------------------------------------
(* The common part.                                                        *)

tc_policy == Policy("name", {"KIND"}) \cup Policy("u32", {"CHAIN"})
             \cup Policy("tc_stats", {"STATS"}) \cup Policy("any", {"STATS2"})

\* The counters of STATS2 come before those of STATS; a link is taken from
\* the provided cache.
rtnl_tc_msg_parse ==
    Read("u32", {"FAMILY", "IFINDEX", "HANDLE", "PARENT", "CHAIN"})
    \cup ReadBare("u32", {"INFO"}) \cup Read("str", {"KIND"})
    \cup Read("data", {"OPTS"})
    \cup {ReadAs("STATS2", "stats2", "STATS", {"STATS"}),
          [ReadAs("STATS", "tc_stats", "STATS", {"STATS"}) EXCEPT !.unless = {"STATS2"}],
          [ReadAs("STATS_APP", "data", "XSTATS", {"XSTATS"}) EXCEPT !.with = {"STATS2"}],
          [ReadAs("XSTATS", "data", "XSTATS", {"XSTATS"}) EXCEPT !.unless = {"STATS_APP"}]}

rtnl_tc_msg_build ==
    PutAlways("u32", {"IFINDEX", "HANDLE", "PARENT"})
    \cup {PutAs({}, "none", "FAMILY", "u32"), PutAs({}, "none", "INFO", "u32")}
    \cup Put("str", {"KIND"}) \cup Put("u32", {"CHAIN"})

\* Setting the interface by number forgets the link.
tc_interface ==
    {[Attr("IFINDEX") EXCEPT !.loses = {"LINK"}, !.needs = {}],
     [Attr("LINK") EXCEPT !.sets = {"LINK", "IFINDEX"}, !.marks = {"IFINDEX"},
                          !.ignores = TRUE, !.needs = {}, !.nonzero = TRUE]}

\* Without an MTU or a type of their own they are the link's.
tc_sizes == Guarded({"MTU", "LINKTYPE"}) \cup Open({"MPU", "OVERHEAD"})

\* The kind is set once: it decides the form of the options.
tc_handles_kind ==
    Open({"HANDLE", "PARENT", "ACT_INDEX"}) \cup Guarded({"CHAIN"})
    \cup ReadOpen({"STATS"})
    \cup {[Attr("KIND") EXCEPT !.lacks = {"KIND"}, !.ignores = TRUE, !.long = "refuses"]}

\* Mutant: the parent is not compared.
rtnl_tc_compare_without_parent == Diff({"HANDLE", "IFINDEX", "KIND"})

rtnl_tc_compare == Diff({"HANDLE", "PARENT", "IFINDEX", "KIND"})

tc_obj == [Type(tc_interface \cup tc_sizes \cup tc_handles_kind, tc_policy,
                rtnl_tc_msg_build, rtnl_tc_msg_parse, rtnl_tc_compare)
             EXCEPT !.requires = {"KIND", "FAMILY", "IFINDEX", "HANDLE", "PARENT", "INFO"}]

\* A qdisc is added to a parent or changed by its handle.
qdisc == [tc_obj EXCEPT !.refuse = {Refuse({}, {}, {"IFINDEX"}),
                                    Refuse({}, {}, {"HANDLE", "PARENT"})}]

\* A qdisc is deleted by parent, and by handle and kind if it has them.
qdisc_delete ==
    [tc_obj EXCEPT
       !.refuse = {Refuse({}, {}, {"IFINDEX"}), Refuse({}, {}, {"PARENT"})},
       !.put = PutAlways("u32", {"IFINDEX", "PARENT"}) \cup Put("u32", {"HANDLE"})
               \cup {PutAs({}, "none", "FAMILY", "u32"), PutAs({}, "none", "INFO", "u32"),
                     [PutAs({}, "none", "HANDLE", "u32") EXCEPT !.unless = {"HANDLE"}]}
               \cup Put("str", {"KIND"})]

class == [tc_obj EXCEPT !.refuse = {Refuse({}, {}, {"IFINDEX"})}]

\* Priority and protocol share the word INFO of the header.
cls_build == {p \in rtnl_tc_msg_build : p.nla # "INFO"}
             \cup {PutAs({}, "PRIO", "INFO.prio", "u16"),
                   PutAs({}, "PROTOCOL", "INFO.protocol", "be16")}

cls_prio_protocol == Guarded({"PRIO", "PROTOCOL"})

\* The root filters the kernel reports have no handle and are skipped.
cls_msg_parser ==
    (rtnl_tc_msg_parse \ ReadBare("u32", {"INFO"}))
    \cup {[ReadAs("INFO.prio", "u16", "PRIO", {"PRIO"}) EXCEPT !.nz = TRUE],
          [ReadAs("INFO.protocol", "be16", "PROTOCOL", {"PROTOCOL"}) EXCEPT !.nz = TRUE]}

cls == [Type(tc_interface \cup tc_sizes \cup tc_handles_kind \cup cls_prio_protocol,
             tc_policy, cls_build, cls_msg_parser, rtnl_tc_compare)
          EXCEPT !.requires = {"KIND", "FAMILY", "IFINDEX", "HANDLE", "PARENT"},
                 !.wants = {"HANDLE"},
                 !.refuse = {Refuse({}, {}, {"IFINDEX"})}]

-----------------------------------------------------------------------------
(* Qdiscs and their classes.  Options that are one structure are sent      *)
(* whole: what was not set is sent as zero and read as if it had been set. *)

fifo_qdisc == [Type(Guarded({"LIMIT"}), {}, PutAlways("u32", {"LIMIT"}),
                    Read("u32", {"LIMIT"}), {})
                 EXCEPT !.refuse = {Refuse({}, {}, {"LIMIT"})}]

tbf_msg_parser ==
    {ReadAs("PARMS.limit", "tc_tbf", "LIMIT", {"LIMIT"}),
     ReadAs("PARMS.rate", "tc_tbf", "RATE", {"RATE"}),
     ReadAs("PARMS.buffer", "tc_tbf", "bucket", {"RATE"}),
     ReadAs("PARMS.peakrate", "tc_tbf", "PEAKRATE", {"PEAKRATE"}),
     ReadAs("PARMS.mtu", "tc_tbf", "peakrate_bucket", {"PEAKRATE"})}

tbf_msg_fill ==
    {PutAs({}, "LIMIT", "PARMS.limit", "tc_tbf"), PutAs({}, "RATE", "PARMS.rate", "tc_tbf"),
     PutAs({}, "bucket", "PARMS.buffer", "tc_tbf"), PutAs({}, "none", "RTAB", "rtab"),
     PutAs({"PEAKRATE"}, "PEAKRATE", "PARMS.peakrate", "tc_tbf"),
     PutAs({"PEAKRATE"}, "peakrate_bucket", "PARMS.mtu", "tc_tbf"),
     PutAs({"PEAKRATE"}, "none", "PTAB", "rtab")}
    \cup {[PutAs({}, "none", n, "tc_tbf") EXCEPT !.unless = {"PEAKRATE"}] :
            n \in {"PARMS.peakrate", "PARMS.mtu"}}

\* The limit can be given as a latency once there is a rate.
tbf_limit == {Attr("LIMIT"), [Attr("LIMIT") EXCEPT !.after = {"RATE"}]}

tbf_rates == Guarded({"RATE", "PEAKRATE"})
             \cup {Named("bucket", "RATE"), Named("peakrate_bucket", "PEAKRATE")}

tbf == [Type(tbf_limit \cup tbf_rates,
             Policy("tc_tbf", {"PARMS.limit", "PARMS.rate", "PARMS.buffer",
                               "PARMS.peakrate", "PARMS.mtu"}),
             tbf_msg_fill, tbf_msg_parser, {})
          EXCEPT !.refuse = {Refuse({}, {}, {"RATE"}), Refuse({}, {}, {"LIMIT"})}]

\* Filling in the options without a map stops the program: BUG().
prio_options == [put |-> PutAlways("tc_prio", {"BANDS", "PRIOMAP"}),
                 parse |-> Read("tc_prio", {"BANDS", "PRIOMAP"})]

prio_api == {Attr("BANDS"), [Attr("PRIOMAP") EXCEPT !.after = {"BANDS"}]}

prio == [Type(prio_api, {}, prio_options.put, prio_options.parse, {})
           EXCEPT !.refuse = {Refuse({}, {}, {"PRIOMAP"})}]

\* Divisor and flows are sent as zero and read as if they had been set.
sfq_options == [put |-> PutAlways("tc_sfq", {"QUANTUM", "PERTURB", "LIMIT"})
                        \cup {PutAs({}, "none", n, "tc_sfq") : n \in {"DIVISOR", "FLOWS"}},
                parse |-> Read("tc_sfq", {"QUANTUM", "PERTURB", "LIMIT", "DIVISOR", "FLOWS"})]

sfq_api == Guarded({"QUANTUM", "LIMIT", "PERTURB"}) \cup ReadOnly({"DIVISOR"})

sfq == Type(sfq_api, {}, sfq_options.put, sfq_options.parse, {})

\* A red qdisc can be read, not built.
red == [Type(Guarded({"LIMIT"}), Policy("tc_red", {"PARMS.limit"}), {},
             {ReadAs("PARMS.limit", "tc_red", "LIMIT", {"LIMIT", "QTH_MIN", "QTH_MAX",
                "FLAGS", "WLOG", "PLOG", "SCELL_LOG"})}, {})
          EXCEPT !.refuse = {Refuse({}, {}, {})},
                 !.requires = {"PARMS.limit"}]

\* A cbq qdisc or class is only read, and has no mask.
cbq == Type({}, {[nla |-> n, enc |-> n] : n \in {"LSSOPT", "RATE", "WRROPT", "OVL_STRATEGY",
                                                 "FOPT", "POLICE"}}, {},
            {ReadAs(n, n, n, {}) : n \in {"LSSOPT", "RATE", "WRROPT", "FOPT", "OVL_STRATEGY",
                                          "POLICE"}}, {})

dsmark_policy == Policy("u16", {"INDICES", "DEFAULT_INDEX"})
                 \cup Policy("u8", {"VALUE", "MASK"}) \cup Policy("flag", {"SET_TC_INDEX"})

dsmark_parsers == [qdisc |-> Read("u16", {"INDICES", "DEFAULT_INDEX"})
                             \cup Read("present", {"SET_TC_INDEX"}),
                   class |-> Read("u8", {"MASK", "VALUE"})]

\* The flag is sent whatever its value.
dsmark_fill == [qdisc |-> Put("u16", {"INDICES", "DEFAULT_INDEX"})
                          \cup Put("flag", {"SET_TC_INDEX"}),
                class |-> Put("u8", {"MASK", "VALUE"})]

dsmark_class_api == Guarded({"MASK", "VALUE"})

dsmark_qdisc_api == Guarded({"INDICES", "DEFAULT_INDEX", "SET_TC_INDEX"})

dsmark_qdisc == Type(dsmark_qdisc_api, dsmark_policy, dsmark_fill.qdisc,
                     dsmark_parsers.qdisc, {})
dsmark_class == Type(dsmark_class_api, dsmark_policy, dsmark_fill.class,
                     dsmark_parsers.class, {})

fq_codel_attrs == {"TARGET", "LIMIT", "INTERVAL", "ECN", "FLOWS", "QUANTUM"}

fq_codel_parse == Read("u32", fq_codel_attrs)

fq_codel_fill == Put("u32", fq_codel_attrs)

fq_codel_api == Guarded(fq_codel_attrs)

fq_codel == Type(fq_codel_api, Policy("u32", fq_codel_attrs), fq_codel_fill,
                 fq_codel_parse, {})

hfsc_qdisc == Type(Guarded({"DEFCLS"}), {}, PutAlways("tc_hfsc", {"DEFCLS"}),
                   Read("tc_hfsc", {"DEFCLS"}), {})

hfsc_curves == {"RSC", "FSC", "USC"}

hfsc_class_parse == Read("curve", hfsc_curves)

hfsc_class_fill == Put("curve", hfsc_curves)

hfsc_class == Type(Guarded(hfsc_curves), Policy("curve", hfsc_curves), hfsc_class_fill,
                   hfsc_class_parse, {})

\* The quantum of a new htb qdisc is 10, here zero like any constant.
htb_qdisc_fill == {PutAs({}, "RATE2QUANTUM", "INIT.rate2quantum", "tc_htb_glob"),
                   PutAs({}, "DEFCLS", "INIT.defcls", "tc_htb_glob")}

htb_qdisc_parse ==
    {ReadAs("INIT.rate2quantum", "tc_htb_glob", "RATE2QUANTUM", {"RATE2QUANTUM"}),
     ReadAs("INIT.defcls", "tc_htb_glob", "DEFCLS", {"DEFCLS"})}

htb_qdisc == Type(Guarded({"RATE2QUANTUM", "DEFCLS"}),
                  Policy("tc_htb_glob", {"INIT.rate2quantum", "INIT.defcls"}),
                  htb_qdisc_fill, htb_qdisc_parse, {})

\* Rates of more than 32 bits are reported next to the structure.
htb_class_parse ==
    {ReadAs(b, "tc_htb_opt", b, {b}) :
       b \in {"PRIO", "RBUFFER", "CBUFFER", "QUANTUM", "LEVEL"}}
    \cup {[ReadAs(b, "tc_htb_opt", b, {b}) EXCEPT !.unless = {c}] :
            <<b, c>> \in {<<"RATE", "RATE64">>, <<"CEIL", "CEIL64">>}}
    \cup {ReadAs("RATE64", "u64", "RATE", {"RATE"}),
          ReadAs("CEIL64", "u64", "CEIL", {"CEIL"})}

\* Without a rate the program stops: BUG().  Without a ceiling it is the rate;
\* the buffers default to what passes in a tick.
htb_class_fill ==
    Put("tc_htb_opt", {"PRIO", "RATE", "CEIL", "RBUFFER", "CBUFFER", "QUANTUM"})
    \cup {[PutAs({"RATE"}, "RATE", "CEIL", "tc_htb_opt") EXCEPT !.unless = {"CEIL"}],
          PutAs({}, "none", "LEVEL", "tc_htb_opt"), PutAs({}, "none", "RTAB", "rtab"),
          PutAs({}, "none", "CTAB", "rtab")}
    \cup {[PutAs({}, "none", b, "tc_htb_opt") EXCEPT !.unless = {b}] :
            b \in {"PRIO", "RBUFFER", "CBUFFER", "QUANTUM"}}

htb_class_rates == Guarded({"PRIO", "RATE", "CEIL"})

htb_class_buffers == Guarded({"RBUFFER", "CBUFFER", "QUANTUM", "LEVEL"})

htb_class == [Type(htb_class_rates \cup htb_class_buffers,
                   Policy("tc_htb_opt", {"PRIO", "RATE", "CEIL", "RBUFFER", "CBUFFER",
                                         "QUANTUM", "LEVEL"})
                   \cup Policy("u64", {"RATE64", "CEIL64"}),
                   htb_class_fill, htb_class_parse, {})
                EXCEPT !.refuse = {Refuse({}, {}, {"RATE"})}]

\* Of the rates only the first is kept, whatever their number.
mqprio_msg_parser == Read("tc_mqprio", {"NUMTC", "PRIOMAP", "QUEUE", "HW"})
                     \cup Read("u16", {"MODE", "SHAPER"})
                     \cup Read("rates", {"MIN_RATE", "MAX_RATE"})

\* Mode, shaper and rates are sent only with hardware offload.
mqprio_msg_fill == PutAlways("tc_mqprio", {"NUMTC", "PRIOMAP", "QUEUE", "HW"})
                   \cup {[p EXCEPT !.nz = {"HW"}] :
                           p \in Put("u16", {"MODE", "SHAPER"})
                                 \cup Put("rates", {"MIN_RATE", "MAX_RATE"})}

\* Without the bit HW the getter answers no.
mqprio_queues == {Attr("NUMTC"), [Attr("PRIOMAP") EXCEPT !.after = {"NUMTC"}],
                  [Attr("QUEUE") EXCEPT !.after = {"NUMTC"}],
                  [Attr("HW") EXCEPT !.needs = {}]}

mqprio_rates == {[Attr(a) EXCEPT !.after = {"HW"}] : a \in {"MODE", "SHAPER"}}
                \cup {[Attr(a) EXCEPT !.pre = {"SHAPER"}] : a \in {"MIN_RATE", "MAX_RATE"}}

mqprio == [Type(mqprio_queues \cup mqprio_rates,
                Policy("u16", {"MODE", "SHAPER"})
                \cup Policy("any", {"MIN_RATE", "MAX_RATE"}),
                mqprio_msg_fill, mqprio_msg_parser, {})
             EXCEPT !.refuse = {Refuse({}, {}, {b}) : b \in {"NUMTC", "PRIOMAP", "QUEUE"}},
                    !.requires = {"NUMTC", "PRIOMAP", "QUEUE", "HW"}]

netem_basic == {"LATENCY", "LIMIT", "LOSS", "GAP", "DUPLICATE", "JITTER"}

netem_pairs == [CORR |-> {"DELAY_CORR", "LOSS_CORR", "DUP_CORR"},
                REORDER |-> {"RO_PROB", "RO_CORR"},
                CORRUPT |-> {"CORRUPT_PROB", "CORRUPT_CORR"}]

\* The distribution is not read back.
netem_msg_parser == Read("tc_netem", netem_basic)
                    \cup UNION {Read(n, netem_pairs[n]) : n \in DOMAIN netem_pairs}

\* Correlations need what they correlate, reordering needs a delay, a gap
\* needs reordering; a gap of one is added for it.  A limit of zero stands for
\* the default.
netem_refuses ==
    {[Refuse({}, {t[1]}, {}) EXCEPT !.zero = {t[2]}] :
       t \in {<<"RO_PROB", "LATENCY">>, <<"GAP", "RO_PROB">>, <<"DELAY_CORR", "LATENCY">>,
              <<"DELAY_CORR", "JITTER">>, <<"LOSS_CORR", "LOSS">>,
              <<"DUP_CORR", "DUPLICATE">>, <<"RO_CORR", "RO_PROB">>,
              <<"CORRUPT_CORR", "CORRUPT_PROB">>,
              <<"DIST", "LATENCY">>, <<"DIST", "JITTER">>}}

netem_fill ==
    PutAlways("tc_netem", netem_basic \ {"GAP", "LIMIT"})
    \cup PutNonzero("tc_netem", {"LIMIT"})
    \cup {[PutAs({}, "some", "LIMIT", "tc_netem") EXCEPT !.zero = {"LIMIT"}],
          [PutAs({}, "GAP", "GAP", "tc_netem") EXCEPT !.nz = {"GAP"}],
          [PutAs({}, "GAP", "GAP", "tc_netem") EXCEPT !.zero = {"GAP", "RO_PROB"}],
          [PutAs({}, "some", "GAP", "tc_netem") EXCEPT !.nz = {"RO_PROB"},
                                                          !.zero = {"GAP"}]}
    \cup {[p EXCEPT !.nz = netem_pairs.CORR] : p \in PutAlways("CORR", netem_pairs.CORR)}
    \cup {[p EXCEPT !.nz = {"RO_PROB"}] : p \in PutAlways("REORDER", netem_pairs.REORDER)}
    \cup {[p EXCEPT !.nz = {"CORRUPT_PROB"}] :
            p \in PutAlways("CORRUPT", netem_pairs.CORRUPT)}
    \cup PutNonzero("dist", {"DIST"})

netem_limit_reorder ==
    Guarded({"LIMIT", "GAP", "RO_PROB", "RO_CORR", "CORRUPT_PROB", "CORRUPT_CORR"})

netem_loss_duplicate == Guarded({"LOSS", "LOSS_CORR", "DUPLICATE", "DUP_CORR"})

netem_delay == Guarded({"LATENCY", "JITTER", "DELAY_CORR", "DIST"})

netem == [Type(netem_limit_reorder \cup netem_loss_duplicate \cup netem_delay,
               UNION {Policy(n, netem_pairs[n]) : n \in DOMAIN netem_pairs},
               netem_fill, netem_msg_parser, {})
            EXCEPT !.requires = netem_basic, !.refuse = netem_refuses]

\* A plug is only sent: an action, and a limit that only LIMIT looks at.
plug == Type({[Attr("action") EXCEPT !.sets = {}, !.readable = FALSE],
              [Attr("limit") EXCEPT !.sets = {}, !.marks = {"action"}, !.readable = FALSE]},
             {}, PutAlways("tc_plug", {"action", "limit"}), {}, {})

-----------------------------------------------------------------------------
(* Classifiers.                                                            *)

\* A list of actions in a message; the parser stops at the 31st.
act_list == [api |-> List("ACTION"), put |-> Put("acts", {"ACTION"})]
act_list_parse == Read("acts", {"ACTION"})

basic_msg_parser == Read("u32", {"TARGET"}) \cup ReadNonzero("ematch", {"EMATCH"})
                    \cup act_list_parse

basic_msg_fill == Put("u32", {"TARGET"}) \cup Put("ematch", {"EMATCH"}) \cup act_list.put

basic == Type(Open({"TARGET"}) \cup Pointer({"EMATCH"}) \cup act_list.api,
              Policy("u32", {"TARGET"}) \cup Policy("any", {"EMATCH"}),
              basic_msg_fill, basic_msg_parser, {})

cgroup_options == [put |-> Put("ematch", {"EMATCH"}) \cup PutAlways("u32", {"HANDLE"}),
                   parse |-> Read("ematch", {"EMATCH"}) \cup Read("u32", {"HANDLE"})]

\* The handle is the classifier's own.
cgroup == [Type(Pointer({"EMATCH"}) \cup Open({"HANDLE"}), Policy("any", {"EMATCH"}),
                cgroup_options.put, cgroup_options.parse, {})
             EXCEPT !.refuse = {Refuse({}, {}, {"HANDLE"})}, !.requires = {"HANDLE"}]

\* Removing the last action leaves the bit: the getter then takes a reference
\* to NULL.
mall_api == Guarded({"CLASSID", "FLAGS"})
            \cup {[Attr("ACTION") EXCEPT !.ignores = TRUE],
                  [Attr("ACTION") EXCEPT !.sets = {}, !.keeps = TRUE, !.after = {"ACTION"},
                                         !.empties = {"ACTION"}, !.readable = FALSE]}

mall_msg_parser == Read("u32", {"CLASSID", "FLAGS"}) \cup act_list_parse

mall_msg_fill == Put("u32", {"CLASSID", "FLAGS"}) \cup act_list.put

mall == Type(mall_api, Policy("u32", {"CLASSID", "FLAGS"}),
             mall_msg_fill, mall_msg_parser, {})

\* Class and mask can be set; action, policing and device are only read and sent.
fw_msg_parser == Read("u32", {"CLASSID", "MASK"}) \cup Read("data", {"ACTION", "POLICE"})
                 \cup Read("str", {"INDEV"})

fw_msg_fill == Put("u32", {"CLASSID", "MASK"}) \cup Put("data", {"ACTION", "POLICE"})
               \cup Put("str", {"INDEV"})

fw == Type(WriteOnly({"CLASSID", "MASK"}),
           Policy("u32", {"CLASSID", "MASK"}) \cup Policy("name", {"INDEV"}),
           fw_msg_fill, fw_msg_parser, {})

u32_policy == Policy("u32", {"DIVISOR", "HASH", "CLASSID", "LINK"})
              \cup Policy("name", {"INDEV"})
              \cup Policy("u32_sel", {"SEL.key", "SEL.hmask", "SEL.off", "SEL.flags"})
              \cup Policy("u32_pcnt", {"PCNT"}) \cup Policy("u32_mark", {"MARK"})

u32_sel == {"SEL.key", "SEL.hmask", "SEL.off", "SEL.flags"}

\* The counters come with the selector they count.
u32_msg_parser ==
    Read("u32", {"DIVISOR", "HASH", "CLASSID", "LINK"}) \cup Read("str", {"INDEV"})
    \cup {ReadAs(f, "u32_sel", f, {"SELECTOR"}) : f \in u32_sel}
    \cup Read("u32_mark", {"MARK"}) \cup Read("data", {"POLICE"}) \cup act_list_parse
    \cup {[ReadAs("PCNT", "u32_pcnt", "PCNT", {"PCNT"}) EXCEPT !.with = {"SEL.key"}]}

u32_msg_fill ==
    Put("u32", {"DIVISOR", "HASH", "CLASSID", "LINK"}) \cup Put("str", {"INDEV"})
    \cup {PutAs({"SELECTOR"}, f, f, "u32_sel") : f \in u32_sel}
    \cup Put("u32_mark", {"MARK"}) \cup Put("data", {"POLICE"}) \cup act_list.put

\* The first three setters of the selector do not set its bit.
u32_class_selector ==
    Guarded({"CLASSID"}) \cup WriteOnly({"DIVISOR", "LINK", "HASH"})
    \cup {[a EXCEPT !.readable = FALSE] :
             a \in Unmasked({"SEL.hmask", "SEL.off", "SEL.flags"})}

u32_actions_keys ==
    act_list.api
    \cup {[Attr("SEL.flags") EXCEPT !.sets = {"SELECTOR"}, !.adds = TRUE, !.readable = FALSE],
          [Attr("MARK") EXCEPT !.readable = FALSE],
          [Attr("MARK") EXCEPT !.sets = {}, !.keeps = TRUE, !.after = {"MARK"},
                               !.loses = {"MARK"}, !.readable = FALSE]}

\* A key is added, however wide what it looks at; the getter wants its index.
u32_keys == {[Attr("SEL.key") EXCEPT !.sets = {"SELECTOR"}, !.needs = {"SELECTOR"},
                                     !.ignores = TRUE, !.nonzero = TRUE]}

u32 == Type(u32_class_selector \cup u32_actions_keys \cup u32_keys, u32_policy, u32_msg_fill,
            u32_msg_parser, {})

\* A hardware address has six bytes at most; the setters put as many.
flower_policy == Policy("u16", {"PROTO", "VLAN_ID"})
                 \cup Policy("u8", {"VLAN_PRIO", "IP_DSCP", "IP_DSCP_MASK"})
                 \cup Policy("any", {"DST_MAC", "DST_MAC_MASK", "SRC_MAC", "SRC_MAC_MASK"})

\* The priority of a VLAN has one byte and is read as two.
flower_msg_parser ==
    Read("u32", {"FLAGS"}) \cup Read("be16", {"PROTO", "VLAN_ETH_TYPE"})
    \cup Read("u16", {"VLAN_ID", "VLAN_PRIO"}) \cup Read("u8", {"IP_DSCP", "IP_DSCP_MASK"})
    \cup Read("data", {"POLICE", "DST_MAC", "DST_MAC_MASK", "SRC_MAC", "SRC_MAC_MASK"})
    \cup act_list_parse

flower_msg_fill ==
    Put("u32", {"FLAGS"}) \cup Put("be16", {"PROTO", "VLAN_ETH_TYPE"})
    \cup Put("u16", {"VLAN_ID"})
    \cup Put("u8", {"VLAN_PRIO", "IP_DSCP", "IP_DSCP_MASK"})
    \cup Put("data", {"POLICE", "DST_MAC", "DST_MAC_MASK", "SRC_MAC", "SRC_MAC_MASK"})
    \cup act_list.put

\* An Ethernet type behind a VLAN tag wants the protocol to be 802.1Q.
flower_vlan == Guarded({"PROTO", "VLAN_ID", "VLAN_PRIO"})
               \cup {[Attr("VLAN_ETH_TYPE") EXCEPT !.pre = {"PROTO"}, !.readable = FALSE]}

\* An address may come with a mask; one set before stays otherwise.
flower_macs ==
    NeverZero({"DST_MAC", "SRC_MAC"})
    \cup {[Attr(t[1]) EXCEPT !.sets = {t[1], t[2]}, !.marks = {t[2]}, !.ignores = TRUE,
                             !.needs = {t[1], t[2]}] :
            t \in {<<"DST_MAC_MASK", "DST_MAC">>, <<"SRC_MAC_MASK", "SRC_MAC">>}}

flower_dscp_actions ==
    Guarded({"IP_DSCP"}) \cup act_list.api \cup WriteOnly({"FLAGS"})
    \cup {[Attr("IP_DSCP_MASK") EXCEPT !.sets = {"IP_DSCP_MASK", "IP_DSCP"},
             !.marks = {"IP_DSCP"}, !.ignores = TRUE, !.needs = {"IP_DSCP"}]}

flower == Type(flower_vlan \cup flower_macs \cup flower_dscp_actions, flower_policy,
               flower_msg_fill, flower_msg_parser, {})

-----------------------------------------------------------------------------
(* Actions.  Their parameters have no mask, but for skbedit and vlan.      *)

gact == [Type(Unmasked({"action"}), Policy("tc_gact", {"action"}),
              PutAlways("tc_gact", {"action"}), ReadBare("tc_gact", {"action"}), {})
           EXCEPT !.requires = {"action"}]

\* The index of the common part, if it was set, else the one received.
act_index(parms) == {PutAs({"ACT_INDEX"}, "ACT_INDEX", "index", parms),
                     [PutAs({}, "index", "index", parms) EXCEPT !.unless = {"ACT_INDEX"}]}

act_index_parse(parms) == {ReadAs("index", parms, "ACT_INDEX", {"ACT_INDEX"}),
                           ReadAs("index", parms, "index", {})}

\* Only egress actions; a policy needs one.
mirred ==
    [Type({[a EXCEPT !.ignores = TRUE] : a \in Unmasked({"eaction"})}
            \cup Unmasked({"ifindex"})
          \cup {[a EXCEPT !.nz = {"eaction"}] : a \in Unmasked({"action"})}
          \cup Open({"ACT_INDEX"}),
          Policy("tc_mirred", {"eaction", "ifindex", "action", "index"}),
          PutAlways("tc_mirred", {"eaction", "ifindex", "action"})
          \cup act_index("tc_mirred"),
          ReadBare("tc_mirred", {"eaction", "ifindex", "action"})
          \cup act_index_parse("tc_mirred"), {})
       EXCEPT !.requires = {"eaction", "ifindex", "action", "index"}]

\* The index is taken from what was received, never from the common part.
nat_options == [put |-> PutAlways("tc_nat",
                                     {"old_addr", "new_addr", "mask", "flags", "action",
                                             "index"}),
                parse |-> ReadBare("tc_nat",
                                     {"old_addr", "new_addr", "mask", "flags", "action"})
                          \cup act_index_parse("tc_nat")]

nat == [Type(Unmasked({"old_addr", "new_addr", "mask", "flags", "action"})
             \cup Open({"ACT_INDEX"}),
             Policy("tc_nat", {"old_addr", "new_addr", "mask", "flags", "action", "index"}),
             nat_options.put, nat_options.parse, {})
          EXCEPT !.requires = {"old_addr", "new_addr", "mask", "flags", "action", "index"}]

police_parms == {"action", "burst", "mtu", "mpu", "rate", "overhead", "linklayer"}

\* Without an MTU there is no rate table.
police_options ==
    [put |-> PutAlways("tc_police", police_parms) \cup act_index("tc_police")
             \cup PutAlways("u32", {"conform"}) \cup {PutAs({}, "none", "RATE", "rtab")},
     parse |-> ReadBare("tc_police", police_parms) \cup act_index_parse("tc_police")
               \cup ReadBare("u32", {"conform"})]

\* A rate converts the burst set before it.
police_actions == Unmasked({"action", "conform"})
                  \cup {[a EXCEPT !.ignores = TRUE] : a \in Unmasked({"burst"})}
police_rates == Unmasked({"mtu", "mpu", "overhead", "linklayer"})
                \cup {[a EXCEPT !.ignores = TRUE] : a \in Unmasked({"rate"})}

police == [Type(police_actions \cup police_rates \cup Open({"ACT_INDEX"}),
                Policy("tc_police", police_parms \cup {"index"}) \cup Policy("rtab", {"RATE"})
                \cup Policy("u32", {"conform"}),
                police_options.put, police_options.parse, {})
             EXCEPT !.requires = police_parms \cup {"index"},
                    !.refuse = {[Refuse({}, {}, {}) EXCEPT !.zero = {"mtu"}]}]

\* The structure with the action is required but not read.
skbedit_msg_parser == Read("u32", {"PRIORITY", "MARK"}) \cup Read("u16", {"QUEUE_MAPPING"})
                      \cup {ReadAs("action", "tc_skbedit", "unread", {})}

skbedit_msg_fill == Put("u32", {"PRIORITY", "MARK", "QUEUE_MAPPING"})
                    \cup PutAlways("tc_skbedit", {"action"})

skbedit == [Type(Guarded({"PRIORITY", "MARK", "QUEUE_MAPPING"}) \cup Unmasked({"action"}),
                 Policy("tc_skbedit", {"action"}) \cup Policy("u32", {"PRIORITY", "MARK"})
                 \cup Policy("u16", {"QUEUE_MAPPING"}),
                 skbedit_msg_fill, skbedit_msg_parser, {})
              EXCEPT !.requires = {"action"}]

act_vlan_parser == Read("tc_vlan", {"MODE", "ACT"}) \cup Read("u16", {"VID", "PROTO"})
                   \cup Read("u8", {"PRIO"})

\* Only popping a tag (mode one) needs no VLAN.
act_vlan_fill == PutAlways("tc_vlan", {"MODE", "ACT"}) \cup Put("u16", {"VID", "PROTO"})
                 \cup Put("u8", {"PRIO"})

act_vlan_api == Guarded({"MODE", "ACT", "PROTO", "VID", "PRIO"})

act_vlan == [Type(act_vlan_api,
                  Policy("tc_vlan", {"MODE", "ACT"}) \cup Policy("u16", {"VID", "PROTO"})
                  \cup Policy("u8", {"PRIO"}), act_vlan_fill, act_vlan_parser, {})
               EXCEPT !.requires = {"MODE", "ACT"},
                      !.refuse = {Refuse({}, {}, {"MODE"}),
                                  [Refuse({}, {}, {"VID"}) EXCEPT !.zero = {"MODE"}]}]
=============================================================================
