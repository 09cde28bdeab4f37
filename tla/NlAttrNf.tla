------------------------------ MODULE NlAttrNf ------------------------------
(***************************************************************************)
(* The tables of netfilter: connections and expectations with their        *)
(* tuples, the configuration of logs and queues, and the packets they      *)
(* report (lib/netfilter).  The IPv4 and the IPv6 attribute of an address, *)
(* and those of ICMP and ICMPv6, are one here: the family says which one   *)
(* is used, and a family of zero is none of the two.  The masks of flag    *)
(* words matter only for loose comparisons.                                *)
(***************************************************************************)
EXTENDS NlAttr

\* The family in the header of the message: zero if there is none.
nfgenmsg_family == Put("u8", {"FAMILY"})
                   \cup {[PutAs({}, "none", "FAMILY", "u8") EXCEPT !.unless = {"FAMILY"}]}

\* The first address decides the family, the others must have it.
ct_set_addr(S) ==
    {[Attr(a) EXCEPT !.sets = {a, "FAMILY"}, !.marks = {"FAMILY"}, !.lacks = {"FAMILY"}] :
       a \in S}
    \cup {[Attr(a) EXCEPT !.after = {"FAMILY"}, !.nz = {"FAMILY"}, !.readable = FALSE] :
            a \in S}

\* A word of flags, set and unset.
set_unset(a) == {[Attr(a) EXCEPT !.adds = TRUE, !.needs = {}],
                 [Attr(a) EXCEPT !.keeps = TRUE, !.empties = {a}, !.readable = FALSE]}

-----------------------------------------------------------------------------
(* Connections: a tuple for each direction.  The ports and the ICMP data   *)
(* are a union: source port and identifier share memory, and so do         *)
(* destination port and type (the code is treated as if it did not).       *)

ct_dirs ==
    [orig |-> [src |-> "ORIG_SRC", dst |-> "ORIG_DST", sport |-> "ORIG_SRC_PORT",
               dport |-> "ORIG_DST_PORT", id |-> "ORIG_ICMP_ID", type |-> "ORIG_ICMP_TYPE",
               code |-> "ORIG_ICMP_CODE", packets |-> "ORIG_PACKETS",
               bytes |-> "ORIG_BYTES"],
     repl |-> [src |-> "REPL_SRC", dst |-> "REPL_DST", sport |-> "REPL_SRC_PORT",
               dport |-> "REPL_DST_PORT", id |-> "REPL_ICMP_ID", type |-> "REPL_ICMP_TYPE",
               code |-> "REPL_ICMP_CODE", packets |-> "REPL_PACKETS",
               bytes |-> "REPL_BYTES"]]

ct_header_state == Guarded({"FAMILY"}) \cup Open({"PROTO", "TCP_STATE"})

ct_numbers == Open({"TIMEOUT", "MARK", "USE", "ID", "ZONE"})

ct_addresses(d) == ct_set_addr({d.src, d.dst})

ct_ports(d) == Open({d.sport, d.dport})

ct_icmp(d) == {[Attr(d.id) EXCEPT !.field = d.sport, !.needs = {}],
               [Attr(d.type) EXCEPT !.field = d.dport, !.needs = {}]} \cup Open({d.code})

ct_counters(d) == Open({d.packets, d.bytes, "TIMESTAMP"})

ct_policy ==
    LET of(d) == Policy("addr", {d.src, d.dst}) \cup Policy("u64", {d.packets, d.bytes})
                 \cup Policy("u16", {d.sport, d.dport, d.id})
                 \cup Policy("u8", {d.type, d.code})
    IN of(ct_dirs.orig) \cup of(ct_dirs.repl)
       \cup Policy("u32", {"STATUS", "TIMEOUT", "MARK", "USE", "ID"})
       \cup Policy("u16", {"ZONE"}) \cup Policy("u8", {"PROTO", "TCP_STATE"})
       \cup Policy("u64", {"TIMESTAMP"})

ct_parse_ip(d) == Read("addr", {d.src, d.dst})

\* ICMP only if the family is known.
ct_parse_proto(d) ==
    Read("be16", {d.sport, d.dport})
    \cup {[r EXCEPT !.when = {"FAMILY"}] :
            r \in {ReadAs(d.id, "be16", d.sport, {d.id}),
                   ReadAs(d.type, "u8", d.dport, {d.type})}
                  \cup Read("u8", {d.code})}

\* The protocol is taken from the original direction.
ct_parse_tuple == UNION {ct_parse_ip(ct_dirs[d]) \cup ct_parse_proto(ct_dirs[d]) :
                           d \in DOMAIN ct_dirs}
                  \cup Read("u8", {"PROTO", "TCP_STATE"})

\* Counters with 64 bits; those with 32 bits have other attributes.
ct_parse_counters == UNION {Read("be64", {ct_dirs[d].packets, ct_dirs[d].bytes}) :
                              d \in DOMAIN ct_dirs}
                     \cup Read("be64", {"TIMESTAMP"})

nfnlmsg_ct_parse == Read("u8", {"FAMILY"}) \cup ct_parse_tuple \cup ct_parse_counters
                    \cup Read("be32", {"STATUS", "TIMEOUT", "MARK", "USE", "ID"})
                    \cup Read("be16", {"ZONE"})

\* One tuple; `with': what the object must have for it to be sent.
nfnl_ct_build_tuple(d, with) ==
    {[p EXCEPT !.all = with] :
       p \in Put("addr", {d.src, d.dst}) \cup Put("be16", {d.sport, d.dport})
             \cup {[PutAs({d.id}, d.sport, d.id, "be16") EXCEPT !.nz = {"FAMILY"}],
                   [PutAs({d.type}, d.dport, d.type, "u8") EXCEPT !.nz = {"FAMILY"}],
                   [PutAs({d.code}, d.code, d.code, "u8") EXCEPT !.nz = {"FAMILY"}]}}

\* The reply tuple is sent if it has both addresses.
nfnl_ct_build_message ==
    nfgenmsg_family \cup nfnl_ct_build_tuple(ct_dirs.orig, {})
    \cup nfnl_ct_build_tuple(ct_dirs.repl, {"REPL_SRC", "REPL_DST"})
    \cup Put("u8", {"PROTO"}) \cup Put("be32", {"STATUS", "TIMEOUT", "MARK", "ID"})
    \cup Put("be16", {"ZONE"})

ct_compare ==
    UNION {LET d == ct_dirs[x]
           IN Diff({d.src, d.dst, d.sport, d.dport, d.code, d.packets, d.bytes})
              \cup {DiffAs(d.id, d.sport), DiffAs(d.type, d.dport)} : x \in DOMAIN ct_dirs}
    \cup Diff({"FAMILY", "PROTO", "TCP_STATE", "TIMEOUT", "MARK", "USE", "ID", "STATUS"})

ct == [Type(ct_header_state \cup set_unset("STATUS") \cup ct_numbers
            \cup UNION {LET d == ct_dirs[x]
                        IN ct_addresses(d) \cup ct_ports(d) \cup ct_icmp(d)
                           \cup ct_counters(d) : x \in DOMAIN ct_dirs},
            ct_policy, nfnl_ct_build_message, nfnlmsg_ct_parse, ct_compare)
         EXCEPT !.requires = {"FAMILY"},
                !.depends = {<<a, "FAMILY">> : a \in {"ORIG_SRC", "ORIG_DST", "REPL_SRC",
                                                      "REPL_DST"}}]

-----------------------------------------------------------------------------
(* Expectations: four tuples.  The two ports are one attribute, and so is  *)
(* the ICMP data, in the same memory.                                      *)

exp_tuples ==
    [expect |-> [src |-> "EXPECT_IP_SRC", dst |-> "EXPECT_IP_DST",
                 num |-> "EXPECT_L4PROTO_NUM", ports |-> "EXPECT_L4PROTO_PORTS",
                 icmp |-> "EXPECT_L4PROTO_ICMP"],
     master |-> [src |-> "MASTER_IP_SRC", dst |-> "MASTER_IP_DST",
                 num |-> "MASTER_L4PROTO_NUM", ports |-> "MASTER_L4PROTO_PORTS",
                 icmp |-> "MASTER_L4PROTO_ICMP"],
     mask   |-> [src |-> "MASK_IP_SRC", dst |-> "MASK_IP_DST", num |-> "MASK_L4PROTO_NUM",
                 ports |-> "MASK_L4PROTO_PORTS", icmp |-> "MASK_L4PROTO_ICMP"],
     nat    |-> [src |-> "NAT_IP_SRC", dst |-> "NAT_IP_DST", num |-> "NAT_L4PROTO_NUM",
                 ports |-> "NAT_L4PROTO_PORTS", icmp |-> "NAT_L4PROTO_ICMP"]]

exp_family_flags == Guarded({"FAMILY"}) \cup set_unset("FLAGS")

exp_numbers_names == Open({"TIMEOUT", "ID", "ZONE", "CLASS", "NAT_DIR"})
                     \cup Text("takes", Open({"HELPER_NAME", "FN"}))

exp_addresses(t) == ct_set_addr({t.src, t.dst})

exp_l4protonum(t) == Open({t.num})

exp_l4data(t) == Open({t.ports}) \cup {[Attr(t.icmp) EXCEPT !.field = t.ports, !.needs = {}]}

exp_policy ==
    UNION {LET t == exp_tuples[x]
           IN Policy("addr", {t.src, t.dst}) \cup Policy("u8", {t.num})
              \cup Policy("u16", {t.ports, t.icmp}) : x \in DOMAIN exp_tuples}
    \cup Policy("u32", {"TIMEOUT", "ID", "FLAGS", "CLASS", "NAT_DIR"})
    \cup Policy("u16", {"ZONE"}) \cup Policy("str", {"HELPER_NAME", "FN"})

exp_parse_ip(t) == Read("addr", {t.src, t.dst})

exp_parse_proto(t) == Read("u8", {t.num}) \cup Read("be16", {t.ports})
                      \cup {ReadAs(t.icmp, "be16", t.ports, {t.icmp})}

exp_parse_tuple(t) == exp_parse_ip(t) \cup exp_parse_proto(t)

\* It is called, if there is address translation, with the mask: the addresses
\* of the mask are taken for the direction, and nothing else is recognised.
exp_parse_nat == {[ReadAs(a, "u32", "NAT_DIR", {"NAT_DIR"}) EXCEPT !.with = {"NAT_IP_SRC"}] :
                    a \in {"MASK_IP_SRC", "MASK_IP_DST"}}

nfnlmsg_exp_parse ==
    Read("u8", {"FAMILY"})
    \cup UNION {exp_parse_tuple(exp_tuples[x]) : x \in {"expect", "master", "mask"}}
    \cup exp_parse_nat \cup Read("be32", {"CLASS", "TIMEOUT", "ID", "FLAGS"})
    \cup Read("be16", {"ZONE"}) \cup Read("str", {"FN", "HELPER_NAME"})

nfnl_exp_build_tuple(t) == Put("addr", {t.src, t.dst}) \cup Put("u8", {t.num})
                           \cup Put("be16", {t.ports})
                           \cup {PutAs({t.icmp}, t.ports, t.icmp, "be16")}

\* Address translation is sent if it has a source.
nfnl_exp_build_nat ==
    {[p EXCEPT !.all = {"NAT_IP_SRC"}] :
       p \in nfnl_exp_build_tuple(exp_tuples.nat) \cup Put("u32", {"NAT_DIR"})}

nfnl_exp_build_message ==
    nfgenmsg_family
    \cup UNION {nfnl_exp_build_tuple(exp_tuples[x]) : x \in {"expect", "master", "mask"}}
    \cup nfnl_exp_build_nat \cup Put("be32", {"CLASS", "ID", "TIMEOUT", "FLAGS"})
    \cup Put("str", {"FN", "HELPER_NAME"}) \cup Put("be16", {"ZONE"})

exp_compare ==
    UNION {LET t == exp_tuples[x]
           IN Diff({t.src, t.dst, t.num, t.ports}) \cup {DiffAs(t.icmp, t.ports)} :
             x \in DOMAIN exp_tuples}
    \cup Diff({"FAMILY", "TIMEOUT", "ID", "ZONE", "CLASS", "FLAGS", "NAT_DIR", "FN",
               "HELPER_NAME"})

exp == [Type(exp_family_flags \cup exp_numbers_names
             \cup UNION {LET t == exp_tuples[x]
                         IN exp_addresses(t) \cup exp_l4protonum(t) \cup exp_l4data(t) :
                           x \in DOMAIN exp_tuples},
             exp_policy, nfnl_exp_build_message, nfnlmsg_exp_parse, exp_compare)
          EXCEPT !.requires = {"FAMILY"},
                 !.depends = {<<exp_tuples[x][y], "FAMILY">> :
                                x \in DOMAIN exp_tuples, y \in {"src", "dst"}}]

-----------------------------------------------------------------------------
(* Logs and queues: their configuration is sent and never received.        *)

\* The flags are kept, and not used.
log_api == Open({"GROUP", "COPY_MODE", "COPY_RANGE", "FLUSH_TIMEOUT", "ALLOC_SIZE",
                 "QUEUE_THRESHOLD"})
           \cup {[a EXCEPT !.sets = {}, !.readable = FALSE] : a \in set_unset("log_flags")}

\* The range is sent with the mode.
nfnl_log_build_request ==
    PutAlways("be16", {"GROUP"}) \cup Put("u8", {"COPY_MODE"})
    \cup {PutAs({"COPY_MODE"}, "COPY_RANGE", "COPY_RANGE", "be32")}
    \cup Put("be32", {"FLUSH_TIMEOUT", "ALLOC_SIZE", "QUEUE_THRESHOLD"})

\* Bind and unbind: a command, in a message of its own or with the rest.
log_command(cmd) == {PutAs({}, cmd, "CMD", "u8")}

nfnl_log_compare == Diff({"GROUP", "COPY_MODE", "COPY_RANGE", "FLUSH_TIMEOUT", "ALLOC_SIZE",
                          "QUEUE_THRESHOLD"})

log == [Type(log_api, {}, nfnl_log_build_request \cup log_command("some"), {},
             nfnl_log_compare)
          EXCEPT !.refuse = {Refuse({}, {}, {"GROUP"})}]

queue_api == Open({"GROUP", "MAXLEN", "COPY_MODE", "COPY_RANGE"})

nfnl_queue_build_request ==
    PutAlways("be16", {"GROUP"}) \cup Put("be32", {"MAXLEN"}) \cup Put("u8", {"COPY_MODE"})
    \cup {PutAs({"COPY_MODE"}, "COPY_RANGE", "COPY_RANGE", "be32")}
    \cup log_command("some")

nfnl_queue_compare == Diff({"GROUP", "MAXLEN", "COPY_MODE", "COPY_RANGE"})

queue == [Type(queue_api, {}, nfnl_queue_build_request, {}, nfnl_queue_compare)
            EXCEPT !.refuse = {Refuse({}, {}, {"GROUP"})}]

-----------------------------------------------------------------------------
(* Packets, from a log or from a queue; the protocol of the link layer is  *)
(* kept in network order.                                                  *)

packet_policy == Policy("u32", {"MARK", "INDEV", "OUTDEV", "PHYSINDEV", "PHYSOUTDEV", "UID",
                                "GID", "SEQ", "SEQ_GLOBAL"})
                 \cup Policy("timestamp", {"TIMESTAMP"}) \cup Policy("hw", {"HWADDR"})
                 \cup Policy("str", {"PREFIX"})

log_msg_family_hook_mark == Guarded({"FAMILY", "TIMESTAMP"})
                            \cup Open({"HWPROTO", "HOOK", "MARK"})

log_msg_devices == Open({"INDEV", "OUTDEV", "PHYSINDEV", "PHYSOUTDEV"})
                   \cup Guarded({"HWADDR"})

log_msg_payload_owner == Guarded({"PAYLOAD"})
                         \cup Open({"PREFIX", "UID", "GID", "SEQ", "SEQ_GLOBAL"})

nfnlmsg_log_msg_parse ==
    Read("u8", {"FAMILY", "HOOK"}) \cup ReadNonzero("be16", {"HWPROTO"})
    \cup Read("be32", {"MARK", "INDEV", "OUTDEV", "PHYSINDEV", "PHYSOUTDEV", "UID", "GID",
                       "SEQ", "SEQ_GLOBAL"})
    \cup Read("timestamp", {"TIMESTAMP"}) \cup Read("hw", {"HWADDR"})
    \cup Read("data", {"PAYLOAD"}) \cup Read("str", {"PREFIX"})

log_msg == [Type(log_msg_family_hook_mark \cup log_msg_devices \cup log_msg_payload_owner,
                 packet_policy, {}, nfnlmsg_log_msg_parse, {})
              EXCEPT !.requires = {"FAMILY"}]

queue_msg_ids == Open({"GROUP", "PACKETID", "HWPROTO", "HOOK", "MARK"})
                 \cup Guarded({"FAMILY", "TIMESTAMP"})

queue_msg_devices == Open({"INDEV", "OUTDEV", "PHYSINDEV", "PHYSOUTDEV"})
                     \cup Guarded({"HWADDR"})

queue_msg_payload_verdict == Guarded({"PAYLOAD"}) \cup Open({"VERDICT"})

nfnlmsg_queue_msg_parse ==
    Read("be16", {"GROUP"}) \cup Read("u8", {"FAMILY", "HOOK"})
    \cup ReadNonzero("be16", {"HWPROTO"})
    \cup Read("be32", {"PACKETID", "MARK", "INDEV", "OUTDEV", "PHYSINDEV", "PHYSOUTDEV"})
    \cup Read("timestamp", {"TIMESTAMP"}) \cup Read("hw", {"HWADDR"})
    \cup Read("data", {"PAYLOAD"})

\* A verdict names the packet; only the mark is sent back as it came.
nfnl_queue_msg_build_verdict ==
    nfgenmsg_family \cup PutAlways("be16", {"GROUP"}) \cup Put("be32", {"MARK"})
    \cup {PutAs({}, "PACKETID", "VERDICT_HDR.id", "be32"),
          PutAs({}, "VERDICT", "VERDICT_HDR.verdict", "be32")}

queue_msg == [Type(queue_msg_ids \cup queue_msg_devices \cup queue_msg_payload_verdict,
                   packet_policy, nfnl_queue_msg_build_verdict, nfnlmsg_queue_msg_parse, {})
                EXCEPT !.requires = {"FAMILY", "GROUP"}]
=============================================================================
