---------------------------- MODULE NlAttrRoute -----------------------------
(***************************************************************************)
(* The tables of the routing family's objects, lib/route/*.c.              *)
(***************************************************************************)
EXTENDS NlAttr

-----------------------------------------------------------------------------
(* Links, without the parts that have tables of their own (link info,      *)
(* address families, virtual functions).                                   *)

rtln_link_policy ==
    Policy("name", {"IFNAME", "QDISC", "IFALIAS", "PHYS_PORT_NAME"})
    \cup Policy("u32", {"MTU", "TXQLEN", "LINK", "WEIGHT", "MASTER", "NUM_VF",
                        "PROMISCUITY", "NUM_TX_QUEUES", "NUM_RX_QUEUES", "GSO_MAX_SEGS",
                        "GSO_MAX_SIZE", "GROUP", "CARRIER_CHANGES", "NET_NS_PID",
                        "NET_NS_FD"})
    \cup Policy("u8", {"OPERSTATE", "LINKMODE", "CARRIER"})
    \cup Policy("any", {"PHYS_PORT_ID", "PHYS_SWITCH_ID"})
    \cup Policy("rtnl_link_stats", {"STATS"}) \cup Policy("rtnl_link_stats64", {"STATS64"})
    \cup Policy("rtnl_link_ifmap", {"MAP"})

link_info_policy == Policy("str", {"INFO_KIND"})

\* The 64 bit statistics come second.
link_info_parse_stats ==
    {[ReadAs("STATS", "rtnl_link_stats", "STATS", {"STATS"}) EXCEPT !.unless = {"STATS64"}],
     ReadAs("STATS64", "rtnl_link_stats64", "STATS", {"STATS"})}

rtnl_link_info_parse ==
    link_info_parse_stats
    \cup Read("u32", {"TXQLEN", "MTU", "LINK", "WEIGHT", "MASTER", "CARRIER_CHANGES"})
    \cup Read("s32", {"LINK_NETNSID"}) \cup Read("str", {"IFNAME", "QDISC", "IFALIAS"})
    \cup Read("u8", {"CARRIER", "OPERSTATE", "LINKMODE"})
    \cup Read("rtnl_link_ifmap", {"MAP"})
    \cup {ReadAs("ADDRESS", "addr", "ADDR", {"ADDR"}),
          ReadAs("BROADCAST", "addr", "BRD", {"BRD"}),
          ReadAs("NET_NS_FD", "u32", "NS_FD", {"NS_FD"}),
          ReadAs("NET_NS_PID", "u32", "NS_PID", {"NS_PID"})}

\* The header, and what is not link information.
link_msg_parse ==
    rtnl_link_info_parse
    \cup {ReadAs("ifi_family", "u8", "FAMILY", {"FAMILY"}),
          ReadAs("ifi_type", "u16", "ARPTYPE", {"ARPTYPE"}),
          ReadAs("ifi_index", "u32", "IFINDEX", {"IFINDEX"}),
          ReadAs("ifi_flags", "u32", "FLAGS", {"FLAGS"}),
          ReadAs("ifi_change", "u32", "CHANGE", {"CHANGE"}),
          ReadAs("INFO_KIND", "str", "LINKINFO", {"LINKINFO"}),
          ReadAs("INFO_SLAVE_KIND", "str", "LINKINFO_SLAVE_KIND",
                 {"LINKINFO_SLAVE_KIND"})}
    \cup Read("u32", {"NUM_VF", "PROMISCUITY", "NUM_TX_QUEUES", "NUM_RX_QUEUES", "GROUP",
                      "GSO_MAX_SEGS", "GSO_MAX_SIZE"})
    \cup Read("data", {"PHYS_PORT_ID", "PHYS_SWITCH_ID"}) \cup Read("str", {"PHYS_PORT_NAME"})

link_compare ==
    Diff({"IFINDEX", "MTU", "LINK", "LINK_NETNSID", "TXQLEN", "WEIGHT", "MASTER", "FAMILY",
          "OPERSTATE", "LINKMODE", "QDISC", "IFNAME", "ADDR", "BRD", "IFALIAS", "NUM_VF",
          "PROMISCUITY", "NUM_TX_QUEUES", "NUM_RX_QUEUES", "GROUP", "FLAGS", "LINKINFO"})

rtnl_link_fill_info ==
    Put("u32", {"MTU", "TXQLEN", "WEIGHT", "LINK", "MASTER", "NUM_TX_QUEUES",
                "NUM_RX_QUEUES"})
    \cup Put("str", {"IFNAME", "IFALIAS"})
    \cup Put("u8", {"OPERSTATE", "CARRIER", "LINKMODE"}) \cup Put("s32", {"LINK_NETNSID"})
    \cup {PutAs({"ADDR"}, "ADDR", "ADDRESS", "addr"),
          PutAs({"BRD"}, "BRD", "BROADCAST", "addr"),
          PutAs({"NS_FD"}, "NS_FD", "NET_NS_FD", "u32"),
          PutAs({"NS_PID"}, "NS_PID", "NET_NS_PID", "u32")}

build_link_msg ==
    rtnl_link_fill_info \cup Put("u32", {"GROUP"})
    \cup {PutAs({"LINKINFO"}, "LINKINFO", "INFO_KIND", "str"),
          PutAs({"LINKINFO_SLAVE_KIND"}, "LINKINFO_SLAVE_KIND", "INFO_SLAVE_KIND", "str")}

\* The hardware type is not sent: the header says zero.
link_add_request ==
    build_link_msg
    \cup {PutAs({}, "FAMILY", "ifi_family", "u8"), PutAs({}, "none", "ifi_type", "u16"),
          PutAs({}, "IFINDEX", "ifi_index", "u32"), PutAs({}, "FLAGS", "ifi_flags", "u32"),
          PutAs({}, "flag_mask", "ifi_change", "u32")}

link_name_group_addresses == Text("cuts", Guarded({"IFNAME"})) \cup Guarded({"ADDR", "BRD"})
                             \cup Open({"GROUP"})

\* The value says whether the flag is set or unset.
link_flags == {[Attr("FLAGS") EXCEPT !.marks = {"flag_mask"}, !.needs = {}]}

link_family_arptype_index_mtu == Guarded({"FAMILY", "ARPTYPE"}) \cup Open({"IFINDEX", "MTU"})

link_txqlen_link_master_carrier ==
    Guarded({"TXQLEN", "LINK_NETNSID"}) \cup Open({"LINK", "MASTER", "CARRIER"})
    \cup ReadOnly({"CARRIER_CHANGES"})

\* An alias may have any length.
link_operstate_linkmode_alias_qdisc ==
    Open({"OPERSTATE", "LINKMODE"}) \cup Text("takes", Pointer({"IFALIAS"}))
    \cup Text("cuts", Guarded({"QDISC"}))
    \cup ReadOnly({"NUM_VF"})

\* The statistics have no bit when they are set.
link_stat_types ==
    {[Attr("STATS") EXCEPT !.sets = {}, !.needs = {}]}
    \cup Text("takes", Pointer({"LINKINFO", "LINKINFO_SLAVE_KIND"}))

link_promiscuity_queues_phys ==
    Open({"PROMISCUITY", "NUM_TX_QUEUES", "NUM_RX_QUEUES"})
    \cup ReadOnly({"GSO_MAX_SEGS", "GSO_MAX_SIZE"})
    \cup ReadOpen({"PHYS_PORT_ID", "PHYS_PORT_NAME"})

link_switch_ns == ReadOpen({"PHYS_SWITCH_ID"}) \cup Open({"NS_FD", "NS_PID"})

link_weight == Open({"WEIGHT"})

link_api == link_name_group_addresses \cup link_flags \cup link_family_arptype_index_mtu
            \cup link_txqlen_link_master_carrier \cup link_operstate_linkmode_alias_qdisc
            \cup link_stat_types \cup link_promiscuity_queues_phys \cup link_switch_ns
            \cup link_weight

link == [Type(link_api, rtln_link_policy \cup link_info_policy, link_add_request,
              link_msg_parse, link_compare)
           EXCEPT !.requires = {"ifi_family", "ifi_type", "ifi_index", "ifi_flags",
                                "ifi_change", "IFNAME"}]

-----------------------------------------------------------------------------
(* The peer of a veth link is a link; its header fields have no bits.      *)

veth_parse ==
    rtnl_link_info_parse
    \cup {ReadAs("ifi_family", "u8", "FAMILY", {}), ReadAs("ifi_type", "u16", "ARPTYPE", {}),
          ReadAs("ifi_index", "u32", "IFINDEX", {}), ReadAs("ifi_flags", "u32", "FLAGS", {}),
          ReadAs("ifi_change", "u32", "CHANGE", {})}

veth_put_attrs ==
    rtnl_link_fill_info
    \cup {PutAs({}, "FAMILY", "ifi_family", "u8"), PutAs({}, "ARPTYPE", "ifi_type", "u16"),
          PutAs({}, "IFINDEX", "ifi_index", "u32"), PutAs({}, "FLAGS", "ifi_flags", "u32"),
          PutAs({}, "CHANGE", "ifi_change", "u32")}

veth == [Type(link_name_group_addresses \cup link_flags \cup link_family_arptype_index_mtu,
              rtln_link_policy, veth_put_attrs, veth_parse, link_compare)
           EXCEPT !.requires = link.requires]

-----------------------------------------------------------------------------
(* Addresses.  The family is zero for IPv4, one for IPv6; an address has   *)
(* no prefix length of its own.                                            *)

addr_policy == Policy("name", {"ALIAS", "LABEL"})
               \cup Policy("ifa_cacheinfo", {"CACHEINFO.valid", "CACHEINFO.prefered"})

\* IPv4: a missing address is 0.0.0.0, a peer equal to the local address none.
addr_parse_ipv4 ==
    {[r EXCEPT !.not = {"ifa_family"}] : r \in
       {ReadAs("ifa_family", "u8", "FAMILY", {"LOCAL"}),
        [ReadAs("ADDRESS", "addr", "PEER", {"PEER"})
           EXCEPT !.with = {"LOCAL"}, !.other = {"LOCAL"}],
        [ReadAs("ADDRESS", "addr", "PEER", {"PEER"})
           EXCEPT !.unless = {"LOCAL"}, !.nz = TRUE],
        [ReadAs("LOCAL", "addr", "LOCAL", {"PEER"})
           EXCEPT !.unless = {"ADDRESS"}, !.nz = TRUE]}}

\* IPv6: an address alone is the local one.
addr_parse_ipv6 ==
    {[r EXCEPT !.when = {"ifa_family"}] : r \in
       {[ReadAs("ADDRESS", "addr", "LOCAL", {"LOCAL"}) EXCEPT !.unless = {"LOCAL"}],
        [ReadAs("ADDRESS", "addr", "PEER", {"PEER"})
           EXCEPT !.with = {"LOCAL"}, !.other = {"LOCAL"}]}}

\* Flags beyond the eight of the header are an attribute, which comes first.
addr_msg_parser ==
    addr_parse_ipv4 \cup addr_parse_ipv6
    \cup {ReadAs("ifa_family", "u8", "FAMILY", {"FAMILY"}),
          ReadAs("ifa_prefixlen", "u8", "PREFIXLEN", {"PREFIXLEN"}),
          ReadAs("ifa_scope", "u8", "SCOPE", {"SCOPE"}),
          ReadAs("ifa_index", "u32", "IFINDEX", {"IFINDEX"}),
          [ReadAs("ifa_flags", "u8", "FLAGS", {"FLAGS"}) EXCEPT !.unless = {"FLAGS"}],
          ReadAs("CACHEINFO.valid", "ifa_cacheinfo", "CACHEINFO.valid", {"CACHEINFO"}),
          ReadAs("CACHEINFO.prefered", "ifa_cacheinfo", "CACHEINFO.prefered",
                 {"CACHEINFO"})}
    \cup Read("u32", {"FLAGS"}) \cup Read("str", {"ALIAS", "LABEL"})
    \cup Read("addr", {"LOCAL", "BROADCAST", "MULTICAST", "ANYCAST"})

\* The alias and the prefix length are not compared.
addr_compare ==
    Diff({"IFINDEX", "FAMILY", "SCOPE", "LABEL", "PEER", "LOCAL", "MULTICAST", "BROADCAST",
          "ANYCAST", "FLAGS"})
    \cup {DiffAs("CACHEINFO", "CACHEINFO.valid"), DiffAs("CACHEINFO", "CACHEINFO.prefered")}

\* The flags and the scope of a new address are zero.
build_addr_msg ==
    {PutAs({}, "FAMILY", "ifa_family", "u8"), PutAs({}, "IFINDEX", "ifa_index", "u32"),
     PutAs({}, "PREFIXLEN", "ifa_prefixlen", "u8"), PutAs({}, "FLAGS", "ifa_flags", "u8"),
     PutAs({}, "SCOPE", "ifa_scope", "u8"),
     PutAs({"PEER"}, "PEER", "ADDRESS", "addr"),
     [PutAs({"LOCAL"}, "LOCAL", "ADDRESS", "addr") EXCEPT !.unless = {"PEER"}],
     PutAs({"CACHEINFO"}, "CACHEINFO.valid", "CACHEINFO.valid", "ifa_cacheinfo"),
     PutAs({"CACHEINFO"}, "CACHEINFO.prefered", "CACHEINFO.prefered", "ifa_cacheinfo")}
    \cup Put("addr", {"LOCAL", "BROADCAST"}) \cup Put("str", {"ALIAS", "LABEL"})
    \cup PutNonzero("u32", {"FLAGS"})

addr_label_index_family_prefixlen ==
    Text("refuses", Guarded({"ALIAS", "LABEL"})) \cup Open({"IFINDEX", "FAMILY", "SCOPE"})
    \cup Pointer({"PREFIXLEN"})

\* A local address sets the prefix length unless there is a peer.
addr_flags_local ==
    LET local == [Attr("LOCAL") EXCEPT !.sets = {"LOCAL", "FAMILY"}, !.needs = {}]
    IN Open({"FLAGS"})
       \cup {[local EXCEPT !.after = {"PEER"}],
             [local EXCEPT !.lacks = {"PEER"}, !.loses = {"PREFIXLEN"}]}
       \cup {[a EXCEPT !.after = {"PEER"}] : a \in Reset({"LOCAL"})}
       \cup {[a EXCEPT !.lacks = {"PEER"}, !.loses = {"LOCAL", "PREFIXLEN"}] :
               a \in Reset({"LOCAL"})}

\* Peer and broadcast address are IPv4, multicast and anycast address IPv6.
addr_peer_broadcast_multicast_anycast ==
    LET v4(a) == [Attr(a) EXCEPT !.sets = {a, "FAMILY"}, !.needs = {}, !.zero = {"FAMILY"}]
        v6(a) == [Attr(a) EXCEPT !.sets = {a, "FAMILY"}, !.needs = {}]
    IN {[v4("PEER") EXCEPT !.loses = {"PREFIXLEN"}], v4("BROADCAST")}
       \cup {[v6(a) EXCEPT !.pre = {"FAMILY"}] : a \in {"MULTICAST", "ANYCAST"}}
       \cup {[v6(a) EXCEPT !.lacks = {"FAMILY"}, !.marks = {"FAMILY"}] :
               a \in {"MULTICAST", "ANYCAST"}}
       \cup {[a EXCEPT !.loses = {"PEER", "PREFIXLEN"}] : a \in Reset({"PEER"})}
       \cup Reset({"BROADCAST", "MULTICAST", "ANYCAST"})

addr_lifetimes ==
    {Named(f, "CACHEINFO") : f \in {"CACHEINFO.valid", "CACHEINFO.prefered"}}

addr_obj ==
    [Type(addr_label_index_family_prefixlen \cup addr_flags_local
          \cup addr_peer_broadcast_multicast_anycast \cup addr_lifetimes,
          addr_policy, build_addr_msg, addr_msg_parser, addr_compare)
       EXCEPT !.requires = {"ifa_family", "ifa_prefixlen", "ifa_scope", "ifa_index",
                            "ifa_flags"}]

-----------------------------------------------------------------------------
(* Neighbours.  The family is one for AF_BRIDGE, zero for the family of    *)
(* the destination; a state of zero is NUD_PERMANENT.                      *)

neigh_policy == Policy("nda_cacheinfo", {"CACHEINFO"}) \cup Policy("u32", {"PROBES"})

\* Without NDA_MASTER the master comes from the link cache, if there is one.
rtnl_neigh_parse ==
    {ReadAs("ndm_family", "u8", "FAMILY", {"FAMILY"}),
     ReadAs("ndm_ifindex", "u32", "IFINDEX", {"IFINDEX"}),
     ReadAs("ndm_state", "u16", "STATE", {"STATE"}),
     ReadAs("ndm_flags", "u8", "FLAGS", {"FLAGS"}),
     ReadAs("ndm_type", "u8", "TYPE", {"TYPE"}),
     [ReadAs("MASTER", "u32", "MASTER", {"MASTER"}) EXCEPT !.when = {"ndm_family"}]}
    \cup Read("addr", {"LLADDR", "DST"}) \cup Read("u32", {"PROBES"})
    \cup Read("u16", {"VLAN", "ENTRY_STATE"}) \cup Read("nda_cacheinfo", {"CACHEINFO"})

build_neigh_msg ==
    {PutAs({}, "FAMILY", "ndm_family", "u8"), PutAs({}, "IFINDEX", "ndm_ifindex", "u32"),
     PutAs({}, "none", "ndm_type", "u8"),
     PutAs({"FLAGS"}, "FLAGS", "ndm_flags", "u8"),
     [PutAs({}, "none", "ndm_flags", "u8") EXCEPT !.unless = {"FLAGS"}],
     PutAs({"STATE"}, "STATE", "ndm_state", "u16"),
     [PutAs({}, "none", "ndm_state", "u16") EXCEPT !.unless = {"STATE"}],
     [PutAs({}, "DST", "DST", "addr") EXCEPT !.zero = {"FAMILY"}]}
    \cup Put("addr", {"LLADDR"}) \cup Put("u16", {"VLAN"})

neigh_compare == Diff({"IFINDEX", "FAMILY", "TYPE", "LLADDR", "DST", "MASTER", "VLAN",
                       "STATE", "FLAGS"})

\* A destination of the family of the object.
neigh_state_flags_addresses ==
    Guarded({"STATE", "LLADDR"}) \cup ReadOnly({"ENTRY_STATE", "CACHEINFO"})
    \cup Open({"FLAGS", "IFINDEX"})
    \cup {[Attr("DST") EXCEPT !.sets = {"DST", "FAMILY"}, !.zero = {"FAMILY"}]}

\* rtnl_neigh_set_type() replaces the mask.
neigh_family_type_vlan_master ==
    Open({"FAMILY", "MASTER"}) \cup Guarded({"VLAN"})
    \cup {[Attr("TYPE") EXCEPT !.clears = {"FLAGS", "STATE", "LLADDR", "DST", "CACHEINFO",
                                           "IFINDEX", "FAMILY", "PROBES", "MASTER", "VLAN",
                                           "ENTRY_STATE"}]}

neigh_obj ==
    [Type(neigh_state_flags_addresses \cup neigh_family_type_vlan_master,
          neigh_policy, build_neigh_msg, rtnl_neigh_parse, neigh_compare)
       EXCEPT !.requires = {"ndm_family", "ndm_ifindex", "ndm_state", "ndm_flags",
                            "ndm_type"},
              !.refuse = {[Refuse({}, {}, {"DST"}) EXCEPT !.zero = {"FAMILY"}]}]

-----------------------------------------------------------------------------
(* Rules.  The family is zero for the family of the addresses.             *)

rule_policy ==
    Policy("u32", {"TABLE", "PRIORITY", "FWMARK", "FWMASK", "GOTO", "FLOW"})
    \cup Policy("name", {"IIFNAME", "OIFNAME"})
    \cup Policy("u8", {"L3MDEV", "PROTOCOL", "IP_PROTO"})
    \cup Policy("fib_rule_port_range", {"SPORT_RANGE", "DPORT_RANGE"})

rule_msg_header ==
    {ReadAs("frh_family", "u8", "FAMILY", {"FAMILY"}),
     ReadAs("frh_action", "u8", "ACTION", {"ACTION"}),
     ReadAs("frh_flags", "u32", "FLAGS", {"FLAGS"}),
     [ReadAs("frh_table", "u8", "TABLE", {"TABLE"})
        EXCEPT !.nz = TRUE, !.unless = {"TABLE"}],
     [ReadAs("frh_tos", "u8", "DSFIELD", {"DSFIELD"}) EXCEPT !.nz = TRUE],
     [ReadAs("TABLE", "u32", "TABLE", {"TABLE"}) EXCEPT !.nz = TRUE]}

rule_msg_parser ==
    rule_msg_header
    \cup Read("str", {"IIFNAME", "OIFNAME"}) \cup Read("u32", {"GOTO", "FLOW"})
    \cup Read("addr", {"SRC", "DST"}) \cup Read("u8", {"L3MDEV", "PROTOCOL", "IP_PROTO"})
    \cup {ReadAs("PRIORITY", "u32", "PRIO", {"PRIO"}),
          ReadAs("FWMARK", "u32", "MARK", {"MARK"}),
          ReadAs("FWMASK", "u32", "MASK", {"MASK"}),
          ReadAs("SPORT_RANGE", "fib_rule_port_range", "SPORT", {"SPORT"}),
          ReadAs("DPORT_RANGE", "fib_rule_port_range", "DPORT", {"DPORT"})}

\* Neither ports nor protocols are compared.
rule_compare == Diff({"FAMILY", "TABLE", "ACTION", "IIFNAME", "OIFNAME", "PRIO", "MARK",
                      "MASK", "GOTO", "SRC", "DST", "DSFIELD", "FLOW"})

build_rule_msg ==
    {PutAs({}, "FAMILY", "frh_family", "u8"), PutAs({}, "TABLE", "frh_table", "u8"),
     PutAs({}, "ACTION", "frh_action", "u8"), PutAs({}, "FLAGS", "frh_flags", "u32"),
     PutAs({}, "DSFIELD", "frh_tos", "u8"), PutAs({"PRIO"}, "PRIO", "PRIORITY", "u32"),
     PutAs({"MARK"}, "MARK", "FWMARK", "u32"), PutAs({"MASK"}, "MASK", "FWMASK", "u32"),
     PutAs({"SPORT"}, "SPORT", "SPORT_RANGE", "fib_rule_port_range"),
     PutAs({"DPORT"}, "DPORT", "DPORT_RANGE", "fib_rule_port_range")}
    \cup PutAlways("u32", {"TABLE"}) \cup Put("addr", {"SRC", "DST"})
    \cup Put("str", {"IIFNAME", "OIFNAME"}) \cup Put("u32", {"GOTO", "FLOW"})
    \cup Put("u8", {"L3MDEV", "IP_PROTO", "PROTOCOL"})

rule_family_prio_mark_table ==
    Guarded({"FAMILY"}) \cup Open({"PRIO", "MARK", "MASK", "TABLE", "DSFIELD"})

\* Addresses have the family of the rule, or give it theirs.
rule_addresses ==
    {[Attr(a) EXCEPT !.sets = {a, "FAMILY"}, !.needs = {}, !.zero = {"FAMILY"}] :
       a \in {"SRC", "DST"}}

\* Mutant: the length of the name is not looked at.
rule_interfaces_action_unchecked == Text("takes", Guarded({"IIFNAME", "OIFNAME"}))
                                    \cup Open({"ACTION"})

rule_interfaces_action == Text("refuses", Guarded({"IIFNAME", "OIFNAME"}))
                          \cup Open({"ACTION"})

\* A negative l3mdev and a zero of the others unset the attribute.
rule_l3mdev_protocols_ports ==
    Guarded({"L3MDEV"}) \cup Reset({"L3MDEV"})
    \cup {[Attr(a) EXCEPT !.drops = {a}] : a \in {"PROTOCOL", "IP_PROTO", "SPORT", "DPORT"}}

rule_realms_goto == Open({"FLOW", "GOTO"})

rule_obj ==
    [Type(rule_family_prio_mark_table \cup rule_addresses \cup rule_interfaces_action
          \cup rule_l3mdev_protocols_ports \cup rule_realms_goto,
          rule_policy, build_rule_msg, rule_msg_parser, rule_compare)
       EXCEPT !.requires = {"frh_family", "frh_table", "frh_action", "frh_flags", "frh_tos"},
              !.refuse = {Refuse({}, {}, {"FAMILY"})}]

-----------------------------------------------------------------------------
(* Next hops: of a route with several (nexthop), or the only one of a      *)
(* route (nexthop_only), whose flags are those of the route.               *)

nh_compare ==
    Diff({"IFINDEX", "WEIGHT", "REALMS", "GATEWAY", "NEWDST", "VIA", "FLAGS"})
    \cup {DiffAs("ENCAP", "ENCAP.dst"), DiffAs("ENCAP", "ENCAP.ttl")}

nh_set_encap == {[a EXCEPT !.loses = {"ENCAP", "ENCAP.dst", "ENCAP.ttl"}] :
                   a \in Reset({"ENCAP.dst"})}

nh_weight_ifindex_gateway == Open({"WEIGHT", "IFINDEX"}) \cup Pointer({"GATEWAY"})

nh_flags_realms == Open({"FLAGS", "REALMS"})

\* The address is looked at before it is known not to be NULL: the branch that
\* unsets the attribute is never reached.
nh_newdst_via == Open({"NEWDST", "VIA"})

\* A label stack is always sent, a time to live if it is not zero.
mpls_encap_build_msg == {PutAs({"ENCAP"}, "ENCAP.dst", "ENCAP.dst", "addr"),
                         [PutAs({"ENCAP"}, "ENCAP.ttl", "ENCAP.ttl", "u8")
                            EXCEPT !.nz = {"ENCAP.ttl"}]}

mpls_encap_parse_msg ==
    {ReadAs("ENCAP.dst", "addr", "ENCAP.dst", {"ENCAP"}),
     [ReadAs("ENCAP.ttl", "u8", "ENCAP.ttl", {}) EXCEPT !.with = {"ENCAP.dst"}]}

nh_encap_mpls ==
    {[Attr(f) EXCEPT !.sets = {"ENCAP"}, !.readable = FALSE] :
       f \in {"ENCAP.dst", "ENCAP.ttl"}}

nh_encap_type == {PutAs({"ENCAP"}, "ENCAP.dst", "ENCAP_TYPE", "u16")}

nh_api == nh_weight_ifindex_gateway \cup nh_flags_realms \cup nh_newdst_via
          \cup nh_encap_mpls \cup nh_set_encap

\* The addresses are not NULL if their bits are set.
nh_put ==
    {[PutAs({}, "IFINDEX", "OIF", "u32") EXCEPT !.nz = {"IFINDEX"}],
     [PutAs({}, "REALMS", "FLOW", "u32") EXCEPT !.nz = {"REALMS"}]}
    \cup Put("addr", {"GATEWAY", "NEWDST"}) \cup Put("rtvia", {"VIA"})
    \cup mpls_encap_build_msg \cup nh_encap_type

nh_put_multipath ==
    {p \in nh_put : p.nla # "OIF"}
    \cup {PutAs({}, "FLAGS", "rtnh_flags", "u8"), PutAs({}, "WEIGHT", "rtnh_hops", "u8"),
          PutAs({}, "IFINDEX", "rtnh_ifindex", "u32")}

nh_parse ==
    {ReadAs("OIF", "u32", "IFINDEX", {"IFINDEX"}),
     ReadAs("FLOW", "u32", "REALMS", {"REALMS"})}
    \cup Read("addr", {"GATEWAY", "NEWDST"}) \cup Read("rtvia", {"VIA"})
    \cup {[r EXCEPT !.with = r.with \cup {"ENCAP_TYPE"}] : r \in mpls_encap_parse_msg}

rtnl_route_parse_multipath ==
    {r \in nh_parse : r.nla # "OIF"}
    \cup {ReadAs("rtnh_hops", "u8", "WEIGHT", {"WEIGHT"}),
          ReadAs("rtnh_ifindex", "u32", "IFINDEX", {"IFINDEX"}),
          ReadAs("rtnh_flags", "u8", "FLAGS", {"FLAGS"})}

route_policy ==
    Policy("u32", {"IIF", "OIF", "PRIORITY", "FLOW"}) \cup Policy("u8", {"TTL_PROPAGATE"})
    \cup Policy("u16", {"ENCAP_TYPE"}) \cup Policy("rta_cacheinfo", {"CACHEINFO"})
    \cup Policy("any", {"METRICS", "MULTIPATH", "ENCAP.dst", "ENCAP.ttl"})

nexthop == [Type(nh_api, route_policy, nh_put_multipath, rtnl_route_parse_multipath,
                 nh_compare)
              EXCEPT !.requires = {"rtnh_hops", "rtnh_ifindex", "rtnh_flags"}]

nexthop_only ==
    [Type(nh_api, route_policy, nh_put \cup {PutAs({}, "FLAGS", "rtm_flags", "u32")},
          nh_parse \cup {ReadAs("rtm_flags", "u32", "FLAGS", {"FLAGS"})}, nh_compare)
       EXCEPT !.requires = {"rtm_flags"}]

-----------------------------------------------------------------------------
(* Routes.  Zero stands for what the constructor sets, for the family of   *)
(* the addresses, and for an empty address; of the metrics there is one.   *)

route_parse_header ==
    {ReadAs("rtm_family", "u8", "FAMILY", {"FAMILY", "PRIO", "DST"}),
     ReadAs("rtm_tos", "u8", "TOS", {"TOS"}), ReadAs("rtm_type", "u8", "TYPE", {"TYPE"}),
     ReadAs("rtm_scope", "u8", "SCOPE", {"SCOPE"}),
     ReadAs("rtm_protocol", "u8", "PROTOCOL", {"PROTOCOL"}),
     ReadAs("rtm_flags", "u32", "FLAGS", {"FLAGS"}),
     [ReadAs("rtm_table", "u8", "TABLE", {"TABLE"}) EXCEPT !.unless = {"TABLE"}]}
    \cup Read("addr", {"DST"})

rtnl_route_parse ==
    route_parse_header
    \cup Read("addr", {"SRC"}) \cup Read("u32", {"TABLE", "IIF"})
    \cup Read("u8", {"TTL_PROPAGATE"}) \cup Read("rta_cacheinfo", {"CACHEINFO"})
    \cup ReadNonzero("nested", {"MULTIPATH"})
    \cup {ReadAs("PRIORITY", "u32", "PRIO", {"PRIO"}),
          ReadAs("PREFSRC", "addr", "PREF_SRC", {"PREF_SRC"}),
          ReadAs("METRICS", "u32", "METRICS", {"METRICS", "metric"}),
          ReadAs("METRICS", "flag", "metric", {})}

\* The metric that is compared; the last one (RTAX_MAX) is not.
route_compare ==
    Diff({"FAMILY", "TOS", "TABLE", "PROTOCOL", "SCOPE", "TYPE", "PRIO", "DST", "SRC", "IIF",
          "PREF_SRC", "TTL_PROPAGATE", "METRICS", "FLAGS", "MULTIPATH"})
    \cup {DiffAs("METRICS", "metric")}

rtnl_route_guess_scope ==
    {[PutAs({}, "none", "rtm_scope", "u8") EXCEPT !.unless = {"SCOPE"}],
     PutAs({"SCOPE"}, "SCOPE", "rtm_scope", "u8")}

rtnl_route_build_msg ==
    rtnl_route_guess_scope
    \cup {PutAs({}, "FAMILY", "rtm_family", "u8"), PutAs({}, "TOS", "rtm_tos", "u8"),
          PutAs({}, "TABLE", "rtm_table", "u8"), PutAs({}, "PROTOCOL", "rtm_protocol", "u8"),
          PutAs({}, "TYPE", "rtm_type", "u8"), PutAs({}, "FLAGS", "rtm_flags", "u32"),
          PutAs({"PRIO"}, "PRIO", "PRIORITY", "u32"),
          PutAs({"PREF_SRC"}, "PREF_SRC", "PREFSRC", "addr"),
          PutAs({"metric"}, "METRICS", "METRICS", "u32"),
          [PutAs({"MULTIPATH"}, "MULTIPATH", "MULTIPATH", "nested")
             EXCEPT !.nz = {"MULTIPATH"}]}
    \cup PutAlways("u32", {"TABLE"}) \cup PutNonzero("addr", {"DST"})
    \cup Put("addr", {"SRC"}) \cup Put("u32", {"IIF"}) \cup Put("u8", {"TTL_PROPAGATE"})

route_table_scope_tos_protocol_prio == Open({"TABLE", "SCOPE", "TOS", "PROTOCOL", "PRIO"})

route_family_addresses ==
    Open({"FAMILY"})
    \cup {[Attr(a) EXCEPT !.sets = {a, "FAMILY"}, !.needs = {}, !.zero = {"FAMILY"}] :
            a \in {"DST", "SRC"}}

\* An unset metric leaves the bit of the metrics.
route_type_flags_metrics ==
    Open({"TYPE", "FLAGS"})
    \cup {[Attr("METRICS") EXCEPT !.sets = {"METRICS", "metric"}, !.marks = {"metric"},
                                  !.needs = {"metric"}]}
    \cup {[a EXCEPT !.loses = {"metric"}] : a \in Reset({"METRICS"})}

\* Next hops are added and removed; when the last one is removed the bit remains.
route_pref_src_iif_nexthops ==
    Open({"IIF"})
    \cup {[Attr("MULTIPATH") EXCEPT !.nonzero = TRUE, !.keeps = TRUE,
                                    !.marks = {"MULTIPATH"}],
          [Attr("MULTIPATH") EXCEPT !.after = {"MULTIPATH"}, !.readable = FALSE]}
    \cup {[Attr("PREF_SRC") EXCEPT !.sets = {"PREF_SRC", "FAMILY"}, !.needs = {},
                                   !.zero = {"FAMILY"}]}

route_ttl_propagate == Guarded({"TTL_PROPAGATE"})

route_obj ==
    [Type(route_table_scope_tos_protocol_prio \cup route_family_addresses
          \cup route_type_flags_metrics \cup route_pref_src_iif_nexthops
          \cup route_ttl_propagate,
          route_policy, rtnl_route_build_msg, rtnl_route_parse, route_compare)
       EXCEPT !.requires = {"rtm_family", "rtm_tos", "rtm_table", "rtm_protocol",
                            "rtm_scope", "rtm_type", "rtm_flags"},
              !.refuse = {Refuse({}, {}, {"DST"})}]

-----------------------------------------------------------------------------
(* Multicast routes are routes with a builder and a parser of their own.   *)
(* The protocol is not sent.                                               *)

mroute_policy == Policy("u32", {"IIF", "TABLE", "FLOW"}) \cup Policy("u16", {"ENCAP_TYPE"})
                 \cup Policy("any", {"DST", "SRC", "MULTIPATH"})

build_mroute_msg ==
    rtnl_route_guess_scope
    \cup {PutAs({}, "FAMILY", "rtm_family", "u8"), PutAs({}, "TOS", "rtm_tos", "u8"),
          PutAs({}, "TABLE", "rtm_table", "u8"), PutAs({}, "none", "rtm_protocol", "u8"),
          PutAs({}, "TYPE", "rtm_type", "u8"), PutAs({}, "FLAGS", "rtm_flags", "u32"),
          [PutAs({"MULTIPATH"}, "MULTIPATH", "MULTIPATH", "nested")
             EXCEPT !.nz = {"MULTIPATH"}]}
    \cup PutAlways("u32", {"TABLE"}) \cup PutNonzero("addr", {"DST"})
    \cup Put("addr", {"SRC"}) \cup Put("u32", {"IIF"})

mroute_compare == Diff({"FAMILY", "TOS", "TABLE", "PROTOCOL", "SCOPE", "TYPE", "DST", "SRC",
                        "IIF", "FLAGS", "MULTIPATH"})

\* Without an address there is an empty one.
mroute_parse_addr == {ReadAs("rtm_family", "u8", "FAMILY", {"FAMILY", "DST", "SRC"})}

rtnl_mroute_parse ==
    mroute_parse_addr
    \cup {ReadAs("rtm_tos", "u8", "TOS", {"TOS"}), ReadAs("rtm_type", "u8", "TYPE", {"TYPE"}),
          ReadAs("rtm_scope", "u8", "SCOPE", {"SCOPE"}),
          ReadAs("rtm_protocol", "u8", "PROTOCOL", {"PROTOCOL"}),
          ReadAs("rtm_flags", "u32", "FLAGS", {"FLAGS"}),
          [ReadAs("rtm_table", "u8", "TABLE", {"TABLE"}) EXCEPT !.unless = {"TABLE"}]}
    \cup Read("u32", {"TABLE", "IIF"}) \cup Read("addr", {"DST", "SRC"})
    \cup ReadNonzero("nested", {"MULTIPATH"})

mroute_obj ==
    [Type(route_table_scope_tos_protocol_prio \cup route_family_addresses
          \cup {a \in route_type_flags_metrics : a.name # "METRICS"}
          \cup {a \in route_pref_src_iif_nexthops : a.name # "PREF_SRC"},
          mroute_policy, build_mroute_msg, rtnl_mroute_parse, mroute_compare)
       EXCEPT !.requires = route_obj.requires, !.refuse = route_obj.refuse]

-----------------------------------------------------------------------------
(* The multicast database of a bridge, with its router ports and groups;   *)
(* an object is not sent, only one of its groups is, for one port.         *)

\* One of its router ports differs: the loop looks for a port that differs
\* from this one, and one such port is enough.
mdb_compare == Diff({"IFINDEX", "RPORT", "ADDR"})

\* Empty lists are not attributes of the object.
mdb_msg_parser ==
    {[ReadAs("br_ifindex", "u32", "IFINDEX", {"IFINDEX"}) EXCEPT !.when = {n}] :
       n \in {"MDB", "ROUTER"}}
    \cup {[ReadAs("MDB", "br_mdb_entry", "ADDR", {"ADDR"}) EXCEPT !.nz = TRUE],
          [ReadAs("ROUTER", "u32", "RPORT", {"RPORT"}) EXCEPT !.nz = TRUE]}

mdb_groups_and_ports ==
    Unmasked({"IFINDEX"})
    \cup {[Attr(a) EXCEPT !.nonzero = TRUE, !.keeps = TRUE, !.marks = {a}] :
            a \in {"ADDR", "RPORT"}}
    \cup {[Attr(a) EXCEPT !.after = {a}, !.readable = FALSE] : a \in {"ADDR", "RPORT"}}

mdb_walk == {[Attr(a) EXCEPT !.writable = FALSE, !.nonzero = TRUE] : a \in {"ADDR", "RPORT"}}

mdb_obj == [Type(mdb_groups_and_ports \cup mdb_walk, {}, {}, mdb_msg_parser, mdb_compare)
              EXCEPT !.requires = {"br_ifindex"}]

\* The state a group is sent with is MDB_PERMANENT, here zero.
build_mdb_msg == {PutAs({}, a, a, "br_mdb_entry") : a \in {"ifindex", "proto", "addr"}}
                 \cup {PutAs({}, "none", "state", "br_mdb_entry"),
                       PutAs({}, "vid", "vid", "br_mdb_entry")}

mdb_parse_entry == ReadBare("br_mdb_entry", {"ifindex", "proto", "addr", "vid", "state"})

mgport_ifindex == Unmasked({"ifindex"})

\* Zero is the protocol of IPv4, one that of link layer addresses.
mgrp_addr_vid_state ==
    Unmasked({"vid"}) \cup {[a EXCEPT !.writable = FALSE] : a \in Unmasked({"state"})}
    \cup {[a EXCEPT !.loses = {"proto"}] : a \in Unmasked({"addr"})}
    \cup {[a EXCEPT !.marks = {"proto"}] : a \in Unmasked({"addr"})}

mgrp == [Type(mgport_ifindex \cup mgrp_addr_vid_state, {}, build_mdb_msg, mdb_parse_entry, {})
           EXCEPT !.requires = {"ifindex", "proto", "addr", "vid", "state"}]

-----------------------------------------------------------------------------
(* Neighbour tables.  There are no getters: the attributes are read when   *)
(* the object is dumped, under their bits.                                 *)

neightbl_policy ==
    Policy("name", {"NAME"}) \cup Policy("u32", {"THRESH1", "THRESH2", "THRESH3",
                                                 "GC_INTERVAL"})
    \cup Policy("ndt_config", {"CONFIG"}) \cup Policy("ndt_stats", {"STATS"})

neightbl_parms ==
    {"IFINDEX", "QUEUE_LEN", "APP_PROBES", "UCAST_PROBES", "MCAST_PROBES", "PROXY_QLEN",
     "PROXY_DELAY", "ANYCAST_DELAY", "LOCKTIME", "BASE_REACHABLE_TIME", "RETRANS_TIME",
     "GC_STALETIME", "DELAY_PROBE_TIME"}

\* The family is read without its bit.
neightbl_msg_parser ==
    Read("str", {"NAME"}) \cup Read("u32", {"THRESH1", "THRESH2", "THRESH3", "GC_INTERVAL"})
    \cup Read("ndt_config", {"CONFIG"}) \cup Read("ndt_stats", {"STATS"})
    \cup {ReadAs("rtgen_family", "u8", "FAMILY", {})}
    \cup {ReadAs(p, "u32", p, {p, "PARMS"}) : p \in neightbl_parms}

neightbl_compare == Diff({"FAMILY", "NAME", "THRESH1", "THRESH2", "THRESH3", "GC_INTERVAL"})

\* The second threshold is put twice, the third never; the delay of the first
\* probe is put with the value of the proxy's; times have 64 bits.
neightbl_change_request ==
    PutAlways("str", {"NAME"}) \cup Put("u32", {"THRESH1", "THRESH2"})
    \cup Put("u64", {"GC_INTERVAL"}) \cup {PutAs({}, "FAMILY", "rtgen_family", "u8")}
    \cup {[PutAs({p}, p, p, "u32") EXCEPT !.all = {"PARMS"}] :
            p \in {"IFINDEX", "QUEUE_LEN", "APP_PROBES", "UCAST_PROBES", "MCAST_PROBES",
                   "PROXY_QLEN"}}
    \cup {[PutAs({p}, p, p, "u64") EXCEPT !.all = {"PARMS"}] :
            p \in {"BASE_REACHABLE_TIME", "RETRANS_TIME", "GC_STALETIME", "ANYCAST_DELAY",
                   "PROXY_DELAY", "LOCKTIME"}}
    \cup {[PutAs({"DELAY_PROBE_TIME"}, "PROXY_DELAY", "DELAY_PROBE_TIME", "u64")
             EXCEPT !.all = {"PARMS"}]}

neightbl_thresholds ==
    Guarded({"FAMILY", "GC_INTERVAL", "THRESH1", "THRESH2", "THRESH3"})
    \cup Text("cuts", Guarded({"NAME"}))

neightbl_set_parms == {[Attr(p) EXCEPT !.sets = {p, "PARMS"}] : p \in neightbl_parms}

neightbl ==
    [Type(neightbl_thresholds \cup neightbl_set_parms, neightbl_policy,
          neightbl_change_request, neightbl_msg_parser, neightbl_compare)
       EXCEPT !.requires = {"rtgen_family", "NAME"}]

-----------------------------------------------------------------------------
(* Network configurations are only reported.                               *)

devconf_policy == Policy("u32", {"IFINDEX", "FORWARDING", "MC_FORWARDING", "RP_FILTER",
                                 "PROXY_NEIGH", "LINKDOWN", "INPUT"})

netconf_msg_parser ==
    {ReadAs("ncm_family", "u8", "FAMILY", {"FAMILY"}),
     ReadAs("FORWARDING", "u32", "FWDING", {"FWDING"}),
     ReadAs("MC_FORWARDING", "u32", "MC_FWDING", {"MC_FWDING"}),
     ReadAs("LINKDOWN", "u32", "IGNORE_RT_LINKDWN", {"IGNORE_RT_LINKDWN"})}
    \cup Read("u32", {"IFINDEX", "RP_FILTER", "PROXY_NEIGH", "INPUT"})

netconf_compare == Diff({"FAMILY", "IFINDEX", "RP_FILTER", "FWDING", "MC_FWDING",
                         "PROXY_NEIGH", "IGNORE_RT_LINKDWN", "INPUT"})

netconf_getters == ReadOnly({"FAMILY", "IFINDEX", "FWDING", "MC_FWDING", "RP_FILTER",
                             "PROXY_NEIGH", "IGNORE_RT_LINKDWN", "INPUT"})

netconf == [Type(netconf_getters, devconf_policy, {}, netconf_msg_parser, netconf_compare)
              EXCEPT !.requires = {"ncm_family", "IFINDEX"}]
=============================================================================
