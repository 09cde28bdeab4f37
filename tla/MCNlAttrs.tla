----------------------------- MODULE MCNlAttrs ------------------------------
EXTENDS NlAttrs

AllKinds == DOMAIN Tables

Of(k, S) == {<<k, a>> : a \in S}

\* The comparison looks at the field of another attribute (vxlan: vxi_proxy),
\* reports two bits for one change (bridge) or another bit than the one of the
\* attribute (IPsec), or compares only what both have.
WrongDiff == Of("vxlan", {"RSC", "L2MISS", "L3MISS", "UDP_CSUM", "UDP_ZERO_CSUM6_TX",
                          "UDP_ZERO_CSUM6_RX", "REMCSUM_TX", "REMCSUM_RX"})
             \cup Of("bridge", {"HWMODE", "SELF", "FLUSH"})
             \cup Of("macsec", {"SCI"}) \cup Of("route", {"METRICS", "metric"})
             \cup UNION {Of(k, {"SEL", "replay_state", "replay_state_esn"}) :
                           k \in {"sa", "sa_delete"}}
             \cup Of("sp", {"SEL"}) \cup Of("sp_delete", {"SEL"})
             \cup Of("ae", {"DADDR", "replay_state", "replay_state_esn"})

\* Written with another width, byte order, attribute or bit than it is read.
WrongForm == Of("vxlan", {"PORT"}) \cup Of("geneve", {"PORT"})
             \cup Of("can", {"STATE", "CLOCK", "CTRLMODE", "RESTART_MS"})
             \cup Of("ipgre", {"OFLAGS"}) \cup Of("ipvti", {"OKEY"})
             \cup Of("vf", {"VLAN.proto"})
             \cup Of("neightbl", {"ANYCAST_DELAY", "BASE_REACHABLE_TIME", "DELAY_PROBE_TIME",
                                  "GC_INTERVAL", "GC_STALETIME", "LOCKTIME", "PROXY_DELAY",
                                  "RETRANS_TIME"})
             \cup Of("flower", {"VLAN_PRIO"}) \cup Of("skbedit", {"QUEUE_MAPPING"})
             \cup Of("sa", {"COADDR"}) \cup Of("ae", {"REPLAY_MAXAGE", "REPLAY_MAXDIFF"})
             \cup Of("exp", {"NAT_DIR"})

\* The kernel's answer has another form than the request, or the parser takes
\* no notice of what the builder sends.
OneWay == Of("inet", {"CONF"}) \cup Of("vf", {"INDEX", "RATE_MAX", "RATE_MIN"})
          \cup Of("macsec", {"WINDOW"}) \cup Of("queue_msg", {"PACKETID"})
          \cup Of("macvlan", {"MACADDR"})
          \cup Of("addr", {"PEER", "LOCAL"}) \cup Of("neigh", {"DST"})
          \cup Of("neightbl", {"FAMILY"})
          \cup Of("veth", {"ARPTYPE", "FAMILY", "FLAGS", "IFINDEX"})
          \cup Of("dsmark_qdisc", {"SET_TC_INDEX"}) \cup Of("nat", {"ACT_INDEX"})
          \cup Of("skbedit", {"action"})
          \cup Of("mqprio", {"MODE", "SHAPER", "MIN_RATE", "MAX_RATE"})

\* The builder sends a default for what the object does not have.
Defaulted == Of("htb_class", {"CEIL"}) \cup Of("netem", {"GAP", "LIMIT"})

\* The setter replaces the mask, or drops an attribute of its own accord.
WrongSetter == Of("neigh", {"TYPE"}) \cup Of("addr", {"PREFIXLEN"})

\* rtnl_link_set_ifalias() takes an alias of any length, the policy IFALIASZ.
UnboundedAttrs == Of("link", {"IFALIAS"})

\* Kinds whose parameters no comparison looks at, ...
NoComparison ==
    {"vlan", "macvlan", "macvtap", "ipvlan", "vrf", "ppp", "xfrmi", "sit", "ipgre", "ipvti",
     "ipip", "ip6_tnl", "geneve", "can", "inet", "vf",
     "fifo_qdisc", "tbf", "prio", "sfq", "red", "dsmark_qdisc", "dsmark_class", "fq_codel",
     "hfsc_qdisc", "hfsc_class", "htb_qdisc", "htb_class", "mqprio", "netem",
     "basic", "cgroup", "mall", "u32", "flower", "mirred", "nat", "police", "skbedit",
     "act_vlan", "log_msg", "queue_msg"}

\* ... and bits that the comparisons of the others leave out.
UncomparedBits ==
    UNION {Of(k, MaskBits(k)) : k \in NoComparison}
    \cup Of("bridge", {"HAIRPIN_MODE", "BPDU_GUARD", "ROOT_BLOCK", "FAST_LEAVE",
                       "UNICAST_FLOOD", "LEARNING", "LEARNING_SYNC"})
    \cup Of("link", {"ARPTYPE", "CARRIER", "CARRIER_CHANGES", "GSO_MAX_SEGS", "GSO_MAX_SIZE",
                     "LINKINFO_SLAVE_KIND", "NS_FD", "NS_PID", "PHYS_PORT_ID",
                     "PHYS_PORT_NAME", "PHYS_SWITCH_ID"})
    \cup Of("veth", {"ARPTYPE"}) \cup Of("addr", {"ALIAS"})
    \cup Of("neigh", {"CACHEINFO", "ENTRY_STATE"})
    \cup Of("rule", {"PROTOCOL", "L3MDEV", "IP_PROTO", "SPORT", "DPORT"})
    \cup Of("mroute", {"PRIO"})
    \cup Of("neightbl", {"PARMS", "IFINDEX", "QUEUE_LEN", "APP_PROBES", "UCAST_PROBES",
                         "MCAST_PROBES", "PROXY_QLEN"})
    \cup UNION {Of(k, {"LINK", "STATS", "MTU", "CHAIN", "LINKTYPE", "MPU", "OVERHEAD",
                       "ACT_INDEX"}) : k \in {"tc_obj", "qdisc", "qdisc_delete", "class", "cls"}}
    \cup Of("cls", {"PROTOCOL", "PRIO"})
    \cup UNION {Of(k, {"STATS", "ESN", "LTIME_CUR", "SEQ"}) : k \in {"sa", "sa_delete"}}
    \cup Of("sp", {"LTIME_CUR"}) \cup Of("sp_delete", {"LTIME_CUR"})
    \cup Of("ae", {"FAMILY", "ESN", "LIFETIME"}) \cup Of("ct", {"ZONE", "TIMESTAMP"})

KnownPairs == WrongDiff \cup WrongForm \cup OneWay \cup Defaulted \cup WrongSetter
=============================================================================
