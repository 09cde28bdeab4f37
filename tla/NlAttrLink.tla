----------------------------- MODULE NlAttrLink -----------------------------
(***************************************************************************)
(* The tables of the link modules, lib/route/link/*.c.                     *)
(***************************************************************************)
EXTENDS NlAttr

-----------------------------------------------------------------------------
(* vxlan                                                                   *)

vxlan_policy ==
    Policy("u32", {"ID", "LINK", "LABEL", "AGEING", "LIMIT"})
    \cup Policy("in4", {"GROUP", "LOCAL"}) \cup Policy("in6", {"GROUP6", "LOCAL6"})
    \cup Policy("u8", {"TTL", "TOS", "LEARNING", "PROXY", "RSC", "L2MISS", "L3MISS",
                       "COLLECT_METADATA", "UDP_CSUM", "UDP_ZERO_CSUM6_TX",
                       "UDP_ZERO_CSUM6_RX", "REMCSUM_TX", "REMCSUM_RX"})
    \cup Policy("port_range", {"PORT_RANGE"}) \cup Policy("u16", {"PORT"})
    \cup Policy("flag", {"GBP", "GPE", "REMCSUM_NOPARTIAL"})

vxlan_parse ==
    Read("u32", {"ID", "LINK", "AGEING", "LIMIT", "LABEL"})
    \cup Read("in6", {"GROUP6", "LOCAL6"})
    \cup {ReadInstead("GROUP", "in4", "GROUP6"), ReadInstead("LOCAL", "in4", "LOCAL6")}
    \cup Read("u8", {"TTL", "TOS", "LEARNING", "PROXY", "RSC", "L2MISS", "L3MISS",
                     "UDP_CSUM", "UDP_ZERO_CSUM6_TX", "UDP_ZERO_CSUM6_RX",
                     "REMCSUM_TX", "REMCSUM_RX", "COLLECT_METADATA"})
    \cup Read("port_range", {"PORT_RANGE"}) \cup Read("u16", {"PORT"})
    \cup ReadBare("flag", {"GBP", "REMCSUM_NOPARTIAL", "GPE"})

vxlan_put_attrs ==
    Put("u32", {"ID", "LINK", "AGEING", "LIMIT", "PORT", "LABEL"})
    \cup Put("in4", {"GROUP", "LOCAL"}) \cup Put("in6", {"GROUP6", "LOCAL6"})
    \cup Put("port_range", {"PORT_RANGE"})
    \cup Put("u8", {"TTL", "TOS", "LEARNING", "PROXY", "RSC", "L2MISS", "L3MISS",
                    "UDP_CSUM", "UDP_ZERO_CSUM6_TX", "UDP_ZERO_CSUM6_RX",
                    "REMCSUM_TX", "REMCSUM_RX", "COLLECT_METADATA"})
    \cup PutNonzero("flag", {"GBP", "REMCSUM_NOPARTIAL", "GPE"})

\* No setter and no parser sets the bit FLAGS.
vxlan_compare ==
    Diff({"ID", "GROUP", "LINK", "LOCAL", "TOS", "TTL", "LEARNING", "AGEING", "LIMIT",
          "PORT_RANGE", "PROXY", "PORT", "GROUP6", "LOCAL6", "COLLECT_METADATA", "LABEL"})
    \cup {DiffAs(b, "PROXY") : b \in {"RSC", "L2MISS", "L3MISS", "UDP_CSUM",
            "UDP_ZERO_CSUM6_TX", "UDP_ZERO_CSUM6_RX", "REMCSUM_TX", "REMCSUM_RX"}}
    \cup {DiffAs("FLAGS", f) : f \in {"GBP", "GPE", "REMCSUM_NOPARTIAL"}}

vxlan_id_group_link ==
    Guarded({"ID", "LINK"})
    \cup {Instead("GROUP", "GROUP6"), Instead("GROUP6", "GROUP")}

vxlan_local_ttl_tos ==
    Guarded({"TTL", "TOS"}) \cup {Instead("LOCAL", "LOCAL6"), Instead("LOCAL6", "LOCAL")}

vxlan_learning_limits == Guarded({"LEARNING", "AGEING", "LIMIT"})

vxlan_port_range_proxy_rsc == Guarded({"PORT_RANGE", "PROXY", "RSC"})

vxlan_miss_port == Guarded({"L2MISS", "L3MISS", "PORT"})

vxlan_csum ==
    Guarded({"UDP_CSUM", "UDP_ZERO_CSUM6_TX", "UDP_ZERO_CSUM6_RX", "REMCSUM_TX"})

vxlan_metadata_label_flags ==
    Guarded({"REMCSUM_RX", "COLLECT_METADATA", "LABEL"})
    \cup Unmasked({"GBP", "GPE", "REMCSUM_NOPARTIAL"})

vxlan == Type(vxlan_id_group_link \cup vxlan_local_ttl_tos \cup vxlan_learning_limits
              \cup vxlan_port_range_proxy_rsc \cup vxlan_miss_port \cup vxlan_csum
              \cup vxlan_metadata_label_flags,
              vxlan_policy, vxlan_put_attrs, vxlan_parse, vxlan_compare)

-----------------------------------------------------------------------------
(* vlan                                                                    *)

vlan_policy == Policy("u16", {"ID", "PROTOCOL"}) \cup Policy("vlan_flags", {"FLAGS"})
               \cup Policy("any", {"INGRESS_QOS", "EGRESS_QOS"})

\* The maps have one entry.
vlan_parse == Read("u16", {"ID", "PROTOCOL"}) \cup Read("vlan_flags", {"FLAGS"})
              \cup Read("qos_map", {"INGRESS_QOS", "EGRESS_QOS"})

vlan_put_attrs == Put("u16", {"ID", "PROTOCOL"}) \cup Put("vlan_flags", {"FLAGS"})
                  \cup Put("qos_map", {"INGRESS_QOS", "EGRESS_QOS"})

vlan_id_protocol_flags ==
    {NamedOpen("FLAGS", "FLAGS")} \cup Guarded({"ID", "PROTOCOL"})

vlan_maps == Guarded({"INGRESS_QOS", "EGRESS_QOS"})

vlan == Type(vlan_id_protocol_flags \cup vlan_maps,
             vlan_policy, vlan_put_attrs, vlan_parse, {})

-----------------------------------------------------------------------------
(* macvlan and macvtap: the mode is "source" or another one.               *)

macvlan_policy == Policy("u32", {"MODE", "MACADDR_MODE", "MACADDR_COUNT"})
                  \cup Policy("u16", {"FLAGS"})
                  \cup Policy("any", {"MACADDR", "MACADDR_DATA"})

\* The addresses are read if the kernel says how many there are.
macvlan_parse ==
    Read("u32", {"MODE"}) \cup Read("u16", {"FLAGS"})
    \cup {[ReadAs("MACADDR_DATA", "macs", "MACADDR", {"MACADDR"})
             EXCEPT !.with = {"MACADDR_COUNT"}]}

\* The number of addresses is never sent, the mode of the list with the list.
macvlan_put_attrs ==
    Put("u32", {"MODE"}) \cup Put("u16", {"FLAGS"})
    \cup {PutAs({"MACADDR"}, "MACMODE", "MACADDR_MODE", "u32"),
          PutAs({"MACADDR"}, "MACADDR", "MACADDR_DATA", "macs")}

\* Zero stands for a mode other than "source": it forgets the addresses.
macvlan_mode_flags ==
    Open({"FLAGS"})
    \cup {[Attr("MODE") EXCEPT !.drops = {"MACADDR", "MACMODE"}],
          [Attr("MACMODE") EXCEPT !.sets = {"MACADDR"}, !.pre = {"MODE"},
                                  !.needs = {"MODE", "MACADDR"}]}

\* Adding and deleting an address needs the list to exist already.
macvlan_macaddr == {[Attr("MACADDR") EXCEPT !.pre = {"MODE"}, !.after = {"MACADDR"},
                                            !.needs = {"MODE", "MACADDR"}]}

macvtap_mode_flags == Open({"FLAGS"}) \cup Guarded({"MODE"})

macvlan == Type(macvlan_mode_flags \cup macvlan_macaddr,
                macvlan_policy, macvlan_put_attrs, macvlan_parse, {})
macvtap == Type(macvtap_mode_flags, macvlan_policy, macvlan_put_attrs, macvlan_parse, {})

-----------------------------------------------------------------------------
(* ipvlan, vrf, ppp, xfrmi                                                 *)

ipvlan_policy == Policy("u16", {"MODE"})
ipvlan_parse == Read("u16", {"MODE"})
ipvlan_put_attrs == Put("u16", {"MODE"})
ipvlan_mode == Guarded({"MODE"})
ipvlan == Type(ipvlan_mode, ipvlan_policy, ipvlan_put_attrs, ipvlan_parse, {})

vrf_policy == Policy("u32", {"TABLE"})
vrf_parse == {ReadAs("TABLE", "u32", "TABLE_ID", {"TABLE_ID"})}
vrf_put_attrs == {PutAs({"TABLE_ID"}, "TABLE_ID", "TABLE", "u32")}
vrf_tableid == Guarded({"TABLE_ID"})
vrf == Type(vrf_tableid, vrf_policy, vrf_put_attrs, vrf_parse, {})

\* rtnl_link_ppp_set_fd() adds the descriptor's bits to those of the old one.
ppp_fd == {[Attr("FD") EXCEPT !.adds = TRUE]}
ppp_nl_policy == Policy("u32", {"DEV_FD"})
ppp_parse == {ReadAs("DEV_FD", "u32", "FD", {"FD"})}
ppp_put_attrs == {PutAs({"FD"}, "FD", "DEV_FD", "u32")}
ppp == Type(ppp_fd, ppp_nl_policy, ppp_put_attrs, ppp_parse, {})

xfrmi_policy == Policy("u32", {"LINK", "IF_ID"})
xfrmi_parse == Read("u32", {"LINK", "IF_ID"})
xfrmi_put_attrs == Put("u32", {"LINK", "IF_ID"})
xfrmi_link_if_id == Guarded({"LINK", "IF_ID"})
xfrmi == Type(xfrmi_link_if_id, xfrmi_policy, xfrmi_put_attrs, xfrmi_parse, {})

-----------------------------------------------------------------------------
(* sit                                                                     *)

sit_policy ==
    Policy("u32", {"LINK", "LOCAL", "REMOTE", "6RD_RELAY_PREFIX"})
    \cup Policy("u8", {"TTL", "TOS", "PMTUDISC", "PROTO"})
    \cup Policy("u16", {"FLAGS", "6RD_PREFIXLEN", "6RD_RELAY_PREFIXLEN"})
    \cup Policy("in6", {"6RD_PREFIX"})

sit_parse ==
    Read("u32", {"LINK", "LOCAL", "REMOTE", "6RD_RELAY_PREFIX"})
    \cup Read("u8", {"TTL", "TOS", "PMTUDISC", "PROTO"})
    \cup Read("u16", {"FLAGS", "6RD_PREFIXLEN", "6RD_RELAY_PREFIXLEN"})
    \cup Read("in6", {"6RD_PREFIX"})

sit_put_attrs ==
    Put("u32", {"LINK", "LOCAL", "REMOTE", "6RD_RELAY_PREFIX"})
    \cup Put("u8", {"TTL", "TOS", "PMTUDISC", "PROTO"})
    \cup Put("u16", {"FLAGS", "6RD_PREFIXLEN", "6RD_RELAY_PREFIXLEN"})
    \cup Put("in6", {"6RD_PREFIX"})

sit_link_local_remote_ttl == Open({"LINK", "LOCAL", "REMOTE", "TTL"})

sit_tos_pmtudisc_flags_proto == Open({"TOS", "PMTUDISC", "FLAGS", "PROTO"})

\* The length of the relay prefix is available when the prefix is.
sit_ip6rd ==
    Guarded({"6RD_PREFIX", "6RD_PREFIXLEN", "6RD_RELAY_PREFIX"})
    \cup {[Attr("6RD_RELAY_PREFIXLEN") EXCEPT !.needs = {"6RD_RELAY_PREFIX"}]}

sit == Type(sit_link_local_remote_ttl \cup sit_tos_pmtudisc_flags_proto \cup sit_ip6rd,
            sit_policy, sit_put_attrs, sit_parse, {})

-----------------------------------------------------------------------------
(* ipgre and ipgretap                                                      *)

ipgre_policy == Policy("u32", {"LINK", "IKEY", "OKEY", "LOCAL", "REMOTE"})
                \cup Policy("u16", {"IFLAGS", "OFLAGS"})
                \cup Policy("u8", {"TTL", "TOS", "PMTUDISC"})

ipgre_parse == Read("u32", {"LINK", "IKEY", "OKEY", "LOCAL", "REMOTE"})
               \cup Read("u16", {"IFLAGS", "OFLAGS"})
               \cup Read("u8", {"TTL", "TOS", "PMTUDISC"})

\* The flags are put if the mask has a bit of the number of the message
\* attribute: IFLA_GRE_IFLAGS (2) is the bit IFLAGS, IFLA_GRE_OFLAGS (3) the
\* bits LINK and IFLAGS.
ipgre_put_attrs ==
    Put("u32", {"LINK", "IKEY", "OKEY", "LOCAL", "REMOTE"})
    \cup Put("u8", {"TTL", "TOS", "PMTUDISC"}) \cup Put("u16", {"IFLAGS"})
    \cup {PutAs({"LINK", "IFLAGS"}, "OFLAGS", "OFLAGS", "u16")}

ipgre_link_flags_keys == Open({"LINK", "IFLAGS", "OFLAGS", "IKEY"})

ipgre_okey_local_remote == Open({"OKEY", "LOCAL", "REMOTE"})

ipgre_ttl_tos_pmtudisc == Open({"TTL", "TOS", "PMTUDISC"})

ipgre == Type(ipgre_link_flags_keys \cup ipgre_okey_local_remote
              \cup ipgre_ttl_tos_pmtudisc,
              ipgre_policy, ipgre_put_attrs, ipgre_parse, {})

-----------------------------------------------------------------------------
(* ipvti                                                                   *)

ipvti_policy == Policy("u32", {"LINK", "IKEY", "OKEY", "LOCAL", "REMOTE"})

ipvti_parse == Read("u32", {"LINK", "IKEY", "OKEY", "LOCAL", "REMOTE"})

\* The output key is put if the mask has the bit of number IFLA_VTI_IKEY (2),
\* the bit IKEY.
ipvti_put_attrs == Put("u32", {"LINK", "IKEY", "LOCAL", "REMOTE"})
                   \cup {PutAs({"IKEY"}, "OKEY", "OKEY", "u32")}

ipvti_link_keys_local == Open({"LINK", "IKEY", "OKEY", "LOCAL"})

ipvti_remote == Open({"REMOTE"})

ipvti == Type(ipvti_link_keys_local \cup ipvti_remote,
              ipvti_policy, ipvti_put_attrs, ipvti_parse, {})

-----------------------------------------------------------------------------
(* ipip                                                                    *)

ipip_policy == Policy("u32", {"LINK", "LOCAL", "REMOTE"})
               \cup Policy("u8", {"TTL", "TOS", "PMTUDISC"})

\* Mutant: the TOS is stored, its bit is not set.
ipip_parse_without_tos == Read("u32", {"LINK", "LOCAL", "REMOTE"})
                          \cup Read("u8", {"TTL", "PMTUDISC"}) \cup ReadBare("u8", {"TOS"})

ipip_parse == Read("u32", {"LINK", "LOCAL", "REMOTE"})
              \cup Read("u8", {"TTL", "TOS", "PMTUDISC"})

\* Mutant: the two ends of the tunnel are exchanged.
ipip_put_attrs_swapped == Put("u32", {"LINK"}) \cup Put("u8", {"TTL", "TOS", "PMTUDISC"})
                          \cup {PutAs({"LOCAL"}, "REMOTE", "LOCAL", "u32"),
                                PutAs({"REMOTE"}, "LOCAL", "REMOTE", "u32")}

ipip_put_attrs == Put("u32", {"LINK", "LOCAL", "REMOTE"})
                  \cup Put("u8", {"TTL", "TOS", "PMTUDISC"})

ipip_link_local_remote_ttl == Open({"LINK", "LOCAL", "REMOTE", "TTL"})

\* Mutant: the setter assigns the mask.
ipip_tos_pmtudisc_alone == Open({"TOS"})
    \cup {[a EXCEPT !.clears = {"LINK", "LOCAL", "REMOTE", "TTL", "TOS"}] :
            a \in Open({"PMTUDISC"})}

ipip_tos_pmtudisc == Open({"TOS", "PMTUDISC"})

ipip == Type(ipip_link_local_remote_ttl \cup ipip_tos_pmtudisc,
             ipip_policy, ipip_put_attrs, ipip_parse, {})

-----------------------------------------------------------------------------
(* ip6tnl                                                                  *)

ip6_tnl_policy == Policy("u32", {"LINK", "FLOWINFO", "FLAGS"})
                  \cup Policy("in6", {"LOCAL", "REMOTE"})
                  \cup Policy("u8", {"TTL", "TOS", "ENCAP_LIMIT", "PROTO"})

ip6_tnl_parse == Read("u32", {"LINK", "FLAGS", "FLOWINFO"})
                 \cup Read("in6", {"LOCAL", "REMOTE"})
                 \cup Read("u8", {"TTL", "TOS", "PROTO"})
                 \cup {ReadAs("ENCAP_LIMIT", "u8", "ENCAPLIMIT", {"ENCAPLIMIT"})}

ip6_tnl_put_attrs == Put("u32", {"LINK", "FLAGS", "FLOWINFO"})
                     \cup Put("in6", {"LOCAL", "REMOTE"})
                     \cup Put("u8", {"TTL", "TOS", "PROTO"})
                     \cup {PutAs({"ENCAPLIMIT"}, "ENCAPLIMIT", "ENCAP_LIMIT", "u8")}

ip6_tnl_link_local_remote_ttl == Open({"LINK", "LOCAL", "REMOTE", "TTL"})

ip6_tnl_tos_limit_flow_flags == Open({"TOS", "ENCAPLIMIT", "FLOWINFO", "FLAGS"})

ip6_tnl_proto == Open({"PROTO"})

ip6_tnl == Type(ip6_tnl_link_local_remote_ttl \cup ip6_tnl_tos_limit_flow_flags
                \cup ip6_tnl_proto,
                ip6_tnl_policy, ip6_tnl_put_attrs, ip6_tnl_parse, {})

-----------------------------------------------------------------------------
(* geneve                                                                  *)

geneve_policy ==
    Policy("u32", {"ID", "LABEL"}) \cup Policy("in4", {"REMOTE"})
    \cup Policy("in6", {"REMOTE6"}) \cup Policy("u16", {"PORT"})
    \cup Policy("u8", {"TTL", "TOS", "UDP_CSUM", "UDP_ZERO_CSUM6_TX",
                       "UDP_ZERO_CSUM6_RX"})
    \cup Policy("flag", {"COLLECT_METADATA"})

\* REMOTE6 comes second and takes REMOTE back.
geneve_parse ==
    Read("u32", {"ID", "LABEL"}) \cup Read("u16", {"PORT"})
    \cup Read("u8", {"TTL", "TOS", "UDP_CSUM", "UDP_ZERO_CSUM6_TX", "UDP_ZERO_CSUM6_RX"})
    \cup {[ReadAs("REMOTE", "in4", "REMOTE", {"REMOTE"}) EXCEPT !.unless = {"REMOTE6"}],
          ReadAs("REMOTE6", "in6", "REMOTE6", {"REMOTE6"})}
    \cup ReadBare("flag", {"COLLECT_METADATA"})

geneve_put_attrs ==
    Put("u32", {"ID", "LABEL", "PORT"}) \cup Put("in4", {"REMOTE"})
    \cup Put("in6", {"REMOTE6"})
    \cup Put("u8", {"TTL", "TOS", "UDP_CSUM", "UDP_ZERO_CSUM6_TX", "UDP_ZERO_CSUM6_RX"})
    \cup PutNonzero("flag", {"COLLECT_METADATA"})

geneve_id_remote_ttl ==
    Guarded({"ID", "TTL"})
    \cup {Instead("REMOTE", "REMOTE6"), Instead("REMOTE6", "REMOTE")}

geneve_tos_port_label == Guarded({"TOS", "PORT", "LABEL"})

geneve_csum_flags ==
    Guarded({"UDP_CSUM", "UDP_ZERO_CSUM6_TX", "UDP_ZERO_CSUM6_RX"})
    \cup Unmasked({"COLLECT_METADATA"})

geneve == Type(geneve_id_remote_ttl \cup geneve_tos_port_label \cup geneve_csum_flags,
               geneve_policy, geneve_put_attrs, geneve_parse, {})

-----------------------------------------------------------------------------
(* macsec: zero stands for the default cipher suite and ICV length.        *)

macsec_policy ==
    Policy("u64", {"SCI", "CIPHER_SUITE"}) \cup Policy("u32", {"WINDOW"})
    \cup Policy("u8", {"ICV_LEN", "ENCODING_SA", "ENCRYPT", "PROTECT", "INC_SCI", "ES",
                       "SCB", "REPLAY_PROTECT", "VALIDATION"})

macsec_parse ==
    Read("u64", {"SCI", "CIPHER_SUITE"}) \cup Read("u32", {"WINDOW"})
    \cup Read("u8", {"PROTECT", "ICV_LEN", "ENCODING_SA", "VALIDATION", "ENCRYPT",
                     "INC_SCI", "ES", "SCB", "REPLAY_PROTECT"})

\* The window goes with replay protection, not with its own bit.
macsec_put_attrs ==
    Put("u64", {"SCI"})
    \cup {[PutAs({"PORT"}, "PORT", "PORT", "u16") EXCEPT !.unless = {"SCI"}]}
    \cup Put("u8", {"ENCRYPT", "INC_SCI", "ES", "SCB", "PROTECT", "REPLAY_PROTECT",
                    "VALIDATION", "ENCODING_SA"})
    \cup {[PutAs({}, "CIPHER_SUITE", "CIPHER_SUITE", "u64")
             EXCEPT !.nz = {"CIPHER_SUITE", "ICV_LEN"}],
          [PutAs({}, "ICV_LEN", "ICV_LEN", "u8") EXCEPT !.nz = {"CIPHER_SUITE", "ICV_LEN"}],
          PutAs({"REPLAY_PROTECT"}, "WINDOW", "WINDOW", "u32")}

macsec_compare ==
    Diff({"PORT", "ICV_LEN", "CIPHER_SUITE", "REPLAY_PROTECT", "WINDOW", "ENCODING_SA",
          "ENCRYPT", "PROTECT", "INC_SCI", "ES", "SCB", "VALIDATION"})
    \cup {[DiffAs("SCI", "SCI") EXCEPT !.both = TRUE]}

macsec_sci_port_cipher == Guarded({"SCI", "PORT", "CIPHER_SUITE", "ICV_LEN"})

macsec_protect_replay ==
    Guarded({"PROTECT", "ENCRYPT", "ENCODING_SA", "VALIDATION", "REPLAY_PROTECT"})

macsec_window_scb == Guarded({"WINDOW", "INC_SCI", "ES", "SCB"})

macsec_alloc == {"CIPHER_SUITE", "ICV_LEN"}

macsec == [Type(macsec_sci_port_cipher \cup macsec_protect_replay \cup macsec_window_scb,
                macsec_policy, macsec_put_attrs, macsec_parse, macsec_compare)
             EXCEPT !.init = macsec_alloc,
                    !.refuse = {Refuse({"REPLAY_PROTECT"}, {"REPLAY_PROTECT"}, {"WINDOW"})}]

-----------------------------------------------------------------------------
(* can: of the bit timing, the two members with calls of their own are     *)
(* attributes.                                                             *)

can_policy ==
    Policy("u32", {"STATE", "RESTART_MS", "RESTART"})
    \cup Policy("can_ctrlmode", {"CTRLMODE"}) \cup Policy("can_clock", {"CLOCK"})
    \cup Policy("can_bittiming", {"BITTIMING.bitrate", "BITTIMING.sample_point"})
    \cup Policy("can_bittiming_const", {"BITTIMING_CONST"})
    \cup Policy("can_berr_counter", {"BERR_COUNTER"})

can_parse ==
    Read("u32", {"STATE", "RESTART", "RESTART_MS"})
    \cup Read("can_ctrlmode", {"CTRLMODE"}) \cup Read("can_clock", {"CLOCK"})
    \cup {ReadAs(f, "can_bittiming", f, {"BITTIMING"}) :
            f \in {"BITTIMING.bitrate", "BITTIMING.sample_point"}}
    \cup Read("can_bittiming_const", {"BITTIMING_CONST"})
    \cup Read("can_berr_counter", {"BERR_COUNTER"})

\* The type of an attribute is the number of its bit: 1 and 2 are right, 4 is
\* IFLA_CAN_STATE, the others are not attributes of a can link.
can_put_attrs ==
    {PutAs({"BITTIMING"}, f, f, "can_bittiming") :
       f \in {"BITTIMING.bitrate", "BITTIMING.sample_point"}}
    \cup Put("can_bittiming_const", {"BITTIMING_CONST"})
    \cup {PutAs({"CLOCK"}, "CLOCK", "STATE", "can_clock"),
          PutAs({"CTRLMODE"}, "CTRLMODE", "16", "can_ctrlmode"),
          PutAs({"RESTART_MS"}, "RESTART_MS", "32", "u32"),
          PutAs({"RESTART"}, "RESTART", "64", "u32")}

\* rtnl_link_can_restart() sets the bit in the value, not in the mask.
can_restart_freq_state_berr ==
    {[Attr("RESTART") EXCEPT !.sets = {}, !.readable = FALSE]}
    \cup ReadOnly({"CLOCK", "BERR_COUNTER", "BITTIMING_CONST"}) \cup ReadOpen({"STATE"})

can_bittiming_bitrate ==
    {Named(f, "BITTIMING") : f \in {"BITTIMING.bitrate", "BITTIMING.sample_point"}}

can_restart_ms_ctrlmode == Guarded({"RESTART_MS", "CTRLMODE"})

can == Type(can_restart_freq_state_berr \cup can_bittiming_bitrate
            \cup can_restart_ms_ctrlmode, can_policy, can_put_attrs, can_parse, {})

-----------------------------------------------------------------------------
(* bridge ports, without their VLANs                                       *)

bridge_flags == {"HAIRPIN_MODE", "BPDU_GUARD", "ROOT_BLOCK", "FAST_LEAVE", "UNICAST_FLOOD",
                 "LEARNING", "LEARNING_SYNC"}

\* The message attribute of a flag
bridge_flag_attr == [HAIRPIN_MODE |-> "PORT_MODE", BPDU_GUARD |-> "GUARD",
                     ROOT_BLOCK |-> "PROTECT", FAST_LEAVE |-> "FAST_LEAVE",
                     UNICAST_FLOOD |-> "UNICAST_FLOOD", LEARNING |-> "LEARNING",
                     LEARNING_SYNC |-> "LEARNING_SYNC"]

br_attrs_policy ==
    Policy("u8", {"STATE", "PORT_MODE", "GUARD", "PROTECT", "FAST_LEAVE", "LEARNING",
                  "LEARNING_SYNC", "UNICAST_FLOOD"})
    \cup Policy("u16", {"PRIORITY"}) \cup Policy("u32", {"COST"})

\* A flag that is off leaves the object alone.
bridge_parse_protinfo ==
    Read("u16", {"PRIORITY"}) \cup Read("u32", {"COST"})
    \cup {ReadAs("STATE", "u8", "PORT_STATE", {"PORT_STATE"})}
    \cup {[ReadAs(bridge_flag_attr[f], "u8", f, {"FLAGS", f}) EXCEPT !.nz = TRUE] :
            f \in bridge_flags}

bridge_fill_pi ==
    {[PutAs({f}, f, bridge_flag_attr[f], "u8") EXCEPT !.all = {"FLAGS"}] :
       f \in bridge_flags}
    \cup {[PutAs({"FLUSH"}, "FLUSH", "FLUSH", "u8") EXCEPT !.all = {"FLAGS"}]}
    \cup Put("u32", {"COST"}) \cup Put("u16", {"PRIORITY"})
    \cup {PutAs({"PORT_STATE"}, "PORT_STATE", "STATE", "u8")}

br_af_attrs_policy == Policy("u16", {"FLAGS", "MODE"})

\* The mode goes to b_mode, which nothing reads.
bridge_parse_af == {ReadAs("FLAGS", "u16", "b_af_flags", {}),
                    ReadAs("MODE", "u16", "b_mode", {})}

bridge_fill_af == {PutAs({"HWMODE"}, "HWMODE", "MODE", "u16")}

\* The comparison without LOOSE_COMPARISON.
bridge_compare ==
    Diff({"PORT_STATE", "PRIORITY", "COST", "HWMODE", "SELF"})
    \cup {DiffAs("FLAGS", f) : f \in bridge_flags \cup {"FLUSH"}}

bridge_port_state_priority_cost == Open({"PORT_STATE", "PRIORITY", "COST"})

\* The value says whether the flag is set or unset.
bridge_set_flags_attr ==
    {[Attr(f) EXCEPT !.sets = {"FLAGS", f}, !.needs = {}] :
       f \in bridge_flags \cup {"FLUSH"}}
    \cup Unset({"PORT_STATE", "PRIORITY", "COST", "FLAGS", "HWMODE", "SELF"})

bridge_self_hwmode ==
    {[Attr("SELF") EXCEPT !.adds = TRUE, !.marks = {"SELF"}, !.keeps = TRUE,
                          !.readable = FALSE],
     [Attr("HWMODE") EXCEPT !.sets = {"HWMODE", "SELF"}, !.marks = {"SELF"}]}

bridge == Type(bridge_port_state_priority_cost \cup bridge_set_flags_attr
               \cup bridge_self_hwmode,
               br_attrs_policy \cup br_af_attrs_policy, bridge_fill_pi \cup bridge_fill_af,
               bridge_parse_protinfo \cup bridge_parse_af, bridge_compare)

-----------------------------------------------------------------------------
(* inet and inet6: zero stands for a setting that is not in the array, and *)
(* for an unknown mode.                                                    *)

inet_parse_af == {ReadAs("CONF", "u32[]", "CONF", {"CONF"})}

\* Set as attributes of a nested one, reported as an array.
inet_fill_af == {PutAs({"CONF"}, "CONF", "CONF", "nested")}

inet_conf == Guarded({"CONF"})

inet == Type(inet_conf, Policy("in4", {"CONF"}), inet_fill_af, inet_parse_af, {})

inet6_policy ==
    Policy("u32", {"FLAGS", "CONF"}) \cup Policy("ifla_cacheinfo", {"CACHEINFO"})
    \cup Policy("u64", {"STATS", "ICMP6STATS"}) \cup Policy("in6", {"TOKEN"})
    \cup Policy("u8", {"ADDR_GEN_MODE"})

\* The statistics are those of the link.
inet6_parse_protinfo ==
    ReadBare("u32", {"FLAGS"}) \cup ReadBare("ifla_cacheinfo", {"CACHEINFO"})
    \cup ReadBare("u32[]", {"CONF"}) \cup ReadBare("in6", {"TOKEN"})
    \cup ReadBare("u8", {"ADDR_GEN_MODE"}) \cup ReadBare("u64[]", {"STATS", "ICMP6STATS"})

inet6_fill_af == PutNonzero("u8", {"ADDR_GEN_MODE"})

inet6_flags_token_mode ==
    Unmasked({"FLAGS"})
    \cup {[a EXCEPT !.nonzero = TRUE] : a \in Unmasked({"TOKEN", "ADDR_GEN_MODE"})}

inet6 == Type(inet6_flags_token_mode, inet6_policy, inet6_fill_af, inet6_parse_protinfo, {})

-----------------------------------------------------------------------------
(* The virtual functions of a link (SR-IOV).  A member .vf is the index in *)
(* a structure; a list of VLANs has one entry.                             *)

sriov_info_policy ==
    Policy("ifla_vf_mac", {"MAC", "MAC.vf"}) \cup Policy("ifla_vf_vlan", {"VLAN"})
    \cup Policy("any", {"VLAN_LIST.vlan", "VLAN_LIST.proto", "STATS"})
    \cup Policy("ifla_vf_tx_rate", {"TX_RATE"}) \cup Policy("ifla_vf_trust", {"TRUST"})
    \cup Policy("ifla_vf_spoofchk", {"SPOOFCHK"})
    \cup Policy("ifla_vf_rate", {"RATE.max_tx_rate", "RATE.min_tx_rate"})
    \cup Policy("ifla_vf_link_state", {"LINK_STATE"})
    \cup Policy("ifla_vf_rss_query_en", {"RSS_QUERY_EN"})
    \cup Policy("ifla_vf_guid", {"IB_NODE_GUID", "IB_PORT_GUID"})

\* IFLA_VF_STATS, the bit set for the statistics, has the number of the bit of
\* the transmission rate.
rtnl_link_sriov_parse_vflist ==
    {ReadAs("MAC", "ifla_vf_mac", "ADDR", {"ADDR"}),
     ReadAs("MAC.vf", "ifla_vf_mac", "INDEX", {"INDEX"}),
     ReadAs("VLAN_LIST.vlan", "ifla_vf_vlan_info", "VLAN", {"VLAN"}),
     ReadAs("VLAN_LIST.proto", "be16", "VLAN.proto", {"VLAN"}),
     [ReadAs("VLAN", "ifla_vf_vlan", "VLAN", {"VLAN"})
        EXCEPT !.nz = TRUE, !.unless = {"VLAN_LIST.vlan"}],
     [ReadAs("TX_RATE", "ifla_vf_tx_rate", "TX_RATE", {"TX_RATE"}) EXCEPT !.nz = TRUE],
     [ReadAs("RATE.max_tx_rate", "ifla_vf_rate", "RATE_MAX", {"RATE_MAX"})
        EXCEPT !.nz = TRUE],
     [ReadAs("RATE.min_tx_rate", "ifla_vf_rate", "RATE_MIN", {"RATE_MIN"})
        EXCEPT !.nz = TRUE],
     ReadAs("STATS", "ifla_vf_stats", "STATS", {"TX_RATE"})}
    \cup Read("ifla_vf_spoofchk", {"SPOOFCHK"})
    \cup Read("ifla_vf_link_state", {"LINK_STATE"})
    \cup Read("ifla_vf_rss_query_en", {"RSS_QUERY_EN"})
    \cup Read("ifla_vf_trust", {"TRUST"})

\* One VLAN of protocol 802.1Q, or a list; the protocol in host order.
sriov_fill_vf_vlan ==
    {[PutAs({"VLAN"}, "VLAN", "VLAN", "ifla_vf_vlan") EXCEPT !.zero = {"VLAN.proto"}],
     [PutAs({"VLAN"}, "VLAN", "VLAN_LIST.vlan", "ifla_vf_vlan_info")
        EXCEPT !.nz = {"VLAN.proto"}],
     [PutAs({"VLAN"}, "VLAN.proto", "VLAN_LIST.proto", "u16")
        EXCEPT !.nz = {"VLAN.proto"}]}

sriov_fill_vfinfo ==
    sriov_fill_vf_vlan
    \cup {PutAs({"ADDR"}, "ADDR", "MAC", "ifla_vf_mac"),
          PutAs({"ADDR"}, "INDEX", "MAC.vf", "ifla_vf_mac"),
          PutAs({"RATE_MIN", "RATE_MAX"}, "RATE_MIN", "RATE.min_tx_rate", "ifla_vf_rate"),
          PutAs({"RATE_MIN", "RATE_MAX"}, "RATE_MAX", "RATE.max_tx_rate", "ifla_vf_rate")}
    \cup Put("ifla_vf_tx_rate", {"TX_RATE"}) \cup Put("ifla_vf_spoofchk", {"SPOOFCHK"})
    \cup Put("ifla_vf_link_state", {"LINK_STATE"})
    \cup Put("ifla_vf_rss_query_en", {"RSS_QUERY_EN"})
    \cup Put("ifla_vf_trust", {"TRUST"})
    \cup Put("ifla_vf_guid", {"IB_NODE_GUID", "IB_PORT_GUID"})

\* A function without an index is left out of the list.
rtnl_link_sriov_fill_vflist == Refuse({}, {}, {"INDEX"})

vf_addr_guid_index_linkstate ==
    Guarded({"ADDR", "INDEX", "LINK_STATE"})
    \cup WriteOnly({"IB_NODE_GUID", "IB_PORT_GUID"})

\* A rate of zero is no rate, and the old rate is not looked at if there is a
\* new one.  The new interface sets both limits.
vf_rate ==
    {[Attr("TX_RATE") EXCEPT !.nonzero = TRUE, !.behind = {"RATE_MAX", "RATE_MIN"}]}
    \cup {[Attr(a) EXCEPT !.nonzero = TRUE, !.sets = {"RATE_MAX", "RATE_MIN"}] :
            a \in {"RATE_MAX", "RATE_MIN"}}

vf_rss_spoofchk_stat_trust ==
    Guarded({"RSS_QUERY_EN", "SPOOFCHK", "TRUST"}) \cup ReadOnly({"STATS"})

vf_vlans == Guarded({"VLAN"}) \cup {Named("VLAN.proto", "VLAN")}

vf == [Type(vf_addr_guid_index_linkstate \cup vf_rate \cup vf_rss_spoofchk_stat_trust
            \cup vf_vlans, sriov_info_policy, sriov_fill_vfinfo,
            rtnl_link_sriov_parse_vflist, {})
         EXCEPT !.refuse = {rtnl_link_sriov_fill_vflist}]
=============================================================================
