----------------------------- MODULE NlAttrDiag -----------------------------
(***************************************************************************)
(* The tables of what is only received: sockets and the requests for them  *)
(* (lib/idiag), and the families of generic netlink (lib/genl).            *)
(***************************************************************************)
EXTENDS NlAttr

idiag_header == [u8 |-> {"FAMILY", "STATE", "TIMER", "RETRANS"}, be16 |-> {"SPORT", "DPORT"},
                 u32 |-> {"EXPIRES", "RQUEUE", "WQUEUE", "UID", "INODE", "IFINDEX"},
                 in6 |-> {"SRC", "DST"}]

idiag_msg_socket == Open({"FAMILY", "STATE", "TIMER", "RETRANS", "SPORT", "DPORT", "SRC",
                          "DST", "IFINDEX", "EXPIRES", "RQUEUE"})

idiag_msg_details == Open({"WQUEUE", "UID", "INODE", "TOS", "TCLASS", "SHUTDOWN",
                           "MEMINFO", "VEGASINFO", "TCPINFO"})
                     \cup Text("takes", Open({"CONG"}))

ext_policy == Policy("u8", {"TOS", "TCLASS", "SHUTDOWN"}) \cup Policy("str", {"CONG"})
              \cup Policy("meminfo", {"MEMINFO"}) \cup Policy("tcp_info", {"TCPINFO"})
              \cup Policy("vegasinfo", {"VEGASINFO"}) \cup Policy("skmeminfo", {"SKMEMINFO"})

idiagnl_msg_parse ==
    UNION {Read(enc, idiag_header[enc]) : enc \in DOMAIN idiag_header}
    \cup Read("u8", {"TOS", "TCLASS", "SHUTDOWN"}) \cup Read("str", {"CONG"})
    \cup Read("tcp_info", {"TCPINFO"}) \cup Read("meminfo", {"MEMINFO"})
    \cup Read("vegasinfo", {"VEGASINFO"}) \cup Read("skmeminfo", {"SKMEMINFO"})

idiagnl_compare == Diff(UNION {idiag_header[enc] : enc \in DOMAIN idiag_header}
                        \cup {"TOS", "TCLASS", "SHUTDOWN", "CONG", "MEMINFO", "VEGASINFO",
                              "TCPINFO", "SKMEMINFO"})

idiag_msg == [Type(idiag_msg_socket \cup idiag_msg_details, ext_policy, {}, idiagnl_msg_parse,
                   idiagnl_compare)
                EXCEPT !.requires = UNION {idiag_header[enc] : enc \in DOMAIN idiag_header}]

idiag_req_api == Unmasked({"FAMILY", "EXT", "IFINDEX", "STATES", "DBS", "SRC", "DST"})

idiagnl_req_parse == ReadBare("u8", {"FAMILY", "EXT"})
                     \cup ReadBare("u32", {"STATES", "DBS", "IFINDEX"})
                     \cup ReadBare("in6", {"SRC", "DST"})

idiag_req == [Type(idiag_req_api, {}, {}, idiagnl_req_parse, {})
                EXCEPT !.requires = {r.nla : r \in idiagnl_req_parse}]

meminfo == Type(Unmasked({"rmem", "wmem", "fmem", "tmem"}), {}, {}, {}, {})

vegasinfo == Type(Unmasked({"enabled", "rttcnt", "rtt", "minrtt"}), {}, {}, {}, {})

-----------------------------------------------------------------------------
(* Generic netlink: what the controller tells of a family.                 *)

family_id_name == Guarded({"ID"}) \cup Text("cuts", Guarded({"NAME"}))

family_sizes == Guarded({"VERSION", "HDRSIZE", "MAXATTR"})

\* The groups have no bit.
family_lists == {[Attr("OPS") EXCEPT !.ignores = TRUE, !.readable = FALSE],
                 [Attr("groups") EXCEPT !.sets = {}, !.ignores = TRUE, !.readable = FALSE]}

ctrl_policy == Policy("u16", {"ID"}) \cup Policy("name", {"NAME"})
               \cup Policy("u32", {"VERSION", "HDRSIZE", "MAXATTR"})

parse_mcast_grps == ReadBare("mcast_grps", {"groups"})

ctrl_msg_parser == Read("u16", {"ID"}) \cup Read("str", {"NAME"})
                   \cup Read("u32", {"VERSION", "HDRSIZE", "MAXATTR"})
                   \cup Read("ops", {"OPS"}) \cup parse_mcast_grps

family_compare == Diff({"ID", "VERSION", "HDRSIZE", "MAXATTR", "NAME"})

family == [Type(family_id_name \cup family_sizes \cup family_lists, ctrl_policy, {},
                ctrl_msg_parser, family_compare)
             EXCEPT !.requires = {"ID", "NAME"}]
=============================================================================
