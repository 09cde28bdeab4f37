----------------------------- MODULE NlAttrXfrm -----------------------------
(***************************************************************************)
(* The tables of IPsec: selectors, lifetimes and templates, security       *)
(* associations, policies and asynchronous events (lib/xfrm).  A message   *)
(* starts with a structure that has a field for most attributes, zero if   *)
(* the object does not have it; the parser takes all of them for set.      *)
(***************************************************************************)
EXTENDS NlAttr

\* The structure at the start: what the object has, or zero.
Header(enc, S) == Put(enc, S)
                  \cup {[PutAs({}, "none", a, enc) EXCEPT !.unless = {a}] : a \in S}

-----------------------------------------------------------------------------
(* The parts: they have no mask and are sent whole.                        *)

sel_fields == [addr |-> {"daddr", "saddr"},
               be16 |-> {"dport", "dport_mask", "sport", "sport_mask"},
               u16  |-> {"family"},
               u8   |-> {"prefixlen_d", "prefixlen_s", "proto"},
               u32  |-> {"ifindex", "user"}]

sel_addresses_ports == Unmasked(sel_fields.addr \cup sel_fields.be16)

sel_family_proto == Unmasked(sel_fields.u16 \cup sel_fields.u8 \cup sel_fields.u32)

sel_build == UNION {PutAlways(enc, sel_fields[enc]) : enc \in DOMAIN sel_fields}

sel_parse == UNION {ReadBare(enc, sel_fields[enc]) : enc \in DOMAIN sel_fields}

sel == [Type(sel_addresses_ports \cup sel_family_proto, {}, sel_build, sel_parse, {})
          EXCEPT !.requires = UNION {sel_fields[enc] : enc \in DOMAIN sel_fields}]

ltime_cfg_fields == {"soft_byte_limit", "hard_byte_limit", "soft_packet_limit",
                     "hard_packet_limit", "soft_add_expires", "hard_add_expires",
                     "soft_use_expires", "hard_use_expires"}

ltime_cfg_api == Unmasked(ltime_cfg_fields)

ltime_cfg_build == PutAlways("u64", ltime_cfg_fields)

ltime_cfg_parse == ReadBare("u64", ltime_cfg_fields)

ltime_cfg == [Type(ltime_cfg_api, {}, ltime_cfg_build, ltime_cfg_parse, {})
                EXCEPT !.requires = ltime_cfg_fields]

tmpl_fields == [addr |-> {"daddr", "saddr"}, be32 |-> {"spi"},
                u8   |-> {"proto", "mode", "share", "optional"}, u16 |-> {"family"},
                u32  |-> {"reqid", "aalgos", "ealgos", "calgos"}]

tmpl_api == Unmasked(UNION {tmpl_fields[enc] : enc \in DOMAIN tmpl_fields})

tmpl_build == UNION {PutAlways(enc, tmpl_fields[enc]) : enc \in DOMAIN tmpl_fields}

tmpl_parse == UNION {ReadBare(enc, tmpl_fields[enc]) : enc \in DOMAIN tmpl_fields}

tmpl == [Type(tmpl_api, {}, tmpl_build, tmpl_parse, {})
           EXCEPT !.requires = UNION {tmpl_fields[enc] : enc \in DOMAIN tmpl_fields}]

-----------------------------------------------------------------------------
(* The replay state of associations and events: one bit for two states,    *)
(* the second with a pointer, here the bit ESN, that only its own setter   *)
(* sets and that hides the first one.                                      *)

replay_state_api ==
    {[Attr("replay_state") EXCEPT !.sets = {"REPLAY_STATE"}, !.needs = {"REPLAY_STATE"},
                                  !.hides = {"ESN"}],
     [Attr("replay_state_esn") EXCEPT !.sets = {"REPLAY_STATE", "ESN"},
                                      !.needs = {"REPLAY_STATE", "ESN"}]}

replay_state_build ==
    {[PutAs({}, "replay_state_esn", "REPLAY_ESN_VAL", "replay_esn")
        EXCEPT !.all = {"REPLAY_STATE", "ESN"}],
     [PutAs({"REPLAY_STATE"}, "replay_state", "REPLAY_VAL", "replay")
        EXCEPT !.unless = {"ESN"}]}

replay_state_parse ==
    {ReadAs("REPLAY_ESN_VAL", "replay_esn", "replay_state_esn", {"REPLAY_STATE", "ESN"}),
     [ReadAs("REPLAY_VAL", "replay", "replay_state", {"REPLAY_STATE"})
        EXCEPT !.unless = {"REPLAY_ESN_VAL"}]}

\* A difference is reported as the type's first bit, and only if both objects
\* have a state.
replay_state_diff(first) ==
    {[DiffAs("REPLAY_STATE", f) EXCEPT !.both = TRUE, !.reports = first] :
       f \in {"replay_state", "replay_state_esn"}}

-----------------------------------------------------------------------------
(* Security associations.                                                  *)

sa_policy ==
    Policy("algo", {"ALG_AUTH", "ALG_CRYPT", "ALG_COMP"})
    \cup Policy("algo_aead", {"ALG_AEAD"}) \cup Policy("algo_auth", {"ALG_AUTH_TRUNC"})
    \cup Policy("encap_tmpl", {"ENCAP"}) \cup Policy("sec_ctx", {"SECCTX"})
    \cup Policy("replay", {"REPLAY_VAL"}) \cup Policy("replay_esn", {"REPLAY_ESN_VAL"})
    \cup Policy("u32", {"REPLAY_THRESH", "ETIMER_THRESH", "TFCPAD"})
    \cup Policy("mark", {"MARK"}) \cup Policy("any", {"COADDR"})

sa_id_lifetimes == Guarded({"SEL", "DADDR", "SPI", "PROTO", "SADDR", "LTIME_CFG"})

sa_stats_mode_flags == ReadOnly({"LTIME_CUR", "STATS", "SEQ"})
                       \cup Guarded({"REQID", "FAMILY", "MODE", "REPLAY_WIN", "FLAGS"})

\* Authentication is set with or without a truncated length.
sa_aead_auth == {Attr("ALG_AEAD"), [Attr("ALG_AUTH") EXCEPT !.empties = {"trunc_len"}],
                 [Attr("ALG_AUTH") EXCEPT !.marks = {"trunc_len"}, !.readable = FALSE]}

sa_crypt_comp == Guarded({"ALG_CRYPT", "ALG_COMP"})

sa_encap_coaddr == Guarded({"ENCAP", "TFCPAD", "COADDR"})

sa_mark_ctx_replay == Guarded({"MARK", "SECCTX", "REPLAY_MAXAGE", "REPLAY_MAXDIFF"})

sa_expire == ReadOpen({"EXPIRE"})

sa_header == [u32 |-> {"REQID"}, u16 |-> {"FAMILY"}, u8 |-> {"PROTO", "MODE", "REPLAY_WIN",
              "FLAGS"}, be32 |-> {"SPI"}, addr |-> {"DADDR", "SADDR"},
              selector |-> {"SEL"}, lifetime_cfg |-> {"LTIME_CFG"}]

sa_parse_header == UNION {Read(enc, sa_header[enc]) : enc \in DOMAIN sa_header}
                   \cup Read("lifetime_cur", {"LTIME_CUR"}) \cup Read("stats", {"STATS"})
                   \cup Read("u32", {"SEQ"}) \cup Read("u8", {"EXPIRE"})

sa_parse_attributes ==
    Read("algo_aead", {"ALG_AEAD"}) \cup Read("algo", {"ALG_CRYPT", "ALG_COMP"})
    \cup {ReadAs("ALG_AUTH_TRUNC", "algo_auth", "ALG_AUTH", {"ALG_AUTH"}),
          ReadAs("ALG_AUTH_TRUNC", "present", "trunc_len", {}),
          [ReadAs("ALG_AUTH", "algo", "ALG_AUTH", {"ALG_AUTH"})
             EXCEPT !.unless = {"ALG_AUTH_TRUNC"}],
          ReadAs("ETIMER_THRESH", "u32", "REPLAY_MAXAGE", {"REPLAY_MAXAGE"}),
          ReadAs("REPLAY_THRESH", "u32", "REPLAY_MAXDIFF", {"REPLAY_MAXDIFF"})}
    \cup Read("encap_tmpl", {"ENCAP"}) \cup Read("u32", {"TFCPAD"})
    \cup Read("addr", {"COADDR"}) \cup Read("mark", {"MARK"})
    \cup Read("sec_ctx", {"SECCTX"})

\* Current lifetime, statistics and sequence number are the kernel's.
sa_build_header == UNION {Header(enc, sa_header[enc]) : enc \in DOMAIN sa_header}
                   \cup {PutAs({}, "none", "LTIME_CUR", "lifetime_cur"),
                         PutAs({}, "none", "STATS", "stats"), PutAs({}, "none", "SEQ", "u32")}

\* The care-of address is sent as the library's own structure of an address.
sa_build_attributes ==
    Put("algo_aead", {"ALG_AEAD"}) \cup Put("algo", {"ALG_CRYPT", "ALG_COMP"})
    \cup {[PutAs({"ALG_AUTH"}, "ALG_AUTH", "ALG_AUTH_TRUNC", "algo_auth")
             EXCEPT !.nz = {"trunc_len"}],
          [PutAs({"ALG_AUTH"}, "ALG_AUTH", "ALG_AUTH", "algo")
             EXCEPT !.zero = {"trunc_len"}],
          PutAs({"REPLAY_MAXAGE"}, "REPLAY_MAXAGE", "ETIMER_THRESH", "u32"),
          PutAs({"REPLAY_MAXDIFF"}, "REPLAY_MAXDIFF", "REPLAY_THRESH", "u32")}
    \cup Put("encap_tmpl", {"ENCAP"}) \cup Put("u32", {"TFCPAD"})
    \cup Put("nl_addr", {"COADDR"}) \cup Put("mark", {"MARK"})
    \cup Put("sec_ctx", {"SECCTX"})

sa_compare ==
    Diff({"SEL", "DADDR", "SPI", "PROTO", "SADDR", "LTIME_CFG", "REQID", "FAMILY", "MODE",
          "REPLAY_WIN", "FLAGS", "ALG_AEAD", "ALG_AUTH", "ALG_CRYPT", "ALG_COMP", "ENCAP",
          "TFCPAD", "COADDR", "MARK", "SECCTX", "REPLAY_MAXAGE", "REPLAY_MAXDIFF", "EXPIRE"})
    \cup replay_state_diff("SEL")

sa == [Type(sa_id_lifetimes \cup sa_stats_mode_flags \cup sa_aead_auth \cup sa_crypt_comp
            \cup sa_encap_coaddr \cup sa_mark_ctx_replay \cup replay_state_api \cup sa_expire,
            sa_policy, sa_build_header \cup sa_build_attributes \cup replay_state_build,
            sa_parse_header \cup sa_parse_attributes \cup replay_state_parse, sa_compare)
         EXCEPT !.requires = UNION {sa_header[enc] : enc \in DOMAIN sa_header}
                             \cup {"LTIME_CUR", "STATS", "SEQ"},
                !.refuse = {Refuse({}, {}, {b}) : b \in {"DADDR", "SPI", "PROTO"}}]

\* An association is deleted by its identity and its mark.
sa_delete == [sa EXCEPT !.put = PutAlways("addr", {"DADDR"}) \cup PutAlways("be32", {"SPI"})
                                \cup PutAlways("u8", {"PROTO"}) \cup Put("mark", {"MARK"})]

-----------------------------------------------------------------------------
(* Policies.                                                               *)

sp_policy == Policy("sec_ctx", {"SECCTX"}) \cup Policy("tmpl", {"TMPL"})
             \cup Policy("policy_type", {"POLTYPE"}) \cup Policy("mark", {"MARK"})

sp_sel_lifetimes == Guarded({"SEL", "LTIME_CFG"}) \cup ReadOpen({"LTIME_CUR"})

sp_numbers == Guarded({"PRIO", "INDEX", "DIR", "ACTION", "FLAGS", "SHARE"})

\* Removing the last template leaves the bit.
sp_ctx_type_templates ==
    Guarded({"SECCTX", "POLTYPE"})
    \cup {[Attr("TMPL") EXCEPT !.ignores = TRUE],
          [Attr("TMPL") EXCEPT !.after = {"TMPL"}, !.empties = {"TMPL"}, !.keeps = TRUE,
                               !.readable = FALSE]}

sp_mark == Guarded({"MARK"})

sp_header == [selector |-> {"SEL"}, lifetime_cfg |-> {"LTIME_CFG"}, u32 |-> {"PRIO", "INDEX"},
              u8 |-> {"DIR", "ACTION", "FLAGS", "SHARE"}]

sp_parse_header == UNION {Read(enc, sp_header[enc]) : enc \in DOMAIN sp_header}
                   \cup Read("lifetime_cur", {"LTIME_CUR"})

sp_parse_attributes == Read("sec_ctx", {"SECCTX"}) \cup Read("policy_type", {"POLTYPE"})
                       \cup ReadNonzero("tmpl", {"TMPL"}) \cup Read("mark", {"MARK"})

sp_build_header == UNION {Header(enc, sp_header[enc]) : enc \in DOMAIN sp_header}
                   \cup {PutAs({}, "none", "LTIME_CUR", "lifetime_cur")}

\* Without templates there is no attribute: nla_nest_end().
sp_build_attributes ==
    Put("sec_ctx", {"SECCTX"}) \cup Put("policy_type", {"POLTYPE"}) \cup Put("mark", {"MARK"})
    \cup {[p EXCEPT !.nz = {"TMPL"}] : p \in Put("tmpl", {"TMPL"})}

\* Templates of the one object that differ from some of the other are reported
\* as the first bit.
sp_compare ==
    Diff({"SEL", "LTIME_CFG", "PRIO", "INDEX", "DIR", "ACTION", "FLAGS", "SHARE", "SECCTX",
          "POLTYPE", "TMPL", "MARK"})
    \cup {[DiffAs("TMPL", "TMPL") EXCEPT !.both = TRUE, !.reports = "SEL"]}

sp == [Type(sp_sel_lifetimes \cup sp_numbers \cup sp_ctx_type_templates \cup sp_mark,
            sp_policy, sp_build_header \cup sp_build_attributes,
            sp_parse_header \cup sp_parse_attributes, sp_compare)
         EXCEPT !.requires = UNION {sp_header[enc] : enc \in DOMAIN sp_header}
                             \cup {"LTIME_CUR"},
                !.refuse = {Refuse({}, {}, {"DIR"}), Refuse({}, {}, {"INDEX", "SEL"})}]

\* A policy is deleted by direction and index or selector.
sp_delete == [sp EXCEPT !.put = PutAlways("u8", {"DIR"}) \cup Header("u32", {"INDEX"})
                                \cup Header("selector", {"SEL"})
                                \cup Put("sec_ctx", {"SECCTX"})
                                \cup Put("mark", {"MARK"})]

-----------------------------------------------------------------------------
(* Asynchronous events.                                                    *)

ae_policy == Policy("lifetime_cur", {"LIFETIME"}) \cup Policy("replay", {"REPLAY_VAL"})
             \cup Policy("u32", {"REPLAY_THRESH", "ETIMER_THRESH"})
             \cup Policy("mark", {"MARK"}) \cup Policy("replay_esn", {"REPLAY_ESN_VAL"})

\* The first destination decides the family, a family the destination.
ae_addresses ==
    {[Attr("DADDR") EXCEPT !.sets = {"DADDR", "FAMILY"}, !.marks = {"FAMILY"},
                           !.lacks = {"FAMILY"}],
     [Attr("DADDR") EXCEPT !.after = {"FAMILY"}, !.nz = {"FAMILY"}, !.readable = FALSE]}
    \cup Guarded({"SPI", "FAMILY", "PROTO", "SADDR"})

ae_flags_lifetime == Guarded({"FLAGS", "REQID", "MARK", "LIFETIME", "REPLAY_MAXAGE",
                              "REPLAY_MAXDIFF"})

ae_replay == replay_state_api

ae_header == [addr |-> {"DADDR", "SADDR"}, be32 |-> {"SPI"}, u16 |-> {"FAMILY"},
              u8 |-> {"PROTO"}, u32 |-> {"FLAGS", "REQID"}]

\* The two thresholds are sent as what they are, and looked for under the
\* numbers of two flags, XFRM_AE_ETHR and XFRM_AE_RTHR, which as attributes
\* are a security context and an algorithm.  A message without replay state
\* is not expected: the parser reads it from NULL.
ae_parse ==
    UNION {Read(enc, ae_header[enc]) : enc \in DOMAIN ae_header}
    \cup Read("mark", {"MARK"}) \cup Read("lifetime_cur", {"LIFETIME"})
    \cup {ReadAs("SECCTX", "u32", "REPLAY_MAXAGE", {"REPLAY_MAXAGE"}),
          ReadAs("ALG_AUTH", "u32", "REPLAY_MAXDIFF", {"REPLAY_MAXDIFF"})}
    \cup replay_state_parse

\* Source, flags and request are whatever was on the stack if they are not set.
ae_build ==
    UNION {Header(enc, ae_header[enc]) : enc \in DOMAIN ae_header}
    \cup Put("mark", {"MARK"}) \cup Put("lifetime_cur", {"LIFETIME"})
    \cup {PutAs({"REPLAY_MAXAGE"}, "REPLAY_MAXAGE", "ETIMER_THRESH", "u32"),
          PutAs({"REPLAY_MAXDIFF"}, "REPLAY_MAXDIFF", "REPLAY_THRESH", "u32")}
    \cup replay_state_build

ae_compare == Diff({"DADDR", "SPI", "PROTO", "SADDR", "FLAGS", "REQID", "MARK",
                    "REPLAY_MAXAGE", "REPLAY_MAXDIFF"})
              \cup replay_state_diff("DADDR")

ae == [Type(ae_addresses \cup ae_flags_lifetime \cup ae_replay, ae_policy, ae_build, ae_parse,
            ae_compare)
         EXCEPT !.requires = UNION {ae_header[enc] : enc \in DOMAIN ae_header},
                !.refuse = {Refuse({}, {}, {b}) : b \in {"DADDR", "SPI", "PROTO"}}]
=============================================================================
