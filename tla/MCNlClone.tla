----------------------------- MODULE MCNlClone ------------------------------
(***************************************************************************)
(* Instances of NlClone for TLC.                                           *)
(***************************************************************************)
EXTENDS NlClone

\* The types that have at least one field that is cloned soundly; the others
\* (basic, cgroup, mall, netem, can, log_msg, queue_msg, family) are not.
SoundTypes ==
    {"neigh", "rule", "addr", "route", "mroute", "mdb", "link", "link_plain",
     "link_vlan", "link_macvlan", "link_veth", "tc", "fw", "u32", "flower",
     "ct", "exp", "ae", "sa", "sp", "idiag_msg", "idiag_req", "request", "result"}

LinkTypes == {"link", "link_plain", "link_vlan", "link_macvlan", "link_veth"}

\* The fields of these types that are shared or lost.
KnownDefects ==
    {<<"route", "nh_encap">>, <<"mroute", "nh_encap">>, <<"sa", "encap">>,
     <<"sa", "encap_oa">>, <<"u32", "act_next">>, <<"flower", "act_next">>}
    \cup {<<t, f>> : t \in LinkTypes, f \in {"vf_vlans", "vf_vlan_array"}}

\* The types that set all pointers of the clone to NULL before they copy, or
\* have only one at a time.
ResettingTypes == {"tc", "mdb", "idiag_msg", "request", "result"}

\* Copies whose failure is known to do harm by itself.
KnownUnsafe ==
    {<<"mdb", "mgport2">>, <<"link_veth", "info">>, <<"link_macvlan", "macs">>}
    \cup {<<t, "vf_lladdr">> : t \in LinkTypes}
    \cup {<<t, f>> : t \in {"link_plain", "link_vlan", "link_macvlan"},
                     f \in {"kind", "info"}}
    \cup {<<"ct", f>> : f \in ct.frees}
    \cup {<<"exp", f>> : f \in exp.frees \ {"fn", "helper_name"}}

AllTypes == DOMAIN Table

\* One or two fields of a type that setters share: addresses and links.
Addresses == {"dst", "link", "gateway", "orig_src", "daddr"}

Symmetry == Permutations(Objs)
=============================================================================
