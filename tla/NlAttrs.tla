------------------------------ MODULE NlAttrs -------------------------------
(***************************************************************************)
(* An application fills in an object and sends it to the kernel, which     *)
(* stores the attributes and reports them in the same form: the object is  *)
(* built into a message and the message is parsed into another object.  Or *)
(* the kernel reports attributes the application has not set.              *)
(*                                                                         *)
(* The kernel is not part of the library.  Where it is known not to report *)
(* what it was sent in the same form, or where the library's own tables    *)
(* disagree, the pair of type and attribute is in Known; the properties    *)
(* are about all the others.                                               *)
(***************************************************************************)
EXTENDS NlAttrLink, NlAttrRoute, NlAttrTc, NlAttrXfrm, NlAttrNf, NlAttrDiag

CONSTANTS Kinds,      \* the types that are checked
          Values,     \* values of attributes, with zero
          MaxSets,    \* setters called on an object and attributes received
          Known,      \* {<<type, attribute>>}: see above
          Unbounded,  \* {<<type, attribute>>}: set to strings longer than can be read
          Uncompared  \* {<<type, bit>>}: bits no comparison looks at

ASSUME AttrsAssumption == /\ Values \subseteq Nat /\ 0 \in Values
                          /\ MaxSets \in Nat

VARIABLES kind,     \* the type of the object
          order,    \* the byte order of the machine
          obj,      \* the object
          sets,     \* setters called and attributes received
          echo      \* what came of the message built from the object
vars == <<kind, order, obj, sets, echo>>

Tables == [vxlan |-> vxlan, vlan |-> vlan, macvlan |-> macvlan, macvtap |-> macvtap,
           ipvlan |-> ipvlan, vrf |-> vrf, ppp |-> ppp, xfrmi |-> xfrmi, sit |-> sit,
           ipgre |-> ipgre, ipvti |-> ipvti, ipip |-> ipip, ip6_tnl |-> ip6_tnl,
           geneve |-> geneve, macsec |-> macsec, can |-> can, bridge |-> bridge,
           inet |-> inet, inet6 |-> inet6, vf |-> vf,
           link |-> link, veth |-> veth, addr |-> addr_obj, neigh |-> neigh_obj,
           rule |-> rule_obj, route |-> route_obj, nexthop |-> nexthop,
           nexthop_only |-> nexthop_only, mroute |-> mroute_obj, mdb |-> mdb_obj,
           mgrp |-> mgrp, neightbl |-> neightbl, netconf |-> netconf,
           tc_obj |-> tc_obj, qdisc |-> qdisc, qdisc_delete |-> qdisc_delete,
           class |-> class, cls |-> cls, fifo_qdisc |-> fifo_qdisc, tbf |-> tbf,
           prio |-> prio, sfq |-> sfq, red |-> red, cbq |-> cbq,
           dsmark_qdisc |-> dsmark_qdisc, dsmark_class |-> dsmark_class,
           fq_codel |-> fq_codel, hfsc_qdisc |-> hfsc_qdisc, hfsc_class |-> hfsc_class,
           htb_qdisc |-> htb_qdisc, htb_class |-> htb_class, mqprio |-> mqprio,
           netem |-> netem, plug |-> plug, basic |-> basic, cgroup |-> cgroup,
           mall |-> mall, fw |-> fw, u32 |-> u32, flower |-> flower, gact |-> gact,
           mirred |-> mirred, nat |-> nat, police |-> police, skbedit |-> skbedit,
           act_vlan |-> act_vlan,
           sel |-> sel, ltime_cfg |-> ltime_cfg, tmpl |-> tmpl, sa |-> sa,
           sa_delete |-> sa_delete, sp |-> sp, sp_delete |-> sp_delete, ae |-> ae,
           ct |-> ct, exp |-> exp, log |-> log, queue |-> queue, log_msg |-> log_msg,
           queue_msg |-> queue_msg, idiag_msg |-> idiag_msg, idiag_req |-> idiag_req,
           meminfo |-> meminfo, vegasinfo |-> vegasinfo, family |-> family]

T == Tables[kind]

Nothing == [status |-> "none", obj |-> [mask |-> {}, val |-> <<>>]]

Init == /\ kind \in Kinds
        /\ order \in {"little", "big"}
        /\ obj = New(T)
        /\ sets = 0
        /\ echo = Nothing

\* What a setter is called with.
ValuesOf(a) == IF a.long = "none" THEN Values ELSE Values \cup {Long}

\* A setter is called.
Set(a, v) == /\ sets < MaxSets
             /\ MaySet(obj, a)
             /\ obj' = SetAttr(obj, a, v)
             /\ sets' = sets + 1
             /\ echo' = Nothing
             /\ UNCHANGED <<kind, order>>

\* The kernel reports an attribute, or two, of a new object, next to those
\* that every message has, in the form the parser expects.
Receive(r, v, q) ==
    LET msg == {[nla |-> p.nla, enc |-> p.enc, val |-> 1] :
                  p \in {x \in T.parse : x.nla \in T.requires \ {r.nla}} \cup ({q} \ {r})}
               \cup {[nla |-> r.nla, enc |-> r.enc, val |-> v]}
    IN /\ sets = 0
       /\ r.nla = q.nla => r = q
       /\ sets' = Cardinality({r, q})
       /\ sets' <= MaxSets
       /\ Accepted(T, msg)
       /\ obj' = Parse(T, msg, order)
       /\ echo' = Nothing
       /\ UNCHANGED <<kind, order>>

\* The object is sent, and the kernel reports what it was sent.
Echo ==
    LET msg == Build(T, obj)
    IN /\ echo = Nothing
       /\ echo' = CASE Refused(T, obj)    -> [Nothing EXCEPT !.status = "refused"]
                    [] ~Accepted(T, msg)  -> [Nothing EXCEPT !.status = "rejected"]
                    [] OTHER              -> [status |-> "parsed",
                                              obj |-> Parse(T, msg, order)]
       /\ UNCHANGED <<kind, order, obj, sets>>

Next == \/ \E a \in T.api : \E v \in ValuesOf(a) : Set(a, v)
        \/ \E r, q \in T.parse, v \in Values : Receive(r, v, q)
        \/ Echo

Spec == Init /\ [][Next]_vars

-----------------------------------------------------------------------------
(* Properties.                                                             *)

\* The object has the attribute: its bits are set and its getter returns it.
Has(o, a) == a.readable /\ a.sets \subseteq o.mask /\ Available(o, a)

\* The attributes the properties are about.
SoundOf == [k \in Kinds |-> {a \in Tables[k].api : a.readable /\ <<k, a.name>> \notin Known}]
Sound == SoundOf[kind]

\* Of these, the ones that are sent and that the parser knows, if not zero.
Returned(t, a) == \E p \in t.put, r \in t.parse :
                    /\ p.field = a.field
                    /\ r.field = a.field \/ p.nla = r.nla
ReturnedOf == [k \in Kinds |-> {a \in SoundOf[k] : Returned(Tables[k], a)}]

\* ... and of these the ones that are sent and known also if they are zero.
ZeroReturnedOf ==
    [k \in Kinds |-> {a \in ReturnedOf[k] :
                        /\ ~ \E r \in Tables[k].parse : r.field = a.field /\ r.nz
                        /\ ~ \E p \in Tables[k].put : p.field = a.field /\ p.nz # {}}]

\* The object has what the builder wants to have with the attribute.
Accompanied(a) ==
    LET rows == {p \in T.put : p.field = a.field}
        own == {p \in rows : p.nla = a.name}
    IN \E p \in IF own # {} THEN own ELSE rows :
         /\ p.all \subseteq obj.mask
         /\ p.nz = {} \/ \E f \in p.nz : obj.val[f] # 0

\* An attribute that the object has, that is sent and that the parser knows,
\* comes back, with its value (or not, if builder or parser take zero for none).
RoundTrip ==
    echo.status = "parsed" =>
      \A a \in ReturnedOf[kind] :
        /\ Has(obj, a) /\ Accompanied(a)
        /\ GetAttr(obj, a) # 0 \/ a \in ZeroReturnedOf[kind]
        => Has(echo.obj, a) /\ GetAttr(echo.obj, a) = GetAttr(obj, a)

\* What comes back is what was sent: no getter returns a value that the object
\* did not have.
NothingInvented ==
    echo.status = "parsed" =>
      \A a \in Sound : Available(echo.obj, a) => GetAttr(echo.obj, a) \in {0, GetAttr(obj, a)}

\* A message of the library passes the library's own policy, which bounds the
\* lengths from both sides and wants a NUL after a string, unless the object
\* lacks what the parser requires or has a string in one of the attributes whose
\* setters do not bound it.
OwnMessagesValid ==
    echo.status = "rejected" =>
      \/ ~Complete(T, Build(T, obj))
      \/ \E a \in T.api : <<kind, a.name>> \in Unbounded /\ obj.val[a.field] = Long

\* A setter makes another attribute unavailable only if the two exclude each
\* other, or if the other one depends on this one.
Unaffected(k, a) == LET same == {c \in Tables[k].api : c.name = a.name}
                    IN {b \in Tables[k].api :
                          /\ b.name \notin {a.name} \cup a.sets
                          /\ <<k, b.name>> \notin Known
                          /\ \A c \in same :
                               /\ b.name \notin c.pre \cup c.clears \cup c.loses \cup c.drops
                                                  \cup c.behind
                               /\ b.sets \cap c.hides = {}}
SettersIndependent ==
    [][\A a \in Sound :
         sets > 0 /\ Has(obj, a) /\ ~Has(obj', a) =>
           ~ \E b \in Unaffected(kind, a) : \E v \in ValuesOf(b) : Set(b, v)]_vars

\* The bits of the mask, and the attributes a bit stands for.
MaskBits(k) == UNION {a.sets : a \in Tables[k].api}
ToldBy(k, bit) == LET setters == {a \in Tables[k].api : a.readable /\ bit \in a.sets}
                      named == {a \in setters : a.name = bit}
                  IN IF named # {} THEN named ELSE setters
ToldOf == [k \in Kinds |->
             [bit \in {b \in MaskBits(k) : /\ <<k, b>> \notin Uncompared
                                           /\ ToldBy(k, b) # {}
                                           /\ ToldBy(k, b) \subseteq SoundOf[k]}
                |-> ToldBy(k, bit)]]

\* oo_compare tells the old from the new object by exactly the attributes that
\* a setter changed, all attributes of the mask but the ones it is known not to
\* compare (Uncompared) or to compare wrongly (Known).
DiffExact ==
    [][LET reported == Compare(T, obj, obj')
           changed(a) == \/ Has(obj, a) # Has(obj', a)
                         \/ Has(obj, a) /\ GetAttr(obj, a) # GetAttr(obj', a)
       IN \A bit \in DOMAIN ToldOf[kind] :
            bit \in reported <=> \E a \in ToldOf[kind][bit] : changed(a)]_vars
=============================================================================
