------------------------------- MODULE NlAttr -------------------------------
(***************************************************************************)
(* Attributes of objects and attributes of messages.  An object has a mask *)
(* of available attributes (ce_mask) and a value for each of its fields.   *)
(* Setters write a field and set its bit, builders put the fields whose    *)
(* bits are set into a message, parsers copy message attributes to fields  *)
(* and set bits, getters look at the bit or not, and comparisons report    *)
(* the bits whose fields differ.  Each of these functions is a table of    *)
(* rows, taken from the code on its own; nothing makes the tables of one   *)
(* type agree.  Most rows use one name for the bit, the field and the      *)
(* message attribute, without the prefix of the C names; the rows that do  *)
(* not are written out.                                                    *)
(*                                                                         *)
(* A field of a structure that is sent as one attribute is an attribute    *)
(* with a dot in its name; a header field is an attribute every message    *)
(* has; a flag word has one flag.  The field none is always zero, and the  *)
(* field some never: what a builder sends of its own.                      *)
(***************************************************************************)
EXTENDS Integers, Sequences, FiniteSets

-----------------------------------------------------------------------------
(* Setters and getters.                                                    *)

\* A setter writes v to the field (or adds it, if it uses |=, or keeps the
\* value), puts one into the fields `marks' and zero into `empties', sets and
\* clears bits, loses attributes, bit and value, and drops others if v is zero;
\* `ignores': it fails or does nothing if v is zero.  It fails unless the
\* attributes `pre' are available and not zero, the bits `after' are set, those
\* of `lacks' are not, the fields nz are not zero and the fields `zero' are.  A
\* getter fails unless all the bits it looks at are set, those of `hides' are not
\* and the attributes `behind' are not available; `nonzero': it takes a value of
\* zero for none.  A string may be longer than an attribute is allowed to be
\* (Long): the setter takes it as it is, cuts it or refuses it.
Attr(a) == [name |-> a, field |-> a, sets |-> {a}, clears |-> {}, loses |-> {},
            drops |-> {}, marks |-> {}, empties |-> {}, pre |-> {}, after |-> {},
            lacks |-> {}, nz |-> {}, zero |-> {}, ignores |-> FALSE, needs |-> {a},
            behind |-> {}, hides |-> {}, nonzero |-> FALSE, adds |-> FALSE, keeps |-> FALSE,
            long |-> "none", writable |-> TRUE, readable |-> TRUE]

Guarded(S)  == {Attr(a) : a \in S}
Open(S)     == {[Attr(a) EXCEPT !.needs = {}] : a \in S}
ReadOnly(S) == {[Attr(a) EXCEPT !.writable = FALSE] : a \in S}
ReadOpen(S) == {[Attr(a) EXCEPT !.writable = FALSE, !.needs = {}] : a \in S}
WriteOnly(S) == {[Attr(a) EXCEPT !.readable = FALSE] : a \in S}

\* A setter that makes the bit of another attribute meaningless.
Instead(a, other) == [Attr(a) EXCEPT !.clears = {other}]
\* An attribute whose bit has another name than its field.
Named(a, bit) == [Attr(a) EXCEPT !.sets = {bit}, !.needs = {bit}]
NamedOpen(a, bit) == [Attr(a) EXCEPT !.sets = {bit}, !.needs = {}]
\* An attribute without a bit.
Unmasked(S) == {[Attr(a) EXCEPT !.sets = {}, !.needs = {}] : a \in S}

\* Strings, by what their setters do with a long one.
Text(how, api) == {[a EXCEPT !.long = how] : a \in api}

\* A pointer that NULL unsets, with a getter that returns it.
Pointer(S) == {[Attr(a) EXCEPT !.drops = {a}, !.needs = {}] : a \in S}

\* An attribute that cannot be set to zero (NULL, an invalid value).
NeverZero(S) == {[Attr(a) EXCEPT !.ignores = TRUE] : a \in S}

\* A list: what is added stays, and the last one removed takes the bit along.
List(a) == {[Attr(a) EXCEPT !.ignores = TRUE],
            [Attr(a) EXCEPT !.sets = {}, !.keeps = TRUE, !.after = {a}, !.loses = {a},
                            !.readable = FALSE]}

\* A call that only makes an attribute unavailable.
Unset(S) == {[Attr(a) EXCEPT !.sets = {}, !.clears = {a}, !.keeps = TRUE,
                             !.readable = FALSE] : a \in S}

\* A call with NULL: the attribute is gone.
Reset(S) == {[Attr(a) EXCEPT !.sets = {}, !.loses = {a}, !.keeps = TRUE,
                             !.readable = FALSE] : a \in S}

-----------------------------------------------------------------------------
(* Builders.                                                               *)

\* Put the field as attribute nla if one of the bits is set (always, if
\* there is none), all the bits `all' and no bit of `unless' are, one of the
\* fields nz is not zero (no matter, if there is none), and all of `zero' are.
PutAs(bits, field, nla, enc) ==
    [bits |-> bits, all |-> {}, unless |-> {}, nz |-> {}, zero |-> {},
     field |-> field, nla |-> nla, enc |-> enc]
Put(enc, S) == {PutAs({a}, a, a, enc) : a \in S}
PutAlways(enc, S) == {PutAs({}, a, a, enc) : a \in S}
PutNonzero(enc, S) == {[PutAs({}, a, a, enc) EXCEPT !.nz = {a}] : a \in S}

\* Refuse to build: the bits `has' and the fields nz are set, none of `lacks',
\* and the fields `zero' are zero.
Refuse(has, nz, lacks) == [has |-> has, nz |-> nz, lacks |-> lacks, zero |-> {}]

-----------------------------------------------------------------------------
(* Parsers.                                                                *)

\* Copy attribute nla to the field, if all of `with' and none of `unless'
\* are in the message too, those of `when' are not zero and those of `not' are,
\* and it differs from `other'.
ReadAs(nla, enc, field, bits) ==
    [nla |-> nla, enc |-> enc, field |-> field, sets |-> bits, clears |-> {},
     with |-> {}, unless |-> {}, when |-> {}, not |-> {}, other |-> {}, nz |-> FALSE]
Read(enc, S) == {ReadAs(a, enc, a, {a}) : a \in S}
ReadInstead(nla, enc, other) ==
    [ReadAs(nla, enc, nla, {nla}) EXCEPT !.clears = {other}]
\* A field without a bit.
ReadBare(enc, S) == {ReadAs(a, enc, a, {}) : a \in S}
\* A header field whose bit is set only if it is not zero.
ReadNonzero(enc, S) == {[ReadAs(a, enc, a, {a}) EXCEPT !.nz = TRUE] : a \in S}

\* The policy of an attribute: the smallest length it may have, a NUL at its end
\* (str, name) and a largest length (name).
Policy(enc, S) == {[nla |-> a, enc |-> enc] : a \in S}

-----------------------------------------------------------------------------
(* Comparisons.                                                            *)

\* Report the bit if only one object has it, or if both have it and the field
\* differs; `both': only if both have it.  What is reported may be another bit.
DiffAs(bit, field) == [bit |-> bit, field |-> field, both |-> FALSE, reports |-> bit]
Diff(S) == {DiffAs(a, a) : a \in S}

-----------------------------------------------------------------------------
(* Encodings.  u8 ... u64 are numbers in host order, be16 ... be64 in      *)
(* network order, in4 and in6 addresses of fixed length, addr one with the *)
(* length of its family; str is a string with its NUL, data bytes of any   *)
(* length; present is an attribute read as one whatever it holds; any      *)
(* other name is a structure.                                              *)

Width == [u8 |-> 1, u16 |-> 2, u32 |-> 4, u64 |-> 8, be16 |-> 2, be32 |-> 4,
          be64 |-> 8, in4 |-> 4, in6 |-> 16, flag |-> 0, any |-> 0]
Host == {"u8", "u16", "u32", "u64"}
Network == {"be16", "be32", "be64"}

Garbage == -1

\* A string longer than the policy of a name allows
Long == -2

\* validate_nla(): long enough for the policy and not too long, with a NUL at
\* the end if it is a string
Valid(enc, v, pol) ==
    \/ enc = pol
    \/ pol \in {"any", "flag"}
    \/ enc \in DOMAIN Width /\ pol \in DOMAIN Width /\ Width[enc] >= Width[pol]
    \/ enc \notin DOMAIN Width /\ pol \in DOMAIN Width
    \/ pol = "name" /\ enc = "str" /\ v # Long

\* What a value written as w is when it is read as r.  A number read in the
\* other byte order is another number, and a wider number read as a narrower
\* one is the same only if the low byte comes first.
Decoded(r, w, v, order) ==
    IF r = "present" THEN 1 ELSE
    IF \/ r = w \/ r = "flag"
       \/ /\ r \in DOMAIN Width /\ w \in DOMAIN Width /\ Width[r] = Width[w]
          /\ order = "big" \/ (r \in Network <=> w \in Network)
       \/ r \in Host /\ w \in Host /\ Width[r] < Width[w] /\ order = "little"
    THEN v ELSE Garbage

-----------------------------------------------------------------------------
(* What the tables of a type do.                                           *)

\* A type: what its allocation makes available, its setters and getters, its
\* policy, builder and parser, its comparison; what makes the builder refuse
\* an object, what the parser does not accept a message without, what it wants
\* not to be zero, and what it wants not to be zero if another attribute is there.
Type(api, policy, put, parse, diff) ==
    [init |-> {}, api |-> api, put |-> put,
     policy |-> [n \in {p.nla : p \in policy} |-> (CHOOSE p \in policy : p.nla = n).enc],
     parse |-> parse, diff |-> diff, refuse |-> {}, requires |-> {}, wants |-> {},
     depends |-> {},
     fields |-> {a.field : a \in api} \cup {p.field : p \in put}
                \cup {r.field : r \in parse} \cup {d.field : d \in diff}]

\* A new object: calloc(), and the bits its allocation sets
Blank(f) == IF f = "some" THEN 1 ELSE 0
New(t) == [mask |-> t.init, val |-> [f \in t.fields |-> Blank(f)]]

\* A setter
MaySet(o, a) == /\ a.writable
                /\ a.after \subseteq o.mask /\ a.lacks \cap o.mask = {}
                /\ \A f \in a.zero : o.val[f] = 0
                /\ \A f \in a.nz : o.val[f] # 0
                /\ \A b \in a.pre : b \in o.mask /\ o.val[b] # 0
SetAttr(o, a, v) ==
    LET dropped == a.loses \cup (IF v = 0 THEN a.drops ELSE {})
        kept == a.keeps \/ (a.adds /\ o.val[a.field] # 0)
        stored == IF v = Long /\ a.long = "cuts" THEN 1 ELSE v
    IN IF (a.ignores /\ v = 0) \/ (a.long = "refuses" /\ v = Long) THEN o ELSE
       [mask |-> ((o.mask \ a.clears) \cup a.sets) \ dropped,
        val  |-> [f \in DOMAIN o.val |->
                    CASE f = a.field /\ ~kept -> stored
                      [] f \in a.marks        -> 1
                      [] f \in dropped \cup a.empties -> 0
                      [] OTHER                -> o.val[f]]]

\* A getter
Available(o, a) == /\ a.needs \subseteq o.mask /\ a.hides \cap o.mask = {}
                   /\ a.nonzero => o.val[a.field] # 0
                   /\ \A b \in a.behind : b \notin o.mask \/ o.val[b] = 0
GetAttr(o, a) == o.val[a.field]

\* Is an object refused by its builder?
Refused(t, o) == \E r \in t.refuse : /\ r.has \subseteq o.mask
                                     /\ \A f \in r.nz : o.val[f] # 0
                                     /\ \A f \in r.zero : o.val[f] = 0
                                     /\ r.lacks \cap o.mask = {}

\* The message a builder makes: the attributes with encoding and value
Build(t, o) ==
    {[nla |-> p.nla, enc |-> p.enc, val |-> o.val[p.field]] :
       p \in {q \in t.put : /\ q.bits = {} \/ q.bits \cap o.mask # {}
                            /\ q.all \subseteq o.mask
                            /\ q.unless \cap o.mask = {}
                            /\ q.nz = {} \/ \E f \in q.nz : o.val[f] # 0
                            /\ \A f \in q.zero : o.val[f] = 0}}

Names(msg) == {e.nla : e \in msg}

Complete(t, msg) == /\ t.requires \subseteq Names(msg)
                    /\ \A e \in msg : e.nla \in t.wants => e.val # 0
                    /\ \A d \in t.depends : d[1] \in Names(msg) =>
                         \E e \in msg : e.nla = d[2] /\ e.val # 0

\* nla_parse() with the policy of the type
Accepted(t, msg) ==
    /\ \A e \in msg : e.nla \in DOMAIN t.policy => Valid(e.enc, e.val, t.policy[e.nla])
    /\ Complete(t, msg)

\* A parser: the object it makes from a message it accepts
Parse(t, msg, order) ==
    LET names == Names(msg)
        entry(n) == CHOOSE x \in msg : x.nla = n
        value(r) == LET e == entry(r.nla) IN Decoded(r.enc, e.enc, e.val, order)
        rows == {r \in t.parse :
                   /\ r.nla \in names
                   /\ r.with \subseteq names
                   /\ r.unless \cap names = {}
                   /\ \A n \in r.when : n \in names /\ entry(n).val # 0
                   /\ \A n \in r.not : n \in names => entry(n).val = 0
                   /\ \A n \in r.other : entry(n).val # entry(r.nla).val}
    IN [mask |-> (t.init \cup UNION {r.sets : r \in {q \in rows : q.nz => value(q) # 0}})
                 \ UNION {r.clears : r \in rows},
        val  |-> [f \in t.fields |->
                    IF \E r \in rows : r.field = f
                    THEN value(CHOOSE r \in rows : r.field = f) ELSE Blank(f)]]

\* oo_compare with all attributes: the bits reported (ATTR_DIFF)
Compare(t, o, p) ==
    {d.reports : d \in {e \in t.diff :
                          \/ ~e.both /\ (e.bit \in o.mask) # (e.bit \in p.mask)
                          \/ /\ e.bit \in o.mask \cap p.mask
                             /\ o.val[e.field] # p.val[e.field]}}
=============================================================================
