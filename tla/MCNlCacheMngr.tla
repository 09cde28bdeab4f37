--------------------------- MODULE MCNlCacheMngr ---------------------------
(***************************************************************************)
(* Instances of NlCacheMngr for TLC: addresses, which have no hash table   *)
(* and are replaced, and netconf, which has one, is merged and has a group *)
(* per family.                                                             *)
(***************************************************************************)
EXTENDS NlCacheMngr, TLC

CONSTANTS k1, k2

AllPresent == {[k \in Keys |-> "v1"]}

AddrAndNetconf == {"addr", "netconf"}
Ops      == "addr" :> [hashed |-> FALSE, update |-> FALSE] @@
            "netconf" :> [hashed |-> TRUE, update |-> TRUE]
OwnGroups == "addr" :> <<"inet addr">> @@
             "netconf" :> <<"inet netconf", "inet6 netconf">>
OwnMsgs  == "addr" :> "newaddr" @@ "netconf" :> "newnetconf"
OwnObjs  == "addr" :> "addr" @@ "netconf" :> "netconf"
AddrNetconf == <<"addr", "netconf">>
TypeOfKey  == k1 :> "netconf" @@ k2 :> "addr"
GroupOfKey == k1 :> "inet6 netconf" @@ k2 :> "inet addr"
=============================================================================
