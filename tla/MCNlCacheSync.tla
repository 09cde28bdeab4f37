--------------------------- MODULE MCNlCacheSync ---------------------------
(***************************************************************************)
(* Instances of NlCacheSync for TLC: two keys of two families, or of one.  *)
(***************************************************************************)
EXTENDS NlCacheSync, TLC

CONSTANTS k1, k2

TwoFamilies == <<"inet", "inet6">>
OneEach == k1 :> "inet" @@ k2 :> "inet6"

OneFamily == <<"unspec">>
BothInOne == k1 :> "unspec" @@ k2 :> "unspec"

Replacing == [hashed : BOOLEAN, update : {FALSE}]
=============================================================================
