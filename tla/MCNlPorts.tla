----------------------------- MODULE MCNlPorts -----------------------------
(***************************************************************************)
(* Instance of NlPorts for TLC.  Two sockets, two generated ports and      *)
(* UINT32_MAX: the map can be exhausted, and the bind loop of nl_connect   *)
(* can end because attempts run out and because ports do.                  *)
(***************************************************************************)
EXTENDS NlPorts
=============================================================================
