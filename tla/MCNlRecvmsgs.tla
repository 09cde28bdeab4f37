---------------------------- MODULE MCNlRecvmsgs ----------------------------
(***************************************************************************)
(* Instances of NlRecvmsgs for TLC; the .cfg files choose the application  *)
(* and what may go wrong.                                                  *)
(***************************************************************************)
EXTENDS NlRecvmsgs

\* An application whose hooks only look at what they get.
OrderlyHooks == { {}, {"VALID", "FINISH", "ACK"} }

\* The default, an application that reads replies, and one that sets every
\* other hook.
FreeHooks ==
    { {}, {"VALID", "ACK"},
      {"MSG_IN", "INVALID", "DUMP_INTR", "SEND_ACK", "FINISH", "SKIPPED",
       "OVERRUN", "ERR"} }

NoHooks == { {} }
=============================================================================
