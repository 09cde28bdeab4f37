------------------------------ MODULE MCNlMsg -------------------------------
(***************************************************************************)
(* Instances of NlMsg for TLC: a family header and a structure whose       *)
(* lengths are not aligned, containers with and without a structure.       *)
(***************************************************************************)
EXTENDS NlMsg

Structs == [options |-> 5, nest |-> 0]
=============================================================================
