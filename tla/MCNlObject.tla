----------------------------- MODULE MCNlObject -----------------------------
(***************************************************************************)
(* NlObject for TLC; objects, caches and keys are interchangeable.         *)
(***************************************************************************)
EXTENDS NlObject, TLC

Symmetry == Permutations(Objs) \cup Permutations(Caches)
=============================================================================
