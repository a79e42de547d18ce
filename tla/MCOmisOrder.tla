---------------------------- MODULE MCOmisOrder -----------------------------
(***************************************************************************)
(* Instances of OmisOrder for TLC: see the cfg files that name it.         *)
(***************************************************************************)
EXTENDS OmisOrder, TLC

\* Request slots are interchangeable.
RequestSymmetry == Permutations(Requests)

=============================================================================
