--------------------------- MODULE MCOmisGateway ----------------------------
(***************************************************************************)
(* Instances of OmisGateway for TLC: see the cfg files that name it.       *)
(***************************************************************************)
EXTENDS OmisGateway, TLC

\* Processes that run the same code are interchangeable.
ProcSymmetry == Permutations(Viewers) \cup Permutations(Creators)

=============================================================================
