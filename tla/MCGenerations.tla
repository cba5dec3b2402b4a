--------------------------- MODULE MCGenerations ---------------------------
(***************************************************************************)
(* Instances of Generations for TLC.                                       *)
(***************************************************************************)
EXTENDS Generations, TLC

CollectorSymmetry == Permutations(Collectors)

=============================================================================
