------------------------------- MODULE MCBag -------------------------------
(***************************************************************************)
(* Instances of Bag for TLC.                                               *)
(***************************************************************************)
EXTENDS BagInvariants

BagSymmetry ==
    Permutations(Threads) \cup Permutations(Values) \cup Permutations(Storages)

=============================================================================
