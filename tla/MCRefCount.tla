----------------------------- MODULE MCRefCount -----------------------------
(***************************************************************************)
(* Instances of RefCount for TLC.                                          *)
(***************************************************************************)
EXTENDS RefCount, TLC

RefCountSymmetry ==
    Permutations(Threads) \cup Permutations(Objects) \cup Permutations(Handles)

=============================================================================
