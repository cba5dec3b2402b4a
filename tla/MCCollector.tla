---------------------------- MODULE MCCollector ----------------------------
(***************************************************************************)
(* Instances of Collector for TLC.                                         *)
(***************************************************************************)
EXTENDS CollectorInvariants, TLC

CollectorSymmetry == Permutations(Collectors) \cup Permutations(Objects)

(* Cuts off every behaviour in which the epoch gets near its wrap-around.  *)
BeforeWrap == epoch <= 4

=============================================================================
