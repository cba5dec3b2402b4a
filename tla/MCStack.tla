------------------------------- MODULE MCStack ------------------------------
(***************************************************************************)
(* Instances of Stack for TLC.                                             *)
(***************************************************************************)
EXTENDS StackInvariants

=============================================================================
