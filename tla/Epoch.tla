------------------------------- MODULE Epoch -------------------------------
(***************************************************************************)
(* The unit of time of the reclaimer (src/src/epoch.rs): a u8 that rotates *)
(* through NUM_EPOCHS values instead of growing.                           *)
(***************************************************************************)
EXTENDS Naturals

CONSTANT NUM_EPOCHS  \* 64 in the code

(* Four values are the fewest for which an epoch, its two successors and   *)
(* its next generation are pairwise distinct.                              *)
ASSUME EpochAssumption == NUM_EPOCHS \in Nat /\ NUM_EPOCHS >= 4

Epochs == 0 .. NUM_EPOCHS - 1

NextEpoch(e) == (e + 1) % NUM_EPOCHS

PrevEpoch(e) == (e + NUM_EPOCHS - 1) % NUM_EPOCHS

NextGeneration(e) == NextEpoch(NextEpoch(NextEpoch(e)))

(* Mutant of InSameGeneration: allows for no lag of the epoch. *)
InSameGenerationNoLag(e, other) ==
    other \in {e, NextEpoch(e)}

InSameGeneration(e, other) ==
    other \in {e, NextEpoch(e), NextEpoch(NextEpoch(e))}

(* TryFrom<u8>: a value out of range is reported, reduced to the rotation. *)
TryFrom(u8) ==
    [ok |-> u8 < NUM_EPOCHS, epoch |-> u8 % NUM_EPOCHS]

=============================================================================
