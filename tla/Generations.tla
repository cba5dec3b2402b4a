---------------------------- MODULE Generations ----------------------------
(***************************************************************************)
(* What Epoch::in_same_generation() says about the reclaimer               *)
(* (src/src/epoch.rs:37-43).  A program calls Guard::epoch() under a       *)
(* guard, retires an object under that guard, and later compares the epoch *)
(* it got with a new one to learn if the object is out of reach.           *)
(*                                                                         *)
(* This is Collector, with Guard::epoch() and what the program keeps of it.*)
(***************************************************************************)
EXTENDS Collector

VARIABLES
    witnessed,   \* by thread: what Guard::epoch() last returned to its guard
    retired_in   \* by object: the epoch witnessed by the guard it was retired by

generations == <<witnessed, retired_in>>

(* No epoch: no guard, or Guard::epoch() was not called under it. *)
Unknown == NUM_EPOCHS

GenerationInit ==
    /\ Init
    /\ witnessed = [t \in Threads |-> Unknown]
    /\ retired_in = [o \in Objects |-> Unknown]

(* Guard::epoch() reads the global epoch, not what the thread announces.   *)
CurrentEpoch(t) ==
    /\ pc[t] \in {"idle", "drop"}
    /\ InGuard(t)
    /\ witnessed' = [witnessed EXCEPT ![t] = epoch]
    /\ UNCHANGED <<vars, retired_in>>

(* The program forgets an epoch with the guard it got it from. *)
CloseForgets ==
    witnessed' = [t \in Threads |-> IF InGuard(t)' THEN witnessed[t] ELSE Unknown]

RetireWitnessed(t, o) ==
    /\ Retire(t, o)
    /\ retired_in' = [retired_in EXCEPT ![o] = witnessed[t]]

OtherStep ==
    /\ Next
    /\ \A o \in Objects : life'[o] = "retired" => life[o] = "retired"
    /\ UNCHANGED retired_in

GenerationNext ==
    \/ \E t \in Threads : CurrentEpoch(t)
    \/ /\ OtherStep \/ \E t \in Retirers, o \in Objects : RetireWitnessed(t, o)
       /\ PromptStep
       /\ CloseForgets

GenerationSpec == GenerationInit /\ [][GenerationNext]_<<vars, generations>>

(* While a thread may still reach an object, every call of Guard::epoch()  *)
(* returns an epoch of the same generation as the one its retirer          *)
(* witnessed: in_same_generation() = false tells that it is out of reach   *)
(* (epoch.rs:40-43).                                                       *)
SameGenerationIfHeld ==
    \A o \in Objects, r \in Threads :
        o \in held[r] /\ retired_in[o] # Unknown =>
            InSameGeneration(retired_in[o], epoch)

(***************************************************************************)
(* Why: an epoch a guard has witnessed is the one its thread announces or  *)
(* the present one, and what a thread holds was retired by a thread whose  *)
(* announcement was at most one epoch away from its own.  Inductive        *)
(* together with the invariants of Collector (CollectorPrompt).            *)
(***************************************************************************)
GenerationTypes ==
    /\ witnessed \in [Threads -> Epochs \cup {Unknown}]
    /\ retired_in \in [Objects -> Epochs \cup {Unknown}]

WitnessAge ==
    \A t \in Threads : witnessed[t] # Unknown =>
        LET announced == announcement[local[t]] IN
        /\ InGuard(t)
        /\ \/ witnessed[t] = announced
           \/ witnessed[t] = NextEpoch(announced) /\ epoch = witnessed[t]

RetiredAge ==
    \A r \in Threads, o \in Objects :
        o \in held[r] /\ retired_in[o] # Unknown =>
            LET announced == announcement[local[r]] IN
            \/ announced \in {retired_in[o], NextEpoch(retired_in[o])}
            \/ NextEpoch(announced) = retired_in[o] /\ epoch = retired_in[o]

GenerationInv == GenerationTypes /\ WitnessAge /\ RetiredAge

=============================================================================
