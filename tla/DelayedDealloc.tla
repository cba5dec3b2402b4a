--------------------------- MODULE DelayedDealloc ---------------------------
(***************************************************************************)
(* What the crate promises its users, without epochs, collectors or lists: *)
(* an object that was retired while a thread had a guard open is not       *)
(* reclaimed before that thread has closed its last guard (guard.rs:8-13   *)
(* and 161-164).                                                           *)
(*                                                                         *)
(* An object that was reclaimed becomes "live" again: its address can be   *)
(* allocated anew, which is what makes a premature reclamation dangerous.  *)
(***************************************************************************)
EXTENDS Naturals

CONSTANTS Threads, Objects

VARIABLES
    guarded,   \* threads with at least one guard open
    life,      \* is an object in use or retired?
    held       \* objects retired since a guarded thread opened its guard

avars == <<guarded, life, held>>

AbstractInit ==
    /\ guarded = {}
    /\ life = [o \in Objects |-> "live"]
    /\ held = [t \in Threads |-> {}]

Enter(t) ==
    /\ t \notin guarded
    /\ guarded' = guarded \cup {t}
    /\ UNCHANGED <<life, held>>

Exit(t) ==
    /\ t \in guarded
    /\ guarded' = guarded \ {t}
    /\ held' = [held EXCEPT ![t] = {}]
    /\ UNCHANGED life

RetireObject(o) ==
    /\ life[o] = "live"
    /\ life' = [life EXCEPT ![o] = "retired"]
    /\ held' = [t \in Threads |->
                    IF t \in guarded THEN held[t] \cup {o} ELSE held[t]]
    /\ UNCHANGED guarded

Reclaim(o) ==
    /\ life[o] = "retired"
    /\ \A t \in Threads : o \notin held[t]
    /\ life' = [life EXCEPT ![o] = "live"]
    /\ UNCHANGED <<guarded, held>>

AbstractNext ==
    \/ \E t \in Threads : Enter(t) \/ Exit(t)
    \/ \E o \in Objects : RetireObject(o) \/ Reclaim(o)

AbstractSpec == AbstractInit /\ [][AbstractNext]_avars

=============================================================================
