-------------------------------- MODULE Lifo --------------------------------
(***************************************************************************)
(* What Stack promises (src/src/stack.rs:13): last-in-first-out            *)
(* containers.  An entry goes on top, leaves once, and while it is in a    *)
(* stack the entries below it stay below it.  All the entries of a stack   *)
(* can become a new stack at one instant.                                  *)
(*                                                                         *)
(* An entry may leave from below the top: whoever pops it found it on top  *)
(* a moment ago.  TakesNewest in Stack says so.  And a program that has an *)
(* entry in its hands may insert another right below that.                 *)
(***************************************************************************)
EXTENDS SequencesExt

CONSTANTS Entries, Stacks

VARIABLES
    items,   \* of each stack, newest first
    removed  \* entries that were popped or deleted

LifoInit == items = [s \in Stacks |-> <<>>] /\ removed = {}

New == Entries \ (removed \cup UNION {ToSet(items[s]) : s \in Stacks})

LifoPush ==
    \E s \in Stacks, e \in New :
        /\ items' = [items EXCEPT ![s] = <<e>> \o @]
        /\ UNCHANGED removed

LifoInsert ==
    \E s \in Stacks, e \in New : \E i \in DOMAIN items[s] :
        /\ items' = [items EXCEPT ![s] = InsertAt(@, i + 1, e)]
        /\ UNCHANGED removed

LifoRemove ==
    \E s \in Stacks : \E i \in DOMAIN items[s] :
        /\ items' = [items EXCEPT ![s] = RemoveAt(@, i)]
        /\ removed' = removed \cup {items[s][i]}

LifoMove ==
    \E s \in Stacks : \E r \in Stacks \ {s} :
        /\ items[r] = <<>>
        /\ items' = [items EXCEPT ![r] = items[s], ![s] = <<>>]
        /\ UNCHANGED removed

LifoNext == LifoPush \/ LifoInsert \/ LifoRemove \/ LifoMove

LifoSpec == LifoInit /\ [][LifoNext]_<<items, removed>>

=============================================================================
