-------------------------------- MODULE Fifo --------------------------------
(***************************************************************************)
(* What Queue promises (src/src/queue.rs:10): a first-in-first-out         *)
(* container, every operation of which takes effect at one instant.        *)
(***************************************************************************)
EXTENDS Sequences, Functions

CONSTANT Entries

VARIABLE items  \* oldest first

FifoInit == items = <<>>

FifoPush == \E e \in Entries \ Range(items) : items' = Append(items, e)

FifoPop == items # <<>> /\ items' = Tail(items)

FifoSpec == FifoInit /\ [][FifoPush \/ FifoPop]_items

=============================================================================
