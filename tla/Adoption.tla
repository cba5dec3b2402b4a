------------------------------ MODULE Adoption ------------------------------
(***************************************************************************)
(* What becomes of the garbage that threads leave behind: ThreadExit, with *)
(* an auxiliary variable for the mark that asks for a scan of the chain.   *)
(* lock_chain() replaces the mark by the lock (collector.rs:477), so that  *)
(* a scan that does not come to a disowned Collector loses the mark it was *)
(* started by, unless somebody marks the chain anew.                       *)
(***************************************************************************)
EXTENDS ThreadExitInvariants

VARIABLE mark   \* of the chain: kept, taken by those who have it locked, or lost

(* The Collectors in the chain that no thread uses any more. *)
Disowned == {c \in InChain : state[c] = "INVALID"}

MarkStep ==
    mark' = CASE tag = "Second" /\ tag' = "First" -> "taken"
              [] tag # tag' /\ tag' \in {"Second", "Both"} -> "kept"
              [] tag = "First" /\ tag' = "None" /\ mark = "taken" ->
                    IF Disowned = {} THEN "kept" ELSE "lost"
              [] OTHER -> mark

AdoptionInit == Init /\ mark = "kept"

AdoptionNext == Next /\ MarkStep

AdoptionSpec == AdoptionInit /\ [][AdoptionNext]_<<vars, mark>> /\ Fairness

(* The workers have come to rest: exited, suspended, or just idle. *)
AtRest == \A t \in Workers : <>[](t \notin guarded)

(* suspend() and the end of a thread pass garbage on (lib.rs:46-47): once  *)
(* the workers have come to rest, a thread that goes on with guards adopts *)
(* it, though it has no garbage of its own and never calls accelerate().   *)
(* The one thing that can come between is that the mark was lost for good, *)
(* because the scan that took the last mark was stopped by a guard, or     *)
(* could not unlink the head as another Collector was pushed before it.    *)
ReclaimedAfterExit ==
    AtRest => \A o \in Objects :
        \/ []<>(life[o] = "live")
        \/ <>[](mark = "lost" /\ Disowned # {})

=============================================================================
