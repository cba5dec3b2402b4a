------------------------------- MODULE Queue -------------------------------
(***************************************************************************)
(* The lock-free queue of src/src/queue.rs.                                *)
(*                                                                         *)
(* A push links its entry behind the last one, found from "newest" or, if  *)
(* that is null, from "oldest", and then sets newest.  A pop deletes the   *)
(* entry that oldest points to, and moves oldest past it.  newest is a     *)
(* hint for pushes, but is_empty() looks at nothing else.                  *)
(*                                                                         *)
(* Every operation holds a guard, so no entry is reclaimed under it; an    *)
(* entry is allocated once here.  Strong counts are left out: get_shared   *)
(* fails only for entries that have left the queue, and the caller then    *)
(* goes on as it does if it finds the entry deleted.                       *)
(***************************************************************************)
EXTENDS LinkedList

CONSTANT Threads

VARIABLES
    oldest,
    newest,
    pushed,  \* history: entries that have been pushed
    pc,      \* what a thread does next
    at,      \* newest_ptr of a push; current, or oldest_ptr of a clean-up
    entry,   \* the entry a thread is pushing, or has popped
    succ     \* what a clean-up will set oldest to

ends == <<oldest, newest, pushed>>
locals == <<at, entry, succ>>
vars == <<links, ends, pc, locals>>

Locations == {"idle", "newest", "oldest", "traverse", "link", "publish",
              "recheck", "retract",
              "first", "take", "clean", "next", "unlink", "reset"}

Init ==
    /\ LinksInit
    /\ oldest = Null
    /\ newest = Null
    /\ pushed = {}
    /\ pc = [t \in Threads |-> "idle"]
    /\ at = [t \in Threads |-> Null]
    /\ entry = [t \in Threads |-> Null]
    /\ succ = [t \in Threads |-> Null]

Goto(t, location) == pc' = [pc EXCEPT ![t] = location]

Return(t) ==
    /\ Goto(t, "idle")
    /\ at' = [at EXCEPT ![t] = Null]
    /\ entry' = [entry EXCEPT ![t] = Null]
    /\ succ' = [succ EXCEPT ![t] = Null]

(***************************************************************************)
(* push_if_internal()                                                      *)
(***************************************************************************)
Push(t, e) ==
    /\ pc[t] = "idle"
    /\ e \notin pushed
    /\ \A u \in Threads : entry[u] # e
    /\ entry' = [entry EXCEPT ![t] = e]
    /\ Goto(t, "newest")
    /\ UNCHANGED <<links, ends, at, succ>>

LoadNewest(t) ==
    /\ pc[t] = "newest"
    /\ at' = [at EXCEPT ![t] = newest]
    /\ Goto(t, IF newest = Null THEN "oldest" ELSE "traverse")
    /\ UNCHANGED <<links, ends, entry, succ>>

LoadOldest(t) ==
    /\ pc[t] = "oldest"
    /\ at' = [at EXCEPT ![t] = oldest]
    /\ Goto(t, "traverse")
    /\ UNCHANGED <<links, ends, entry, succ>>

Traverse(t) ==
    /\ pc[t] = "traverse"
    /\ at[t] # Null
    /\ Unlink(at[t])
    /\ IF NextPtr(at[t]) = Null
       THEN Goto(t, "link") /\ UNCHANGED at
       ELSE at' = [at EXCEPT ![t] = NextPtr(at[t])] /\ UNCHANGED pc
    /\ UNCHANGED <<deleted, ends, entry, succ>>

TraverseNothing(t) ==
    /\ pc[t] = "traverse"
    /\ at[t] = Null
    /\ Goto(t, "link")
    /\ UNCHANGED <<links, ends, locals>>

(* The condition of push_if() is not met by the entry the walk ended at. *)
PushRefused(t) ==
    /\ pc[t] = "link"
    /\ Return(t)
    /\ UNCHANGED <<links, ends>>

(* Mutant of Linkable: the tag of the link is not compared. *)
LinkableDeleted(p) == IF p = Null THEN oldest = Null ELSE next[p] = Null

(* Does the compare-and-swap that appends behind p, or to oldest, succeed? *)
Linkable(p) ==
    IF p = Null THEN oldest = Null ELSE next[p] = Null /\ ~deleted[p]

Link(t) ==
    /\ pc[t] = "link"
    /\ Linkable(at[t])
    /\ IF at[t] = Null
       THEN oldest' = entry[t] /\ UNCHANGED next
       ELSE next' = [next EXCEPT ![at[t]] = entry[t]] /\ UNCHANGED oldest
    /\ pushed' = pushed \cup {entry[t]}
    /\ Goto(t, "publish")
    /\ UNCHANGED <<deleted, newest, locals>>

(* It fails: go on from what was found instead, or from oldest if that is  *)
(* null.  No link has the tag First, so the branch that cleans up is dead. *)
LinkFails(t) ==
    LET actual == IF at[t] = Null THEN oldest ELSE next[at[t]] IN
    /\ pc[t] = "link"
    /\ ~Linkable(at[t])
    /\ at' = [at EXCEPT ![t] = actual]
    /\ Goto(t, IF actual = Null THEN "oldest" ELSE "traverse")
    /\ UNCHANGED <<links, ends, entry, succ>>

Publish(t) ==
    /\ pc[t] = "publish"
    /\ newest' = entry[t]
    /\ Goto(t, "recheck")
    /\ UNCHANGED <<links, oldest, pushed, locals>>

Recheck(t) ==
    /\ pc[t] = "recheck"
    /\ IF oldest = Null
       THEN Goto(t, "retract") /\ UNCHANGED locals
       ELSE Return(t)
    /\ UNCHANGED <<links, ends>>

Retract(t) ==
    /\ pc[t] = "retract"
    /\ newest' = Null
    /\ Return(t)
    /\ UNCHANGED <<links, oldest, pushed>>

(***************************************************************************)
(* pop_if(), and peek(), which is a pop_if() whose condition is not met.   *)
(***************************************************************************)
Pop(t) ==
    /\ pc[t] = "idle"
    /\ Goto(t, "first")
    /\ UNCHANGED <<links, ends, locals>>

LoadFirst(t) ==
    /\ pc[t] = "first"
    /\ at' = [at EXCEPT ![t] = oldest]
    /\ Goto(t, "take")
    /\ UNCHANGED <<links, ends, entry, succ>>

PopNothing(t) ==
    /\ pc[t] = "take"
    /\ at[t] = Null
    /\ Return(t)
    /\ UNCHANGED <<links, ends>>

PopRefused(t) ==
    /\ pc[t] = "take"
    /\ at[t] # Null
    /\ ~deleted[at[t]]
    /\ Return(t)
    /\ UNCHANGED <<links, ends>>

(* Mutant of Take: leaves the deleted entry to others. *)
TakeOnly(t) ==
    /\ pc[t] = "take"
    /\ at[t] # Null
    /\ DeleteSelf(at[t])
    /\ Return(t)
    /\ UNCHANGED ends

Take(t) ==
    /\ pc[t] = "take"
    /\ at[t] # Null
    /\ DeleteSelf(at[t])
    /\ entry' = [entry EXCEPT ![t] = at[t]]
    /\ Goto(t, "clean")
    /\ UNCHANGED <<ends, at, succ>>

TakeFails(t) ==
    /\ pc[t] = "take"
    /\ at[t] # Null
    /\ deleted[at[t]]
    /\ Goto(t, "clean")
    /\ UNCHANGED <<links, ends, locals>>

(***************************************************************************)
(* cleanup_oldest().  A pop returns after it if it has deleted an entry,   *)
(* and tries the entry it is given otherwise.                              *)
(***************************************************************************)
Cleaned(t, result) ==
    IF entry[t] # Null
    THEN Return(t)
    ELSE /\ Goto(t, "take")
         /\ at' = [at EXCEPT ![t] = result]
         /\ succ' = [succ EXCEPT ![t] = Null]
         /\ UNCHANGED entry

CleanLoad(t) ==
    /\ pc[t] = "clean"
    /\ IF oldest # Null /\ deleted[oldest]
       THEN /\ Goto(t, "next")
            /\ at' = [at EXCEPT ![t] = oldest]
            /\ UNCHANGED <<entry, succ>>
       ELSE Cleaned(t, oldest)
    /\ UNCHANGED <<links, ends>>

NextShared(t) ==
    /\ pc[t] = "next"
    /\ Unlink(at[t])
    /\ succ' = [succ EXCEPT ![t] = NextPtr(at[t])]
    /\ Goto(t, "unlink")
    /\ UNCHANGED <<deleted, ends, at, entry>>

UnlinkOldest(t) ==
    /\ pc[t] = "unlink"
    /\ oldest = at[t]
    /\ oldest' = succ[t]
    /\ IF succ[t] = Null
       THEN Goto(t, "reset") /\ UNCHANGED locals
       ELSE Cleaned(t, succ[t])
    /\ UNCHANGED <<links, newest, pushed>>

UnlinkFails(t) ==
    /\ pc[t] = "unlink"
    /\ oldest # at[t]
    /\ Cleaned(t, oldest)
    /\ UNCHANGED <<links, ends>>

ResetNewest(t) ==
    /\ pc[t] = "reset"
    /\ newest' = Null
    /\ Cleaned(t, Null)
    /\ UNCHANGED <<links, oldest, pushed>>

(* LinkedEntry is public, and so is its delete_self(). *)
Delete(e) ==
    /\ e \in pushed
    /\ DeleteSelf(e)
    /\ UNCHANGED <<ends, pc, locals>>

PushStep(t) ==
    \/ LoadNewest(t) \/ LoadOldest(t)
    \/ Traverse(t) \/ TraverseNothing(t)
    \/ Link(t) \/ LinkFails(t)
    \/ Publish(t) \/ Recheck(t) \/ Retract(t)

PopStep(t) ==
    \/ LoadFirst(t) \/ PopNothing(t) \/ Take(t) \/ TakeFails(t)
    \/ CleanLoad(t) \/ NextShared(t) \/ UnlinkOldest(t) \/ UnlinkFails(t)
    \/ ResetNewest(t)

Next ==
    \E t \in Threads :
        \/ \E e \in Entries : Push(t, e)
        \/ PushStep(t)
        \/ PushRefused(t)
        \/ Pop(t)
        \/ PopStep(t)
        \/ PopRefused(t)

Spec == Init /\ [][Next]_vars

(* A thread that is in an operation keeps taking its steps. *)
Fairness == \A t \in Threads : WF_vars(PushStep(t) \/ PopStep(t))

FairSpec == Spec /\ Fairness

(* A program that deletes entries of the queue itself, as well. *)
DeletingSpec ==
    Init /\ [][Next \/ \E e \in Entries : Delete(e)]_vars /\ Fairness

(***************************************************************************)
(* Properties.                                                             *)
(***************************************************************************)

TypeOK ==
    /\ next \in [Entries -> Pointers]
    /\ deleted \in [Entries -> BOOLEAN]
    /\ oldest \in Pointers
    /\ newest \in Pointers
    /\ pushed \subseteq Entries
    /\ pc \in [Threads -> Locations]
    /\ at \in [Threads -> Pointers]
    /\ entry \in [Threads -> Pointers]
    /\ succ \in [Threads -> Pointers]

(* What is in the queue, oldest first. *)
Contents == SelectSeq(From(oldest), LAMBDA e : ~deleted[e])

(* Every step appends an entry behind all others, removes the oldest, or   *)
(* changes nothing: a push succeeds when it links its entry, and a pop     *)
(* when it tags one, however old the pointers are that it got there by.    *)
AbstractQueue == INSTANCE Fifo WITH items <- Contents

RefinesFifo == AbstractQueue!FifoSpec

(* Every operation returns, though pushes and pops undo what the others    *)
(* have read (queue.rs:396-440, 258-269).                                  *)
PushAndPopReturn == \A t \in Threads : pc[t] # "idle" ~> pc[t] = "idle"

(* is_empty(), which looks at newest, is true only of an empty queue, at   *)
(* the latest when all operations have returned (queue.rs:326 and 343).    *)
IsEmptyIsTrue ==
    (\A t \in Threads : pc[t] = "idle") /\ newest = Null => Contents = <<>>

=============================================================================
