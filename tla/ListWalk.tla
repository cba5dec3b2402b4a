------------------------------ MODULE ListWalk ------------------------------
(***************************************************************************)
(* next_ptr_recursive() of src/src/linked_list.rs, one access to a shared  *)
(* link at a time: the search for the next entry that is not deleted, and  *)
(* the compare-and-swap by which an entry lets go of the deleted entries   *)
(* it finds right behind it.                                               *)
(*                                                                         *)
(* A search that meets a deleted entry starts a search from that entry     *)
(* first, up to Depth times (64 in the code); beyond that, and whenever    *)
(* it starts over, it follows the links in a loop.                         *)
(***************************************************************************)
EXTENDS LinkedList, SequencesExt, Naturals

CONSTANTS
    Threads,
    Depth     \* how many searches may be nested

ASSUME DepthAssumption == Depth \in Nat

(***************************************************************************)
(* A search is a sequence of frames, the innermost last.  A frame has the  *)
(* entry it starts from, the link of that entry as last read (pointer and  *)
(* tag), the entry it looks at, and the depth it may nest.                 *)
(***************************************************************************)
VARIABLE walk  \* the search of each thread: frames, stage and result

NoWalk == [frames |-> <<>>, stage |-> "none", valid |-> Null]

Frame(head, depth) ==
    [head |-> head, link |-> Null, tag |-> FALSE, look |-> Null, depth |-> depth]

StartWalk(head) ==
    [frames |-> <<Frame(head, Depth)>>, stage |-> "load", valid |-> Null]

Inner(t) == Last(walk[t].frames)

InStage(t, stage) == walk[t].stage = stage

(* The innermost frame becomes f, and the search goes on at a stage. *)
Resume(t, f, stage, v) ==
    walk' = [walk EXCEPT ![t] =
                 [frames |-> Append(Front(@.frames), f), stage |-> stage, valid |-> v]]

(* The link of the frame's entry is read: now, or by a failed compare-and- *)
(* swap.                                                                   *)
Read(f) == [f EXCEPT !.link = next[f.head], !.tag = deleted[f.head], !.look = next[f.head]]

(* A frame returns v.  The search that nested it started from an entry     *)
(* before v, so its own link is not v: it will replace it.                 *)
Return(t, v) ==
    LET outer == Front(walk[t].frames)
    IN  walk' = [walk EXCEPT ![t] =
                     IF outer = <<>>
                     THEN [frames |-> <<>>, stage |-> "done", valid |-> v]
                     ELSE [frames |-> Append(Front(outer), [Last(outer) EXCEPT !.depth = 0]),
                           stage |-> IF v = Null THEN "swing" ELSE "acquire",
                           valid |-> v]]

(* The next valid entry is v: there is nothing to unlink, or the link is   *)
(* to be replaced by an owning pointer to v.                               *)
Settle(t, f, v) ==
    IF v = f.link THEN Return(t, v)
    ELSE Resume(t, [f EXCEPT !.depth = 0, !.look = Null],
                IF v = Null THEN "swing" ELSE "acquire", v)

(* The search goes on at the entry a link led to, if it led to one. *)
GoOn(t, f) ==
    IF f.look = Null THEN Settle(t, f, Null) ELSE Resume(t, f, "look", Null)

LoadHead(t) ==
    /\ InStage(t, "load")
    /\ GoOn(t, Read(Inner(t)))
    /\ UNCHANGED links

FindValid(t) ==
    LET n == Inner(t).look
    IN  /\ InStage(t, "look")
        /\ ~deleted[n]
        /\ Settle(t, Inner(t), n)
        /\ UNCHANGED links

MeetDeleted(t) ==
    LET f == Inner(t)
        n == f.look
    IN  /\ InStage(t, "look")
        /\ deleted[n]
        /\ IF f.depth = 0
           THEN GoOn(t, [f EXCEPT !.look = next[n]])
           ELSE walk' = [walk EXCEPT ![t].frames = Append(@, Frame(n, f.depth - 1)),
                                     ![t].stage = "load"]
        /\ UNCHANGED links

(* get_shared() on the valid entry: without an owner left, the search      *)
(* reads its link again.                                                   *)
AcquireValid(t) ==
    /\ InStage(t, "acquire")
    /\ walk' = [walk EXCEPT ![t].stage = "swing"]
    /\ UNCHANGED links

AcquireFails(t) ==
    /\ InStage(t, "acquire")
    /\ Resume(t, Inner(t), "load", Null)
    /\ UNCHANGED links

(* The compare-and-swap compares the tag with the pointer. *)
Intact(f) == next[f.head] = f.link /\ deleted[f.head] = f.tag

SwingLink(t) ==
    LET f == Inner(t)
    IN  /\ InStage(t, "swing")
        /\ Intact(f)
        /\ next' = [next EXCEPT ![f.head] = walk[t].valid]
        /\ Return(t, walk[t].valid)
        /\ UNCHANGED deleted

SwingFails(t) ==
    /\ InStage(t, "swing")
    /\ ~Intact(Inner(t))
    /\ GoOn(t, Read(Inner(t)))
    /\ UNCHANGED links

(* The entries a search has pointers to, and that of a thread. *)
SearchPointers(w) ==
    {w.valid} \cup UNION {{f.head, f.link, f.look} : f \in ToSet(w.frames)}

WalkPointers(t) == SearchPointers(walk[t])

=============================================================================
