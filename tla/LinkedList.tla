----------------------------- MODULE LinkedList -----------------------------
(***************************************************************************)
(* The entries of a singly linked list (src/src/linked_list.rs), as Queue  *)
(* and Stack use them: each has a link to the next, whose tag Second says  *)
(* that the entry is deleted.  A deleted entry's link takes no new entry,  *)
(* and is skipped by whoever walks the list.                               *)
(*                                                                         *)
(* A walk to the next entry that is not deleted is one step here.  Deleted *)
(* entries stay deleted and their links only ever skip more of them, so    *)
(* the walk of the code finds what was the next such entry when it read    *)
(* the last link.                                                          *)
(***************************************************************************)
EXTENDS Sequences, FiniteSets

CONSTANTS
    Entries,  \* entries a program allocates
    Null      \* the null pointer

ASSUME EntriesAssumption == Null \notin Entries

VARIABLES
    next,     \* the pointer of an entry's link
    deleted   \* is the tag of an entry's link Second?

links == <<next, deleted>>

Pointers == Entries \cup {Null}

LinksInit ==
    /\ next = [e \in Entries |-> Null]
    /\ deleted = [e \in Entries |-> FALSE]

(* The entries from p on, deleted or not. *)
From(p) ==
    LET follow[q \in Pointers] ==
            IF q = Null THEN <<>> ELSE <<q>> \o follow[next[q]]
    IN  follow[p]

(* p and the deleted entries right after it. *)
Skipped(p) ==
    LET skip[q \in Entries] ==
            IF next[q] # Null /\ deleted[next[q]]
            THEN {q} \cup skip[next[q]]
            ELSE {q}
    IN  skip[p]

(* next_ptr(): the first entry after p that is not deleted. *)
NextPtr(p) ==
    LET valid[q \in Entries] ==
            IF next[q] # Null /\ deleted[next[q]] THEN valid[next[q]] ELSE next[q]
    IN  valid[p]

(* What next_ptr() leaves behind: links that skip the deleted entries. *)
Unlink(p) ==
    next' = [q \in Entries |-> IF q \in Skipped(p) THEN NextPtr(p) ELSE next[q]]

(* delete_self(): tags the link, unless it is tagged already. *)
DeleteSelf(e) ==
    /\ ~deleted[e]
    /\ deleted' = [deleted EXCEPT ![e] = TRUE]
    /\ UNCHANGED next

=============================================================================
