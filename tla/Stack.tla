------------------------------- MODULE Stack --------------------------------
(***************************************************************************)
(* Stack (src/src/stack.rs): a pointer to the newest entry, from which the *)
(* links lead to older ones.  A pop tags the link of the newest entry, and *)
(* whoever comes by afterwards moves `newest' past the tagged entries.     *)
(*                                                                         *)
(* Each step is one access to shared memory: a load, an attempt to raise a *)
(* reference count, or a compare-and-swap.  Threads keep a guard open      *)
(* while they run an operation, so an entry they have a pointer to is not  *)
(* reclaimed and its address is not used again; Collector shows that.      *)
(* Therefore an entry is pushed at most once here.                         *)
(***************************************************************************)
EXTENDS ListWalk, Links

CONSTANTS
    Stacks,
    Main,     \* the stack the program pushes to; the others come from pop_all()
    Pushers,  \* threads of the program that push,
    Poppers,  \* that pop and peek,
    Readers,  \* that iterate and clone,
    Owners,   \* that pop all entries, and drop stacks,
    Editors,  \* that use the entries they find as LinkedList
    Inserts   \* entries that are pushed back, behind one that was found

ASSUME StacksAssumption == Main \in Stacks /\ Null \notin Stacks

VARIABLES
    newest,  \* of each stack
    released, \* entries found with a reference count of zero
    call,    \* the operation each thread runs
    seen     \* history: what a thread's answer is compared with

stacks == <<newest, released>>

state == <<links, walk, stacks, call>>

vars == <<state, seen>>

Idle ==
    [op |-> "none", on |-> Null, pc |-> "idle", ptr |-> Null, entry |-> Null, gone |-> {}]

At(t, pc) == call[t].pc = pc

Goto(t, pc) == call' = [call EXCEPT ![t].pc = pc]

Done(t) ==
    /\ call' = [call EXCEPT ![t] = Idle]
    /\ walk' = [walk EXCEPT ![t] = NoWalk]

(***************************************************************************)
(* Reference counts.  An entry that a stack or a link points to, or that a *)
(* thread is about to make one of them point to, has an owner.  The program *)
(* may hold a Shared of any other or not: get_shared() on an entry without *)
(* an owner here can fail, and once it did the count remains zero.         *)
(***************************************************************************)
Owned(v) ==
    \/ \E s \in Stacks : newest[s] = v
    \/ \E e \in Entries : next[e] = v
    \/ \E t \in Threads : walk[t].valid = v /\ (InStage(t, "swing") \/ At(t, "replace"))

GetShared(v) == v \notin released /\ UNCHANGED released

GetNone(v) == v # Null /\ ~Owned(v) /\ released' = released \cup {v}

(* Entries that only the program can still have: it may drop its last      *)
(* Shared.  They are reclaimed when the guards that are open then, that    *)
(* is, the calls that run then, are gone.                                  *)
CallPointers(t) == {call[t].ptr, call[t].entry} \cup WalkPointers(t)

Gone ==
    {e \in Entries : /\ deleted[e]
                     /\ next[e] # Null
                     /\ ~Owned(e)
                     /\ \A t \in Threads : e \notin CallPointers(t)}

(* The entries that are not deleted from p on, and those of a stack. *)
Live(p) == Unmarked(next, deleted, p)

Contents(s) == Live(newest[s])

(* The newest of them leads to them all. *)
Top(s) ==
    IF Contents(s) = {} THEN Null
    ELSE CHOOSE e \in Contents(s) : Contents(s) \subseteq Reach(next, e)

(* Entries not allocated yet. *)
Unused ==
    {e \in Entries : /\ ~deleted[e]
                     /\ \A s \in Stacks : e \notin Contents(s)
                     /\ \A t \in Threads : call[t].entry # e}

Using(s) == {t \in Threads : call[t].on = s}

Dropping(s) == \E t \in Using(s) : call[t].op = "drop"

-----------------------------------------------------------------------------
CallOf(op, pc, s, p, e) ==
    [op |-> op, on |-> s, pc |-> pc, ptr |-> p, entry |-> e, gone |-> Gone]

(* An operation starts by loading `newest', and cleans up. *)
Begin(t, op, s, e) ==
    /\ At(t, "idle")
    /\ ~Dropping(s)
    /\ call' = [call EXCEPT ![t] = CallOf(op, "clean", s, newest[s], e)]
    /\ UNCHANGED <<links, walk, stacks>>

(* Any address may be allocated, and they are all alike. *)
BeginPush(t, s) ==
    /\ t \in Pushers
    /\ s = Main
    /\ At(t, "idle")
    /\ Unused \ Inserts # {}
    /\ Begin(t, "push", s, CHOOSE e \in Unused \ Inserts : TRUE)

(* peek(), peek_with() and is_empty() begin like pop_if(). *)
BeginPop(t, s) == t \in Poppers /\ Begin(t, "pop", s, Null)

BeginIter(t, s) == t \in Readers /\ Begin(t, "iter", s, Null)

(* An iterator is at the first entry, or at the one a search found. *)
Found(v) == [NoWalk EXCEPT !.stage = "done", !.valid = v]

(* clone() and the Debug output do not clean up first. *)
BeginClone(t, s) ==
    /\ t \in Readers
    /\ At(t, "idle")
    /\ ~Dropping(s)
    /\ call' = [call EXCEPT ![t] = CallOf("iter", "visit", s, Null, Null)]
    /\ walk' = [walk EXCEPT ![t] = Found(newest[s])]
    /\ UNCHANGED <<links, stacks>>

(* A Stack is dropped when no reference to it is left. *)
BeginDrop(t, s) ==
    /\ t \in Owners
    /\ Using(s) = {}
    /\ newest[s] # Null
    /\ Begin(t, "drop", s, Null)

PopAll(t, s, r) ==
    /\ t \in Owners
    /\ At(t, "idle")
    /\ ~Dropping(s)
    /\ newest[s] # Null
    /\ newest[r] = Null
    /\ Using(r) = {}
    /\ newest' = [newest EXCEPT ![s] = Null, ![r] = newest[s]]
    /\ UNCHANGED <<links, walk, call, released>>

-----------------------------------------------------------------------------
(* cleanup_newest() *)
Clean(p) == p # Null => ~deleted[p]

(* next_shared() of a deleted newest entry: a walk, *)
FindNext(t) ==
    /\ At(t, "clean")
    /\ ~Clean(call[t].ptr)
    /\ walk' = [walk EXCEPT ![t] = StartWalk(call[t].ptr)]
    /\ Goto(t, "next")
    /\ UNCHANGED <<links, stacks>>

(* then an owning pointer to what it found, *)
ShareNext(t) ==
    /\ At(t, "next")
    /\ InStage(t, "done")
    /\ GetShared(walk[t].valid)
    /\ Goto(t, "replace")
    /\ UNCHANGED <<links, walk, newest>>

(* Mutant of ShareFails: nothing to own, as if there were no next entry. *)
ShareFailsUnnoticed(t) ==
    /\ At(t, "next")
    /\ InStage(t, "done")
    /\ GetNone(walk[t].valid)
    /\ walk' = [walk EXCEPT ![t].valid = Null]
    /\ Goto(t, "replace")
    /\ UNCHANGED <<links, newest>>

(* or another walk when it was released in the meantime. *)
ShareFails(t) ==
    /\ At(t, "next")
    /\ InStage(t, "done")
    /\ GetNone(walk[t].valid)
    /\ walk' = [walk EXCEPT ![t] = StartWalk(walk[t].valid)]
    /\ UNCHANGED <<links, newest, call>>

(* The pointer the loop continues with: what `newest' is afterwards. *)
Actual(t) == newest'[call[t].on]

ReplaceNewest(t) ==
    LET s == call[t].on
    IN  /\ At(t, "replace")
        /\ newest' = IF newest[s] = call[t].ptr
                     THEN [newest EXCEPT ![s] = walk[t].valid] ELSE newest
        /\ call' = [call EXCEPT ![t].pc = "clean", ![t].ptr = Actual(t)]
        /\ walk' = [walk EXCEPT ![t] = NoWalk]
        /\ UNCHANGED <<links, released>>

Cleaned(t, ops) ==
    /\ At(t, "clean")
    /\ call[t].op \in ops
    /\ Clean(call[t].ptr)

-----------------------------------------------------------------------------
(* peek(), peek_with() and is_empty() report the newest entry, or none; a  *)
(* pop that has its entry returns.                                         *)
Answer(t) ==
    /\ Cleaned(t, {"pop", "popped"})
    /\ Done(t)
    /\ UNCHANGED <<links, stacks>>

(* push_if_internal(): the condition is not met, *)
RefusePush(t) ==
    /\ Cleaned(t, {"push"})
    /\ next' = [next EXCEPT ![call[t].entry] = Null]
    /\ Done(t)
    /\ UNCHANGED <<deleted, stacks>>

(* or it is. *)
AcceptPush(t) ==
    /\ Cleaned(t, {"push"})
    /\ Goto(t, "link")
    /\ UNCHANGED <<links, walk, stacks>>

(* The new entry's link gets an owning pointer to p, or none.              *)
LinkTo(t, p) ==
    \/ GetShared(p) /\ next' = [next EXCEPT ![call[t].entry] = p]
    \/ GetNone(p) /\ next' = [next EXCEPT ![call[t].entry] = Null]

LinkEntry(t) ==
    /\ At(t, "link")
    /\ LinkTo(t, call[t].ptr)
    /\ Goto(t, "attach")
    /\ UNCHANGED <<deleted, walk, newest>>

AttachEntry(t) ==
    LET s == call[t].on
    IN  /\ At(t, "attach")
        /\ newest[s] = call[t].ptr
        /\ newest' = [newest EXCEPT ![s] = call[t].entry]
        /\ Done(t)
        /\ UNCHANGED <<links, released>>

AttachFails(t) ==
    LET s == call[t].on
    IN  /\ At(t, "attach")
        /\ newest[s] # call[t].ptr
        /\ call' = [call EXCEPT ![t].pc = "clean", ![t].ptr = newest[s]]
        /\ UNCHANGED <<links, walk, stacks>>

-----------------------------------------------------------------------------
(* pop_if(): if there is none, that is its answer too. *)
TryNewest(t) ==
    /\ Cleaned(t, {"pop"})
    /\ call[t].ptr # Null
    /\ Goto(t, "get")
    /\ UNCHANGED <<links, walk, stacks>>

GetNewest(t) ==
    /\ At(t, "get")
    /\ \/ GetShared(call[t].ptr) /\ Goto(t, "judge")
       \/ GetNone(call[t].ptr) /\ Goto(t, "clean")
    /\ UNCHANGED <<links, walk, newest>>

(* The condition is not met by an entry that is not deleted. *)
RefusePop(t) ==
    /\ At(t, "judge")
    /\ ~deleted[call[t].ptr]
    /\ Done(t)
    /\ UNCHANGED <<links, stacks>>

(* The entry is this thread's if its tag makes it deleted. *)
Popped(t) == [call[t] EXCEPT !.op = "popped", !.pc = "clean"]

(* Mutant of TakeNewest: the entry is taken even if it was deleted. *)
TakeNewestAnyway(t) ==
    /\ At(t, "judge")
    /\ deleted' = [deleted EXCEPT ![call[t].ptr] = TRUE]
    /\ call' = [call EXCEPT ![t] = Popped(t)]
    /\ UNCHANGED <<next, walk, stacks>>

TakeNewest(t) ==
    /\ At(t, "judge")
    /\ DeleteSelf(call[t].ptr)
    /\ call' = [call EXCEPT ![t] = Popped(t)]
    /\ UNCHANGED <<walk, stacks>>

(* Mutant of MissNewest: tries again with the pointer it has. *)
MissNewestRetry(t) ==
    /\ At(t, "judge")
    /\ deleted[call[t].ptr]
    /\ Goto(t, "get")
    /\ UNCHANGED <<links, walk, stacks>>

MissNewest(t) ==
    /\ At(t, "judge")
    /\ deleted[call[t].ptr]
    /\ Goto(t, "clean")
    /\ UNCHANGED <<links, walk, stacks>>

-----------------------------------------------------------------------------
(* iter(), len(), clone() and drop(): Iter::next() returns the entry it is *)
(* at, the first or what the last search found, and searches the next one. *)
StartVisits(t) ==
    /\ Cleaned(t, {"iter", "drop"})
    /\ walk' = [walk EXCEPT ![t] = Found(call[t].ptr)]
    /\ call' = [call EXCEPT ![t].pc = "visit", ![t].ptr = Null]
    /\ UNCHANGED <<links, stacks>>

(* Mutant of Current: an entry deleted under the iterator is its last. *)
CurrentUnlessDeleted(t) ==
    IF Clean(walk[t].valid) THEN walk[t].valid ELSE Null

Current(t) == walk[t].valid

Visiting(t) == At(t, "visit") /\ InStage(t, "done")

Visit(t) ==
    /\ Visiting(t)
    /\ Current(t) # Null
    /\ IF call[t].op = "drop" /\ ~deleted[Current(t)]
       THEN DeleteSelf(Current(t)) ELSE UNCHANGED links
    /\ walk' = [walk EXCEPT ![t] = StartWalk(Current(t))]
    /\ UNCHANGED <<stacks, call>>

EndVisits(t) ==
    /\ Visiting(t)
    /\ Current(t) = Null
    /\ newest' = IF call[t].op = "drop"
                 THEN [newest EXCEPT ![call[t].on] = Null] ELSE newest
    /\ Done(t)
    /\ UNCHANGED <<links, released>>

-----------------------------------------------------------------------------
(* A call that searches from an entry, but not for a stack. *)
Search(t, op, d, head) ==
    /\ call' = [call EXCEPT ![t] = CallOf(op, op, Null, d, Null)]
    /\ walk' = [walk EXCEPT ![t] = StartWalk(head)]
    /\ UNCHANGED <<links, stacks>>

(* The program deletes an entry it has found in a stack, *)
RemoveEntry(t, s, e) ==
    /\ t \in Editors
    /\ At(t, "idle")
    /\ e \in Contents(s)
    /\ DeleteSelf(e)
    /\ UNCHANGED <<walk, stacks, call>>

(* or asks it for the next one. *)
BeginNext(t, s, e) ==
    /\ t \in Editors
    /\ At(t, "idle")
    /\ e \in Reach(next, newest[s])
    /\ Search(t, "next_ptr", e, e)

EndNext(t) ==
    /\ At(t, "next_ptr")
    /\ InStage(t, "done")
    /\ Done(t)
    /\ UNCHANGED <<links, stacks>>

(* The program pushes an entry back behind one it has found, whose link is *)
(* loaded: a deleted entry takes none.  A search that is done stands for   *)
(* the pointer that was read.                                              *)
BeginPushBack(t, s, e) ==
    /\ t \in Editors
    /\ At(t, "idle")
    /\ e \in Contents(s)
    /\ \E d \in Unused \cap Inserts :
           call' = [call EXCEPT ![t] = CallOf("push_back", "join", Null, e, d)]
    /\ walk' = [walk EXCEPT ![t] = Found(next[e])]
    /\ UNCHANGED <<links, stacks>>

JoinNext(t) ==
    /\ At(t, "join")
    /\ LinkTo(t, walk[t].valid)
    /\ Goto(t, "insert")
    /\ UNCHANGED <<deleted, walk, newest>>

InsertEntry(t) ==
    /\ At(t, "insert")
    /\ next[call[t].ptr] = walk[t].valid
    /\ ~deleted[call[t].ptr]
    /\ next' = [next EXCEPT ![call[t].ptr] = call[t].entry]
    /\ Done(t)
    /\ UNCHANGED <<deleted, stacks>>

(* The compare-and-swap, which is weak but succeeds in the end, finds      *)
(* another link,                                                           *)
InsertFails(t) ==
    /\ At(t, "insert")
    /\ next[call[t].ptr] # walk[t].valid
    /\ ~deleted[call[t].ptr]
    /\ walk' = [walk EXCEPT ![t] = Found(next[call[t].ptr])]
    /\ Goto(t, "join")
    /\ UNCHANGED <<links, stacks>>

(* or one that is tagged: the program gets its entry back. *)
RefuseInsert(t) ==
    /\ At(t, "insert")
    /\ deleted[call[t].ptr]
    /\ next' = [next EXCEPT ![call[t].entry] = Null]
    /\ Done(t)
    /\ UNCHANGED <<deleted, stacks>>

(* LinkedEntry::drop(): a thread that reclaims an entry searches from the  *)
(* entry after it, then lets go of that.                                   *)
BeginRelease(t, d) ==
    /\ At(t, "idle")
    /\ d \in Gone
    /\ \A u \in Threads : At(u, "idle") \/ d \in call[u].gone
    /\ Search(t, "release", d, next[d])

EndRelease(t) ==
    /\ At(t, "release")
    /\ InStage(t, "done")
    /\ next' = [next EXCEPT ![call[t].ptr] = Null]
    /\ Done(t)
    /\ UNCHANGED <<deleted, stacks>>

(* A step of a search. *)
Walk(t) ==
    /\ \/ /\ LoadHead(t) \/ FindValid(t) \/ MeetDeleted(t) \/ SwingLink(t) \/ SwingFails(t)
          /\ UNCHANGED released
       \/ GetShared(walk[t].valid) /\ AcquireValid(t)
       \/ GetNone(walk[t].valid) /\ AcquireFails(t)
    /\ UNCHANGED <<newest, call>>

-----------------------------------------------------------------------------
Init ==
    /\ LinksInit
    /\ walk = [t \in Threads |-> NoWalk]
    /\ newest = [s \in Stacks |-> Null]
    /\ released = {}
    /\ call = [t \in Threads |-> Idle]
    /\ seen = [t \in Threads |-> {}]

(***************************************************************************)
(* A history variable: for a thread that pushes, pops or peeks, what was   *)
(* the newest entry of its stack (Null: none) at some time since it read   *)
(* `newest' first; for one that iterates, the entries in the stack all the *)
(* time since then that it has not come to.                                *)
(***************************************************************************)
Ends == {"push", "pop"}

StackOf(t) == {s \in Stacks : call'[t].on = s}

Newest(t) == {Top(s)' : s \in StackOf(t)}

Present(t) == UNION {Contents(s)' : s \in StackOf(t)}

Met(t) == IF Visiting(t) THEN {Current(t)} ELSE {}

Before(t, all) == IF call[t].op = "none" THEN all ELSE seen[t]

Remember ==
    seen' = [t \in Threads |->
        CASE call'[t].op \in Ends -> Before(t, {}) \cup Newest(t)
          [] call'[t].op = "iter" -> (Before(t, Entries) \ Met(t)) \cap Present(t)
          [] OTHER -> {}]

Start(t) ==
    \/ \E s \in Stacks :
           \/ BeginPush(t, s) \/ BeginPop(t, s) \/ BeginIter(t, s)
           \/ BeginClone(t, s) \/ BeginDrop(t, s)
           \/ \E r \in Stacks \ {s} : PopAll(t, s, r)
           \/ \E e \in Entries :
              RemoveEntry(t, s, e) \/ BeginNext(t, s, e) \/ BeginPushBack(t, s, e)
    \/ \E d \in Entries : BeginRelease(t, d)

Step(t) ==
    \/ FindNext(t) \/ ShareNext(t) \/ ShareFails(t) \/ ReplaceNewest(t)
    \/ Answer(t)
    \/ RefusePush(t) \/ AcceptPush(t) \/ LinkEntry(t) \/ AttachEntry(t) \/ AttachFails(t)
    \/ TryNewest(t) \/ GetNewest(t)
    \/ RefusePop(t) \/ TakeNewest(t) \/ MissNewest(t)
    \/ StartVisits(t) \/ Visit(t) \/ EndVisits(t)
    \/ JoinNext(t) \/ InsertEntry(t) \/ InsertFails(t) \/ RefuseInsert(t)
    \/ EndNext(t) \/ EndRelease(t)
    \/ Walk(t)

Next == (\E t \in Threads : Start(t) \/ Step(t)) /\ Remember

Spec == Init /\ [][Next]_vars

(* A thread that runs an operation is scheduled again and again. *)
FairSpec == Spec /\ \A t \in Threads : WF_state(Step(t))

-----------------------------------------------------------------------------
(* No entry is lost but for being deleted, none changes places, and        *)
(* pop_all() takes all of them at one instant: the entries that are not    *)
(* deleted, along the links from `newest', behave as Lifo says, however    *)
(* the walks that unlink the deleted entries between them interleave.      *)
items == [s \in Stacks |-> SelectSeq(From(newest[s]), LAMBDA e : ~deleted[e])]
removed == {e \in Entries : deleted[e]}
L == INSTANCE Lifo
RefinesLifo == L!LifoSpec

(* What a pop returns was not deleted before, so no other pop returns it.  *)
(* And what push_if(), pop_if() and peek() act on or report was the newest *)
(* entry at some time during the call, and a stack they find empty was     *)
(* empty at some time during the call.                                     *)
TakesNewest ==
    [][\A t \in Threads :
           call[t].op \in Ends /\ call'[t].op # call[t].op =>
               /\ call[t].ptr \in seen[t]
               /\ call'[t].op = "popped" => ~deleted[call[t].ptr]]_vars

(* iter(), len() and clone() come to every entry that is in the stack from *)
(* the beginning to the end.                                               *)
VisitsAll ==
    \A t \in Threads :
        call[t].op = "iter" /\ Visiting(t) /\ Current(t) = Null => seen[t] = {}

(* Every operation returns: its thread comes to be idle, again and again. *)
OperationsReturn == \A t \in Threads : []<>At(t, "idle")

=============================================================================
