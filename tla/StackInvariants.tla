--------------------------- MODULE StackInvariants --------------------------
(***************************************************************************)
(* The invariants of Stack from which its promises follow: in what order   *)
(* entries are linked, which of them a search may skip, and which entries  *)
(* only one thread knows.                                                  *)
(***************************************************************************)
EXTENDS Stack

Frames ==
    [head : Entries, link : Pointers, tag : BOOLEAN, look : Pointers, depth : Nat]

Searches ==
    [frames : Seq(Frames),
     stage : {"none", "load", "look", "acquire", "swing", "done"},
     valid : Pointers]

Calls ==
    [op : {"none", "push", "pop", "popped", "iter", "drop", "push_back", "next_ptr",
           "release"},
     on : Stacks \cup {Null},
     pc : {"idle", "clean", "next", "replace", "link", "attach", "get", "judge",
           "visit", "join", "insert", "next_ptr", "release"},
     ptr : Pointers, entry : Pointers, gone : SUBSET Entries]

(* The types of the variables. *)
TypeOK ==
    /\ next \in [Entries -> Pointers]
    /\ deleted \in [Entries -> BOOLEAN]
    /\ walk \in [Threads -> Searches]
    /\ newest \in [Stacks -> Pointers]
    /\ released \subseteq Entries
    /\ call \in [Threads -> Calls]
    /\ DOMAIN seen = Threads

(***************************************************************************)
(* Control: what a thread that runs an operation has in its hands.         *)
(***************************************************************************)
OnStack == {"push", "pop", "popped", "iter", "drop"}

Places(op) ==
    CASE op = "none" -> {"idle"}
      [] op = "push" -> {"clean", "next", "replace", "link", "attach"}
      [] op = "pop" -> {"clean", "next", "replace", "get", "judge"}
      [] op = "popped" -> {"clean", "next", "replace"}
      [] op \in {"iter", "drop"} -> {"clean", "next", "replace", "visit"}
      [] op = "push_back" -> {"join", "insert"}
      [] OTHER -> {op}

CallAgrees(t) ==
    LET c == call[t]
    IN  /\ c.pc \in Places(c.op)
        /\ c.op \in OnStack <=> c.on # Null
        /\ c.op \in {"push", "push_back"} <=> c.entry # Null
        /\ c.op \in {"push_back", "release"} => c.ptr # Null
        /\ c.pc \in {"next", "replace", "get", "judge"} => c.ptr # Null
        /\ c.pc \in {"next", "replace"} => deleted[c.ptr]

WalkAgrees(t) ==
    LET w == walk[t]
    IN  /\ At(t, "replace") \/ At(t, "join") \/ At(t, "insert") => w.stage = "done"
        /\ w.stage # "none" <=>
               call[t].pc \in {"next", "replace", "visit", "join", "insert",
                               "next_ptr", "release"}
        /\ w.frames = <<>> <=> w.stage \in {"none", "done"}
        /\ w.stage \notin {"acquire", "swing", "done"} => w.valid = Null
        /\ w.stage = "look" => Inner(t).look # Null
        /\ w.stage = "acquire" => w.valid # Null

(* Nobody else uses a stack that is dropped. *)
DropsAlone ==
    \A t \in Threads : call[t].op = "drop" =>
        \A u \in Threads \ {t} : call[u].on # call[t].on

ControlInv ==
    /\ TypeOK
    /\ \A t \in Threads : CallAgrees(t) /\ WalkAgrees(t)
    /\ DropsAlone

(***************************************************************************)
(* Entries that are in no stack and not deleted: nothing points to them.   *)
(* A thread has one of its own to push.                                    *)
(***************************************************************************)
Fresh == {d \in Entries : ~deleted[d] /\ \A s \in Stacks : d \notin Contents(s)}

Targets == {newest[s] : s \in Stacks} \cup {next[e] : e \in Entries}

Knows(t) == {call[t].ptr} \cup WalkPointers(t)

FreshUnknown ==
    \A d \in Fresh : d \notin Targets /\ \A t \in Threads : d \notin Knows(t)

HandsFresh ==
    \A t \in Threads : call[t].entry # Null =>
        /\ call[t].entry \in Fresh
        /\ \A u \in Threads \ {t} : call[u].entry # call[t].entry

(* An entry whose count is zero has no owner; nor does one that is         *)
(* reclaimed, and no other thread has a pointer to that.                   *)
ReleasedUnowned == \A v \in released : ~Owned(v) /\ v \notin Fresh

ReclaimedUnknown ==
    \A t \in Threads : call[t].op = "release" =>
        LET d == call[t].ptr
        IN  /\ deleted[d]
            /\ d \notin Targets
            /\ d \notin WalkPointers(t)
            /\ \A u \in Threads \ {t} : d \notin Knows(u)

OwnerInv == FreshUnknown /\ HandsFresh /\ ReleasedUnowned /\ ReclaimedUnknown

(***************************************************************************)
(* The order in which entries are linked, or were: every link leads on,    *)
(* and so will every link a search is about to set.                        *)
(***************************************************************************)
Orders ==
    {R \in SUBSET (Entries \X Entries) :
        /\ \A a \in Entries : <<a, a>> \notin R
        /\ \A a, b, c \in Entries : <<a, b>> \in R /\ <<b, c>> \in R => <<a, c>> \in R}

Nested(t) == 1 .. Len(walk[t].frames)

(* Searches that look at an entry, or have looked at one and nest another. *)
Looking(t) ==
    {i \in Nested(t) : i < Len(walk[t].frames) \/ InStage(t, "look")}

Settled(t) == InStage(t, "acquire") \/ InStage(t, "swing")

SearchInOrder(t, R) ==
    /\ \A i \in Looking(t) : <<walk[t].frames[i].head, walk[t].frames[i].look>> \in R
    /\ Settled(t) /\ walk[t].valid # Null => <<Inner(t).head, walk[t].valid>> \in R

InOrder(R) ==
    /\ \A e \in Entries : next[e] = Null \/ <<e, next[e]>> \in R \/ e \in Fresh
    /\ \A t \in Threads : SearchInOrder(t, R)

OrderInv == \E R \in Orders : InOrder(R)

(***************************************************************************)
(* What a search skips is deleted: what it looks at leads to the same      *)
(* entries as the link it has read, and a deleted entry does so too.       *)
(***************************************************************************)
FrameAgrees(t, i) ==
    LET f == walk[t].frames[i]
    IN  /\ i > 1 => deleted[f.head]
        /\ i \in Looking(t) => f.look # Null /\ Live(f.link) = Live(f.look)
        /\ i < Len(walk[t].frames) => walk[t].frames[i + 1].head = f.look
        /\ i \in Looking(t) \/ Settled(t) =>
               /\ i > 1 => f.tag
               /\ f.tag => deleted[f.head] /\ Live(f.head) = Live(f.link)

(* A search for what to replace the newest entry by. *)
CleansUp(t) ==
    LET w == walk[t]
    IN  /\ At(t, "next") /\ w.frames # <<>> =>
               LET f == w.frames[1]
               IN  /\ deleted[f.head]
                   /\ Live(f.head) = Live(call[t].ptr)
                   /\ 1 \in Looking(t) \/ Settled(t) => f.tag
        /\ At(t, "next") /\ InStage(t, "done") => Live(w.valid) = Live(call[t].ptr)
        /\ At(t, "replace") => Live(w.valid) = Live(call[t].ptr)

SearchAgrees(t) ==
    /\ \A i \in Nested(t) : FrameAgrees(t, i)
    /\ Settled(t) => Live(Inner(t).link) = Live(walk[t].valid)
    /\ CleansUp(t)

SearchInv == \A t \in Threads : SearchAgrees(t)

(***************************************************************************)
(* What the operations know.                                               *)
(***************************************************************************)
(* The entries an iterator still has to come to, or a drop to delete. *)
Left(t) == IF call[t].op = "iter" THEN seen[t] ELSE Contents(call[t].on)

(* They are ahead of it. *)
VisitsAhead(t) ==
    call[t].op \in {"iter", "drop"} =>
        LET w == walk[t]
        IN  /\ Left(t) \subseteq Contents(call[t].on)
            /\ At(t, "clean") => Left(t) \subseteq Live(call[t].ptr)
            /\ At(t, "visit") /\ InStage(t, "done") => Left(t) \subseteq Live(w.valid)
            /\ At(t, "visit") /\ w.frames # <<>> =>
                   LET f == w.frames[1]
                   IN  /\ Left(t) \subseteq Live(f.head) \ {f.head}
                       /\ call[t].op = "drop" => deleted[f.head]
                       /\ 1 \in Looking(t) \/ Settled(t) => Left(t) \subseteq Live(f.link)

(* What a call acts on was the newest entry when it was read. *)
SawNewest(t) ==
    call[t].op \in Ends =>
        /\ At(t, "clean") /\ Clean(call[t].ptr) => call[t].ptr \in seen[t]
        /\ call[t].pc \in {"link", "attach", "get", "judge"} => call[t].ptr \in seen[t]

(* The new entry is linked to what the compare-and-swap expects. *)
LinksOn(t) ==
    /\ At(t, "attach") =>
           call[t].ptr \in released \/ next[call[t].entry] = call[t].ptr
    /\ At(t, "insert") =>
           walk[t].valid \in released \/ next[call[t].entry] = walk[t].valid

CallAware(t) == VisitsAhead(t) /\ SawNewest(t) /\ LinksOn(t)

CallInv == \A t \in Threads : CallAware(t)

(* The conjunction that every step keeps. *)
IInv == ControlInv /\ OwnerInv /\ OrderInv /\ SearchInv /\ CallInv

=============================================================================
