----------------------------- MODULE ThreadExit -----------------------------
(***************************************************************************)
(* The chain of Collectors as the linked list it is, and what a thread     *)
(* does to it at its end (CollectorAnchor::drop of src/src/collector.rs):  *)
(* it disowns its Collector, frees the whole chain if all of it is         *)
(* disowned (clear_chain), and uses a temporary Collector, which is in no  *)
(* chain, for what the destructors it runs meanwhile retire.               *)
(*                                                                         *)
(* Epochs are left out: the garbage of a Collector may be dropped by its   *)
(* thread when no thread with a Collector in the chain has had a guard     *)
(* open since it was retired, which is what module Collector is about.     *)
(***************************************************************************)
EXTENDS Naturals, Links

CONSTANTS
    Threads,
    Collectors,   \* addresses; one that was freed may be allocated anew
    Objects,
    Nested,       \* objects that only the Drop of another object retires
    Retirers,     \* threads that retire objects
    Workers,      \* threads that exit
    Suspenders,   \* threads that call suspend()
    Tuners,       \* threads that call accelerate() in every guard of their own
    MaxMade,      \* bound on the Collectors one thread makes
    Null

ASSUME ThreadExitAssumption ==
    /\ Null \notin Threads \cup Collectors
    /\ Nested \subseteq Objects
    /\ Threads \cap Collectors = {} /\ Objects \cap Collectors = {}
    /\ MaxMade \in Nat

Items == Objects \cup Collectors

VARIABLES
    head, tag, next_link,   \* the chain; tag locks it ("First") or marks it
    state,                  \* of a Collector: free, valid, or INVALID
    garbage,                \* of a Collector; t names t's temporary one
    local,                  \* LOCAL_COLLECTOR
    made,                   \* how many Collectors a thread has made
    life, guarded, held,    \* as in DelayedDealloc
    pc, ptr, prev,          \* what a thread executes, with its two cursors
    dropping                \* what a thread is about to drop

chain == <<head, tag, next_link, state>>
objects == <<life, guarded, held>>
thread == <<local, made, pc, ptr, prev>>
vars == <<chain, garbage, objects, thread, dropping>>

Init ==
    /\ head = Null /\ tag = "None"
    /\ next_link = [c \in Collectors |-> Null]
    /\ state = [c \in Collectors |-> "free"]
    /\ garbage = [x \in Collectors \cup Threads |-> {}]
    /\ local = [t \in Threads |-> Null]
    /\ made = [t \in Threads |-> 0]
    /\ life = [o \in Objects |-> "live"]
    /\ guarded = {}
    /\ held = [t \in Threads |-> {}]
    /\ pc = [t \in Threads |-> "idle"]
    /\ ptr = [t \in Threads |-> Null]
    /\ prev = [t \in Threads |-> Null]
    /\ dropping = [t \in Threads |-> {}]

At(t, place) == pc[t] = place

Goto(t, place) == pc' = [pc EXCEPT ![t] = place]

Set(cursor, t, c) == cursor' = [cursor EXCEPT ![t] = c]

(* Does the thread announce its guards where a scan can see them? *)
Registered(t) == local[t] \in Collectors

(* Does the thread use its temporary Collector? *)
Exiting(t) == local[t] = t

Locked == tag \in {"First", "Both"}

(* i is put in a list: those who have a guard open now may have seen it. *)
Collected(x, i) == garbage' = [garbage EXCEPT ![x] = @ \cup {i}]
Witnessed(i) ==
    held' = [u \in Threads |-> IF u \in guarded THEN held[u] \cup {i} ELSE held[u]]

-----------------------------------------------------------------------------
(* alloc(): the new Collector is linked to the head, *)
LinkToHead(t, c) ==
    /\ Set(ptr, t, head)
    /\ Set(prev, t, c)
    /\ next_link' = [next_link EXCEPT ![c] = head]

(* Any address will do; one is as good as another. *)
Alloc(t) ==
    LET c == CHOOSE d \in Collectors : state[d] = "free"
    IN  /\ At(t, "idle")
        /\ local[t] = Null
        /\ made[t] < MaxMade
        /\ \E d \in Collectors : state[d] = "free"
        /\ LinkToHead(t, c)
        /\ state' = [state EXCEPT ![c] = "valid"]
        /\ Goto(t, "push")
        /\ UNCHANGED <<head, tag, garbage, objects, local, made, dropping>>

(* and becomes the head, whatever the tag, if that is still the head; *)
PushCollector(t) ==
    /\ At(t, "push")
    /\ head = ptr[t]
    /\ head' = prev[t]
    /\ local' = [local EXCEPT ![t] = prev[t]]
    /\ made' = [made EXCEPT ![t] = @ + 1]
    /\ Set(ptr, t, Null)
    /\ Set(prev, t, Null)
    /\ Goto(t, "idle")
    /\ UNCHANGED <<tag, next_link, state, garbage, objects, dropping>>

(* Mutant of PushFails: the link is set once only, before the loop. *)
PushFailsUnlinked(t) ==
    /\ At(t, "push")
    /\ head # ptr[t]
    /\ Set(ptr, t, head)
    /\ UNCHANGED <<chain, garbage, objects, local, made, pc, prev, dropping>>

(* otherwise it is linked to the new one. *)
PushFails(t) ==
    /\ At(t, "push")
    /\ head # ptr[t]
    /\ LinkToHead(t, prev[t])
    /\ UNCHANGED <<head, tag, state, garbage, objects, local, made, pc, dropping>>

-----------------------------------------------------------------------------
(* Guards on a Collector in the chain *)

(* What the thread's lists have that is old enough to be dropped. *)
Aged(t) ==
    {i \in garbage[local[t]] : \A u \in Threads : Registered(u) => i \notin held[u]}

OpenGuard(t) ==
    /\ At(t, "idle")
    /\ Registered(t)
    /\ t \notin guarded
    /\ guarded' = guarded \cup {t}
    /\ UNCHANGED <<chain, garbage, life, held, thread, dropping>>

(* The guard is opened in a new epoch, and epoch_updated() drops garbage. *)
OpenGuardInNewEpoch(t) ==
    /\ At(t, "idle")
    /\ Registered(t)
    /\ t \notin guarded
    /\ Aged(t) # {}
    /\ guarded' = guarded \cup {t}
    /\ dropping' = [dropping EXCEPT ![t] = Aged(t)]
    /\ garbage' = [garbage EXCEPT ![local[t]] = @ \ Aged(t)]
    /\ Goto(t, "drop")
    /\ UNCHANGED <<chain, life, held, local, made, ptr, prev>>

Retire(t, o) ==
    /\ At(t, "idle")
    /\ t \in guarded
    /\ o \notin Nested
    /\ life[o] = "live"
    /\ life' = [life EXCEPT ![o] = "retired"]
    /\ Collected(local[t], o)
    /\ Witnessed(o)
    /\ UNCHANGED <<chain, guarded, thread, dropping>>

(* At the end of a thread, a scan by a Drop is over before it goes on.     *)
Drops(t) == At(t, "drop") \/ (pc[t] \in {"free", "temp"} /\ t \notin guarded)

(***************************************************************************)
(* An object is dropped.  Its Drop may retire another, into the Collector  *)
(* the thread uses now.  At the end of a thread it may also open a guard   *)
(* on the temporary Collector, which stays open for some time.             *)
(***************************************************************************)
DropObject(t, o) ==
    /\ Drops(t)
    /\ o \in dropping[t] \cap Objects
    /\ dropping' = [dropping EXCEPT ![t] = @ \ {o}]
    /\ \/ /\ life' = [life EXCEPT ![o] = "live"]
          /\ UNCHANGED <<garbage, held>>
       \/ \E n \in Nested :
             /\ o \notin Nested
             /\ life[n] = "live"
             /\ life' = [life EXCEPT ![o] = "live", ![n] = "retired"]
             /\ Collected(local[t], n)
             /\ Witnessed(n)
    /\ \/ UNCHANGED guarded
       \/ o \notin Nested /\ Exiting(t) /\ guarded' = guarded \cup {t}
    /\ UNCHANGED <<chain, thread>>

(* An adopted Collector is dropped, with all that is in its lists. *)
DropCollector(t, c) ==
    /\ Drops(t)
    /\ c \in dropping[t] \cap Collectors
    /\ dropping' = [dropping EXCEPT ![t] = (@ \ {c}) \cup garbage[c]]
    /\ garbage' = [garbage EXCEPT ![c] = {}]
    /\ state' = [state EXCEPT ![c] = "free"]
    /\ UNCHANGED <<head, tag, next_link, objects, thread>>

FinishDrop(t) ==
    /\ At(t, "drop")
    /\ dropping[t] = {}
    /\ Goto(t, "idle")
    /\ UNCHANGED <<chain, garbage, objects, local, made, ptr, prev, dropping>>

(***************************************************************************)
(* end_guard(): the chain is scanned when the countdown is over.  It is at *)
(* once after accelerate().  Otherwise it may be or not: it starts at      *)
(* CADENCE, with a new epoch and after every scan (at zero, for a guard on *)
(* a temporary Collector before either), and stays where it is as long as  *)
(* there is no reason to count.                                            *)
(***************************************************************************)
MustScan(t) == t \in Tuners /\ Registered(t) /\ ~Locked

(* Does end_guard() count down?  Only fairness depends on it. *)
CountsDown(t) == garbage[local[t]] # {} \/ tag = "Second"

GuardEnds(t) ==
    /\ t \in guarded
    /\ pc[t] \in {"idle", "free", "temp"}
    /\ guarded' = guarded \ {t}
    /\ held' = [held EXCEPT ![t] = {}]

EndGuard(t) ==
    /\ GuardEnds(t)
    /\ ~MustScan(t)
    /\ UNCHANGED <<chain, garbage, life, thread, dropping>>

LockChain == tag \in {"None", "Second"} /\ tag' = "First"

StartScan(t) ==
    /\ GuardEnds(t)
    /\ LockChain
    /\ Set(ptr, t, head)
    /\ Set(prev, t, Null)
    /\ Goto(t, "scan")
    /\ UNCHANGED <<head, next_link, state, garbage, life, local, made, dropping>>

-----------------------------------------------------------------------------
(* scan() *)

(* The cursors move on from c, which stays in the chain. *)
MoveOn(t, c) == Set(prev, t, c) /\ Set(ptr, t, next_link[c])

(* c is linked by the head, or by the Collector the scan came from. *)
CanUnlink(t, c) == prev[t] = Null => head = c

ScanPass(t) ==
    LET c == ptr[t]
    IN  /\ At(t, "scan")
        /\ c # Null
        /\ state[c] = "INVALID" => ~CanUnlink(t, c)
        /\ MoveOn(t, c)
        /\ UNCHANGED <<chain, garbage, objects, local, made, pc, dropping>>

ScanUnlink(t) ==
    LET c == ptr[t]
    IN  /\ At(t, "scan")
        /\ c # Null
        /\ state[c] = "INVALID"
        /\ CanUnlink(t, c)
        /\ IF prev[t] = Null
           THEN head' = next_link[c] /\ UNCHANGED next_link
           ELSE next_link' = [next_link EXCEPT ![prev[t]] = next_link[c]] /\ UNCHANGED head
        /\ Collected(local[t], c)
        /\ Witnessed(c)
        /\ Set(ptr, t, next_link[c])
        /\ UNCHANGED <<tag, state, life, guarded, local, made, pc, prev, dropping>>

(* A thread with a guard open may be in another epoch. *)
ScanStop(t) ==
    /\ At(t, "scan")
    /\ \E u \in guarded \ {t} : local[u] = ptr[t]
    /\ Goto(t, "unlock")
    /\ UNCHANGED <<chain, garbage, objects, local, made, ptr, prev, dropping>>

ScanEnds(t) ==
    /\ At(t, "scan")
    /\ ptr[t] = Null
    /\ Goto(t, "unlock")
    /\ UNCHANGED <<chain, garbage, objects, local, made, ptr, prev, dropping>>

(* A scan is over, or clear_chain() is: with an empty chain or without. *)
UnlockChain(t) ==
    /\ pc[t] \in {"unlock", "failed", "cleared"}
    /\ tag' = IF tag = "First" THEN "None" ELSE "Second"
    /\ Set(ptr, t, Null)
    /\ Set(prev, t, Null)
    /\ Goto(t, CASE At(t, "failed") -> "mark"
                 [] At(t, "unlock") /\ ~Exiting(t) -> "idle"
                 [] OTHER -> "temp")
    /\ UNCHANGED <<head, next_link, state, garbage, objects, local, made, dropping>>

-----------------------------------------------------------------------------
(* suspend(), as long as the thread may make another Collector *)
Suspend(t) ==
    /\ At(t, "idle")
    /\ made[t] < MaxMade
    /\ Registered(t)
    /\ t \notin guarded
    /\ garbage[local[t]] # {}
    /\ state' = [state EXCEPT ![local[t]] = "INVALID"]
    /\ local' = [local EXCEPT ![t] = Null]
    /\ Goto(t, "mark")
    /\ UNCHANGED <<head, tag, next_link, garbage, objects, made, ptr, prev, dropping>>

(* Mutant of MarkScanEnforced: gives up if the chain is locked. *)
MarkUnlessLocked(t) ==
    /\ At(t, "mark")
    /\ tag' = IF Locked THEN tag ELSE "Second"
    /\ Goto(t, IF Exiting(t) THEN "temp" ELSE "idle")
    /\ UNCHANGED <<head, next_link, state, garbage, objects, local, made, ptr, prev,
                   dropping>>

MarkScanEnforced(t) ==
    /\ At(t, "mark")
    /\ tag' = IF Locked THEN "Both" ELSE "Second"
    /\ Goto(t, IF Exiting(t) THEN "temp" ELSE "idle")
    /\ UNCHANGED <<head, next_link, state, garbage, objects, local, made, ptr, prev,
                   dropping>>

-----------------------------------------------------------------------------
(* CollectorAnchor::drop(), of a thread that made a Collector at some time *)
Exit(t) ==
    /\ At(t, "idle")
    /\ t \notin guarded
    /\ made[t] > 0
    /\ state' = [c \in Collectors |-> IF c = local[t] THEN "INVALID" ELSE state[c]]
    /\ local' = [local EXCEPT ![t] = t]
    /\ Goto(t, "exit")
    /\ UNCHANGED <<head, tag, next_link, garbage, objects, made, ptr, prev, dropping>>

(* clear_chain(): prev keeps the head that was locked. *)
LockForClear(t) ==
    /\ At(t, "exit")
    /\ LockChain
    /\ Set(ptr, t, head)
    /\ Set(prev, t, head)
    /\ Goto(t, "check")
    /\ UNCHANGED <<head, next_link, state, garbage, objects, local, made, dropping>>

LockFails(t) ==
    /\ At(t, "exit")
    /\ Locked
    /\ Goto(t, "mark")
    /\ UNCHANGED <<chain, garbage, objects, local, made, ptr, prev, dropping>>

(* Mutant of CheckInvalid: a Collector of a thread that has no guard is    *)
(* taken to be as good as a disowned one.                                  *)
CheckInvalidOrInactive(t) ==
    /\ At(t, "check")
    /\ ptr[t] # Null
    /\ \A u \in guarded : local[u] # ptr[t]
    /\ Set(ptr, t, next_link[ptr[t]])
    /\ UNCHANGED <<chain, garbage, objects, local, made, pc, prev, dropping>>

CheckInvalid(t) ==
    /\ At(t, "check")
    /\ ptr[t] # Null
    /\ state[ptr[t]] = "INVALID"
    /\ Set(ptr, t, next_link[ptr[t]])
    /\ UNCHANGED <<chain, garbage, objects, local, made, pc, prev, dropping>>

FindValid(t) ==
    /\ At(t, "check")
    /\ ptr[t] # Null
    /\ state[ptr[t]] # "INVALID"
    /\ Goto(t, "failed")
    /\ UNCHANGED <<chain, garbage, objects, local, made, ptr, prev, dropping>>

(* Mutant of TakeChain: the head may have changed. *)
TakeChainAnyway(t) ==
    /\ At(t, "check")
    /\ ptr[t] = Null
    /\ head' = Null
    /\ Set(ptr, t, prev[t])
    /\ Goto(t, "free")
    /\ UNCHANGED <<tag, next_link, state, garbage, objects, local, made, prev, dropping>>

TakeChain(t) ==
    /\ At(t, "check")
    /\ ptr[t] = Null
    /\ head = prev[t]
    /\ head' = Null
    /\ Set(ptr, t, prev[t])
    /\ Goto(t, "free")
    /\ UNCHANGED <<tag, next_link, state, garbage, objects, local, made, prev, dropping>>

TakeFails(t) ==
    /\ At(t, "check")
    /\ ptr[t] = Null
    /\ head # prev[t]
    /\ Goto(t, "failed")
    /\ UNCHANGED <<chain, garbage, objects, local, made, ptr, prev, dropping>>

(* Is the thread done with what it was about to drop? *)
Dropped(t) == dropping[t] = {} /\ t \notin guarded

(* The chain is still locked.  The memory of c is freed a little later. *)
FreeCollector(t) ==
    LET c == ptr[t]
    IN  /\ At(t, "free")
        /\ Dropped(t)
        /\ c # Null
        /\ Set(ptr, t, next_link[c])
        /\ dropping' = [dropping EXCEPT ![t] = garbage[c]]
        /\ garbage' = [garbage EXCEPT ![c] = {}]
        /\ state' = [state EXCEPT ![c] = "free"]
        /\ UNCHANGED <<head, tag, next_link, objects, local, made, pc, prev>>

ChainFreed(t) ==
    /\ At(t, "free")
    /\ Dropped(t)
    /\ ptr[t] = Null
    /\ Goto(t, "cleared")
    /\ UNCHANGED <<chain, garbage, objects, local, made, ptr, prev, dropping>>

(* clear_for_drop() of the temporary Collector, until nothing is left. *)
ClearTemporary(t) ==
    /\ At(t, "temp")
    /\ Dropped(t)
    /\ garbage[t] # {}
    /\ dropping' = [dropping EXCEPT ![t] = garbage[t]]
    /\ garbage' = [garbage EXCEPT ![t] = {}]
    /\ UNCHANGED <<chain, objects, thread>>

(* Mutant of Ended: the lists are cleared once only. *)
EndedAfterOne(t) ==
    /\ At(t, "temp")
    /\ Dropped(t)
    /\ local' = [local EXCEPT ![t] = Null]
    /\ Goto(t, "exited")
    /\ UNCHANGED <<chain, garbage, objects, made, ptr, prev, dropping>>

Ended(t) ==
    /\ At(t, "temp")
    /\ Dropped(t)
    /\ garbage[t] = {}
    /\ local' = [local EXCEPT ![t] = Null]
    /\ Goto(t, "exited")
    /\ UNCHANGED <<chain, garbage, objects, made, ptr, prev, dropping>>

-----------------------------------------------------------------------------
DropStep(t) ==
    \/ \E o \in Objects : DropObject(t, o)
    \/ \E c \in Collectors : DropCollector(t, c)
    \/ FinishDrop(t)

ScanStep(t) ==
    ScanPass(t) \/ ScanUnlink(t) \/ ScanStop(t) \/ ScanEnds(t) \/ UnlockChain(t)

ExitStep(t) ==
    \/ LockForClear(t) \/ LockFails(t)
    \/ CheckInvalid(t) \/ FindValid(t) \/ TakeChain(t) \/ TakeFails(t)
    \/ FreeCollector(t) \/ ChainFreed(t)
    \/ ClearTemporary(t) \/ Ended(t)

(* What a thread does once it is in the crate, or has a guard. *)
CrateStep(t) ==
    \/ PushCollector(t) \/ PushFails(t)
    \/ DropStep(t) \/ ScanStep(t) \/ ExitStep(t)
    \/ EndGuard(t) \/ StartScan(t)
    \/ MarkScanEnforced(t)

Next ==
    \E t \in Threads :
        \/ Alloc(t)
        \/ OpenGuard(t) \/ OpenGuardInNewEpoch(t)
        \/ t \in Retirers /\ \E o \in Objects : Retire(t, o)
        \/ t \in Suspenders /\ Suspend(t)
        \/ t \in Workers /\ Exit(t)
        \/ CrateStep(t)

Spec == Init /\ [][Next]_vars

(* A worker that has garbage will not just keep it. *)
Leave(t) ==
    /\ Registered(t)
    /\ garbage[local[t]] # {}
    /\ Exit(t) \/ (t \in Suspenders /\ Suspend(t))

(***************************************************************************)
(* Fairness: calls return and guards are dropped; a worker with garbage    *)
(* suspends or exits, and owes nothing more; the others keep opening       *)
(* guards.  If these again and again have a reason to count down as they   *)
(* close a guard while the chain is not locked, they scan at some time,    *)
(* and epochs pass (run `reclaim' of module Collector).                    *)
(***************************************************************************)
Fairness ==
    /\ \A t \in Threads : WF_vars(CrateStep(t))
    /\ \A t \in Workers : SF_vars(Leave(t))
    /\ \A t \in Threads \ Workers :
          /\ WF_vars(Alloc(t)) /\ WF_vars(OpenGuard(t))
          /\ SF_vars(StartScan(t) /\ CountsDown(t))
          /\ SF_vars(OpenGuardInNewEpoch(t))

-----------------------------------------------------------------------------
(* The Collectors that a walk along the chain comes to. *)
InChain == Reach(next_link, head)

(* Nobody comes to a Collector whose memory was freed: neither along the   *)
(* chain, nor a scan with its cursors, nor the thread it belongs to; and   *)
(* no thread that has a Collector drops out of the sight of the scans      *)
(* (clear_chain, collector.rs:429-466, against alloc and scan).            *)
ChainSound ==
    /\ \A c \in InChain : state[c] # "free"
    /\ \A t \in Threads :
          /\ pc[t] \in {"scan", "check", "free"} =>
                \A c \in {ptr[t], prev[t]} \ {Null} :
                    state[c] = "free" => At(t, "free") /\ c = prev[t]
          /\ Registered(t) => state[local[t]] = "valid" /\ local[t] \in InChain

Places(o) ==
    {x \in Collectors \cup Threads : o \in garbage[x]}

(* Whatever is retired, be it by a Drop in the middle of a thread's end,   *)
(* is in exactly one place from where it will be dropped: a list of a      *)
(* Collector that was not freed, or in the hands of one thread.            *)
GarbageKept ==
    \A o \in Objects :
        /\ life[o] = "retired" <=>
              \E x \in Collectors \cup Threads :
                  o \in garbage[x] \/ (x \in Threads /\ o \in dropping[x])
        /\ \A x, y \in Places(o) : x = y
        /\ \A t, u \in Threads : o \in dropping[t] \cap dropping[u] => t = u
        /\ \A x \in Places(o) :
              /\ x \in Collectors => state[x] # "free"
              /\ x \in Threads => Exiting(x)
              /\ \A t \in Threads : o \notin dropping[t]

(* The chain is freed at once, without waiting for epochs, and yet nothing *)
(* in it is dropped under a guard (collector.rs:442-443: "there is no Ptr  *)
(* that possibly sees any garbage instances"): if an object is dropped     *)
(* under a guard, it is by the thread that clears its temporary Collector, *)
(* or the guard is on a temporary Collector.                               *)
ClearsUnderNoGuard ==
    [][\A o \in Objects, t, u \in Threads :
          o \in dropping[t] /\ life'[o] = "live" /\ o \in held[u] =>
              At(t, "temp") \/ Exiting(u)]_vars

=============================================================================
