----------------------------- MODULE Collector -----------------------------
(***************************************************************************)
(* The epoch-based reclaimer of src/src/collector.rs: one Collector per    *)
(* thread, registered in a global chain, and a global epoch.               *)
(*                                                                         *)
(* A thread announces the epoch it read when it opens its first guard, and *)
(* takes the announcement back when it closes its last one.  Retired       *)
(* objects go to the thread's "current" list; each time the thread         *)
(* announces an epoch other than the one before, its lists rotate:         *)
(* current -> previous -> next -> dropped.  A thread whose countdown has   *)
(* reached zero scans the chain as it closes its last guard, and sets the  *)
(* global epoch to the successor of its own announcement if every other    *)
(* collector is inactive or announces that same epoch.                     *)
(*                                                                         *)
(* Each action is one access to memory that threads share, with the        *)
(* thread-local work around it.  Accesses are sequentially consistent.     *)
(***************************************************************************)
EXTENDS Epoch, FiniteSets

CONSTANTS
    Threads,      \* threads of the program
    Collectors,   \* addresses a Collector can be allocated at
    Objects,      \* addresses a collectible object can be allocated at
    NoCollector,  \* the null Collector pointer
    CADENCE,      \* quiescent states between two scans, 64 in the code
    MaxReaders,   \* guards a thread can have open, u32::MAX in the code
    Retirers,     \* threads whose program retires objects
    Suspenders,   \* threads whose program calls suspend()
    Tuners,       \* threads that call accelerate() and set_has_garbage()
    Panicky       \* objects whose Drop may panic

ASSUME CollectorAssumption ==
    /\ CADENCE \in Nat \ {0}
    /\ MaxReaders \in Nat \ {0}
    /\ Retirers \subseteq Threads
    /\ Suspenders \subseteq Threads
    /\ Tuners \subseteq Threads
    /\ Panicky \subseteq Objects
    /\ NoCollector \notin Collectors
    /\ Objects \cap Collectors = {}

VARIABLES
    epoch,              \* GLOBAL_ROOT.epoch
    chain,              \* collectors linked from GLOBAL_ROOT.chain_head
    tag,                \* tag bits of chain_head: First locks, Second marks
    todo,               \* collectors the running scan has yet to visit
    pushed,             \* collectors pushed since the chain was locked
    state,              \* Collector.state, by collector
    announcement,
    next_epoch_update,
    has_garbage,
    num_readers,
    garbage,            \* the garbage lists, by collector
    local,              \* LOCAL_COLLECTOR, by thread
    loaded,             \* the epoch new_guard read, by thread
    pc,                 \* what a thread is doing in the crate
    life,               \* is an object or collector in use, or retired?
    leaked,             \* items a panic left outside of every list
    held                \* history: items retired since t opened its guard

shared == <<epoch, chain, tag, todo, pushed>>
private == <<announcement, next_epoch_update, num_readers>>
lists == <<garbage, has_garbage, life, leaked>>
vars == <<shared, private, lists, state, local, loaded, pc, held>>

(* Everything that can be in a garbage list: collectors of terminated      *)
(* threads are reclaimed like objects.                                     *)
Items == Objects \cup Collectors

INACTIVE == NUM_EPOCHS
INVALID == 2 * NUM_EPOCHS

(* The lists of a Collector, and two local variables of epoch_updated: the *)
(* list it is dropping, and the lists of the Collector being dropped.      *)
Lists == {"current", "previous", "next", "dropping", "clearing"}

NoGarbage == [l \in Lists |-> {}]

Locations == {"idle", "pin", "drop", "unwind", "scan", "unlock", "unpin",
              "mark"}

(* A thread has a guard from when it published its epoch to when it starts *)
(* to close its last guard.                                                *)
InGuard(t) ==
    /\ local[t] # NoCollector
    /\ num_readers[local[t]] > 0
    /\ pc[t] # "pin"

Guarded == {t \in Threads : InGuard(t)}

(* A freshly retired item may be in use by every thread with a guard.      *)
HeldBy(guarded, items) ==
    [t \in Threads |-> IF t \in guarded THEN held[t] \cup items ELSE held[t]]

Goto(t, location) == pc' = [pc EXCEPT ![t] = location]

Init ==
    /\ epoch = 0
    /\ chain = {}
    /\ tag = "None"
    /\ todo = {}
    /\ pushed = {}
    /\ state = [c \in Collectors |-> INACTIVE]
    /\ announcement = [c \in Collectors |-> 0]
    /\ next_epoch_update = [c \in Collectors |-> CADENCE]
    /\ has_garbage = [c \in Collectors |-> FALSE]
    /\ num_readers = [c \in Collectors |-> 0]
    /\ garbage = [c \in Collectors |-> NoGarbage]
    /\ local = [t \in Threads |-> NoCollector]
    /\ loaded = [t \in Threads |-> 0]
    /\ pc = [t \in Threads |-> "idle"]
    /\ life = [i \in Items |-> "live"]
    /\ leaked = {}
    /\ held = [t \in Threads |-> {}]

(***************************************************************************)
(* Collector::current() of a thread without a Collector: allocate one and  *)
(* push it to the head of the chain, whatever the tag of the head.         *)
(***************************************************************************)
Alloc(t, c) ==
    /\ pc[t] = "idle"
    /\ local[t] = NoCollector
    /\ c \notin chain
    /\ life[c] = "live"
    /\ state' = [state EXCEPT ![c] = INACTIVE]
    /\ announcement' = [announcement EXCEPT ![c] = 0]
    /\ next_epoch_update' = [next_epoch_update EXCEPT ![c] = CADENCE]
    /\ has_garbage' = [has_garbage EXCEPT ![c] = FALSE]
    /\ num_readers' = [num_readers EXCEPT ![c] = 0]
    /\ chain' = chain \cup {c}
    /\ pushed' = IF tag \in {"First", "Both"} THEN pushed \cup {c} ELSE pushed
    /\ local' = [local EXCEPT ![t] = c]
    /\ UNCHANGED <<epoch, tag, todo, garbage, loaded, pc, life, leaked, held>>

(***************************************************************************)
(* Guard::new(): read the global epoch, then publish it.                   *)
(***************************************************************************)
LoadEpoch(t) ==
    LET c == local[t] IN
    /\ pc[t] = "idle"
    /\ c # NoCollector
    /\ num_readers[c] = 0
    /\ num_readers' = [num_readers EXCEPT ![c] = 1]
    /\ loaded' = [loaded EXCEPT ![t] = epoch]
    /\ Goto(t, "pin")
    /\ UNCHANGED <<shared, announcement, next_epoch_update, lists, state,
                   local, held>>

(* Mutants of Rotated: the current list is not taken; one stage is skipped. *)
RotatedKeepingCurrent(g) ==
    [g EXCEPT !.previous = g.current, !.next = g.previous, !.dropping = g.next]

RotatedInTwoStages(g) ==
    [g EXCEPT !.current = {}, !.next = g.current, !.dropping = g.next]

(* The lists of a collector one announcement later. *)
Rotated(g) ==
    [current  |-> {},
     previous |-> g.current,
     next     |-> g.previous,
     dropping |-> g.next,
     clearing |-> {}]

(* epoch_updated() up to its dropping loop, in the step that publishes. *)
Pin(t) ==
    LET c == local[t]
        updated == announcement[c] # loaded[t]
        rotates == updated /\ has_garbage[c]
        drops == rotates /\ garbage[c].next # {}
    IN
    /\ pc[t] = "pin"
    /\ state' = [state EXCEPT ![c] = loaded[t]]
    /\ announcement' = [announcement EXCEPT ![c] = loaded[t]]
    /\ garbage' = IF rotates
                  THEN [garbage EXCEPT ![c] = Rotated(garbage[c])]
                  ELSE garbage
    /\ has_garbage' = IF rotates
                      THEN [has_garbage EXCEPT ![c] =
                               \/ garbage[c].previous # {}
                               \/ garbage[c].current # {}]
                      ELSE has_garbage
    /\ next_epoch_update' = IF updated /\ ~drops
                            THEN [next_epoch_update EXCEPT ![c] = CADENCE]
                            ELSE next_epoch_update
    /\ Goto(t, IF drops THEN "drop" ELSE "idle")
    /\ UNCHANGED <<shared, num_readers, life, leaked, local, loaded, held>>

NestGuard(t) ==
    LET c == local[t] IN
    /\ pc[t] \in {"idle", "drop"}
    /\ c # NoCollector
    /\ num_readers[c] \in 1 .. MaxReaders - 1
    /\ num_readers' = [num_readers EXCEPT ![c] = @ + 1]
    /\ UNCHANGED <<shared, announcement, next_epoch_update, lists, state,
                   local, loaded, pc, held>>

(***************************************************************************)
(* The dropping loop of epoch_updated().  The Drop code of an item is user *)
(* code: while pc is "drop" the thread may retire objects and nest guards. *)
(***************************************************************************)
BeingDropped(c) ==
    IF garbage[c].clearing # {} THEN garbage[c].clearing ELSE garbage[c].dropping

DropObject(t, o) ==
    LET c == local[t] IN
    /\ pc[t] = "drop"
    /\ o \in BeingDropped(c)
    /\ life' = [life EXCEPT ![o] = "live"]
    /\ garbage' = [garbage EXCEPT ![c].dropping = @ \ {o},
                                  ![c].clearing = @ \ {o}]
    /\ UNCHANGED <<shared, private, has_garbage, leaked, state, local, loaded,
                   pc, held>>

(* A Collector in garbage drops everything in its lists: clear_for_drop(). *)
(* Its memory is free from here on, and is given the values Alloc stores.  *)
DropCollector(t, d) ==
    LET c == local[t] IN
    /\ pc[t] = "drop"
    /\ d \in BeingDropped(c)
    /\ life' = [life EXCEPT ![d] = "live"]
    /\ garbage' = [garbage EXCEPT
            ![c].dropping = @ \ {d},
            ![c].clearing = (@ \ {d}) \cup garbage[d].previous
                                \cup garbage[d].current \cup garbage[d].next,
            ![d] = NoGarbage]
    /\ announcement' = [announcement EXCEPT ![d] = 0]
    /\ next_epoch_update' = [next_epoch_update EXCEPT ![d] = CADENCE]
    /\ has_garbage' = [has_garbage EXCEPT ![d] = FALSE]
    /\ UNCHANGED <<shared, num_readers, leaked, state, local, loaded, pc, held>>

FinishDrop(t) ==
    LET c == local[t] IN
    /\ pc[t] = "drop"
    /\ BeingDropped(c) = {}
    /\ next_epoch_update' = [next_epoch_update EXCEPT ![c] = CADENCE]
    /\ Goto(t, "idle")
    /\ UNCHANGED <<shared, announcement, num_readers, lists, state, local,
                   loaded, held>>

(* Mutants of DropPanics: the rest is lost; the rest is not flagged.       *)
DropPanicsLosesRest(t, o) ==
    LET c == local[t] IN
    /\ pc[t] = "drop"
    /\ o \in BeingDropped(c)
    /\ life' = [life EXCEPT ![o] = "live"]
    /\ leaked' = leaked \cup (garbage[c].clearing \ {o})
    /\ garbage' = [garbage EXCEPT ![c].dropping = {}, ![c].clearing = {}]
    /\ Goto(t, "unwind")
    /\ UNCHANGED <<shared, private, has_garbage, state, local, loaded, held>>

DropPanicsUnflagged(t, o) ==
    LET c == local[t] IN
    /\ pc[t] = "drop"
    /\ o \in BeingDropped(c)
    /\ life' = [life EXCEPT ![o] = "live"]
    /\ leaked' = leaked \cup (garbage[c].clearing \ {o})
    /\ garbage' = [garbage EXCEPT ![c].current = @ \cup (garbage[c].dropping \ {o}),
                                  ![c].dropping = {},
                                  ![c].clearing = {}]
    /\ Goto(t, "unwind")
    /\ UNCHANGED <<shared, private, has_garbage, state, local, loaded, held>>

(* Drop panics: the rest of a Collector's lists is lost, the rest of the   *)
(* list being dropped is collected again, and the guard is closed.         *)
DropPanics(t, o) ==
    LET c == local[t]
        lost == garbage[c].clearing \ {o}
        rest == garbage[c].dropping \ {o}
    IN
    /\ pc[t] = "drop"
    /\ o \in BeingDropped(c)
    /\ life' = [life EXCEPT ![o] = "live"]
    /\ leaked' = leaked \cup lost
    /\ garbage' = [garbage EXCEPT ![c].current = @ \cup rest,
                                  ![c].dropping = {},
                                  ![c].clearing = {}]
    /\ has_garbage' = [has_garbage EXCEPT ![c] = @ \/ rest # {}]
    /\ Goto(t, "unwind")
    /\ UNCHANGED <<shared, private, state, local, loaded, held>>

(***************************************************************************)
(* What a thread does with or without a guard.                             *)
(***************************************************************************)

(* Mutant of Collect: the flag is not set. *)
CollectUnflagged(c, i) ==
    /\ life' = [life EXCEPT ![i] = "retired"]
    /\ garbage' = [garbage EXCEPT ![c].current = @ \cup {i}]
    /\ UNCHANGED has_garbage
    /\ held' = HeldBy(Guarded, {i})

(* collect() of c puts an item into its current list. *)
Collect(c, i) ==
    /\ life' = [life EXCEPT ![i] = "retired"]
    /\ garbage' = [garbage EXCEPT ![c].current = @ \cup {i}]
    /\ has_garbage' = [has_garbage EXCEPT ![c] = TRUE]
    /\ held' = HeldBy(Guarded, {i})

(* The last reference to an object is dropped, or a closure is deferred.   *)
(* A Shared or Owned can be dropped without a guard.                       *)
Retire(t, o) ==
    /\ pc[t] \in {"idle", "drop"}
    /\ local[t] # NoCollector
    /\ life[o] = "live"
    /\ Collect(local[t], o)
    /\ UNCHANGED <<shared, private, leaked, state, local, loaded, pc>>

Accelerate(t) ==
    LET c == local[t] IN
    /\ pc[t] \in {"idle", "drop"}
    /\ InGuard(t)
    /\ next_epoch_update' = [next_epoch_update EXCEPT ![c] = 0]
    /\ UNCHANGED <<shared, announcement, num_readers, lists, state, local,
                   loaded, pc, held>>

SetHasGarbage(t) ==
    LET c == local[t] IN
    /\ pc[t] \in {"idle", "drop"}
    /\ InGuard(t)
    /\ has_garbage' = [has_garbage EXCEPT ![c] = TRUE]
    /\ UNCHANGED <<shared, private, garbage, life, leaked, state, local,
                   loaded, pc, held>>

(***************************************************************************)
(* Guard::drop().                                                          *)
(***************************************************************************)
EndNestedGuard(t) ==
    LET c == local[t] IN
    /\ pc[t] \in {"idle", "drop", "unwind"}
    /\ c # NoCollector
    /\ num_readers[c] > 1
    /\ num_readers' = [num_readers EXCEPT ![c] = @ - 1]
    /\ Goto(t, IF pc[t] = "unwind" THEN "idle" ELSE pc[t])
    /\ UNCHANGED <<shared, announcement, next_epoch_update, lists, state,
                   local, loaded, held>>

(* What closing the last guard of a thread does first on every path. *)
LastGuard(t) ==
    /\ pc[t] \in {"idle", "unwind"}
    /\ local[t] # NoCollector
    /\ num_readers[local[t]] = 1
    /\ num_readers' = [num_readers EXCEPT ![local[t]] = 0]
    /\ held' = [held EXCEPT ![t] = {}]
    /\ UNCHANGED <<epoch, chain, announcement, lists, state, local, loaded>>

(* Mutant of EndGuard: counts down without looking if there is a count left. *)
EndGuardUnchecked(t) ==
    LET c == local[t] IN
    /\ LastGuard(t)
    /\ next_epoch_update' =
            IF has_garbage[c] \/ tag = "Second"
            THEN [next_epoch_update EXCEPT ![c] = @ - 1]
            ELSE next_epoch_update
    /\ Goto(t, "unpin")
    /\ UNCHANGED <<tag, todo, pushed>>

EndGuard(t) ==
    LET c == local[t] IN
    /\ LastGuard(t)
    /\ next_epoch_update[c] > 0
    /\ next_epoch_update' =
            IF has_garbage[c] \/ tag = "Second"
            THEN [next_epoch_update EXCEPT ![c] = @ - 1]
            ELSE next_epoch_update
    /\ Goto(t, "unpin")
    /\ UNCHANGED <<tag, todo, pushed>>

(* The countdown is over, but another thread has the chain locked. *)
SkipScan(t) ==
    LET c == local[t] IN
    /\ LastGuard(t)
    /\ next_epoch_update[c] = 0
    /\ tag \in {"First", "Both"}
    /\ next_epoch_update' = [next_epoch_update EXCEPT ![c] = CADENCE]
    /\ Goto(t, "unpin")
    /\ UNCHANGED <<tag, todo, pushed>>

(* lock_chain() overwrites the tag: a mark is gone from here on. *)
StartScan(t) ==
    /\ LastGuard(t)
    /\ next_epoch_update[local[t]] = 0
    /\ tag \in {"None", "Second"}
    /\ tag' = "First"
    /\ todo' = chain
    /\ pushed' = {}
    /\ Goto(t, "scan")
    /\ UNCHANGED next_epoch_update

(* Mutant of Unpin: the announcement is left in the state byte. *)
UnpinSilently(t) ==
    /\ pc[t] = "unpin"
    /\ Goto(t, "idle")
    /\ UNCHANGED <<shared, private, lists, state, local, loaded, held>>

Unpin(t) ==
    /\ pc[t] = "unpin"
    /\ state' = [state EXCEPT ![local[t]] = INACTIVE]
    /\ Goto(t, "idle")
    /\ UNCHANGED <<shared, private, lists, local, loaded, held>>

(***************************************************************************)
(* scan(): visit the collectors that were in the chain when it was locked. *)
(* The chain is a set here, so the order of the visits is left open.       *)
(***************************************************************************)

(* No collector of the chain as it was locked is before the one visited.   *)
AtHead == chain \subseteq todo \cup pushed

(* fetch_update on chain_head fails if a collector was pushed before d.    *)
CanUnlink == AtHead => pushed = {}

(* Mutant of ScanPass: a thread active in another epoch is passed, too. *)
ScanPassAny(t, d) ==
    /\ pc[t] = "scan"
    /\ d \in todo
    /\ d = local[t] \/ state[d] # INVALID \/ ~CanUnlink
    /\ todo' = todo \ {d}
    /\ UNCHANGED <<epoch, chain, tag, pushed, private, lists, state, local,
                   loaded, pc, held>>

ScanPass(t, d) ==
    LET c == local[t] IN
    /\ pc[t] = "scan"
    /\ d \in todo
    /\ \/ d = c
       \/ state[d] \in {INACTIVE, state[c]}
       \/ state[d] = INVALID /\ ~CanUnlink
    /\ todo' = todo \ {d}
    /\ UNCHANGED <<epoch, chain, tag, pushed, private, lists, state, local,
                   loaded, pc, held>>

(* Mutant of ScanUnlink: inactive collectors are unlinked like invalid ones. *)
ScanUnlinkInactive(t, d) ==
    LET c == local[t] IN
    /\ pc[t] = "scan"
    /\ d \in todo \ {c}
    /\ state[d] \in {INACTIVE, INVALID}
    /\ CanUnlink
    /\ todo' = todo \ {d}
    /\ chain' = chain \ {d}
    /\ Collect(c, d)
    /\ UNCHANGED <<epoch, tag, pushed, private, leaked, state, local, loaded,
                   pc>>

ScanUnlink(t, d) ==
    LET c == local[t] IN
    /\ pc[t] = "scan"
    /\ d \in todo
    /\ d # c
    /\ state[d] = INVALID
    /\ CanUnlink
    /\ todo' = todo \ {d}
    /\ chain' = chain \ {d}
    /\ Collect(c, d)
    /\ UNCHANGED <<epoch, tag, pushed, private, leaked, state, local, loaded,
                   pc>>

(* Mutant of ScanStop: leaves without giving the chain lock back. *)
ScanStopLocked(t, d) ==
    LET c == local[t] IN
    /\ pc[t] = "scan"
    /\ d \in todo \ {c}
    /\ state[d] \in Epochs \ {state[c]}
    /\ todo' = {}
    /\ Goto(t, "unpin")
    /\ UNCHANGED <<epoch, chain, tag, pushed, private, lists, state, local,
                   loaded, held>>

(* A thread is active in an epoch other than the one the scanner announces. *)
ScanStop(t, d) ==
    LET c == local[t] IN
    /\ pc[t] = "scan"
    /\ d \in todo
    /\ d # c
    /\ state[d] \in Epochs \ {state[c]}
    /\ todo' = {}
    /\ Goto(t, "unlock")
    /\ UNCHANGED <<epoch, chain, tag, pushed, private, lists, state, local,
                   loaded, held>>

(* Mutant of Advance: does not wait for the end of the scan. *)
AdvanceEarly(t) ==
    /\ pc[t] = "scan"
    /\ epoch' = NextEpoch(state[local[t]])
    /\ todo' = {}
    /\ Goto(t, "unlock")
    /\ UNCHANGED <<chain, tag, pushed, private, lists, state, local, loaded,
                   held>>

Advance(t) ==
    /\ pc[t] = "scan"
    /\ todo = {}
    /\ epoch' = NextEpoch(state[local[t]])
    /\ Goto(t, "unlock")
    /\ UNCHANGED <<chain, tag, todo, pushed, private, lists, state, local,
                   loaded, held>>

UnlockChain(t) ==
    /\ pc[t] = "unlock"
    /\ tag' = IF tag = "First" THEN "None" ELSE "Second"
    /\ pushed' = {}
    /\ next_epoch_update' = [next_epoch_update EXCEPT ![local[t]] = CADENCE]
    /\ Goto(t, "unpin")
    /\ UNCHANGED <<epoch, chain, todo, announcement, num_readers, lists, state,
                   local, loaded, held>>

(***************************************************************************)
(* suspend(): the thread disowns a Collector with garbage, and marks the   *)
(* chain so that another thread scans it.                                  *)
(***************************************************************************)
Suspend(t) ==
    LET c == local[t] IN
    /\ t \in Suspenders
    /\ pc[t] = "idle"
    /\ c # NoCollector
    /\ num_readers[c] = 0
    /\ has_garbage[c]
    /\ state' = [state EXCEPT ![c] = INVALID]
    /\ local' = [local EXCEPT ![t] = NoCollector]
    /\ Goto(t, "mark")
    /\ UNCHANGED <<shared, private, lists, loaded, held>>

(* Mutant of MarkScanEnforced: the mark replaces the lock bit. *)
MarkOverLock(t) ==
    /\ pc[t] = "mark"
    /\ tag' = "Second"
    /\ Goto(t, "idle")
    /\ UNCHANGED <<epoch, chain, todo, pushed, private, lists, state, local,
                   loaded, held>>

MarkScanEnforced(t) ==
    /\ pc[t] = "mark"
    /\ tag' = CASE tag = "None" -> "Second"
                [] tag = "First" -> "Both"
                [] OTHER -> tag
    /\ Goto(t, "idle")
    /\ UNCHANGED <<epoch, chain, todo, pushed, private, lists, state, local,
                   loaded, held>>

(***************************************************************************)
(* The steps a thread takes inside the crate, and the calls of its program. *)
(***************************************************************************)
DropStep(t) ==
    \/ \E o \in Objects : DropObject(t, o)
    \/ \E d \in Collectors : DropCollector(t, d)
    \/ FinishDrop(t)

ScanStep(t) ==
    \/ \E d \in Collectors : ScanPass(t, d) \/ ScanUnlink(t, d) \/ ScanStop(t, d)
    \/ Advance(t)
    \/ UnlockChain(t)

OpenGuard(t) ==
    \/ \E c \in Collectors : Alloc(t, c)
    \/ LoadEpoch(t)
    \/ Pin(t)

CloseGuard(t) == EndGuard(t) \/ SkipScan(t) \/ StartScan(t) \/ Unpin(t)

Next ==
    \E t \in Threads :
        \/ OpenGuard(t)
        \/ NestGuard(t)
        \/ DropStep(t)
        \/ \E o \in Panicky : DropPanics(t, o)
        \/ t \in Retirers /\ \E o \in Objects : Retire(t, o)
        \/ t \in Tuners /\ (Accelerate(t) \/ SetHasGarbage(t))
        \/ EndNestedGuard(t)
        \/ CloseGuard(t)
        \/ ScanStep(t)
        \/ Suspend(t)
        \/ MarkScanEnforced(t)

Spec == Init /\ [][Next]_vars

(***************************************************************************)
(* Two assumptions on scheduling, each an action that restricts Next.      *)
(* Spec itself assumes nothing.                                            *)
(***************************************************************************)

(* No thread sets the epoch between another thread's load of the epoch and *)
(* its publication, a window of a few instructions in new_guard.           *)
PromptStep == epoch' # epoch => \A t \in Threads : pc[t] # "pin"

PromptSpec == Init /\ [][Next /\ PromptStep]_vars

(* Weaker: the epoch only moves forward, and no thread publishes an epoch  *)
(* that the rotation has since come round to (NUM_EPOCHS - 1 epochs late). *)
ForwardStep ==
    /\ epoch' \in {epoch, NextEpoch(epoch)}
    /\ \A t \in Threads :
           pc[t] = "pin" /\ pc'[t] # "pin" => loaded[t] # NextEpoch(epoch)

(* Only the steps that publish an epoch, or set it, could do otherwise:    *)
(* this is Next /\ ForwardStep (ForwardIsNext in CollectorProtection).     *)
ForwardNext ==
    \E t \in Threads :
        \/ (Pin(t) \/ Advance(t)) /\ ForwardStep
        \/ LoadEpoch(t) \/ NestGuard(t) \/ DropStep(t) \/ EndNestedGuard(t)
        \/ CloseGuard(t) \/ UnlockChain(t) \/ MarkScanEnforced(t)
        \/ \E c \in Collectors :
               Alloc(t, c) \/ ScanPass(t, c) \/ ScanUnlink(t, c) \/ ScanStop(t, c)
        \/ \E o \in Panicky : DropPanics(t, o)
        \/ t \in Retirers /\ \E o \in Objects : Retire(t, o)
        \/ t \in Tuners /\ (Accelerate(t) \/ SetHasGarbage(t))
        \/ Suspend(t)

ForwardSpec == Init /\ [][ForwardNext]_vars

(***************************************************************************)
(* Fairness: a call into the crate returns, a guard that was opened is     *)
(* dropped, and a thread that retires objects keeps opening guards, as the *)
(* tests do (while !DROPPED.load(Relaxed) { Guard::new()... }).            *)
(***************************************************************************)
CrateStep(t) ==
    Pin(t) \/ DropStep(t) \/ ScanStep(t) \/ Unpin(t) \/ MarkScanEnforced(t)

Fairness ==
    /\ \A t \in Threads :
          /\ WF_vars(CrateStep(t))
          /\ WF_vars(EndNestedGuard(t) \/ EndGuard(t) \/ SkipScan(t) \/ StartScan(t))
    /\ \A t \in Retirers : WF_vars(LoadEpoch(t))

FairSpec == Spec /\ Fairness

(***************************************************************************)
(* Properties.                                                             *)
(***************************************************************************)

(* The values each variable ranges over. *)
TypeOK ==
    /\ epoch \in Epochs
    /\ chain \subseteq Collectors
    /\ tag \in {"None", "First", "Second", "Both"}
    /\ todo \subseteq Collectors
    /\ pushed \subseteq Collectors
    /\ state \in [Collectors -> Epochs \cup {INACTIVE, INVALID}]
    /\ announcement \in [Collectors -> Epochs]
    /\ next_epoch_update \in [Collectors -> 0 .. CADENCE]
    /\ has_garbage \in [Collectors -> BOOLEAN]
    /\ num_readers \in [Collectors -> 0 .. MaxReaders]
    /\ garbage \in [Collectors -> [Lists -> SUBSET Items]]
    /\ local \in [Threads -> Collectors \cup {NoCollector}]
    /\ loaded \in [Threads -> Epochs]
    /\ pc \in [Threads -> Locations]
    /\ life \in [Items -> {"live", "retired"}]
    /\ leaked \subseteq Items
    /\ held \in [Threads -> SUBSET Items]

(* Nothing is dropped while a thread that had a guard open when it was     *)
(* retired still has that guard (guard.rs:163, collector.rs:99-105).       *)
GuardProtects ==
    \A t \in Threads : InGuard(t) => \A i \in held[t] : life[i] = "retired"

(* The global epoch only ever moves to its successor (epoch.rs:3).         *)
EpochRotates == [][epoch' # epoch => epoch' = NextEpoch(epoch)]_vars

(* A Guard keeps the global epoch from passing the value its thread has    *)
(* announced (guard.rs:11-13): it may be one ahead, never two.             *)
GuardHoldsEpoch ==
    \A t \in Threads :
        InGuard(t) => epoch \in {announcement[local[t]],
                                NextEpoch(announcement[local[t]])}

(* At most one thread scans, and the lock bit of the head is set exactly   *)
(* while one does, whatever is pushed, marked or unlinked meanwhile        *)
(* (collector.rs:353-354).                                                 *)
ScanExclusive ==
    LET scanners == {t \in Threads : pc[t] \in {"scan", "unlock"}} IN
    /\ tag \in {"First", "Both"} <=> scanners # {}
    /\ \A t, u \in scanners : t = u

ListedIn(i, c) == \E l \in Lists : i \in garbage[c][l]

(* A retired item is in exactly one list of one collector, or was leaked   *)
(* by a panic, and nothing else is: neither rotation, unlinking, dropping  *)
(* nor a panic loses an item or has it in two lists, to be freed twice.    *)
GarbageConserved ==
    /\ \A i \in Items :
          life[i] = "retired" <=>
              i \in leaked \/ \E c \in Collectors : ListedIn(i, c)
    /\ \A c \in Collectors, l \in Lists : \A i \in garbage[c][l] :
          \A d \in Collectors, m \in Lists :
              i \in garbage[d][m] => c = d /\ l = m
    /\ \A c \in Collectors : \A i \in leaked : ~ListedIn(i, c)

(* Every garbage list belongs to a thread, to a collector a scan can still *)
(* unlink, or to a collector that is itself garbage; and the flag that     *)
(* lets the owner rotate it and scan is set.                               *)
GarbageReachable ==
    \A c \in Collectors : (\E i \in Items : ListedIn(i, c)) =>
        \/ \E t \in Threads :
              /\ local[t] = c
              /\ has_garbage[c] \/ pc[t] = "drop"
        \/ c \in chain /\ state[c] = INVALID
        \/ life[c] = "retired"

(* The Collector of every thread is in the chain, so that every scan       *)
(* started from now on sees it, and is no other thread's.                  *)
ThreadsRegistered ==
    \A t \in Threads : local[t] # NoCollector =>
        /\ local[t] \in chain
        /\ state[local[t]] # INVALID
        /\ \A u \in Threads \ {t} : local[u] # local[t]

EpochMovesOn == \A e \in Epochs : []<>(epoch # e)

(* An object never leaves the lists of a Collector, since the thread opens *)
(* its guards only when the rotation has come back to the epoch that it    *)
(* announced before: epochs are told apart by equality (collector.rs:126). *)
WakesInOneEpoch(o) ==
    \E c \in Collectors, e \in Epochs :
        <>[](ListedIn(o, c) /\ announcement[c] = e)

(* What is retired is reclaimed, no matter how threads that all scan stop  *)
(* each other's scans or find the chain locked and skip their own: the     *)
(* chain lock is always given back, and the epoch never stands still while *)
(* something is retired (collector.rs:164-171, 355, 399-421).  The one     *)
(* exception is a thread that wakes up in the same epoch, again and again  *)
(* for ever, while the epoch moves on.                                     *)
EventuallyReclaimed ==
    \A o \in Objects :
        \/ []<>(life[o] = "live")
        \/ EpochMovesOn /\ WakesInOneEpoch(o)

(***************************************************************************)
(* The promise of the crate, and how the state here represents its state.  *)
(***************************************************************************)
Dealloc == INSTANCE DelayedDealloc WITH
    guarded <- Guarded,
    life <- [o \in Objects |-> life[o]],
    held <- [t \in Threads |-> held[t] \cap Objects]

(* Every step of the reclaimer retires or reclaims at most one object, or  *)
(* opens or closes a guard, as DelayedDealloc allows.                      *)
RefinesDealloc == Dealloc!AbstractSpec

=============================================================================
