# Verification of scalable-delayed-dealloc (crate `sdd`)

TLA+ modules, TLC configurations and TLAPS proofs about the epoch-based memory
reclaimer of this repository and what is built on it. Paths are relative to the
repository, which is `src/` beside this directory; line numbers are those of its commit.

## 1. The system

`sdd` delays the deallocation of shared memory until no thread can hold a
pointer into it. Every thread has a *Collector*, registered in a global chain.
A thread that opens its first `Guard` announces the global epoch it read; a
thread that closes its last one takes the announcement back and, every
`CADENCE` times, scans the chain to see if the epoch can move on. What is
retired is put in the retiring thread's own lists, which age by one place each
time that thread announces a new epoch, and is dropped after the third.

| Component (source) | State | Operations | What makes it correct |
|---|---|---|---|
| Epoch (`epoch.rs`) | a `u8` below 64 | `next`, `prev`, `next_generation`, `in_same_generation`, `TryFrom` | successors stay in the rotation; a generation is an epoch and its two successors, also across the wrap |
| Collector (`collector.rs`) | per thread: state byte, announcement, countdown, flag, nesting count, three garbage lists; global: epoch, tagged chain head | `new_guard`, `end_guard`, `collect`, `epoch_updated`, `scan`, `lock_chain`, `unlock_chain`, `pass_garbage`, `alloc`, `clear_chain`, thread exit | nothing is dropped under a guard that was open when it was retired; nothing is lost or freed twice; scans exclude each other; garbage is reclaimed at last |
| Guard (`guard.rs`, `lib.rs`) | a reference to the Collector | `new`, `drop`, `epoch`, `accelerate`, `set_has_garbage`, `defer_execute`, `suspend` | the interface of the promise above |
| Collectible, Link, DeferredClosure (`collectible.rs`) | a word that is a reference count first, a list link later | `next_ptr`, `set_next_ptr`, `Drop` | the word is never both at once |
| RefCounted, Shared, Ptr, AtomicShared | a count of `2n - 1` for `n` owners, tagged pointers | `clone`, `drop`, `get_mut`, `get_shared`, `swap`, `compare_exchange`, `update_tag_if` | retired exactly once, by the last owner; nobody revives what was retired |
| Owned, AtomicOwned | one owner | as above without counts | retired exactly once |
| LinkedList (`linked_list.rs`) | a tagged link per entry: `First` marks, `Second` deletes | `push_back`, `delete_self`, `next_ptr` | a deleted entry is unlinked, a live one is not |
| Stack, Queue | `newest`, `oldest` | `push_if`, `pop_if`, `pop_all`, `peek`, iteration | each value is popped once, in order |
| Bag, Storage (`bag.rs`) | a word of *owned* and *instance* bits, a stack of further arrays | `push`, `try_push`, `pop`, `pop_all` | each value is popped once; a slot has one user |
| Tag, ExitGuard | two low bits of a pointer; a closure run on unwinding | | |

How they interact: containers open guards, load tagged pointers under them and
drop `Shared`s; the last drop of a count calls `Collector::collect`; `collect`
lists are dropped in `epoch_updated`, which runs user `Drop` code inside
`Guard::new`, which may open guards, retire objects and panic. A terminated or
suspended thread marks its Collector invalid; a scanning thread unlinks it and
collects it like an object, whose `Drop` drops all its lists.

What is hard: all shared accesses interleave; an epoch is loaded before it is
published, and both are compared with a counter that wraps; a scan reads the
announcements one by one while Collectors are pushed, disowned and marked; the
head of the chain is pointer, lock bit and mark in one word; `Drop` re-enters
the collector and may panic; progress of reclamation depends on who closes
guards and when. `PROJECT.json` lists these hazards line by line, with the
properties that watch over them.

## 2. Modules

| Module | What it is |
|---|---|
| `Epoch` | the arithmetic of epochs |
| `DelayedDealloc` | the promise of the crate: an object retired while a thread has a guard open is not reclaimed before that thread closes its last guard. It knows of no epochs, lists or Collectors |
| `Collector` | the reclaimer, and all properties stated of it |
| `CollectorInvariants` | the inductive invariants |
| `Generations` | `Collector` with `Guard::epoch()` and a program that keeps what it returned, for `Epoch::in_same_generation` |
| `LinkedList` | the links of `LinkedEntry`, their deletion, and the walk that skips and unlinks deleted entries |
| `Queue` | the queue, on `LinkedList` |
| `Fifo` | the promise of the queue: it appends behind all others, and removes the oldest |
| `Bag`, `BagInvariants` | the bag with its slot words; its inductive invariant |
| `RefCount` | reference counts, `Shared`, `Owned`, `AtomicShared`, `AtomicOwned` and `Ptr`, on top of `DelayedDealloc`; its inductive invariant |
| `ListWalk` | the search for the next valid entry, `next_ptr_recursive`, one shared access at a time, on `LinkedList` |
| `Stack`, `StackInvariants` | the stack and its iterators, and `LinkedList::push_back`, on `ListWalk`; its inductive invariant |
| `Lifo` | the promise of the stack |
| `Links` | what a walk along links comes to, without recursion; for `Stack` and `ThreadExit` |
| `ThreadExit`, `ThreadExitInvariants` | the chain as the linked list it is, with `alloc`, unlinking, `clear_chain` and the end of a thread; its inductive invariant |
| `Adoption` | `ThreadExit` with an auxiliary variable that follows the mark of the chain: what becomes of the garbage that threads leave behind |
| `MCCollector`, `MCGenerations`, `MCQueue`, `MCBag`, `MCRefCount`, `MCStack` | instances for TLC; `Adoption` needs none |
| `CollectorStructure`, `CollectorProtection`, `CollectorPrompt`, `BagTheorems`, `RefCountTheorems`, `LinkTheorems`, `ThreadExitTheorems`, `StackTheorems` | theorems and proofs; those about `Epoch` are at the top of `CollectorStructure` |

`DelayedDealloc` is where the modules meet: `Collector` implements it, and `RefCount`
is built on it. `Queue`, `Stack` and `Bag` assume what both show, that an entry a
thread has a pointer to is not freed under its guard. `ThreadExit` takes from
`Collector` when garbage is old enough, and adds what `Collector` leaves out.

### State of `Collector`

`epoch`, `chain` and `tag` are `GLOBAL_ROOT`; `state`, `announcement`,
`next_epoch_update`, `has_garbage`, `num_readers` and `garbage` are the fields
of a Collector, and `local` is `LOCAL_COLLECTOR`. `todo`, `pushed`, `loaded`
and `pc` stand for the local variables and program counters of threads inside
`scan`, `new_guard`, `epoch_updated` and `suspend`. `life` tells what is in use
from what is retired, `leaked` is what a panic left in no list, and `held` is a
history variable: what was retired since a thread opened its guard, and which
it may therefore still reach. A thread is in a guard (`InGuard`) from the step
that publishes its epoch to the step in which it starts to close its last
guard, which is earlier than in the code (where it is `drop` of the guard that
begins then), as no user code runs after it.

Every action is one access to shared memory with the thread-local work around
it. `new_guard` is `LoadEpoch` (line 92), then `Pin` (111-133: publish, and
`epoch_updated` up to its loop). The loop itself is `DropObject`,
`DropCollector`, `FinishDrop` and `DropPanics`, and between its steps the user's
`Drop` code may retire and nest guards. `end_guard` is one of `EndGuard`,
`SkipScan` and `StartScan`, then the steps of the scan, then `Unpin`. `scan`
visits the Collectors in any order, one state load per step; `suspend` is
`Suspend` and `MarkScanEnforced`.

Abstractions. A garbage list is a set: order within a list has no effect but
the order of drops, which is left open. The chain is a set, and `AtHead` says
whether the Collector a scan visits may be the head, which decides whether
unlinking it is a compare-and-swap that fails when another one was pushed. A
reclaimed address is `"live"` again: it can be allocated anew at once, which is
what would make a premature reclamation visible. `INACTIVE` and `INVALID` are
flag bits in the code; an inactive or invalid Collector's epoch bits are never
read, so they are values of their own here.

### State of `Queue` and `Bag`

In both, as in `Collector`, an action is one access to shared memory with the
thread-local work around it, and `pc` says which comes next.

`oldest` and `newest` of `Queue` are the fields of the same name; `next` and
`deleted` of `LinkedList` are the pointer and the tag of an entry's link. A
`push_if_internal` is `LoadNewest`, `LoadOldest`, a number of `Traverse`, `Link` or
`LinkFails`, then `Publish`, `Recheck` and perhaps `Retract`; a `pop_if` is
`LoadFirst`, `Take` or `TakeFails`, and `cleanup_oldest` (`CleanLoad`, `NextShared`,
`UnlinkOldest` or `UnlinkFails`, `ResetNewest`). A condition given to `push_if` or
`pop_if` may hold or not. `Delete`, of `DeletingSpec` only, is a program that deletes an entry itself.

Two things are abstracted. `next_ptr` is one step: the entries it skips stay
deleted and can have nothing appended to them, so what it returns was the next
entry at the last link it read, or when it replaced its own link. And strong
counts are left out: `get_shared` fails only for entries that were unlinked, and
its callers go on then as they do for a deleted entry.

`instance` and `owned` of `Bag` are the two halves of a storage's word, `storage`
its memory, where a value that was read is no longer. `stack` is the sequence of the
entries of the stack that are not deleted, as nobody returns any other. `at`,
`slots` and `vals` say which slots of which array a thread owns, and which
values it has in hand. `contents` and `emptied` are history variables, for
`NothingLost` and `PopFindsAny`.

### State of `RefCount`

`at` says which object each *place* owns: a handle of a program (a `Shared` or an
`Owned`), a cell (an `AtomicShared` or an `AtomicOwned`), or the cell in an object.
`kind` is how an object was made, `word` its first word: `2n - 1` for `n` owners, and
a link of a garbage list once it is retired. `ptrs` are the `Ptr`s of a thread, under
its guard; `dying` is what a thread has dropped the last reference to and not yet
passed to the collector; `borrowed` are the handles with a mutable borrow of their
object. Retirement and reclamation are the actions of `DelayedDealloc`.

Any thread may use any handle. `get_shared` is a load, then `AddRef`, which fails when
the count has reached zero meanwhile. The drop of an object drops the cell in it, so
that chains of objects go one after the other. Of an unsafe function the model takes
the documented precondition: `get_mut` is called while no `Ptr` to the object is
around. Tags are left out, which makes a compare-and-swap fail where pointers agree
and tags do not; so it may fail at any time, as a weak one may anyway.

### State of `ListWalk` and `Stack`

A search is a sequence of *frames* (`walk`): the entry it starts from, its link as
last read, the entry it looks at, and how many searches may still be nested in it.
Where it meets a deleted entry it nests a search from there, up to `Depth` times
(64 in the code), and then follows the links in a loop. When it has found the next
valid entry, it takes an owning pointer to it (`AcquireValid`, or `AcquireFails`) and
replaces its own link (`SwingLink`, `SwingFails`).

An owning pointer can be had (`GetShared`) of an entry that was not *released*, and can
fail to be had (`GetNone`) of one that nothing in use owns: the program may hold a
`Shared` of such an entry, or not. Once the count was found to be zero it stays so, and
`released` remembers that.

What is in a stack is what a walk from `newest` comes to that is not deleted
(`Contents`, by `Reach` of `Links`).

`newest` is the head of each stack, `call` the operation a thread runs. A push is
`FindNext` to `ReplaceNewest` (`cleanup_newest`), a verdict of its condition, then
`AttachEntry`; a pop is the same with `TakeNewest`; iteration is `StartVisits`, `Visit`,
`EndVisits`; `pop_all` is one swap; the drop of a stack and of an entry follows the
links as the code does. A program may also delete an entry it has found, ask for the
one behind it, or push another back behind it (`JoinNext`, `InsertEntry`,
`InsertFails`). An entry is pushed once: threads keep a guard open during an operation,
so that no address is used again that they have a pointer to. `seen` is a history
variable, the answers that would be right for a call.

### State of `ThreadExit`

`head`, `tag` and `next_link` are the chain, `state` is a Collector's, with `"free"` for
memory that was given back; an address that was freed can be allocated at once.
`local` is `LOCAL_COLLECTOR`, and is the thread's own name while it uses its temporary
Collector. `garbage` is a set for each Collector, as epochs are left out: a thread may
drop, in a new epoch, what no thread with a Collector in the chain has held a guard
open since before its retirement (`Aged`). That is what `Collector` establishes,
except that garbage here need not wait for exactly three epochs. `MaxMade` bounds the
Collectors one thread makes, so that a thread that suspends does so once.

`Exit` is the start of `CollectorAnchor::drop`; `LockForClear`, `CheckInvalid`,
`TakeChain` and `FreeCollector` are `clear_chain`; `ClearTemporary` is `clear_for_drop`
of the temporary Collector, which destructors that run in it may fill again. A
destructor that closes a guard there may scan, and the thread goes on dropping when
the scan is over (`Drops`).

### The abstract specifications

`RefinesDealloc` says that `Collector` implements `DelayedDealloc` with
`guarded` mapped to the threads in a guard, and `life` and `held` restricted to
objects. An object may be reclaimed there only if no thread holds it.

`RefinesFifo` says that `Queue` implements `Fifo` with `items` mapped to the
entries that are reached from `oldest` and not deleted, so that a push takes
effect when it links its entry and a pop when it tags one.

`RefinesLifo` says the same of `Stack` and `Lifo`, with `items` mapped to the entries
of each stack that are not deleted, in the order of the links, and `removed` to the
deleted ones. `Lifo` lets an entry leave from below the top, as `pop` may delete one
that was the newest when it looked; `TakesNewest` is what is left of last-in-first-out
in the presence of other threads.

## 3. Findings

Four runs look for, and find, a violation of what the repository says.

1. `stale_protect` (`GuardProtects`). `scan` stores the successor of the scanner's
   *own* announcement (`collector.rs:359`, `419`). A thread that loaded the
   epoch (line 92), and was overtaken by epoch updates before it published it,
   and then scans, sets the global epoch back (`EpochRotates` is violated too).
   This needs no scan to have gone wrong: while the thread was between the two
   lines its state was inactive. With the epoch set back, a guard can be *ahead*
   of the global epoch, where a scan that passed it before it announced lets the
   epoch come round to its announcement and move on; then the garbage retired
   under that guard ages once too often and is dropped under it. The trace keeps
   to epochs 0 to 4 of 8 (`BeforeWrap`), so that it is not an effect of a short
   rotation. It takes a thread that is delayed, between two adjacent
   instructions, for as long as others take to move the epoch on twice. The
   program of the trace calls `accelerate()`.
2. `queue_empty` (`IsEmptyIsTrue`). The pop that takes the last entry sets `oldest`
   to null, and then `newest` (`queue.rs:452`, `461`). A push between the two links
   its entry, sets `newest`, finds `oldest` set and returns; `newest` is then reset.
   `is_empty`, which looks at `newest` only, is true of a queue with an entry, with
   no operation under way.
3. `queue_spin` (`PushAndPopReturn`). A push that cannot append to the last entry as
   that is deleted looks for the tag `First` (`queue.rs:425`) where deletion has set
   `Second` (`linked_list.rs:164`), and so starts from `oldest` again instead of
   cleaning up. If it was `pop` that deleted the entry, the popper cleans up; if it
   was the program, with `delete_self` of the public trait, the push spins for
   ever, with one thread.
4. `bag_none` (`PopFindsAny`). `pop` looks at the topmost array of the stack and at
   the primary one. While another thread takes the last value out of the topmost,
   it returns `None` although the array below has had values all along.

Four more observations have no run of their own.

* *Thread exit.* `ClearsUnderNoGuard` has two exceptions, and fails without either. A
  destructor that runs while a thread's end clears the chain may retire an object
  into the temporary Collector, and `clear_for_drop` drops that at once
  (`collector.rs:551`), though another thread that has registered meanwhile holds a
  guard from before. And a guard that a destructor opens on the temporary Collector
  is in no chain, so that no scan sees it (line 545). `guard.rs:163` says of every
  guard that is open that a closure runs after it.
* *The mark.* `lock_chain` replaces the mark by the lock (`collector.rs:477`). If a
  scan then stops early, or cannot unlink the disowned head as another Collector
  was pushed before it (line 375), the mark is gone, and the garbage of the thread
  that suspended stays until somebody scans for another reason. `Adoption` follows
  the mark from hand to hand (`mark`), and `ReclaimedAfterExit` has this as its one
  exception; without it TLC finds a behaviour in which a worker that has come back
  takes the mark with a scan that a guard stops.
* *Stack.* `push_if` may succeed on top of an entry that was deleted since its
  condition saw it. `pop_all` may take a deleted entry along as the newest. A pop that
  has found its entry may delete it after `pop_all` has moved it to another stack.
* *Conditions.* `update_tag_if` of `AtomicShared` and `AtomicOwned` hands its condition
  a `Ptr` although no guard is asked for.

Because of 1 the protection properties are checked and proved under a
stated assumption on scheduling, each an action that restricts `Next`:

* `ForwardStep`: the epoch only moves forward, and no thread publishes an
  epoch that the rotation has since come round to. It is what the argument at
  `collector.rs:97-105` takes for granted.
  `ForwardNext` is `Next` with this conjunct at the two steps that publish or set an
  epoch; `ForwardIsNext` proves that it makes no difference.
* `PromptStep`: no epoch update falls between a thread's load of the epoch and
  its publication, i.e. lines 92 to 124 are never overtaken. It restricts only
  timing, not results, and `PromptForward` proves that it implies `ForwardStep`.

Everything about structure (locks, lists, reachability) needs neither.

## 4. Runs

The runs of `Collector` use a `SYMMETRY` on Collectors, which are interchangeable
addresses, and on objects, all of which may panic or none; `bag` and `bag_none` one on
threads, values and arrays; `counts` one on threads, objects and handles. Runs with
liveness, `stack` and the runs of `Queue` use none. Deadlock is checked except in `refine` and `exit`: there, a thread suspends until each of the finitely many
Collectors is disowned, or has made the Collectors it may, or has exited.

| Run | Specification, bounds | Shows |
|---|---|---|
| `refine` | `ForwardSpec`; 2 threads, one of which retires and suspends and the other accelerates, 2 Collectors, 2 objects that may both panic, 2 nested guards | `RefinesDealloc` and `GuardProtects`; `ScanExclusive`, `GarbageConserved`, `GarbageReachable`, `ThreadsRegistered`: what a panic leaves behind is listed, flagged or leaked, never lost silently; the invariant of the proofs, `IInv`. The four structural ones are proved without the restriction to `ForwardSpec` |
| `reclaim` | `FairSpec`; 2 threads that both retire and accelerate, 1 object, `CADENCE` 2 | `EventuallyReclaimed`: both scan, stop each other's scans, and find the chain locked with garbage in their lists; `TypeOK` |
| `generations` | `GenerationSpec`, which restricts timing as `PromptSpec` does; 3 threads, 2 retirers, rotation of 5 | `SameGenerationIfHeld`, and `GenerationInv`, the invariant of its proof; `GuardHoldsEpoch`: a reader, a scanner and a retirer whose lists age are three different threads |
| `fifo` | `FairSpec` of `Queue`; 2 threads, 3 entries | `RefinesFifo`: two pops or a push and a pop race; `PushAndPopReturn`, as long as only `pop` deletes |
| `bag` | `Spec` of `Bag`; 3 threads, 4 values, 3 arrays of 2 slots beside the primary one | `NothingLost`, `SlotsHaveOneOwner` and the invariant of the proofs, `IInv`: a push, a pop and a `pop_all` on one array. Four values: two fill the primary array, two are a push and a pop in the stack |
| `counts` | `Spec` of `RefCount`; 2 threads, 3 objects, 2 handles, one shared and one owned cell | `NoDangling`, `CountsOwners`, `RetiredOnce`, `MutExclusive`, `NeverRevived` and the invariant of the proofs, `IInv`. Three objects make a chain of two below one; the one link is an even word |
| `stack` | `FairSpec` of `Stack`; 2 threads, 3 entries, 2 stacks, `Depth` 1; one thread pushes and deletes and pushes back what it finds, the other pops, peeks, iterates, clones, drains and drops | `RefinesLifo`, `TakesNewest`, `VisitsAll`, `OperationsReturn` and the invariant of the proofs, `IInv`. Three entries are the least in which a search nests and still has one to come to |
| `exit` | `AdoptionSpec`; 2 threads that both suspend, one of which retires, accelerates and may exit, while the other only goes on with guards; 4 Collectors, at most 2 of one thread; 2 objects, one of which is retired by the `Drop` of the other | `ChainSound`, `GarbageKept`, `ClearsUnderNoGuard`, `ReclaimedAfterExit`, and the invariant of the proofs, `IInv`. The thread that goes on has no garbage before it adopts some, so that it scans only if the mark is set, and not lost |
| `stale_protect`, `queue_empty`, `queue_spin`, `bag_none` | | section 3 |

Bounds. `NUM_EPOCHS` is 4 or 5 instead of 64: an epoch, its successor, the one
after and the one before must differ (4), and 5 keeps the next generation apart
from the previous epoch as well; a smaller rotation only adds behaviours in which
old and new coincide, and the theorems hold for every number from 4 on.
`CADENCE` 1 makes every second quiescent state a scan; 2 is used where skipping
matters. `MaxReaders` is 1 where nesting plays no role. `Depth` of `Stack` is 1: one
nested search and, inside of it, the loop that replaces nesting at the limit.
Retirement is repeated for ever: addresses are reused, so one or two objects are
enough.

Fairness (`reclaim`). A call into the crate returns (its steps have no wait
other than retries), a guard that was opened is dropped, and a thread that
retires objects keeps opening guards, as the tests do (`while !DROPPED.load(..)
{ .. Guard::new() .. }`, `src/tests/unit_tests.rs`). Nothing is assumed of when guards
are opened, of the order of scans, or of who gets the chain lock.
`EventuallyReclaimed` has one exception, and fails without it: a thread that opens
its guards, for ever, just when the rotation has come back to the epoch it announced
before, never sees a new one, and its lists do not age. The code accepts that (it
compares for inequality with a wrapping counter), and with 64 epochs it takes an
unlikely rhythm rather than a bug. The property still says that the epoch itself moves
on in that case, and that nothing else keeps garbage for ever.

Fairness (`fifo`, `stack`). A thread inside an operation keeps taking its steps. It
need not start one, and its conditions need not be met. An entry is pushed once, so
`PushAndPopReturn` and `OperationsReturn` do not say that a thread makes progress
against others that push and pop without end, which a lock-free container need not
promise, but that it is never left with a state in which it waits for a thread that
has returned.

Fairness (`exit`). Calls return and guards are dropped. A worker with garbage suspends or
exits (`Leave`), as threads of the tests do, and owes nothing more: it may come back, or
not. The others keep opening guards; if one again and again closes a guard while it has
garbage or the chain is marked, and the chain is not locked, it scans at some time, and
epochs pass, which is what `reclaim` shows in more detail. The code justifies this by the
countdown (`collector.rs:164-171`), which then falls with every guard and is only set
back by a new epoch or a scan. Both come from scans by the thread itself once the workers
have come to rest, and `ReclaimedAfterExit` is claimed under that condition
(`AtRest`). Whether the countdown is over at the end of one guard is left open in
`ThreadExit`, except after `accelerate()`: it counts, and may have counted before the
mark or the garbage was gone.

Mutants. Beside some actions stands a *mutant*: the action with a plausible bug.
They are used by no specification. Each property of a passing run was seen to
fail when the action is replaced by its mutant.

## 5. Proofs

`tlapm` checks all theorems, for every number of threads, Collectors, objects,
epochs (at least 4), cadence and nesting bound, and any choice of which threads
retire, suspend or tune and which objects panic (`EpochAssumption`,
`CollectorAssumption`; nothing is assumed finite).

*Epochs* (`CollectorStructure`): `EpochSuccession`, `EpochInverse`, `TryFromReduces`, and
`GenerationBoundary`, that `in_same_generation` is right at the wrap, too.

*Structure, under `Spec`* (`CollectorStructure`): `TypeCorrect`, `ScansExclude`,
`ThreadsStayRegistered`, `GarbageNeverLost`, `GarbageStaysReachable`.

*Protection, under `ForwardSpec`* (`CollectorProtection`):
`ForwardInvariant` (`IInv`), `ForwardProtects` (`GuardProtects`), `ForwardRefines`
(`RefinesDealloc`).

*Under `PromptSpec`* (`CollectorPrompt`): `PromptForward`, `PromptRotates`
(`EpochRotates`, which no run checks), `PromptHolds` (`GuardHoldsEpoch`),
`PromptProtects`; and, under `GenerationSpec`, `GenerationInvariant` (`GenerationInv`) and
`GenerationHolds` (`SameGenerationIfHeld`).

The invariant has three layers, each proved with the help of the ones before.

1. `ControlInv`: what a thread does (`pc`) agrees with its Collector's fields;
   the lock bit is set exactly while one thread scans. `GuardProtects` alone is
   far from inductive, as it says nothing of who may scan.
2. `GarbageInv`: an item is in at most one list of one Collector; nothing in the
   chain is garbage; flags are set where lists are not empty. Needed because an
   item's age is a place in *one* list.
3. `ProtectInv`: how old an item held by a guard can be. While `r` holds an item,
   the epoch can move to its successor only if `r` announces the present epoch, or
   a scan that announces it has already gone past `r` (`CanAdvance`), and this
   can happen once. So an item `r` holds is in `previous` only if its owner has
   announced the present epoch or the epoch can no longer move (`HeldAge`), in
   `next` only if both, and never in the list being dropped. `HeldAgeLoaded` says
   the same for an epoch that was loaded and not published yet, the window at
   line 92. `HeldWithCollector` covers a disowned Collector: what it holds is no
   older than itself.

For `RefinesDealloc`, each action is shown to be `Enter`, `Exit`, `RetireObject`,
`Reclaim` or a stutter; `Reclaim` is where `IInv` is used.

Under `PromptStep`, `PromptInv` places the epoch at every announcement or one
after it, which gives `ForwardStep` and with it the rest.

For generations, `WitnessAge` says that the epoch a guard witnessed is the one its
thread announces, or the next one if the global epoch has got there; `RetiredAge`, that
the announcement of a thread that holds an object is no more than one epoch away from
the one its retirer witnessed. As the global epoch is at most one ahead of any
announcement (`GuardHoldsEpoch`), it is at most two ahead of the retirer's, which is
what `in_same_generation` allows for (`GenerationBoundary`). `WitnessAge` uses that two
epochs after an epoch is another epoch, so the argument needs no bound on how often the
rotation wraps.

*The bag, under its `Spec`* (`BagTheorems`), for every number of threads, values,
arrays and slots (`BagAssumption`): `OwnersExclude` (`SlotsHaveOneOwner`) and
`ValuesKept` (`NothingLost`). The invariant has three layers again. `ControlInv` says
what a thread has in hand where. `SlotsHaveOneOwner` is the second, and inductive with
the first. The third says that a value is in one hand or one slot (`HandsApart`,
`Filled`), that a pusher's slot has its value (`Written`), and that no array is out of
reach with values in it (`InReach`): an array that is deleted, or about to be, has no
value that can be popped, and a push only adds to those that have one.

*Reference counts, under `Spec` of `RefCount`* (`RefCountTheorems`), for every set of
threads, every finite number of places and any links that are even
(`RefCountAssumption`): `Invariance` (`IInv`), and from it `NothingDangles`
(`NoDangling`), `CountsRight` (`CountsOwners`), `OnceRetired` (`RetiredOnce`),
`BorrowExclusive` (`MutExclusive`) and `NoneRevived` (`NeverRevived`). The properties
are not inductive without three more conjuncts: `EvenWithoutOwner`, that the word of an
object nobody owns is even, so that `try_add_ref` fails; `PtrsHeld`, that a `Ptr` to a
retired object is one `DelayedDealloc` must respect; and `FreeIsBare`. That a count is
the number of owners is carried by the cardinalities of `FiniteSetTheorems`: each
operation adds, removes or exchanges one owner of an object.

*The end of threads, under `Spec` of `ThreadExit`* (`ThreadExitTheorems`), for every
number of threads, Collectors and objects, and any choice of who retires, suspends,
exits and tunes (`ThreadExitAssumption`): `Invariant` (`IInv`), `ChainStaysSound`
(`ChainSound`), `GarbageIsKept` (`GarbageKept`) and `ClearsNothingGuarded`
(`ClearsUnderNoGuard`). What is in the chain is not defined by recursion, on which
nothing could be proved, but as the least set that has the head and is closed under
links (`Reach` of `Links`). `LinkTheorems` has what follows of it without induction:
how a push, an unlinking and a step of a cursor change the set (`ReachPush`,
`ReachUnlink`, `ReachTail`), that a node of a chain without cycles follows one other
only (`OnePredecessor`), and that of two nodes in reach one is reached from the other
(`ReachTotal`). The invariant has three layers, each of which needs the others.

1. `ControlInv`: what a thread does agrees with the Collector it uses (`LocalAgrees`)
   and with its guards (`GuardAgrees`); the chain is locked exactly while one thread
   scans or clears it (`LockExcludes`).
2. `ChainInv`: the chain, the Collectors that are being pushed and those that
   `clear_chain` has taken are apart. `CheckOK` is the heart of it: what `clear_chain`
   has gone past is disowned, and stays in the chain as long as the chain is locked;
   so, if the head is still the one it started from, all of the chain is disowned, and
   no thread has a Collector in it. A push in between changes the head, though not the
   lock, and makes it fail.
3. `GarbageInv`: an item is in one place (`Listed`), an object in one exactly when it
   is retired (`RetiredOK`), who holds what is in the lists of a disowned Collector
   holds the Collector (`HeldWith`), and no thread with a Collector in the chain holds
   what is dropped under a guard or with the chain (`Unheld`).

The proof found that `ThreadExit` had let a thread go on dropping objects in the middle
of a scan of its own, which the code cannot do; the guard `Drops` says when it can.

*The stack, under `Spec` of `Stack`* (`StackTheorems`), for every number of threads,
stacks and entries, any depth of nested searches, and any choice of what threads do
(`EntriesAssumption`, `DepthAssumption`, `StacksAssumption`): `StackInvariant` (`IInv`),
`IteratorsVisitAll` (`VisitsAll`) and `EndsTakeNewest` (`TakesNewest`). Its two
difficulties are that one would like to argue by induction along links, and that a search
holds pointers, frame upon frame, into lists that have changed since. The layers of the
invariant are these.

1. `ControlInv`: what a thread has in its hands at each place, and that nobody else uses
   a stack that is dropped.
2. `OwnerInv`: an entry in no stack and not deleted is known to nobody but the thread that
   is to push it (`FreshUnknown`, `HandsFresh`); one whose count is zero has no owner, so
   that it is never linked again (`ReleasedUnowned`); one that is reclaimed is known to
   nobody else (`ReclaimedUnknown`). This is what makes an entry's own link safe to set.
3. `OrderInv` takes the place of the induction: there is *some* strict order in which every
   link leads on, and every link a search is about to set. So links have no cycles, and
   unlinking an entry that a search has skipped cannot make one. A push puts its entry
   below all others in the order, `push_back` between two neighbours.
4. `SearchInv`: what a search has skipped is deleted. What it looks at leads to the same
   entries as the link it has read, and a deleted entry leads to what its link leads to,
   now as when it was read, as a deleted entry takes no new ones behind it. Frames say
   this of their links one by one, and a nested frame starts at the entry the outer one
   looks at, which is deleted.
5. `CallInv`: what an iterator has left is ahead of it (`VisitsAhead`), what a push or a
   pop has read was the newest entry at some time since it began (`SawNewest`), and a new entry is
   linked to what the compare-and-swap expects, unless that was released, when it fails
   (`LinksOn`).

`LinkTheorems` again has what follows of `Reach`: how the entries that are reached and not
deleted change when one is linked in (`ReachInsert`), when a link goes past deleted ones
(`ReachSwing`), and when the link of one changes that is not reached (`ReachUnknown`);
and that what is reached comes later in any order the links keep to (`ReachOrder`).

Only model-checked: `EventuallyReclaimed`, `OperationsReturn`, `PushAndPopReturn` and
`ReclaimedAfterExit` (liveness under fairness is beyond the prover); `RefinesFifo` and
`RefinesLifo` (they map links to sequences by a recursive function; induction over them is beyond the
prover). What `RefinesLifo` says of the newest entry is proved as `TakesNewest`; that the
entries below it keep their places is not.

## 6. Not modelled

* Memory order. The models are sequentially consistent; the relaxed accesses and
  the two `SeqCst` fences around them are the subject of the repository's loom
  tests (`src/tests/models.rs`).
* Epochs in `ThreadExit`, which takes from `Collector` when garbage may be dropped; and a
  `Drop` that panics there.
* The tags of user pointers, with `update_tag_if`, and the
  mark of a list entry (`First`), which deletion and search carry along and do not test.
* Of `Queue`, iteration, `clone` and `drop`; of `Bag`, `len`, `is_empty`, the iterators
  (which need `&mut`), `drop`, and a closure of `pop_all` that panics.
* Tests, benchmarks and examples, which keep no state of their own.

## 7. Plan

In the order of importance; the first thirteen are done.

1. `Epoch`, `DelayedDealloc`, `Collector`: structure, protection, reclamation.
2. `CollectorInvariants` and the proofs of structure, protection, refinement.
3. `Generations`.
4. The scheduling assumptions and the findings about them.
5. `LinkedList` and `Queue`, with refinement of `Fifo`.
6. `Bag`, with the proofs that values are kept and slots have one owner.
7. `RefCount` on `DelayedDealloc`, with `Owned` and `AtomicOwned`: an object is retired
   once, by its last owner; the proofs that a count is the number of owners, and that
   what is retired stays so.
8. `ThreadExit`: the exact chain with its head word, `alloc`, unlinking, the temporary
   Collector and `clear_chain`, and the loss of the mark.
9. `ListWalk`, `push_back`, and `Stack` with refinement of `Lifo`.
10. `Adoption`: adoption of the garbage of suspended threads as liveness, up to a lost mark.
11. The proof of `SameGenerationIfHeld`.
12. `Links`, and the proofs of `ChainSound`, `GarbageKept` and `ClearsUnderNoGuard`.
13. The proofs of `VisitsAll` and `TakesNewest` of `Stack`, in terms of reach.
14. The marks of `LinkedList`, and tags of pointers with `update_tag_if`.
15. `Queue` on `ListWalk`, with iteration, `clone` and `drop`; `drop` of `Bag`.
16. A variant of `LoadEpoch` with a relaxed, possibly stale, load.
