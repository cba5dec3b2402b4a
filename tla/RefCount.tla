------------------------------ MODULE RefCount ------------------------------
(***************************************************************************)
(* Reference counts and the pointers built on them: RefCounted, Shared,    *)
(* Owned, AtomicShared, AtomicOwned and Ptr, on top of what the reclaimer  *)
(* promises (DelayedDealloc).                                              *)
(*                                                                         *)
(* A place owns the object it points to: a Shared or an Owned of a program *)
(* (Handles), an AtomicShared or AtomicOwned that threads share, or the    *)
(* AtomicShared inside of an object, which is named by the object.  Any    *)
(* thread may use any handle, as both are Send.  A Ptr does not own.       *)
(*                                                                         *)
(* The word of an object is its reference count, 2n - 1 for n owners, and  *)
(* from its retirement on the address part of a link in a garbage list.    *)
(* Tags are left out: they make a compare-and-swap fail whose pointers are *)
(* equal, as does a weak one, so it may fail at any time here.             *)
(***************************************************************************)
EXTENDS DelayedDealloc, FiniteSets

CONSTANTS
    Handles, SharedCells, OwnedCells,
    Links,  \* addresses of objects, as words: they are aligned
    Null

Cells == SharedCells \cup OwnedCells
Places == Handles \cup Cells \cup Objects

ASSUME RefCountAssumption ==
    /\ IsFiniteSet(Places)
    /\ Null \notin Objects
    /\ Handles \cap (Cells \cup Objects) = {}
    /\ SharedCells \cap OwnedCells = {}
    /\ Cells \cap Objects = {}
    /\ Links \subseteq {n \in Nat : n % 2 = 0}

VARIABLES
    at,        \* the object a place owns
    kind,      \* was an object made to be shared, or for one owner?
    word,      \* its count or link
    ptrs,      \* what a thread holds a Ptr to, under its guard
    dying,     \* what a thread has dropped the last reference to
    borrowed   \* handles with a mutable reference to their object

vars == <<avars, at, kind, word, ptrs, dying, borrowed>>

Pointers == Objects \cup {Null}

Owners(o) == {p \in Places : at[p] = o}

TypeOK ==
    /\ guarded \subseteq Threads
    /\ life \in [Objects -> {"live", "retired"}]
    /\ held \in [Threads -> SUBSET Objects]
    /\ at \in [Places -> Pointers]
    /\ kind \in [Objects -> {"free", "shared", "unique"}]
    /\ word \in [Objects -> Nat]
    /\ ptrs \in [Threads -> SUBSET Objects]
    /\ dying \in [Threads -> Pointers]
    /\ borrowed \subseteq Handles

Init ==
    /\ AbstractInit
    /\ at = [p \in Places |-> Null]
    /\ kind = [o \in Objects |-> "free"]
    /\ word = [o \in Objects |-> 0]
    /\ ptrs = [t \in Threads |-> {}]
    /\ dying = [t \in Threads |-> Null]
    /\ borrowed = {}

(* A thread that dropped a last reference goes on to collect the object. *)
Running(t) == dying[t] = Null

(* A handle that can be used: a mutable borrow keeps all others away. *)
Usable(h, o) == at[h] = o /\ h \notin borrowed

(* Can t come to place p?  To one in an object, through a Ptr or an owner. *)
Reaches(t, p) ==
    \/ p \in Cells \cup ptrs[t]
    \/ p \in Objects /\ \E h \in Handles : at[h] = p

IsShared(h) == at[h] # Null /\ kind[at[h]] = "shared"

IsOwned(h) == at[h] # Null /\ kind[at[h]] = "unique"

(* The types of Rust: an AtomicOwned takes an Owned, all others a Shared. *)
Fits(p, o) == o # Null => (kind[o] = "unique") = (p \in OwnedCells)

(* A guarded thread gets a Ptr, which may be null. *)
GetPtr(t, p) == ptrs' = [ptrs EXCEPT ![t] = @ \cup ({p} \ {Null})]

(***************************************************************************)
(* RefCounted: the count                                                   *)
(***************************************************************************)

(* Mutant of Countable: the lowest bit is not looked at. *)
CountableAlways(o) == TRUE

(* try_add_ref() looks at the lowest bit: no link and no zero has it. *)
Countable(o) == word[o] % 2 = 1

(* Mutant of SoleOwner: the count includes another owner. *)
SoleOwnerOrTwo(o) == word[o] <= 3

(* get_mut_shared() *)
SoleOwner(o) == word[o] = 1

AddRef(o) == word' = [word EXCEPT ![o] = @ + 2]

(* Mutant of Decremented: it wraps round, here in a word of eight bits. *)
DecrementedWrapping(n) == (n + 254) % 256

Decremented(n) == IF n < 2 THEN 0 ELSE n - 2

(* Mutant of LastRef: the count is read again after it was decremented. *)
LastRefReread(n) == Decremented(n) <= 1

LastRef(n) == n = 1

(* Shared::drop() and Owned::drop() up to pass_to_collector(), by t, of a  *)
(* reference to o; w is the memory this leaves otherwise.                  *)
DropRef(t, o, w) ==
    /\ word' = [x \in Objects |->
                   IF x = o /\ kind[x] = "shared" THEN Decremented(w[x]) ELSE w[x]]
    /\ dying' = IF o # Null /\ (kind[o] = "unique" \/ LastRef(w[o]))
                THEN [dying EXCEPT ![t] = o]
                ELSE dying

(***************************************************************************)
(* Shared and Owned                                                        *)
(***************************************************************************)
New(h, o, k) ==
    /\ kind[o] = "free"
    /\ at[h] = Null
    /\ at' = [at EXCEPT ![h] = o]
    /\ kind' = [kind EXCEPT ![o] = k]
    /\ word' = [word EXCEPT ![o] = IF k = "shared" THEN 1 ELSE 0]
    /\ UNCHANGED <<avars, ptrs, dying, borrowed>>

NewShared(h, o) == New(h, o, "shared")

NewOwned(h, o) == New(h, o, "unique")

CloneShared(h, g) ==
    /\ IsShared(h) /\ Usable(h, at[h])
    /\ at[g] = Null
    /\ at' = [at EXCEPT ![g] = at[h]]
    /\ AddRef(at[h])
    /\ UNCHANGED <<avars, kind, ptrs, dying, borrowed>>

GetGuardedPtr(t, h) ==
    /\ t \in guarded
    /\ Running(t)
    /\ Usable(h, at[h])
    /\ GetPtr(t, at[h])
    /\ UNCHANGED <<avars, at, kind, word, dying, borrowed>>

GetGuardedPtrShared(t, h) == IsShared(h) /\ GetGuardedPtr(t, h)

GetGuardedPtrOwned(t, h) == IsOwned(h) /\ GetGuardedPtr(t, h)

(* get_mut(), unsafe: its caller must know that nobody has a Ptr. *)
GetMut(h) ==
    /\ Usable(h, at[h])
    /\ \A t \in Threads : at[h] \notin ptrs[t]
    /\ borrowed' = borrowed \cup {h}
    /\ UNCHANGED <<avars, at, kind, word, ptrs, dying>>

GetMutShared(h) == IsShared(h) /\ SoleOwner(at[h]) /\ GetMut(h)

GetMutOwned(h) == IsOwned(h) /\ GetMut(h)

EndMut(h) ==
    /\ h \in borrowed
    /\ borrowed' = borrowed \ {h}
    /\ UNCHANGED <<avars, at, kind, word, ptrs, dying>>

(* p is dropped, by a thread with the only reference to it. *)
Drop(t, p) ==
    /\ Running(t)
    /\ at[p] # Null /\ p \notin borrowed
    /\ at' = [at EXCEPT ![p] = Null]
    /\ DropRef(t, at[p], word)
    /\ UNCHANGED <<avars, kind, ptrs, borrowed>>

(* Also release(), which returns whether this was the last reference. *)
DropShared(t, h) == IsShared(h) /\ Drop(t, h)

DropOwned(t, h) == IsOwned(h) /\ Drop(t, h)

(* The memory of o is freed by t, which drops what it has in it. *)
Free(t, o, places) ==
    /\ kind' = [kind EXCEPT ![o] = "free"]
    /\ at' = [p \in Places |-> IF p \in places \cup {o} THEN Null ELSE at[p]]
    /\ DropRef(t, at[o], [word EXCEPT ![o] = 0])

(* drop_in_place(), unsafe as well. *)
DropInPlace(t, h) ==
    /\ Running(t)
    /\ Usable(h, at[h])
    /\ \A u \in Threads : at[h] \notin ptrs[u]
    /\ Free(t, at[h], {h})
    /\ UNCHANGED <<avars, ptrs, borrowed>>

(* That of the last owner: of another, it does what Drop does. *)
DropInPlaceShared(t, h) == IsShared(h) /\ LastRef(word[at[h]]) /\ DropInPlace(t, h)

DropInPlaceOwned(t, h) == IsOwned(h) /\ DropInPlace(t, h)

(***************************************************************************)
(* AtomicShared and AtomicOwned                                            *)
(***************************************************************************)
Load(t, p) ==
    /\ t \in guarded
    /\ Running(t)
    /\ Reaches(t, p)
    /\ GetPtr(t, at[p])
    /\ UNCHANGED <<avars, at, kind, word, dying, borrowed>>

(* Mutant of Exchanged: new is not forgotten, so its owner goes on as one. *)
ExchangedWithoutForget(p, h) == [at EXCEPT ![p] = at[h]]

(* Place p takes what h owns, and h what was in p. *)
Exchanged(p, h) == [at EXCEPT ![p] = at[h], ![h] = at[p]]

(* Also from(), which puts a handle in a new cell, and into_shared() and   *)
(* into_owned(), which take it out again.                                  *)
Swap(t, p, h) ==
    /\ Running(t)
    /\ Reaches(t, p)
    /\ Usable(h, at[h])
    /\ Fits(p, at[h])
    /\ at' = Exchanged(p, h)
    /\ UNCHANGED <<avars, kind, word, ptrs, dying, borrowed>>

(* current is a Ptr the thread has, or null. *)
CompareExchange(t, p, current, h) ==
    /\ t \in guarded
    /\ current \in ptrs[t] \cup {Null}
    /\ at[p] = current
    /\ GetPtr(t, at[h])
    /\ Running(t)
    /\ Reaches(t, p)
    /\ Usable(h, at[h])
    /\ Fits(p, at[h])
    /\ at' = Exchanged(p, h)
    /\ UNCHANGED <<avars, kind, word, dying, borrowed>>

(* It fails, and returns new and a Ptr to what it found. *)
CompareExchangeFails(t, p) == Load(t, p)

LoadOwned(t, p) == p \in OwnedCells /\ Load(t, p)

SwapOwned(t, p, h) == p \in OwnedCells /\ Swap(t, p, h)

CompareExchangeOwned(t, p, current, h) ==
    p \in OwnedCells /\ CompareExchange(t, p, current, h)

CompareExchangeOwnedFails(t, p) == p \in OwnedCells /\ CompareExchangeFails(t, p)

DropAtomicShared(t, p) == p \in SharedCells /\ Drop(t, p)

DropAtomicOwned(t, p) == p \in OwnedCells /\ Drop(t, p)

(* Ptr::get_shared(), and get_shared() and clone() of AtomicShared after   *)
(* their Load, which they repeat until one of the two is null or succeeds. *)
GetShared(t, o, h) ==
    /\ o \in ptrs[t]
    /\ Running(t)
    /\ Countable(o)
    /\ at[h] = Null
    /\ at' = [at EXCEPT ![h] = o]
    /\ AddRef(o)
    /\ UNCHANGED <<avars, kind, ptrs, dying, borrowed>>

(***************************************************************************)
(* Guards and the collector                                                *)
(***************************************************************************)
OpenGuard(t) ==
    /\ Running(t)
    /\ Enter(t)
    /\ UNCHANGED <<at, kind, word, ptrs, dying, borrowed>>

CloseGuard(t) ==
    /\ Running(t)
    /\ Exit(t)
    /\ ptrs' = [ptrs EXCEPT ![t] = {}]
    /\ UNCHANGED <<at, kind, word, dying, borrowed>>

(* pass_to_collector(): the word becomes a link to what t collected before. *)
PassToCollector(t, link) ==
    /\ ~Running(t)
    /\ RetireObject(dying[t])
    /\ word' = [word EXCEPT ![dying[t]] = link]
    /\ dying' = [dying EXCEPT ![t] = Null]
    /\ UNCHANGED <<at, kind, ptrs, borrowed>>

(* The collector drops the object, t being the thread that runs it. *)
DropCollected(t, o) ==
    /\ Running(t)
    /\ Reclaim(o)
    /\ Free(t, o, {})
    /\ UNCHANGED <<ptrs, borrowed>>

HandleStep ==
    \E h \in Handles :
        \/ \E o \in Objects : NewShared(h, o) \/ NewOwned(h, o)
        \/ \E g \in Handles : CloneShared(h, g)
        \/ GetMutShared(h) \/ GetMutOwned(h) \/ EndMut(h)

AtomicSharedStep(t) ==
    \E p \in SharedCells \cup Objects :
        \/ Load(t, p) \/ CompareExchangeFails(t, p)
        \/ \E h \in Handles :
              Swap(t, p, h) \/ \E c \in Pointers : CompareExchange(t, p, c, h)

AtomicOwnedStep(t) ==
    \E p \in OwnedCells :
        \/ LoadOwned(t, p) \/ CompareExchangeOwnedFails(t, p)
        \/ \E h \in Handles :
              \/ SwapOwned(t, p, h)
              \/ \E c \in Pointers : CompareExchangeOwned(t, p, c, h)

CellStep(t) == AtomicSharedStep(t) \/ AtomicOwnedStep(t)

DropStep(t) ==
    \/ \E p \in Cells : DropAtomicShared(t, p) \/ DropAtomicOwned(t, p)
    \/ \E h \in Handles :
          \/ DropShared(t, h) \/ DropOwned(t, h)
          \/ DropInPlaceShared(t, h) \/ DropInPlaceOwned(t, h)
    \/ \E link \in Links : PassToCollector(t, link)
    \/ \E o \in Objects : DropCollected(t, o)

GuardStep(t) ==
    \/ OpenGuard(t) \/ CloseGuard(t)
    \/ \E h \in Handles :
          \/ GetGuardedPtrShared(t, h) \/ GetGuardedPtrOwned(t, h)
          \/ \E o \in Objects : GetShared(t, o, h)

Next ==
    \/ HandleStep
    \/ \E t \in Threads : CellStep(t) \/ DropStep(t) \/ GuardStep(t)

Spec == Init /\ [][Next]_vars

-----------------------------------------------------------------------------

Allocated(o) == kind[o] # "free"

Retired(o) == life[o] = "retired"

(* Has its last reference been dropped, but not yet been passed on? *)
Dying(o) == \E t \in Threads : dying[t] = o

(* No place and no Ptr of a thread refers to memory that was freed, and no *)
(* place to an object that is, or is about to be, retired, not even to one *)
(* whose last owner was dropped while a thread was on its way from a load  *)
(* to try_add_ref (ref_counted.rs:44-55, atomic_shared.rs:400-409).        *)
NoDangling ==
    /\ \A p \in Places : at[p] # Null =>
          Allocated(at[p]) /\ ~Retired(at[p]) /\ ~Dying(at[p])
    /\ \A t \in Threads : \A o \in ptrs[t] : Allocated(o)

(* A count is 2n - 1 for n owners, wherever they are and however they came *)
(* about, and what was made for one owner has no other (ref_counted.rs:75- *)
(* 115, the forget() of each swap and compare_exchange).                   *)
CountsOwners ==
    \A o \in Objects : Owners(o) # {} =>
        IF kind[o] = "shared"
        THEN word[o] = 2 * Cardinality(Owners(o)) - 1
        ELSE \A p, q \in Owners(o) : p = q

(* An object without an owner is with one thread that is about to retire   *)
(* it, or is retired: it is neither lost nor retired twice (drop_ref(),    *)
(* ref_counted.rs:97-115, is true once).                                   *)
RetiredOnce ==
    \A o \in Objects :
        /\ Allocated(o) /\ Owners(o) = {} => Retired(o) \/ Dying(o)
        /\ Dying(o) => ~Retired(o)
        /\ \A t, u \in Threads : dying[t] = o /\ dying[u] = o => t = u

(* Nobody but its owner can come to what is borrowed mutably, whatever is  *)
(* called after get_mut() found the count to be one (ref_counted.rs:59-65).*)
MutExclusive ==
    \A h \in borrowed :
        /\ at[h] # Null
        /\ Owners(at[h]) = {h}
        /\ \A t \in Threads : at[h] \notin ptrs[t]

(* An object that has lost its last owner never has one again, until it is *)
(* allocated anew (ref_counted.rs:51: a link or zero is even).             *)
NeverRevived ==
    [][\A o \in Objects :
         Allocated(o) /\ Owners(o) = {} /\ kind'[o] # "free" => Owners(o)' = {}]_vars

-----------------------------------------------------------------------------

(* A link and zero are even: what nobody owns cannot be counted up. *)
EvenWithoutOwner ==
    \A o \in Objects :
        Owners(o) = {} \/ kind[o] = "unique" => word[o] % 2 = 0

(* What the reclaimer must know of a Ptr to a retired object. *)
PtrsHeld ==
    \A t \in Threads : \A o \in ptrs[t] :
        t \in guarded /\ (Retired(o) => o \in held[t])

(* Free memory is in nobody's way. *)
FreeIsBare ==
    \A o \in Objects : ~Allocated(o) => at[o] = Null /\ ~Retired(o) /\ ~Dying(o)

(* The inductive invariant of the proofs. *)
IInv ==
    /\ TypeOK
    /\ NoDangling /\ CountsOwners /\ RetiredOnce /\ MutExclusive
    /\ EvenWithoutOwner /\ PtrsHeld /\ FreeIsBare

=============================================================================
