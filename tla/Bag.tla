-------------------------------- MODULE Bag --------------------------------
(***************************************************************************)
(* The lock-free bag of src/src/bag.rs: a primary array of slots, and a    *)
(* stack of further arrays for what does not fit.                          *)
(*                                                                         *)
(* The state of an array is one word of an "instance" and an "owned" bit   *)
(* per slot.  A slot is owned by the thread that fills or empties it.  An  *)
(* array of the stack that runs empty is deleted, and from then on must    *)
(* not be given a value: a push to it takes its value back.                *)
(*                                                                         *)
(* Reading the word and replacing it by a compare-and-swap is one step.    *)
(* The stack is the sequence of its entries that are not deleted: whoever  *)
(* looks at a deleted one goes on to the next.  A value that was read from *)
(* a slot is no longer there.                                              *)
(***************************************************************************)
EXTENDS Naturals, SequencesExt

CONSTANTS
    Threads,
    Values,     \* values a program pushes
    Primary,    \* primary_storage
    Storages,   \* arrays the stack can be given
    Drainers,   \* threads whose program calls pop_all()
    ARRAY_LEN   \* slots of an array, 32 in the code

ASSUME BagAssumption ==
    /\ ARRAY_LEN \in Nat \ {0}
    /\ Primary \notin Storages
    /\ Drainers \subseteq Threads

Arrays == Storages \cup {Primary}
Slots == 0 .. ARRAY_LEN - 1

VARIABLES
    instance,  \* slots whose instance bit is set, by array
    owned,     \* slots whose owned bit is set, by array
    storage,   \* the value in the memory of a slot, by array
    stack,     \* arrays of the stack, newest first
    pc,        \* what a thread does next
    at,        \* the array it is working on
    slots,     \* the slots it owns there
    vals,      \* the values it has in hand
    popped,    \* the stack a pop_all() has taken, by thread
    contents,  \* history: values pushed and not yet taken out
    emptied    \* history: threads that began when the bag was empty, or
               \* since whose call of pop() it has been so

words == <<instance, owned, storage>>
locals == <<at, slots, vals, popped>>
history == <<contents, emptied>>
vars == <<words, stack, pc, locals, history>>

Locations == {"idle", "push", "publish", "rollback", "peek", "grow",
              "top", "pop", "clear", "delete", "swap", "next", "mark", "fold"}

Available(a) == instance[a] \ owned[a]
First(s) == {i \in s : \A j \in s : i <= j}

Init ==
    /\ instance = [a \in Arrays |-> {}]
    /\ owned = [a \in Arrays |-> {}]
    /\ storage = [a \in Arrays |-> [i \in Slots |-> {}]]
    /\ stack = <<>>
    /\ pc = [t \in Threads |-> "idle"]
    /\ at = [t \in Threads |-> Primary]
    /\ slots = [t \in Threads |-> {}]
    /\ vals = [t \in Threads |-> {}]
    /\ popped = [t \in Threads |-> <<>>]
    /\ contents = {}
    /\ emptied = {}

Goto(t, location) == pc' = [pc EXCEPT ![t] = location]
Use(t, a) == at' = [at EXCEPT ![t] = a]
Own(t, s) ==
    /\ owned' = [owned EXCEPT ![at[t]] = @ \cup s]
    /\ slots' = [slots EXCEPT ![t] = s]
Disown(t) ==
    /\ owned' = [owned EXCEPT ![at[t]] = @ \ slots[t]]
    /\ slots' = [slots EXCEPT ![t] = {}]

Return(t) ==
    /\ Goto(t, "idle")
    /\ Use(t, Primary)
    /\ vals' = [vals EXCEPT ![t] = {}]

(* The bag's contents change, and with them what calls of pop() have seen. *)
Holding(values) ==
    /\ contents' = values
    /\ emptied' = IF values = {} THEN Threads ELSE emptied

Moved(t, s) ==
    storage' = [storage EXCEPT ![at[t]] =
                    [i \in Slots |-> IF i \in s THEN {} ELSE @[i]]]

(* Moves the values of slots that the thread owns into its hands. *)
Read(t, s) ==
    LET taken == UNION {storage[at[t]][i] : i \in s} IN
    /\ Moved(t, s)
    /\ vals' = [vals EXCEPT ![t] = taken]
    /\ Holding(contents \ taken)

(***************************************************************************)
(* push(): first to the primary array, then to the newest of the stack,    *)
(* then to a new one.                                                      *)
(***************************************************************************)
Push(t, v) ==
    /\ pc[t] = "idle"
    /\ v \notin contents
    /\ \A u \in Threads : v \notin vals[u]
    /\ vals' = [vals EXCEPT ![t] = {v}]
    /\ Use(t, Primary)
    /\ Goto(t, "push")
    /\ UNCHANGED <<words, stack, slots, popped, history>>

(* Mutant of Accepts: counts values that others are taking out. *)
AcceptsLeaving(a) == a = Primary \/ instance[a] # {}

(* An array of the stack takes a value only while it has others. *)
Accepts(a) == a = Primary \/ Available(a) # {}

(* Mutant of Vacant: slots owned by another thread are not passed over. *)
VacantIfOwned(a) == Slots \ instance[a]

Vacant(a) == Slots \ (instance[a] \cup owned[a])

(* Storage::push() up to where the value is written. *)
OwnSlot(t) ==
    /\ pc[t] = "push"
    /\ Accepts(at[t])
    /\ \E i \in First(Vacant(at[t])) :
          /\ Own(t, {i})
          /\ storage' = [storage EXCEPT ![at[t]][i] = vals[t]]
    /\ Goto(t, "publish")
    /\ UNCHANGED <<instance, stack, at, vals, popped, history>>

OwnFails(t) ==
    /\ pc[t] = "push"
    /\ ~Accepts(at[t]) \/ Vacant(at[t]) = {}
    /\ Goto(t, IF at[t] = Primary THEN "peek" ELSE "grow")
    /\ UNCHANGED <<words, stack, locals, history>>

(* Mutant of Publish: does not look if the array was emptied meanwhile. *)
PublishAnyway(t) ==
    /\ pc[t] = "publish"
    /\ instance' = [instance EXCEPT ![at[t]] = @ \cup slots[t]]
    /\ Disown(t)
    /\ Holding(contents \cup vals[t])
    /\ Return(t)
    /\ UNCHANGED <<storage, stack, popped>>

Publish(t) ==
    /\ pc[t] = "publish"
    /\ Accepts(at[t])
    /\ instance' = [instance EXCEPT ![at[t]] = @ \cup slots[t]]
    /\ Disown(t)
    /\ Holding(contents \cup vals[t])
    /\ Return(t)
    /\ UNCHANGED <<storage, stack, popped>>

PublishFails(t) ==
    /\ pc[t] = "publish"
    /\ ~Accepts(at[t])
    /\ Goto(t, "rollback")
    /\ UNCHANGED <<words, stack, locals, history>>

Rollback(t) ==
    /\ pc[t] = "rollback"
    /\ Disown(t)
    /\ Moved(t, slots[t])
    /\ Goto(t, "grow")
    /\ UNCHANGED <<instance, stack, at, vals, popped, history>>

PeekForPush(t) ==
    /\ pc[t] = "peek"
    /\ IF stack = <<>>
       THEN Goto(t, "grow") /\ UNCHANGED at
       ELSE Goto(t, "push") /\ Use(t, Head(stack))
    /\ UNCHANGED <<words, stack, slots, vals, popped, history>>

(* Storage::with_val() in memory that nobody can reach. *)
Grow(t, a) ==
    /\ pc[t] = "grow"
    /\ a \in Storages
    /\ a \notin Range(stack)
    /\ \A u \in Threads : at[u] # a /\ a \notin Range(popped[u])
    /\ instance' = [instance EXCEPT ![a] = {0}]
    /\ owned' = [owned EXCEPT ![a] = {}]
    /\ storage' = [storage EXCEPT ![a] = [i \in Slots |->
                                           IF i = 0 THEN vals[t] ELSE {}]]
    /\ stack' = <<a>> \o stack
    /\ Holding(contents \cup vals[t])
    /\ Return(t)
    /\ UNCHANGED <<slots, popped>>

(* try_push() gives the value back if the primary array is full. *)
TryPushFails(t) ==
    /\ pc[t] = "peek"
    /\ Return(t)
    /\ UNCHANGED <<words, stack, slots, popped, history>>

(***************************************************************************)
(* pop(): from the newest array of the stack, else from the primary one.   *)
(***************************************************************************)
Pop(t) ==
    /\ pc[t] = "idle"
    /\ Goto(t, "top")
    /\ emptied' = IF contents = {} THEN emptied \cup {t} ELSE emptied \ {t}
    /\ UNCHANGED <<words, stack, locals, contents>>

PeekForPop(t) ==
    /\ pc[t] = "top"
    /\ Use(t, IF stack = <<>> THEN Primary ELSE Head(stack))
    /\ Goto(t, "pop")
    /\ UNCHANGED <<words, stack, slots, vals, popped, history>>

(* Storage::pop() up to where the value is read. *)
OwnInstance(t) ==
    /\ pc[t] = "pop"
    /\ \E i \in First(Available(at[t])) : Own(t, {i}) /\ Read(t, {i})
    /\ Goto(t, "clear")
    /\ UNCHANGED <<instance, stack, at, popped>>

PopFindsNone(t) ==
    /\ pc[t] = "pop"
    /\ Available(at[t]) = {}
    /\ IF at[t] = Primary
       THEN Return(t)
       ELSE Use(t, Primary) /\ UNCHANGED <<pc, vals>>
    /\ UNCHANGED <<words, stack, slots, popped, history>>

ClearSlot(t) ==
    LET a == at[t] left == instance[a] \ slots[t] IN
    /\ pc[t] = "clear"
    /\ instance' = [instance EXCEPT ![a] = left]
    /\ Disown(t)
    /\ IF a # Primary /\ left = {}
       THEN Goto(t, "delete") /\ UNCHANGED <<at, vals>>
       ELSE Return(t)
    /\ UNCHANGED <<storage, stack, popped, history>>

(* Unlinks an array, if it is there, from a list of arrays.                *)
Unlinked(list, a) ==
    IF a \in Range(list)
    THEN RemoveAt(list, CHOOSE i \in DOMAIN list : list[i] = a)
    ELSE list

(* The array may be in a stack that pop_all() has taken, or in none.       *)
DeleteStorage(t) ==
    /\ pc[t] = "delete"
    /\ stack' = Unlinked(stack, at[t])
    /\ popped' = [u \in Threads |-> Unlinked(popped[u], at[t])]
    /\ Return(t)
    /\ UNCHANGED <<words, slots, history>>

(***************************************************************************)
(* pop_all(): takes the stack, empties its arrays, then the primary one.   *)
(***************************************************************************)
PopAll(t) ==
    /\ t \in Drainers
    /\ pc[t] = "idle"
    /\ popped' = [popped EXCEPT ![t] = stack]
    /\ stack' = <<>>
    /\ Goto(t, "next")
    /\ UNCHANGED <<words, at, slots, vals, history>>

(* popped.pop(), which deletes the entry it returns. *)
NextStorage(t) ==
    /\ pc[t] = "next"
    /\ IF popped[t] = <<>>
       THEN Use(t, Primary) /\ UNCHANGED popped
       ELSE /\ Use(t, Head(popped[t]))
            /\ popped' = [popped EXCEPT ![t] = Tail(@)]
    /\ Goto(t, "mark")
    /\ UNCHANGED <<words, stack, slots, vals, history>>

(* Storage::pop_all() owns every slot with a value at once. *)
Mark(t) ==
    /\ pc[t] = "mark"
    /\ Available(at[t]) # {}
    /\ Own(t, Available(at[t]))
    /\ Read(t, Available(at[t]))
    /\ Goto(t, "fold")
    /\ UNCHANGED <<instance, stack, at, popped>>

MarkNothing(t) ==
    /\ pc[t] = "mark"
    /\ Available(at[t]) = {}
    /\ IF at[t] = Primary
       THEN Return(t)
       ELSE Goto(t, "next") /\ UNCHANGED <<at, vals>>
    /\ UNCHANGED <<words, stack, slots, popped, history>>

Fold(t) ==
    LET a == at[t] IN
    /\ pc[t] = "fold"
    /\ instance' = [instance EXCEPT ![a] = @ \ slots[t]]
    /\ Disown(t)
    /\ IF a = Primary
       THEN Return(t)
       ELSE Goto(t, "next") /\ Use(t, Primary) /\ vals' = [vals EXCEPT ![t] = {}]
    /\ UNCHANGED <<storage, stack, popped, history>>

Next ==
    \E t \in Threads :
        \/ \E v \in Values : Push(t, v)
        \/ OwnSlot(t) \/ OwnFails(t)
        \/ Publish(t) \/ PublishFails(t) \/ Rollback(t)
        \/ PeekForPush(t) \/ \E a \in Storages : Grow(t, a)
        \/ TryPushFails(t)
        \/ Pop(t) \/ PeekForPop(t)
        \/ OwnInstance(t) \/ PopFindsNone(t)
        \/ ClearSlot(t) \/ DeleteStorage(t)
        \/ PopAll(t) \/ NextStorage(t)
        \/ Mark(t) \/ MarkNothing(t) \/ Fold(t)

Spec == Init /\ [][Next]_vars

(***************************************************************************)
(* Properties.                                                             *)
(***************************************************************************)

TypeOK ==
    /\ instance \in [Arrays -> SUBSET Slots]
    /\ owned \in [Arrays -> SUBSET Slots]
    /\ storage \in [Arrays -> [Slots -> SUBSET Values]]
    /\ stack \in Seq(Storages)
    /\ pc \in [Threads -> Locations]
    /\ at \in [Threads -> Arrays]
    /\ slots \in [Threads -> SUBSET Slots]
    /\ vals \in [Threads -> SUBSET Values]
    /\ popped \in [Threads -> Seq(Storages)]
    /\ contents \subseteq Values
    /\ emptied \subseteq Threads

(* Arrays that some later pop() or pop_all() comes to, or one under way.   *)
Reachable(a) ==
    \/ a = Primary
    \/ a \in Range(stack)
    \/ \E t \in Threads : a \in Range(popped[t])
    \/ \E t \in Threads : at[t] = a /\ pc[t] = "mark"

(* Where a value can be popped from. *)
Places(v) ==
    {p \in Arrays \X Slots :
        /\ Reachable(p[1])
        /\ p[2] \in Available(p[1])
        /\ storage[p[1]][p[2]] = {v}}

(* Every value that was pushed and not taken out is in exactly one slot,   *)
(* in an array that is still reachable: none is put into an array that is  *)
(* empty, or about to be deleted (bag.rs:474-495), and none is popped from *)
(* a slot twice.                                                           *)
NothingLost ==
    \A v \in Values :
        /\ v \in contents <=> Places(v) # {}
        /\ \A p, q \in Places(v) : p = q

(* A slot that is owned has one owner, who alone reads or writes its       *)
(* memory, and is given back by it.  It has an instance as long as it is   *)
(* owned by one who takes it out, and none while one is put in, which is   *)
(* what bag.rs:475-476 and 536-537 assert.                                 *)
SlotsHaveOneOwner ==
    /\ \A a \in Arrays, i \in Slots :
          i \in owned[a] <=> \E t \in Threads : at[t] = a /\ i \in slots[t]
    /\ \A t, u \in Threads :
          t # u /\ at[t] = at[u] => slots[t] \cap slots[u] = {}
    /\ \A t \in Threads :
          /\ pc[t] \in {"publish", "rollback"} =>
                slots[t] \cap instance[at[t]] = {}
          /\ pc[t] \in {"clear", "fold"} => slots[t] \subseteq instance[at[t]]

(* pop() returns nothing only if the bag was empty at some time during the *)
(* call: Bag is linearizable (bag.rs:15), and pop() pops "if not empty"    *)
(* (bag.rs:154).                                                           *)
PopFindsAny ==
    [][\A t \in Threads : pc[t] = "pop" /\ pc'[t] = "idle" => t \in emptied]_vars

=============================================================================
