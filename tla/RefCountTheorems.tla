--------------------------- MODULE RefCountTheorems ---------------------------
(***************************************************************************)
(* Counts are right, nothing dangles, and what was retired stays so, for   *)
(* every number of threads, objects and places.                            *)
(***************************************************************************)
EXTENDS RefCount, FiniteSetTheorems, TLAPS

(* Places are finitely many, so owners can be counted.                     *)
LEMMA OwnersFinite ==
    ASSUME NEW o
    PROVE  /\ IsFiniteSet(Owners(o)) /\ Cardinality(Owners(o)) \in Nat
           /\ Cardinality(Owners(o)) = 0 <=> Owners(o) = {}
           /\ Cardinality(Owners(o)) = 1 <=> \E p : Owners(o) = {p}
<1>1. IsFiniteSet(Owners(o))
  BY FS_Subset, RefCountAssumption DEF Owners
<1>2. QED
  BY <1>1, FS_CardinalityType, FS_EmptySet, FS_Singleton

(* What allocation of an object for one owner leaves in its word.          *)
LEMMA ZeroEven == 0 % 2 = 0
OBVIOUS

(* The same owners are as many, also in the next state.                    *)
LEMMA SameOwners ==
    ASSUME UNCHANGED at
    PROVE  \A o : Owners(o)' = Owners(o)
BY DEF Owners

(* One more place points to an object.                                     *)
LEMMA GainOwner ==
    ASSUME TypeOK, NEW g \in Handles, NEW o \in Objects, at[g] = Null,
           at' = [at EXCEPT ![g] = o]
    PROVE  /\ \A x \in Objects \ {o} : Owners(x)' = Owners(x)
           /\ Owners(o)' = Owners(o) \cup {g}
           /\ Cardinality(Owners(o)') = Cardinality(Owners(o)) + 1
<1>1. g \in Places /\ o # Null
  BY RefCountAssumption DEF Places
<1>2. /\ \A x \in Objects \ {o} : Owners(x)' = Owners(x)
      /\ Owners(o)' = Owners(o) \cup {g}
  BY <1>1, RefCountAssumption DEF Owners, TypeOK
<1>3. g \notin Owners(o)
  BY <1>1 DEF Owners
<1>4. QED
  BY <1>2, <1>3, OwnersFinite, FS_AddElement

(* Places are emptied.                                                     *)
LEMMA LoseOwners ==
    ASSUME TypeOK, NEW S,
           at' = [p \in Places |-> IF p \in S THEN Null ELSE at[p]]
    PROVE  \A x \in Objects : Owners(x)' = Owners(x) \ S
BY RefCountAssumption DEF Owners

(* One of them was an owner of an object.                                  *)
LEMMA LoseOwner ==
    ASSUME NEW o, NEW p \in Owners(o), Owners(o)' = Owners(o) \ {p}
    PROVE  Cardinality(Owners(o)') = Cardinality(Owners(o)) - 1
BY OwnersFinite, FS_RemoveElement

(* Two places exchange what they point to: an object keeps the number of   *)
(* its owners.                                                             *)
LEMMA ExchangeOwners ==
    ASSUME TypeOK, NEW p \in Places, NEW h \in Places, at' = Exchanged(p, h)
    PROVE  \A x \in Objects :
              /\ Cardinality(Owners(x)') = Cardinality(Owners(x))
              /\ Owners(x)' = {} <=> Owners(x) = {}
              /\ p \notin Owners(x) /\ h \notin Owners(x) => Owners(x)' = Owners(x)
              /\ (\A q, r \in Owners(x) : q = r) => \A q, r \in Owners(x)' : q = r
<1> SUFFICES ASSUME NEW x \in Objects
             PROVE  /\ Cardinality(Owners(x)') = Cardinality(Owners(x))
                    /\ Owners(x)' = {} <=> Owners(x) = {}
                    /\ p \notin Owners(x) /\ h \notin Owners(x) => Owners(x)' = Owners(x)
                    /\ (\A q, r \in Owners(x) : q = r) => \A q, r \in Owners(x)' : q = r
  OBVIOUS
<1>1. at' = [at EXCEPT ![p] = at[h], ![h] = at[p]]
  BY DEF Exchanged
<1>2. CASE at[p] = at[h]
  <2>1. Owners(x)' = Owners(x)
    BY <1>1, <1>2 DEF Owners, TypeOK
  <2>2. QED
    BY <2>1
<1>3. CASE at[p] # at[h] /\ x = at[h]
  <2>1. /\ Owners(x)' = (Owners(x) \ {h}) \cup {p}
        /\ h \in Owners(x) /\ p \notin Owners(x) /\ p # h
    BY <1>1, <1>3 DEF Owners, TypeOK
  <2>2. IsFiniteSet(Owners(x) \ {h}) /\ Cardinality(Owners(x) \ {h}) = Cardinality(Owners(x)) - 1
    BY <2>1, OwnersFinite, FS_RemoveElement
  <2>3. Cardinality(Owners(x)') = (Cardinality(Owners(x)) - 1) + 1
    BY <2>1, <2>2, FS_AddElement
  <2>4. QED
    BY <2>1, <2>3, OwnersFinite
<1>4. CASE at[p] # at[h] /\ x = at[p]
  <2>1. /\ Owners(x)' = (Owners(x) \ {p}) \cup {h}
        /\ p \in Owners(x) /\ h \notin Owners(x) /\ p # h
    BY <1>1, <1>4 DEF Owners, TypeOK
  <2>2. IsFiniteSet(Owners(x) \ {p}) /\ Cardinality(Owners(x) \ {p}) = Cardinality(Owners(x)) - 1
    BY <2>1, OwnersFinite, FS_RemoveElement
  <2>3. Cardinality(Owners(x)') = (Cardinality(Owners(x)) - 1) + 1
    BY <2>1, <2>2, FS_AddElement
  <2>4. QED
    BY <2>1, <2>3, OwnersFinite
<1>5. CASE x # at[p] /\ x # at[h]
  <2>1. Owners(x)' = Owners(x)
    BY <1>1, <1>5 DEF Owners, TypeOK
  <2>2. QED
    BY <2>1
<1>6. QED
  BY <1>2, <1>3, <1>4, <1>5

(* What NeverRevived says of a step.                                       *)
StaysUnowned ==
    \A o \in Objects :
        Allocated(o) /\ Owners(o) = {} /\ kind'[o] # "free" => Owners(o)' = {}

(* A reference is dropped: it was the last one, or those left are counted.  *)
LEMMA DropRefCounts ==
    ASSUME IInv, NEW t, NEW o \in Objects, NEW p \in Owners(o), p \notin borrowed,
           NEW w, w[o] = word[o], DropRef(t, o, w), Owners(o)' = Owners(o) \ {p}
    PROVE  /\ Allocated(o) /\ ~Retired(o) /\ ~Dying(o)
           /\ \A h \in borrowed : at[h] # o
           /\ \/ /\ Owners(o)' = {} /\ word'[o] % 2 = 0 /\ word'[o] \in Nat
                 /\ dying' = [dying EXCEPT ![t] = o]
              \/ /\ Owners(o)' # {} /\ kind[o] = "shared" /\ dying' = dying
                 /\ word'[o] = 2 * Cardinality(Owners(o)') - 1 /\ word'[o] \in Nat
<1>1. /\ Allocated(o) /\ ~Retired(o) /\ ~Dying(o) /\ o # Null
      /\ \A h \in borrowed : at[h] # o
  BY RefCountAssumption DEF IInv, NoDangling, MutExclusive, Owners
<1>2. /\ word'[o] = IF kind[o] = "shared" THEN Decremented(word[o]) ELSE word[o]
      /\ dying' = IF kind[o] = "unique" \/ word[o] = 1
                  THEN [dying EXCEPT ![t] = o] ELSE dying
  BY <1>1 DEF DropRef, LastRef
<1>3. word[o] \in Nat
  BY DEF IInv, TypeOK
<1>4. CASE kind[o] = "shared"
  <2>1. /\ word[o] = 2 * Cardinality(Owners(o)) - 1 /\ Cardinality(Owners(o)) \in Nat
        /\ Cardinality(Owners(o)') = Cardinality(Owners(o)) - 1
    BY <1>4, LoseOwner, OwnersFinite DEF IInv, CountsOwners
  <2>2. Owners(o)' = {} <=> Owners(o) = {p}
    OBVIOUS
  <2>3. CASE Owners(o) = {p}
    <3> Cardinality({p}) = 1
      BY FS_Singleton
    <3>1. word[o] = 1
      BY <2>1, <2>3
    <3>2. word'[o] = 0
      BY <1>2, <1>4, <3>1 DEF Decremented
    <3>3. QED
      BY <1>1, <1>2, <2>2, <2>3, <3>1, <3>2, ZeroEven
  <2>4. CASE Owners(o) # {p}
    <3>1. Cardinality(Owners(o)) # 1 /\ Cardinality(Owners(o)) # 0
      BY <2>4, OwnersFinite
    <3>2. word[o] >= 3 /\ word'[o] = word[o] - 2
      BY <1>2, <1>4, <2>1, <3>1 DEF Decremented
    <3>3. QED
      BY <1>1, <1>2, <1>3, <1>4, <2>1, <2>2, <2>4, <3>2
  <2>5. QED
    BY <2>3, <2>4
<1>5. CASE kind[o] # "shared"
  <2>1. kind[o] = "unique" /\ Owners(o)' = {}
    BY <1>1, <1>5 DEF IInv, CountsOwners, TypeOK, Allocated
  <2>2. QED
    BY <1>1, <1>2, <1>3, <1>5, <2>1 DEF IInv, EvenWithoutOwner
<1>6. QED
  BY <1>4, <1>5

(* An object is allocated.                                                 *)
LEMMA NewInv ==
    ASSUME IInv, NEW h \in Handles, NEW o \in Objects, NEW k \in {"shared", "unique"}, New(h, o, k)
    PROVE  IInv' /\ StaysUnowned
<1>1. TypeOK /\ NoDangling /\ CountsOwners /\ RetiredOnce /\ MutExclusive
      /\ EvenWithoutOwner /\ PtrsHeld /\ FreeIsBare
  BY DEF IInv
<1>2. /\ kind[o] = "free" /\ at[h] = Null /\ Owners(o) = {}
      /\ at' = [at EXCEPT ![h] = o] /\ kind' = [kind EXCEPT ![o] = k]
      /\ word' = [word EXCEPT ![o] = IF k = "shared" THEN 1 ELSE 0]
      /\ UNCHANGED <<guarded, life, held, ptrs, dying, borrowed>>
  BY <1>1, RefCountAssumption DEF New, NoDangling, Owners, Allocated, avars
<1>3. /\ \A x \in Objects \ {o} : Owners(x)' = Owners(x)
      /\ Owners(o)' = {h} /\ Cardinality(Owners(o)') = 1
  <2>1. /\ \A x \in Objects \ {o} : Owners(x)' = Owners(x)
        /\ Owners(o)' = Owners(o) \cup {h}
        /\ Cardinality(Owners(o)') = Cardinality(Owners(o)) + 1
    BY <1>1, <1>2, GainOwner
  <2>2. Cardinality(Owners(o)) = 0 /\ Owners(o) \cup {h} = {h}
    BY <1>2, OwnersFinite
  <2>3. QED
    BY <2>1, <2>2
<1>4. TypeOK'
  BY <1>1, <1>2, <1>3, RefCountAssumption, ZeroEven DEF TypeOK, Places, Pointers
<1>5. NoDangling'
  BY <1>1, <1>2, <1>3, RefCountAssumption, ZeroEven DEF NoDangling, TypeOK, Allocated, Retired, Dying, FreeIsBare, RetiredOnce, Places, Pointers
<1>6. CountsOwners'
  <2> SUFFICES ASSUME NEW x \in Objects
               PROVE  (Owners(x) # {} =>
                         IF kind[x] = "shared"
                         THEN word[x] = 2 * Cardinality(Owners(x)) - 1
                         ELSE \A a, b \in Owners(x) : a = b)'
    BY DEF CountsOwners
  <2>1. CASE x = o
    BY <2>1, <1>1, <1>2, <1>3, RefCountAssumption, ZeroEven DEF CountsOwners, TypeOK, Places, Pointers
  <2>2. CASE x # o
    BY <2>2, <1>1, <1>2, <1>3, RefCountAssumption, ZeroEven DEF CountsOwners, TypeOK, Places, Pointers
  <2>3. QED
    BY <2>1, <2>2
<1>7. RetiredOnce'
  <2> SUFFICES ASSUME NEW x \in Objects
               PROVE  (/\ Allocated(x) /\ Owners(x) = {} => Retired(x) \/ Dying(x)
                       /\ Dying(x) => ~Retired(x)
                       /\ \A a, b \in Threads : dying[a] = x /\ dying[b] = x => a = b)'
    BY DEF RetiredOnce
  <2>1. CASE x = o
    BY <2>1, <1>1, <1>2, <1>3, RefCountAssumption, ZeroEven DEF RetiredOnce, TypeOK, Allocated, Retired, Dying, FreeIsBare, Places, Pointers
  <2>2. CASE x # o
    BY <2>2, <1>1, <1>2, <1>3, RefCountAssumption, ZeroEven DEF RetiredOnce, TypeOK, Allocated, Retired, Dying, FreeIsBare, Places, Pointers
  <2>3. QED
    BY <2>1, <2>2
<1>8. MutExclusive'
  BY <1>1, <1>2, <1>3, RefCountAssumption, ZeroEven DEF MutExclusive, TypeOK, Places, Pointers
<1>9. EvenWithoutOwner'
  <2> SUFFICES ASSUME NEW x \in Objects
               PROVE  (Owners(x) = {} \/ kind[x] = "unique" => word[x] % 2 = 0)'
    BY DEF EvenWithoutOwner
  <2>1. CASE x = o
    BY <2>1, <1>1, <1>2, <1>3, RefCountAssumption, ZeroEven DEF EvenWithoutOwner, TypeOK, FreeIsBare, Places, Pointers, Allocated, Retired, Dying
  <2>2. CASE x # o
    BY <2>2, <1>1, <1>2, <1>3, RefCountAssumption, ZeroEven DEF EvenWithoutOwner, TypeOK, FreeIsBare, Places, Pointers, Allocated, Retired, Dying
  <2>3. QED
    BY <2>1, <2>2
<1>10. PtrsHeld'
  BY <1>1, <1>2, <1>3, RefCountAssumption, ZeroEven DEF PtrsHeld, TypeOK, Retired, Places, Pointers
<1>11. FreeIsBare'
  BY <1>1, <1>2, <1>3, RefCountAssumption, ZeroEven DEF FreeIsBare, TypeOK, Allocated, Retired, Dying, Places, Pointers
<1>12. StaysUnowned
  BY <1>1, <1>2, <1>3 DEF StaysUnowned, Allocated
<1>13. QED
  BY <1>4, <1>5, <1>6, <1>7, <1>8, <1>9, <1>10, <1>11, <1>12 DEF IInv

(* An object with owners gets one more.                                    *)
LEMMA AddOwnerInv ==
    ASSUME IInv, NEW g \in Handles, NEW o \in Objects, Owners(o) # {},
           kind[o] = "shared", at[g] = Null,
           \A h \in borrowed : at[h] # o,
           at' = [at EXCEPT ![g] = o], AddRef(o),
           UNCHANGED <<guarded, life, held, kind, ptrs, dying, borrowed>>
    PROVE  IInv' /\ StaysUnowned
<1>1. TypeOK /\ NoDangling /\ CountsOwners /\ RetiredOnce /\ MutExclusive
      /\ EvenWithoutOwner /\ PtrsHeld /\ FreeIsBare
  BY DEF IInv
<1>2. Allocated(o) /\ ~Retired(o) /\ ~Dying(o)
  BY <1>1, RefCountAssumption DEF NoDangling, Owners
<1>3. /\ \A x \in Objects \ {o} : Owners(x)' = Owners(x)
      /\ Owners(o)' = Owners(o) \cup {g}
      /\ Cardinality(Owners(o)') = Cardinality(Owners(o)) + 1
      /\ Cardinality(Owners(o)) \in Nat
  BY <1>1, GainOwner, OwnersFinite
<1>4. word' = [word EXCEPT ![o] = word[o] + 2]
  BY DEF AddRef
<1>5. TypeOK'
  BY <1>1, <1>2, <1>3, <1>4, RefCountAssumption DEF TypeOK, Places, Pointers
<1>6. NoDangling'
  BY <1>1, <1>2, <1>3, <1>4, RefCountAssumption DEF NoDangling, TypeOK, Allocated, Retired, Dying, Places, Pointers
<1>7. CountsOwners'
  <2> SUFFICES ASSUME NEW x \in Objects
               PROVE  (Owners(x) # {} =>
                         IF kind[x] = "shared"
                         THEN word[x] = 2 * Cardinality(Owners(x)) - 1
                         ELSE \A a, b \in Owners(x) : a = b)'
    BY DEF CountsOwners
  <2>1. CASE x = o
    BY <2>1, <1>1, <1>2, <1>3, <1>4, RefCountAssumption DEF CountsOwners, TypeOK, Places, Pointers
  <2>2. CASE x # o
    BY <2>2, <1>1, <1>2, <1>3, <1>4, RefCountAssumption DEF CountsOwners, TypeOK, Places, Pointers
  <2>3. QED
    BY <2>1, <2>2
<1>8. RetiredOnce'
  <2> SUFFICES ASSUME NEW x \in Objects
               PROVE  (/\ Allocated(x) /\ Owners(x) = {} => Retired(x) \/ Dying(x)
                       /\ Dying(x) => ~Retired(x)
                       /\ \A a, b \in Threads : dying[a] = x /\ dying[b] = x => a = b)'
    BY DEF RetiredOnce
  <2>1. CASE x = o
    BY <2>1, <1>1, <1>2, <1>3, <1>4, RefCountAssumption DEF RetiredOnce, TypeOK, Allocated, Retired, Dying, Places, Pointers
  <2>2. CASE x # o
    BY <2>2, <1>1, <1>2, <1>3, <1>4, RefCountAssumption DEF RetiredOnce, TypeOK, Allocated, Retired, Dying, Places, Pointers
  <2>3. QED
    BY <2>1, <2>2
<1>9. MutExclusive'
  BY <1>1, <1>2, <1>3, <1>4, RefCountAssumption DEF MutExclusive, TypeOK, Places, Pointers
<1>10. EvenWithoutOwner'
  <2> SUFFICES ASSUME NEW x \in Objects
               PROVE  (Owners(x) = {} \/ kind[x] = "unique" => word[x] % 2 = 0)'
    BY DEF EvenWithoutOwner
  <2>1. CASE x = o
    BY <2>1, <1>1, <1>2, <1>3, <1>4, RefCountAssumption DEF EvenWithoutOwner, TypeOK, Places, Pointers
  <2>2. CASE x # o
    BY <2>2, <1>1, <1>2, <1>3, <1>4, RefCountAssumption DEF EvenWithoutOwner, TypeOK, Places, Pointers
  <2>3. QED
    BY <2>1, <2>2
<1>11. PtrsHeld'
  BY <1>1, <1>2, <1>3, <1>4, RefCountAssumption DEF PtrsHeld, TypeOK, Retired, Places, Pointers
<1>12. FreeIsBare'
  BY <1>1, <1>2, <1>3, <1>4, RefCountAssumption DEF FreeIsBare, TypeOK, Allocated, Retired, Dying, Places, Pointers
<1>13. StaysUnowned
  BY <1>1, <1>2, <1>3, <1>4 DEF StaysUnowned, Allocated
<1>14. QED
  BY <1>5, <1>6, <1>7, <1>8, <1>9, <1>10, <1>11, <1>12, <1>13 DEF IInv

(* A guarded thread gets a Ptr to what a place owns.                       *)
LEMMA GainPtrInv ==
    ASSUME IInv, NEW t \in guarded, NEW p \in Places, GetPtr(t, at[p]),
           \A h \in borrowed : at[h] # at[p] \/ at[p] = Null,
           UNCHANGED <<guarded, life, held, at, kind, word, dying, borrowed>>
    PROVE  IInv' /\ StaysUnowned
<1>1. TypeOK /\ NoDangling /\ CountsOwners /\ RetiredOnce /\ MutExclusive
      /\ EvenWithoutOwner /\ PtrsHeld /\ FreeIsBare
  BY DEF IInv
<1>2. \A x : Owners(x)' = Owners(x)
  BY SameOwners
<1>3. ptrs' = [ptrs EXCEPT ![t] = @ \cup ({at[p]} \ {Null})]
  BY DEF GetPtr
<1>4. TypeOK'
  BY <1>1, <1>2, <1>3, RefCountAssumption DEF TypeOK, Pointers
<1>5. NoDangling'
  BY <1>1, <1>2, <1>3, RefCountAssumption DEF NoDangling, TypeOK, Allocated, Retired, Dying, Pointers
<1>6. CountsOwners'
  <2> SUFFICES ASSUME NEW x \in Objects
               PROVE  (Owners(x) # {} =>
                         IF kind[x] = "shared"
                         THEN word[x] = 2 * Cardinality(Owners(x)) - 1
                         ELSE \A a, b \in Owners(x) : a = b)'
    BY DEF CountsOwners
  <2>1. QED
    BY <1>1, <1>2, <1>3, RefCountAssumption DEF CountsOwners, TypeOK, Pointers
<1>7. RetiredOnce'
  <2> SUFFICES ASSUME NEW x \in Objects
               PROVE  (/\ Allocated(x) /\ Owners(x) = {} => Retired(x) \/ Dying(x)
                       /\ Dying(x) => ~Retired(x)
                       /\ \A a, b \in Threads : dying[a] = x /\ dying[b] = x => a = b)'
    BY DEF RetiredOnce
  <2>1. QED
    BY <1>1, <1>2, <1>3, RefCountAssumption DEF RetiredOnce, TypeOK, Allocated, Retired, Dying, Pointers
<1>8. MutExclusive'
  BY <1>1, <1>2, <1>3, RefCountAssumption DEF MutExclusive, TypeOK, Pointers
<1>9. EvenWithoutOwner'
  <2> SUFFICES ASSUME NEW x \in Objects
               PROVE  (Owners(x) = {} \/ kind[x] = "unique" => word[x] % 2 = 0)'
    BY DEF EvenWithoutOwner
  <2>1. QED
    BY <1>1, <1>2, <1>3, RefCountAssumption DEF EvenWithoutOwner, TypeOK, Pointers
<1>10. PtrsHeld'
  BY <1>1, <1>2, <1>3, RefCountAssumption DEF PtrsHeld, TypeOK, Retired, NoDangling, Pointers, Allocated, Dying
<1>11. FreeIsBare'
  BY <1>1, <1>2, <1>3, RefCountAssumption DEF FreeIsBare, TypeOK, Allocated, Retired, Dying, Pointers
<1>12. StaysUnowned
  BY <1>1, <1>2, <1>3 DEF StaysUnowned, Allocated
<1>13. QED
  BY <1>4, <1>5, <1>6, <1>7, <1>8, <1>9, <1>10, <1>11, <1>12 DEF IInv

(* A handle is borrowed mutably.                                           *)
LEMMA BorrowInv ==
    ASSUME IInv, NEW h \in Handles, GetMutShared(h) \/ GetMutOwned(h)
    PROVE  IInv' /\ StaysUnowned
<1>1. TypeOK /\ NoDangling /\ CountsOwners /\ RetiredOnce /\ MutExclusive
      /\ EvenWithoutOwner /\ PtrsHeld /\ FreeIsBare
  BY DEF IInv
<1>2. \A x : Owners(x)' = Owners(x)
  BY SameOwners DEF GetMutShared, GetMutOwned, GetMut
<1>3. at[h] \in Objects /\ h \in Owners(at[h]) /\ h \in Places
  BY <1>1 DEF GetMutShared, GetMutOwned, IsShared, IsOwned, TypeOK, Owners, Places, Pointers
<1>4. Owners(at[h]) = {h}
  <2>1. CASE kind[at[h]] = "shared"
    <3>1. word[at[h]] = 1 /\ word[at[h]] = 2 * Cardinality(Owners(at[h])) - 1
      BY <2>1, <1>1, <1>3 DEF GetMutShared, GetMutOwned, IsOwned, SoleOwner, CountsOwners
    <3>2. Cardinality(Owners(at[h])) = 1
      BY <3>1, OwnersFinite
    <3>3. QED
      BY <3>2, <1>3, OwnersFinite
  <2>2. CASE kind[at[h]] # "shared"
    BY <2>2, <1>1, <1>3 DEF CountsOwners
  <2>3. QED
    BY <2>1, <2>2
<1>5. /\ borrowed' = borrowed \cup {h} /\ \A t \in Threads : at[h] \notin ptrs[t]
      /\ UNCHANGED <<guarded, life, held, at, kind, word, ptrs, dying>>
  BY <1>1, RefCountAssumption DEF GetMutShared, GetMutOwned, IsShared, IsOwned, GetMut, avars
<1>6. TypeOK'
  BY <1>1, <1>2, <1>3, <1>4, <1>5, RefCountAssumption DEF TypeOK
<1>7. NoDangling'
  BY <1>1, <1>2, <1>3, <1>4, <1>5, RefCountAssumption DEF NoDangling, TypeOK, Allocated, Retired, Dying
<1>8. CountsOwners'
  <2> SUFFICES ASSUME NEW x \in Objects
               PROVE  (Owners(x) # {} =>
                         IF kind[x] = "shared"
                         THEN word[x] = 2 * Cardinality(Owners(x)) - 1
                         ELSE \A a, b \in Owners(x) : a = b)'
    BY DEF CountsOwners
  <2>1. QED
    BY <1>1, <1>2, <1>3, <1>4, <1>5, RefCountAssumption DEF CountsOwners, TypeOK
<1>9. RetiredOnce'
  <2> SUFFICES ASSUME NEW x \in Objects
               PROVE  (/\ Allocated(x) /\ Owners(x) = {} => Retired(x) \/ Dying(x)
                       /\ Dying(x) => ~Retired(x)
                       /\ \A a, b \in Threads : dying[a] = x /\ dying[b] = x => a = b)'
    BY DEF RetiredOnce
  <2>1. QED
    BY <1>1, <1>2, <1>3, <1>4, <1>5, RefCountAssumption DEF RetiredOnce, TypeOK, Allocated, Retired, Dying
<1>10. MutExclusive'
  BY <1>1, <1>2, <1>3, <1>4, <1>5, RefCountAssumption DEF MutExclusive, TypeOK
<1>11. EvenWithoutOwner'
  <2> SUFFICES ASSUME NEW x \in Objects
               PROVE  (Owners(x) = {} \/ kind[x] = "unique" => word[x] % 2 = 0)'
    BY DEF EvenWithoutOwner
  <2>1. QED
    BY <1>1, <1>2, <1>3, <1>4, <1>5, RefCountAssumption DEF EvenWithoutOwner, TypeOK
<1>12. PtrsHeld'
  BY <1>1, <1>2, <1>3, <1>4, <1>5, RefCountAssumption DEF PtrsHeld, TypeOK, Retired
<1>13. FreeIsBare'
  BY <1>1, <1>2, <1>3, <1>4, <1>5, RefCountAssumption DEF FreeIsBare, TypeOK, Allocated, Retired, Dying
<1>14. StaysUnowned
  BY <1>1, <1>2, <1>3, <1>4, <1>5 DEF StaysUnowned, Allocated
<1>15. QED
  BY <1>6, <1>7, <1>8, <1>9, <1>10, <1>11, <1>12, <1>13, <1>14 DEF IInv

(* It is given back.                                                       *)
LEMMA ReturnInv ==
    ASSUME IInv, NEW h \in Handles, EndMut(h)
    PROVE  IInv' /\ StaysUnowned
<1>1. TypeOK /\ NoDangling /\ CountsOwners /\ RetiredOnce /\ MutExclusive
      /\ EvenWithoutOwner /\ PtrsHeld /\ FreeIsBare
  BY DEF IInv
<1>2. \A x : Owners(x)' = Owners(x)
  BY SameOwners DEF EndMut
<1>3. /\ borrowed' = borrowed \ {h}
      /\ UNCHANGED <<guarded, life, held, at, kind, word, ptrs, dying>>
  BY DEF EndMut, avars
<1>4. TypeOK'
  BY <1>1, <1>2, <1>3 DEF TypeOK
<1>5. NoDangling'
  BY <1>1, <1>2, <1>3 DEF NoDangling, TypeOK, Allocated, Retired, Dying
<1>6. CountsOwners'
  <2> SUFFICES ASSUME NEW x \in Objects
               PROVE  (Owners(x) # {} =>
                         IF kind[x] = "shared"
                         THEN word[x] = 2 * Cardinality(Owners(x)) - 1
                         ELSE \A a, b \in Owners(x) : a = b)'
    BY DEF CountsOwners
  <2>1. QED
    BY <1>1, <1>2, <1>3 DEF CountsOwners, TypeOK
<1>7. RetiredOnce'
  <2> SUFFICES ASSUME NEW x \in Objects
               PROVE  (/\ Allocated(x) /\ Owners(x) = {} => Retired(x) \/ Dying(x)
                       /\ Dying(x) => ~Retired(x)
                       /\ \A a, b \in Threads : dying[a] = x /\ dying[b] = x => a = b)'
    BY DEF RetiredOnce
  <2>1. QED
    BY <1>1, <1>2, <1>3 DEF RetiredOnce, TypeOK, Allocated, Retired, Dying
<1>8. MutExclusive'
  BY <1>1, <1>2, <1>3 DEF MutExclusive, TypeOK
<1>9. EvenWithoutOwner'
  <2> SUFFICES ASSUME NEW x \in Objects
               PROVE  (Owners(x) = {} \/ kind[x] = "unique" => word[x] % 2 = 0)'
    BY DEF EvenWithoutOwner
  <2>1. QED
    BY <1>1, <1>2, <1>3 DEF EvenWithoutOwner, TypeOK
<1>10. PtrsHeld'
  BY <1>1, <1>2, <1>3 DEF PtrsHeld, TypeOK, Retired
<1>11. FreeIsBare'
  BY <1>1, <1>2, <1>3 DEF FreeIsBare, TypeOK, Allocated, Retired, Dying
<1>12. StaysUnowned
  BY <1>1, <1>2, <1>3 DEF StaysUnowned, Allocated
<1>13. QED
  BY <1>4, <1>5, <1>6, <1>7, <1>8, <1>9, <1>10, <1>11, <1>12 DEF IInv

(* A place and a handle exchange what they own.                            *)
LEMMA ExchangeInv ==
    ASSUME IInv, NEW t \in Threads, NEW p \in Cells \cup Objects, NEW h \in Handles,
           Reaches(t, p), Usable(h, at[h]), at' = Exchanged(p, h),
           NEW s \in SUBSET ({at[h]} \ {Null}), s # {} => t \in guarded,
           ptrs' = [ptrs EXCEPT ![t] = @ \cup s],
           UNCHANGED <<guarded, life, held, kind, word, dying, borrowed>>
    PROVE  IInv' /\ StaysUnowned
<1>1. TypeOK /\ NoDangling /\ CountsOwners /\ RetiredOnce /\ MutExclusive
      /\ EvenWithoutOwner /\ PtrsHeld /\ FreeIsBare
  BY DEF IInv
<1>2. /\ p \in Places /\ h \in Places /\ p # h /\ p \notin Handles /\ h \notin borrowed
      /\ at' = [at EXCEPT ![p] = at[h], ![h] = at[p]]
  BY RefCountAssumption DEF Places, Usable, Exchanged
<1>3. \A x \in Objects :
         /\ Cardinality(Owners(x)') = Cardinality(Owners(x))
         /\ Owners(x)' = {} <=> Owners(x) = {}
         /\ p \notin Owners(x) /\ h \notin Owners(x) => Owners(x)' = Owners(x)
         /\ (\A q, r \in Owners(x) : q = r) => \A q, r \in Owners(x)' : q = r
  BY <1>1, <1>2, ExchangeOwners
<1>4. p \in Objects => Allocated(p)
  BY <1>1, RefCountAssumption DEF Reaches, NoDangling, Places
<1>5. \A g \in borrowed : /\ at[g] \in Objects /\ g # h /\ g # p /\ g \in Places
                        /\ p \notin Owners(at[g]) /\ h \notin Owners(at[g])
                        /\ at[g] # at[h]
  BY <1>1, <1>2, RefCountAssumption DEF MutExclusive, TypeOK, Owners, Places, Pointers
<1>6. TypeOK'
  BY <1>1, <1>2, <1>3, <1>4, <1>5, RefCountAssumption DEF TypeOK, Pointers
<1>7. NoDangling'
  BY <1>1, <1>2, <1>3, <1>4, <1>5, RefCountAssumption DEF NoDangling, TypeOK, Allocated, Retired, Dying, Pointers
<1>8. CountsOwners'
  <2> SUFFICES ASSUME NEW x \in Objects
               PROVE  (Owners(x) # {} =>
                         IF kind[x] = "shared"
                         THEN word[x] = 2 * Cardinality(Owners(x)) - 1
                         ELSE \A a, b \in Owners(x) : a = b)'
    BY DEF CountsOwners
  <2>1. QED
    BY <1>1, <1>2, <1>3, <1>4, <1>5, RefCountAssumption DEF CountsOwners, TypeOK, Pointers
<1>9. RetiredOnce'
  <2> SUFFICES ASSUME NEW x \in Objects
               PROVE  (/\ Allocated(x) /\ Owners(x) = {} => Retired(x) \/ Dying(x)
                       /\ Dying(x) => ~Retired(x)
                       /\ \A a, b \in Threads : dying[a] = x /\ dying[b] = x => a = b)'
    BY DEF RetiredOnce
  <2>1. QED
    BY <1>1, <1>2, <1>3, <1>4, <1>5, RefCountAssumption DEF RetiredOnce, TypeOK, Allocated, Retired, Dying, Pointers
<1>10. MutExclusive'
  BY ZenonT(60), <1>1, <1>2, <1>3, <1>4, <1>5, RefCountAssumption DEF MutExclusive, TypeOK, Pointers
<1>11. EvenWithoutOwner'
  <2> SUFFICES ASSUME NEW x \in Objects
               PROVE  (Owners(x) = {} \/ kind[x] = "unique" => word[x] % 2 = 0)'
    BY DEF EvenWithoutOwner
  <2>1. QED
    BY <1>1, <1>2, <1>3, <1>4, <1>5, RefCountAssumption DEF EvenWithoutOwner, TypeOK, Pointers
<1>12. PtrsHeld'
  BY <1>1, <1>2, <1>3, <1>4, <1>5, RefCountAssumption DEF PtrsHeld, TypeOK, Retired, NoDangling, Pointers, Allocated, Dying
<1>13. FreeIsBare'
  BY <1>1, <1>2, <1>3, <1>4, <1>5, RefCountAssumption DEF FreeIsBare, TypeOK, Allocated, Retired, Dying, Places, Pointers
<1>14. StaysUnowned
  BY <1>1, <1>2, <1>3, <1>4, <1>5 DEF StaysUnowned, Allocated
<1>15. QED
  BY <1>6, <1>7, <1>8, <1>9, <1>10, <1>11, <1>12, <1>13, <1>14 DEF IInv

(* A place drops what it owns.                                             *)
LEMMA DropInv ==
    ASSUME IInv, NEW t \in Threads, NEW p \in Handles \cup Cells, Drop(t, p)
    PROVE  IInv' /\ StaysUnowned
<1>1. TypeOK /\ NoDangling /\ CountsOwners /\ RetiredOnce /\ MutExclusive
      /\ EvenWithoutOwner /\ PtrsHeld /\ FreeIsBare
  BY DEF IInv
<1>2. /\ dying[t] = Null /\ at[p] \in Objects /\ p \notin borrowed /\ p \in Places /\ p \notin Objects
      /\ at' = [q \in Places |-> IF q \in {p} THEN Null ELSE at[q]]
      /\ UNCHANGED <<guarded, life, held, kind, ptrs, borrowed>>
      /\ DropRef(t, at[p], word)
  BY <1>1, RefCountAssumption DEF Drop, Running, TypeOK, Places, Pointers, avars
<1>3. \A x \in Objects : Owners(x)' = Owners(x) \ {p}
  BY <1>1, <1>2, LoseOwners
<1>4. (\A x \in Objects \ {at[p]} : Owners(x)' = Owners(x)) /\ p \in Owners(at[p])
  BY <1>2, <1>3 DEF Owners
<1>5. PICK o \in Objects : o = at[p]
  BY <1>2
<1>6. /\ Allocated(o) /\ ~Retired(o) /\ ~Dying(o)
      /\ \A h \in borrowed : at[h] # o
      /\ \/ /\ Owners(o)' = {} /\ word'[o] % 2 = 0 /\ word'[o] \in Nat
            /\ dying' = [dying EXCEPT ![t] = o]
         \/ /\ Owners(o)' # {} /\ kind[o] = "shared" /\ dying' = dying
            /\ word'[o] = 2 * Cardinality(Owners(o)') - 1 /\ word'[o] \in Nat
  BY <1>2, <1>3, <1>4, <1>5, DropRefCounts
<1>7. /\ \A x \in Objects \ {o} : word'[x] = word[x]
      /\ word' \in [Objects -> Nat]
  BY <1>1, <1>2, <1>5, <1>6 DEF DropRef, TypeOK
<1>8. \A q \in Places : at'[q] = o => Owners(o)' # {}
  BY <1>5 DEF Owners
<1>9. \A x \in Objects : Dying(x)' => Dying(x) \/ (x = o /\ Owners(o)' = {})
  BY <1>1, <1>6 DEF Dying, TypeOK
<1>10. TypeOK'
  BY <1>1, <1>2, <1>3, <1>4, <1>5, <1>6, <1>7, <1>8, <1>9, RefCountAssumption DEF TypeOK, Pointers, Places
<1>11. NoDangling'
  BY <1>1, <1>2, <1>3, <1>4, <1>5, <1>6, <1>7, <1>8, <1>9, RefCountAssumption DEF NoDangling, TypeOK, Allocated, Retired, Pointers, Places
<1>12. CountsOwners'
  <2> SUFFICES ASSUME NEW x \in Objects
               PROVE  (Owners(x) # {} =>
                         IF kind[x] = "shared"
                         THEN word[x] = 2 * Cardinality(Owners(x)) - 1
                         ELSE \A a, b \in Owners(x) : a = b)'
    BY DEF CountsOwners
  <2>1. CASE x = o
    BY <2>1, <1>1, <1>2, <1>3, <1>4, <1>5, <1>6, <1>7, <1>8, <1>9, RefCountAssumption DEF CountsOwners, TypeOK, Pointers, Places
  <2>2. CASE x # o
    BY <2>2, <1>1, <1>2, <1>3, <1>4, <1>5, <1>6, <1>7, <1>8, <1>9, RefCountAssumption DEF CountsOwners, TypeOK, Pointers, Places
  <2>3. QED
    BY <2>1, <2>2
<1>13. RetiredOnce'
  <2> SUFFICES ASSUME NEW x \in Objects
               PROVE  (/\ Allocated(x) /\ Owners(x) = {} => Retired(x) \/ Dying(x)
                       /\ Dying(x) => ~Retired(x)
                       /\ \A a, b \in Threads : dying[a] = x /\ dying[b] = x => a = b)'
    BY DEF RetiredOnce
  <2>1. CASE x = o
    BY <2>1, <1>1, <1>2, <1>3, <1>4, <1>5, <1>6, <1>7, <1>8, <1>9, RefCountAssumption DEF RetiredOnce, TypeOK, Allocated, Retired, Dying, Pointers, Places
  <2>2. CASE x # o
    BY <2>2, <1>1, <1>2, <1>3, <1>4, <1>5, <1>6, <1>7, <1>8, <1>9, RefCountAssumption DEF RetiredOnce, TypeOK, Allocated, Retired, Dying, Pointers, Places
  <2>3. QED
    BY <2>1, <2>2
<1>14. MutExclusive'
  BY <1>1, <1>2, <1>3, <1>4, <1>5, <1>6, <1>7, <1>8, <1>9, RefCountAssumption DEF MutExclusive, TypeOK, Pointers, Places
<1>15. EvenWithoutOwner'
  <2> SUFFICES ASSUME NEW x \in Objects
               PROVE  (Owners(x) = {} \/ kind[x] = "unique" => word[x] % 2 = 0)'
    BY DEF EvenWithoutOwner
  <2>1. CASE x = o
    BY <2>1, <1>1, <1>2, <1>3, <1>4, <1>5, <1>6, <1>7, <1>8, <1>9, RefCountAssumption DEF EvenWithoutOwner, TypeOK, Pointers, Places
  <2>2. CASE x # o
    BY <2>2, <1>1, <1>2, <1>3, <1>4, <1>5, <1>6, <1>7, <1>8, <1>9, RefCountAssumption DEF EvenWithoutOwner, TypeOK, Pointers, Places
  <2>3. QED
    BY <2>1, <2>2
<1>16. PtrsHeld'
  BY <1>1, <1>2, <1>3, <1>4, <1>5, <1>6, <1>7, <1>8, <1>9, RefCountAssumption DEF PtrsHeld, TypeOK, Retired, Pointers, Places
<1>17. FreeIsBare'
  BY <1>1, <1>2, <1>3, <1>4, <1>5, <1>6, <1>7, <1>8, <1>9, RefCountAssumption DEF FreeIsBare, TypeOK, Allocated, Retired, Dying, Pointers, Places
<1>18. StaysUnowned
  BY <1>1, <1>2, <1>3, <1>4, <1>5, <1>6, <1>7, <1>8, <1>9 DEF StaysUnowned, Allocated
<1>19. QED
  BY <1>10, <1>11, <1>12, <1>13, <1>14, <1>15, <1>16, <1>17, <1>18 DEF IInv

(* The memory of an object without other owners is freed.                  *)
LEMMA FreeInv ==
    ASSUME IInv, NEW t \in Threads, NEW o \in Objects, NEW S \in SUBSET Handles,
           dying[t] = Null, Owners(o) \subseteq S, S \cap borrowed = {},
           S \subseteq Owners(o), \A u \in Threads : o \notin ptrs[u], ~Dying(o),
           Allocated(o), Free(t, o, S),
           guarded' = guarded, held' = held, ptrs' = ptrs, borrowed' = borrowed,
           life' = [life EXCEPT ![o] = "live"]
    PROVE  IInv' /\ StaysUnowned
<1>1. TypeOK /\ NoDangling /\ CountsOwners /\ RetiredOnce /\ MutExclusive
      /\ EvenWithoutOwner /\ PtrsHeld /\ FreeIsBare
  BY DEF IInv
<1>2. /\ kind' = [kind EXCEPT ![o] = "free"] /\ o \notin S /\ o \in Places
      /\ at' = [q \in Places |-> IF q \in S \cup {o} THEN Null ELSE at[q]]
      /\ DropRef(t, at[o], [word EXCEPT ![o] = 0])
  BY RefCountAssumption DEF Free, Places
<1>3. PICK f \in Pointers : f = at[o]
  BY <1>1, <1>2 DEF TypeOK
<1>4. /\ Owners(o)' = {} /\ f # o
      /\ \A x \in Objects \ {o} : Owners(x)' = Owners(x) \ {o}
      /\ \A x \in Objects \ {o, f} : Owners(x)' = Owners(x)
  <2>1. \A x \in Objects : Owners(x)' = Owners(x) \ (S \cup {o})
    BY <1>1, <1>2, LoseOwners
  <2>2. \A q \in S : at[q] = o
    BY DEF Owners
  <2>3. \A x \in Objects \ {o} : Owners(x) \cap S = {}
    BY <2>2 DEF Owners
  <2>4. f # o
    BY <1>2, <1>3 DEF Owners
  <2>5. \A x \in Objects \ {f} : o \notin Owners(x)
    BY <1>3 DEF Owners
  <2>6. QED
    BY <2>1, <2>3, <2>4, <2>5
<1>5. /\ \A q \in Places : at'[q] # Null => at'[q] = at[q] /\ at[q] # o
      /\ \A h \in borrowed : at[h] # o /\ at'[h] = at[h]
      /\ at'[o] = Null /\ at' \in [Places -> Pointers]
      /\ \A q \in Places : \A x \in Objects : at'[q] = x => Owners(x)' # {}
  <2>1. \A q \in Places : at'[q] # Null => at'[q] = at[q] /\ at[q] # o
    BY <1>2, <1>4 DEF Owners
  <2>2. \A h \in borrowed : at[h] # o /\ at'[h] = at[h]
    BY <1>1, <1>2, RefCountAssumption DEF MutExclusive, Owners, TypeOK, Places
  <2>3. at'[o] = Null /\ at' \in [Places -> Pointers]
    BY <1>1, <1>2 DEF TypeOK, Pointers
  <2>4. \A q \in Places : \A x \in Objects : at'[q] = x => Owners(x)' # {}
    BY DEF Owners
  <2>5. QED
    BY <2>1, <2>2, <2>3, <2>4
<1>6. f \in Objects =>
        /\ Allocated(f) /\ ~Retired(f) /\ ~Dying(f)
        /\ \A h \in borrowed : at[h] # f
        /\ \/ /\ Owners(f)' = {} /\ word'[f] % 2 = 0 /\ word'[f] \in Nat
              /\ dying' = [dying EXCEPT ![t] = f]
           \/ /\ Owners(f)' # {} /\ kind[f] = "shared" /\ dying' = dying
              /\ word'[f] = 2 * Cardinality(Owners(f)') - 1 /\ word'[f] \in Nat
  <2> HAVE f \in Objects
  <2> DEFINE w == [word EXCEPT ![o] = 0]
  <2>1. /\ w[f] = word[f] /\ Owners(f)' = Owners(f) \ {o}
        /\ o \in Owners(f)
    <3>1. w[f] = word[f]
      BY <1>1, <1>4 DEF TypeOK
    <3>2. o \in Owners(f)
      BY <1>2, <1>3 DEF Owners
    <3>3. QED
      BY <1>4, <3>1, <3>2
  <2>2. o \notin borrowed /\ DropRef(t, f, w)
    BY <1>1, <1>2, <1>3, RefCountAssumption DEF TypeOK
  <2> HIDE DEF w
  <2>3. QED
    BY <2>1, <2>2, DropRefCounts
<1>7. /\ \A x \in Objects \ {o, f} : word'[x] = word[x]
      /\ f = Null => dying' = dying
      /\ word'[o] = 0 /\ word' \in [Objects -> Nat] /\ dying' \in [Threads -> Pointers]
      /\ \A x \in Objects : Dying(x)' => Dying(x) \/ (x = f /\ Owners(f)' = {})
  <2>1. /\ \A x \in Objects \ {o, f} : word'[x] = word[x]
        /\ word'[o] = 0 /\ (f = Null => dying' = dying)
    BY <1>1, <1>2, <1>3, <1>4, RefCountAssumption DEF DropRef, TypeOK
  <2>2. word' \in [Objects -> Nat] /\ dying' \in [Threads -> Pointers]
    BY <1>1, <1>2, <1>3, <1>4 DEF DropRef, TypeOK, Pointers, Decremented
  <2>3. \A x \in Objects : Dying(x)' => Dying(x) \/ (x = f /\ Owners(f)' = {})
    <3>1. CASE f = Null
      BY <2>1, <3>1 DEF Dying
    <3>2. CASE f \in Objects
      BY <1>1, <1>6, <3>2 DEF Dying, TypeOK
    <3>3. QED
      BY <3>1, <3>2 DEF Pointers
  <2>4. QED
    BY <2>1, <2>2, <2>3
<1>8. TypeOK'
  BY <1>1, <1>2, <1>3, <1>4, <1>5, <1>6, <1>7, RefCountAssumption, ZeroEven DEF TypeOK, Pointers
<1>9. NoDangling'
  BY <1>1, <1>2, <1>3, <1>4, <1>5, <1>6, <1>7, RefCountAssumption, ZeroEven DEF NoDangling, TypeOK, Allocated, Retired, Pointers
<1>10. CountsOwners'
  <2> SUFFICES ASSUME NEW x \in Objects
               PROVE  (Owners(x) # {} =>
                         IF kind[x] = "shared"
                         THEN word[x] = 2 * Cardinality(Owners(x)) - 1
                         ELSE \A a, b \in Owners(x) : a = b)'
    BY DEF CountsOwners
  <2>1. CASE x = o
    BY <2>1, <1>1, <1>2, <1>3, <1>4, <1>5, <1>6, <1>7, RefCountAssumption, ZeroEven DEF CountsOwners, TypeOK, Pointers
  <2>2. CASE x = f /\ x # o
    BY <2>2, <1>1, <1>2, <1>3, <1>4, <1>5, <1>6, <1>7, RefCountAssumption, ZeroEven DEF CountsOwners, TypeOK, Pointers
  <2>3. CASE x # f /\ x # o
    BY <2>3, <1>1, <1>2, <1>3, <1>4, <1>5, <1>6, <1>7, RefCountAssumption, ZeroEven DEF CountsOwners, TypeOK, Pointers
  <2>4. QED
    BY <2>1, <2>2, <2>3
<1>11. RetiredOnce'
  <2> SUFFICES ASSUME NEW x \in Objects
               PROVE  (/\ Allocated(x) /\ Owners(x) = {} => Retired(x) \/ Dying(x)
                       /\ Dying(x) => ~Retired(x)
                       /\ \A a, b \in Threads : dying[a] = x /\ dying[b] = x => a = b)'
    BY DEF RetiredOnce
  <2>1. CASE x = o
    BY <2>1, <1>1, <1>2, <1>3, <1>4, <1>5, <1>6, <1>7, RefCountAssumption, ZeroEven DEF RetiredOnce, TypeOK, Allocated, Retired, Dying, Pointers
  <2>2. CASE x = f /\ x # o
    BY <2>2, <1>1, <1>2, <1>3, <1>4, <1>5, <1>6, <1>7, RefCountAssumption, ZeroEven DEF RetiredOnce, TypeOK, Allocated, Retired, Dying, Pointers
  <2>3. CASE x # f /\ x # o
    BY SMTT(30), <2>3, <1>1, <1>2, <1>3, <1>4, <1>5, <1>6, <1>7, RefCountAssumption, ZeroEven DEF RetiredOnce, TypeOK, Allocated, Retired, Dying, Pointers
  <2>4. QED
    BY <2>1, <2>2, <2>3
<1>12. MutExclusive'
  <2> SUFFICES ASSUME NEW h \in borrowed'
               PROVE  (/\ at[h] # Null /\ Owners(at[h]) = {h}
                       /\ \A u \in Threads : at[h] \notin ptrs[u])'
    BY DEF MutExclusive
  <2>1. PICK x \in Objects : x = at[h]
    BY <1>1, RefCountAssumption DEF MutExclusive, TypeOK, Places, Pointers
  <2>2. Owners(x)' = {h} /\ at'[h] = x
    BY <1>1, <1>4, <1>5, <1>6, <2>1 DEF MutExclusive
  <2>3. QED
    BY <1>1, <2>1, <2>2, RefCountAssumption DEF MutExclusive, Pointers
<1>13. EvenWithoutOwner'
  <2> SUFFICES ASSUME NEW x \in Objects
               PROVE  (Owners(x) = {} \/ kind[x] = "unique" => word[x] % 2 = 0)'
    BY DEF EvenWithoutOwner
  <2>1. CASE x = o
    BY <2>1, <1>1, <1>2, <1>3, <1>4, <1>5, <1>6, <1>7, RefCountAssumption, ZeroEven DEF EvenWithoutOwner, TypeOK, Pointers
  <2>2. CASE x = f /\ x # o
    BY <2>2, <1>1, <1>2, <1>3, <1>4, <1>5, <1>6, <1>7, RefCountAssumption, ZeroEven DEF EvenWithoutOwner, TypeOK, Pointers
  <2>3. CASE x # f /\ x # o
    BY <2>3, <1>1, <1>2, <1>3, <1>4, <1>5, <1>6, <1>7, RefCountAssumption, ZeroEven DEF EvenWithoutOwner, TypeOK, Pointers
  <2>4. QED
    BY <2>1, <2>2, <2>3
<1>14. PtrsHeld'
  BY <1>1, <1>2, <1>3, <1>4, <1>5, <1>6, <1>7, RefCountAssumption, ZeroEven DEF PtrsHeld, TypeOK, Retired, Pointers
<1>15. FreeIsBare'
  BY <1>1, <1>2, <1>3, <1>4, <1>5, <1>6, <1>7, RefCountAssumption, ZeroEven DEF FreeIsBare, TypeOK, Allocated, Retired, Places, Pointers
<1>16. StaysUnowned
  BY <1>1, <1>2, <1>3, <1>4, <1>5, <1>6, <1>7 DEF StaysUnowned, Allocated
<1>17. QED
  BY <1>8, <1>9, <1>10, <1>11, <1>12, <1>13, <1>14, <1>15, <1>16 DEF IInv

(* A thread opens its first guard.                                         *)
LEMMA OpenGuardInv ==
    ASSUME IInv, NEW t \in Threads, OpenGuard(t)
    PROVE  IInv' /\ StaysUnowned
<1>1. TypeOK /\ NoDangling /\ CountsOwners /\ RetiredOnce /\ MutExclusive
      /\ EvenWithoutOwner /\ PtrsHeld /\ FreeIsBare
  BY DEF IInv
<1>2. /\ guarded' = guarded \cup {t} /\ t \notin guarded
      /\ UNCHANGED <<life, held, at, kind, word, ptrs, dying, borrowed>>
  BY DEF OpenGuard, Enter
<1>3. \A x : Owners(x)' = Owners(x)
  BY <1>2, SameOwners
<1>4. TypeOK'
  BY <1>1, <1>2, <1>3 DEF TypeOK
<1>5. NoDangling'
  BY <1>1, <1>2, <1>3 DEF NoDangling, TypeOK, Allocated, Retired, Dying
<1>6. CountsOwners'
  <2> SUFFICES ASSUME NEW x \in Objects
               PROVE  (Owners(x) # {} =>
                         IF kind[x] = "shared"
                         THEN word[x] = 2 * Cardinality(Owners(x)) - 1
                         ELSE \A a, b \in Owners(x) : a = b)'
    BY DEF CountsOwners
  <2>1. QED
    BY <1>1, <1>2, <1>3 DEF CountsOwners, TypeOK
<1>7. RetiredOnce'
  <2> SUFFICES ASSUME NEW x \in Objects
               PROVE  (/\ Allocated(x) /\ Owners(x) = {} => Retired(x) \/ Dying(x)
                       /\ Dying(x) => ~Retired(x)
                       /\ \A a, b \in Threads : dying[a] = x /\ dying[b] = x => a = b)'
    BY DEF RetiredOnce
  <2>1. QED
    BY <1>1, <1>2, <1>3 DEF RetiredOnce, TypeOK, Allocated, Retired, Dying
<1>8. MutExclusive'
  BY <1>1, <1>2, <1>3 DEF MutExclusive, TypeOK
<1>9. EvenWithoutOwner'
  <2> SUFFICES ASSUME NEW x \in Objects
               PROVE  (Owners(x) = {} \/ kind[x] = "unique" => word[x] % 2 = 0)'
    BY DEF EvenWithoutOwner
  <2>1. QED
    BY <1>1, <1>2, <1>3 DEF EvenWithoutOwner, TypeOK
<1>10. PtrsHeld'
  BY <1>1, <1>2, <1>3 DEF PtrsHeld, TypeOK, Retired
<1>11. FreeIsBare'
  BY <1>1, <1>2, <1>3 DEF FreeIsBare, TypeOK, Allocated, Retired, Dying
<1>12. StaysUnowned
  BY <1>1, <1>2, <1>3 DEF StaysUnowned, Allocated
<1>13. QED
  BY <1>4, <1>5, <1>6, <1>7, <1>8, <1>9, <1>10, <1>11, <1>12 DEF IInv

(* A thread closes its last guard.                                         *)
LEMMA CloseGuardInv ==
    ASSUME IInv, NEW t \in Threads, CloseGuard(t)
    PROVE  IInv' /\ StaysUnowned
<1>1. TypeOK /\ NoDangling /\ CountsOwners /\ RetiredOnce /\ MutExclusive
      /\ EvenWithoutOwner /\ PtrsHeld /\ FreeIsBare
  BY DEF IInv
<1>2. /\ guarded' = guarded \ {t} /\ held' = [held EXCEPT ![t] = {}]
      /\ ptrs' = [ptrs EXCEPT ![t] = {}]
      /\ UNCHANGED <<life, at, kind, word, dying, borrowed>>
  BY DEF CloseGuard, Exit
<1>3. \A x : Owners(x)' = Owners(x)
  BY <1>2, SameOwners
<1>4. TypeOK'
  BY <1>1, <1>2, <1>3 DEF TypeOK
<1>5. NoDangling'
  BY <1>1, <1>2, <1>3 DEF NoDangling, TypeOK, Allocated, Retired, Dying
<1>6. CountsOwners'
  <2> SUFFICES ASSUME NEW x \in Objects
               PROVE  (Owners(x) # {} =>
                         IF kind[x] = "shared"
                         THEN word[x] = 2 * Cardinality(Owners(x)) - 1
                         ELSE \A a, b \in Owners(x) : a = b)'
    BY DEF CountsOwners
  <2>1. QED
    BY <1>1, <1>2, <1>3 DEF CountsOwners, TypeOK
<1>7. RetiredOnce'
  <2> SUFFICES ASSUME NEW x \in Objects
               PROVE  (/\ Allocated(x) /\ Owners(x) = {} => Retired(x) \/ Dying(x)
                       /\ Dying(x) => ~Retired(x)
                       /\ \A a, b \in Threads : dying[a] = x /\ dying[b] = x => a = b)'
    BY DEF RetiredOnce
  <2>1. QED
    BY <1>1, <1>2, <1>3 DEF RetiredOnce, TypeOK, Allocated, Retired, Dying
<1>8. MutExclusive'
  BY <1>1, <1>2, <1>3 DEF MutExclusive, TypeOK
<1>9. EvenWithoutOwner'
  <2> SUFFICES ASSUME NEW x \in Objects
               PROVE  (Owners(x) = {} \/ kind[x] = "unique" => word[x] % 2 = 0)'
    BY DEF EvenWithoutOwner
  <2>1. QED
    BY <1>1, <1>2, <1>3 DEF EvenWithoutOwner, TypeOK
<1>10. PtrsHeld'
  BY <1>1, <1>2, <1>3 DEF PtrsHeld, TypeOK, Retired
<1>11. FreeIsBare'
  BY <1>1, <1>2, <1>3 DEF FreeIsBare, TypeOK, Allocated, Retired, Dying
<1>12. StaysUnowned
  BY <1>1, <1>2, <1>3 DEF StaysUnowned, Allocated
<1>13. QED
  BY <1>4, <1>5, <1>6, <1>7, <1>8, <1>9, <1>10, <1>11, <1>12 DEF IInv

(* A thread passes an object to the collector.                             *)
LEMMA PassToCollectorInv ==
    ASSUME IInv, NEW t \in Threads, NEW link \in Links, PassToCollector(t, link)
    PROVE  IInv' /\ StaysUnowned
<1>1. TypeOK /\ NoDangling /\ CountsOwners /\ RetiredOnce /\ MutExclusive
      /\ EvenWithoutOwner /\ PtrsHeld /\ FreeIsBare
  BY DEF IInv
<1>2. PICK o \in Objects : dying[t] = o
  BY <1>1, RefCountAssumption DEF PassToCollector, Running, TypeOK, Pointers
<1>3. /\ life' = [life EXCEPT ![o] = "retired"]
      /\ held' = [u \in Threads |-> IF u \in guarded THEN held[u] \cup {o} ELSE held[u]]
      /\ word' = [word EXCEPT ![o] = link] /\ link \in Nat /\ link % 2 = 0
      /\ dying' = [dying EXCEPT ![t] = Null] /\ guarded' = guarded
      /\ UNCHANGED <<at, kind, ptrs, borrowed>>
  BY <1>2, RefCountAssumption DEF PassToCollector, RetireObject
<1>4. \A x : Owners(x)' = Owners(x)
  BY <1>3, SameOwners
<1>5. /\ Dying(o) /\ ~Retired(o) /\ Owners(o) = {} /\ Allocated(o)
      /\ \A u \in Threads : dying'[u] # o
      /\ \A x \in Objects \ {o} : Dying(x)' <=> Dying(x)
  <2>1. Dying(o) /\ ~Retired(o) /\ Allocated(o)
    BY <1>1, <1>2 DEF Dying, RetiredOnce, FreeIsBare
  <2>2. Owners(o) = {}
    BY <1>1, <2>1, RefCountAssumption DEF NoDangling, Owners
  <2>3. \A u \in Threads : dying'[u] # o
    BY <1>1, <1>2, <1>3, RefCountAssumption DEF RetiredOnce, TypeOK
  <2>4. \A x \in Objects \ {o} : Dying(x)' <=> Dying(x)
    BY <1>1, <1>2, <1>3, RefCountAssumption DEF Dying, TypeOK
  <2>5. QED
    BY <2>1, <2>2, <2>3, <2>4
<1>6. TypeOK'
  BY <1>1, <1>2, <1>3, <1>4, <1>5, RefCountAssumption DEF TypeOK, Pointers
<1>7. NoDangling'
  BY <1>1, <1>2, <1>3, <1>4, <1>5, RefCountAssumption DEF NoDangling, TypeOK, Allocated, Retired, Pointers
<1>8. CountsOwners'
  <2> SUFFICES ASSUME NEW x \in Objects
               PROVE  (Owners(x) # {} =>
                         IF kind[x] = "shared"
                         THEN word[x] = 2 * Cardinality(Owners(x)) - 1
                         ELSE \A a, b \in Owners(x) : a = b)'
    BY DEF CountsOwners
  <2>1. CASE x = o
    BY <2>1, <1>1, <1>2, <1>3, <1>4, <1>5, RefCountAssumption DEF CountsOwners, TypeOK, Pointers
  <2>2. CASE x # o
    BY <2>2, <1>1, <1>2, <1>3, <1>4, <1>5, RefCountAssumption DEF CountsOwners, TypeOK, Pointers
  <2>3. QED
    BY <2>1, <2>2
<1>9. RetiredOnce'
  <2> SUFFICES ASSUME NEW x \in Objects
               PROVE  (/\ Allocated(x) /\ Owners(x) = {} => Retired(x) \/ Dying(x)
                       /\ Dying(x) => ~Retired(x)
                       /\ \A a, b \in Threads : dying[a] = x /\ dying[b] = x => a = b)'
    BY DEF RetiredOnce
  <2>1. CASE x = o
    BY <2>1, <1>1, <1>2, <1>3, <1>4, <1>5, RefCountAssumption DEF RetiredOnce, TypeOK, Allocated, Retired, Dying, Pointers
  <2>2. CASE x # o
    BY <2>2, <1>1, <1>2, <1>3, <1>4, <1>5, RefCountAssumption DEF RetiredOnce, TypeOK, Allocated, Retired, Dying, Pointers
  <2>3. QED
    BY <2>1, <2>2
<1>10. MutExclusive'
  BY <1>1, <1>2, <1>3, <1>4, <1>5, RefCountAssumption DEF MutExclusive, TypeOK, Pointers
<1>11. EvenWithoutOwner'
  <2> SUFFICES ASSUME NEW x \in Objects
               PROVE  (Owners(x) = {} \/ kind[x] = "unique" => word[x] % 2 = 0)'
    BY DEF EvenWithoutOwner
  <2>1. CASE x = o
    BY <2>1, <1>1, <1>2, <1>3, <1>4, <1>5, RefCountAssumption DEF EvenWithoutOwner, TypeOK, Pointers
  <2>2. CASE x # o
    BY <2>2, <1>1, <1>2, <1>3, <1>4, <1>5, RefCountAssumption DEF EvenWithoutOwner, TypeOK, Pointers
  <2>3. QED
    BY <2>1, <2>2
<1>12. PtrsHeld'
  BY <1>1, <1>2, <1>3, <1>4, <1>5, RefCountAssumption DEF PtrsHeld, TypeOK, Retired, Pointers
<1>13. FreeIsBare'
  BY <1>1, <1>2, <1>3, <1>4, <1>5, RefCountAssumption DEF FreeIsBare, TypeOK, Allocated, Retired, Dying, Pointers
<1>14. StaysUnowned
  BY <1>1, <1>2, <1>3, <1>4, <1>5 DEF StaysUnowned, Allocated
<1>15. QED
  BY <1>6, <1>7, <1>8, <1>9, <1>10, <1>11, <1>12, <1>13, <1>14 DEF IInv

(* Nothing is allocated at first.                                          *)
LEMMA InitInv == Init => IInv
<1> SUFFICES ASSUME Init PROVE IInv
  OBVIOUS
<1>1. \A o \in Objects : Owners(o) = {}
  BY RefCountAssumption DEF Init, Owners
<1>2. TypeOK
  BY DEF Init, AbstractInit, TypeOK, Pointers
<1>3. NoDangling /\ RetiredOnce /\ PtrsHeld /\ FreeIsBare
  BY RefCountAssumption DEF Init, AbstractInit, NoDangling, RetiredOnce, PtrsHeld, FreeIsBare, Allocated, Retired, Dying, Places
<1>4. CountsOwners /\ MutExclusive
  BY <1>1 DEF Init, CountsOwners, MutExclusive
<1>5. EvenWithoutOwner
  BY ZeroEven DEF Init, EvenWithoutOwner
<1>6. QED
  BY <1>2, <1>3, <1>4, <1>5 DEF IInv

(* Each operation preserves the invariant, and revives nothing.            *)
LEMMA HandleInv ==
    ASSUME IInv, HandleStep
    PROVE  IInv' /\ StaysUnowned
<1>1. ASSUME NEW h \in Handles, NEW o \in Objects, NewShared(h, o) \/ NewOwned(h, o)
      PROVE  IInv' /\ StaysUnowned
  BY <1>1, NewInv DEF NewShared, NewOwned
<1>2. ASSUME NEW h \in Handles, NEW g \in Handles, CloneShared(h, g)
      PROVE  IInv' /\ StaysUnowned
  <2>1. PICK o \in Objects : o = at[h]
    BY <1>2, RefCountAssumption DEF CloneShared, IsShared, IInv, TypeOK, Places, Pointers
  <2>2. Owners(o) # {} /\ kind[o] = "shared" /\ at[g] = Null /\ h \notin borrowed
    BY <1>2, <2>1 DEF CloneShared, IsShared, Usable, Owners, Places
  <2>3. \A b \in borrowed : at[b] # o
    BY <2>1, <2>2 DEF IInv, MutExclusive, Owners, Places
  <2>4. /\ at' = [at EXCEPT ![g] = o] /\ AddRef(o)
        /\ UNCHANGED <<guarded, life, held, kind, ptrs, dying, borrowed>>
    BY <1>2, <2>1 DEF CloneShared, avars
  <2>5. QED
    BY <2>2, <2>3, <2>4, AddOwnerInv
<1>3. QED
  BY <1>1, <1>2, BorrowInv, ReturnInv DEF HandleStep

(* The same of the steps that read or change a cell,                       *)
LEMMA CellInv ==
    ASSUME IInv, NEW t \in Threads, CellStep(t)
    PROVE  IInv' /\ StaysUnowned
<1>1. ASSUME NEW p \in Cells \cup Objects, Load(t, p)
      PROVE  IInv' /\ StaysUnowned
  <2>1. p \in Places /\ p \notin Handles
    BY RefCountAssumption DEF Places
  <2>2. \A h \in borrowed : at[h] # at[p] \/ at[p] = Null
    BY <2>1 DEF IInv, TypeOK, MutExclusive, Owners
  <2>3. QED
    BY <1>1, <2>1, <2>2, GainPtrInv DEF Load, avars
<1>2. ASSUME NEW p \in Cells \cup Objects, NEW h \in Handles, Swap(t, p, h)
      PROVE  IInv' /\ StaysUnowned
  <2>1. ptrs' = [ptrs EXCEPT ![t] = @ \cup {}]
    BY <1>2 DEF Swap, IInv, TypeOK
  <2>2. QED
    BY <1>2, <2>1, ExchangeInv DEF Swap, avars
<1>3. ASSUME NEW p \in Cells \cup Objects, NEW h \in Handles, NEW c \in Pointers,
             CompareExchange(t, p, c, h)
      PROVE  IInv' /\ StaysUnowned
  BY <1>3, ExchangeInv DEF CompareExchange, GetPtr, avars
<1>4. QED
  BY <1>1, <1>2, <1>3 DEF CellStep, AtomicSharedStep, AtomicOwnedStep, Cells,
       CompareExchangeFails, LoadOwned, SwapOwned, CompareExchangeOwned,
       CompareExchangeOwnedFails

(* of those that drop a reference,                                         *)
LEMMA DropStepInv ==
    ASSUME IInv, NEW t \in Threads, DropStep(t)
    PROVE  IInv' /\ StaysUnowned
<1>1. ASSUME NEW h \in Handles, DropInPlaceShared(t, h) \/ DropInPlaceOwned(t, h)
      PROVE  IInv' /\ StaysUnowned
  <2>1. PICK o \in Objects : o = at[h]
    BY <1>1, RefCountAssumption DEF DropInPlaceShared, DropInPlaceOwned, IsShared, IsOwned, IInv, TypeOK, Places, Pointers
  <2>2. h \in Owners(o) /\ h \notin borrowed
    BY <1>1, <2>1 DEF DropInPlaceShared, DropInPlaceOwned, DropInPlace, Usable, Owners, Places
  <2>3. Allocated(o) /\ ~Dying(o) /\ ~Retired(o) /\ o # Null
    BY <2>1, RefCountAssumption DEF IInv, NoDangling, Places
  <2>4. Owners(o) = {h}
    <3>1. CASE kind[o] = "shared"
      <4>1. word[o] = 1 /\ word[o] = 2 * Cardinality(Owners(o)) - 1
        BY <1>1, <2>1, <2>2, <3>1 DEF DropInPlaceShared, DropInPlaceOwned, IsOwned, LastRef, IInv, CountsOwners
      <4>2. Cardinality(Owners(o)) = 1
        BY <4>1, OwnersFinite
      <4>3. QED
        BY <4>2, <2>2, OwnersFinite
    <3>2. CASE kind[o] # "shared"
      BY <2>2, <3>2 DEF IInv, CountsOwners
    <3>3. QED
      BY <3>1, <3>2
  <2>5. /\ Free(t, o, {h}) /\ dying[t] = Null /\ \A u \in Threads : o \notin ptrs[u]
        /\ UNCHANGED <<guarded, life, held, ptrs, borrowed>>
    BY <1>1, <2>1 DEF DropInPlaceShared, DropInPlaceOwned, DropInPlace, Running, avars
  <2>6. life' = [life EXCEPT ![o] = "live"]
    BY <2>3, <2>5 DEF Retired, IInv, TypeOK
  <2>7. QED
    BY <2>2, <2>3, <2>4, <2>5, <2>6, FreeInv
<1>2. ASSUME NEW o \in Objects, DropCollected(t, o)
      PROVE  IInv' /\ StaysUnowned
  <2>1. /\ Retired(o) /\ \A u \in Threads : o \notin held[u]
        /\ life' = [life EXCEPT ![o] = "live"] /\ dying[t] = Null /\ Free(t, o, {})
        /\ UNCHANGED <<guarded, held, ptrs, borrowed>>
    BY <1>2 DEF DropCollected, Reclaim, Running, Retired
  <2>2. Owners(o) = {} /\ Allocated(o) /\ ~Dying(o)
    BY <2>1, RefCountAssumption DEF IInv, NoDangling, RetiredOnce, FreeIsBare, Owners
  <2>3. \A u \in Threads : o \notin ptrs[u]
    BY <2>1 DEF IInv, PtrsHeld
  <2>4. QED
    BY <2>1, <2>2, <2>3, FreeInv
<1>3. QED
  BY <1>1, <1>2, DropInv, PassToCollectorInv
     DEF DropStep, DropShared, DropOwned, DropAtomicShared, DropAtomicOwned

(* and of those that need a guard only.                                    *)
LEMMA GuardInv ==
    ASSUME IInv, NEW t \in Threads, GuardStep(t)
    PROVE  IInv' /\ StaysUnowned
<1>1. ASSUME NEW h \in Handles, GetGuardedPtr(t, h)
      PROVE  IInv' /\ StaysUnowned
  <2>1. h \in Places /\ h \notin borrowed
    BY <1>1 DEF GetGuardedPtr, Usable, Places
  <2>2. \A g \in borrowed : at[g] # at[h] \/ at[h] = Null
    BY <2>1 DEF IInv, MutExclusive, Owners
  <2>3. QED
    BY <1>1, <2>1, <2>2, GainPtrInv DEF GetGuardedPtr, avars
<1>2. ASSUME NEW h \in Handles, NEW o \in Objects, GetShared(t, o, h)
      PROVE  IInv' /\ StaysUnowned
  <2>1. o \in ptrs[t] /\ word[o] % 2 = 1 /\ at[h] = Null
    BY <1>2 DEF GetShared, Countable
  <2>2. Owners(o) # {} /\ kind[o] # "unique"
    BY <2>1 DEF IInv, EvenWithoutOwner
  <2>3. kind[o] = "shared" /\ \A g \in borrowed : at[g] # o
    BY <2>1, <2>2 DEF IInv, TypeOK, NoDangling, Allocated, MutExclusive
  <2>4. QED
    BY <1>2, <2>1, <2>2, <2>3, AddOwnerInv DEF GetShared, avars
<1>3. QED
  BY <1>1, <1>2, OpenGuardInv, CloseGuardInv
     DEF GuardStep, GetGuardedPtrShared, GetGuardedPtrOwned

(* Every step preserves the invariant, and revives nothing.                *)
LEMMA NextInv ==
    ASSUME IInv, [Next]_vars
    PROVE  IInv' /\ (StaysUnowned \/ UNCHANGED vars)
<1>1. CASE UNCHANGED vars
  <2>1. \A o : Owners(o)' = Owners(o)
    BY <1>1, SameOwners DEF vars
  <2>2. QED
    BY <1>1, <2>1 DEF vars, avars, IInv, TypeOK, NoDangling, CountsOwners, RetiredOnce,
        MutExclusive, EvenWithoutOwner, PtrsHeld, FreeIsBare, Allocated, Retired, Dying
<1>2. CASE Next
  BY <1>2, HandleInv, CellInv, DropStepInv, GuardInv DEF Next
<1>3. QED
  BY <1>1, <1>2

(* The invariant of a program's reference counts, and that it holds.       *)
THEOREM Invariance == Spec => []IInv
<1>1. IInv /\ [Next]_vars => IInv'
  BY NextInv
<1>2. QED
  BY <1>1, InitInv, PTL DEF Spec

(* No place and no Ptr refers to freed memory, and no place to an object   *)
(* that is, or is about to be, retired (ref_counted.rs:44-55).             *)
THEOREM NothingDangles == Spec => []NoDangling
<1>1. IInv => NoDangling
  BY DEF IInv
<1>2. QED
  BY <1>1, Invariance, PTL

(* A count is 2n - 1 for n owners (ref_counted.rs:75-115).                 *)
THEOREM CountsRight == Spec => []CountsOwners
<1>1. IInv => CountsOwners
  BY DEF IInv
<1>2. QED
  BY <1>1, Invariance, PTL

(* What has no owner is retired, or about to be by one thread, and not     *)
(* again afterwards (ref_counted.rs:97-115, 139-153).                      *)
THEOREM OnceRetired == Spec => []RetiredOnce
<1>1. IInv => RetiredOnce
  BY DEF IInv
<1>2. QED
  BY <1>1, Invariance, PTL

(* Nobody comes to what is borrowed mutably (ref_counted.rs:59-65).        *)
THEOREM BorrowExclusive == Spec => []MutExclusive
<1>1. IInv => MutExclusive
  BY DEF IInv
<1>2. QED
  BY <1>1, Invariance, PTL

(* An object without owners gets none until it is allocated anew           *)
(* (ref_counted.rs:51).                                                    *)
THEOREM NoneRevived == Spec => NeverRevived
<1>1. IInv /\ [Next]_vars
      => [\A o \in Objects :
            Allocated(o) /\ Owners(o) = {} /\ kind'[o] # "free" => Owners(o)' = {}]_vars
  BY NextInv DEF StaysUnowned
<1>2. QED
  BY <1>1, Invariance, PTL DEF Spec, NeverRevived

=============================================================================
