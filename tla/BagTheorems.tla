---------------------------- MODULE BagTheorems ----------------------------
(***************************************************************************)
(* No value is lost or popped twice, and a slot has one owner at a time,   *)
(* for every number of threads, values, arrays and slots.                  *)
(***************************************************************************)
EXTENDS BagInvariants, TLAPS

(* A non-empty sequence is its head and its tail.                          *)
LEMMA HeadAndTail ==
    ASSUME NEW S, NEW s \in Seq(S), s # <<>>
    PROVE  /\ Head(s) \in S /\ Tail(s) \in Seq(S)
           /\ Range(s) = {Head(s)} \cup Range(Tail(s))
<1>1. Head(s) \in S /\ Tail(s) \in Seq(S)
  OBVIOUS
<1>2. Range(s) \subseteq {Head(s)} \cup Range(Tail(s))
  <2> SUFFICES ASSUME NEW i \in DOMAIN s, i # 1 PROVE s[i] \in Range(Tail(s))
    BY DEF Range
  <2>1. i - 1 \in DOMAIN Tail(s) /\ Tail(s)[i - 1] = s[i]
    OBVIOUS
  <2>2. QED
    BY <2>1 DEF Range
<1>3. Range(Tail(s)) \subseteq Range(s)
  <2> SUFFICES ASSUME NEW i \in DOMAIN Tail(s) PROVE Tail(s)[i] \in Range(s)
    BY DEF Range
  <2>1. i + 1 \in DOMAIN s /\ Tail(s)[i] = s[i + 1]
    OBVIOUS
  <2>2. QED
    BY <2>1 DEF Range
<1>4. Head(s) \in Range(s)
  <2>1. 1 \in DOMAIN s /\ Head(s) = s[1]
    OBVIOUS
  <2>2. QED
    BY <2>1 DEF Range
<1>5. QED
  BY <1>1, <1>2, <1>3, <1>4

(* A sequence with an element put in front.                                *)
LEMMA Prepended ==
    ASSUME NEW S, NEW s \in Seq(S), NEW a \in S
    PROVE  <<a>> \o s \in Seq(S) /\ Range(<<a>> \o s) = {a} \cup Range(s)
<1> DEFINE r == <<a>> \o s
<1>1. /\ r \in Seq(S) /\ Len(r) = Len(s) + 1 /\ r[1] = a
      /\ \A i \in 1 .. Len(s) : r[i + 1] = s[i]
  OBVIOUS
<1> HIDE DEF r
<1>2. \A j \in DOMAIN r : j = 1 \/ (j - 1 \in DOMAIN s /\ r[j] = s[j - 1])
  <2>1. DOMAIN r = 1 .. Len(s) + 1 /\ DOMAIN s = 1 .. Len(s) /\ Len(s) \in Nat
    BY <1>1
  <2>2. \A j \in 2 .. Len(s) + 1 : j - 1 \in 1 .. Len(s) /\ r[(j - 1) + 1] = s[j - 1]
    BY <1>1, <2>1
  <2>3. \A j \in 2 .. Len(s) + 1 : (j - 1) + 1 = j
    BY <2>1
  <2>4. QED
    BY <2>1, <2>2, <2>3
<1>3. 1 \in DOMAIN r /\ \A i \in DOMAIN s : i + 1 \in DOMAIN r
  BY <1>1
<1>4. Range(r) = {a} \cup Range(s)
  <2>1. ASSUME NEW j \in DOMAIN r PROVE r[j] \in {a} \cup Range(s)
    BY <1>1, <1>2 DEF Range
  <2>2. ASSUME NEW i \in DOMAIN s PROVE s[i] \in Range(r)
    BY <1>1, <1>3 DEF Range
  <2>3. a \in Range(r)
    BY <1>1, <1>3 DEF Range
  <2>4. QED
    BY <2>1, <2>2, <2>3 DEF Range
<1>5. QED
  BY <1>1, <1>4 DEF r

(* Unlinking an array leaves all the others.                               *)
LEMMA UnlinkedOthers ==
    ASSUME NEW S, NEW s \in Seq(S), NEW a
    PROVE  /\ Unlinked(s, a) \in Seq(S)
           /\ Range(s) \ {a} \subseteq Range(Unlinked(s, a))
           /\ Unlinked(<<>>, a) = <<>>
<1>1. Unlinked(<<>>, a) = <<>>
  BY DEF Unlinked, Range
<1>2. CASE a \notin Range(s)
  BY <1>1, <1>2 DEF Unlinked
<1>3. CASE a \in Range(s)
  <2>1. PICK k \in DOMAIN s : s[k] = a /\ Unlinked(s, a) = RemoveAt(s, k)
    BY <1>3 DEF Unlinked, Range
  <2> DEFINE l == SubSeq(s, 1, k - 1)
             r == SubSeq(s, k + 1, Len(s))
  <2>2. /\ l \in Seq(S) /\ Len(l) = k - 1
        /\ \A i \in 1 .. k - 1 : l[i] = s[i]
    OBVIOUS
  <2>3. /\ r \in Seq(S) /\ Len(r) = Len(s) - k
        /\ \A i \in 1 .. Len(s) - k : r[i] = s[i + k]
    OBVIOUS
  <2> HIDE DEF l, r
  <2>0. DOMAIN s = 1 .. Len(s) /\ Len(s) \in Nat /\ k \in 1 .. Len(s)
    OBVIOUS
  <2> DEFINE w == l \o r
  <2>4. /\ w \in Seq(S) /\ Len(w) = Len(s) - 1
        /\ \A i \in 1 .. k - 1 : w[i] = s[i]
        /\ \A i \in k .. Len(s) - 1 : w[i] = r[i - (k - 1)]
    BY SMTT(30), <2>2, <2>3
  <2> HIDE DEF w
  <2>5. \A i \in k .. Len(s) - 1 : w[i] = s[i + 1]
    <3> SUFFICES ASSUME NEW i \in k .. Len(s) - 1 PROVE w[i] = s[i + 1]
      OBVIOUS
    <3>1. i - (k - 1) \in 1 .. Len(s) - k /\ (i - (k - 1)) + k = i + 1
      BY <2>0
    <3>2. QED
      BY <2>3, <2>4, <3>1
  <2>6. Unlinked(s, a) = w
    BY <2>1 DEF RemoveAt, l, r, w
  <2>7. DOMAIN w = 1 .. Len(s) - 1
    BY <2>4
  <2>8. ASSUME NEW i \in 1 .. Len(s), s[i] # a PROVE s[i] \in Range(w)
    <3>1. CASE i < k
      <4>1. i \in DOMAIN w /\ w[i] = s[i]
        BY <3>1, <2>0, <2>4, <2>7
      <4>2. QED
        BY <4>1 DEF Range
    <3>2. CASE i > k
      <4>1. i - 1 \in k .. Len(s) - 1 /\ (i - 1) + 1 = i
        BY <3>2, <2>0
      <4>2. i - 1 \in DOMAIN w /\ w[i - 1] = s[i]
        BY <4>1, <2>0, <2>5, <2>7
      <4>3. QED
        BY <4>2 DEF Range
    <3>3. QED
      BY <3>1, <3>2, <2>0, <2>1, <2>8
  <2>9. Range(s) \ {a} \subseteq Range(w)
    BY <2>0, <2>8 DEF Range
  <2>10. QED
    BY <1>1, <2>4, <2>6, <2>9
<1>4. QED
  BY <1>2, <1>3


(***************************************************************************)
(* Layer 1.                                                                *)
(***************************************************************************)

(* The control invariant holds initially.                                  *)
LEMMA ControlInit == Init => ControlInv
BY BagAssumption DEF Init, ControlInv, TypeOK, HandsAgree, Pushing, Arrays, Slots, Locations

(* The control invariant is kept by every step.                            *)
LEMMA ControlStep == ControlInv /\ [Next]_vars => ControlInv'
<1> SUFFICES ASSUME ControlInv, [Next]_vars PROVE ControlInv'
  OBVIOUS
<1> USE BagAssumption DEF Pushing
<1>1. CASE UNCHANGED vars
  BY <1>1 DEF ControlInv, TypeOK, HandsAgree, vars, words, locals, history
<1>2. CASE Next
  <2>1. ASSUME NEW t \in Threads, NEW v \in Values, Push(t, v) PROVE ControlInv'
    <3>1. TypeOK'
      BY <2>1 DEF Push, Goto, Use, words, locals, history, ControlInv, TypeOK, Locations, Arrays, Slots
    <3>2. HandsAgree'
      BY <2>1 DEF Push, Goto, Use, words, locals, history, ControlInv, TypeOK, HandsAgree
    <3>3. QED
      BY <3>1, <3>2 DEF ControlInv
  <2>2. ASSUME NEW t \in Threads, OwnSlot(t) PROVE ControlInv'
    <3>1. TypeOK'
      BY <2>2 DEF OwnSlot, Goto, Own, First, Vacant, words, locals, history, ControlInv, TypeOK, Locations, Arrays, Slots
    <3>2. HandsAgree'
      BY <2>2 DEF OwnSlot, Goto, Own, First, Vacant, words, locals, history, ControlInv, TypeOK, HandsAgree
    <3>3. QED
      BY <3>1, <3>2 DEF ControlInv
  <2>3. ASSUME NEW t \in Threads, OwnFails(t) PROVE ControlInv'
    <3>1. TypeOK'
      BY <2>3 DEF OwnFails, Goto, words, locals, history, ControlInv, TypeOK, Locations, Arrays, Slots
    <3>2. HandsAgree'
      BY <2>3 DEF OwnFails, Goto, words, locals, history, ControlInv, TypeOK, HandsAgree
    <3>3. QED
      BY <3>1, <3>2 DEF ControlInv
  <2>4. ASSUME NEW t \in Threads, Publish(t) PROVE ControlInv'
    <3>1. TypeOK'
      BY <2>4 DEF Publish, Goto, Use, Return, Disown, Holding, words, locals, history, ControlInv, TypeOK, Locations, Arrays, Slots
    <3>2. HandsAgree'
      BY <2>4 DEF Publish, Goto, Use, Return, Disown, Holding, words, locals, history, ControlInv, TypeOK, HandsAgree
    <3>3. QED
      BY <3>1, <3>2 DEF ControlInv
  <2>5. ASSUME NEW t \in Threads, PublishFails(t) PROVE ControlInv'
    <3>1. TypeOK'
      BY <2>5 DEF PublishFails, Goto, words, locals, history, ControlInv, TypeOK, Locations, Arrays, Slots
    <3>2. HandsAgree'
      BY <2>5 DEF PublishFails, Goto, words, locals, history, ControlInv, TypeOK, HandsAgree
    <3>3. QED
      BY <3>1, <3>2 DEF ControlInv
  <2>6. ASSUME NEW t \in Threads, Rollback(t) PROVE ControlInv'
    <3>1. TypeOK'
      BY <2>6 DEF Rollback, Goto, Disown, Moved, words, locals, history, ControlInv, TypeOK, Locations, Arrays, Slots
    <3>2. HandsAgree'
      BY <2>6 DEF Rollback, Goto, Disown, Moved, words, locals, history, ControlInv, TypeOK, HandsAgree
    <3>3. QED
      BY <3>1, <3>2 DEF ControlInv
  <2>7. ASSUME NEW t \in Threads, PeekForPush(t) PROVE ControlInv'
    <3>0. stack # <<>> => Head(stack) \in Storages
      BY HeadAndTail DEF ControlInv, TypeOK
    <3>1. TypeOK'
      BY <2>7, <3>0 DEF PeekForPush, Goto, Use, words, locals, history, ControlInv, TypeOK, Locations, Arrays, Slots
    <3>2. HandsAgree'
      BY <2>7, <3>0 DEF PeekForPush, Goto, Use, words, locals, history, ControlInv, TypeOK, HandsAgree
    <3>3. QED
      BY <3>1, <3>2 DEF ControlInv
  <2>8. ASSUME NEW t \in Threads, NEW a \in Storages, Grow(t, a) PROVE ControlInv'
    <3>0. stack' \in Seq(Storages)
      BY <2>8, Prepended DEF Grow, ControlInv, TypeOK
    <3>1. TypeOK'
      BY <2>8, <3>0 DEF Grow, Goto, Use, Return, Holding, words, locals, history, ControlInv, TypeOK, Locations, Arrays, Slots
    <3>2. HandsAgree'
      BY <2>8, <3>0 DEF Grow, Goto, Use, Return, Holding, words, locals, history, ControlInv, TypeOK, HandsAgree
    <3>3. QED
      BY <3>1, <3>2 DEF ControlInv
  <2>9. ASSUME NEW t \in Threads, TryPushFails(t) PROVE ControlInv'
    <3>1. TypeOK'
      BY <2>9 DEF TryPushFails, Goto, Use, Return, words, locals, history, ControlInv, TypeOK, Locations, Arrays, Slots
    <3>2. HandsAgree'
      BY <2>9 DEF TryPushFails, Goto, Use, Return, words, locals, history, ControlInv, TypeOK, HandsAgree
    <3>3. QED
      BY <3>1, <3>2 DEF ControlInv
  <2>10. ASSUME NEW t \in Threads, Pop(t) PROVE ControlInv'
    <3>1. TypeOK'
      BY <2>10 DEF Pop, Goto, words, locals, history, ControlInv, TypeOK, Locations, Arrays, Slots
    <3>2. HandsAgree'
      BY <2>10 DEF Pop, Goto, words, locals, history, ControlInv, TypeOK, HandsAgree
    <3>3. QED
      BY <3>1, <3>2 DEF ControlInv
  <2>11. ASSUME NEW t \in Threads, PeekForPop(t) PROVE ControlInv'
    <3>0. stack # <<>> => Head(stack) \in Storages
      BY HeadAndTail DEF ControlInv, TypeOK
    <3>1. TypeOK'
      BY <2>11, <3>0 DEF PeekForPop, Goto, Use, words, locals, history, ControlInv, TypeOK, Locations, Arrays, Slots
    <3>2. HandsAgree'
      BY <2>11, <3>0 DEF PeekForPop, Goto, Use, words, locals, history, ControlInv, TypeOK, HandsAgree
    <3>3. QED
      BY <3>1, <3>2 DEF ControlInv
  <2>12. ASSUME NEW t \in Threads, OwnInstance(t) PROVE ControlInv'
    <3>1. TypeOK'
      BY <2>12 DEF OwnInstance, Goto, Own, First, Available, Read, Moved, Holding, words, locals, history, ControlInv, TypeOK, Locations, Arrays, Slots
    <3>2. HandsAgree'
      BY <2>12 DEF OwnInstance, Goto, Own, First, Available, Read, Moved, Holding, words, locals, history, ControlInv, TypeOK, HandsAgree
    <3>3. QED
      BY <3>1, <3>2 DEF ControlInv
  <2>13. ASSUME NEW t \in Threads, PopFindsNone(t) PROVE ControlInv'
    <3>1. TypeOK'
      BY <2>13 DEF PopFindsNone, Goto, Use, Return, words, locals, history, ControlInv, TypeOK, Locations, Arrays, Slots
    <3>2. HandsAgree'
      BY ZenonT(60), <2>13 DEF PopFindsNone, Goto, Use, Return, words, locals, history, ControlInv, TypeOK, HandsAgree
    <3>3. QED
      BY <3>1, <3>2 DEF ControlInv
  <2>14. ASSUME NEW t \in Threads, ClearSlot(t) PROVE ControlInv'
    <3>1. TypeOK'
      BY <2>14 DEF ClearSlot, Goto, Use, Return, Disown, words, locals, history, ControlInv, TypeOK, Locations, Arrays, Slots
    <3>2. HandsAgree'
      BY ZenonT(60), <2>14 DEF ClearSlot, Goto, Use, Return, Disown, words, locals, history, ControlInv, TypeOK, HandsAgree
    <3>3. QED
      BY <3>1, <3>2 DEF ControlInv
  <2>15. ASSUME NEW t \in Threads, DeleteStorage(t) PROVE ControlInv'
    <3>0. /\ Unlinked(stack, at[t]) \in Seq(Storages)
          /\ \A u \in Threads : /\ Unlinked(popped[u], at[t]) \in Seq(Storages)
                                /\ popped[u] = <<>> => Unlinked(popped[u], at[t]) = <<>>
      BY UnlinkedOthers DEF ControlInv, TypeOK
    <3>1. TypeOK'
      BY <2>15, <3>0 DEF DeleteStorage, Goto, Use, Return, words, locals, history, ControlInv, TypeOK, Locations, Arrays, Slots
    <3>2. HandsAgree'
      BY <2>15, <3>0 DEF DeleteStorage, Goto, Use, Return, words, locals, history, ControlInv, TypeOK, HandsAgree
    <3>3. QED
      BY <3>1, <3>2 DEF ControlInv
  <2>16. ASSUME NEW t \in Threads, PopAll(t) PROVE ControlInv'
    <3>1. TypeOK'
      BY <2>16 DEF PopAll, Goto, words, locals, history, ControlInv, TypeOK, Locations, Arrays, Slots
    <3>2. HandsAgree'
      BY <2>16 DEF PopAll, Goto, words, locals, history, ControlInv, TypeOK, HandsAgree
    <3>3. QED
      BY <3>1, <3>2 DEF ControlInv
  <2>17. ASSUME NEW t \in Threads, NextStorage(t) PROVE ControlInv'
    <3>0. popped[t] # <<>> => /\ Head(popped[t]) \in Storages
                              /\ Tail(popped[t]) \in Seq(Storages)
      BY HeadAndTail DEF ControlInv, TypeOK
    <3>1. TypeOK'
      BY <2>17, <3>0 DEF NextStorage, Goto, Use, words, locals, history, ControlInv, TypeOK, Locations, Arrays, Slots
    <3>2. HandsAgree'
      BY <2>17, <3>0 DEF NextStorage, Goto, Use, words, locals, history, ControlInv, TypeOK, HandsAgree
    <3>3. QED
      BY <3>1, <3>2 DEF ControlInv
  <2>18. ASSUME NEW t \in Threads, Mark(t) PROVE ControlInv'
    <3>1. TypeOK'
      BY <2>18 DEF Mark, Goto, Own, Available, Read, Moved, Holding, words, locals, history, ControlInv, TypeOK, Locations, Arrays, Slots
    <3>2. HandsAgree'
      BY <2>18 DEF Mark, Goto, Own, Available, Read, Moved, Holding, words, locals, history, ControlInv, TypeOK, HandsAgree
    <3>3. QED
      BY <3>1, <3>2 DEF ControlInv
  <2>19. ASSUME NEW t \in Threads, MarkNothing(t) PROVE ControlInv'
    <3>1. TypeOK'
      BY <2>19 DEF MarkNothing, Goto, Use, Return, words, locals, history, ControlInv, TypeOK, Locations, Arrays, Slots
    <3>2. HandsAgree'
      BY ZenonT(60), <2>19 DEF MarkNothing, Goto, Use, Return, words, locals, history, ControlInv, TypeOK, HandsAgree
    <3>3. QED
      BY <3>1, <3>2 DEF ControlInv
  <2>20. ASSUME NEW t \in Threads, Fold(t) PROVE ControlInv'
    <3>1. TypeOK'
      BY <2>20 DEF Fold, Goto, Use, Return, Disown, words, locals, history, ControlInv, TypeOK, Locations, Arrays, Slots
    <3>2. HandsAgree'
      BY <2>20 DEF Fold, Goto, Use, Return, Disown, words, locals, history, ControlInv, TypeOK, HandsAgree
    <3>3. QED
      BY <3>1, <3>2 DEF ControlInv
  <2>21. QED
    BY <1>2, <2>1, <2>2, <2>3, <2>4, <2>5, <2>6, <2>7, <2>8, <2>9, <2>10, <2>11, <2>12, <2>13, <2>14, <2>15, <2>16, <2>17, <2>18, <2>19, <2>20 DEF Next
<1>3. QED
  BY <1>1, <1>2

(***************************************************************************)
(* Layer 2.                                                                *)
(***************************************************************************)

(* Initially no slot is owned.                                             *)
LEMMA OwnersInit == Init => SlotsHaveOneOwner
BY DEF Init, SlotsHaveOneOwner, Arrays

(* A thread without slots goes to another array.                           *)
LEMMA OwnersGo ==
    ASSUME TypeOK, SlotsHaveOneOwner, NEW t \in Threads, slots[t] = {},
           UNCHANGED <<instance, owned, slots>>,
           at' \in [Threads -> Arrays],
           \A u \in Threads \ {t} : at'[u] = at[u] /\ pc'[u] = pc[u]
    PROVE  SlotsHaveOneOwner'
<1>1. \A u \in Threads : slots[u] # {} => u # t
  OBVIOUS
<1>2. \A a \in Arrays, i \in Slots :
        i \in owned'[a] <=> \E u \in Threads : at'[u] = a /\ i \in slots'[u]
  BY <1>1 DEF SlotsHaveOneOwner
<1>3. ASSUME NEW u \in Threads, NEW w \in Threads, u # w, at'[u] = at'[w]
      PROVE  slots'[u] \cap slots'[w] = {}
  <2>1. CASE u = t \/ w = t
    BY <2>1
  <2>2. CASE u # t /\ w # t
    BY <1>3, <2>2 DEF SlotsHaveOneOwner
  <2>3. QED
    BY <2>1, <2>2
<1>4. ASSUME NEW u \in Threads
      PROVE  /\ pc'[u] \in {"publish", "rollback"} =>
                   slots'[u] \cap instance'[at'[u]] = {}
             /\ pc'[u] \in {"clear", "fold"} => slots'[u] \subseteq instance'[at'[u]]
  <2>1. CASE u = t
    BY <2>1
  <2>2. CASE u # t
    BY <2>2 DEF SlotsHaveOneOwner
  <2>3. QED
    BY <2>1, <2>2
<1>5. QED
  BY <1>2, <1>3, <1>4 DEF SlotsHaveOneOwner

(* A thread without slots takes some that nobody owns.                     *)
LEMMA OwnersTake ==
    ASSUME TypeOK, SlotsHaveOneOwner, NEW t \in Threads, slots[t] = {},
           NEW s \in SUBSET Slots, s \cap owned[at[t]] = {}, Own(t, s),
           UNCHANGED <<instance, at>>,
           \A u \in Threads \ {t} : pc'[u] = pc[u],
           pc'[t] \in {"publish", "rollback"} => s \cap instance[at[t]] = {},
           pc'[t] \in {"clear", "fold"} => s \subseteq instance[at[t]]
    PROVE  SlotsHaveOneOwner'
<1>1. /\ slots'[t] = s
      /\ \A u \in Threads \ {t} : slots'[u] = slots[u]
      /\ owned'[at[t]] = owned[at[t]] \cup s
      /\ \A a \in Arrays \ {at[t]} : owned'[a] = owned[a]
      /\ at[t] \in Arrays
  BY DEF Own, TypeOK
<1>2. ASSUME NEW a \in Arrays, NEW i \in Slots
      PROVE  i \in owned'[a] <=> \E u \in Threads : at'[u] = a /\ i \in slots'[u]
  <2>1. i \in owned[a] <=> \E u \in Threads \ {t} : at[u] = a /\ i \in slots[u]
    BY DEF SlotsHaveOneOwner
  <2>2. CASE a = at[t]
    BY <1>1, <2>1, <2>2
  <2>3. CASE a # at[t]
    BY <1>1, <2>1, <2>3
  <2>4. QED
    BY <2>2, <2>3
<1>3. ASSUME NEW u \in Threads, u # t, at[u] = at[t] PROVE slots[u] \cap s = {}
  <2>1. \A i \in slots[u] : i \in Slots /\ i \in owned[at[t]]
    BY <1>3, <1>1 DEF SlotsHaveOneOwner, TypeOK
  <2>2. QED
    BY <2>1
<1>4. ASSUME NEW u \in Threads, NEW w \in Threads, u # w, at'[u] = at'[w]
      PROVE  slots'[u] \cap slots'[w] = {}
  <2>1. CASE u = t \/ w = t
    BY <2>1, <1>1, <1>3, <1>4
  <2>2. CASE u # t /\ w # t
    BY <1>1, <1>4, <2>2 DEF SlotsHaveOneOwner
  <2>3. QED
    BY <2>1, <2>2
<1>5. ASSUME NEW u \in Threads
      PROVE  /\ pc'[u] \in {"publish", "rollback"} =>
                   slots'[u] \cap instance'[at'[u]] = {}
             /\ pc'[u] \in {"clear", "fold"} => slots'[u] \subseteq instance'[at'[u]]
  <2>1. CASE u = t
    BY <2>1, <1>1
  <2>2. CASE u # t
    BY <2>2, <1>1 DEF SlotsHaveOneOwner
  <2>3. QED
    BY <2>1, <2>2
<1>6. QED
  BY <1>2, <1>4, <1>5 DEF SlotsHaveOneOwner

(* A thread gives its slots back, with or without an instance in them.     *)
LEMMA OwnersRelease ==
    ASSUME TypeOK, SlotsHaveOneOwner, NEW t \in Threads, Disown(t),
           \A a \in Arrays \ {at[t]} : instance'[a] = instance[a],
           \A i \in Slots \ slots[t] :
              i \in instance'[at[t]] <=> i \in instance[at[t]],
           at' \in [Threads -> Arrays],
           \A u \in Threads \ {t} : at'[u] = at[u] /\ pc'[u] = pc[u]
    PROVE  SlotsHaveOneOwner'
<1>1. /\ slots'[t] = {}
      /\ \A u \in Threads \ {t} : slots'[u] = slots[u]
      /\ owned'[at[t]] = owned[at[t]] \ slots[t]
      /\ \A a \in Arrays \ {at[t]} : owned'[a] = owned[a]
      /\ at[t] \in Arrays
  BY DEF Disown, TypeOK
<1>2. \A u \in Threads \ {t} : at[u] = at[t] => slots[u] \cap slots[t] = {}
  BY DEF SlotsHaveOneOwner
<1>3. ASSUME NEW a \in Arrays, NEW i \in Slots
      PROVE  i \in owned'[a] <=> \E u \in Threads : at'[u] = a /\ i \in slots'[u]
  <2>1. i \in owned[a] <=> \E u \in Threads : at[u] = a /\ i \in slots[u]
    BY DEF SlotsHaveOneOwner
  <2>2. CASE a = at[t]
    BY <1>1, <1>2, <2>1, <2>2
  <2>3. CASE a # at[t]
    BY <1>1, <2>1, <2>3
  <2>4. QED
    BY <2>2, <2>3
<1>4. ASSUME NEW u \in Threads, NEW w \in Threads, u # w, at'[u] = at'[w]
      PROVE  slots'[u] \cap slots'[w] = {}
  <2>1. CASE u = t \/ w = t
    BY <2>1, <1>1
  <2>2. CASE u # t /\ w # t
    BY <1>1, <1>4, <2>2 DEF SlotsHaveOneOwner
  <2>3. QED
    BY <2>1, <2>2
<1>5. ASSUME NEW u \in Threads
      PROVE  /\ pc'[u] \in {"publish", "rollback"} =>
                   slots'[u] \cap instance'[at'[u]] = {}
             /\ pc'[u] \in {"clear", "fold"} => slots'[u] \subseteq instance'[at'[u]]
  <2>1. CASE u = t
    BY <2>1, <1>1
  <2>2. CASE u # t
    <3>1. slots[u] \subseteq Slots /\ at[u] \in Arrays
      BY DEF TypeOK
    <3>2. \A i \in slots[u] : i \in instance'[at[u]] <=> i \in instance[at[u]]
      BY <2>2, <3>1, <1>1, <1>2
    <3>3. QED
      BY <2>2, <3>2, <1>1 DEF SlotsHaveOneOwner
  <2>3. QED
    BY <2>1, <2>2
<1>6. QED
  BY <1>3, <1>4, <1>5 DEF SlotsHaveOneOwner

(* Ownership is kept by every step.                                        *)
LEMMA OwnersStep ==
    /\ ControlInv /\ SlotsHaveOneOwner /\ [Next]_vars
    /\ ControlInv'
    => SlotsHaveOneOwner'
<1> SUFFICES ASSUME ControlInv, SlotsHaveOneOwner, [Next]_vars, ControlInv'
             PROVE  SlotsHaveOneOwner'
  OBVIOUS
<1> USE BagAssumption DEF Pushing
<1>1. CASE UNCHANGED vars
  BY <1>1 DEF SlotsHaveOneOwner, vars, words, locals
<1>2. CASE Next
  <2>1. ASSUME NEW t \in Threads, NEW v \in Values, Push(t, v) PROVE SlotsHaveOneOwner'
    <3>1. /\ slots[t] = {} /\ UNCHANGED <<instance, owned, slots>>
          /\ \A u \in Threads \ {t} : at'[u] = at[u] /\ pc'[u] = pc[u]
      BY <2>1 DEF Push, Goto, Use, words, locals, history, ControlInv, TypeOK, HandsAgree
    <3>2. QED
      BY <3>1, OwnersGo DEF ControlInv, TypeOK
  <2>2. ASSUME NEW t \in Threads, OwnSlot(t) PROVE SlotsHaveOneOwner'
    <3>0. PICK i \in Vacant(at[t]) : Own(t, {i})
      BY <2>2 DEF OwnSlot, First
    <3> DEFINE s == {i}
    <3>1. Own(t, s)
      BY <3>0
    <3>2. s \in SUBSET Slots /\ s \cap owned[at[t]] = {} /\ s \cap instance[at[t]] = {}
      BY DEF Available, Vacant, ControlInv, TypeOK
    <3>3. /\ slots[t] = {} /\ UNCHANGED <<instance, at>>
          /\ pc'[t] = "publish" /\ \A u \in Threads \ {t} : pc'[u] = pc[u]
      BY <2>2 DEF OwnSlot, Goto, ControlInv, TypeOK, HandsAgree
    <3> HIDE DEF s
    <3>4. QED
      BY <3>1, <3>2, <3>3, OwnersTake DEF ControlInv
  <2>3. ASSUME NEW t \in Threads, OwnFails(t) PROVE SlotsHaveOneOwner'
    <3>1. /\ slots[t] = {} /\ UNCHANGED <<instance, owned, slots>>
          /\ \A u \in Threads \ {t} : at'[u] = at[u] /\ pc'[u] = pc[u]
      BY <2>3 DEF OwnFails, Goto, words, locals, history, ControlInv, TypeOK, HandsAgree
    <3>2. QED
      BY <3>1, OwnersGo DEF ControlInv, TypeOK
  <2>4. ASSUME NEW t \in Threads, Publish(t) PROVE SlotsHaveOneOwner'
    <3>1. Disown(t)
      BY <2>4 DEF Publish
    <3>2. /\ \A a \in Arrays \ {at[t]} : instance'[a] = instance[a]
          /\ \A i \in Slots \ slots[t] :
                i \in instance'[at[t]] <=> i \in instance[at[t]]
      BY <2>4 DEF Publish, ControlInv, TypeOK
    <3>3. \A u \in Threads \ {t} : at'[u] = at[u] /\ pc'[u] = pc[u]
      BY <2>4 DEF Publish, Goto, Use, Return, ControlInv, TypeOK
    <3>4. QED
      BY <3>1, <3>2, <3>3, OwnersRelease DEF ControlInv, TypeOK
  <2>5. ASSUME NEW t \in Threads, PublishFails(t) PROVE SlotsHaveOneOwner'
    BY <2>5 DEF PublishFails, Goto, words, locals, history, ControlInv, TypeOK, SlotsHaveOneOwner
  <2>6. ASSUME NEW t \in Threads, Rollback(t) PROVE SlotsHaveOneOwner'
    <3>1. Disown(t)
      BY <2>6 DEF Rollback
    <3>2. /\ \A a \in Arrays \ {at[t]} : instance'[a] = instance[a]
          /\ \A i \in Slots \ slots[t] :
                i \in instance'[at[t]] <=> i \in instance[at[t]]
      BY <2>6 DEF Rollback, ControlInv, TypeOK
    <3>3. \A u \in Threads \ {t} : at'[u] = at[u] /\ pc'[u] = pc[u]
      BY <2>6 DEF Rollback, Goto, Use, Return, ControlInv, TypeOK
    <3>4. QED
      BY <3>1, <3>2, <3>3, OwnersRelease DEF ControlInv, TypeOK
  <2>7. ASSUME NEW t \in Threads, PeekForPush(t) PROVE SlotsHaveOneOwner'
    <3>1. /\ slots[t] = {} /\ UNCHANGED <<instance, owned, slots>>
          /\ \A u \in Threads \ {t} : at'[u] = at[u] /\ pc'[u] = pc[u]
      BY <2>7 DEF PeekForPush, Goto, Use, words, locals, history, ControlInv, TypeOK, HandsAgree
    <3>2. QED
      BY <3>1, OwnersGo DEF ControlInv, TypeOK
  <2>8. ASSUME NEW t \in Threads, NEW a \in Storages, Grow(t, a) PROVE SlotsHaveOneOwner'
    <3>1. /\ slots[t] = {} /\ slots' = slots
          /\ \A u \in Threads : at[u] # a
          /\ \A u \in Threads \ {t} : at'[u] = at[u] /\ pc'[u] = pc[u]
      BY <2>8 DEF Grow, Goto, Use, Return, ControlInv, TypeOK, HandsAgree
    <3>2. /\ a # Primary /\ at'[t] = Primary
          /\ owned'[a] = {}
          /\ \A b \in Arrays \ {a} : owned'[b] = owned[b] /\ instance'[b] = instance[b]
      BY <2>8, BagAssumption DEF Grow, Use, Return, Arrays, ControlInv, TypeOK
    <3>3. ASSUME NEW b \in Arrays, NEW i \in Slots
          PROVE  i \in owned'[b] <=> \E u \in Threads : at'[u] = b /\ i \in slots'[u]
      <4>1. i \in owned[b] <=> \E u \in Threads \ {t} : at[u] = b /\ i \in slots[u]
        BY <3>1 DEF SlotsHaveOneOwner
      <4>2. QED
        BY <4>1, <3>1, <3>2
    <3>4. ASSUME NEW u \in Threads, NEW w \in Threads, u # w, at'[u] = at'[w]
          PROVE  slots'[u] \cap slots'[w] = {}
      BY <3>1, <3>4 DEF SlotsHaveOneOwner
    <3>5. ASSUME NEW u \in Threads
          PROVE  /\ pc'[u] \in {"publish", "rollback"} =>
                       slots'[u] \cap instance'[at'[u]] = {}
                 /\ pc'[u] \in {"clear", "fold"} => slots'[u] \subseteq instance'[at'[u]]
      <4>1. CASE u = t
        BY <4>1, <3>1
      <4>2. CASE u # t
        <5>1. at[u] \in Arrays \ {a} /\ pc'[u] = pc[u] /\ slots'[u] = slots[u]
          BY <4>2, <3>1 DEF ControlInv, TypeOK
        <5>2. instance'[at'[u]] = instance[at[u]]
          BY <4>2, <5>1, <3>1, <3>2
        <5>3. QED
          BY <5>1, <5>2 DEF SlotsHaveOneOwner
      <4>3. QED
        BY <4>1, <4>2
    <3>6. QED
      BY <3>3, <3>4, <3>5 DEF SlotsHaveOneOwner
  <2>9. ASSUME NEW t \in Threads, TryPushFails(t) PROVE SlotsHaveOneOwner'
    <3>1. /\ slots[t] = {} /\ UNCHANGED <<instance, owned, slots>>
          /\ \A u \in Threads \ {t} : at'[u] = at[u] /\ pc'[u] = pc[u]
      BY <2>9 DEF TryPushFails, Goto, Use, Return, words, locals, history, ControlInv, TypeOK, HandsAgree
    <3>2. QED
      BY <3>1, OwnersGo DEF ControlInv, TypeOK
  <2>10. ASSUME NEW t \in Threads, Pop(t) PROVE SlotsHaveOneOwner'
    <3>1. /\ slots[t] = {} /\ UNCHANGED <<instance, owned, slots>>
          /\ \A u \in Threads \ {t} : at'[u] = at[u] /\ pc'[u] = pc[u]
      BY <2>10 DEF Pop, Goto, words, locals, history, ControlInv, TypeOK, HandsAgree
    <3>2. QED
      BY <3>1, OwnersGo DEF ControlInv, TypeOK
  <2>11. ASSUME NEW t \in Threads, PeekForPop(t) PROVE SlotsHaveOneOwner'
    <3>1. /\ slots[t] = {} /\ UNCHANGED <<instance, owned, slots>>
          /\ \A u \in Threads \ {t} : at'[u] = at[u] /\ pc'[u] = pc[u]
      BY <2>11 DEF PeekForPop, Goto, Use, words, locals, history, ControlInv, TypeOK, HandsAgree
    <3>2. QED
      BY <3>1, OwnersGo DEF ControlInv, TypeOK
  <2>12. ASSUME NEW t \in Threads, OwnInstance(t) PROVE SlotsHaveOneOwner'
    <3>0. PICK i \in Available(at[t]) : Own(t, {i})
      BY <2>12 DEF OwnInstance, First
    <3> DEFINE s == {i}
    <3>1. Own(t, s)
      BY <3>0
    <3>2. s \in SUBSET Slots /\ s \cap owned[at[t]] = {} /\ s \subseteq instance[at[t]]
      BY DEF Available, Vacant, ControlInv, TypeOK
    <3>3. /\ slots[t] = {} /\ UNCHANGED <<instance, at>>
          /\ pc'[t] = "clear" /\ \A u \in Threads \ {t} : pc'[u] = pc[u]
      BY <2>12 DEF OwnInstance, Goto, ControlInv, TypeOK, HandsAgree
    <3> HIDE DEF s
    <3>4. QED
      BY <3>1, <3>2, <3>3, OwnersTake DEF ControlInv
  <2>13. ASSUME NEW t \in Threads, PopFindsNone(t) PROVE SlotsHaveOneOwner'
    <3>1. /\ slots[t] = {} /\ UNCHANGED <<instance, owned, slots>>
          /\ \A u \in Threads \ {t} : at'[u] = at[u] /\ pc'[u] = pc[u]
      BY <2>13 DEF PopFindsNone, Goto, Use, Return, words, locals, history, ControlInv, TypeOK, HandsAgree
    <3>2. QED
      BY <3>1, OwnersGo DEF ControlInv, TypeOK
  <2>14. ASSUME NEW t \in Threads, ClearSlot(t) PROVE SlotsHaveOneOwner'
    <3>1. Disown(t)
      BY <2>14 DEF ClearSlot
    <3>2. /\ \A a \in Arrays \ {at[t]} : instance'[a] = instance[a]
          /\ \A i \in Slots \ slots[t] :
                i \in instance'[at[t]] <=> i \in instance[at[t]]
      BY <2>14 DEF ClearSlot, ControlInv, TypeOK
    <3>3. \A u \in Threads \ {t} : at'[u] = at[u] /\ pc'[u] = pc[u]
      BY <2>14 DEF ClearSlot, Goto, Use, Return, ControlInv, TypeOK
    <3>4. QED
      BY <3>1, <3>2, <3>3, OwnersRelease DEF ControlInv, TypeOK
  <2>15. ASSUME NEW t \in Threads, DeleteStorage(t) PROVE SlotsHaveOneOwner'
    <3>1. /\ slots[t] = {} /\ UNCHANGED <<instance, owned, slots>>
          /\ \A u \in Threads \ {t} : at'[u] = at[u] /\ pc'[u] = pc[u]
      BY <2>15 DEF DeleteStorage, Goto, Use, Return, words, locals, history, ControlInv, TypeOK, HandsAgree
    <3>2. QED
      BY <3>1, OwnersGo DEF ControlInv, TypeOK
  <2>16. ASSUME NEW t \in Threads, PopAll(t) PROVE SlotsHaveOneOwner'
    <3>1. /\ slots[t] = {} /\ UNCHANGED <<instance, owned, slots>>
          /\ \A u \in Threads \ {t} : at'[u] = at[u] /\ pc'[u] = pc[u]
      BY <2>16 DEF PopAll, Goto, words, locals, history, ControlInv, TypeOK, HandsAgree
    <3>2. QED
      BY <3>1, OwnersGo DEF ControlInv, TypeOK
  <2>17. ASSUME NEW t \in Threads, NextStorage(t) PROVE SlotsHaveOneOwner'
    <3>1. /\ slots[t] = {} /\ UNCHANGED <<instance, owned, slots>>
          /\ \A u \in Threads \ {t} : at'[u] = at[u] /\ pc'[u] = pc[u]
      BY <2>17 DEF NextStorage, Goto, Use, words, locals, history, ControlInv, TypeOK, HandsAgree
    <3>2. QED
      BY <3>1, OwnersGo DEF ControlInv, TypeOK
  <2>18. ASSUME NEW t \in Threads, Mark(t) PROVE SlotsHaveOneOwner'
    <3> DEFINE s == Available(at[t])
    <3>1. Own(t, s)
      BY <2>18 DEF Mark
    <3>2. s \in SUBSET Slots /\ s \cap owned[at[t]] = {} /\ s \subseteq instance[at[t]]
      BY DEF Available, Vacant, ControlInv, TypeOK
    <3>3. /\ slots[t] = {} /\ UNCHANGED <<instance, at>>
          /\ pc'[t] = "fold" /\ \A u \in Threads \ {t} : pc'[u] = pc[u]
      BY <2>18 DEF Mark, Goto, ControlInv, TypeOK, HandsAgree
    <3> HIDE DEF s
    <3>4. QED
      BY <3>1, <3>2, <3>3, OwnersTake DEF ControlInv
  <2>19. ASSUME NEW t \in Threads, MarkNothing(t) PROVE SlotsHaveOneOwner'
    <3>1. /\ slots[t] = {} /\ UNCHANGED <<instance, owned, slots>>
          /\ \A u \in Threads \ {t} : at'[u] = at[u] /\ pc'[u] = pc[u]
      BY SMTT(30), <2>19 DEF MarkNothing, Goto, Use, Return, words, locals, history, ControlInv, TypeOK, HandsAgree
    <3>2. QED
      BY <3>1, OwnersGo DEF ControlInv, TypeOK
  <2>20. ASSUME NEW t \in Threads, Fold(t) PROVE SlotsHaveOneOwner'
    <3>1. Disown(t)
      BY <2>20 DEF Fold
    <3>2. /\ \A a \in Arrays \ {at[t]} : instance'[a] = instance[a]
          /\ \A i \in Slots \ slots[t] :
                i \in instance'[at[t]] <=> i \in instance[at[t]]
      BY <2>20 DEF Fold, ControlInv, TypeOK
    <3>3. \A u \in Threads \ {t} : at'[u] = at[u] /\ pc'[u] = pc[u]
      BY <2>20 DEF Fold, Goto, Use, Return, ControlInv, TypeOK
    <3>4. QED
      BY <3>1, <3>2, <3>3, OwnersRelease DEF ControlInv, TypeOK
  <2>21. QED
    BY <1>2, <2>1, <2>2, <2>3, <2>4, <2>5, <2>6, <2>7, <2>8, <2>9, <2>10, <2>11, <2>12, <2>13, <2>14, <2>15, <2>16, <2>17, <2>18, <2>19, <2>20 DEF Next
<1>3. QED
  BY <1>1, <1>2

(***************************************************************************)
(* Layer 3.                                                                *)
(***************************************************************************)

(* Initially there are no values.                                          *)
LEMMA ContentInit == Init => ContentInv
BY DEF Init, ContentInv, HandsApart, Written, Filled, InReach, Available

(* Nothing is written, and no thread gets a value or a slot.               *)
LEMMA ContentFrame ==
    ASSUME HandsApart, Written, Filled,
           UNCHANGED <<instance, owned, storage, contents, slots>>,
           \A u \in Threads : vals'[u] \subseteq vals[u],
           \A u \in Threads : pc'[u] = "publish" =>
              pc[u] = "publish" /\ at'[u] = at[u] /\ vals'[u] = vals[u]
    PROVE  HandsApart' /\ Written' /\ Filled'
<1>1. HandsApart'
  BY DEF HandsApart
<1>2. Written'
  BY DEF Written
<1>3. Filled'
  BY DEF Filled, Available
<1>4. QED
  BY <1>1, <1>2, <1>3

(* A thread that does not drain an array keeps every array reachable, if   *)
(* it leaves the stack alone.                                              *)
LEMMA ReachFrame ==
    ASSUME NEW t \in Threads, pc[t] # "mark", UNCHANGED <<stack, popped>>,
           \A u \in Threads \ {t} : at'[u] = at[u] /\ pc'[u] = pc[u]
    PROVE  \A b \in Arrays : Reachable(b) => Reachable(b)'
<1> SUFFICES ASSUME NEW b \in Arrays, Reachable(b) PROVE Reachable(b)'
  OBVIOUS
<1>1. CASE \E u \in Threads : at[u] = b /\ pc[u] = "mark"
  BY <1>1 DEF Reachable
<1>2. CASE ~ \E u \in Threads : at[u] = b /\ pc[u] = "mark"
  BY <1>2 DEF Reachable
<1>3. QED
  BY <1>1, <1>2

(* Values come to no array that had none.                                  *)
LEMMA InReachFrame ==
    ASSUME InReach,
           \A b \in Arrays : Available(b)' # {} => Available(b) # {},
           \A b \in Arrays : Available(b)' # {} /\ Reachable(b) => Reachable(b)',
           \A b \in Arrays : instance[b] = {} => instance'[b] = {},
           \A u \in Threads : at[u] \in Arrays,
           \A u \in Threads : pc'[u] = "delete" =>
              \/ pc[u] = "delete" /\ at'[u] = at[u]
              \/ at'[u] # Primary /\ instance'[at'[u]] = {}
    PROVE  InReach'
<1>1. \A b \in Arrays : Available(b)' # {} => Reachable(b)'
  BY DEF InReach
<1>2. ASSUME NEW u \in Threads, pc'[u] = "delete"
      PROVE  at'[u] # Primary /\ instance'[at'[u]] = {}
  BY <1>2 DEF InReach
<1>3. QED
  BY <1>1, <1>2 DEF InReach

(* A thread moves values it can take from an array into its hands.         *)
LEMMA ContentTake ==
    ASSUME TypeOK, HandsAgree, SlotsHaveOneOwner, ContentInv,
           NEW t \in Threads, NEW s \in SUBSET Available(at[t]),
           Own(t, s), Read(t, s), UNCHANGED <<instance, at>>,
           pc'[t] # "publish", \A u \in Threads \ {t} : pc'[u] = pc[u]
    PROVE  HandsApart' /\ Written' /\ Filled'
<1> DEFINE a == at[t]
           taken == UNION {storage[a][i] : i \in s}
<1>1. /\ a \in Arrays /\ s \subseteq Slots
      /\ Available(a)' = Available(a) \ s
      /\ \A b \in Arrays \ {a} : Available(b)' = Available(b)
  BY DEF Own, Available, TypeOK
<1>2. /\ \A b \in Arrays \ {a} : storage'[b] = storage[b]
      /\ \A i \in Slots \ s : storage'[a][i] = storage[a][i]
      /\ contents' = contents \ taken
      /\ vals'[t] = taken
      /\ \A u \in Threads \ {t} : vals'[u] = vals[u] /\ slots'[u] = slots[u]
  BY <1>1 DEF Own, Read, Moved, Holding, TypeOK
<1>3. ASSUME NEW i \in s PROVE \E v \in contents : storage[a][i] = {v}
  BY <1>1 DEF ContentInv, Filled
<1>4. taken \subseteq contents
  BY <1>3
<1> HIDE DEF taken
<1>5. HandsApart'
  BY <1>2, <1>4 DEF ContentInv, HandsApart
<1>6. Written'
  <2> SUFFICES ASSUME NEW u \in Threads, pc'[u] = "publish", NEW i \in slots'[u]
               PROVE  storage'[at'[u]][i] = vals'[u]
    BY DEF Written
  <2>1. u # t /\ pc[u] = "publish" /\ i \in slots[u] /\ i \in Slots /\ at[u] \in Arrays
    BY <1>2 DEF TypeOK
  <2>2. i \notin s \/ at[u] # a
    BY <2>1 DEF SlotsHaveOneOwner, Available
  <2>3. storage'[at[u]][i] = storage[at[u]][i]
    BY <2>1, <2>2, <1>2
  <2>4. QED
    BY <2>1, <2>3, <1>2 DEF ContentInv, Written
<1>7. Filled'
  <2>1. ASSUME NEW b \in Arrays, NEW j \in Available(b)'
        PROVE  /\ j \in Available(b) /\ storage'[b][j] = storage[b][j]
               /\ \A v \in contents : storage[b][j] = {v} => v \notin taken
    <3>1. j \in Available(b) /\ j \in Slots /\ (b = a => j \notin s)
      BY <1>1, <2>1 DEF Available, TypeOK
    <3>2. storage'[b][j] = storage[b][j]
      BY <3>1, <1>2
    <3>3. ASSUME NEW v \in contents, storage[b][j] = {v}, v \in taken PROVE FALSE
      <4>1. PICK i \in s : v \in storage[a][i]
        BY <3>3 DEF taken
      <4>2. storage[a][i] = {v}
        BY <4>1, <1>3
      <4>3. i \in Available(a) /\ storage[a][i] = storage[b][j]
        BY <4>2, <3>3
      <4>4. a = b /\ i = j
        BY <4>3, <3>1, <1>1 DEF ContentInv, Filled
      <4>5. QED
        BY <4>4, <3>1
    <3>4. QED
      BY <3>1, <3>2, <3>3
  <2>2. \A b \in Arrays : \A j \in Available(b)' : \E v \in contents' : storage'[b][j] = {v}
    BY <2>1, <1>2 DEF ContentInv, Filled
  <2>3. ASSUME NEW v \in contents'
        PROVE  \E b \in Arrays : \E j \in Available(b)' : storage'[b][j] = {v}
    <3>1. v \in contents /\ v \notin taken
      BY <1>2
    <3>2. PICK b \in Arrays : \E j \in Available(b) : storage[b][j] = {v}
      BY <3>1 DEF ContentInv, Filled
    <3>3. PICK j \in Available(b) : storage[b][j] = {v}
      BY <3>2
    <3>4. ~(b = a /\ j \in s)
      BY <3>1, <3>3 DEF taken
    <3>5. j \in Available(b)'
      BY <3>4, <1>1
    <3>6. QED
      BY <3>3, <3>5, <2>1
  <2>4. \A b, d \in Arrays : \A i \in Available(b)', j \in Available(d)' :
          storage'[b][i] = storage'[d][j] => b = d /\ i = j
    BY <2>1 DEF ContentInv, Filled
  <2>5. QED
    BY <2>2, <2>3, <2>4 DEF Filled
<1>8. QED
  BY <1>5, <1>6, <1>7

(* A slot that nobody can pop from is given another content, or back.      *)
LEMMA ContentKeep ==
    ASSUME TypeOK, SlotsHaveOneOwner, ContentInv,
           NEW t \in Threads, UNCHANGED contents,
           \A b \in Arrays : Available(b)' = Available(b),
           \A b \in Arrays : \A i \in Available(b) : storage'[b][i] = storage[b][i],
           vals'[t] \subseteq vals[t],
           \A u \in Threads \ {t} : /\ vals'[u] = vals[u] /\ slots'[u] = slots[u]
                                    /\ at'[u] = at[u] /\ pc'[u] = pc[u],
           \A u \in Threads \ {t} : pc[u] = "publish" =>
              \A i \in slots[u] : storage'[at[u]][i] = storage[at[u]][i],
           pc'[t] = "publish" => \A i \in slots'[t] : storage'[at'[t]][i] = vals'[t]
    PROVE  HandsApart' /\ Written' /\ Filled'
<1>1. HandsApart'
  BY DEF ContentInv, HandsApart
<1>2. Written'
  BY DEF ContentInv, Written
<1>3. Filled'
  <2>1. \A b \in Arrays : \A j \in Available(b)' : \E w \in contents' : storage'[b][j] = {w}
    BY DEF ContentInv, Filled
  <2>2. ASSUME NEW w \in contents'
        PROVE  \E b \in Arrays : \E j \in Available(b)' : storage'[b][j] = {w}
    <3>1. PICK b \in Arrays : \E j \in Available(b) : storage[b][j] = {w}
      BY DEF ContentInv, Filled
    <3>2. QED
      BY <3>1
  <2>3. \A b, d \in Arrays : \A j \in Available(b)', k \in Available(d)' :
          storage'[b][j] = storage'[d][k] => b = d /\ j = k
    BY DEF ContentInv, Filled
  <2>4. QED
    BY <2>1, <2>2, <2>3 DEF Filled
<1>4. QED
  BY <1>1, <1>2, <1>3

(* The value a pusher has in hand comes to one slot.                       *)
LEMMA ContentPut ==
    ASSUME ContentInv, NEW t \in Threads, NEW v, vals[t] = {v}, vals'[t] = {},
           contents' = contents \cup {v},
           NEW a \in Arrays, NEW i, storage'[a][i] = {v},
           i \notin Available(a), Available(a)' = Available(a) \cup {i},
           \A b \in Arrays \ {a} : Available(b)' = Available(b),
           \A b \in Arrays : \A j \in Available(b) : storage'[b][j] = storage[b][j],
           \A u \in Threads \ {t} : /\ vals'[u] = vals[u] /\ slots'[u] = slots[u]
                                    /\ at'[u] = at[u] /\ pc'[u] = pc[u],
           \A u \in Threads \ {t} : pc[u] = "publish" =>
              \A j \in slots[u] : storage'[at[u]][j] = storage[at[u]][j],
           pc'[t] # "publish"
    PROVE  HandsApart' /\ Written' /\ Filled'
<1>1. v \notin contents
  BY DEF ContentInv, HandsApart
<1>2. HandsApart'
  BY DEF ContentInv, HandsApart
<1>3. Written'
  BY DEF ContentInv, Written
<1>4. \A b \in Arrays : \A j \in Available(b)' :
        \/ j \in Available(b) /\ storage'[b][j] = storage[b][j]
        \/ b = a /\ j = i /\ storage'[b][j] = {v}
  OBVIOUS
<1>5. \A b \in Arrays : \A j \in Available(b) : storage'[b][j] # {v}
  BY <1>1 DEF ContentInv, Filled
<1>6. Filled'
  <2>1. \A b \in Arrays : \A j \in Available(b)' : \E w \in contents' : storage'[b][j] = {w}
    BY <1>4 DEF ContentInv, Filled
  <2>2. ASSUME NEW w \in contents'
        PROVE  \E b \in Arrays : \E j \in Available(b)' : storage'[b][j] = {w}
    <3>1. CASE w \in contents
      <4>1. PICK b \in Arrays : \E j \in Available(b) : storage[b][j] = {w}
        BY <3>1 DEF ContentInv, Filled
      <4>2. \A j \in Available(b) : j \in Available(b)'
        OBVIOUS
      <4>3. QED
        BY <4>1, <4>2
    <3>2. CASE w = v
      BY <3>2
    <3>3. QED
      BY <3>1, <3>2
  <2>3. \A b, d \in Arrays : \A j \in Available(b)', k \in Available(d)' :
          storage'[b][j] = storage'[d][k] => b = d /\ j = k
    BY <1>4, <1>5 DEF ContentInv, Filled
  <2>4. QED
    BY <2>1, <2>2, <2>3 DEF Filled
<1>7. QED
  BY <1>2, <1>3, <1>6


(* Layer 3 is kept by every step.                                          *)
LEMMA ContentStep ==
    /\ ControlInv /\ SlotsHaveOneOwner /\ ContentInv /\ [Next]_vars
    /\ ControlInv'
    => ContentInv'
<1> SUFFICES ASSUME ControlInv, SlotsHaveOneOwner, ContentInv, [Next]_vars,
                    ControlInv'
             PROVE  ContentInv'
  OBVIOUS
<1> USE BagAssumption DEF Pushing
<1>1. CASE UNCHANGED vars
  <2>1. UNCHANGED <<instance, owned, storage, stack, pc, at, slots, vals, popped, contents>>
    BY <1>1 DEF vars, words, locals, history
  <2>2. HandsApart' /\ Written' /\ Filled'
    BY <2>1, ContentFrame DEF ContentInv
  <2>3. InReach'
    BY <2>1 DEF ContentInv, InReach, Available, Reachable
  <2>4. QED
    BY <2>2, <2>3 DEF ContentInv
<1>2. CASE Next
  <2>1. ASSUME NEW t \in Threads, NEW v \in Values, Push(t, v) PROVE ContentInv'
    <3>1. /\ UNCHANGED <<instance, owned, storage, contents, slots>>
          /\ \A u \in Threads \ {t} : /\ at'[u] = at[u] /\ pc'[u] = pc[u]
                                    /\ vals'[u] = vals[u]
          /\ pc'[t] # "publish" /\ pc'[t] # "delete"
      BY <2>1 DEF Push, Goto, Use, words, locals, history, ControlInv, TypeOK
    <3>2. vals'[t] = {v} /\ v \notin contents /\ \A u \in Threads : v \notin vals[u]
      BY <2>1 DEF Push, Goto, Use, words, locals, history, ControlInv, TypeOK
    <3>3. HandsApart'
      BY <3>1, <3>2 DEF ContentInv, HandsApart
    <3>4. Written' /\ Filled'
      <4>1. Written'
        BY <3>1 DEF ContentInv, Written
      <4>2. Filled
        BY DEF ContentInv
      <4>3. UNCHANGED <<instance, owned, storage, contents>>
        BY <2>1 DEF Push, Goto, Use, words, locals, history
      <4>4. Filled'
        BY SMTT(30), <4>2, <4>3 DEF Filled, Available
      <4>5. QED
        BY <4>1, <4>4
    <3>5. pc[t] # "mark" /\ UNCHANGED <<stack, popped>>
      BY <2>1 DEF Push, Goto, Use, words, locals, history
    <3>6. \A b \in Arrays : Reachable(b) => Reachable(b)'
      BY <3>1, <3>5, ReachFrame
    <3>7. InReach'
      <4>1. \A b \in Arrays : Available(b)' = Available(b)
        BY <3>1 DEF Available
      <4>2. \A u \in Threads : pc'[u] = "delete" => pc[u] = "delete" /\ at'[u] = at[u]
        BY <3>1
      <4>3. QED
        BY <4>1, <4>2, <3>1, <3>6, InReachFrame DEF ContentInv, ControlInv, TypeOK
    <3>8. QED
      BY <3>3, <3>4, <3>7 DEF ContentInv
  <2>2. ASSUME NEW t \in Threads, OwnSlot(t) PROVE ContentInv'
    <3>0. PICK i \in Vacant(at[t]) : /\ Own(t, {i})
                                   /\ storage' = [storage EXCEPT ![at[t]][i] = vals[t]]
      BY <2>2 DEF OwnSlot, First
    <3>1. /\ i \in Slots /\ i \notin instance[at[t]] /\ i \notin owned[at[t]]
          /\ slots'[t] = {i} /\ at[t] \in Arrays
      BY <3>0 DEF Vacant, Own, ControlInv, TypeOK
    <3> DEFINE s == {i}
    <3>2. s \subseteq Slots /\ s \cap Available(at[t]) = {}
      BY <3>1 DEF Available
    <3>3. \A b \in Arrays : Available(b)' = Available(b)
      BY <2>2, <3>0, <3>1 DEF OwnSlot, Own, Available, ControlInv, TypeOK
    <3>4. \A u \in Threads \ {t} : at[u] = at[t] => slots[u] \cap s = {}
      BY <3>1 DEF SlotsHaveOneOwner
    <3>5. \A b \in Arrays, j \in Slots : b # at[t] \/ j \notin s => storage'[b][j] = storage[b][j]
      BY <3>0 DEF ControlInv, TypeOK
    <3>6. storage'[at[t]][i] = vals[t]
      BY <3>0, <3>1 DEF ControlInv, TypeOK
    <3>7. /\ contents' = contents /\ vals'[t] \subseteq vals[t]
          /\ \A u \in Threads \ {t} : /\ vals'[u] = vals[u] /\ slots'[u] = slots[u]
                                    /\ at'[u] = at[u] /\ pc'[u] = pc[u]
          /\ UNCHANGED <<stack, popped>> /\ pc[t] # "mark"
          /\ vals'[t] = vals[t] /\ at' = at /\ pc'[t] = "publish" /\ instance' = instance
      BY <2>2 DEF OwnSlot, Goto, words, locals, history, Own, First, Vacant, ControlInv, TypeOK
    <3>8. \A b \in Arrays : \A j \in Available(b) : storage'[b][j] = storage[b][j]
      BY <3>2, <3>5 DEF Available, ControlInv, TypeOK
    <3>9. \A u \in Threads \ {t} : \A j \in slots[u] : storage'[at[u]][j] = storage[at[u]][j]
      BY <3>4, <3>5 DEF ControlInv, TypeOK
    <3>10. pc'[t] = "publish" => \A j \in slots'[t] : storage'[at'[t]][j] = vals'[t]
      BY <3>1, <3>6, <3>7
    <3>11. HandsApart' /\ Written' /\ Filled'
      BY <3>3, <3>7, <3>8, <3>9, <3>10, ContentKeep DEF ControlInv
    <3>12. InReach'
      <4>1. \A b \in Arrays : Reachable(b) => Reachable(b)'
        BY <3>7, ReachFrame
      <4>2. \A b \in Arrays : instance[b] = {} => instance'[b] = {}
        BY <2>2 DEF OwnSlot, ControlInv, TypeOK
      <4>3. pc'[t] = "delete" => at'[t] # Primary /\ instance'[at'[t]] = {}
        BY <2>2 DEF OwnSlot, Goto, Return, Use, ControlInv, TypeOK
      <4>4. QED
        BY <4>1, <4>2, <4>3, <3>3, <3>7, InReachFrame DEF ContentInv, ControlInv, TypeOK
    <3>13. QED
      BY <3>11, <3>12 DEF ContentInv
  <2>3. ASSUME NEW t \in Threads, OwnFails(t) PROVE ContentInv'
    <3>1. /\ UNCHANGED <<instance, owned, storage, contents, slots>>
          /\ \A u \in Threads \ {t} : /\ at'[u] = at[u] /\ pc'[u] = pc[u]
                                    /\ vals'[u] = vals[u]
          /\ pc'[t] # "publish" /\ pc'[t] # "delete"
      BY <2>3 DEF OwnFails, Goto, words, locals, history, ControlInv, TypeOK
    <3>2. vals'[t] \subseteq vals[t]
      BY <2>3 DEF OwnFails, Goto, words, locals, history, ControlInv, TypeOK
    <3>3. HandsApart' /\ Written' /\ Filled'
      BY <3>1, <3>2, ContentFrame DEF ContentInv
    <3>4. pc[t] # "mark" /\ UNCHANGED <<stack, popped>>
      BY <2>3 DEF OwnFails, Goto, words, locals, history
    <3>5. \A b \in Arrays : Reachable(b) => Reachable(b)'
      BY <3>1, <3>4, ReachFrame
    <3>6. InReach'
      <4>1. \A b \in Arrays : Available(b)' = Available(b)
        BY <3>1 DEF Available
      <4>2. \A u \in Threads : pc'[u] = "delete" => pc[u] = "delete" /\ at'[u] = at[u]
        BY <3>1
      <4>3. QED
        BY <4>1, <4>2, <3>1, <3>5, InReachFrame DEF ContentInv, ControlInv, TypeOK
    <3>7. QED
      BY <3>3, <3>6 DEF ContentInv
  <2>4. ASSUME NEW t \in Threads, Publish(t) PROVE ContentInv'
    <3>0. PICK a \in Arrays : a = at[t]
      BY DEF ControlInv, TypeOK
    <3>1. PICK i \in Slots : slots[t] = {i}
      BY <2>4, <3>0 DEF Publish, ControlInv, HandsAgree
    <3>2. PICK v \in Values : vals[t] = {v}
      BY <2>4, <3>0 DEF Publish, ControlInv, HandsAgree
    <3>3. /\ i \notin instance[a] /\ i \in owned[a]
          /\ storage[a][i] = {v}
      BY SMTT(30), <2>4, <3>0, <3>1, <3>2 DEF Publish, SlotsHaveOneOwner, ContentInv, Written, ControlInv, TypeOK
    <3>4. /\ i \notin Available(a) /\ Available(a)' = Available(a) \cup {i}
          /\ \A b \in Arrays \ {a} : Available(b)' = Available(b)
      BY <2>4, <3>0, <3>1, <3>3 DEF Publish, Disown, Available, ControlInv, TypeOK
    <3>5. /\ vals'[t] = {} /\ contents' = contents \cup {v} /\ pc'[t] = "idle"
          /\ storage' = storage /\ UNCHANGED <<stack, popped>> /\ pc[t] = "publish"
          /\ \A u \in Threads \ {t} : /\ vals'[u] = vals[u] /\ slots'[u] = slots[u]
                                    /\ at'[u] = at[u] /\ pc'[u] = pc[u]
      BY <2>4, <3>0, <3>2 DEF Publish, Goto, Use, Return, Disown, Holding, ControlInv, TypeOK
    <3>6. HandsApart' /\ Written' /\ Filled'
      <4>1. /\ \A b \in Arrays : \A j \in Available(b) : storage'[b][j] = storage[b][j]
            /\ \A u \in Threads : \A j \in slots[u] : storage'[at[u]][j] = storage[at[u]][j]
            /\ storage'[a][i] = {v}
        BY <3>3, <3>5
      <4>2. QED
        BY <4>1, <3>2, <3>4, <3>5, ContentPut
    <3>7. a = Primary \/ Available(a) # {}
      BY <2>4, <3>0 DEF Publish, Accepts
    <3>8. \A b \in Arrays : Reachable(b) => Reachable(b)'
      BY <3>5, ReachFrame
    <3>9. \A b \in Arrays : Available(b)' # {} => Reachable(b)'
      <4>1. Reachable(a)
        BY <3>3, <3>7 DEF ContentInv, InReach, Reachable
      <4>2. QED
        BY <4>1, <3>4, <3>8 DEF ContentInv, InReach
    <3>10. ASSUME NEW u \in Threads, pc'[u] = "delete"
           PROVE  at'[u] # Primary /\ instance'[at'[u]] = {}
      <4>1. /\ u # t /\ pc[u] = "delete" /\ at'[u] = at[u]
            /\ at[u] # Primary /\ instance[at[u]] = {} /\ at[u] \in Arrays
        BY <3>5, <3>10 DEF ContentInv, InReach, ControlInv, TypeOK
      <4>2. at[u] # a
        BY <4>1, <3>7 DEF Available
      <4>3. QED
        BY <2>4, <3>0, <4>1, <4>2 DEF Publish, ControlInv, TypeOK
    <3>11. QED
      BY <3>6, <3>9, <3>10 DEF ContentInv, InReach
  <2>5. ASSUME NEW t \in Threads, PublishFails(t) PROVE ContentInv'
    <3>1. /\ UNCHANGED <<instance, owned, storage, contents, slots>>
          /\ \A u \in Threads \ {t} : /\ at'[u] = at[u] /\ pc'[u] = pc[u]
                                    /\ vals'[u] = vals[u]
          /\ pc'[t] # "publish" /\ pc'[t] # "delete"
      BY <2>5 DEF PublishFails, Goto, words, locals, history, ControlInv, TypeOK
    <3>2. vals'[t] \subseteq vals[t]
      BY <2>5 DEF PublishFails, Goto, words, locals, history, ControlInv, TypeOK
    <3>3. HandsApart' /\ Written' /\ Filled'
      BY <3>1, <3>2, ContentFrame DEF ContentInv
    <3>4. pc[t] # "mark" /\ UNCHANGED <<stack, popped>>
      BY <2>5 DEF PublishFails, Goto, words, locals, history
    <3>5. \A b \in Arrays : Reachable(b) => Reachable(b)'
      BY <3>1, <3>4, ReachFrame
    <3>6. InReach'
      <4>1. \A b \in Arrays : Available(b)' = Available(b)
        BY <3>1 DEF Available
      <4>2. \A u \in Threads : pc'[u] = "delete" => pc[u] = "delete" /\ at'[u] = at[u]
        BY <3>1
      <4>3. QED
        BY <4>1, <4>2, <3>1, <3>5, InReachFrame DEF ContentInv, ControlInv, TypeOK
    <3>7. QED
      BY <3>3, <3>6 DEF ContentInv
  <2>6. ASSUME NEW t \in Threads, Rollback(t) PROVE ContentInv'
    <3> DEFINE s == slots[t]
    <3>1. /\ s \subseteq Slots /\ s \subseteq owned[at[t]] /\ at[t] \in Arrays
          /\ s \cap instance[at[t]] = {}
      BY <2>6 DEF Rollback, SlotsHaveOneOwner, ControlInv, TypeOK
    <3>2. s \cap Available(at[t]) = {}
      BY <3>1 DEF Available
    <3>3. \A b \in Arrays : Available(b)' = Available(b)
      BY <2>6, <3>1 DEF Rollback, Disown, Available, ControlInv, TypeOK
    <3>4. \A u \in Threads \ {t} : at[u] = at[t] => slots[u] \cap s = {}
      BY DEF SlotsHaveOneOwner
    <3>5. \A b \in Arrays, j \in Slots : b # at[t] \/ j \notin s => storage'[b][j] = storage[b][j]
      BY <2>6 DEF Rollback, Moved, ControlInv, TypeOK
    <3>6. /\ contents' = contents /\ vals'[t] \subseteq vals[t]
          /\ \A u \in Threads \ {t} : /\ vals'[u] = vals[u] /\ slots'[u] = slots[u]
                                    /\ at'[u] = at[u] /\ pc'[u] = pc[u]
          /\ UNCHANGED <<stack, popped>> /\ pc[t] # "mark"
          /\ pc'[t] # "publish"
      BY <2>6 DEF Rollback, Goto, Disown, Moved, words, locals, history, ControlInv, TypeOK
    <3>7. \A b \in Arrays : \A j \in Available(b) : storage'[b][j] = storage[b][j]
      BY <3>2, <3>5 DEF Available, ControlInv, TypeOK
    <3>8. \A u \in Threads \ {t} : \A j \in slots[u] : storage'[at[u]][j] = storage[at[u]][j]
      BY <3>4, <3>5 DEF ControlInv, TypeOK
    <3>9. pc'[t] = "publish" => \A j \in slots'[t] : storage'[at'[t]][j] = vals'[t]
      BY <3>6
    <3>10. HandsApart' /\ Written' /\ Filled'
      BY <3>3, <3>6, <3>7, <3>8, <3>9, ContentKeep DEF ControlInv
    <3>11. InReach'
      <4>1. \A b \in Arrays : Reachable(b) => Reachable(b)'
        BY <3>6, ReachFrame
      <4>2. \A b \in Arrays : instance[b] = {} => instance'[b] = {}
        BY <2>6 DEF Rollback, ControlInv, TypeOK
      <4>3. pc'[t] = "delete" => at'[t] # Primary /\ instance'[at'[t]] = {}
        BY <2>6 DEF Rollback, Goto, Return, Use, ControlInv, TypeOK
      <4>4. QED
        BY <4>1, <4>2, <4>3, <3>3, <3>6, InReachFrame DEF ContentInv, ControlInv, TypeOK
    <3>12. QED
      BY <3>10, <3>11 DEF ContentInv
  <2>7. ASSUME NEW t \in Threads, PeekForPush(t) PROVE ContentInv'
    <3>1. /\ UNCHANGED <<instance, owned, storage, contents, slots>>
          /\ \A u \in Threads \ {t} : /\ at'[u] = at[u] /\ pc'[u] = pc[u]
                                    /\ vals'[u] = vals[u]
          /\ pc'[t] # "publish" /\ pc'[t] # "delete"
      BY <2>7 DEF PeekForPush, Goto, Use, words, locals, history, ControlInv, TypeOK
    <3>2. vals'[t] \subseteq vals[t]
      BY <2>7 DEF PeekForPush, Goto, Use, words, locals, history, ControlInv, TypeOK
    <3>3. HandsApart' /\ Written' /\ Filled'
      BY <3>1, <3>2, ContentFrame DEF ContentInv
    <3>4. pc[t] # "mark" /\ UNCHANGED <<stack, popped>>
      BY <2>7 DEF PeekForPush, Goto, Use, words, locals, history
    <3>5. \A b \in Arrays : Reachable(b) => Reachable(b)'
      BY <3>1, <3>4, ReachFrame
    <3>6. InReach'
      <4>1. \A b \in Arrays : Available(b)' = Available(b)
        BY <3>1 DEF Available
      <4>2. \A u \in Threads : pc'[u] = "delete" => pc[u] = "delete" /\ at'[u] = at[u]
        BY <3>1
      <4>3. QED
        BY <4>1, <4>2, <3>1, <3>5, InReachFrame DEF ContentInv, ControlInv, TypeOK
    <3>7. QED
      BY <3>3, <3>6 DEF ContentInv
  <2>8. ASSUME NEW t \in Threads, NEW a \in Storages, Grow(t, a) PROVE ContentInv'
    <3>1. PICK v \in Values : vals[t] = {v}
      BY <2>8 DEF Grow, ControlInv, HandsAgree
    <3>2. /\ a # Primary /\ 0 \in Slots /\ a \in Arrays /\ pc[t] = "grow"
          /\ ~Reachable(a) /\ \A u \in Threads : at[u] # a
      BY <2>8 DEF Grow, Reachable, Slots, Arrays
    <3>3. Available(a) = {}
      BY <3>2 DEF ContentInv, InReach
    <3>4. /\ instance'[a] = {0} /\ owned'[a] = {} /\ storage'[a][0] = {v}
          /\ \A b \in Arrays \ {a} : /\ instance'[b] = instance[b] /\ owned'[b] = owned[b]
                                    /\ storage'[b] = storage[b]
      BY <2>8, <3>1, <3>2 DEF Grow, ControlInv, TypeOK
    <3>5. /\ 0 \notin Available(a) /\ Available(a)' = Available(a) \cup {0}
          /\ \A b \in Arrays \ {a} : Available(b)' = Available(b)
      BY <3>3, <3>4 DEF Available
    <3>6. /\ vals'[t] = {} /\ contents' = contents \cup {v} /\ pc'[t] = "idle"
          /\ at'[t] = Primary /\ popped' = popped /\ stack' = <<a>> \o stack
          /\ \A u \in Threads \ {t} : /\ vals'[u] = vals[u] /\ slots'[u] = slots[u]
                                    /\ at'[u] = at[u] /\ pc'[u] = pc[u]
      BY <2>8, <3>1 DEF Grow, Goto, Use, Return, Holding, ControlInv, TypeOK
    <3>7. /\ \A b \in Arrays : \A j \in Available(b) : storage'[b][j] = storage[b][j]
          /\ \A u \in Threads : \A j \in slots[u] : storage'[at[u]][j] = storage[at[u]][j]
      BY <3>2, <3>3, <3>4 DEF ControlInv, TypeOK
    <3>8. HandsApart' /\ Written' /\ Filled'
      BY ZenonT(60), <3>1, <3>2, <3>4, <3>5, <3>6, <3>7, ContentPut
    <3>9. Range(stack') = {a} \cup Range(stack)
      BY <3>6, Prepended DEF ControlInv, TypeOK
    <3>10. \A b \in Arrays : Available(b)' # {} => Reachable(b)'
      <4>1. Reachable(a)'
        BY <3>9 DEF Reachable
      <4>2. \A b \in Arrays : Reachable(b) => Reachable(b)'
        BY <3>2, <3>6, <3>9 DEF Reachable
      <4>3. QED
        BY <4>1, <4>2, <3>5 DEF ContentInv, InReach
    <3>11. ASSUME NEW u \in Threads, pc'[u] = "delete"
           PROVE  at'[u] # Primary /\ instance'[at'[u]] = {}
      <4>1. /\ u # t /\ pc[u] = "delete" /\ at'[u] = at[u] /\ at[u] \in Arrays
            /\ at[u] # Primary /\ instance[at[u]] = {} /\ at[u] # a
        BY <3>2, <3>6, <3>11 DEF ContentInv, InReach, ControlInv, TypeOK
      <4>2. QED
        BY <4>1, <3>4
    <3>12. QED
      BY <3>8, <3>10, <3>11 DEF ContentInv, InReach
  <2>9. ASSUME NEW t \in Threads, TryPushFails(t) PROVE ContentInv'
    <3>1. /\ UNCHANGED <<instance, owned, storage, contents, slots>>
          /\ \A u \in Threads \ {t} : /\ at'[u] = at[u] /\ pc'[u] = pc[u]
                                    /\ vals'[u] = vals[u]
          /\ pc'[t] # "publish" /\ pc'[t] # "delete"
      BY <2>9 DEF TryPushFails, Goto, Use, Return, words, locals, history, ControlInv, TypeOK
    <3>2. vals'[t] \subseteq vals[t]
      BY <2>9 DEF TryPushFails, Goto, Use, Return, words, locals, history, ControlInv, TypeOK
    <3>3. HandsApart' /\ Written' /\ Filled'
      BY <3>1, <3>2, ContentFrame DEF ContentInv
    <3>4. pc[t] # "mark" /\ UNCHANGED <<stack, popped>>
      BY <2>9 DEF TryPushFails, Goto, Use, Return, words, locals, history
    <3>5. \A b \in Arrays : Reachable(b) => Reachable(b)'
      BY <3>1, <3>4, ReachFrame
    <3>6. InReach'
      <4>1. \A b \in Arrays : Available(b)' = Available(b)
        BY <3>1 DEF Available
      <4>2. \A u \in Threads : pc'[u] = "delete" => pc[u] = "delete" /\ at'[u] = at[u]
        BY <3>1
      <4>3. QED
        BY <4>1, <4>2, <3>1, <3>5, InReachFrame DEF ContentInv, ControlInv, TypeOK
    <3>7. QED
      BY <3>3, <3>6 DEF ContentInv
  <2>10. ASSUME NEW t \in Threads, Pop(t) PROVE ContentInv'
    <3>1. /\ UNCHANGED <<instance, owned, storage, contents, slots>>
          /\ \A u \in Threads \ {t} : /\ at'[u] = at[u] /\ pc'[u] = pc[u]
                                    /\ vals'[u] = vals[u]
          /\ pc'[t] # "publish" /\ pc'[t] # "delete"
      BY <2>10 DEF Pop, Goto, words, locals, history, ControlInv, TypeOK
    <3>2. vals'[t] \subseteq vals[t]
      BY <2>10 DEF Pop, Goto, words, locals, history, ControlInv, TypeOK
    <3>3. HandsApart' /\ Written' /\ Filled'
      BY <3>1, <3>2, ContentFrame DEF ContentInv
    <3>4. pc[t] # "mark" /\ UNCHANGED <<stack, popped>>
      BY <2>10 DEF Pop, Goto, words, locals, history
    <3>5. \A b \in Arrays : Reachable(b) => Reachable(b)'
      BY <3>1, <3>4, ReachFrame
    <3>6. InReach'
      <4>1. \A b \in Arrays : Available(b)' = Available(b)
        BY <3>1 DEF Available
      <4>2. \A u \in Threads : pc'[u] = "delete" => pc[u] = "delete" /\ at'[u] = at[u]
        BY <3>1
      <4>3. QED
        BY <4>1, <4>2, <3>1, <3>5, InReachFrame DEF ContentInv, ControlInv, TypeOK
    <3>7. QED
      BY <3>3, <3>6 DEF ContentInv
  <2>11. ASSUME NEW t \in Threads, PeekForPop(t) PROVE ContentInv'
    <3>1. /\ UNCHANGED <<instance, owned, storage, contents, slots>>
          /\ \A u \in Threads \ {t} : /\ at'[u] = at[u] /\ pc'[u] = pc[u]
                                    /\ vals'[u] = vals[u]
          /\ pc'[t] # "publish" /\ pc'[t] # "delete"
      BY <2>11 DEF PeekForPop, Goto, Use, words, locals, history, ControlInv, TypeOK
    <3>2. vals'[t] \subseteq vals[t]
      BY <2>11 DEF PeekForPop, Goto, Use, words, locals, history, ControlInv, TypeOK
    <3>3. HandsApart' /\ Written' /\ Filled'
      BY <3>1, <3>2, ContentFrame DEF ContentInv
    <3>4. pc[t] # "mark" /\ UNCHANGED <<stack, popped>>
      BY <2>11 DEF PeekForPop, Goto, Use, words, locals, history
    <3>5. \A b \in Arrays : Reachable(b) => Reachable(b)'
      BY <3>1, <3>4, ReachFrame
    <3>6. InReach'
      <4>1. \A b \in Arrays : Available(b)' = Available(b)
        BY <3>1 DEF Available
      <4>2. \A u \in Threads : pc'[u] = "delete" => pc[u] = "delete" /\ at'[u] = at[u]
        BY <3>1
      <4>3. QED
        BY <4>1, <4>2, <3>1, <3>5, InReachFrame DEF ContentInv, ControlInv, TypeOK
    <3>7. QED
      BY <3>3, <3>6 DEF ContentInv
  <2>12. ASSUME NEW t \in Threads, OwnInstance(t) PROVE ContentInv'
    <3>0. PICK i \in First(Available(at[t])) : Own(t, {i}) /\ Read(t, {i})
      BY <2>12 DEF OwnInstance
    <3> DEFINE s == {i}
    <3>1. Own(t, s) /\ Read(t, s)
      BY <3>0
    <3>2. s \in SUBSET Available(at[t])
      BY DEF First
    <3>3. /\ UNCHANGED <<instance, at, stack, popped>>
          /\ pc'[t] \notin {"publish", "delete"}
          /\ \A u \in Threads \ {t} : pc'[u] = pc[u]
      BY <2>12 DEF OwnInstance, Goto, ControlInv, TypeOK
    <3>4. /\ Available(at[t])' = Available(at[t]) \ s
          /\ \A b \in Arrays \ {at[t]} : Available(b)' = Available(b)
      BY <3>1, <3>3 DEF Own, Available, ControlInv, TypeOK
    <3>5. \A b \in Arrays : Reachable(b) => Reachable(b)'
      BY <2>12, <3>3, ReachFrame DEF OwnInstance
    <3> HIDE DEF s
    <3>6. HandsApart' /\ Written' /\ Filled'
      BY <3>1, <3>2, <3>3, ContentTake DEF ControlInv
    <3>7. InReach'
      <4>1. \A b \in Arrays : Available(b)' # {} => Available(b) # {}
        BY <3>3, <3>4
      <4>2. \A u \in Threads : pc'[u] = "delete" => pc[u] = "delete" /\ at'[u] = at[u]
        BY <3>3
      <4>3. QED
        BY <4>1, <4>2, <3>3, <3>5, InReachFrame DEF ContentInv, ControlInv, TypeOK
    <3>8. QED
      BY <3>6, <3>7 DEF ContentInv
  <2>13. ASSUME NEW t \in Threads, PopFindsNone(t) PROVE ContentInv'
    <3>1. /\ UNCHANGED <<instance, owned, storage, contents, slots>>
          /\ \A u \in Threads \ {t} : /\ at'[u] = at[u] /\ pc'[u] = pc[u]
                                    /\ vals'[u] = vals[u]
          /\ pc'[t] # "publish" /\ pc'[t] # "delete"
      BY <2>13 DEF PopFindsNone, Goto, Use, Return, words, locals, history, ControlInv, TypeOK
    <3>2. vals'[t] \subseteq vals[t]
      BY <2>13 DEF PopFindsNone, Goto, Use, Return, words, locals, history, ControlInv, TypeOK
    <3>3. HandsApart' /\ Written' /\ Filled'
      BY <3>1, <3>2, ContentFrame DEF ContentInv
    <3>4. pc[t] # "mark" /\ UNCHANGED <<stack, popped>>
      BY <2>13 DEF PopFindsNone, Goto, Use, Return, words, locals, history
    <3>5. \A b \in Arrays : Reachable(b) => Reachable(b)'
      BY <3>1, <3>4, ReachFrame
    <3>6. InReach'
      <4>1. \A b \in Arrays : Available(b)' = Available(b)
        BY <3>1 DEF Available
      <4>2. \A u \in Threads : pc'[u] = "delete" => pc[u] = "delete" /\ at'[u] = at[u]
        BY <3>1
      <4>3. QED
        BY <4>1, <4>2, <3>1, <3>5, InReachFrame DEF ContentInv, ControlInv, TypeOK
    <3>7. QED
      BY <3>3, <3>6 DEF ContentInv
  <2>14. ASSUME NEW t \in Threads, ClearSlot(t) PROVE ContentInv'
    <3> DEFINE s == slots[t]
    <3>1. /\ s \subseteq Slots /\ s \subseteq owned[at[t]] /\ at[t] \in Arrays
          /\ s \subseteq instance[at[t]]
      BY <2>14 DEF ClearSlot, SlotsHaveOneOwner, ControlInv, TypeOK
    <3>2. s \cap Available(at[t]) = {}
      BY <3>1 DEF Available
    <3>3. \A b \in Arrays : Available(b)' = Available(b)
      BY <2>14, <3>1 DEF ClearSlot, Disown, Available, ControlInv, TypeOK
    <3>4. \A u \in Threads \ {t} : at[u] = at[t] => slots[u] \cap s = {}
      BY DEF SlotsHaveOneOwner
    <3>5. \A b \in Arrays, j \in Slots : b # at[t] \/ j \notin s => storage'[b][j] = storage[b][j]
      BY <2>14 DEF ClearSlot, Moved, ControlInv, TypeOK
    <3>6. /\ contents' = contents /\ vals'[t] \subseteq vals[t]
          /\ \A u \in Threads \ {t} : /\ vals'[u] = vals[u] /\ slots'[u] = slots[u]
                                    /\ at'[u] = at[u] /\ pc'[u] = pc[u]
          /\ UNCHANGED <<stack, popped>> /\ pc[t] # "mark"
          /\ pc'[t] # "publish"
      BY <2>14 DEF ClearSlot, Goto, Use, Return, Disown, words, locals, history, ControlInv, TypeOK
    <3>7. \A b \in Arrays : \A j \in Available(b) : storage'[b][j] = storage[b][j]
      BY <3>2, <3>5 DEF Available, ControlInv, TypeOK
    <3>8. \A u \in Threads \ {t} : \A j \in slots[u] : storage'[at[u]][j] = storage[at[u]][j]
      BY <3>4, <3>5 DEF ControlInv, TypeOK
    <3>9. pc'[t] = "publish" => \A j \in slots'[t] : storage'[at'[t]][j] = vals'[t]
      BY <3>6
    <3>10. HandsApart' /\ Written' /\ Filled'
      BY <3>3, <3>6, <3>7, <3>8, <3>9, ContentKeep DEF ControlInv
    <3>11. InReach'
      <4>1. \A b \in Arrays : Reachable(b) => Reachable(b)'
        BY <3>6, ReachFrame
      <4>2. \A b \in Arrays : instance[b] = {} => instance'[b] = {}
        BY <2>14 DEF ClearSlot, ControlInv, TypeOK
      <4>3. pc'[t] = "delete" => at'[t] # Primary /\ instance'[at'[t]] = {}
        BY <2>14 DEF ClearSlot, Goto, Return, Use, ControlInv, TypeOK
      <4>4. QED
        BY <4>1, <4>2, <4>3, <3>3, <3>6, InReachFrame DEF ContentInv, ControlInv, TypeOK
    <3>12. QED
      BY <3>10, <3>11 DEF ContentInv
  <2>15. ASSUME NEW t \in Threads, DeleteStorage(t) PROVE ContentInv'
    <3>1. /\ UNCHANGED <<instance, owned, storage, contents, slots>>
          /\ \A u \in Threads \ {t} : /\ at'[u] = at[u] /\ pc'[u] = pc[u]
                                    /\ vals'[u] = vals[u]
          /\ pc'[t] # "publish" /\ pc'[t] # "delete"
      BY <2>15 DEF DeleteStorage, Goto, Use, Return, words, locals, history, ControlInv, TypeOK
    <3>2. vals'[t] \subseteq vals[t]
      BY <2>15 DEF DeleteStorage, Goto, Use, Return, words, locals, history, ControlInv, TypeOK
    <3>3. HandsApart' /\ Written' /\ Filled'
      BY <3>1, <3>2, ContentFrame DEF ContentInv
    <3>4. /\ pc[t] = "delete" /\ stack' = Unlinked(stack, at[t])
          /\ \A u \in Threads : popped'[u] = Unlinked(popped[u], at[t])
          /\ Available(at[t]) = {}
      BY <2>15 DEF DeleteStorage, Goto, Use, Return, words, locals, history, ContentInv, InReach, Available
    <3>5. /\ Range(stack) \ {at[t]} \subseteq Range(stack')
          /\ \A u \in Threads : Range(popped[u]) \ {at[t]} \subseteq Range(popped'[u])
      BY <3>4, UnlinkedOthers DEF ControlInv, TypeOK
    <3>6. ASSUME NEW b \in Arrays, Available(b)' # {}, Reachable(b) PROVE Reachable(b)'
      <4>1. b # at[t]
        BY <3>1, <3>4, <3>6 DEF Available
      <4>2. QED
        BY <4>1, <3>1, <3>4, <3>5, <3>6 DEF Reachable
    <3>7. InReach'
      <4>1. \A b \in Arrays : Available(b)' = Available(b)
        BY <3>1 DEF Available
      <4>2. \A u \in Threads : pc'[u] = "delete" => pc[u] = "delete" /\ at'[u] = at[u]
        BY <3>1
      <4>3. QED
        BY <4>1, <4>2, <3>1, <3>6, InReachFrame DEF ContentInv, ControlInv, TypeOK
    <3>8. QED
      BY <3>3, <3>7 DEF ContentInv
  <2>16. ASSUME NEW t \in Threads, PopAll(t) PROVE ContentInv'
    <3>1. /\ UNCHANGED <<instance, owned, storage, contents, slots>>
          /\ \A u \in Threads \ {t} : /\ at'[u] = at[u] /\ pc'[u] = pc[u]
                                    /\ vals'[u] = vals[u]
          /\ pc'[t] # "publish" /\ pc'[t] # "delete"
      BY <2>16 DEF PopAll, Goto, words, locals, history, ControlInv, TypeOK
    <3>2. vals'[t] \subseteq vals[t]
      BY <2>16 DEF PopAll, Goto, words, locals, history, ControlInv, TypeOK
    <3>3. HandsApart' /\ Written' /\ Filled'
      BY <3>1, <3>2, ContentFrame DEF ContentInv
    <3>4. /\ pc[t] = "idle" /\ popped[t] = <<>> /\ popped'[t] = stack
          /\ \A u \in Threads \ {t} : popped'[u] = popped[u]
          /\ at' = at
      BY <2>16 DEF PopAll, Goto, words, locals, history, ControlInv, TypeOK, HandsAgree
    <3>5. Range(popped[t]) = {}
      BY <3>4 DEF Range
    <3>6. \A b \in Arrays : Reachable(b) => Reachable(b)'
      BY <3>1, <3>4, <3>5 DEF Reachable
    <3>7. InReach'
      <4>1. \A b \in Arrays : Available(b)' = Available(b)
        BY <3>1 DEF Available
      <4>2. \A u \in Threads : pc'[u] = "delete" => pc[u] = "delete" /\ at'[u] = at[u]
        BY <3>1
      <4>3. QED
        BY <4>1, <4>2, <3>1, <3>6, InReachFrame DEF ContentInv, ControlInv, TypeOK
    <3>8. QED
      BY <3>3, <3>7 DEF ContentInv
  <2>17. ASSUME NEW t \in Threads, NextStorage(t) PROVE ContentInv'
    <3>1. /\ UNCHANGED <<instance, owned, storage, contents, slots>>
          /\ \A u \in Threads \ {t} : /\ at'[u] = at[u] /\ pc'[u] = pc[u]
                                    /\ vals'[u] = vals[u]
          /\ pc'[t] # "publish" /\ pc'[t] # "delete"
      BY <2>17 DEF NextStorage, Goto, Use, words, locals, history, ControlInv, TypeOK
    <3>2. vals'[t] \subseteq vals[t]
      BY <2>17 DEF NextStorage, Goto, Use, words, locals, history, ControlInv, TypeOK
    <3>3. HandsApart' /\ Written' /\ Filled'
      BY <3>1, <3>2, ContentFrame DEF ContentInv
    <3>4. /\ stack' = stack /\ pc[t] = "next" /\ pc'[t] = "mark"
          /\ \A u \in Threads \ {t} : popped'[u] = popped[u]
          /\ popped[t] \in Seq(Storages)
          /\ popped[t] = <<>> => popped'[t] = <<>>
          /\ popped[t] # <<>> => at'[t] = Head(popped[t]) /\ popped'[t] = Tail(popped[t])
      BY <2>17 DEF NextStorage, Goto, Use, words, locals, history, ControlInv, TypeOK
    <3>5. Range(popped[t]) \subseteq Range(popped'[t]) \cup {at'[t]}
      BY <3>4, HeadAndTail
    <3>6. ASSUME NEW b \in Arrays, Reachable(b) PROVE Reachable(b)'
      <4>1. CASE b \in Range(popped[t])
        BY <4>1, <3>4, <3>5 DEF Reachable
      <4>2. CASE b \notin Range(popped[t])
        BY <4>2, <3>1, <3>4, <3>6 DEF Reachable
      <4>3. QED
        BY <4>1, <4>2
    <3>7. InReach'
      <4>1. \A b \in Arrays : Available(b)' = Available(b)
        BY <3>1 DEF Available
      <4>2. \A u \in Threads : pc'[u] = "delete" => pc[u] = "delete" /\ at'[u] = at[u]
        BY <3>1
      <4>3. QED
        BY <4>1, <4>2, <3>1, <3>6, InReachFrame DEF ContentInv, ControlInv, TypeOK
    <3>8. QED
      BY <3>3, <3>7 DEF ContentInv
  <2>18. ASSUME NEW t \in Threads, Mark(t) PROVE ContentInv'
    <3> DEFINE s == Available(at[t])
    <3>1. Own(t, s) /\ Read(t, s)
      BY <2>18 DEF Mark
    <3>2. s \in SUBSET Available(at[t])
      BY DEF First
    <3>3. /\ UNCHANGED <<instance, at, stack, popped>>
          /\ pc'[t] \notin {"publish", "delete"}
          /\ \A u \in Threads \ {t} : pc'[u] = pc[u]
      BY <2>18 DEF Mark, Goto, ControlInv, TypeOK
    <3>4. /\ Available(at[t])' = Available(at[t]) \ s
          /\ \A b \in Arrays \ {at[t]} : Available(b)' = Available(b)
      BY <3>1, <3>3 DEF Own, Available, ControlInv, TypeOK
    <3>5. \A b \in Arrays : Available(b)' # {} /\ Reachable(b) => Reachable(b)'
      BY <3>3, <3>4 DEF Reachable
    <3> HIDE DEF s
    <3>6. HandsApart' /\ Written' /\ Filled'
      BY <3>1, <3>2, <3>3, ContentTake DEF ControlInv
    <3>7. InReach'
      <4>1. \A b \in Arrays : Available(b)' # {} => Available(b) # {}
        BY <3>3, <3>4
      <4>2. \A u \in Threads : pc'[u] = "delete" => pc[u] = "delete" /\ at'[u] = at[u]
        BY <3>3
      <4>3. QED
        BY <4>1, <4>2, <3>3, <3>5, InReachFrame DEF ContentInv, ControlInv, TypeOK
    <3>8. QED
      BY <3>6, <3>7 DEF ContentInv
  <2>19. ASSUME NEW t \in Threads, MarkNothing(t) PROVE ContentInv'
    <3>1. /\ UNCHANGED <<instance, owned, storage, contents, slots>>
          /\ \A u \in Threads \ {t} : /\ at'[u] = at[u] /\ pc'[u] = pc[u]
                                    /\ vals'[u] = vals[u]
          /\ pc'[t] # "publish" /\ pc'[t] # "delete"
      BY <2>19 DEF MarkNothing, Goto, Use, Return, words, locals, history, ControlInv, TypeOK
    <3>2. vals'[t] \subseteq vals[t]
      BY <2>19 DEF MarkNothing, Goto, Use, Return, words, locals, history, ControlInv, TypeOK
    <3>3. HandsApart' /\ Written' /\ Filled'
      BY <3>1, <3>2, ContentFrame DEF ContentInv
    <3>4. Available(at[t]) = {} /\ UNCHANGED <<stack, popped>>
      BY <2>19 DEF MarkNothing, Goto, Use, Return, words, locals, history
    <3>5. \A b \in Arrays : Available(b)' # {} /\ Reachable(b) => Reachable(b)'
      BY <3>1, <3>4 DEF Reachable, Available
    <3>6. InReach'
      <4>1. \A b \in Arrays : Available(b)' = Available(b)
        BY <3>1 DEF Available
      <4>2. \A u \in Threads : pc'[u] = "delete" => pc[u] = "delete" /\ at'[u] = at[u]
        BY <3>1
      <4>3. QED
        BY <4>1, <4>2, <3>1, <3>5, InReachFrame DEF ContentInv, ControlInv, TypeOK
    <3>7. QED
      BY <3>3, <3>6 DEF ContentInv
  <2>20. ASSUME NEW t \in Threads, Fold(t) PROVE ContentInv'
    <3> DEFINE s == slots[t]
    <3>1. /\ s \subseteq Slots /\ s \subseteq owned[at[t]] /\ at[t] \in Arrays
          /\ s \subseteq instance[at[t]]
      BY <2>20 DEF Fold, SlotsHaveOneOwner, ControlInv, TypeOK
    <3>2. s \cap Available(at[t]) = {}
      BY <3>1 DEF Available
    <3>3. \A b \in Arrays : Available(b)' = Available(b)
      BY <2>20, <3>1 DEF Fold, Disown, Available, ControlInv, TypeOK
    <3>4. \A u \in Threads \ {t} : at[u] = at[t] => slots[u] \cap s = {}
      BY DEF SlotsHaveOneOwner
    <3>5. \A b \in Arrays, j \in Slots : b # at[t] \/ j \notin s => storage'[b][j] = storage[b][j]
      BY <2>20 DEF Fold, Moved, ControlInv, TypeOK
    <3>6. /\ contents' = contents /\ vals'[t] \subseteq vals[t]
          /\ \A u \in Threads \ {t} : /\ vals'[u] = vals[u] /\ slots'[u] = slots[u]
                                    /\ at'[u] = at[u] /\ pc'[u] = pc[u]
          /\ UNCHANGED <<stack, popped>> /\ pc[t] # "mark"
          /\ pc'[t] # "publish"
      BY <2>20 DEF Fold, Goto, Use, Return, Disown, words, locals, history, ControlInv, TypeOK
    <3>7. \A b \in Arrays : \A j \in Available(b) : storage'[b][j] = storage[b][j]
      BY <3>2, <3>5 DEF Available, ControlInv, TypeOK
    <3>8. \A u \in Threads \ {t} : \A j \in slots[u] : storage'[at[u]][j] = storage[at[u]][j]
      BY <3>4, <3>5 DEF ControlInv, TypeOK
    <3>9. pc'[t] = "publish" => \A j \in slots'[t] : storage'[at'[t]][j] = vals'[t]
      BY <3>6
    <3>10. HandsApart' /\ Written' /\ Filled'
      BY <3>3, <3>6, <3>7, <3>8, <3>9, ContentKeep DEF ControlInv
    <3>11. InReach'
      <4>1. \A b \in Arrays : Reachable(b) => Reachable(b)'
        BY <3>6, ReachFrame
      <4>2. \A b \in Arrays : instance[b] = {} => instance'[b] = {}
        BY <2>20 DEF Fold, ControlInv, TypeOK
      <4>3. pc'[t] = "delete" => at'[t] # Primary /\ instance'[at'[t]] = {}
        BY <2>20 DEF Fold, Goto, Return, Use, ControlInv, TypeOK
      <4>4. QED
        BY <4>1, <4>2, <4>3, <3>3, <3>6, InReachFrame DEF ContentInv, ControlInv, TypeOK
    <3>12. QED
      BY <3>10, <3>11 DEF ContentInv
  <2>21. QED
    BY <1>2, <2>1, <2>2, <2>3, <2>4, <2>5, <2>6, <2>7, <2>8, <2>9, <2>10, <2>11, <2>12, <2>13, <2>14, <2>15, <2>16, <2>17, <2>18, <2>19, <2>20 DEF Next
<1>3. QED
  BY <1>1, <1>2

(***************************************************************************)
(* The theorems.                                                           *)
(***************************************************************************)

(* The three layers together are an invariant of the bag.                  *)
THEOREM BagInvariant == Spec => []IInv
<1>1. Init => IInv
  BY ControlInit, OwnersInit, ContentInit DEF IInv
<1>2. IInv /\ [Next]_vars => IInv'
  BY ControlStep, OwnersStep, ContentStep DEF IInv
<1>3. QED
  BY <1>1, <1>2, PTL DEF Spec

(* No two threads use the memory of a slot at once, and what the code      *)
(* asserts of a slot when it is given back holds.                          *)
THEOREM OwnersExclude == Spec => []SlotsHaveOneOwner
<1>1. IInv => SlotsHaveOneOwner
  BY DEF IInv
<1>2. QED
  BY <1>1, BagInvariant, PTL

(* Every value that was pushed and not taken out is in exactly one slot    *)
(* that pop() or pop_all() comes to.                                       *)
THEOREM ValuesKept == Spec => []NothingLost
<1>1. IInv => NothingLost
  <2> SUFFICES ASSUME IInv, NEW v \in Values
               PROVE  /\ v \in contents <=> Places(v) # {}
                      /\ \A p, q \in Places(v) : p = q
    BY DEF NothingLost
  <2>1. ASSUME v \in contents PROVE Places(v) # {}
    <3>1. PICK a \in Arrays : \E i \in Available(a) : storage[a][i] = {v}
      BY <2>1 DEF IInv, ContentInv, Filled
    <3>2. PICK i \in Available(a) : storage[a][i] = {v}
      BY <3>1
    <3>3. i \in Slots /\ Reachable(a)
      BY DEF IInv, ControlInv, TypeOK, Available, ContentInv, InReach
    <3>4. <<a, i>> \in Places(v)
      BY <3>2, <3>3 DEF Places
    <3>5. QED
      BY <3>4
  <2>2. ASSUME NEW p \in Places(v) PROVE v \in contents
    <3>1. p[1] \in Arrays /\ p[2] \in Available(p[1]) /\ storage[p[1]][p[2]] = {v}
      BY DEF Places
    <3>2. PICK w \in contents : storage[p[1]][p[2]] = {w}
      BY <3>1 DEF IInv, ContentInv, Filled
    <3>3. QED
      BY <3>1, <3>2
  <2>3. ASSUME NEW p \in Places(v), NEW q \in Places(v) PROVE p = q
    <3>0. p \in Arrays \X Slots /\ q \in Arrays \X Slots
      BY DEF Places
    <3>1. /\ p[1] \in Arrays /\ p[2] \in Available(p[1])
          /\ q[1] \in Arrays /\ q[2] \in Available(q[1])
          /\ storage[p[1]][p[2]] = storage[q[1]][q[2]]
      BY DEF Places
    <3>2. p[1] = q[1] /\ p[2] = q[2]
      BY <3>1 DEF IInv, ContentInv, Filled
    <3>3. QED
      BY <3>0, <3>2
  <2>4. QED
    BY <2>1, <2>2, <2>3
<1>2. QED
  BY <1>1, BagInvariant, PTL

=============================================================================
