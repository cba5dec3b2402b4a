------------------------- MODULE ThreadExitTheorems -------------------------
(***************************************************************************)
(* The chain can be freed at the end of a thread while others push to it,  *)
(* and no garbage is lost or dropped too early by that.                    *)
(***************************************************************************)
EXTENDS ThreadExitInvariants, LinkTheorems

(* The steps a thread t can take, as a case distinction.                   *)
LEMMA NextCases ==
    ASSUME Next
    PROVE  \E t \in Threads :
               \/ Alloc(t)
               \/ PushCollector(t)
               \/ PushFails(t)
               \/ OpenGuard(t)
               \/ OpenGuardInNewEpoch(t)
               \/ \E o \in Objects : Retire(t, o)
               \/ \E o \in Objects : DropObject(t, o)
               \/ \E c \in Collectors : DropCollector(t, c)
               \/ FinishDrop(t)
               \/ EndGuard(t)
               \/ StartScan(t)
               \/ ScanPass(t)
               \/ ScanUnlink(t)
               \/ ScanStop(t)
               \/ ScanEnds(t)
               \/ UnlockChain(t)
               \/ Suspend(t)
               \/ MarkScanEnforced(t)
               \/ Exit(t)
               \/ LockForClear(t)
               \/ LockFails(t)
               \/ CheckInvalid(t)
               \/ FindValid(t)
               \/ TakeChain(t)
               \/ TakeFails(t)
               \/ FreeCollector(t)
               \/ ChainFreed(t)
               \/ ClearTemporary(t)
               \/ Ended(t)
  BY Zenon DEF Next, CrateStep, DropStep, ScanStep, ExitStep

(* What dropping o does to objects and lists, if its Drop retires new.     *)
DropRetires(t, o, new) ==
    /\ \A n \in new : life[n] = "live" /\ n # o
    /\ life' = [x \in Objects |-> IF x \in new THEN "retired"
                                  ELSE IF x = o THEN "live" ELSE life[x]]
    /\ garbage' = [garbage EXCEPT ![local[t]] = @ \cup new]
    /\ held' = [u \in Threads |-> IF u \in guarded THEN held[u] \cup new ELSE held[u]]

(* Dropping o may retire some other objects, one or none.                  *)
LEMMA DropObjectSteps ==
    ASSUME TypeOK, NEW t \in Threads, NEW o \in Objects, DropObject(t, o)
    PROVE  /\ Drops(t) /\ o \in dropping[t]
           /\ UNCHANGED <<head, tag, next_link, state, local, made, pc, ptr, prev>>
           /\ dropping' = [dropping EXCEPT ![t] = @ \ {o}]
           /\ guarded' = guarded \/ (Exiting(t) /\ guarded' = guarded \cup {t})
           /\ \E new \in SUBSET Objects : DropRetires(t, o, new)
<1>1. /\ Drops(t) /\ o \in dropping[t]
      /\ UNCHANGED <<head, tag, next_link, state, local, made, pc, ptr, prev>>
      /\ dropping' = [dropping EXCEPT ![t] = @ \ {o}]
      /\ guarded' = guarded \/ (Exiting(t) /\ guarded' = guarded \cup {t})
  BY DEF DropObject, chain, thread
<1>2. CASE UNCHANGED <<garbage, held>> /\ life' = [life EXCEPT ![o] = "live"]
  <2>1. /\ life' = [x \in Objects |-> IF x \in {} THEN "retired"
                                       ELSE IF x = o THEN "live" ELSE life[x]]
        /\ garbage' = [garbage EXCEPT ![local[t]] = @ \cup {}]
        /\ held' = [u \in Threads |-> IF u \in guarded THEN held[u] \cup {} ELSE held[u]]
    BY <1>2 DEF TypeOK
  <2>2. DropRetires(t, o, {})
    BY <2>1 DEF DropRetires
  <2>3. QED
    BY <1>1, <2>2
<1>3. CASE \E n \in Nested :
              /\ o \notin Nested
              /\ life[n] = "live"
              /\ life' = [life EXCEPT ![o] = "live", ![n] = "retired"]
              /\ Collected(local[t], n)
              /\ Witnessed(n)
  <2>1. PICK n \in Nested :
              /\ o \notin Nested
              /\ life[n] = "live"
              /\ life' = [life EXCEPT ![o] = "live", ![n] = "retired"]
              /\ Collected(local[t], n)
              /\ Witnessed(n)
    BY <1>3
  <2>2. /\ n \in Objects /\ n # o
        /\ life' = [x \in Objects |-> IF x \in {n} THEN "retired"
                                       ELSE IF x = o THEN "live" ELSE life[x]]
        /\ garbage' = [garbage EXCEPT ![local[t]] = @ \cup {n}]
        /\ held' = [u \in Threads |-> IF u \in guarded THEN held[u] \cup {n} ELSE held[u]]
    BY <2>1, ThreadExitAssumption DEF TypeOK, Collected, Witnessed
  <2>3. DropRetires(t, o, {n})
    BY <2>1, <2>2 DEF DropRetires
  <2>4. QED
    BY <1>1, <2>2, <2>3
<1>4. QED
  BY <1>2, <1>3 DEF DropObject

(* Initially no thread has a Collector.                                    *)
LEMMA ControlInit == Init => ControlInv
  BY ThreadExitAssumption
  DEF Init, ControlInv, TypeOK, LocalAgrees, GuardAgrees, LockExcludes, Locked,
      Working, Locations, Registered, Exiting, Items

(* Layer 1 is kept by every step.                                          *)
LEMMA ControlStep == ControlInv /\ ChainInv /\ [Next]_vars => ControlInv'
<1> SUFFICES ASSUME ControlInv, ChainInv, [Next]_vars PROVE ControlInv'
  OBVIOUS
<1> USE ThreadExitAssumption
<1>1. CASE UNCHANGED vars
  BY <1>1 DEF vars, chain, objects, thread, ControlInv, TypeOK, LocalAgrees,
              GuardAgrees, LockExcludes, Locked, Registered, Exiting
<1>2. CASE Next
  <2>1. ASSUME NEW t \in Threads, Alloc(t)
        PROVE  ControlInv'
    <3>1. TypeOK'
      BY <2>1 DEF Alloc, At, LinkToHead, Set, Goto, objects, ControlInv, TypeOK,
         LocalAgrees, GuardAgrees, Registered, Exiting, Locations, Items
    <3>2. \A u \in Threads : LocalAgrees(u)' /\ GuardAgrees(u)'
      BY <2>1 DEF Alloc, At, LinkToHead, Set, Goto, objects, ControlInv, TypeOK,
         LocalAgrees, GuardAgrees, Registered, Exiting
    <3>3. LockExcludes'
      BY <2>1 DEF Alloc, At, LinkToHead, Set, Goto, objects, ControlInv, TypeOK,
         LocalAgrees, GuardAgrees, Registered, Exiting, LockExcludes, Locked,
         Working
    <3>4. QED
      BY <3>1, <3>2, <3>3 DEF ControlInv
  <2>2. ASSUME NEW t \in Threads, PushCollector(t)
        PROVE  ControlInv'
    <3>1. TypeOK'
      BY <2>2 DEF PushCollector, At, Set, Goto, objects, ControlInv, TypeOK,
         LocalAgrees, GuardAgrees, Registered, Exiting, Locations, Items
    <3>2. \A u \in Threads : LocalAgrees(u)' /\ GuardAgrees(u)'
      BY <2>2 DEF PushCollector, At, Set, Goto, objects, ControlInv, TypeOK,
         LocalAgrees, GuardAgrees, Registered, Exiting
    <3>3. LockExcludes'
      BY <2>2 DEF PushCollector, At, Set, Goto, objects, ControlInv, TypeOK,
         LocalAgrees, GuardAgrees, Registered, Exiting, LockExcludes, Locked,
         Working
    <3>4. QED
      BY <3>1, <3>2, <3>3 DEF ControlInv
  <2>3. ASSUME NEW t \in Threads, PushFails(t)
        PROVE  ControlInv'
    <3>1. TypeOK'
      BY <2>3 DEF PushFails, At, LinkToHead, Set, objects, ControlInv, TypeOK,
         LocalAgrees, GuardAgrees, Registered, Exiting, Locations, Items
    <3>2. \A u \in Threads : LocalAgrees(u)' /\ GuardAgrees(u)'
      BY <2>3 DEF PushFails, At, LinkToHead, Set, objects, ControlInv, TypeOK,
         LocalAgrees, GuardAgrees, Registered, Exiting
    <3>3. LockExcludes'
      BY <2>3 DEF PushFails, At, LinkToHead, Set, objects, ControlInv, TypeOK,
         LocalAgrees, GuardAgrees, Registered, Exiting, LockExcludes, Locked,
         Working
    <3>4. QED
      BY <3>1, <3>2, <3>3 DEF ControlInv
  <2>4. ASSUME NEW t \in Threads, OpenGuard(t)
        PROVE  ControlInv'
    <3>1. TypeOK'
      BY <2>4 DEF OpenGuard, At, chain, thread, ControlInv, TypeOK, LocalAgrees,
         GuardAgrees, Registered, Exiting, Locations, Items
    <3>2. \A u \in Threads : LocalAgrees(u)' /\ GuardAgrees(u)'
      BY <2>4 DEF OpenGuard, At, chain, thread, ControlInv, TypeOK, LocalAgrees,
         GuardAgrees, Registered, Exiting
    <3>3. LockExcludes'
      BY <2>4 DEF OpenGuard, At, chain, thread, ControlInv, TypeOK, LocalAgrees,
         GuardAgrees, Registered, Exiting, LockExcludes, Locked, Working
    <3>4. QED
      BY <3>1, <3>2, <3>3 DEF ControlInv
  <2>5. ASSUME NEW t \in Threads, OpenGuardInNewEpoch(t)
        PROVE  ControlInv'
    <3>1. TypeOK'
      BY <2>5 DEF OpenGuardInNewEpoch, At, Aged, Goto, chain, ControlInv, TypeOK,
         LocalAgrees, GuardAgrees, Registered, Exiting, Locations, Items
    <3>2. \A u \in Threads : LocalAgrees(u)' /\ GuardAgrees(u)'
      BY <2>5 DEF OpenGuardInNewEpoch, At, Aged, Goto, chain, ControlInv, TypeOK,
         LocalAgrees, GuardAgrees, Registered, Exiting
    <3>3. LockExcludes'
      BY <2>5 DEF OpenGuardInNewEpoch, At, Aged, Goto, chain, ControlInv, TypeOK,
         LocalAgrees, GuardAgrees, Registered, Exiting, LockExcludes, Locked,
         Working
    <3>4. QED
      BY <3>1, <3>2, <3>3 DEF ControlInv
  <2>6. ASSUME NEW t \in Threads, NEW o \in Objects, Retire(t, o)
        PROVE  ControlInv'
    <3>1. TypeOK'
      BY <2>6 DEF Retire, At, Collected, Witnessed, chain, thread, ControlInv,
         TypeOK, LocalAgrees, GuardAgrees, Registered, Exiting, Locations, Items
    <3>2. \A u \in Threads : LocalAgrees(u)' /\ GuardAgrees(u)'
      BY <2>6 DEF Retire, At, Collected, Witnessed, chain, thread, ControlInv,
         TypeOK, LocalAgrees, GuardAgrees, Registered, Exiting
    <3>3. LockExcludes'
      BY <2>6 DEF Retire, At, Collected, Witnessed, chain, thread, ControlInv,
         TypeOK, LocalAgrees, GuardAgrees, Registered, Exiting, LockExcludes,
         Locked, Working
    <3>4. QED
      BY <3>1, <3>2, <3>3 DEF ControlInv
  <2>7. ASSUME NEW t \in Threads, NEW o \in Objects, DropObject(t, o)
        PROVE  ControlInv'
    <3>1. /\ UNCHANGED <<head, tag, next_link, state, local, made, pc, ptr, prev>>
          /\ dropping' = [dropping EXCEPT ![t] = @ \ {o}]
          /\ pc[t] \in {"drop", "free", "temp"}
          /\ guarded' = guarded \/ (Exiting(t) /\ guarded' = guarded \cup {t})
      BY <2>7, DropObjectSteps DEF ControlInv, Drops, At
    <3>2. PICK new \in SUBSET Objects : DropRetires(t, o, new)
      BY <2>7, DropObjectSteps DEF ControlInv
    <3>3. TypeOK'
      BY <3>1, <3>2 DEF DropRetires, ControlInv, TypeOK, Items
    <3>4. \A u \in Threads : LocalAgrees(u)' /\ GuardAgrees(u)'
      BY <3>1, <3>2 DEF DropRetires, ControlInv, TypeOK, LocalAgrees, GuardAgrees,
         Registered, Exiting
    <3>5. LockExcludes'
      BY <3>1 DEF ControlInv, LockExcludes, Locked
    <3>6. QED
      BY <3>3, <3>4, <3>5 DEF ControlInv
  <2>8. ASSUME NEW t \in Threads, NEW c \in Collectors, DropCollector(t, c)
        PROVE  ControlInv'
    <3>1. TypeOK'
      BY <2>8 DEF DropCollector, Drops, At, objects, thread, ControlInv, TypeOK,
         LocalAgrees, GuardAgrees, Registered, Exiting, Locations, Items
    <3>2. \A u \in Threads : LocalAgrees(u)' /\ GuardAgrees(u)'
      BY <2>8 DEF DropCollector, Drops, At, objects, thread, ControlInv, TypeOK,
         LocalAgrees, GuardAgrees, Registered, Exiting
    <3>3. LockExcludes'
      BY <2>8 DEF DropCollector, Drops, At, objects, thread, ControlInv, TypeOK,
         LocalAgrees, GuardAgrees, Registered, Exiting, LockExcludes, Locked,
         Working
    <3>4. QED
      BY <3>1, <3>2, <3>3 DEF ControlInv
  <2>9. ASSUME NEW t \in Threads, FinishDrop(t)
        PROVE  ControlInv'
    <3>1. TypeOK'
      BY <2>9 DEF FinishDrop, At, Goto, chain, objects, ControlInv, TypeOK,
         LocalAgrees, GuardAgrees, Registered, Exiting, Locations, Items
    <3>2. \A u \in Threads : LocalAgrees(u)' /\ GuardAgrees(u)'
      BY <2>9 DEF FinishDrop, At, Goto, chain, objects, ControlInv, TypeOK,
         LocalAgrees, GuardAgrees, Registered, Exiting
    <3>3. LockExcludes'
      BY <2>9 DEF FinishDrop, At, Goto, chain, objects, ControlInv, TypeOK,
         LocalAgrees, GuardAgrees, Registered, Exiting, LockExcludes, Locked,
         Working
    <3>4. QED
      BY <3>1, <3>2, <3>3 DEF ControlInv
  <2>10. ASSUME NEW t \in Threads, EndGuard(t)
        PROVE  ControlInv'
    <3>1. TypeOK'
      BY <2>10 DEF EndGuard, GuardEnds, MustScan, chain, thread, ControlInv,
         TypeOK, LocalAgrees, GuardAgrees, Registered, Exiting, Locations, Items
    <3>2. \A u \in Threads : LocalAgrees(u)' /\ GuardAgrees(u)'
      BY <2>10 DEF EndGuard, GuardEnds, MustScan, chain, thread, ControlInv,
         TypeOK, LocalAgrees, GuardAgrees, Registered, Exiting
    <3>3. LockExcludes'
      BY <2>10 DEF EndGuard, GuardEnds, MustScan, chain, thread, ControlInv,
         TypeOK, LocalAgrees, GuardAgrees, Registered, Exiting, LockExcludes,
         Locked, Working
    <3>4. QED
      BY <3>1, <3>2, <3>3 DEF ControlInv
  <2>11. ASSUME NEW t \in Threads, StartScan(t)
        PROVE  ControlInv'
    <3>1. TypeOK'
      BY <2>11 DEF StartScan, GuardEnds, LockChain, Set, Goto,
         ControlInv, TypeOK, LocalAgrees, GuardAgrees, Registered, Exiting,
         Locations, Items
    <3>2. \A u \in Threads : LocalAgrees(u)' /\ GuardAgrees(u)'
      BY <2>11 DEF StartScan, GuardEnds, LockChain, Set, Goto,
         ControlInv, TypeOK, LocalAgrees, GuardAgrees, Registered, Exiting
    <3>3. LockExcludes'
      BY <2>11 DEF StartScan, GuardEnds, LockChain, Set, Goto,
         ControlInv, TypeOK, LocalAgrees, GuardAgrees, Registered, Exiting,
         LockExcludes, Locked, Working
    <3>4. QED
      BY <3>1, <3>2, <3>3 DEF ControlInv
  <2>12. ASSUME NEW t \in Threads, ScanPass(t)
        PROVE  ControlInv'
    <3>1. TypeOK'
      BY <2>12 DEF ScanPass, At, MoveOn, Set, chain, objects, ControlInv, TypeOK,
         LocalAgrees, GuardAgrees, Registered, Exiting, Locations, Items
    <3>2. \A u \in Threads : LocalAgrees(u)' /\ GuardAgrees(u)'
      BY <2>12 DEF ScanPass, At, MoveOn, Set, chain, objects, ControlInv, TypeOK,
         LocalAgrees, GuardAgrees, Registered, Exiting
    <3>3. LockExcludes'
      BY <2>12 DEF ScanPass, At, MoveOn, Set, chain, objects, ControlInv, TypeOK,
         LocalAgrees, GuardAgrees, Registered, Exiting, LockExcludes, Locked,
         Working
    <3>4. QED
      BY <3>1, <3>2, <3>3 DEF ControlInv
  <2>13. ASSUME NEW t \in Threads, ScanUnlink(t)
        PROVE  ControlInv'
    <3>1. TypeOK'
      <4>1. /\ ptr[t] \in Collectors /\ local[t] \in Collectors \cup Threads
            /\ UNCHANGED <<tag, state, life, guarded, local, made, pc, prev, dropping>>
        BY <2>13 DEF ScanUnlink, At, Collected, Witnessed, Set, ControlInv,
           TypeOK, LocalAgrees, GuardAgrees, Registered, Exiting
      <4>2. ptr' \in [Threads -> Collectors \cup {Null}]
        BY <2>13, <4>1 DEF ScanUnlink, Set, ControlInv, TypeOK
      <4>3. /\ head' \in Collectors \cup {Null}
            /\ next_link' \in [Collectors -> Collectors \cup {Null}]
        BY <2>13, <4>1 DEF ScanUnlink, ControlInv, TypeOK
      <4>4. ptr[t] \in Items
        BY <4>1 DEF Items
      <4>5. garbage' \in [Collectors \cup Threads -> SUBSET Items]
        BY <2>13, <4>1, <4>4 DEF ScanUnlink, Collected, ControlInv, TypeOK
      <4>6. held' \in [Threads -> SUBSET Items]
        BY <2>13, <4>1, <4>4 DEF ScanUnlink, Witnessed, ControlInv, TypeOK
      <4>7. QED
        BY <4>1, <4>2, <4>3, <4>5, <4>6 DEF ControlInv, TypeOK
    <3>2. \A u \in Threads : LocalAgrees(u)' /\ GuardAgrees(u)'
      BY <2>13 DEF ScanUnlink, At, Collected, Witnessed, Set, ControlInv, TypeOK,
         LocalAgrees, GuardAgrees, Registered, Exiting
    <3>3. LockExcludes'
      BY <2>13 DEF ScanUnlink, At, Collected, Witnessed, Set, ControlInv, TypeOK,
         LocalAgrees, GuardAgrees, Registered, Exiting, LockExcludes, Locked,
         Working
    <3>4. QED
      BY <3>1, <3>2, <3>3 DEF ControlInv
  <2>14. ASSUME NEW t \in Threads, ScanStop(t)
        PROVE  ControlInv'
    <3>1. TypeOK'
      BY <2>14 DEF ScanStop, At, Goto, chain, objects, ControlInv, TypeOK,
         LocalAgrees, GuardAgrees, Registered, Exiting, Locations, Items
    <3>2. \A u \in Threads : LocalAgrees(u)' /\ GuardAgrees(u)'
      BY <2>14 DEF ScanStop, At, Goto, chain, objects, ControlInv, TypeOK,
         LocalAgrees, GuardAgrees, Registered, Exiting
    <3>3. LockExcludes'
      BY <2>14 DEF ScanStop, At, Goto, chain, objects, ControlInv, TypeOK,
         LocalAgrees, GuardAgrees, Registered, Exiting, LockExcludes, Locked,
         Working
    <3>4. QED
      BY <3>1, <3>2, <3>3 DEF ControlInv
  <2>15. ASSUME NEW t \in Threads, ScanEnds(t)
        PROVE  ControlInv'
    <3>1. TypeOK'
      BY <2>15 DEF ScanEnds, At, Goto, chain, objects, ControlInv, TypeOK,
         LocalAgrees, GuardAgrees, Registered, Exiting, Locations, Items
    <3>2. \A u \in Threads : LocalAgrees(u)' /\ GuardAgrees(u)'
      BY <2>15 DEF ScanEnds, At, Goto, chain, objects, ControlInv, TypeOK,
         LocalAgrees, GuardAgrees, Registered, Exiting
    <3>3. LockExcludes'
      BY <2>15 DEF ScanEnds, At, Goto, chain, objects, ControlInv, TypeOK,
         LocalAgrees, GuardAgrees, Registered, Exiting, LockExcludes, Locked,
         Working
    <3>4. QED
      BY <3>1, <3>2, <3>3 DEF ControlInv
  <2>16. ASSUME NEW t \in Threads, UnlockChain(t)
        PROVE  ControlInv'
    <3>1. TypeOK'
      BY <2>16 DEF UnlockChain, Set, Goto, At, objects, ControlInv, TypeOK,
         LocalAgrees, GuardAgrees, Registered, Exiting, Locations, Items
    <3>2. \A u \in Threads : LocalAgrees(u)' /\ GuardAgrees(u)'
      BY <2>16 DEF UnlockChain, Set, Goto, At, objects, ControlInv, TypeOK,
         LocalAgrees, GuardAgrees, Registered, Exiting
    <3>3. LockExcludes'
      BY <2>16 DEF UnlockChain, Set, Goto, At, objects, ControlInv, TypeOK,
         LocalAgrees, GuardAgrees, Registered, Exiting, LockExcludes, Locked,
         Working
    <3>4. QED
      BY <3>1, <3>2, <3>3 DEF ControlInv
  <2>17. ASSUME NEW t \in Threads, Suspend(t)
        PROVE  ControlInv'
    <3>1. TypeOK'
      BY <2>17 DEF Suspend, At, Goto, objects, ControlInv, TypeOK, LocalAgrees,
         GuardAgrees, Registered, Exiting, Locations, Items
    <3>2. \A u \in Threads : LocalAgrees(u)' /\ GuardAgrees(u)'
      BY <2>17 DEF Suspend, At, Goto, objects, ControlInv, TypeOK, LocalAgrees,
         GuardAgrees, Registered, Exiting
    <3>3. LockExcludes'
      BY <2>17 DEF Suspend, At, Goto, objects, ControlInv, TypeOK, LocalAgrees,
         GuardAgrees, Registered, Exiting, LockExcludes, Locked, Working
    <3>4. QED
      BY <3>1, <3>2, <3>3 DEF ControlInv
  <2>18. ASSUME NEW t \in Threads, MarkScanEnforced(t)
        PROVE  ControlInv'
    <3>1. TypeOK'
      BY <2>18 DEF MarkScanEnforced, At, Goto, objects, ControlInv, TypeOK,
         LocalAgrees, GuardAgrees, Registered, Exiting, Locations, Items
    <3>2. \A u \in Threads : LocalAgrees(u)' /\ GuardAgrees(u)'
      BY <2>18 DEF MarkScanEnforced, At, Goto, objects, ControlInv, TypeOK,
         LocalAgrees, GuardAgrees, Registered, Exiting
    <3>3. LockExcludes'
      BY <2>18 DEF MarkScanEnforced, At, Goto, objects, ControlInv, TypeOK,
         LocalAgrees, GuardAgrees, Registered, Exiting, LockExcludes, Locked,
         Working
    <3>4. QED
      BY <3>1, <3>2, <3>3 DEF ControlInv
  <2>19. ASSUME NEW t \in Threads, Exit(t)
        PROVE  ControlInv'
    <3>1. TypeOK'
      BY <2>19 DEF Exit, At, Goto, objects, ControlInv, TypeOK, LocalAgrees,
         GuardAgrees, Registered, Exiting, Locations, Items
    <3>2. \A u \in Threads : LocalAgrees(u)' /\ GuardAgrees(u)'
      BY <2>19 DEF Exit, At, Goto, objects, ControlInv, TypeOK, LocalAgrees,
         GuardAgrees, Registered, Exiting
    <3>3. LockExcludes'
      BY <2>19 DEF Exit, At, Goto, objects, ControlInv, TypeOK, LocalAgrees,
         GuardAgrees, Registered, Exiting, LockExcludes, Locked, Working
    <3>4. QED
      BY <3>1, <3>2, <3>3 DEF ControlInv
  <2>20. ASSUME NEW t \in Threads, LockForClear(t)
        PROVE  ControlInv'
    <3>1. TypeOK'
      BY <2>20 DEF LockForClear, At, LockChain, Set, Goto, objects, ControlInv,
         TypeOK, LocalAgrees, GuardAgrees, Registered, Exiting, Locations, Items
    <3>2. \A u \in Threads : LocalAgrees(u)' /\ GuardAgrees(u)'
      BY <2>20 DEF LockForClear, At, LockChain, Set, Goto, objects, ControlInv,
         TypeOK, LocalAgrees, GuardAgrees, Registered, Exiting
    <3>3. LockExcludes'
      BY <2>20 DEF LockForClear, At, LockChain, Set, Goto, objects, ControlInv,
         TypeOK, LocalAgrees, GuardAgrees, Registered, Exiting, LockExcludes,
         Locked, Working
    <3>4. QED
      BY <3>1, <3>2, <3>3 DEF ControlInv
  <2>21. ASSUME NEW t \in Threads, LockFails(t)
        PROVE  ControlInv'
    <3>1. TypeOK'
      BY <2>21 DEF LockFails, At, Goto, chain, objects, ControlInv, TypeOK,
         LocalAgrees, GuardAgrees, Registered, Exiting, Locations, Items
    <3>2. \A u \in Threads : LocalAgrees(u)' /\ GuardAgrees(u)'
      BY <2>21 DEF LockFails, At, Goto, chain, objects, ControlInv, TypeOK,
         LocalAgrees, GuardAgrees, Registered, Exiting
    <3>3. LockExcludes'
      BY <2>21 DEF LockFails, At, Goto, chain, objects, ControlInv, TypeOK,
         LocalAgrees, GuardAgrees, Registered, Exiting, LockExcludes, Locked,
         Working
    <3>4. QED
      BY <3>1, <3>2, <3>3 DEF ControlInv
  <2>22. ASSUME NEW t \in Threads, CheckInvalid(t)
        PROVE  ControlInv'
    <3>1. TypeOK'
      BY <2>22 DEF CheckInvalid, At, Set, chain, objects, ControlInv, TypeOK,
         LocalAgrees, GuardAgrees, Registered, Exiting, Locations, Items
    <3>2. \A u \in Threads : LocalAgrees(u)' /\ GuardAgrees(u)'
      BY <2>22 DEF CheckInvalid, At, Set, chain, objects, ControlInv, TypeOK,
         LocalAgrees, GuardAgrees, Registered, Exiting
    <3>3. LockExcludes'
      BY <2>22 DEF CheckInvalid, At, Set, chain, objects, ControlInv, TypeOK,
         LocalAgrees, GuardAgrees, Registered, Exiting, LockExcludes, Locked,
         Working
    <3>4. QED
      BY <3>1, <3>2, <3>3 DEF ControlInv
  <2>23. ASSUME NEW t \in Threads, FindValid(t)
        PROVE  ControlInv'
    <3>1. TypeOK'
      BY <2>23 DEF FindValid, At, Goto, chain, objects, ControlInv, TypeOK,
         LocalAgrees, GuardAgrees, Registered, Exiting, Locations, Items
    <3>2. \A u \in Threads : LocalAgrees(u)' /\ GuardAgrees(u)'
      BY <2>23 DEF FindValid, At, Goto, chain, objects, ControlInv, TypeOK,
         LocalAgrees, GuardAgrees, Registered, Exiting
    <3>3. LockExcludes'
      BY <2>23 DEF FindValid, At, Goto, chain, objects, ControlInv, TypeOK,
         LocalAgrees, GuardAgrees, Registered, Exiting, LockExcludes, Locked,
         Working
    <3>4. QED
      BY <3>1, <3>2, <3>3 DEF ControlInv
  <2>24. ASSUME NEW t \in Threads, TakeChain(t)
        PROVE  ControlInv'
    <3>1. TypeOK'
      BY <2>24 DEF TakeChain, At, Set, Goto, objects, ControlInv, TypeOK,
         LocalAgrees, GuardAgrees, Registered, Exiting, Locations, Items
    <3>2. \A u \in Threads : LocalAgrees(u)' /\ GuardAgrees(u)'
      BY <2>24 DEF TakeChain, At, Set, Goto, objects, ControlInv, TypeOK,
         LocalAgrees, GuardAgrees, Registered, Exiting
    <3>3. LockExcludes'
      BY <2>24 DEF TakeChain, At, Set, Goto, objects, ControlInv, TypeOK,
         LocalAgrees, GuardAgrees, Registered, Exiting, LockExcludes, Locked,
         Working
    <3>4. QED
      BY <3>1, <3>2, <3>3 DEF ControlInv
  <2>25. ASSUME NEW t \in Threads, TakeFails(t)
        PROVE  ControlInv'
    <3>1. TypeOK'
      BY <2>25 DEF TakeFails, At, Goto, chain, objects, ControlInv, TypeOK,
         LocalAgrees, GuardAgrees, Registered, Exiting, Locations, Items
    <3>2. \A u \in Threads : LocalAgrees(u)' /\ GuardAgrees(u)'
      BY <2>25 DEF TakeFails, At, Goto, chain, objects, ControlInv, TypeOK,
         LocalAgrees, GuardAgrees, Registered, Exiting
    <3>3. LockExcludes'
      BY <2>25 DEF TakeFails, At, Goto, chain, objects, ControlInv, TypeOK,
         LocalAgrees, GuardAgrees, Registered, Exiting, LockExcludes, Locked,
         Working
    <3>4. QED
      BY <3>1, <3>2, <3>3 DEF ControlInv
  <2>26. ASSUME NEW t \in Threads, FreeCollector(t)
        PROVE  ControlInv'
    <3>1. TypeOK'
      BY <2>26 DEF FreeCollector, At, Dropped, Set, objects, ControlInv, TypeOK,
         LocalAgrees, GuardAgrees, Registered, Exiting, Locations, Items
    <3>2. \A u \in Threads : LocalAgrees(u)' /\ GuardAgrees(u)'
      BY <2>26 DEF FreeCollector, At, Dropped, Set, objects, ControlInv, TypeOK,
         LocalAgrees, GuardAgrees, Registered, Exiting
    <3>3. LockExcludes'
      BY <2>26 DEF FreeCollector, At, Dropped, Set, objects, ControlInv, TypeOK,
         LocalAgrees, GuardAgrees, Registered, Exiting, LockExcludes, Locked,
         Working
    <3>4. QED
      BY <3>1, <3>2, <3>3 DEF ControlInv
  <2>27. ASSUME NEW t \in Threads, ChainFreed(t)
        PROVE  ControlInv'
    <3>1. TypeOK'
      BY <2>27 DEF ChainFreed, At, Dropped, Goto, chain, objects, ControlInv,
         TypeOK, LocalAgrees, GuardAgrees, Registered, Exiting, Locations, Items
    <3>2. \A u \in Threads : LocalAgrees(u)' /\ GuardAgrees(u)'
      BY <2>27 DEF ChainFreed, At, Dropped, Goto, chain, objects, ControlInv,
         TypeOK, LocalAgrees, GuardAgrees, Registered, Exiting
    <3>3. LockExcludes'
      BY <2>27 DEF ChainFreed, At, Dropped, Goto, chain, objects, ControlInv,
         TypeOK, LocalAgrees, GuardAgrees, Registered, Exiting, LockExcludes,
         Locked, Working
    <3>4. QED
      BY <3>1, <3>2, <3>3 DEF ControlInv
  <2>28. ASSUME NEW t \in Threads, ClearTemporary(t)
        PROVE  ControlInv'
    <3>1. TypeOK'
      BY <2>28 DEF ClearTemporary, At, Dropped, chain, objects, thread,
         ControlInv, TypeOK, LocalAgrees, GuardAgrees, Registered, Exiting,
         Locations, Items
    <3>2. \A u \in Threads : LocalAgrees(u)' /\ GuardAgrees(u)'
      BY <2>28 DEF ClearTemporary, At, Dropped, chain, objects, thread,
         ControlInv, TypeOK, LocalAgrees, GuardAgrees, Registered, Exiting
    <3>3. LockExcludes'
      BY <2>28 DEF ClearTemporary, At, Dropped, chain, objects, thread,
         ControlInv, TypeOK, LocalAgrees, GuardAgrees, Registered, Exiting,
         LockExcludes, Locked, Working
    <3>4. QED
      BY <3>1, <3>2, <3>3 DEF ControlInv
  <2>29. ASSUME NEW t \in Threads, Ended(t)
        PROVE  ControlInv'
    <3>1. TypeOK'
      BY <2>29 DEF Ended, At, Dropped, Goto, chain, objects, ControlInv, TypeOK,
         LocalAgrees, GuardAgrees, Registered, Exiting, Locations, Items
    <3>2. \A u \in Threads : LocalAgrees(u)' /\ GuardAgrees(u)'
      BY <2>29 DEF Ended, At, Dropped, Goto, chain, objects, ControlInv, TypeOK,
         LocalAgrees, GuardAgrees, Registered, Exiting
    <3>3. LockExcludes'
      BY <2>29 DEF Ended, At, Dropped, Goto, chain, objects, ControlInv, TypeOK,
         LocalAgrees, GuardAgrees, Registered, Exiting, LockExcludes, Locked,
         Working
    <3>4. QED
      BY <3>1, <3>2, <3>3 DEF ControlInv
  <2>30. QED
    BY <1>2, NextCases, <2>1, <2>2, <2>3, <2>4, <2>5, <2>6, <2>7, <2>8, <2>9, <2>10,
       <2>11, <2>12, <2>13, <2>14, <2>15, <2>16, <2>17, <2>18, <2>19, <2>20, <2>21,
       <2>22, <2>23, <2>24, <2>25, <2>26, <2>27, <2>28, <2>29
<1>3. QED
  BY <1>1, <1>2

(* Initially the chain is empty.                                           *)
LEMMA ChainInit == Init => ChainInv
<1> SUFFICES ASSUME Init PROVE ChainInv
  OBVIOUS
<1>1. InChain = {}
  BY ThreadExitAssumption, ReachStep DEF Init, InChain
<1>2. \A c : ~Discarded(c)
  BY DEF Init, Discarded
<1>3. QED
  BY <1>1, <1>2, ThreadExitAssumption
  DEF Init, ChainInv, ChainOK, RegisteredOK, PushOK, ScanOK, CheckOK, FreeOK,
      InChain, Acyclic, Registered

(* The chain and what was taken out of it are of Collectors, and closed    *)
(* under links.                                                            *)
LEMMA ChainClosed ==
    ASSUME TypeOK
    PROVE  /\ InChain \subseteq Collectors
           /\ head # Null => head \in InChain
           /\ head = Null => InChain = {}
           /\ \A c \in InChain : next_link[c] \in InChain \cup {Null}
           /\ \A t \in Threads :
                 /\ Taken(t) \subseteq Collectors
                 /\ ptr[t] # Null => ptr[t] \in Taken(t)
                 /\ ptr[t] = Null => Taken(t) = {}
<1>1. DOMAIN next_link = Collectors /\ Null \notin Collectors
  BY ThreadExitAssumption DEF TypeOK
<1>2. Closed(next_link, InChain)
  BY ReachStep DEF InChain
<1>3. \A c \in InChain : next_link[c] \in InChain \cup {Null}
  BY <1>1, <1>2, ReachStep DEF Closed, TypeOK, InChain
<1>4. QED
  BY <1>1, <1>3, ReachStep DEF InChain, Taken, TypeOK

(* A step that leaves the chain alone, discards nothing and keeps cursors  *)
(* where they belong keeps layer 2.                                        *)
LEMMA ChainFrame ==
    ASSUME TypeOK, ChainInv, UNCHANGED <<head, next_link, state>>,
           \A c \in Collectors : Discarded(c)' => Discarded(c),
           \A t \in Threads : Registered(t)' => local'[t] = local[t],
           \A t \in Threads : pc'[t] \in {"push", "free"} =>
               pc'[t] = pc[t] /\ ptr'[t] = ptr[t] /\ prev'[t] = prev[t],
           \A t \in Threads : pc'[t] = "scan" =>
               \/ pc'[t] = pc[t] /\ ptr'[t] = ptr[t] /\ prev'[t] = prev[t]
               \/ /\ {ptr'[t], prev'[t]} \subseteq InChain \cup {Null}
                  /\ prev'[t] # Null => next_link[prev'[t]] = ptr'[t],
           \A t \in Threads : pc'[t] = "check" =>
               \/ pc'[t] = pc[t] /\ ptr'[t] = ptr[t] /\ prev'[t] = prev[t]
               \/ /\ {ptr'[t], prev'[t]} \subseteq InChain \cup {Null}
                  /\ \A c \in Reach(next_link, prev'[t]) \ Reach(next_link, ptr'[t]) :
                        state[c] = "INVALID"
    PROVE  ChainInv'
<1>1. InChain' = InChain /\ Acyclic(next_link', head') = Acyclic(next_link, head)
  BY DEF InChain
<1>2. ChainOK'
  BY <1>1, ChainClosed DEF ChainInv, ChainOK
<1>3. RegisteredOK'
  BY <1>1 DEF ChainInv, RegisteredOK, Registered
<1>4. PushOK'
  BY <1>1 DEF ChainInv, PushOK
<1>5. ScanOK'
  BY <1>1 DEF ChainInv, ScanOK
<1>6. CheckOK'
  BY <1>1 DEF ChainInv, CheckOK
<1>7. FreeOK'
  <2> SUFFICES ASSUME NEW t \in Threads, pc'[t] = "free"
               PROVE  /\ Acyclic(next_link', ptr'[t])
                      /\ \A c \in Taken(t)' :
                            state'[c] = "INVALID" /\ ~Discarded(c)' /\ c \notin InChain'
    BY DEF FreeOK
  <2>1. /\ pc[t] = "free" /\ ptr'[t] = ptr[t]
        /\ Taken(t)' = Taken(t) /\ Taken(t) \subseteq Collectors
    BY ChainClosed DEF Taken
  <2>2. QED
    BY <1>1, <2>1 DEF ChainInv, FreeOK
<1>8. QED
  BY <1>2, <1>3, <1>4, <1>5, <1>6, <1>7 DEF ChainInv

(* Links that neither the chain nor what was taken out of it has may       *)
(* change.                                                                 *)
LEMMA LinksElsewhere ==
    ASSUME TypeOK, TypeOK', head' = head,
           NEW d \in Collectors, d \notin InChain,
           \A t \in Threads : pc[t] = "free" => d \notin Taken(t),
           \A c \in Collectors \ {d} : next_link'[c] = next_link[c]
    PROVE  /\ InChain' = InChain
           /\ Acyclic(next_link, head) => Acyclic(next_link', head')
           /\ \A a \in InChain \cup {Null} : Reach(next_link', a) = Reach(next_link, a)
           /\ \A t \in Threads : pc[t] = "free" =>
                 /\ Reach(next_link', ptr[t]) = Taken(t)
                 /\ Acyclic(next_link, ptr[t]) => Acyclic(next_link', ptr[t])
<1>1. DOMAIN next_link = Collectors /\ DOMAIN next_link' = Collectors /\ Null \notin Collectors
  BY ThreadExitAssumption DEF TypeOK
<1>2. /\ InChain' = InChain
      /\ Acyclic(next_link, head) => Acyclic(next_link', head')
      /\ \A a \in InChain : Reach(next_link', a) = Reach(next_link, a)
  <2>1. \A n \in Reach(next_link, head) : next_link'[n] = next_link[n]
    BY ChainClosed DEF InChain
  <2>2. /\ Reach(next_link', head) = Reach(next_link, head)
        /\ Acyclic(next_link, head) => Acyclic(next_link', head)
        /\ \A a \in Reach(next_link, head) : Reach(next_link', a) = Reach(next_link, a)
    BY <1>1, <2>1, ReachFrame
  <2>3. QED
    BY <2>2 DEF InChain
<1>3. Reach(next_link, Null) = {} /\ Reach(next_link', Null) = {}
  BY <1>1, ReachStep
<1>4. ASSUME NEW t \in Threads, pc[t] = "free"
      PROVE  /\ Reach(next_link', ptr[t]) = Taken(t)
             /\ Acyclic(next_link, ptr[t]) => Acyclic(next_link', ptr[t])
  <2>1. \A n \in Reach(next_link, ptr[t]) : next_link'[n] = next_link[n]
    BY <1>4, ChainClosed DEF Taken
  <2>2. QED
    BY <1>1, <2>1, ReachFrame DEF Taken
<1>5. QED
  BY <1>2, <1>3, <1>4

(* A Collector that is linked to the head, and is in no one else's reach,  *)
(* can be pushed.                                                          *)
LEMMA LinkedToHead ==
    ASSUME ControlInv, ControlInv', ChainInv, head' = head,
           NEW t \in Threads, NEW d \in Collectors,
           d \notin InChain, ~Discarded(d), state[d] \in {"free", "valid"},
           \A u \in Threads \ {t} : pc[u] = "push" => prev[u] # d,
           next_link' = [next_link EXCEPT ![d] = head],
           state' = [state EXCEPT ![d] = "valid"],
           ptr' = [ptr EXCEPT ![t] = head], prev' = [prev EXCEPT ![t] = d],
           pc' = [pc EXCEPT ![t] = "push"],
           UNCHANGED <<local, garbage, dropping>>
    PROVE  ChainInv'
<1>1. TypeOK /\ TypeOK' /\ \A c \in Collectors : Discarded(c)' <=> Discarded(c)
  BY DEF ControlInv, Discarded
<1>2. \A u \in Threads : pc[u] = "free" => d \notin Taken(u)
  BY DEF ChainInv, FreeOK
<1>3. /\ InChain' = InChain /\ Acyclic(next_link', head')
      /\ \A a \in InChain \cup {Null} : Reach(next_link', a) = Reach(next_link, a)
      /\ \A u \in Threads : pc[u] = "free" =>
            Reach(next_link', ptr[u]) = Taken(u) /\ Acyclic(next_link', ptr[u])
  <2>1. \A c \in Collectors \ {d} : next_link'[c] = next_link[c]
    BY <1>1 DEF TypeOK
  <2>2. QED
    BY <1>1, <1>2, <2>1, LinksElsewhere DEF ChainInv, ChainOK, FreeOK
<1>4. /\ InChain \subseteq Collectors
      /\ \A u \in Threads \ {t} : pc'[u] = pc[u] /\ ptr'[u] = ptr[u] /\ prev'[u] = prev[u]
      /\ \A c \in Collectors \ {d} : state'[c] = state[c] /\ next_link'[c] = next_link[c]
      /\ state'[d] = "valid" /\ next_link'[d] = head
      /\ pc'[t] = "push" /\ ptr'[t] = head /\ prev'[t] = d
  BY <1>1, ChainClosed DEF TypeOK
<1>5. ChainOK'
  BY <1>1, <1>3, <1>4 DEF ChainInv, ChainOK
<1>6. RegisteredOK'
  BY <1>1, <1>3, <1>4 DEF ChainInv, RegisteredOK, Registered
<1>7. PushOK'
  BY <1>1, <1>3, <1>4 DEF ChainInv, PushOK
<1>8. ScanOK'
  BY <1>1, <1>3, <1>4 DEF ChainInv, ScanOK
<1>9. CheckOK'
  <2> SUFFICES ASSUME NEW u \in Threads, pc'[u] = "check"
               PROVE  /\ {ptr'[u], prev'[u]} \subseteq InChain' \cup {Null}
                      /\ \A c \in Reach(next_link', prev'[u]) \ Reach(next_link', ptr'[u]) :
                            state'[c] = "INVALID"
    BY DEF CheckOK
  <2>1. /\ pc[u] = "check" /\ ptr'[u] = ptr[u] /\ prev'[u] = prev[u]
        /\ {ptr[u], prev[u]} \subseteq InChain \cup {Null}
        /\ \A c \in Reach(next_link, prev[u]) \ Reach(next_link, ptr[u]) :
              state[c] = "INVALID"
    BY <1>4 DEF ChainInv, CheckOK
  <2>2. /\ Reach(next_link', prev'[u]) = Reach(next_link, prev[u])
        /\ Reach(next_link', ptr'[u]) = Reach(next_link, ptr[u])
    BY <1>3, <2>1
  <2>3. \A c \in Reach(next_link, prev[u]) : c \in Collectors
    BY <1>1, ReachStep DEF TypeOK
  <2>4. \A c \in Collectors : state[c] = "INVALID" => state'[c] = "INVALID"
    BY <1>4
  <2>5. QED
    BY <1>3, <2>1, <2>2, <2>3, <2>4
<1>10. FreeOK'
  <2> SUFFICES ASSUME NEW u \in Threads, pc'[u] = "free"
               PROVE  /\ Acyclic(next_link', ptr'[u])
                      /\ \A c \in Taken(u)' :
                            state'[c] = "INVALID" /\ ~Discarded(c)' /\ c \notin InChain'
    BY DEF FreeOK
  <2>1. pc[u] = "free" /\ ptr'[u] = ptr[u] /\ Taken(u) \subseteq Collectors
    BY <1>1, <1>4, ChainClosed
  <2>2. Taken(u)' = Taken(u)
    BY <1>3, <2>1 DEF Taken
  <2>3. Acyclic(next_link', ptr'[u])
    BY <1>3, <2>1
  <2>4. \A c \in Taken(u) : c \in Collectors /\ state'[c] = state[c]
    BY <1>2, <1>4, <2>1
  <2>5. QED
    BY <1>1, <1>3, <2>1, <2>2, <2>3, <2>4 DEF ChainInv, FreeOK
<1>11. QED
  BY <1>5, <1>6, <1>7, <1>8, <1>9, <1>10 DEF ChainInv

(* A thread without a guard disowns its Collector.                         *)
LEMMA Disowned ==
    ASSUME ControlInv, ChainInv, UNCHANGED <<head, next_link, ptr, prev, garbage, dropping>>,
           NEW t \in Threads, NEW place \in {"mark", "exit"},
           pc' = [pc EXCEPT ![t] = place],
           state' = [c \in Collectors |-> IF c = local[t] THEN "INVALID" ELSE state[c]],
           NEW x, x \notin Collectors, local' = [local EXCEPT ![t] = x]
    PROVE  ChainInv'
<1>1. TypeOK /\ \A c \in Collectors : Discarded(c)' <=> Discarded(c)
  BY DEF ControlInv, Discarded
<1>2. /\ InChain' = InChain /\ InChain \subseteq Collectors
      /\ \A u \in Threads : Taken(u)' = Taken(u) /\ Taken(u) \subseteq Collectors
  BY <1>1, ChainClosed DEF InChain, Taken
<1>3. /\ \A u \in Threads \ {t} : pc'[u] = pc[u] /\ local'[u] = local[u]
      /\ pc'[t] = place /\ local'[t] = x
      /\ \A c \in Collectors : /\ state'[c] \in {state[c], "INVALID"}
                              /\ c # local[t] => state'[c] = state[c]
  BY <1>1 DEF TypeOK
<1>4. ChainOK'
  BY <1>1, <1>2, <1>3 DEF ChainInv, ChainOK
<1>5. RegisteredOK'
  BY <1>2, <1>3 DEF ChainInv, RegisteredOK, Registered
<1>6. PushOK'
  BY <1>2, <1>3 DEF ChainInv, PushOK, RegisteredOK, Registered
<1>7. ScanOK'
  BY <1>2, <1>3 DEF ChainInv, ScanOK
<1>8. CheckOK'
  <2>1. \A a : Reach(next_link, a) \subseteq Collectors
    BY <1>1, ReachStep DEF TypeOK
  <2>2. QED
    BY <1>2, <1>3, <2>1 DEF ChainInv, CheckOK
<1>9. FreeOK'
  BY <1>1, <1>2, <1>3 DEF ChainInv, FreeOK
<1>10. QED
  BY <1>4, <1>5, <1>6, <1>7, <1>8, <1>9 DEF ChainInv

(* A disowned Collector is taken out of the chain by a scan.               *)
LEMMA UnlinkKeepsChain ==
    ASSUME ControlInv, ChainInv, NEW t \in Threads, ScanUnlink(t)
    PROVE  ChainInv'
<1> USE ThreadExitAssumption
<1> DEFINE c == ptr[t]
<1>1. /\ pc[t] = "scan" /\ c # Null /\ state[c] = "INVALID" /\ CanUnlink(t, c)
      /\ UNCHANGED <<state, local, pc, prev, dropping>>
      /\ ptr' = [ptr EXCEPT ![t] = next_link[c]]
      /\ garbage' = [garbage EXCEPT ![local[t]] = @ \cup {c}]
  BY DEF ScanUnlink, At, Set, Collected
<1>2. /\ c \in InChain /\ c \in Collectors /\ prev[t] \in InChain \cup {Null}
      /\ InChain \subseteq Collectors /\ DOMAIN next_link = Collectors
      /\ Acyclic(next_link, head) /\ next_link[c] \in InChain \cup {Null}
  BY <1>1, ChainClosed DEF ControlInv, ChainInv, ScanOK, ChainOK, TypeOK
<1> HIDE DEF c
<1>3. next_link[c] # c
  <2>1. next_link[c] = c => c \in Reach(next_link, next_link[c])
    BY <1>2, ReachStep
  <2>2. QED
    BY <1>2, <2>1 DEF Acyclic, InChain
<1>4. /\ InChain' = InChain \ {c} /\ Acyclic(next_link', head')
      /\ \A d \in Collectors \ InChain : next_link'[d] = next_link[d]
      /\ prev[t] # Null => prev[t] # c /\ next_link'[prev[t]] = next_link[c]
  <2>1. CASE prev[t] = Null
    <3>1. head = c /\ head' = next_link[c] /\ next_link' = next_link
      BY <1>1, <2>1 DEF ScanUnlink, CanUnlink, c
    <3>2. QED
      BY <1>2, <2>1, <3>1, ReachTail DEF InChain
  <2>2. CASE prev[t] # Null
    <3>1. head' = head /\ next_link' = [next_link EXCEPT ![prev[t]] = next_link[c]]
      BY <2>2 DEF ScanUnlink, c
    <3>2. prev[t] \in InChain /\ next_link[prev[t]] = c
      BY <1>1, <1>2, <2>2 DEF ChainInv, ScanOK, c
    <3>3. InChain' = InChain \ {c} /\ Acyclic(next_link', head')
      <4>1. /\ Acyclic(next_link, head) /\ prev[t] \in Reach(next_link, head)
            /\ c \in DOMAIN next_link /\ next_link[prev[t]] = c
            /\ DOMAIN next_link' = DOMAIN next_link /\ next_link'[prev[t]] = next_link[c]
            /\ \A n \in DOMAIN next_link \ {prev[t]} : next_link'[n] = next_link[n]
        BY <1>2, <3>1, <3>2 DEF InChain
      <4>2. /\ Reach(next_link', head) = Reach(next_link, head) \ {c}
            /\ Acyclic(next_link', head)
        BY <4>1, ReachUnlink
      <4>3. QED
        BY <3>1, <4>2 DEF InChain
    <3>4. QED
      BY <1>2, <1>3, <3>1, <3>2, <3>3
  <2>3. QED
    BY <2>1, <2>2
<1>5. /\ \A d \in Collectors : Discarded(d)' => Discarded(d) \/ d = c
      /\ \A u \in Threads \ {t} : ptr'[u] = ptr[u] /\ pc[u] \notin {"scan", "check", "free"}
      /\ ptr'[t] = next_link[c]
  BY <1>1 DEF Discarded, ControlInv, TypeOK, LockExcludes, Working
<1>6. ChainOK'
  BY <1>1, <1>2, <1>4, <1>5 DEF ChainInv, ChainOK
<1>7. RegisteredOK'
  BY <1>1, <1>4 DEF ChainInv, RegisteredOK, Registered
<1>8. PushOK'
  BY <1>1, <1>4, <1>5 DEF ChainInv, PushOK
<1>9. ScanOK'
  BY <1>1, <1>2, <1>3, <1>4, <1>5 DEF ChainInv, ScanOK
<1>10. CheckOK' /\ FreeOK'
  BY <1>1, <1>5 DEF CheckOK, FreeOK
<1>11. QED
  BY <1>6, <1>7, <1>8, <1>9, <1>10 DEF ChainInv

(* Layer 2 is kept by every step.                                          *)
LEMMA ChainStep ==
    ASSUME ControlInv, ControlInv', ChainInv, GarbageInv, [Next]_vars
    PROVE  ChainInv'
<1> USE ThreadExitAssumption
<1>1. TypeOK /\ TypeOK'
  BY DEF ControlInv
<1>2. CASE UNCHANGED vars
  BY <1>1, <1>2, ChainFrame DEF vars, chain, objects, thread, Discarded, Registered
<1>3. CASE Next
  <2>1. ASSUME NEW t \in Threads, Alloc(t)
        PROVE  ChainInv'
    <3>1. PICK d \in Collectors :
              /\ state[d] = "free"
              /\ next_link' = [next_link EXCEPT ![d] = head]
              /\ state' = [state EXCEPT ![d] = "valid"]
              /\ ptr' = [ptr EXCEPT ![t] = head] /\ prev' = [prev EXCEPT ![t] = d]
      BY <2>1 DEF Alloc, LinkToHead, Set
    <3>2. d \notin InChain /\ ~Discarded(d) /\ \A u \in Threads : pc[u] = "push" => prev[u] # d
      BY <3>1 DEF ChainInv, ChainOK, PushOK
    <3>3. UNCHANGED <<head, local, garbage, dropping>> /\ pc' = [pc EXCEPT ![t] = "push"]
      BY <2>1 DEF Alloc, Goto
    <3>4. QED
      BY <3>1, <3>2, <3>3, LinkedToHead
  <2>2. ASSUME NEW t \in Threads, PushCollector(t)
        PROVE  ChainInv'
    <3> DEFINE d == prev[t]
    <3>1. /\ pc[t] = "push" /\ head = ptr[t] /\ head' = d
          /\ local' = [local EXCEPT ![t] = d] /\ pc' = [pc EXCEPT ![t] = "idle"]
          /\ ptr' = [ptr EXCEPT ![t] = Null] /\ prev' = [prev EXCEPT ![t] = Null]
          /\ UNCHANGED <<next_link, state, garbage, dropping>>
      BY <2>2 DEF PushCollector, Set, At, Goto
    <3>2. /\ d \in Collectors /\ d \notin InChain /\ state[d] = "valid" /\ ~Discarded(d)
          /\ next_link[d] = head
          /\ \A u \in Threads \ {t} : pc[u] = "push" => prev[u] # d
      BY <3>1 DEF ChainInv, ChainOK, PushOK
    <3> HIDE DEF d
    <3>3. InChain' = {d} \cup InChain /\ Acyclic(next_link', head')
      <4>1. d \in DOMAIN next_link
        BY <1>1, <3>2 DEF TypeOK
      <4>2. d \notin Reach(next_link, next_link[d]) /\ Acyclic(next_link, next_link[d])
        BY <3>2 DEF InChain, ChainInv, ChainOK
      <4>3. QED
        BY <3>1, <3>2, <4>1, <4>2, ReachPush DEF InChain
    <3>4. /\ \A c \in Collectors : Discarded(c)' <=> Discarded(c)
          /\ \A u \in Threads \ {t} : /\ pc'[u] = pc[u] /\ ptr'[u] = ptr[u]
                                    /\ prev'[u] = prev[u] /\ local'[u] = local[u]
          /\ pc'[t] = "idle" /\ local'[t] = d
      BY <1>1, <3>1 DEF Discarded, TypeOK
    <3>5. ChainOK'
      BY <1>1, <3>1, <3>2, <3>3, <3>4, ChainClosed DEF ChainInv, ChainOK
    <3>6. RegisteredOK'
      BY <3>1, <3>2, <3>3, <3>4 DEF ChainInv, RegisteredOK, Registered
    <3>7. PushOK'
      BY <3>1, <3>2, <3>3, <3>4 DEF ChainInv, PushOK
    <3>8. ScanOK' /\ CheckOK'
      BY <3>1, <3>3, <3>4 DEF ChainInv, ScanOK, CheckOK
    <3>9. FreeOK'
      <4> SUFFICES ASSUME NEW u \in Threads, pc'[u] = "free"
                   PROVE  /\ Acyclic(next_link', ptr'[u])
                          /\ \A c \in Taken(u)' : /\ state'[c] = "INVALID" /\ ~Discarded(c)'
                                                /\ c \notin InChain'
        BY DEF FreeOK
      <4>1. /\ pc[u] = "free" /\ Taken(u)' = Taken(u) /\ Taken(u) \subseteq Collectors
            /\ ptr'[u] = ptr[u]
        BY <1>1, <3>1, <3>4, ChainClosed DEF Taken
      <4>2. QED
        BY <3>1, <3>2, <3>3, <3>4, <4>1 DEF ChainInv, FreeOK
    <3>10. QED
      BY <3>5, <3>6, <3>7, <3>8, <3>9 DEF ChainInv
  <2>3. ASSUME NEW t \in Threads, PushFails(t)
        PROVE  ChainInv'
    <3> DEFINE d == prev[t]
    <3>1. /\ pc[t] = "push" /\ next_link' = [next_link EXCEPT ![d] = head]
          /\ ptr' = [ptr EXCEPT ![t] = head] /\ prev' = [prev EXCEPT ![t] = d]
          /\ UNCHANGED <<head, state, local, garbage, pc, dropping>>
      BY <2>3 DEF PushFails, LinkToHead, Set, At
    <3>2. /\ d \in Collectors /\ d \notin InChain /\ state[d] = "valid" /\ ~Discarded(d)
          /\ \A u \in Threads \ {t} : pc[u] = "push" => prev[u] # d
      BY <3>1 DEF ChainInv, ChainOK, PushOK
    <3>3. state' = [state EXCEPT ![d] = "valid"] /\ pc' = [pc EXCEPT ![t] = "push"]
      BY <1>1, <3>1, <3>2 DEF TypeOK
    <3> HIDE DEF d
    <3>4. QED
      BY <3>1, <3>2, <3>3, LinkedToHead
  <2>4. ASSUME NEW t \in Threads, OpenGuard(t)
        PROVE  ChainInv'
    <3>1. UNCHANGED <<head, next_link, state>>
      BY <2>4 DEF OpenGuard, At, chain, thread
    <3>2. \A c \in Collectors : Discarded(c)' => Discarded(c)
      BY <1>1, <2>4 DEF OpenGuard, At, chain, thread, Discarded, TypeOK
    <3>3. \A u \in Threads : Registered(u)' => local'[u] = local[u]
      BY <1>1, <2>4 DEF OpenGuard, At, chain, thread, Registered, TypeOK
    <3>4. \A u \in Threads : pc'[u] \in {"push", "scan", "check", "free"} =>
              pc'[u] = pc[u] /\ ptr'[u] = ptr[u] /\ prev'[u] = prev[u]
      BY <1>1, <2>4 DEF OpenGuard, At, chain, thread, TypeOK
    <3>5. QED
      BY <1>1, <3>1, <3>2, <3>3, <3>4, ChainFrame
  <2>5. ASSUME NEW t \in Threads, OpenGuardInNewEpoch(t)
        PROVE  ChainInv'
    <3>1. UNCHANGED <<head, next_link, state>>
      BY <2>5 DEF OpenGuardInNewEpoch, At, Aged, Goto, chain
    <3>2. \A c \in Collectors : Discarded(c)' => Discarded(c)
      BY <1>1, <2>5 DEF OpenGuardInNewEpoch, At, Aged, Goto, chain, Discarded, TypeOK
    <3>3. \A u \in Threads : Registered(u)' => local'[u] = local[u]
      BY <1>1, <2>5 DEF OpenGuardInNewEpoch, At, Aged, Goto, chain, Registered, TypeOK
    <3>4. \A u \in Threads : pc'[u] \in {"push", "scan", "check", "free"} =>
              pc'[u] = pc[u] /\ ptr'[u] = ptr[u] /\ prev'[u] = prev[u]
      BY <1>1, <2>5 DEF OpenGuardInNewEpoch, At, Aged, Goto, chain, TypeOK
    <3>5. QED
      BY <1>1, <3>1, <3>2, <3>3, <3>4, ChainFrame
  <2>6. ASSUME NEW t \in Threads, NEW o \in Objects, Retire(t, o)
        PROVE  ChainInv'
    <3>1. UNCHANGED <<head, next_link, state>>
      BY <2>6 DEF Retire, At, Collected, Witnessed, chain, thread
    <3>2. \A c \in Collectors : Discarded(c)' => Discarded(c)
      BY <1>1, <2>6 DEF Retire, At, Collected, Witnessed, chain, thread, Discarded, TypeOK
    <3>3. \A u \in Threads : Registered(u)' => local'[u] = local[u]
      BY <1>1, <2>6 DEF Retire, At, Collected, Witnessed, chain, thread,
         Registered, TypeOK
    <3>4. \A u \in Threads : pc'[u] \in {"push", "scan", "check", "free"} =>
              pc'[u] = pc[u] /\ ptr'[u] = ptr[u] /\ prev'[u] = prev[u]
      BY <1>1, <2>6 DEF Retire, At, Collected, Witnessed, chain, thread, TypeOK
    <3>5. QED
      BY <1>1, <3>1, <3>2, <3>3, <3>4, ChainFrame
  <2>7. ASSUME NEW t \in Threads, NEW o \in Objects, DropObject(t, o)
        PROVE  ChainInv'
    <3>1. /\ UNCHANGED <<head, next_link, state, local, pc, ptr, prev>>
          /\ dropping' = [dropping EXCEPT ![t] = @ \ {o}]
      BY <1>1, <2>7, DropObjectSteps
    <3>2. PICK new \in SUBSET Objects : DropRetires(t, o, new)
      BY <1>1, <2>7, DropObjectSteps
    <3>3. \A c \in Collectors : Discarded(c)' => Discarded(c)
      BY <1>1, <3>1, <3>2 DEF Discarded, DropRetires, TypeOK
    <3>4. QED
      BY <1>1, <3>1, <3>3, ChainFrame DEF Registered
  <2>8. ASSUME NEW t \in Threads, NEW c \in Collectors, DropCollector(t, c)
        PROVE  ChainInv'
    <3>1. /\ c \in dropping[t] /\ UNCHANGED <<head, next_link, local, pc, ptr, prev>>
          /\ dropping' = [dropping EXCEPT ![t] = (@ \ {c}) \cup garbage[c]]
          /\ garbage' = [garbage EXCEPT ![c] = {}]
          /\ state' = [state EXCEPT ![c] = "free"]
      BY <2>8 DEF DropCollector, thread
    <3>2. Discarded(c) /\ ~Discarded(c)' /\ \A d \in Collectors : Discarded(d)' => Discarded(d)
      <4>1. /\ \A x \in Collectors \cup Threads : c \notin garbage[x]
            /\ \A u \in Threads \ {t} : c \notin dropping[u]
        BY <3>1 DEF GarbageInv, Listed
      <4>2. \A x \in Collectors \cup Threads : garbage'[x] = IF x = c THEN {} ELSE garbage[x]
        BY <1>1, <3>1 DEF TypeOK
      <4>3. \A u \in Threads : dropping'[u] = IF u = t THEN (dropping[t] \ {c}) \cup garbage[c]
                                              ELSE dropping[u]
        BY <1>1, <3>1 DEF TypeOK
      <4>4. ~Discarded(c)'
        BY <4>1, <4>2, <4>3 DEF Discarded
      <4>5. ASSUME NEW d \in Collectors, Discarded(d)' PROVE Discarded(d)
        BY <4>2, <4>3, <4>5 DEF Discarded
      <4>6. QED
        BY <3>1, <4>4, <4>5 DEF Discarded
    <3>3. /\ state[c] = "INVALID" /\ c \notin InChain
          /\ \A u \in Threads : pc[u] = "free" => c \notin Taken(u)
      BY <3>2 DEF ChainInv, ChainOK, FreeOK
    <3>4. /\ InChain' = InChain /\ InChain \subseteq Collectors
          /\ \A u \in Threads : Taken(u)' = Taken(u) /\ Taken(u) \subseteq Collectors
          /\ \A d \in Collectors \ {c} : state'[d] = state[d]
      BY <1>1, <3>1, ChainClosed DEF InChain, Taken, TypeOK
    <3>5. ChainOK'
      BY <3>1, <3>2, <3>3, <3>4 DEF ChainInv, ChainOK
    <3>6. RegisteredOK' /\ PushOK'
      BY <3>1, <3>3, <3>4 DEF ChainInv, RegisteredOK, PushOK, Registered
    <3>7. ScanOK'
      BY <3>1, <3>4 DEF ChainInv, ScanOK
    <3>8. CheckOK'
      <4>1. \A a \in InChain \cup {Null} : Reach(next_link, a) \subseteq InChain
        BY <1>1, ReachMonotone, ReachStep DEF InChain, TypeOK
      <4>2. QED
        BY <3>1, <3>3, <3>4, <4>1 DEF ChainInv, CheckOK
    <3>9. FreeOK'
      BY <3>1, <3>2, <3>3, <3>4 DEF ChainInv, FreeOK
    <3>10. QED
      BY <3>5, <3>6, <3>7, <3>8, <3>9 DEF ChainInv
  <2>9. ASSUME NEW t \in Threads, FinishDrop(t)
        PROVE  ChainInv'
    <3>1. UNCHANGED <<head, next_link, state>>
      BY <2>9 DEF FinishDrop, At, Goto, chain, objects
    <3>2. \A c \in Collectors : Discarded(c)' => Discarded(c)
      BY <1>1, <2>9 DEF FinishDrop, At, Goto, chain, objects, Discarded, TypeOK
    <3>3. \A u \in Threads : Registered(u)' => local'[u] = local[u]
      BY <1>1, <2>9 DEF FinishDrop, At, Goto, chain, objects, Registered, TypeOK
    <3>4. \A u \in Threads : pc'[u] \in {"push", "scan", "check", "free"} =>
              pc'[u] = pc[u] /\ ptr'[u] = ptr[u] /\ prev'[u] = prev[u]
      BY <1>1, <2>9 DEF FinishDrop, At, Goto, chain, objects, TypeOK
    <3>5. QED
      BY <1>1, <3>1, <3>2, <3>3, <3>4, ChainFrame
  <2>10. ASSUME NEW t \in Threads, EndGuard(t)
        PROVE  ChainInv'
    <3>1. UNCHANGED <<head, next_link, state>>
      BY <2>10 DEF EndGuard, GuardEnds, MustScan, chain, thread
    <3>2. \A c \in Collectors : Discarded(c)' => Discarded(c)
      BY <1>1, <2>10 DEF EndGuard, GuardEnds, MustScan, chain, thread, Discarded, TypeOK
    <3>3. \A u \in Threads : Registered(u)' => local'[u] = local[u]
      BY <1>1, <2>10 DEF EndGuard, GuardEnds, MustScan, chain, thread, Registered, TypeOK
    <3>4. \A u \in Threads : pc'[u] \in {"push", "scan", "check", "free"} =>
              pc'[u] = pc[u] /\ ptr'[u] = ptr[u] /\ prev'[u] = prev[u]
      BY <1>1, <2>10 DEF EndGuard, GuardEnds, MustScan, chain, thread, TypeOK
    <3>5. QED
      BY <1>1, <3>1, <3>2, <3>3, <3>4, ChainFrame
  <2>11. ASSUME NEW t \in Threads, StartScan(t)
        PROVE  ChainInv'
    <3>1. /\ UNCHANGED <<head, next_link, state, local, garbage, dropping>>
          /\ pc' = [pc EXCEPT ![t] = "scan"] /\ ptr' = [ptr EXCEPT ![t] = head]
          /\ prev' = [prev EXCEPT ![t] = Null]
      BY <2>11 DEF StartScan, Set, Goto
    <3>2. head \in InChain \cup {Null}
      BY <1>1, ChainClosed DEF TypeOK
    <3>3. QED
      BY <1>1, <3>1, <3>2, ChainFrame DEF TypeOK, Registered, Discarded
  <2>12. ASSUME NEW t \in Threads, ScanPass(t)
        PROVE  ChainInv'
    <3>1. /\ UNCHANGED <<head, next_link, state, local, garbage, dropping, pc>>
          /\ pc[t] = "scan" /\ ptr[t] # Null
          /\ ptr' = [ptr EXCEPT ![t] = next_link[ptr[t]]]
          /\ prev' = [prev EXCEPT ![t] = ptr[t]]
      BY <2>12 DEF ScanPass, MoveOn, Set, At, chain
    <3>2. ptr[t] \in InChain /\ next_link[ptr[t]] \in InChain \cup {Null}
      BY <1>1, <3>1, ChainClosed DEF ChainInv, ScanOK
    <3>3. QED
      BY <1>1, <3>1, <3>2, ChainFrame DEF TypeOK, Registered, Discarded
  <2>13. ASSUME NEW t \in Threads, ScanUnlink(t)
        PROVE  ChainInv'
    BY <2>13, UnlinkKeepsChain
  <2>14. ASSUME NEW t \in Threads, ScanStop(t)
        PROVE  ChainInv'
    <3>1. UNCHANGED <<head, next_link, state>>
      BY <2>14 DEF ScanStop, At, Goto, chain, objects
    <3>2. \A c \in Collectors : Discarded(c)' => Discarded(c)
      BY <1>1, <2>14 DEF ScanStop, At, Goto, chain, objects, Discarded, TypeOK
    <3>3. \A u \in Threads : Registered(u)' => local'[u] = local[u]
      BY <1>1, <2>14 DEF ScanStop, At, Goto, chain, objects, Registered, TypeOK
    <3>4. \A u \in Threads : pc'[u] \in {"push", "scan", "check", "free"} =>
              pc'[u] = pc[u] /\ ptr'[u] = ptr[u] /\ prev'[u] = prev[u]
      BY <1>1, <2>14 DEF ScanStop, At, Goto, chain, objects, TypeOK
    <3>5. QED
      BY <1>1, <3>1, <3>2, <3>3, <3>4, ChainFrame
  <2>15. ASSUME NEW t \in Threads, ScanEnds(t)
        PROVE  ChainInv'
    <3>1. UNCHANGED <<head, next_link, state>>
      BY <2>15 DEF ScanEnds, At, Goto, chain, objects
    <3>2. \A c \in Collectors : Discarded(c)' => Discarded(c)
      BY <1>1, <2>15 DEF ScanEnds, At, Goto, chain, objects, Discarded, TypeOK
    <3>3. \A u \in Threads : Registered(u)' => local'[u] = local[u]
      BY <1>1, <2>15 DEF ScanEnds, At, Goto, chain, objects, Registered, TypeOK
    <3>4. \A u \in Threads : pc'[u] \in {"push", "scan", "check", "free"} =>
              pc'[u] = pc[u] /\ ptr'[u] = ptr[u] /\ prev'[u] = prev[u]
      BY <1>1, <2>15 DEF ScanEnds, At, Goto, chain, objects, TypeOK
    <3>5. QED
      BY <1>1, <3>1, <3>2, <3>3, <3>4, ChainFrame
  <2>16. ASSUME NEW t \in Threads, UnlockChain(t)
        PROVE  ChainInv'
    <3>1. UNCHANGED <<head, next_link, state>>
      BY <2>16 DEF UnlockChain, Set, Goto, At, objects
    <3>2. \A c \in Collectors : Discarded(c)' => Discarded(c)
      BY <1>1, <2>16 DEF UnlockChain, Set, Goto, At, objects, Discarded, TypeOK
    <3>3. \A u \in Threads : Registered(u)' => local'[u] = local[u]
      BY <1>1, <2>16 DEF UnlockChain, Set, Goto, At, objects, Registered, TypeOK
    <3>4. \A u \in Threads : pc'[u] \in {"push", "scan", "check", "free"} =>
              pc'[u] = pc[u] /\ ptr'[u] = ptr[u] /\ prev'[u] = prev[u]
      BY <1>1, <2>16 DEF UnlockChain, Set, Goto, At, objects, TypeOK
    <3>5. QED
      BY <1>1, <3>1, <3>2, <3>3, <3>4, ChainFrame
  <2>17. ASSUME NEW t \in Threads, Suspend(t)
        PROVE  ChainInv'
    <3>1. /\ UNCHANGED <<head, next_link, garbage, ptr, prev, dropping>>
          /\ pc' = [pc EXCEPT ![t] = "mark"] /\ local' = [local EXCEPT ![t] = Null]
          /\ state' = [state EXCEPT ![local[t]] = "INVALID"]
      BY <2>17 DEF Suspend, Goto
    <3>2. state' = [c \in Collectors |-> IF c = local[t] THEN "INVALID" ELSE state[c]]
      BY <1>1, <3>1 DEF TypeOK
    <3>3. QED
      BY <3>1, <3>2, Disowned
  <2>18. ASSUME NEW t \in Threads, MarkScanEnforced(t)
        PROVE  ChainInv'
    <3>1. UNCHANGED <<head, next_link, state>>
      BY <2>18 DEF MarkScanEnforced, At, Goto, objects
    <3>2. \A c \in Collectors : Discarded(c)' => Discarded(c)
      BY <1>1, <2>18 DEF MarkScanEnforced, At, Goto, objects, Discarded, TypeOK
    <3>3. \A u \in Threads : Registered(u)' => local'[u] = local[u]
      BY <1>1, <2>18 DEF MarkScanEnforced, At, Goto, objects, Registered, TypeOK
    <3>4. \A u \in Threads : pc'[u] \in {"push", "scan", "check", "free"} =>
              pc'[u] = pc[u] /\ ptr'[u] = ptr[u] /\ prev'[u] = prev[u]
      BY <1>1, <2>18 DEF MarkScanEnforced, At, Goto, objects, TypeOK
    <3>5. QED
      BY <1>1, <3>1, <3>2, <3>3, <3>4, ChainFrame
  <2>19. ASSUME NEW t \in Threads, Exit(t)
        PROVE  ChainInv'
    <3>1. /\ UNCHANGED <<head, next_link, garbage, ptr, prev, dropping>>
          /\ pc' = [pc EXCEPT ![t] = "exit"] /\ local' = [local EXCEPT ![t] = t]
          /\ state' = [c \in Collectors |-> IF c = local[t] THEN "INVALID" ELSE state[c]]
      BY <2>19 DEF Exit, Goto
    <3>2. t \notin Collectors
      OBVIOUS
    <3>3. QED
      BY <3>1, <3>2, Disowned
  <2>20. ASSUME NEW t \in Threads, LockForClear(t)
        PROVE  ChainInv'
    <3>1. /\ UNCHANGED <<head, next_link, state, local, garbage, dropping>>
          /\ pc' = [pc EXCEPT ![t] = "check"] /\ ptr' = [ptr EXCEPT ![t] = head]
          /\ prev' = [prev EXCEPT ![t] = head]
      BY <2>20 DEF LockForClear, Set, Goto
    <3>2. head \in InChain \cup {Null}
      BY <1>1, ChainClosed DEF TypeOK
    <3>3. QED
      BY <1>1, <3>1, <3>2, ChainFrame DEF TypeOK, Registered, Discarded
  <2>21. ASSUME NEW t \in Threads, LockFails(t)
        PROVE  ChainInv'
    <3>1. UNCHANGED <<head, next_link, state>>
      BY <2>21 DEF LockFails, At, Goto, chain, objects
    <3>2. \A c \in Collectors : Discarded(c)' => Discarded(c)
      BY <1>1, <2>21 DEF LockFails, At, Goto, chain, objects, Discarded, TypeOK
    <3>3. \A u \in Threads : Registered(u)' => local'[u] = local[u]
      BY <1>1, <2>21 DEF LockFails, At, Goto, chain, objects, Registered, TypeOK
    <3>4. \A u \in Threads : pc'[u] \in {"push", "scan", "check", "free"} =>
              pc'[u] = pc[u] /\ ptr'[u] = ptr[u] /\ prev'[u] = prev[u]
      BY <1>1, <2>21 DEF LockFails, At, Goto, chain, objects, TypeOK
    <3>5. QED
      BY <1>1, <3>1, <3>2, <3>3, <3>4, ChainFrame
  <2>22. ASSUME NEW t \in Threads, CheckInvalid(t)
        PROVE  ChainInv'
    <3>1. /\ UNCHANGED <<head, next_link, state, local, garbage, dropping, pc, prev>>
          /\ pc[t] = "check" /\ ptr[t] # Null /\ state[ptr[t]] = "INVALID"
          /\ ptr' = [ptr EXCEPT ![t] = next_link[ptr[t]]]
      BY <2>22 DEF CheckInvalid, Set, At, chain
    <3>2. /\ ptr[t] \in InChain /\ next_link[ptr[t]] \in InChain \cup {Null}
          /\ prev[t] \in InChain \cup {Null}
      BY <1>1, <3>1, ChainClosed DEF ChainInv, CheckOK
    <3>3. \A c \in Reach(next_link, prev[t]) \ Reach(next_link, next_link[ptr[t]]) :
              state[c] = "INVALID"
      <4>1. Reach(next_link, ptr[t]) = {ptr[t]} \cup Reach(next_link, next_link[ptr[t]])
        BY <1>1, <3>2, ReachUnfold, ChainClosed DEF TypeOK
      <4>2. QED
        BY <3>1, <4>1 DEF ChainInv, CheckOK
    <3>4. QED
      BY <1>1, <3>1, <3>2, <3>3, ChainFrame DEF TypeOK, Registered, Discarded
  <2>23. ASSUME NEW t \in Threads, FindValid(t)
        PROVE  ChainInv'
    <3>1. UNCHANGED <<head, next_link, state>>
      BY <2>23 DEF FindValid, At, Goto, chain, objects
    <3>2. \A c \in Collectors : Discarded(c)' => Discarded(c)
      BY <1>1, <2>23 DEF FindValid, At, Goto, chain, objects, Discarded, TypeOK
    <3>3. \A u \in Threads : Registered(u)' => local'[u] = local[u]
      BY <1>1, <2>23 DEF FindValid, At, Goto, chain, objects, Registered, TypeOK
    <3>4. \A u \in Threads : pc'[u] \in {"push", "scan", "check", "free"} =>
              pc'[u] = pc[u] /\ ptr'[u] = ptr[u] /\ prev'[u] = prev[u]
      BY <1>1, <2>23 DEF FindValid, At, Goto, chain, objects, TypeOK
    <3>5. QED
      BY <1>1, <3>1, <3>2, <3>3, <3>4, ChainFrame
  <2>24. ASSUME NEW t \in Threads, TakeChain(t)
        PROVE  ChainInv'
    <3>1. /\ UNCHANGED <<next_link, state, local, garbage, dropping, prev>>
          /\ pc[t] = "check" /\ ptr[t] = Null /\ head = prev[t] /\ head' = Null
          /\ pc' = [pc EXCEPT ![t] = "free"] /\ ptr' = [ptr EXCEPT ![t] = head]
      BY <2>24 DEF TakeChain, Set, At, Goto
    <3>2. \A c \in InChain : state[c] = "INVALID"
      <4>1. Reach(next_link, ptr[t]) = {}
        BY <1>1, <3>1, ReachStep DEF TypeOK
      <4>2. QED
        BY <3>1, <4>1 DEF ChainInv, CheckOK, InChain
    <3>3. InChain' = {} /\ Taken(t)' = InChain
      <4>1. ptr'[t] = head
        BY <1>1, <3>1 DEF TypeOK
      <4>2. QED
        BY <1>1, <3>1, <4>1, ChainClosed DEF InChain, Taken
    <3>4. \A u \in Threads : ~Registered(u) /\ ~Registered(u)'
      BY <3>1, <3>2 DEF ChainInv, RegisteredOK, Registered
    <3>5. /\ \A c \in Collectors : Discarded(c)' <=> Discarded(c)
          /\ \A u \in Threads \ {t} : /\ pc'[u] = pc[u] /\ ptr'[u] = ptr[u]
                                    /\ pc[u] \notin {"scan", "check", "free"}
          /\ pc'[t] = "free" /\ ptr'[t] = head
      BY <1>1, <3>1 DEF Discarded, TypeOK, ControlInv, LockExcludes, Working
    <3>6. ChainOK' /\ RegisteredOK'
      <4>1. Acyclic(next_link', head')
        BY <3>3 DEF Acyclic, InChain
      <4>2. QED
        BY <3>1, <3>3, <3>4, <3>5, <4>1 DEF ChainInv, ChainOK, RegisteredOK
    <3>7. PushOK' /\ ScanOK' /\ CheckOK'
      BY <3>1, <3>3, <3>5 DEF ChainInv, PushOK, ScanOK, CheckOK
    <3>8. FreeOK'
      BY <1>1, <3>1, <3>2, <3>3, <3>5, ChainClosed DEF ChainInv, ChainOK, FreeOK
    <3>9. QED
      BY <3>6, <3>7, <3>8 DEF ChainInv
  <2>25. ASSUME NEW t \in Threads, TakeFails(t)
        PROVE  ChainInv'
    <3>1. UNCHANGED <<head, next_link, state>>
      BY <2>25 DEF TakeFails, At, Goto, chain, objects
    <3>2. \A c \in Collectors : Discarded(c)' => Discarded(c)
      BY <1>1, <2>25 DEF TakeFails, At, Goto, chain, objects, Discarded, TypeOK
    <3>3. \A u \in Threads : Registered(u)' => local'[u] = local[u]
      BY <1>1, <2>25 DEF TakeFails, At, Goto, chain, objects, Registered, TypeOK
    <3>4. \A u \in Threads : pc'[u] \in {"push", "scan", "check", "free"} =>
              pc'[u] = pc[u] /\ ptr'[u] = ptr[u] /\ prev'[u] = prev[u]
      BY <1>1, <2>25 DEF TakeFails, At, Goto, chain, objects, TypeOK
    <3>5. QED
      BY <1>1, <3>1, <3>2, <3>3, <3>4, ChainFrame
  <2>26. ASSUME NEW t \in Threads, FreeCollector(t)
        PROVE  ChainInv'
    <3> DEFINE c == ptr[t]
    <3>1. /\ UNCHANGED <<head, next_link, local, pc, prev>>
          /\ pc[t] = "free" /\ c # Null /\ dropping[t] = {}
          /\ ptr' = [ptr EXCEPT ![t] = next_link[c]]
          /\ dropping' = [dropping EXCEPT ![t] = garbage[c]]
          /\ garbage' = [garbage EXCEPT ![c] = {}]
          /\ state' = [state EXCEPT ![c] = "free"]
      BY <2>26 DEF FreeCollector, Set, At, Dropped
    <3>2. /\ c \in Collectors /\ c \in Taken(t)
          /\ state[c] = "INVALID" /\ ~Discarded(c) /\ c \notin InChain
      BY <1>1, <3>1, ChainClosed DEF ChainInv, FreeOK, TypeOK
    <3>3. \A d \in Collectors : Discarded(d)' => Discarded(d)
      BY <1>1, <3>1, <3>2 DEF Discarded, TypeOK
    <3>4. /\ \A u \in Threads \ {t} : ptr'[u] = ptr[u] /\ pc[u] \notin {"scan", "check", "free"}
          /\ ptr'[t] = next_link[c]
          /\ \A d \in Collectors \ {c} : state'[d] = state[d]
      BY <1>1, <3>1 DEF TypeOK, ControlInv, LockExcludes, Working
    <3>5. Taken(t)' = Taken(t) \ {c} /\ Acyclic(next_link', ptr'[t])
      <4>1. c \in DOMAIN next_link /\ Acyclic(next_link, c)
        BY <1>1, <3>1, <3>2 DEF TypeOK, ChainInv, FreeOK
      <4>2. QED
        BY <3>1, <3>4, <4>1, ReachTail DEF Taken
    <3>6. InChain' = InChain /\ InChain \subseteq Collectors /\ Taken(t) \subseteq Collectors
      BY <1>1, <3>1, ChainClosed DEF InChain
    <3> HIDE DEF c
    <3>7. ChainOK'
      BY <3>1, <3>2, <3>3, <3>4, <3>6 DEF ChainInv, ChainOK
    <3>8. RegisteredOK'
      BY <3>1, <3>2, <3>4, <3>6 DEF ChainInv, RegisteredOK, Registered
    <3>9. PushOK'
      BY <3>1, <3>2, <3>4, <3>6 DEF ChainInv, PushOK
    <3>10. ScanOK' /\ CheckOK'
      BY <3>1, <3>4 DEF ScanOK, CheckOK
    <3>11. FreeOK'
      <4>1. \A u \in Threads : pc'[u] = "free" => u = t
        BY <3>1, <3>4
      <4>2. \A d \in Taken(t)' : state'[d] = "INVALID" /\ ~Discarded(d)' /\ d \notin InChain'
        BY <3>1, <3>3, <3>4, <3>5, <3>6 DEF ChainInv, FreeOK
      <4>3. QED
        BY <3>5, <4>1, <4>2 DEF FreeOK
    <3>12. QED
      BY <3>7, <3>8, <3>9, <3>10, <3>11 DEF ChainInv
  <2>27. ASSUME NEW t \in Threads, ChainFreed(t)
        PROVE  ChainInv'
    <3>1. UNCHANGED <<head, next_link, state>>
      BY <2>27 DEF ChainFreed, At, Dropped, Goto, chain, objects
    <3>2. \A c \in Collectors : Discarded(c)' => Discarded(c)
      BY <1>1, <2>27 DEF ChainFreed, At, Dropped, Goto, chain, objects, Discarded, TypeOK
    <3>3. \A u \in Threads : Registered(u)' => local'[u] = local[u]
      BY <1>1, <2>27 DEF ChainFreed, At, Dropped, Goto, chain, objects, Registered, TypeOK
    <3>4. \A u \in Threads : pc'[u] \in {"push", "scan", "check", "free"} =>
              pc'[u] = pc[u] /\ ptr'[u] = ptr[u] /\ prev'[u] = prev[u]
      BY <1>1, <2>27 DEF ChainFreed, At, Dropped, Goto, chain, objects, TypeOK
    <3>5. QED
      BY <1>1, <3>1, <3>2, <3>3, <3>4, ChainFrame
  <2>28. ASSUME NEW t \in Threads, ClearTemporary(t)
        PROVE  ChainInv'
    <3>1. UNCHANGED <<head, next_link, state>>
      BY <2>28 DEF ClearTemporary, At, Dropped, chain, objects, thread
    <3>2. \A c \in Collectors : Discarded(c)' => Discarded(c)
      BY <1>1, <2>28 DEF ClearTemporary, At, Dropped, chain, objects, thread,
         Discarded, TypeOK
    <3>3. \A u \in Threads : Registered(u)' => local'[u] = local[u]
      BY <1>1, <2>28 DEF ClearTemporary, At, Dropped, chain, objects, thread,
         Registered, TypeOK
    <3>4. \A u \in Threads : pc'[u] \in {"push", "scan", "check", "free"} =>
              pc'[u] = pc[u] /\ ptr'[u] = ptr[u] /\ prev'[u] = prev[u]
      BY <1>1, <2>28 DEF ClearTemporary, At, Dropped, chain, objects, thread, TypeOK
    <3>5. QED
      BY <1>1, <3>1, <3>2, <3>3, <3>4, ChainFrame
  <2>29. ASSUME NEW t \in Threads, Ended(t)
        PROVE  ChainInv'
    <3>1. UNCHANGED <<head, next_link, state>>
      BY <2>29 DEF Ended, At, Dropped, Goto, chain, objects
    <3>2. \A c \in Collectors : Discarded(c)' => Discarded(c)
      BY <1>1, <2>29 DEF Ended, At, Dropped, Goto, chain, objects, Discarded, TypeOK
    <3>3. \A u \in Threads : Registered(u)' => local'[u] = local[u]
      BY <1>1, <2>29 DEF Ended, At, Dropped, Goto, chain, objects, Registered, TypeOK
    <3>4. \A u \in Threads : pc'[u] \in {"push", "scan", "check", "free"} =>
              pc'[u] = pc[u] /\ ptr'[u] = ptr[u] /\ prev'[u] = prev[u]
      BY <1>1, <2>29 DEF Ended, At, Dropped, Goto, chain, objects, TypeOK
    <3>5. QED
      BY <1>1, <3>1, <3>2, <3>3, <3>4, ChainFrame
  <2>30. QED
    BY <1>3, NextCases, <2>1, <2>2, <2>3, <2>4, <2>5, <2>6, <2>7, <2>8, <2>9, <2>10,
       <2>11, <2>12, <2>13, <2>14, <2>15, <2>16, <2>17, <2>18, <2>19, <2>20, <2>21,
       <2>22, <2>23, <2>24, <2>25, <2>26, <2>27, <2>28, <2>29
<1>4. QED
  BY <1>2, <1>3

(* Initially there is no garbage.                                          *)
LEMMA GarbageInit == Init => GarbageInv
  BY ThreadExitAssumption
  DEF Init, GarbageInv, Listed, RetiredOK, HeldWith, Unheld, Discarded, Registered

(* A step that moves no item, opens no guard for those who hold one, and   *)
(* takes nothing out of the chain under the eyes of another thread, keeps  *)
(* layer 3.                                                                *)
LEMMA GarbageFrame ==
    ASSUME GarbageInv, UNCHANGED <<garbage, dropping, life>>,
           \A u \in Threads : held'[u] = held[u] \/ held'[u] = {},
           \A c \in Collectors : state'[c] = "free" => state[c] = "free",
           \A u \in Threads : Exiting(u) /\ garbage[u] # {} => Exiting(u)',
           \A u \in Threads : Registered(u)' => Registered(u) \/ held'[u] = {},
           \/ \A u \in Threads : ~Registered(u)'
           \/ \A v \in Threads : pc'[v] \in {"drop", "free"} => pc'[v] = pc[v],
           \/ \A u \in Threads : ~Registered(u)'
           \/ \A v \in Threads : pc'[v] = "free" => Taken(v)' \subseteq Taken(v)
    PROVE  GarbageInv'
<1>1. \A i : Discarded(i)' <=> Discarded(i)
  BY DEF Discarded
<1>2. Listed' /\ RetiredOK'
  BY <1>1 DEF GarbageInv, Listed, RetiredOK
<1>3. HeldWith'
  BY <1>1 DEF GarbageInv, HeldWith
<1>4. Unheld'
  <2> SUFFICES ASSUME NEW v \in Threads, NEW u \in Threads, Registered(u)'
               PROVE  /\ pc'[v] \in {"drop", "free"} => dropping'[v] \cap held'[u] = {}
                      /\ pc'[v] = "free" =>
                            \A c \in Taken(v)' : garbage'[c] \cap held'[u] = {}
    BY DEF Unheld
  <2>1. CASE held'[u] = {}
    BY <2>1
  <2>2. CASE held'[u] = held[u] /\ Registered(u)
    BY <2>2 DEF GarbageInv, Unheld
  <2>3. QED
    BY <2>1, <2>2
<1>5. QED
  BY <1>2, <1>3, <1>4 DEF GarbageInv

(* Items that were no garbage are collected by a thread, which may have    *)
(* dropped others.                                                         *)
LEMMA Collecting ==
    ASSUME ControlInv, ChainInv, GarbageInv, NEW t \in Threads, local[t] # Null,
           NEW new \in SUBSET Items, \A i \in new : ~Discarded(i),
           NEW gone \in SUBSET dropping[t],
           garbage'[local[t]] = garbage[local[t]] \cup new,
           \A x \in (Collectors \cup Threads) \ {local[t]} : garbage'[x] = garbage[x],
           \A u \in guarded : held'[u] = held[u] \cup new,
           \A u \in Threads \ guarded : held'[u] = held[u],
           dropping'[t] = dropping[t] \ gone,
           \A u \in Threads \ {t} : dropping'[u] = dropping[u],
           \A o \in Objects : life'[o] = "retired" <=>
                                o \in new \/ (life[o] = "retired" /\ o \notin gone),
           UNCHANGED <<state, local, pc>>,
           \A u \in Threads : pc[u] = "free" => Taken(u)' = Taken(u)
    PROVE  GarbageInv'
<1> USE ThreadExitAssumption
<1>1. /\ TypeOK /\ local[t] \in Collectors \cup Threads
      /\ Registered(t) \/ Exiting(t)
      /\ local[t] \in Threads => local[t] = t
      /\ local[t] \in Collectors => state[local[t]] = "valid"
  BY DEF ControlInv, TypeOK, LocalAgrees, Registered, Exiting, ChainInv, RegisteredOK
<1>2. /\ garbage'[local[t]] = garbage[local[t]] \cup new
      /\ \A x \in (Collectors \cup Threads) \ {local[t]} : garbage'[x] = garbage[x]
      /\ dropping'[t] = dropping[t] \ gone
      /\ \A u \in Threads \ {t} : dropping'[u] = dropping[u]
      /\ \A u \in guarded : held'[u] = held[u] \cup new
      /\ \A u \in Threads \ guarded : held'[u] = held[u]
  OBVIOUS
<1>3. \A i : Discarded(i)' <=> (Discarded(i) /\ i \notin gone) \/ i \in new
  <2>1. \A i \in gone : /\ Discarded(i)
                       /\ \A x \in Collectors \cup Threads : i \notin garbage[x]
                       /\ \A u \in Threads \ {t} : i \notin dropping[u]
    BY DEF Discarded, GarbageInv, Listed
  <2>2. ASSUME NEW i, Discarded(i)' PROVE (Discarded(i) /\ i \notin gone) \/ i \in new
    <3>1. CASE \E x \in Collectors \cup Threads : i \in garbage'[x]
      BY <1>2, <2>1, <3>1 DEF Discarded
    <3>2. CASE \E u \in Threads : i \in dropping'[u]
      BY <1>2, <2>1, <3>2 DEF Discarded
    <3>3. QED
      BY <2>2, <3>1, <3>2 DEF Discarded
  <2>3. ASSUME NEW i \in new PROVE Discarded(i)'
    <3>1. garbage'[local[t]] = garbage[local[t]] \cup new
      <4>1. local[t] \in Collectors \cup Threads
        BY <1>1
      <4>2. QED
        BY ONLY <1>2, <4>1
    <3>2. QED
      BY <1>1, <3>1 DEF Discarded
  <2>4. ASSUME NEW i, Discarded(i), i \notin gone PROVE Discarded(i)'
    <3>1. CASE \E x \in Collectors \cup Threads : i \in garbage[x]
      BY <1>2, <3>1 DEF Discarded
    <3>2. CASE \E u \in Threads : i \in dropping[u]
      BY <1>2, <2>4, <3>2 DEF Discarded
    <3>3. QED
      BY <2>4, <3>1, <3>2 DEF Discarded
  <2>5. QED
    BY <2>2, <2>3, <2>4
<1>4. Listed'
  BY <1>2 DEF GarbageInv, Listed, Discarded
<1>5. RetiredOK'
  <2>1. \A o \in Objects : life'[o] = "retired" <=> Discarded(o)'
    BY <1>3 DEF GarbageInv, RetiredOK
  <2>2. \A c \in Collectors : state'[c] = "free" => garbage'[c] = {}
    BY <1>1, <1>2 DEF GarbageInv, RetiredOK
  <2>3. \A u \in Threads : garbage'[u] # {} => Exiting(u)'
    BY <1>1, <1>2 DEF GarbageInv, RetiredOK, Exiting
  <2>4. QED
    BY <2>1, <2>2, <2>3 DEF RetiredOK
<1>6. HeldWith'
  <2> SUFFICES ASSUME NEW u \in Threads, NEW c \in Collectors, Discarded(c)',
                      NEW i, i \in garbage'[c], i \in held'[u]
               PROVE  c \in held'[u]
    BY DEF HeldWith
  <2>1. CASE c \in new
    <3>1. \A o \in Objects : c # o
      OBVIOUS
    <3>2. i \in held[u] \/ i \in new
      BY <1>2
    <3>3. u \in guarded
      BY <1>2 DEF ControlInv, GuardAgrees
    <3>4. QED
      BY <1>2, <2>1, <3>3
  <2>2. CASE c \notin new
    <3>1. Discarded(c) /\ state[c] = "INVALID"
      BY <1>3, <2>2 DEF ChainInv, ChainOK
    <3>2. i \in garbage[c]
      BY <1>1, <1>2, <3>1
    <3>3. i \in held[u]
      BY <1>2, <3>2 DEF Discarded
    <3>4. QED
      BY <1>2, <3>1, <3>2, <3>3 DEF GarbageInv, HeldWith
  <2>3. QED
    BY <2>1, <2>2
<1>7. Unheld'
  <2> SUFFICES ASSUME NEW v \in Threads, NEW u \in Threads, Registered(u)'
               PROVE  /\ pc'[v] \in {"drop", "free"} => dropping'[v] \cap held'[u] = {}
                      /\ pc'[v] = "free" =>
                            \A c \in Taken(v)' : garbage'[c] \cap held'[u] = {}
    BY DEF Unheld
  <2>1. Registered(u)
    BY DEF Registered
  <2>2. ASSUME pc[v] \in {"drop", "free"} PROVE dropping'[v] \cap held'[u] = {}
    <3>1. dropping[v] \cap held[u] = {}
      BY <2>1, <2>2 DEF GarbageInv, Unheld
    <3>2. dropping[v] \cap new = {}
      BY DEF Discarded
    <3>3. QED
      BY <1>2, <3>1, <3>2
  <2>3. ASSUME pc[v] = "free", NEW c \in Taken(v) PROVE garbage'[c] \cap held'[u] = {}
    <3>1. c \in Collectors /\ state[c] = "INVALID" /\ garbage[c] \cap held[u] = {}
      BY <1>1, <2>1, <2>3, ChainClosed DEF GarbageInv, Unheld, ChainInv, FreeOK
    <3>2. garbage'[c] = garbage[c] /\ garbage[c] \cap new = {}
      BY <1>1, <1>2, <3>1 DEF Discarded
    <3>3. QED
      BY <1>2, <3>1, <3>2
  <2>4. QED
    BY <2>2, <2>3
<1>8. QED
  BY <1>4, <1>5, <1>6, <1>7 DEF GarbageInv

(* One step of t takes moved out of a list, to be dropped, and drops gone. *)
Moves(t, x, moved, gone) ==
    /\ x \in Collectors \cup Threads
    /\ moved \subseteq garbage[x]
    /\ gone \subseteq dropping[t] \cap Collectors
    /\ garbage'[x] = garbage[x] \ moved
    /\ \A y \in (Collectors \cup Threads) \ {x} : garbage'[y] = garbage[y]
    /\ dropping'[t] = (dropping[t] \ gone) \cup moved
    /\ \A u \in Threads \ {t} : dropping'[u] = dropping[u]
    /\ UNCHANGED <<life, held, local>>
    /\ \A c \in Collectors : state'[c] = "free" => state[c] = "free" \/ garbage'[c] = {}
    /\ \A v \in Threads : pc'[v] \in {"drop", "free"} =>
          pc'[v] = pc[v] \/ (v = t /\ pc'[v] = "drop" /\ dropping[v] = {})
    /\ \A v \in Threads : Taken(v)' \subseteq Taken(v)
    /\ pc'[t] \in {"drop", "free"} =>
          \A u \in Threads : Registered(u) => moved \cap held[u] = {}

(* A thread takes garbage out of a list to drop it, and may be done with   *)
(* some Collectors.                                                        *)
LEMMA Moving ==
    ASSUME GarbageInv, NEW t \in Threads, NEW x, NEW moved, NEW gone,
           \A v \in Threads : Taken(v) \subseteq Collectors,
           Moves(t, x, moved, gone)
    PROVE  GarbageInv'
<1> USE ThreadExitAssumption
<1>a. /\ x \in Collectors \cup Threads /\ moved \subseteq garbage[x]
      /\ gone \subseteq dropping[t] \cap Collectors
      /\ garbage'[x] = garbage[x] \ moved
      /\ \A y \in (Collectors \cup Threads) \ {x} : garbage'[y] = garbage[y]
      /\ dropping'[t] = (dropping[t] \ gone) \cup moved
      /\ \A u \in Threads \ {t} : dropping'[u] = dropping[u]
      /\ UNCHANGED <<life, held, local>>
      /\ \A c \in Collectors : state'[c] = "free" => state[c] = "free" \/ garbage'[c] = {}
      /\ \A v \in Threads : pc'[v] \in {"drop", "free"} =>
            pc'[v] = pc[v] \/ (v = t /\ pc'[v] = "drop" /\ dropping[v] = {})
      /\ \A v \in Threads : Taken(v)' \subseteq Taken(v)
      /\ pc'[t] \in {"drop", "free"} =>
            \A u \in Threads : Registered(u) => moved \cap held[u] = {}
  BY DEF Moves
<1> USE <1>a
<1>1. /\ garbage'[x] = garbage[x] \ moved
      /\ \A y \in (Collectors \cup Threads) \ {x} : garbage'[y] = garbage[y]
      /\ \A u \in Threads : dropping'[u] = IF u = t THEN (dropping[u] \ gone) \cup moved
                                                     ELSE dropping[u]
  OBVIOUS
<1>2. /\ \A i : Discarded(i)' => Discarded(i)
      /\ \A i : Discarded(i) /\ i \notin gone => Discarded(i)'
  BY <1>1 DEF Discarded
<1>3. Listed'
  BY <1>1 DEF GarbageInv, Listed
<1>4. RetiredOK'
  <2>1. \A o \in Objects : life'[o] = "retired" <=> Discarded(o)'
    BY <1>2 DEF GarbageInv, RetiredOK
  <2>2. \A c \in Collectors : state'[c] = "free" => garbage'[c] = {}
    BY <1>1 DEF GarbageInv, RetiredOK
  <2>3. \A u \in Threads : garbage'[u] # {} => Exiting(u)'
    BY <1>1 DEF GarbageInv, RetiredOK, Exiting
  <2>4. QED
    BY <2>1, <2>2, <2>3 DEF RetiredOK
<1>5. HeldWith'
  BY <1>1, <1>2 DEF GarbageInv, HeldWith
<1>6. Unheld'
  <2> SUFFICES ASSUME NEW v \in Threads, NEW u \in Threads, Registered(u)'
               PROVE  /\ pc'[v] \in {"drop", "free"} => dropping'[v] \cap held'[u] = {}
                      /\ pc'[v] = "free" =>
                            \A c \in Taken(v)' : garbage'[c] \cap held'[u] = {}
    BY DEF Unheld
  <2>1. Registered(u)
    BY DEF Registered
  <2>2. ASSUME pc'[v] \in {"drop", "free"} PROVE dropping'[v] \cap held'[u] = {}
    <3>1. dropping[v] \cap held[u] = {}
      BY <2>1, <2>2 DEF GarbageInv, Unheld
    <3>2. v = t => moved \cap held[u] = {}
      BY <2>1, <2>2
    <3>3. QED
      BY <1>1, <3>1, <3>2
  <2>3. ASSUME pc'[v] = "free", NEW c \in Taken(v)' PROVE garbage'[c] \cap held'[u] = {}
    <3>1. pc[v] = "free" /\ c \in Taken(v) /\ c \in Collectors
      BY <2>3
    <3>2. garbage[c] \cap held[u] = {}
      BY <2>1, <3>1 DEF GarbageInv, Unheld
    <3>3. QED
      BY <1>1, <3>1, <3>2
  <2>4. QED
    BY <2>2, <2>3
<1>7. QED
  BY <1>3, <1>4, <1>5, <1>6 DEF GarbageInv

(* Layer 3 is kept by every step.                                          *)
LEMMA GarbageStep ==
    ASSUME ControlInv, ControlInv', ChainInv, GarbageInv, [Next]_vars
    PROVE  GarbageInv'
<1> USE ThreadExitAssumption
<1>1. TypeOK /\ TypeOK'
  BY DEF ControlInv
<1>2. \A t \in Threads : Taken(t) \subseteq Collectors
  BY <1>1, ChainClosed
<1>3. \A u \in Threads : u \notin guarded => held[u] = {}
  BY DEF ControlInv, GuardAgrees
<1>4. CASE UNCHANGED vars
  BY <1>4, GarbageFrame DEF vars, chain, objects, thread, Exiting, Registered, Taken
<1>5. CASE Next
  <2>1. ASSUME NEW t \in Threads, Alloc(t)
        PROVE  GarbageInv'
    <3>1. PICK d \in Collectors :
              /\ d \notin InChain
              /\ \A u \in Threads : pc[u] = "free" => d \notin Taken(u)
              /\ next_link' = [next_link EXCEPT ![d] = head]
              /\ ptr' = [ptr EXCEPT ![t] = head]
      <4>1. PICK d \in Collectors :
                /\ state[d] = "free"
                /\ next_link' = [next_link EXCEPT ![d] = head]
                /\ ptr' = [ptr EXCEPT ![t] = head]
        BY <2>1 DEF Alloc, LinkToHead, Set
      <4>2. QED
        BY <4>1 DEF ChainInv, ChainOK, FreeOK
    <3>2. /\ UNCHANGED <<head, garbage, dropping, life, held, local>>
          /\ pc' = [pc EXCEPT ![t] = "push"]
          /\ \A c \in Collectors : state'[c] = "free" => state[c] = "free"
      BY <1>1, <2>1 DEF Alloc, Goto, objects, TypeOK
    <3>3. \A u \in Threads : pc'[u] = "free" => Taken(u)' = Taken(u)
      <4> SUFFICES ASSUME NEW u \in Threads, pc'[u] = "free" PROVE Taken(u)' = Taken(u)
        OBVIOUS
      <4>1. pc[u] = "free" /\ ptr'[u] = ptr[u]
        BY <1>1, <3>1, <3>2 DEF TypeOK
      <4>2. \A c \in Collectors \ {d} : next_link'[c] = next_link[c]
        BY <1>1, <3>1 DEF TypeOK
      <4>3. Reach(next_link', ptr[u]) = Taken(u)
        BY <1>1, <3>1, <3>2, <4>1, <4>2, LinksElsewhere
      <4>4. QED
        BY <4>1, <4>3 DEF Taken
    <3>4. \A v \in Threads : pc'[v] \in {"drop", "free"} => pc'[v] = pc[v]
      BY <1>1, <3>2 DEF TypeOK
    <3>5. QED
      BY <3>2, <3>3, <3>4, GarbageFrame DEF Exiting, Registered
  <2>2. ASSUME NEW t \in Threads, PushCollector(t)
        PROVE  GarbageInv'
    <3>1. UNCHANGED <<garbage, dropping, life>>
      BY <2>2 DEF PushCollector, At, Set, Goto, objects
    <3>2. \A u \in Threads : held'[u] = held[u] \/ held'[u] = {}
      BY <1>1, <2>2 DEF PushCollector, At, Set, Goto, objects, TypeOK
    <3>3. \A c \in Collectors : state'[c] = "free" => state[c] = "free"
      BY <1>1, <2>2 DEF PushCollector, At, Set, Goto, objects, TypeOK
    <3>4. \A u \in Threads : Exiting(u) /\ garbage[u] # {} => Exiting(u)'
      BY <1>1, <2>2 DEF PushCollector, At, Set, Goto, objects, Registered,
         Exiting, TypeOK, ControlInv, LocalAgrees, GuardAgrees
    <3>5. \A u \in Threads : Registered(u)' => Registered(u) \/ held'[u] = {}
      BY <1>1, <1>3, <2>2 DEF PushCollector, At, Set, Goto, objects, Registered,
         Exiting, TypeOK, ControlInv, LocalAgrees, GuardAgrees
    <3>6. \A v \in Threads : pc'[v] \in {"drop", "free"} => pc'[v] = pc[v]
      BY <1>1, <2>2 DEF PushCollector, At, Set, Goto, objects, TypeOK
    <3>7. \A v \in Threads : pc'[v] = "free" => ptr'[v] = ptr[v]
      BY <1>1, <2>2 DEF PushCollector, At, Set, Goto, objects, TypeOK
    <3>8. next_link' = next_link
      BY <2>2 DEF PushCollector, At, Set, Goto, objects
    <3>9. \A v \in Threads : pc'[v] = "free" => Taken(v)' \subseteq Taken(v)
      BY <3>7, <3>8 DEF Taken
    <3>10. QED
      BY <3>1, <3>2, <3>3, <3>4, <3>5, <3>6, <3>9, GarbageFrame
  <2>3. ASSUME NEW t \in Threads, PushFails(t)
        PROVE  GarbageInv'
    <3>1. PICK d \in Collectors :
              /\ d \notin InChain
              /\ \A u \in Threads : pc[u] = "free" => d \notin Taken(u)
              /\ next_link' = [next_link EXCEPT ![d] = head]
              /\ ptr' = [ptr EXCEPT ![t] = head]
      <4>1. /\ pc[t] = "push" /\ next_link' = [next_link EXCEPT ![prev[t]] = head]
            /\ ptr' = [ptr EXCEPT ![t] = head]
        BY <2>3 DEF PushFails, LinkToHead, Set, At
      <4>2. prev[t] \in Collectors /\ prev[t] \notin InChain /\ state[prev[t]] = "valid"
        BY <4>1 DEF ChainInv, PushOK
      <4>3. QED
        BY <4>1, <4>2 DEF ChainInv, FreeOK
    <3>2. /\ UNCHANGED <<head, garbage, dropping, life, held, local>>
          /\ pc' = [pc EXCEPT ![t] = "push"]
          /\ \A c \in Collectors : state'[c] = "free" => state[c] = "free"
      BY <1>1, <2>3 DEF PushFails, At, objects, TypeOK
    <3>3. \A u \in Threads : pc'[u] = "free" => Taken(u)' = Taken(u)
      <4> SUFFICES ASSUME NEW u \in Threads, pc'[u] = "free" PROVE Taken(u)' = Taken(u)
        OBVIOUS
      <4>1. pc[u] = "free" /\ ptr'[u] = ptr[u]
        BY <1>1, <3>1, <3>2 DEF TypeOK
      <4>2. \A c \in Collectors \ {d} : next_link'[c] = next_link[c]
        BY <1>1, <3>1 DEF TypeOK
      <4>3. Reach(next_link', ptr[u]) = Taken(u)
        BY <1>1, <3>1, <3>2, <4>1, <4>2, LinksElsewhere
      <4>4. QED
        BY <4>1, <4>3 DEF Taken
    <3>4. \A v \in Threads : pc'[v] \in {"drop", "free"} => pc'[v] = pc[v]
      BY <1>1, <3>2 DEF TypeOK
    <3>5. QED
      BY <3>2, <3>3, <3>4, GarbageFrame DEF Exiting, Registered
  <2>4. ASSUME NEW t \in Threads, OpenGuard(t)
        PROVE  GarbageInv'
    <3>1. UNCHANGED <<garbage, dropping, life>>
      BY <2>4 DEF OpenGuard, At, chain, thread
    <3>2. \A u \in Threads : held'[u] = held[u] \/ held'[u] = {}
      BY <1>1, <2>4 DEF OpenGuard, At, chain, thread, TypeOK
    <3>3. \A c \in Collectors : state'[c] = "free" => state[c] = "free"
      BY <1>1, <2>4 DEF OpenGuard, At, chain, thread, TypeOK
    <3>4. \A u \in Threads : Exiting(u) /\ garbage[u] # {} => Exiting(u)'
      BY <1>1, <2>4 DEF OpenGuard, At, chain, thread, Registered, Exiting, TypeOK,
         ControlInv, LocalAgrees, GuardAgrees
    <3>5. \A u \in Threads : Registered(u)' => Registered(u) \/ held'[u] = {}
      BY <1>1, <1>3, <2>4 DEF OpenGuard, At, chain, thread, Registered, Exiting,
         TypeOK, ControlInv, LocalAgrees, GuardAgrees
    <3>6. \A v \in Threads : pc'[v] \in {"drop", "free"} => pc'[v] = pc[v]
      BY <1>1, <2>4 DEF OpenGuard, At, chain, thread, TypeOK
    <3>7. \A v \in Threads : pc'[v] = "free" => ptr'[v] = ptr[v]
      BY <1>1, <2>4 DEF OpenGuard, At, chain, thread, TypeOK
    <3>8. next_link' = next_link
      BY <2>4 DEF OpenGuard, At, chain, thread
    <3>9. \A v \in Threads : pc'[v] = "free" => Taken(v)' \subseteq Taken(v)
      BY <3>7, <3>8 DEF Taken
    <3>10. QED
      BY <3>1, <3>2, <3>3, <3>4, <3>5, <3>6, <3>9, GarbageFrame
  <2>5. ASSUME NEW t \in Threads, OpenGuardInNewEpoch(t)
        PROVE  GarbageInv'
    <3> DEFINE list == local[t]
               moved == Aged(t)
               gone == {}
    <3>1. /\ Registered(t) /\ pc[t] = "idle"
          /\ dropping' = [dropping EXCEPT ![t] = moved]
          /\ garbage' = [garbage EXCEPT ![list] = @ \ moved]
          /\ pc' = [pc EXCEPT ![t] = "drop"]
          /\ UNCHANGED <<next_link, state, life, held, local, ptr>>
      BY <2>5 DEF OpenGuardInNewEpoch, Goto, At, chain
    <3>2. dropping[t] = {}
      BY <3>1 DEF ControlInv, GuardAgrees
    <3>3. /\ garbage'[list] = garbage[list] \ moved
          /\ \A x \in (Collectors \cup Threads) \ {list} : garbage'[x] = garbage[x]
          /\ dropping'[t] = (dropping[t] \ gone) \cup moved
          /\ \A u \in Threads \ {t} : dropping'[u] = dropping[u]
      BY <1>1, <3>1, <3>2 DEF TypeOK
    <3>4. /\ list \in Collectors \cup Threads /\ moved \in SUBSET garbage[list]
          /\ \A u \in Threads : Registered(u) => moved \cap held[u] = {}
      BY <3>1 DEF Registered, Aged
    <3>5. \A v \in Threads : pc'[v] \in {"drop", "free"} =>
              pc'[v] = pc[v] \/ (v = t /\ pc'[v] = "drop" /\ dropping[v] = {})
      BY <1>1, <3>1, <3>2 DEF TypeOK
    <3>6. \A v \in Threads : Taken(v)' \subseteq Taken(v)
      BY <3>1 DEF Taken
    <3>7. /\ gone \in SUBSET (dropping[t] \cap Collectors)
          /\ \A d \in Collectors : state'[d] = "free" => state[d] = "free" \/ garbage'[d] = {}
      BY <3>1
    <3>8. UNCHANGED <<life, held, local>>
      BY <3>1
    <3> HIDE DEF list, moved, gone
    <3>9. Moves(t, list, moved, gone)
      BY ONLY <3>3, <3>4, <3>5, <3>6, <3>7, <3>8 DEF Moves
    <3>10. QED
      BY ONLY GarbageInv, t \in Threads, <1>2, <3>9, Moving
  <2>6. ASSUME NEW t \in Threads, NEW o \in Objects, Retire(t, o)
        PROVE  GarbageInv'
    <3> DEFINE new == {o}
               gone == {}
    <3>1. /\ life[o] = "live" /\ life' = [life EXCEPT ![o] = "retired"] /\ t \in guarded
          /\ garbage' = [garbage EXCEPT ![local[t]] = @ \cup new]
          /\ held' = [u \in Threads |-> IF u \in guarded THEN held[u] \cup new ELSE held[u]]
          /\ UNCHANGED <<next_link, state, local, pc, ptr, dropping>>
      BY <2>6 DEF Retire, Collected, Witnessed, chain, thread
    <3>2. local[t] # Null /\ ~Discarded(o) /\ new \in SUBSET Items
      BY <3>1 DEF ControlInv, GuardAgrees, GarbageInv, RetiredOK, Items
    <3>3. /\ garbage'[local[t]] = garbage[local[t]] \cup new
          /\ \A x \in (Collectors \cup Threads) \ {local[t]} : garbage'[x] = garbage[x]
          /\ \A u \in guarded : held'[u] = held[u] \cup new
          /\ \A u \in Threads \ guarded : held'[u] = held[u]
          /\ dropping'[t] = dropping[t] \ gone
          /\ \A u \in Threads \ {t} : dropping'[u] = dropping[u]
      BY <1>1, <3>1 DEF TypeOK
    <3>4. \A x \in Objects : life'[x] = "retired" <=>
              x \in new \/ (life[x] = "retired" /\ x \notin gone)
      BY <1>1, <3>1 DEF TypeOK
    <3>5. \A u \in Threads : pc[u] = "free" => Taken(u)' = Taken(u)
      BY <3>1 DEF Taken
    <3>6. gone \in SUBSET dropping[t] /\ \A i \in new : ~Discarded(i)
      BY <3>2
    <3> HIDE DEF new, gone
    <3>7. QED
      BY <3>1, <3>2, <3>3, <3>4, <3>5, <3>6, Collecting
  <2>7. ASSUME NEW t \in Threads, NEW o \in Objects, DropObject(t, o)
        PROVE  GarbageInv'
    <3>1. /\ o \in dropping[t] /\ UNCHANGED <<next_link, state, local, pc, ptr>>
          /\ dropping' = [dropping EXCEPT ![t] = @ \ {o}]
      BY <1>1, <2>7, DropObjectSteps
    <3>2. PICK new \in SUBSET Objects : DropRetires(t, o, new)
      BY <1>1, <2>7, DropObjectSteps
    <3>3. local[t] # Null
      BY <1>1, <3>1 DEF ControlInv, LocalAgrees, GuardAgrees, Registered, Exiting
    <3>4. life[o] = "retired" /\ new \in SUBSET Items /\ \A i \in new : ~Discarded(i)
      BY <3>1, <3>2 DEF DropRetires, GarbageInv, RetiredOK, Discarded, Items
    <3>5. \A x \in Objects : life'[x] = "retired" <=>
              x \in new \/ (life[x] = "retired" /\ x \notin {o})
      BY <3>2 DEF DropRetires
    <3>6. \A u \in Threads : pc[u] = "free" => Taken(u)' = Taken(u)
      BY <3>1 DEF Taken
    <3>7. {o} \in SUBSET dropping[t]
      BY <3>1
    <3>8. /\ garbage'[local[t]] = garbage[local[t]] \cup new
          /\ \A x \in (Collectors \cup Threads) \ {local[t]} : garbage'[x] = garbage[x]
          /\ \A u \in guarded : held'[u] = held[u] \cup new
          /\ \A u \in Threads \ guarded : held'[u] = held[u]
          /\ dropping'[t] = dropping[t] \ {o}
          /\ \A u \in Threads \ {t} : dropping'[u] = dropping[u]
      BY <1>1, <3>1, <3>2 DEF DropRetires, TypeOK
    <3>9. QED
      BY <3>1, <3>3, <3>4, <3>5, <3>6, <3>7, <3>8, Collecting
  <2>8. ASSUME NEW t \in Threads, NEW c \in Collectors, DropCollector(t, c)
        PROVE  GarbageInv'
    <3> DEFINE moved == garbage[c]
               gone == {c}
    <3>1. /\ c \in dropping[t] /\ UNCHANGED <<next_link, life, held, local, pc, ptr>>
          /\ dropping' = [dropping EXCEPT ![t] = (@ \ {c}) \cup moved]
          /\ garbage' = [garbage EXCEPT ![c] = {}]
          /\ state' = [state EXCEPT ![c] = "free"]
      BY <2>8 DEF DropCollector, thread, objects
    <3>2. /\ garbage'[c] = garbage[c] \ moved
          /\ \A x \in (Collectors \cup Threads) \ {c} : garbage'[x] = garbage[x]
          /\ dropping'[t] = (dropping[t] \ gone) \cup moved
          /\ \A u \in Threads \ {t} : dropping'[u] = dropping[u]
      BY <1>1, <3>1 DEF TypeOK
    <3>3. gone \in SUBSET (dropping[t] \cap Collectors) /\ Discarded(c)
      BY <3>1 DEF Discarded
    <3>4. \A d \in Collectors : state'[d] = "free" => state[d] = "free" \/ garbage'[d] = {}
      BY <1>1, <3>1 DEF TypeOK
    <3>5. /\ \A v \in Threads : Taken(v)' \subseteq Taken(v)
          /\ UNCHANGED <<life, held, local>>
          /\ \A v \in Threads : pc'[v] \in {"drop", "free"} =>
              pc'[v] = pc[v] \/ (v = t /\ pc'[v] = "drop" /\ dropping[v] = {})
      BY <3>1 DEF Taken
    <3>6. ASSUME pc'[t] \in {"drop", "free"}, NEW u \in Threads, Registered(u)
          PROVE  moved \cap held[u] = {}
      <4>1. c \notin held[u]
        BY <3>1, <3>6 DEF GarbageInv, Unheld
      <4>2. QED
        BY <3>3, <4>1 DEF GarbageInv, HeldWith
    <3>7. c \in Collectors \cup Threads /\ moved \in SUBSET garbage[c]
      OBVIOUS
    <3> HIDE DEF moved, gone
    <3>8. Moves(t, c, moved, gone)
      BY ONLY <3>2, <3>3, <3>4, <3>5, <3>6, <3>7 DEF Moves
    <3>9. QED
      BY ONLY GarbageInv, t \in Threads, <1>2, <3>8, Moving
  <2>9. ASSUME NEW t \in Threads, FinishDrop(t)
        PROVE  GarbageInv'
    <3>1. UNCHANGED <<garbage, dropping, life>>
      BY <2>9 DEF FinishDrop, At, Goto, chain, objects
    <3>2. \A u \in Threads : held'[u] = held[u] \/ held'[u] = {}
      BY <1>1, <2>9 DEF FinishDrop, At, Goto, chain, objects, TypeOK
    <3>3. \A c \in Collectors : state'[c] = "free" => state[c] = "free"
      BY <1>1, <2>9 DEF FinishDrop, At, Goto, chain, objects, TypeOK
    <3>4. \A u \in Threads : Exiting(u) /\ garbage[u] # {} => Exiting(u)'
      BY <1>1, <2>9 DEF FinishDrop, At, Goto, chain, objects, Registered, Exiting,
         TypeOK, ControlInv, LocalAgrees, GuardAgrees
    <3>5. \A u \in Threads : Registered(u)' => Registered(u) \/ held'[u] = {}
      BY <1>1, <1>3, <2>9 DEF FinishDrop, At, Goto, chain, objects, Registered,
         Exiting, TypeOK, ControlInv, LocalAgrees, GuardAgrees
    <3>6. \A v \in Threads : pc'[v] \in {"drop", "free"} => pc'[v] = pc[v]
      BY <1>1, <2>9 DEF FinishDrop, At, Goto, chain, objects, TypeOK
    <3>7. \A v \in Threads : pc'[v] = "free" => ptr'[v] = ptr[v]
      BY <1>1, <2>9 DEF FinishDrop, At, Goto, chain, objects, TypeOK
    <3>8. next_link' = next_link
      BY <2>9 DEF FinishDrop, At, Goto, chain, objects
    <3>9. \A v \in Threads : pc'[v] = "free" => Taken(v)' \subseteq Taken(v)
      BY <3>7, <3>8 DEF Taken
    <3>10. QED
      BY <3>1, <3>2, <3>3, <3>4, <3>5, <3>6, <3>9, GarbageFrame
  <2>10. ASSUME NEW t \in Threads, EndGuard(t)
        PROVE  GarbageInv'
    <3>1. UNCHANGED <<garbage, dropping, life>>
      BY <2>10 DEF EndGuard, GuardEnds, MustScan, chain, thread
    <3>2. \A u \in Threads : held'[u] = held[u] \/ held'[u] = {}
      BY <1>1, <2>10 DEF EndGuard, GuardEnds, MustScan, chain, thread, TypeOK
    <3>3. \A c \in Collectors : state'[c] = "free" => state[c] = "free"
      BY <1>1, <2>10 DEF EndGuard, GuardEnds, MustScan, chain, thread, TypeOK
    <3>4. \A u \in Threads : Exiting(u) /\ garbage[u] # {} => Exiting(u)'
      BY <1>1, <2>10 DEF EndGuard, GuardEnds, MustScan, chain, thread, Registered,
         Exiting, TypeOK, ControlInv, LocalAgrees, GuardAgrees
    <3>5. \A u \in Threads : Registered(u)' => Registered(u) \/ held'[u] = {}
      BY <1>1, <1>3, <2>10 DEF EndGuard, GuardEnds, MustScan, chain, thread,
         Registered, Exiting, TypeOK, ControlInv, LocalAgrees, GuardAgrees
    <3>6. \A v \in Threads : pc'[v] \in {"drop", "free"} => pc'[v] = pc[v]
      BY <1>1, <2>10 DEF EndGuard, GuardEnds, MustScan, chain, thread, TypeOK
    <3>7. \A v \in Threads : pc'[v] = "free" => ptr'[v] = ptr[v]
      BY <1>1, <2>10 DEF EndGuard, GuardEnds, MustScan, chain, thread, TypeOK
    <3>8. next_link' = next_link
      BY <2>10 DEF EndGuard, GuardEnds, MustScan, chain, thread
    <3>9. \A v \in Threads : pc'[v] = "free" => Taken(v)' \subseteq Taken(v)
      BY <3>7, <3>8 DEF Taken
    <3>10. QED
      BY <3>1, <3>2, <3>3, <3>4, <3>5, <3>6, <3>9, GarbageFrame
  <2>11. ASSUME NEW t \in Threads, StartScan(t)
        PROVE  GarbageInv'
    <3>1. UNCHANGED <<garbage, dropping, life>>
      BY <2>11 DEF StartScan, GuardEnds, LockChain, Set, Goto
    <3>2. \A u \in Threads : held'[u] = held[u] \/ held'[u] = {}
      BY <1>1, <2>11 DEF StartScan, GuardEnds, LockChain, Set, Goto, TypeOK
    <3>3. \A c \in Collectors : state'[c] = "free" => state[c] = "free"
      BY <1>1, <2>11 DEF StartScan, GuardEnds, LockChain, Set, Goto, TypeOK
    <3>4. \A u \in Threads : Exiting(u) /\ garbage[u] # {} => Exiting(u)'
      BY <1>1, <2>11 DEF StartScan, GuardEnds, LockChain, Set, Goto,
         Registered, Exiting, TypeOK, ControlInv, LocalAgrees, GuardAgrees
    <3>5. \A u \in Threads : Registered(u)' => Registered(u) \/ held'[u] = {}
      BY <1>1, <1>3, <2>11 DEF StartScan, GuardEnds, LockChain, Set,
         Goto, Registered, Exiting, TypeOK, ControlInv, LocalAgrees, GuardAgrees
    <3>6. \A v \in Threads : pc'[v] \in {"drop", "free"} => pc'[v] = pc[v]
      BY <1>1, <2>11 DEF StartScan, GuardEnds, LockChain, Set, Goto, TypeOK
    <3>7. \A v \in Threads : pc'[v] = "free" => ptr'[v] = ptr[v]
      BY <1>1, <2>11 DEF StartScan, GuardEnds, LockChain, Set, Goto, TypeOK
    <3>8. next_link' = next_link
      BY <2>11 DEF StartScan, GuardEnds, LockChain, Set, Goto
    <3>9. \A v \in Threads : pc'[v] = "free" => Taken(v)' \subseteq Taken(v)
      BY <3>7, <3>8 DEF Taken
    <3>10. QED
      BY <3>1, <3>2, <3>3, <3>4, <3>5, <3>6, <3>9, GarbageFrame
  <2>12. ASSUME NEW t \in Threads, ScanPass(t)
        PROVE  GarbageInv'
    <3>1. UNCHANGED <<garbage, dropping, life>>
      BY <2>12 DEF ScanPass, At, MoveOn, Set, chain, objects
    <3>2. \A u \in Threads : held'[u] = held[u] \/ held'[u] = {}
      BY <1>1, <2>12 DEF ScanPass, At, MoveOn, Set, chain, objects, TypeOK
    <3>3. \A c \in Collectors : state'[c] = "free" => state[c] = "free"
      BY <1>1, <2>12 DEF ScanPass, At, MoveOn, Set, chain, objects, TypeOK
    <3>4. \A u \in Threads : Exiting(u) /\ garbage[u] # {} => Exiting(u)'
      BY <1>1, <2>12 DEF ScanPass, At, MoveOn, Set, chain, objects, Registered,
         Exiting, TypeOK, ControlInv, LocalAgrees, GuardAgrees
    <3>5. \A u \in Threads : Registered(u)' => Registered(u) \/ held'[u] = {}
      BY <1>1, <1>3, <2>12 DEF ScanPass, At, MoveOn, Set, chain, objects,
         Registered, Exiting, TypeOK, ControlInv, LocalAgrees, GuardAgrees
    <3>6. \A v \in Threads : pc'[v] \in {"drop", "free"} => pc'[v] = pc[v]
      BY <1>1, <2>12 DEF ScanPass, At, MoveOn, Set, chain, objects, TypeOK
    <3>7. \A v \in Threads : pc'[v] = "free" => ptr'[v] = ptr[v]
      BY <1>1, <2>12 DEF ScanPass, At, MoveOn, Set, chain, objects, TypeOK
    <3>8. next_link' = next_link
      BY <2>12 DEF ScanPass, At, MoveOn, Set, chain, objects
    <3>9. \A v \in Threads : pc'[v] = "free" => Taken(v)' \subseteq Taken(v)
      BY <3>7, <3>8 DEF Taken
    <3>10. QED
      BY <3>1, <3>2, <3>3, <3>4, <3>5, <3>6, <3>9, GarbageFrame
  <2>13. ASSUME NEW t \in Threads, ScanUnlink(t)
        PROVE  GarbageInv'
    <3> DEFINE new == {ptr[t]}
               gone == {}
    <3> DEFINE c == ptr[t]
    <3>1. /\ pc[t] = "scan" /\ c # Null
          /\ garbage' = [garbage EXCEPT ![local[t]] = @ \cup new]
          /\ held' = [u \in Threads |-> IF u \in guarded THEN held[u] \cup new ELSE held[u]]
          /\ UNCHANGED <<state, life, local, pc, dropping>>
      BY <2>13 DEF ScanUnlink, Collected, Witnessed, At
    <3>2. c \in Collectors /\ ~Discarded(c) /\ new \in SUBSET Items
      BY <1>1, <3>1, ChainClosed DEF ChainInv, ChainOK, ScanOK, Items
    <3>3. local[t] # Null /\ \A u \in Threads : pc[u] # "free"
      BY <3>1 DEF ControlInv, LocalAgrees, LockExcludes, Working
    <3>4. /\ garbage'[local[t]] = garbage[local[t]] \cup new
          /\ \A x \in (Collectors \cup Threads) \ {local[t]} : garbage'[x] = garbage[x]
          /\ \A u \in guarded : held'[u] = held[u] \cup new
          /\ \A u \in Threads \ guarded : held'[u] = held[u]
          /\ dropping'[t] = dropping[t] \ gone
          /\ \A u \in Threads \ {t} : dropping'[u] = dropping[u]
      BY <1>1, <3>1 DEF TypeOK
    <3>5. \A o \in Objects : life'[o] = "retired" <=>
              o \in new \/ (life[o] = "retired" /\ o \notin gone)
      BY <3>1, <3>2
    <3>6. /\ gone \in SUBSET dropping[t] /\ \A i \in new : ~Discarded(i)
          /\ \A u \in Threads : pc[u] = "free" => Taken(u)' = Taken(u)
      BY <3>2, <3>3
    <3> HIDE DEF new, gone
    <3>7. QED
      BY <3>1, <3>2, <3>3, <3>4, <3>5, <3>6, Collecting
  <2>14. ASSUME NEW t \in Threads, ScanStop(t)
        PROVE  GarbageInv'
    <3>1. UNCHANGED <<garbage, dropping, life>>
      BY <2>14 DEF ScanStop, At, Goto, chain, objects
    <3>2. \A u \in Threads : held'[u] = held[u] \/ held'[u] = {}
      BY <1>1, <2>14 DEF ScanStop, At, Goto, chain, objects, TypeOK
    <3>3. \A c \in Collectors : state'[c] = "free" => state[c] = "free"
      BY <1>1, <2>14 DEF ScanStop, At, Goto, chain, objects, TypeOK
    <3>4. \A u \in Threads : Exiting(u) /\ garbage[u] # {} => Exiting(u)'
      BY <1>1, <2>14 DEF ScanStop, At, Goto, chain, objects, Registered, Exiting,
         TypeOK, ControlInv, LocalAgrees, GuardAgrees
    <3>5. \A u \in Threads : Registered(u)' => Registered(u) \/ held'[u] = {}
      BY <1>1, <1>3, <2>14 DEF ScanStop, At, Goto, chain, objects, Registered,
         Exiting, TypeOK, ControlInv, LocalAgrees, GuardAgrees
    <3>6. \A v \in Threads : pc'[v] \in {"drop", "free"} => pc'[v] = pc[v]
      BY <1>1, <2>14 DEF ScanStop, At, Goto, chain, objects, TypeOK
    <3>7. \A v \in Threads : pc'[v] = "free" => ptr'[v] = ptr[v]
      BY <1>1, <2>14 DEF ScanStop, At, Goto, chain, objects, TypeOK
    <3>8. next_link' = next_link
      BY <2>14 DEF ScanStop, At, Goto, chain, objects
    <3>9. \A v \in Threads : pc'[v] = "free" => Taken(v)' \subseteq Taken(v)
      BY <3>7, <3>8 DEF Taken
    <3>10. QED
      BY <3>1, <3>2, <3>3, <3>4, <3>5, <3>6, <3>9, GarbageFrame
  <2>15. ASSUME NEW t \in Threads, ScanEnds(t)
        PROVE  GarbageInv'
    <3>1. UNCHANGED <<garbage, dropping, life>>
      BY <2>15 DEF ScanEnds, At, Goto, chain, objects
    <3>2. \A u \in Threads : held'[u] = held[u] \/ held'[u] = {}
      BY <1>1, <2>15 DEF ScanEnds, At, Goto, chain, objects, TypeOK
    <3>3. \A c \in Collectors : state'[c] = "free" => state[c] = "free"
      BY <1>1, <2>15 DEF ScanEnds, At, Goto, chain, objects, TypeOK
    <3>4. \A u \in Threads : Exiting(u) /\ garbage[u] # {} => Exiting(u)'
      BY <1>1, <2>15 DEF ScanEnds, At, Goto, chain, objects, Registered, Exiting,
         TypeOK, ControlInv, LocalAgrees, GuardAgrees
    <3>5. \A u \in Threads : Registered(u)' => Registered(u) \/ held'[u] = {}
      BY <1>1, <1>3, <2>15 DEF ScanEnds, At, Goto, chain, objects, Registered,
         Exiting, TypeOK, ControlInv, LocalAgrees, GuardAgrees
    <3>6. \A v \in Threads : pc'[v] \in {"drop", "free"} => pc'[v] = pc[v]
      BY <1>1, <2>15 DEF ScanEnds, At, Goto, chain, objects, TypeOK
    <3>7. \A v \in Threads : pc'[v] = "free" => ptr'[v] = ptr[v]
      BY <1>1, <2>15 DEF ScanEnds, At, Goto, chain, objects, TypeOK
    <3>8. next_link' = next_link
      BY <2>15 DEF ScanEnds, At, Goto, chain, objects
    <3>9. \A v \in Threads : pc'[v] = "free" => Taken(v)' \subseteq Taken(v)
      BY <3>7, <3>8 DEF Taken
    <3>10. QED
      BY <3>1, <3>2, <3>3, <3>4, <3>5, <3>6, <3>9, GarbageFrame
  <2>16. ASSUME NEW t \in Threads, UnlockChain(t)
        PROVE  GarbageInv'
    <3>1. UNCHANGED <<garbage, dropping, life>>
      BY <2>16 DEF UnlockChain, Set, Goto, At, objects
    <3>2. \A u \in Threads : held'[u] = held[u] \/ held'[u] = {}
      BY <1>1, <2>16 DEF UnlockChain, Set, Goto, At, objects, TypeOK
    <3>3. \A c \in Collectors : state'[c] = "free" => state[c] = "free"
      BY <1>1, <2>16 DEF UnlockChain, Set, Goto, At, objects, TypeOK
    <3>4. \A u \in Threads : Exiting(u) /\ garbage[u] # {} => Exiting(u)'
      BY <1>1, <2>16 DEF UnlockChain, Set, Goto, At, objects, Registered, Exiting,
         TypeOK, ControlInv, LocalAgrees, GuardAgrees
    <3>5. \A u \in Threads : Registered(u)' => Registered(u) \/ held'[u] = {}
      BY <1>1, <1>3, <2>16 DEF UnlockChain, Set, Goto, At, objects, Registered,
         Exiting, TypeOK, ControlInv, LocalAgrees, GuardAgrees
    <3>6. \A v \in Threads : pc'[v] \in {"drop", "free"} => pc'[v] = pc[v]
      BY <1>1, <2>16 DEF UnlockChain, Set, Goto, At, objects, TypeOK
    <3>7. \A v \in Threads : pc'[v] = "free" => ptr'[v] = ptr[v]
      BY <1>1, <2>16 DEF UnlockChain, Set, Goto, At, objects, TypeOK
    <3>8. next_link' = next_link
      BY <2>16 DEF UnlockChain, Set, Goto, At, objects
    <3>9. \A v \in Threads : pc'[v] = "free" => Taken(v)' \subseteq Taken(v)
      BY <3>7, <3>8 DEF Taken
    <3>10. QED
      BY <3>1, <3>2, <3>3, <3>4, <3>5, <3>6, <3>9, GarbageFrame
  <2>17. ASSUME NEW t \in Threads, Suspend(t)
        PROVE  GarbageInv'
    <3>1. UNCHANGED <<garbage, dropping, life>>
      BY <2>17 DEF Suspend, At, Goto, objects
    <3>2. \A u \in Threads : held'[u] = held[u] \/ held'[u] = {}
      BY <1>1, <2>17 DEF Suspend, At, Goto, objects, TypeOK
    <3>3. \A c \in Collectors : state'[c] = "free" => state[c] = "free"
      BY <1>1, <2>17 DEF Suspend, At, Goto, objects, TypeOK
    <3>4. \A u \in Threads : Exiting(u) /\ garbage[u] # {} => Exiting(u)'
      BY <1>1, <2>17 DEF Suspend, At, Goto, objects, Registered, Exiting, TypeOK,
         ControlInv, LocalAgrees, GuardAgrees
    <3>5. \A u \in Threads : Registered(u)' => Registered(u) \/ held'[u] = {}
      BY <1>1, <1>3, <2>17 DEF Suspend, At, Goto, objects, Registered, Exiting,
         TypeOK, ControlInv, LocalAgrees, GuardAgrees
    <3>6. \A v \in Threads : pc'[v] \in {"drop", "free"} => pc'[v] = pc[v]
      BY <1>1, <2>17 DEF Suspend, At, Goto, objects, TypeOK
    <3>7. \A v \in Threads : pc'[v] = "free" => ptr'[v] = ptr[v]
      BY <1>1, <2>17 DEF Suspend, At, Goto, objects, TypeOK
    <3>8. next_link' = next_link
      BY <2>17 DEF Suspend, At, Goto, objects
    <3>9. \A v \in Threads : pc'[v] = "free" => Taken(v)' \subseteq Taken(v)
      BY <3>7, <3>8 DEF Taken
    <3>10. QED
      BY <3>1, <3>2, <3>3, <3>4, <3>5, <3>6, <3>9, GarbageFrame
  <2>18. ASSUME NEW t \in Threads, MarkScanEnforced(t)
        PROVE  GarbageInv'
    <3>1. UNCHANGED <<garbage, dropping, life>>
      BY <2>18 DEF MarkScanEnforced, At, Goto, objects
    <3>2. \A u \in Threads : held'[u] = held[u] \/ held'[u] = {}
      BY <1>1, <2>18 DEF MarkScanEnforced, At, Goto, objects, TypeOK
    <3>3. \A c \in Collectors : state'[c] = "free" => state[c] = "free"
      BY <1>1, <2>18 DEF MarkScanEnforced, At, Goto, objects, TypeOK
    <3>4. \A u \in Threads : Exiting(u) /\ garbage[u] # {} => Exiting(u)'
      BY <1>1, <2>18 DEF MarkScanEnforced, At, Goto, objects, Registered, Exiting,
         TypeOK, ControlInv, LocalAgrees, GuardAgrees
    <3>5. \A u \in Threads : Registered(u)' => Registered(u) \/ held'[u] = {}
      BY <1>1, <1>3, <2>18 DEF MarkScanEnforced, At, Goto, objects, Registered,
         Exiting, TypeOK, ControlInv, LocalAgrees, GuardAgrees
    <3>6. \A v \in Threads : pc'[v] \in {"drop", "free"} => pc'[v] = pc[v]
      BY <1>1, <2>18 DEF MarkScanEnforced, At, Goto, objects, TypeOK
    <3>7. \A v \in Threads : pc'[v] = "free" => ptr'[v] = ptr[v]
      BY <1>1, <2>18 DEF MarkScanEnforced, At, Goto, objects, TypeOK
    <3>8. next_link' = next_link
      BY <2>18 DEF MarkScanEnforced, At, Goto, objects
    <3>9. \A v \in Threads : pc'[v] = "free" => Taken(v)' \subseteq Taken(v)
      BY <3>7, <3>8 DEF Taken
    <3>10. QED
      BY <3>1, <3>2, <3>3, <3>4, <3>5, <3>6, <3>9, GarbageFrame
  <2>19. ASSUME NEW t \in Threads, Exit(t)
        PROVE  GarbageInv'
    <3>1. UNCHANGED <<garbage, dropping, life>>
      BY <2>19 DEF Exit, At, Goto, objects
    <3>2. \A u \in Threads : held'[u] = held[u] \/ held'[u] = {}
      BY <1>1, <2>19 DEF Exit, At, Goto, objects, TypeOK
    <3>3. \A c \in Collectors : state'[c] = "free" => state[c] = "free"
      BY <1>1, <2>19 DEF Exit, At, Goto, objects, TypeOK
    <3>4. \A u \in Threads : Exiting(u) /\ garbage[u] # {} => Exiting(u)'
      BY <1>1, <2>19 DEF Exit, At, Goto, objects, Registered, Exiting, TypeOK,
         ControlInv, LocalAgrees, GuardAgrees
    <3>5. \A u \in Threads : Registered(u)' => Registered(u) \/ held'[u] = {}
      BY <1>1, <1>3, <2>19 DEF Exit, At, Goto, objects, Registered, Exiting,
         TypeOK, ControlInv, LocalAgrees, GuardAgrees
    <3>6. \A v \in Threads : pc'[v] \in {"drop", "free"} => pc'[v] = pc[v]
      BY <1>1, <2>19 DEF Exit, At, Goto, objects, TypeOK
    <3>7. \A v \in Threads : pc'[v] = "free" => ptr'[v] = ptr[v]
      BY <1>1, <2>19 DEF Exit, At, Goto, objects, TypeOK
    <3>8. next_link' = next_link
      BY <2>19 DEF Exit, At, Goto, objects
    <3>9. \A v \in Threads : pc'[v] = "free" => Taken(v)' \subseteq Taken(v)
      BY <3>7, <3>8 DEF Taken
    <3>10. QED
      BY <3>1, <3>2, <3>3, <3>4, <3>5, <3>6, <3>9, GarbageFrame
  <2>20. ASSUME NEW t \in Threads, LockForClear(t)
        PROVE  GarbageInv'
    <3>1. UNCHANGED <<garbage, dropping, life>>
      BY <2>20 DEF LockForClear, At, LockChain, Set, Goto, objects
    <3>2. \A u \in Threads : held'[u] = held[u] \/ held'[u] = {}
      BY <1>1, <2>20 DEF LockForClear, At, LockChain, Set, Goto, objects, TypeOK
    <3>3. \A c \in Collectors : state'[c] = "free" => state[c] = "free"
      BY <1>1, <2>20 DEF LockForClear, At, LockChain, Set, Goto, objects, TypeOK
    <3>4. \A u \in Threads : Exiting(u) /\ garbage[u] # {} => Exiting(u)'
      BY <1>1, <2>20 DEF LockForClear, At, LockChain, Set, Goto, objects,
         Registered, Exiting, TypeOK, ControlInv, LocalAgrees, GuardAgrees
    <3>5. \A u \in Threads : Registered(u)' => Registered(u) \/ held'[u] = {}
      BY <1>1, <1>3, <2>20 DEF LockForClear, At, LockChain, Set, Goto, objects,
         Registered, Exiting, TypeOK, ControlInv, LocalAgrees, GuardAgrees
    <3>6. \A v \in Threads : pc'[v] \in {"drop", "free"} => pc'[v] = pc[v]
      BY <1>1, <2>20 DEF LockForClear, At, LockChain, Set, Goto, objects, TypeOK
    <3>7. \A v \in Threads : pc'[v] = "free" => ptr'[v] = ptr[v]
      BY <1>1, <2>20 DEF LockForClear, At, LockChain, Set, Goto, objects, TypeOK
    <3>8. next_link' = next_link
      BY <2>20 DEF LockForClear, At, LockChain, Set, Goto, objects
    <3>9. \A v \in Threads : pc'[v] = "free" => Taken(v)' \subseteq Taken(v)
      BY <3>7, <3>8 DEF Taken
    <3>10. QED
      BY <3>1, <3>2, <3>3, <3>4, <3>5, <3>6, <3>9, GarbageFrame
  <2>21. ASSUME NEW t \in Threads, LockFails(t)
        PROVE  GarbageInv'
    <3>1. UNCHANGED <<garbage, dropping, life>>
      BY <2>21 DEF LockFails, At, Goto, chain, objects
    <3>2. \A u \in Threads : held'[u] = held[u] \/ held'[u] = {}
      BY <1>1, <2>21 DEF LockFails, At, Goto, chain, objects, TypeOK
    <3>3. \A c \in Collectors : state'[c] = "free" => state[c] = "free"
      BY <1>1, <2>21 DEF LockFails, At, Goto, chain, objects, TypeOK
    <3>4. \A u \in Threads : Exiting(u) /\ garbage[u] # {} => Exiting(u)'
      BY <1>1, <2>21 DEF LockFails, At, Goto, chain, objects, Registered, Exiting,
         TypeOK, ControlInv, LocalAgrees, GuardAgrees
    <3>5. \A u \in Threads : Registered(u)' => Registered(u) \/ held'[u] = {}
      BY <1>1, <1>3, <2>21 DEF LockFails, At, Goto, chain, objects, Registered,
         Exiting, TypeOK, ControlInv, LocalAgrees, GuardAgrees
    <3>6. \A v \in Threads : pc'[v] \in {"drop", "free"} => pc'[v] = pc[v]
      BY <1>1, <2>21 DEF LockFails, At, Goto, chain, objects, TypeOK
    <3>7. \A v \in Threads : pc'[v] = "free" => ptr'[v] = ptr[v]
      BY <1>1, <2>21 DEF LockFails, At, Goto, chain, objects, TypeOK
    <3>8. next_link' = next_link
      BY <2>21 DEF LockFails, At, Goto, chain, objects
    <3>9. \A v \in Threads : pc'[v] = "free" => Taken(v)' \subseteq Taken(v)
      BY <3>7, <3>8 DEF Taken
    <3>10. QED
      BY <3>1, <3>2, <3>3, <3>4, <3>5, <3>6, <3>9, GarbageFrame
  <2>22. ASSUME NEW t \in Threads, CheckInvalid(t)
        PROVE  GarbageInv'
    <3>1. UNCHANGED <<garbage, dropping, life>>
      BY <2>22 DEF CheckInvalid, At, Set, chain, objects
    <3>2. \A u \in Threads : held'[u] = held[u] \/ held'[u] = {}
      BY <1>1, <2>22 DEF CheckInvalid, At, Set, chain, objects, TypeOK
    <3>3. \A c \in Collectors : state'[c] = "free" => state[c] = "free"
      BY <1>1, <2>22 DEF CheckInvalid, At, Set, chain, objects, TypeOK
    <3>4. \A u \in Threads : Exiting(u) /\ garbage[u] # {} => Exiting(u)'
      BY <1>1, <2>22 DEF CheckInvalid, At, Set, chain, objects, Registered,
         Exiting, TypeOK, ControlInv, LocalAgrees, GuardAgrees
    <3>5. \A u \in Threads : Registered(u)' => Registered(u) \/ held'[u] = {}
      BY <1>1, <1>3, <2>22 DEF CheckInvalid, At, Set, chain, objects, Registered,
         Exiting, TypeOK, ControlInv, LocalAgrees, GuardAgrees
    <3>6. \A v \in Threads : pc'[v] \in {"drop", "free"} => pc'[v] = pc[v]
      BY <1>1, <2>22 DEF CheckInvalid, At, Set, chain, objects, TypeOK
    <3>7. \A v \in Threads : pc'[v] = "free" => ptr'[v] = ptr[v]
      BY <1>1, <2>22 DEF CheckInvalid, At, Set, chain, objects, TypeOK
    <3>8. next_link' = next_link
      BY <2>22 DEF CheckInvalid, At, Set, chain, objects
    <3>9. \A v \in Threads : pc'[v] = "free" => Taken(v)' \subseteq Taken(v)
      BY <3>7, <3>8 DEF Taken
    <3>10. QED
      BY <3>1, <3>2, <3>3, <3>4, <3>5, <3>6, <3>9, GarbageFrame
  <2>23. ASSUME NEW t \in Threads, FindValid(t)
        PROVE  GarbageInv'
    <3>1. UNCHANGED <<garbage, dropping, life>>
      BY <2>23 DEF FindValid, At, Goto, chain, objects
    <3>2. \A u \in Threads : held'[u] = held[u] \/ held'[u] = {}
      BY <1>1, <2>23 DEF FindValid, At, Goto, chain, objects, TypeOK
    <3>3. \A c \in Collectors : state'[c] = "free" => state[c] = "free"
      BY <1>1, <2>23 DEF FindValid, At, Goto, chain, objects, TypeOK
    <3>4. \A u \in Threads : Exiting(u) /\ garbage[u] # {} => Exiting(u)'
      BY <1>1, <2>23 DEF FindValid, At, Goto, chain, objects, Registered, Exiting,
         TypeOK, ControlInv, LocalAgrees, GuardAgrees
    <3>5. \A u \in Threads : Registered(u)' => Registered(u) \/ held'[u] = {}
      BY <1>1, <1>3, <2>23 DEF FindValid, At, Goto, chain, objects, Registered,
         Exiting, TypeOK, ControlInv, LocalAgrees, GuardAgrees
    <3>6. \A v \in Threads : pc'[v] \in {"drop", "free"} => pc'[v] = pc[v]
      BY <1>1, <2>23 DEF FindValid, At, Goto, chain, objects, TypeOK
    <3>7. \A v \in Threads : pc'[v] = "free" => ptr'[v] = ptr[v]
      BY <1>1, <2>23 DEF FindValid, At, Goto, chain, objects, TypeOK
    <3>8. next_link' = next_link
      BY <2>23 DEF FindValid, At, Goto, chain, objects
    <3>9. \A v \in Threads : pc'[v] = "free" => Taken(v)' \subseteq Taken(v)
      BY <3>7, <3>8 DEF Taken
    <3>10. QED
      BY <3>1, <3>2, <3>3, <3>4, <3>5, <3>6, <3>9, GarbageFrame
  <2>24. ASSUME NEW t \in Threads, TakeChain(t)
        PROVE  GarbageInv'
    <3>1. /\ UNCHANGED <<next_link, state, local, garbage, dropping, life, held>>
          /\ pc[t] = "check" /\ ptr[t] = Null /\ head = prev[t]
      BY <2>24 DEF TakeChain, Set, At, Goto, objects
    <3>2. \A c \in InChain : state[c] = "INVALID"
      <4>1. Reach(next_link, ptr[t]) = {}
        BY <1>1, <3>1, ReachStep DEF TypeOK
      <4>2. QED
        BY <3>1, <4>1 DEF ChainInv, CheckOK, InChain
    <3>3. \A u \in Threads : ~Registered(u) /\ ~Registered(u)'
      BY <3>1, <3>2 DEF ChainInv, RegisteredOK, Registered
    <3>4. QED
      BY <3>1, <3>3, GarbageFrame DEF Exiting
  <2>25. ASSUME NEW t \in Threads, TakeFails(t)
        PROVE  GarbageInv'
    <3>1. UNCHANGED <<garbage, dropping, life>>
      BY <2>25 DEF TakeFails, At, Goto, chain, objects
    <3>2. \A u \in Threads : held'[u] = held[u] \/ held'[u] = {}
      BY <1>1, <2>25 DEF TakeFails, At, Goto, chain, objects, TypeOK
    <3>3. \A c \in Collectors : state'[c] = "free" => state[c] = "free"
      BY <1>1, <2>25 DEF TakeFails, At, Goto, chain, objects, TypeOK
    <3>4. \A u \in Threads : Exiting(u) /\ garbage[u] # {} => Exiting(u)'
      BY <1>1, <2>25 DEF TakeFails, At, Goto, chain, objects, Registered, Exiting,
         TypeOK, ControlInv, LocalAgrees, GuardAgrees
    <3>5. \A u \in Threads : Registered(u)' => Registered(u) \/ held'[u] = {}
      BY <1>1, <1>3, <2>25 DEF TakeFails, At, Goto, chain, objects, Registered,
         Exiting, TypeOK, ControlInv, LocalAgrees, GuardAgrees
    <3>6. \A v \in Threads : pc'[v] \in {"drop", "free"} => pc'[v] = pc[v]
      BY <1>1, <2>25 DEF TakeFails, At, Goto, chain, objects, TypeOK
    <3>7. \A v \in Threads : pc'[v] = "free" => ptr'[v] = ptr[v]
      BY <1>1, <2>25 DEF TakeFails, At, Goto, chain, objects, TypeOK
    <3>8. next_link' = next_link
      BY <2>25 DEF TakeFails, At, Goto, chain, objects
    <3>9. \A v \in Threads : pc'[v] = "free" => Taken(v)' \subseteq Taken(v)
      BY <3>7, <3>8 DEF Taken
    <3>10. QED
      BY <3>1, <3>2, <3>3, <3>4, <3>5, <3>6, <3>9, GarbageFrame
  <2>26. ASSUME NEW t \in Threads, FreeCollector(t)
        PROVE  GarbageInv'
    <3> DEFINE moved == garbage[ptr[t]]
               gone == {}
    <3> DEFINE c == ptr[t]
    <3>1. /\ pc[t] = "free" /\ c # Null /\ dropping[t] = {}
          /\ UNCHANGED <<next_link, life, held, local, pc>>
          /\ ptr' = [ptr EXCEPT ![t] = next_link[c]]
          /\ dropping' = [dropping EXCEPT ![t] = moved]
          /\ garbage' = [garbage EXCEPT ![c] = {}]
          /\ state' = [state EXCEPT ![c] = "free"]
      BY <2>26 DEF FreeCollector, Set, At, Dropped, objects
    <3>2. c \in Collectors /\ c \in Taken(t)
      BY <1>1, <3>1, ChainClosed DEF TypeOK
    <3>3. /\ garbage'[c] = garbage[c] \ moved
          /\ \A x \in (Collectors \cup Threads) \ {c} : garbage'[x] = garbage[x]
          /\ dropping'[t] = (dropping[t] \ gone) \cup moved
          /\ \A u \in Threads \ {t} : dropping'[u] = dropping[u]
          /\ \A d \in Collectors : state'[d] = "free" => state[d] = "free" \/ garbage'[d] = {}
      BY <1>1, <3>1, <3>2 DEF TypeOK
    <3>4. \A v \in Threads : Taken(v)' \subseteq Taken(v)
      <4>1. \A v \in Threads : ptr'[v] = IF v = t THEN next_link[c] ELSE ptr[v]
        BY <1>1, <3>1 DEF TypeOK
      <4>2. Reach(next_link, next_link[c]) \subseteq Taken(t)
        BY <3>2, ReachMonotone DEF Taken
      <4>3. QED
        BY <3>1, <4>1, <4>2 DEF Taken
    <3>5. \A u \in Threads : Registered(u) => moved \cap held[u] = {}
      BY <3>1, <3>2 DEF GarbageInv, Unheld
    <3>6. gone \in SUBSET (dropping[t] \cap Collectors) /\ c \in Collectors \cup Threads
          /\ moved \in SUBSET garbage[c]
          /\ UNCHANGED <<life, held, local>>
          /\ \A v \in Threads : pc'[v] \in {"drop", "free"} =>
              pc'[v] = pc[v] \/ (v = t /\ pc'[v] = "drop" /\ dropping[v] = {})
      BY <3>1, <3>2
    <3> HIDE DEF c, moved, gone
    <3>7. Moves(t, c, moved, gone)
      BY ONLY <3>3, <3>4, <3>5, <3>6 DEF Moves
    <3>8. QED
      BY ONLY GarbageInv, t \in Threads, <1>2, <3>7, Moving
  <2>27. ASSUME NEW t \in Threads, ChainFreed(t)
        PROVE  GarbageInv'
    <3>1. UNCHANGED <<garbage, dropping, life>>
      BY <2>27 DEF ChainFreed, At, Dropped, Goto, chain, objects
    <3>2. \A u \in Threads : held'[u] = held[u] \/ held'[u] = {}
      BY <1>1, <2>27 DEF ChainFreed, At, Dropped, Goto, chain, objects, TypeOK
    <3>3. \A c \in Collectors : state'[c] = "free" => state[c] = "free"
      BY <1>1, <2>27 DEF ChainFreed, At, Dropped, Goto, chain, objects, TypeOK
    <3>4. \A u \in Threads : Exiting(u) /\ garbage[u] # {} => Exiting(u)'
      BY <1>1, <2>27 DEF ChainFreed, At, Dropped, Goto, chain, objects,
         Registered, Exiting, TypeOK, ControlInv, LocalAgrees, GuardAgrees
    <3>5. \A u \in Threads : Registered(u)' => Registered(u) \/ held'[u] = {}
      BY <1>1, <1>3, <2>27 DEF ChainFreed, At, Dropped, Goto, chain, objects,
         Registered, Exiting, TypeOK, ControlInv, LocalAgrees, GuardAgrees
    <3>6. \A v \in Threads : pc'[v] \in {"drop", "free"} => pc'[v] = pc[v]
      BY <1>1, <2>27 DEF ChainFreed, At, Dropped, Goto, chain, objects, TypeOK
    <3>7. \A v \in Threads : pc'[v] = "free" => ptr'[v] = ptr[v]
      BY <1>1, <2>27 DEF ChainFreed, At, Dropped, Goto, chain, objects, TypeOK
    <3>8. next_link' = next_link
      BY <2>27 DEF ChainFreed, At, Dropped, Goto, chain, objects
    <3>9. \A v \in Threads : pc'[v] = "free" => Taken(v)' \subseteq Taken(v)
      BY <3>7, <3>8 DEF Taken
    <3>10. QED
      BY <3>1, <3>2, <3>3, <3>4, <3>5, <3>6, <3>9, GarbageFrame
  <2>28. ASSUME NEW t \in Threads, ClearTemporary(t)
        PROVE  GarbageInv'
    <3>1. /\ pc[t] = "temp" /\ dropping[t] = {}
          /\ UNCHANGED <<next_link, state, life, held, local, pc, ptr>>
          /\ dropping' = [dropping EXCEPT ![t] = garbage[t]]
          /\ garbage' = [garbage EXCEPT ![t] = {}]
      BY <2>28 DEF ClearTemporary, At, Dropped, objects, chain, thread
    <3>2. /\ garbage'[t] = garbage[t] \ garbage[t]
          /\ \A x \in (Collectors \cup Threads) \ {t} : garbage'[x] = garbage[x]
          /\ dropping'[t] = (dropping[t] \ {}) \cup garbage[t]
          /\ \A u \in Threads \ {t} : dropping'[u] = dropping[u]
      BY <1>1, <3>1 DEF TypeOK
    <3>3. /\ \A v \in Threads : Taken(v)' \subseteq Taken(v)
          /\ UNCHANGED <<life, held, local>>
          /\ \A v \in Threads : pc'[v] \in {"drop", "free"} =>
              pc'[v] = pc[v] \/ (v = t /\ pc'[v] = "drop" /\ dropping[v] = {})
          /\ \A d \in Collectors : state'[d] = "free" => state[d] = "free" \/ garbage'[d] = {}
          /\ pc'[t] \in {"drop", "free"} =>
                \A u \in Threads : Registered(u) => garbage[t] \cap held[u] = {}
      BY <3>1 DEF Taken
    <3>4. {} \in SUBSET (dropping[t] \cap Collectors) /\ t \in Collectors \cup Threads
          /\ garbage[t] \in SUBSET garbage[t]
      OBVIOUS
    <3>5. Moves(t, t, garbage[t], {})
      BY ONLY <3>2, <3>3, <3>4 DEF Moves
    <3>6. QED
      BY ONLY GarbageInv, t \in Threads, <1>2, <3>5, Moving
  <2>29. ASSUME NEW t \in Threads, Ended(t)
        PROVE  GarbageInv'
    <3>1. UNCHANGED <<garbage, dropping, life>>
      BY <2>29 DEF Ended, At, Dropped, Goto, chain, objects
    <3>2. \A u \in Threads : held'[u] = held[u] \/ held'[u] = {}
      BY <1>1, <2>29 DEF Ended, At, Dropped, Goto, chain, objects, TypeOK
    <3>3. \A c \in Collectors : state'[c] = "free" => state[c] = "free"
      BY <1>1, <2>29 DEF Ended, At, Dropped, Goto, chain, objects, TypeOK
    <3>4. \A u \in Threads : Exiting(u) /\ garbage[u] # {} => Exiting(u)'
      BY <1>1, <2>29 DEF Ended, At, Dropped, Goto, chain, objects, Registered,
         Exiting, TypeOK, ControlInv, LocalAgrees, GuardAgrees
    <3>5. \A u \in Threads : Registered(u)' => Registered(u) \/ held'[u] = {}
      BY <1>1, <1>3, <2>29 DEF Ended, At, Dropped, Goto, chain, objects,
         Registered, Exiting, TypeOK, ControlInv, LocalAgrees, GuardAgrees
    <3>6. \A v \in Threads : pc'[v] \in {"drop", "free"} => pc'[v] = pc[v]
      BY <1>1, <2>29 DEF Ended, At, Dropped, Goto, chain, objects, TypeOK
    <3>7. \A v \in Threads : pc'[v] = "free" => ptr'[v] = ptr[v]
      BY <1>1, <2>29 DEF Ended, At, Dropped, Goto, chain, objects, TypeOK
    <3>8. next_link' = next_link
      BY <2>29 DEF Ended, At, Dropped, Goto, chain, objects
    <3>9. \A v \in Threads : pc'[v] = "free" => Taken(v)' \subseteq Taken(v)
      BY <3>7, <3>8 DEF Taken
    <3>10. QED
      BY <3>1, <3>2, <3>3, <3>4, <3>5, <3>6, <3>9, GarbageFrame
  <2>30. QED
    BY <1>5, NextCases, <2>1, <2>2, <2>3, <2>4, <2>5, <2>6, <2>7, <2>8, <2>9, <2>10,
       <2>11, <2>12, <2>13, <2>14, <2>15, <2>16, <2>17, <2>18, <2>19, <2>20, <2>21,
       <2>22, <2>23, <2>24, <2>25, <2>26, <2>27, <2>28, <2>29
<1>6. QED
  BY <1>4, <1>5

(* What is retired lives again by being dropped, and in no other way.      *)
LEMMA LivesAgain ==
    ASSUME TypeOK, Next, NEW o \in Objects, life[o] = "retired", life'[o] = "live"
    PROVE  \E t \in Threads : DropObject(t, o)
<1> USE ThreadExitAssumption
<1>1. ASSUME NEW t \in Threads,
              Alloc(t) \/ PushCollector(t) \/ PushFails(t) \/ OpenGuard(t) \/ OpenGuardInNewEpoch(t)
      PROVE  life' = life
  BY <1>1 DEF Alloc, PushCollector, PushFails, OpenGuard, OpenGuardInNewEpoch,
     GuardEnds, objects
<1>2. ASSUME NEW t \in Threads,
              (\E c \in Collectors : DropCollector(t, c)) \/ FinishDrop(t) \/ EndGuard(t) \/ StartScan(t)
      PROVE  life' = life
  BY <1>2 DEF DropCollector, FinishDrop, EndGuard, StartScan, GuardEnds, objects
<1>3. ASSUME NEW t \in Threads,
              ScanPass(t) \/ ScanUnlink(t) \/ ScanStop(t) \/ ScanEnds(t) \/ UnlockChain(t)
      PROVE  life' = life
  BY <1>3 DEF ScanPass, ScanUnlink, ScanStop, ScanEnds, UnlockChain, GuardEnds, objects
<1>4. ASSUME NEW t \in Threads,
              Suspend(t) \/ MarkScanEnforced(t) \/ Exit(t) \/ LockForClear(t) \/ LockFails(t)
      PROVE  life' = life
  BY <1>4 DEF Suspend, MarkScanEnforced, Exit, LockForClear, LockFails, GuardEnds, objects
<1>5. ASSUME NEW t \in Threads,
              CheckInvalid(t) \/ FindValid(t) \/ TakeChain(t) \/ TakeFails(t)
      PROVE  life' = life
  BY <1>5 DEF CheckInvalid, FindValid, TakeChain, TakeFails, GuardEnds, objects
<1>6. ASSUME NEW t \in Threads,
              FreeCollector(t) \/ ChainFreed(t) \/ ClearTemporary(t) \/ Ended(t)
      PROVE  life' = life
  BY <1>6 DEF FreeCollector, ChainFreed, ClearTemporary, Ended, GuardEnds, objects
<1>7. ASSUME NEW t \in Threads, NEW p \in Objects, Retire(t, p)
      PROVE  life'[o] # "live"
  BY <1>7 DEF Retire, TypeOK
<1>8. ASSUME NEW t \in Threads, NEW p \in Objects, DropObject(t, p)
      PROVE  p = o
  <2>1. PICK new \in SUBSET Objects : DropRetires(t, p, new)
    BY <1>8, DropObjectSteps
  <2>2. QED
    BY <2>1 DEF DropRetires
<1>9. QED
  BY NextCases, <1>1, <1>2, <1>3, <1>4, <1>5, <1>6, <1>7, <1>8

(* The three layers hold in every state of the model: what a thread does   *)
(* agrees with what it owns and with the lock of the chain; the chain, the *)
(* Collectors that are pushed and those that are taken out of it are never *)
(* mixed up; and what is in the lists is held by no guard in the chain     *)
(* when it is dropped (collector.rs:134-219 and 429-466).                  *)
THEOREM Invariant == Spec => []IInv
<1>1. Init => IInv
  BY ControlInit, ChainInit, GarbageInit DEF IInv
<1>2. IInv /\ [Next]_vars => IInv'
  BY ControlStep, ChainStep, GarbageStep DEF IInv
<1>3. QED
  BY <1>1, <1>2, PTL DEF Spec

(* Neither a scan, nor the end of a thread, nor a push comes to a          *)
(* Collector that was freed, however they interleave, and no thread with a *)
(* Collector is out of the sight of the scans (clear_chain,                *)
(* collector.rs:429-466, against alloc and scan).                          *)
THEOREM ChainStaysSound == Spec => []ChainSound
<1>1. IInv => ChainSound
  <2> SUFFICES ASSUME IInv PROVE ChainSound
    OBVIOUS
  <2>1. \A c \in InChain : state[c] # "free"
    BY DEF IInv, ChainInv, ChainOK
  <2>2. ASSUME NEW t \in Threads, pc[t] \in {"scan", "check", "free"},
               NEW c \in {ptr[t], prev[t]} \ {Null}, state[c] = "free"
        PROVE  At(t, "free") /\ c = prev[t]
    <3>1. CASE pc[t] \in {"scan", "check"}
      BY <2>1, <2>2, <3>1 DEF IInv, ChainInv, ScanOK, CheckOK
    <3>2. CASE pc[t] = "free"
      <4>1. c = ptr[t] => c \in Taken(t)
        BY <2>2, ChainClosed DEF IInv, ControlInv
      <4>2. c # ptr[t]
        BY <2>2, <3>2, <4>1 DEF IInv, ChainInv, FreeOK
      <4>3. QED
        BY <2>2, <3>2, <4>2 DEF At
    <3>3. QED
      BY <2>2, <3>1, <3>2
  <2>3. \A t \in Threads : Registered(t) => state[local[t]] = "valid" /\ local[t] \in InChain
    BY DEF IInv, ChainInv, RegisteredOK
  <2>4. QED
    BY <2>1, <2>2, <2>3 DEF ChainSound
<1>2. QED
  BY <1>1, Invariant, PTL

(* Whatever is retired is in exactly one list of a Collector in use, or in *)
(* the hands of one thread: threads that end, in whatever order, lose and  *)
(* duplicate none of it (collector.rs:394-466).                            *)
THEOREM GarbageIsKept == Spec => []GarbageKept
<1>1. IInv => GarbageKept
  <2> SUFFICES ASSUME IInv, NEW o \in Objects
               PROVE  /\ life[o] = "retired" <=>
                            \E x \in Collectors \cup Threads :
                                o \in garbage[x] \/ (x \in Threads /\ o \in dropping[x])
                      /\ \A x, y \in Places(o) : x = y
                      /\ \A t, u \in Threads : o \in dropping[t] \cap dropping[u] => t = u
                      /\ \A x \in Places(o) :
                            /\ x \in Collectors => state[x] # "free"
                            /\ x \in Threads => Exiting(x)
                            /\ \A t \in Threads : o \notin dropping[t]
    BY DEF GarbageKept
  <2>1. Listed /\ RetiredOK
    BY DEF IInv, GarbageInv
  <2>2. life[o] = "retired" <=>
            \E x \in Collectors \cup Threads :
                o \in garbage[x] \/ (x \in Threads /\ o \in dropping[x])
    BY <2>1 DEF RetiredOK, Discarded
  <2>3. \A x, y \in Places(o) : x = y
    BY <2>1 DEF Listed, Places
  <2>4. \A t, u \in Threads : o \in dropping[t] \cap dropping[u] => t = u
    BY <2>1 DEF Listed
  <2>5. ASSUME NEW x \in Places(o)
        PROVE  /\ x \in Collectors => state[x] # "free"
               /\ x \in Threads => Exiting(x)
               /\ \A t \in Threads : o \notin dropping[t]
    BY <2>1 DEF Listed, RetiredOK, Places
  <2>6. QED
    BY <2>2, <2>3, <2>4, <2>5
<1>2. QED
  BY <1>1, Invariant, PTL

(* Though the chain is freed at once, without waiting for epochs, nothing  *)
(* in it is dropped under a guard of a thread with a Collector             *)
(* (collector.rs:442-443).                                                 *)
THEOREM ClearsNothingGuarded == Spec => ClearsUnderNoGuard
<1>1. ASSUME IInv, [Next]_vars, NEW o \in Objects, NEW t \in Threads, NEW u \in Threads,
             o \in dropping[t], life'[o] = "live", o \in held[u]
      PROVE  At(t, "temp") \/ Exiting(u)
  <2>1. TypeOK /\ ControlInv /\ Listed /\ RetiredOK /\ Unheld
    BY <1>1 DEF IInv, ControlInv, GarbageInv
  <2>2. life[o] = "retired"
    BY <1>1, <2>1 DEF RetiredOK, Discarded
  <2>3. Next
    BY <1>1, <2>2 DEF vars, objects
  <2>4. PICK v \in Threads : DropObject(v, o)
    BY <1>1, <2>1, <2>2, <2>3, LivesAgain
  <2>5. v = t /\ pc[t] \in {"drop", "free", "temp"}
    BY <1>1, <2>1, <2>4 DEF DropObject, Drops, At, Listed
  <2>6. Registered(u) \/ Exiting(u)
    BY <1>1, <2>1 DEF ControlInv, GuardAgrees, LocalAgrees
  <2>7. QED
    BY <1>1, <2>1, <2>5, <2>6 DEF Unheld, At
<1>2. IInv /\ [Next]_vars =>
         [\A o \in Objects, t, u \in Threads :
             o \in dropping[t] /\ life'[o] = "live" /\ o \in held[u] =>
                 At(t, "temp") \/ Exiting(u)]_vars
  BY <1>1
<1>3. QED
  BY <1>2, Invariant, PTL DEF Spec, ClearsUnderNoGuard

=============================================================================
