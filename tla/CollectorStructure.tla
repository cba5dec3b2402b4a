------------------------- MODULE CollectorStructure -------------------------
(***************************************************************************)
(* What the reclaimer keeps without any assumption on scheduling, for every*)
(* value of the constants: the rotation of the epoch, and layers 1 and 2   *)
(* of the invariants.                                                      *)
(***************************************************************************)
EXTENDS CollectorInvariants, TLAPS

(***************************************************************************)
(* Layer 0: arithmetic of the rotating epoch, for every NUM_EPOCHS.        *)
(***************************************************************************)
(* Remainders of what an epoch and a step in either direction add up to.   *)
LEMMA RotateOnce ==
    ASSUME NEW n \in Nat, n < 2 * NUM_EPOCHS
    PROVE  n % NUM_EPOCHS = IF n < NUM_EPOCHS THEN n ELSE n - NUM_EPOCHS
  BY EpochAssumption

(* The successor of an epoch, without the remainder.                       *)
LEMMA NextEpochValue ==
    ASSUME NEW e \in Epochs
    PROVE  NextEpoch(e) = IF e = NUM_EPOCHS - 1 THEN 0 ELSE e + 1
  BY EpochAssumption, RotateOnce DEF NextEpoch, Epochs

(* The predecessor of an epoch, without the remainder.                     *)
LEMMA PrevEpochValue ==
    ASSUME NEW e \in Epochs
    PROVE  PrevEpoch(e) = IF e = 0 THEN NUM_EPOCHS - 1 ELSE e - 1
<1>1. e + NUM_EPOCHS - 1 \in Nat /\ e + NUM_EPOCHS - 1 < 2 * NUM_EPOCHS
  BY EpochAssumption DEF Epochs
<1>2. QED
  BY <1>1, EpochAssumption, RotateOnce DEF PrevEpoch, Epochs

(* What the reclaimer needs of the rotation: an epoch has a successor, not *)
(* itself, which is the successor of no other epoch (epoch.rs:79-83).      *)
THEOREM EpochSuccession ==
    /\ \A e \in Epochs : NextEpoch(e) \in Epochs /\ NextEpoch(e) # e
    /\ \A e, f \in Epochs : NextEpoch(e) = NextEpoch(f) => e = f
  BY EpochAssumption, NextEpochValue DEF Epochs

(* next and prev undo each other (epoch.rs:79-106), also at the wrap.      *)
THEOREM EpochInverse ==
    \A e \in Epochs : /\ PrevEpoch(NextEpoch(e)) = e
                      /\ NextEpoch(PrevEpoch(e)) = e
  BY EpochAssumption, NextEpochValue, PrevEpochValue DEF Epochs

(* TryFrom<u8> accepts exactly the values that are epochs, and what it      *)
(* reports for any other value is one (epoch.rs:125-134).                  *)
THEOREM TryFromReduces ==
    \A u8 \in Nat : /\ TryFrom(u8).epoch \in Epochs
                    /\ TryFrom(u8).ok <=> TryFrom(u8).epoch = u8
<1> SUFFICES ASSUME NEW u8 \in Nat
             PROVE  /\ u8 % NUM_EPOCHS \in Epochs
                    /\ u8 < NUM_EPOCHS <=> u8 % NUM_EPOCHS = u8
  BY DEF TryFrom
<1>1. u8 % NUM_EPOCHS \in Epochs
  BY EpochAssumption DEF Epochs
<1>2. u8 < NUM_EPOCHS => u8 % NUM_EPOCHS = u8
  BY EpochAssumption, RotateOnce
<1>3. QED
  BY <1>1, <1>2, EpochAssumption DEF Epochs

(* in_same_generation tells an epoch and the two after it from the next    *)
(* generation, so long as an epoch has four values (epoch.rs:30-60).       *)
THEOREM GenerationBoundary ==
    \A e \in Epochs :
        /\ InSameGeneration(e, e)
        /\ InSameGeneration(e, NextEpoch(e))
        /\ InSameGeneration(e, NextEpoch(NextEpoch(e)))
        /\ ~InSameGeneration(e, NextGeneration(e))
<1> SUFFICES ASSUME NEW e \in Epochs
             PROVE  /\ InSameGeneration(e, e)
                    /\ InSameGeneration(e, NextEpoch(e))
                    /\ InSameGeneration(e, NextEpoch(NextEpoch(e)))
                    /\ ~InSameGeneration(e, NextGeneration(e))
  OBVIOUS
<1> DEFINE e1 == NextEpoch(e)
           e2 == NextEpoch(e1)
           e3 == NextEpoch(e2)
<1>1. e1 \in Epochs /\ e2 \in Epochs
  BY EpochSuccession
<1>2. /\ e1 = IF e = NUM_EPOCHS - 1 THEN 0 ELSE e + 1
      /\ e2 = IF e1 = NUM_EPOCHS - 1 THEN 0 ELSE e1 + 1
      /\ e3 = IF e2 = NUM_EPOCHS - 1 THEN 0 ELSE e2 + 1
  BY <1>1, NextEpochValue
<1> HIDE DEF e1, e2, e3
<1>3. e3 # e /\ e3 # e1 /\ e3 # e2
  BY <1>1, <1>2, EpochAssumption DEF Epochs
<1>4. QED
  BY <1>3 DEF InSameGeneration, NextGeneration, e1, e2, e3

(***************************************************************************)
(* Layer 1: what a thread is doing and its Collector agree.                *)
(***************************************************************************)

(* The marks of a state byte are no epochs, and differ.                    *)
LEMMA StateValues ==
    /\ INACTIVE \notin Epochs
    /\ INVALID \notin Epochs
    /\ INACTIVE # INVALID
  BY EpochAssumption DEF INACTIVE, INVALID, Epochs

(* Initially no thread has a Collector.                                    *)
LEMMA ControlInit == Init => ControlInv
<1> SUFFICES ASSUME Init PROVE ControlInv
  OBVIOUS
<1> USE DEF Init
<1>1. TypeOK
  BY EpochAssumption, CollectorAssumption
  DEF TypeOK, Epochs, NoGarbage, Locations, Lists
<1>2. \A t \in Threads : LocalAgrees(t)
  BY DEF LocalAgrees
<1>3. ThreadsRegistered /\ ScanExclusive /\ todo \subseteq chain
  BY DEF ThreadsRegistered, ScanExclusive
<1>4. QED
  BY <1>1, <1>2, <1>3 DEF ControlInv

(* The steps a thread t can take, as a case distinction.                   *)
LEMMA NextCases ==
    ASSUME Next
    PROVE  \E t \in Threads :
               \/ \E c \in Collectors : Alloc(t, c)
               \/ LoadEpoch(t)
               \/ Pin(t)
               \/ NestGuard(t)
               \/ \E o \in Objects : DropObject(t, o)
               \/ \E d \in Collectors : DropCollector(t, d)
               \/ FinishDrop(t)
               \/ \E o \in Objects : DropPanics(t, o)
               \/ \E o \in Objects : Retire(t, o)
               \/ Accelerate(t)
               \/ SetHasGarbage(t)
               \/ EndNestedGuard(t)
               \/ EndGuard(t)
               \/ SkipScan(t)
               \/ StartScan(t)
               \/ Unpin(t)
               \/ \E d \in Collectors : ScanPass(t, d)
               \/ \E d \in Collectors : ScanUnlink(t, d)
               \/ \E d \in Collectors : ScanStop(t, d)
               \/ Advance(t)
               \/ UnlockChain(t)
               \/ Suspend(t)
               \/ MarkScanEnforced(t)
  BY CollectorAssumption, Zenon DEF Next, OpenGuard, DropStep, CloseGuard, ScanStep

(* What rotation does to each list of each collector.                     *)
LEMMA PinLists ==
    ASSUME TypeOK, NEW t \in Threads, local[t] \in Collectors, Pin(t),
           announcement[local[t]] # loaded[t] /\ has_garbage[local[t]]
    PROVE  garbage' = [x \in Collectors |-> [l \in Lists |->
               IF x = local[t]
               THEN IF l = "previous" THEN garbage[x]["current"]
                    ELSE IF l = "next"     THEN garbage[x]["previous"]
                    ELSE IF l = "dropping" THEN garbage[x]["next"]
                    ELSE {}
               ELSE garbage[x][l]]]
<1>1. garbage' = [garbage EXCEPT ![local[t]] = Rotated(garbage[local[t]])]
  BY DEF Pin
<1>2. Rotated(garbage[local[t]]) = [l \in Lists |->
          IF l = "previous" THEN garbage[local[t]]["current"]
          ELSE IF l = "next"     THEN garbage[local[t]]["previous"]
          ELSE IF l = "dropping" THEN garbage[local[t]]["next"]
          ELSE {}]
  BY DEF Rotated, Lists
<1>3. garbage' = [x \in Collectors |->
          IF x = local[t] THEN Rotated(garbage[local[t]])
          ELSE [l \in Lists |-> garbage[x][l]]]
  BY <1>1 DEF TypeOK
<1>4. QED
  BY <1>2, <1>3, Zenon

(* What dropping an object takes out of the lists.                         *)
LEMMA DropObjectLists ==
    ASSUME TypeOK, NEW t \in Threads, local[t] \in Collectors,
           NEW o, DropObject(t, o)
    PROVE  garbage' = [x \in Collectors |-> [l \in Lists |->
               IF x = local[t] /\ l \in {"dropping", "clearing"}
               THEN garbage[x][l] \ {o} ELSE garbage[x][l]]]
  BY DEF DropObject, TypeOK, Lists

(* What dropping a Collector moves from its lists to the list to drop.     *)
LEMMA DropCollectorLists ==
    ASSUME TypeOK, NEW t \in Threads, local[t] \in Collectors,
           NEW d \in Collectors, DropCollector(t, d), d # local[t]
    PROVE  garbage' = [x \in Collectors |-> [l \in Lists |->
               IF x = d THEN {}
               ELSE IF x = local[t] /\ l = "dropping" THEN garbage[x][l] \ {d}
               ELSE IF x = local[t] /\ l = "clearing"
                    THEN (garbage[x][l] \ {d}) \cup garbage[d]["previous"]
                            \cup garbage[d]["current"] \cup garbage[d]["next"]
               ELSE garbage[x][l]]]
  BY DEF DropCollector, TypeOK, NoGarbage, Lists

(* What is left in the lists when a Drop panics.                           *)
LEMMA DropPanicsLists ==
    ASSUME TypeOK, NEW t \in Threads, local[t] \in Collectors,
           NEW o, DropPanics(t, o)
    PROVE  garbage' = [x \in Collectors |-> [l \in Lists |->
               IF x # local[t] \/ l \in {"previous", "next"} THEN garbage[x][l]
               ELSE IF l = "current"
                    THEN garbage[x][l] \cup (garbage[x]["dropping"] \ {o})
               ELSE {}]]
  BY DEF DropPanics, TypeOK, Lists

(* collect() of an object, and of an unlinked Collector.                   *)
LEMMA RetireLists ==
    ASSUME TypeOK, NEW t \in Threads, local[t] \in Collectors,
           NEW o \in Objects, Retire(t, o)
    PROVE  garbage' = [x \in Collectors |-> [l \in Lists |->
               IF x = local[t] /\ l = "current"
               THEN garbage[x][l] \cup {o} ELSE garbage[x][l]]]
<1>1. garbage' = [garbage EXCEPT ![local[t]].current = @ \cup {o}]
  BY DEF Retire, Collect
<1>2. QED
  BY <1>1 DEF TypeOK, Lists

(* A scan puts a Collector it has unlinked in the current list.            *)
LEMMA UnlinkLists ==
    ASSUME TypeOK, NEW t \in Threads, local[t] \in Collectors,
           NEW d \in Collectors, ScanUnlink(t, d)
    PROVE  garbage' = [x \in Collectors |-> [l \in Lists |->
               IF x = local[t] /\ l = "current"
               THEN garbage[x][l] \cup {d} ELSE garbage[x][l]]]
<1>1. garbage' = [garbage EXCEPT ![local[t]].current = @ \cup {d}]
  BY DEF ScanUnlink, Collect
<1>2. QED
  BY <1>1 DEF TypeOK, Lists

(* Layer 1 is kept by every step, given that what is garbage is not in     *)
(* the chain.                                                              *)
LEMMA ControlStep == ControlInv /\ GarbageInv /\ [Next]_vars => ControlInv'
<1> SUFFICES ASSUME ControlInv, GarbageInv, [Next]_vars PROVE ControlInv'
  OBVIOUS
<1> USE CollectorAssumption, EpochAssumption, EpochSuccession, StateValues
<1>1. CASE UNCHANGED vars
  BY <1>1 DEF ControlInv, TypeOK, LocalAgrees, Published, ThreadsRegistered, ScanExclusive, vars, shared, private, lists
<1>2. CASE Next
  <2>1. ASSUME NEW t \in Threads, NEW c \in Collectors, Alloc(t, c) PROVE ControlInv'
    <3>1. TypeOK'
      <4>1. (state \in [Collectors -> Epochs \cup {INACTIVE, INVALID}])'
        BY <2>1 DEF Alloc, ControlInv, TypeOK
      <4>2. (announcement \in [Collectors -> Epochs])'
        BY <2>1 DEF Alloc, ControlInv, TypeOK, Epochs
      <4>3. (next_epoch_update \in [Collectors -> 0 .. CADENCE])'
        BY <2>1 DEF Alloc, ControlInv, TypeOK
      <4>4. QED
        BY <2>1, <4>1, <4>2, <4>3 DEF Alloc, ControlInv, TypeOK
    <3>2. (\A u \in Threads : LocalAgrees(u))'
      BY <2>1 DEF Alloc, Goto, shared, private, lists, ControlInv, TypeOK, LocalAgrees, Published, ThreadsRegistered, InGuard
    <3>3. ThreadsRegistered'
      BY <2>1 DEF Alloc, Goto, shared, private, lists, ControlInv, TypeOK, LocalAgrees, ThreadsRegistered, InGuard
    <3>4. ScanExclusive'
      BY <2>1 DEF Alloc, Goto, shared, private, lists, ControlInv, TypeOK, ScanExclusive, InGuard
    <3>5. (todo \subseteq chain)'
      BY <2>1 DEF Alloc, Goto, shared, private, lists, ControlInv, InGuard
    <3>6. QED
      BY <3>1, <3>2, <3>3, <3>4, <3>5 DEF ControlInv
  <2>2. ASSUME NEW t \in Threads, LoadEpoch(t) PROVE ControlInv'
    <3>1. TypeOK'
      BY <2>2 DEF LoadEpoch, Goto, shared, private, lists, ControlInv, TypeOK, Locations, Lists, HeldBy, Items, InGuard
    <3>2. (\A u \in Threads : LocalAgrees(u))'
      BY <2>2 DEF LoadEpoch, Goto, shared, private, lists, ControlInv, TypeOK, LocalAgrees, Published, ThreadsRegistered, InGuard
    <3>3. ThreadsRegistered'
      BY <2>2 DEF LoadEpoch, Goto, shared, private, lists, ControlInv, TypeOK, LocalAgrees, ThreadsRegistered, InGuard
    <3>4. ScanExclusive'
      BY <2>2 DEF LoadEpoch, Goto, shared, private, lists, ControlInv, TypeOK, ScanExclusive, InGuard
    <3>5. (todo \subseteq chain)'
      BY <2>2 DEF LoadEpoch, Goto, shared, private, lists, ControlInv, InGuard
    <3>6. QED
      BY <3>1, <3>2, <3>3, <3>4, <3>5 DEF ControlInv
  <2>3. ASSUME NEW t \in Threads, Pin(t) PROVE ControlInv'
    <3>0. local[t] \in Collectors
      BY <2>3 DEF Pin, ControlInv, TypeOK, LocalAgrees
    <3>1. TypeOK'
      <4>1. (garbage \in [Collectors -> [Lists -> SUBSET Items]])'
        BY <3>0, <2>3 DEF Pin, ControlInv, TypeOK, Rotated, Lists
      <4>2. (has_garbage \in [Collectors -> BOOLEAN])'
        BY <3>0, <2>3 DEF Pin, ControlInv, TypeOK
      <4>3. (next_epoch_update \in [Collectors -> 0 .. CADENCE])'
        BY <3>0, <2>3 DEF Pin, ControlInv, TypeOK
      <4>4. QED
        BY <3>0, <2>3, <4>1, <4>2, <4>3 DEF Pin, Goto, shared, private, lists, ControlInv, TypeOK, Locations
    <3>2. (\A u \in Threads : LocalAgrees(u))'
      BY <2>3 DEF Pin, Rotated, Goto, shared, private, lists, ControlInv, TypeOK, LocalAgrees, Published, ThreadsRegistered, InGuard
    <3>3. ThreadsRegistered'
      BY <2>3 DEF Pin, Rotated, Goto, shared, private, lists, ControlInv, TypeOK, LocalAgrees, ThreadsRegistered, InGuard
    <3>4. ScanExclusive'
      BY <2>3 DEF Pin, Rotated, Goto, shared, private, lists, ControlInv, TypeOK, ScanExclusive, InGuard
    <3>5. (todo \subseteq chain)'
      BY <2>3 DEF Pin, Rotated, Goto, shared, private, lists, ControlInv, InGuard
    <3>6. QED
      BY <3>1, <3>2, <3>3, <3>4, <3>5 DEF ControlInv
  <2>4. ASSUME NEW t \in Threads, NestGuard(t) PROVE ControlInv'
    <3>1. TypeOK'
      BY <2>4 DEF NestGuard, Goto, shared, private, lists, ControlInv, TypeOK, Locations, Lists, HeldBy, Items, InGuard
    <3>2. (\A u \in Threads : LocalAgrees(u))'
      BY <2>4 DEF NestGuard, Goto, shared, private, lists, ControlInv, TypeOK, LocalAgrees, Published, ThreadsRegistered, InGuard
    <3>3. ThreadsRegistered'
      BY <2>4 DEF NestGuard, Goto, shared, private, lists, ControlInv, TypeOK, LocalAgrees, ThreadsRegistered, InGuard
    <3>4. ScanExclusive'
      BY <2>4 DEF NestGuard, Goto, shared, private, lists, ControlInv, TypeOK, ScanExclusive, InGuard
    <3>5. (todo \subseteq chain)'
      BY <2>4 DEF NestGuard, Goto, shared, private, lists, ControlInv, InGuard
    <3>6. QED
      BY <3>1, <3>2, <3>3, <3>4, <3>5 DEF ControlInv
  <2>5. ASSUME NEW t \in Threads, NEW o \in Objects, DropObject(t, o) PROVE ControlInv'
    <3>0. local[t] \in Collectors
      BY <2>5 DEF DropObject, ControlInv, TypeOK, LocalAgrees
    <3>1. TypeOK'
      <4>1. (garbage \in [Collectors -> [Lists -> SUBSET Items]])'
        BY <3>0, <2>5, DropObjectLists DEF ControlInv, TypeOK, Lists
      <4>2. (life \in [Items -> {"live", "retired"}])'
        BY <3>0, <2>5 DEF DropObject, ControlInv, TypeOK, Items
      <4>3. QED
        BY <3>0, <2>5, <4>1, <4>2 DEF DropObject, Goto, shared, private, lists, ControlInv, TypeOK, Locations
    <3>2. (\A u \in Threads : LocalAgrees(u))'
      BY <2>5 DEF DropObject, Goto, shared, private, lists, ControlInv, TypeOK, LocalAgrees, Published, ThreadsRegistered, InGuard
    <3>3. ThreadsRegistered'
      BY <2>5 DEF DropObject, Goto, shared, private, lists, ControlInv, TypeOK, LocalAgrees, ThreadsRegistered, InGuard
    <3>4. ScanExclusive'
      BY <2>5 DEF DropObject, Goto, shared, private, lists, ControlInv, TypeOK, ScanExclusive, InGuard
    <3>5. (todo \subseteq chain)'
      BY <2>5 DEF DropObject, Goto, shared, private, lists, ControlInv, InGuard
    <3>6. QED
      BY <3>1, <3>2, <3>3, <3>4, <3>5 DEF ControlInv
  <2>6. ASSUME NEW t \in Threads, NEW d \in Collectors, DropCollector(t, d) PROVE ControlInv'
    <3>0. local[t] \in Collectors
      BY <2>6 DEF DropCollector, ControlInv, TypeOK, LocalAgrees
    <3>01. d \notin chain
      BY <3>0, <2>6 DEF DropCollector, BeingDropped, ControlInv, TypeOK, GarbageInv, GarbageConserved, ChainLive, ListedIn, Lists, Items
    <3>02. \A u \in Threads : d # local[u]
      BY <3>01, CollectorAssumption DEF ControlInv, ThreadsRegistered
    <3>1. TypeOK'
      <4>1. (garbage \in [Collectors -> [Lists -> SUBSET Items]])'
        <5>1. TypeOK /\ d # local[t]
          BY <2>6, <3>02 DEF ControlInv
        <5>2. \A l \in Lists : garbage[local[t]][l] \subseteq Items /\ garbage[d][l] \subseteq Items
          BY <2>6, <3>0, <5>1 DEF TypeOK
        <5>3. garbage[d]["previous"] \cup garbage[d]["current"] \cup garbage[d]["next"] \subseteq Items
          BY <5>2 DEF Lists
        <5>4. QED
          BY <3>0, <2>6, <5>1, <5>2, <5>3, DropCollectorLists DEF TypeOK
      <4>2. (life \in [Items -> {"live", "retired"}])'
        BY <3>0, <2>6 DEF DropCollector, ControlInv, TypeOK, Items
      <4>3. (announcement \in [Collectors -> Epochs])'
        BY <3>0, <2>6 DEF DropCollector, ControlInv, TypeOK, Epochs
      <4>4. (next_epoch_update \in [Collectors -> 0 .. CADENCE])'
        BY <3>0, <2>6 DEF DropCollector, ControlInv, TypeOK
      <4>5. (has_garbage \in [Collectors -> BOOLEAN])'
        BY <3>0, <2>6 DEF DropCollector, ControlInv, TypeOK
      <4>6. QED
        BY <3>0, <2>6, <4>1, <4>2, <4>3, <4>4, <4>5 DEF DropCollector, Goto, shared, private, lists, ControlInv, TypeOK, Locations
    <3>2. (\A u \in Threads : LocalAgrees(u))'
      BY <3>02, <2>6 DEF DropCollector, Goto, shared, private, lists, ControlInv, TypeOK, LocalAgrees, Published, ThreadsRegistered, InGuard
    <3>3. ThreadsRegistered'
      BY <2>6 DEF DropCollector, NoGarbage, Goto, shared, private, lists, ControlInv, TypeOK, LocalAgrees, ThreadsRegistered, InGuard
    <3>4. ScanExclusive'
      BY <2>6 DEF DropCollector, NoGarbage, Goto, shared, private, lists, ControlInv, TypeOK, ScanExclusive, InGuard
    <3>5. (todo \subseteq chain)'
      BY <2>6 DEF DropCollector, NoGarbage, Goto, shared, private, lists, ControlInv, InGuard
    <3>6. QED
      BY <3>1, <3>2, <3>3, <3>4, <3>5 DEF ControlInv
  <2>7. ASSUME NEW t \in Threads, FinishDrop(t) PROVE ControlInv'
    <3>0. local[t] \in Collectors
      BY <2>7 DEF FinishDrop, ControlInv, TypeOK, LocalAgrees
    <3>1. TypeOK'
      <4>1. (next_epoch_update \in [Collectors -> 0 .. CADENCE])'
        BY <3>0, <2>7 DEF FinishDrop, ControlInv, TypeOK
      <4>2. QED
        BY <3>0, <2>7, <4>1 DEF FinishDrop, Goto, shared, private, lists, ControlInv, TypeOK, Locations
    <3>2. (\A u \in Threads : LocalAgrees(u))'
      BY <2>7 DEF FinishDrop, Goto, shared, private, lists, ControlInv, TypeOK, LocalAgrees, Published, ThreadsRegistered, InGuard
    <3>3. ThreadsRegistered'
      BY <2>7 DEF FinishDrop, Goto, shared, private, lists, ControlInv, TypeOK, LocalAgrees, ThreadsRegistered, InGuard
    <3>4. ScanExclusive'
      BY <2>7 DEF FinishDrop, Goto, shared, private, lists, ControlInv, TypeOK, ScanExclusive, InGuard
    <3>5. (todo \subseteq chain)'
      BY <2>7 DEF FinishDrop, Goto, shared, private, lists, ControlInv, InGuard
    <3>6. QED
      BY <3>1, <3>2, <3>3, <3>4, <3>5 DEF ControlInv
  <2>8. ASSUME NEW t \in Threads, NEW o \in Objects, DropPanics(t, o) PROVE ControlInv'
    <3>0. local[t] \in Collectors
      BY <2>8 DEF DropPanics, ControlInv, TypeOK, LocalAgrees
    <3>1. TypeOK'
      <4>1. (garbage \in [Collectors -> [Lists -> SUBSET Items]])'
        BY <3>0, <2>8, DropPanicsLists DEF ControlInv, TypeOK, Lists
      <4>2. (leaked \subseteq Items)'
        BY <3>0, <2>8 DEF DropPanics, ControlInv, TypeOK, Lists
      <4>3. (life \in [Items -> {"live", "retired"}])'
        BY <3>0, <2>8 DEF DropPanics, ControlInv, TypeOK, Items
      <4>4. (has_garbage \in [Collectors -> BOOLEAN])'
        BY <3>0, <2>8 DEF DropPanics, ControlInv, TypeOK
      <4>5. QED
        BY <3>0, <2>8, <4>1, <4>2, <4>3, <4>4 DEF DropPanics, Goto, shared, private, lists, ControlInv, TypeOK, Locations
    <3>2. (\A u \in Threads : LocalAgrees(u))'
      BY <2>8 DEF DropPanics, Goto, shared, private, lists, ControlInv, TypeOK, LocalAgrees, Published, ThreadsRegistered, InGuard
    <3>3. ThreadsRegistered'
      BY <2>8 DEF DropPanics, Goto, shared, private, lists, ControlInv, TypeOK, LocalAgrees, ThreadsRegistered, InGuard
    <3>4. ScanExclusive'
      BY <2>8 DEF DropPanics, Goto, shared, private, lists, ControlInv, TypeOK, ScanExclusive, InGuard
    <3>5. (todo \subseteq chain)'
      BY <2>8 DEF DropPanics, Goto, shared, private, lists, ControlInv, InGuard
    <3>6. QED
      BY <3>1, <3>2, <3>3, <3>4, <3>5 DEF ControlInv
  <2>9. ASSUME NEW t \in Threads, NEW o \in Objects, Retire(t, o) PROVE ControlInv'
    <3>0. local[t] \in Collectors
      BY <2>9 DEF Retire, Collect, ControlInv, TypeOK, LocalAgrees
    <3>1. TypeOK'
      <4>1. (garbage \in [Collectors -> [Lists -> SUBSET Items]])'
        <5>1. TypeOK /\ o \in Items
          BY <2>9 DEF ControlInv, Items
        <5>2. QED
          BY <3>0, <2>9, <5>1, RetireLists DEF TypeOK
      <4>2. (held \in [Threads -> SUBSET Items])'
        BY <3>0, <2>9 DEF Retire, Collect, ControlInv, TypeOK, HeldBy, Items
      <4>3. (life \in [Items -> {"live", "retired"}])'
        BY <3>0, <2>9 DEF Retire, Collect, ControlInv, TypeOK, Items
      <4>4. QED
        BY <3>0, <2>9, <4>1, <4>2, <4>3 DEF Retire, Collect, Goto, shared, private, lists, ControlInv, TypeOK, Locations
    <3>2. (\A u \in Threads : LocalAgrees(u))'
      BY <2>9 DEF Retire, Collect, Goto, shared, private, lists, ControlInv, TypeOK, LocalAgrees, Published, ThreadsRegistered, InGuard
    <3>3. ThreadsRegistered'
      BY <2>9 DEF Retire, Collect, Goto, shared, private, lists, ControlInv, TypeOK, LocalAgrees, ThreadsRegistered, InGuard
    <3>4. ScanExclusive'
      BY <2>9 DEF Retire, Collect, Goto, shared, private, lists, ControlInv, TypeOK, ScanExclusive, InGuard
    <3>5. (todo \subseteq chain)'
      BY <2>9 DEF Retire, Collect, Goto, shared, private, lists, ControlInv, InGuard
    <3>6. QED
      BY <3>1, <3>2, <3>3, <3>4, <3>5 DEF ControlInv
  <2>10. ASSUME NEW t \in Threads, Accelerate(t) PROVE ControlInv'
    <3>1. TypeOK'
      BY <2>10 DEF Accelerate, Goto, shared, private, lists, ControlInv, TypeOK, Locations, Lists, HeldBy, Items, InGuard
    <3>2. (\A u \in Threads : LocalAgrees(u))'
      BY <2>10 DEF Accelerate, Goto, shared, private, lists, ControlInv, TypeOK, LocalAgrees, Published, ThreadsRegistered, InGuard
    <3>3. ThreadsRegistered'
      BY <2>10 DEF Accelerate, Goto, shared, private, lists, ControlInv, TypeOK, LocalAgrees, ThreadsRegistered, InGuard
    <3>4. ScanExclusive'
      BY <2>10 DEF Accelerate, Goto, shared, private, lists, ControlInv, TypeOK, ScanExclusive, InGuard
    <3>5. (todo \subseteq chain)'
      BY <2>10 DEF Accelerate, Goto, shared, private, lists, ControlInv, InGuard
    <3>6. QED
      BY <3>1, <3>2, <3>3, <3>4, <3>5 DEF ControlInv
  <2>11. ASSUME NEW t \in Threads, SetHasGarbage(t) PROVE ControlInv'
    <3>1. TypeOK'
      BY <2>11 DEF SetHasGarbage, Goto, shared, private, lists, ControlInv, TypeOK, Locations, Lists, HeldBy, Items, InGuard
    <3>2. (\A u \in Threads : LocalAgrees(u))'
      BY <2>11 DEF SetHasGarbage, Goto, shared, private, lists, ControlInv, TypeOK, LocalAgrees, Published, ThreadsRegistered, InGuard
    <3>3. ThreadsRegistered'
      BY <2>11 DEF SetHasGarbage, Goto, shared, private, lists, ControlInv, TypeOK, LocalAgrees, ThreadsRegistered, InGuard
    <3>4. ScanExclusive'
      BY <2>11 DEF SetHasGarbage, Goto, shared, private, lists, ControlInv, TypeOK, ScanExclusive, InGuard
    <3>5. (todo \subseteq chain)'
      BY <2>11 DEF SetHasGarbage, Goto, shared, private, lists, ControlInv, InGuard
    <3>6. QED
      BY <3>1, <3>2, <3>3, <3>4, <3>5 DEF ControlInv
  <2>12. ASSUME NEW t \in Threads, EndNestedGuard(t) PROVE ControlInv'
    <3>1. TypeOK'
      BY <2>12 DEF EndNestedGuard, Goto, shared, private, lists, ControlInv, TypeOK, Locations, Lists, HeldBy, Items, InGuard
    <3>2. (\A u \in Threads : LocalAgrees(u))'
      BY <2>12 DEF EndNestedGuard, Goto, shared, private, lists, ControlInv, TypeOK, LocalAgrees, Published, ThreadsRegistered, InGuard
    <3>3. ThreadsRegistered'
      BY <2>12 DEF EndNestedGuard, Goto, shared, private, lists, ControlInv, TypeOK, LocalAgrees, ThreadsRegistered, InGuard
    <3>4. ScanExclusive'
      BY <2>12 DEF EndNestedGuard, Goto, shared, private, lists, ControlInv, TypeOK, ScanExclusive, InGuard
    <3>5. (todo \subseteq chain)'
      BY <2>12 DEF EndNestedGuard, Goto, shared, private, lists, ControlInv, InGuard
    <3>6. QED
      BY <3>1, <3>2, <3>3, <3>4, <3>5 DEF ControlInv
  <2>13. ASSUME NEW t \in Threads, EndGuard(t) PROVE ControlInv'
    <3>1. TypeOK'
      BY <2>13 DEF EndGuard, LastGuard, Goto, shared, private, lists, ControlInv, TypeOK, Locations, Lists, HeldBy, Items, InGuard
    <3>2. (\A u \in Threads : LocalAgrees(u))'
      BY <2>13 DEF EndGuard, LastGuard, Goto, shared, private, lists, ControlInv, TypeOK, LocalAgrees, Published, ThreadsRegistered, InGuard
    <3>3. ThreadsRegistered'
      BY <2>13 DEF EndGuard, LastGuard, Goto, shared, private, lists, ControlInv, TypeOK, LocalAgrees, ThreadsRegistered, InGuard
    <3>4. ScanExclusive'
      BY <2>13 DEF EndGuard, LastGuard, Goto, shared, private, lists, ControlInv, TypeOK, ScanExclusive, InGuard
    <3>5. (todo \subseteq chain)'
      BY <2>13 DEF EndGuard, LastGuard, Goto, shared, private, lists, ControlInv, InGuard
    <3>6. QED
      BY <3>1, <3>2, <3>3, <3>4, <3>5 DEF ControlInv
  <2>14. ASSUME NEW t \in Threads, SkipScan(t) PROVE ControlInv'
    <3>1. TypeOK'
      BY <2>14 DEF SkipScan, LastGuard, Goto, shared, private, lists, ControlInv, TypeOK, Locations, Lists, HeldBy, Items, InGuard
    <3>2. (\A u \in Threads : LocalAgrees(u))'
      BY <2>14 DEF SkipScan, LastGuard, Goto, shared, private, lists, ControlInv, TypeOK, LocalAgrees, Published, ThreadsRegistered, InGuard
    <3>3. ThreadsRegistered'
      BY <2>14 DEF SkipScan, LastGuard, Goto, shared, private, lists, ControlInv, TypeOK, LocalAgrees, ThreadsRegistered, InGuard
    <3>4. ScanExclusive'
      BY <2>14 DEF SkipScan, LastGuard, Goto, shared, private, lists, ControlInv, TypeOK, ScanExclusive, InGuard
    <3>5. (todo \subseteq chain)'
      BY <2>14 DEF SkipScan, LastGuard, Goto, shared, private, lists, ControlInv, InGuard
    <3>6. QED
      BY <3>1, <3>2, <3>3, <3>4, <3>5 DEF ControlInv
  <2>15. ASSUME NEW t \in Threads, StartScan(t) PROVE ControlInv'
    <3>1. TypeOK'
      BY <2>15 DEF StartScan, LastGuard, Goto, shared, private, lists, ControlInv, TypeOK, Locations, Lists, HeldBy, Items, InGuard
    <3>2. (\A u \in Threads : LocalAgrees(u))'
      BY <2>15 DEF StartScan, LastGuard, Goto, shared, private, lists, ControlInv, TypeOK, LocalAgrees, Published, ThreadsRegistered, InGuard
    <3>3. ThreadsRegistered'
      BY <2>15 DEF StartScan, LastGuard, Goto, shared, private, lists, ControlInv, TypeOK, LocalAgrees, ThreadsRegistered, InGuard
    <3>4. ScanExclusive'
      BY <2>15 DEF StartScan, LastGuard, Goto, shared, private, lists, ControlInv, TypeOK, ScanExclusive, InGuard
    <3>5. (todo \subseteq chain)'
      BY <2>15 DEF StartScan, LastGuard, Goto, shared, private, lists, ControlInv, InGuard
    <3>6. QED
      BY <3>1, <3>2, <3>3, <3>4, <3>5 DEF ControlInv
  <2>16. ASSUME NEW t \in Threads, Unpin(t) PROVE ControlInv'
    <3>1. TypeOK'
      BY <2>16 DEF Unpin, Goto, shared, private, lists, ControlInv, TypeOK, Locations, Lists, HeldBy, Items, InGuard
    <3>2. (\A u \in Threads : LocalAgrees(u))'
      BY <2>16 DEF Unpin, Goto, shared, private, lists, ControlInv, TypeOK, LocalAgrees, Published, ThreadsRegistered, InGuard
    <3>3. ThreadsRegistered'
      BY <2>16 DEF Unpin, Goto, shared, private, lists, ControlInv, TypeOK, LocalAgrees, ThreadsRegistered, InGuard
    <3>4. ScanExclusive'
      BY <2>16 DEF Unpin, Goto, shared, private, lists, ControlInv, TypeOK, ScanExclusive, InGuard
    <3>5. (todo \subseteq chain)'
      BY <2>16 DEF Unpin, Goto, shared, private, lists, ControlInv, InGuard
    <3>6. QED
      BY <3>1, <3>2, <3>3, <3>4, <3>5 DEF ControlInv
  <2>17. ASSUME NEW t \in Threads, NEW d \in Collectors, ScanPass(t, d) PROVE ControlInv'
    <3>1. TypeOK'
      BY <2>17 DEF ScanPass, Goto, shared, private, lists, ControlInv, TypeOK, Locations, Lists, HeldBy, Items, InGuard
    <3>2. (\A u \in Threads : LocalAgrees(u))'
      BY <2>17 DEF ScanPass, Goto, shared, private, lists, ControlInv, TypeOK, LocalAgrees, Published, ThreadsRegistered, InGuard
    <3>3. ThreadsRegistered'
      BY <2>17 DEF ScanPass, Goto, shared, private, lists, ControlInv, TypeOK, LocalAgrees, ThreadsRegistered, InGuard
    <3>4. ScanExclusive'
      BY <2>17 DEF ScanPass, Goto, shared, private, lists, ControlInv, TypeOK, ScanExclusive, InGuard
    <3>5. (todo \subseteq chain)'
      BY <2>17 DEF ScanPass, Goto, shared, private, lists, ControlInv, InGuard
    <3>6. QED
      BY <3>1, <3>2, <3>3, <3>4, <3>5 DEF ControlInv
  <2>18. ASSUME NEW t \in Threads, NEW d \in Collectors, ScanUnlink(t, d) PROVE ControlInv'
    <3>0. local[t] \in Collectors
      BY <2>18 DEF ScanUnlink, Collect, ControlInv, TypeOK, LocalAgrees
    <3>1. TypeOK'
      <4>1. (garbage \in [Collectors -> [Lists -> SUBSET Items]])'
        <5>1. TypeOK /\ d \in Items
          BY <2>18 DEF ControlInv, Items
        <5>2. QED
          <6>1. garbage' = [x \in Collectors |-> [l \in Lists |->
                    IF x = local[t] /\ l = "current"
                    THEN garbage[x][l] \cup {d} ELSE garbage[x][l]]]
            BY <3>0, <2>18, <5>1, UnlinkLists
          <6>2. \A x \in Collectors, l \in Lists : garbage[x][l] \cup {d} \subseteq Items
            BY <5>1 DEF TypeOK
          <6>3. QED
            BY <5>1, <6>1, <6>2 DEF TypeOK
      <4>2. (held \in [Threads -> SUBSET Items])'
        BY <3>0, <2>18 DEF ScanUnlink, Collect, ControlInv, TypeOK, HeldBy, Items
      <4>3. (life \in [Items -> {"live", "retired"}])'
        BY <3>0, <2>18 DEF ScanUnlink, Collect, ControlInv, TypeOK, Items
      <4>4. QED
        BY <3>0, <2>18, <4>1, <4>2, <4>3 DEF ScanUnlink, Collect, Goto, shared, private, lists, ControlInv, TypeOK, Locations
    <3>2. (\A u \in Threads : LocalAgrees(u))'
      BY <2>18 DEF ScanUnlink, Collect, Goto, shared, private, lists, ControlInv, TypeOK, LocalAgrees, Published, ThreadsRegistered, InGuard
    <3>3. ThreadsRegistered'
      BY <2>18 DEF ScanUnlink, Collect, Goto, shared, private, lists, ControlInv, TypeOK, LocalAgrees, ThreadsRegistered, InGuard
    <3>4. ScanExclusive'
      BY <2>18 DEF ScanUnlink, Collect, Goto, shared, private, lists, ControlInv, TypeOK, ScanExclusive, InGuard
    <3>5. (todo \subseteq chain)'
      BY <2>18 DEF ScanUnlink, Collect, Goto, shared, private, lists, ControlInv, InGuard
    <3>6. QED
      BY <3>1, <3>2, <3>3, <3>4, <3>5 DEF ControlInv
  <2>19. ASSUME NEW t \in Threads, NEW d \in Collectors, ScanStop(t, d) PROVE ControlInv'
    <3>1. TypeOK'
      BY <2>19 DEF ScanStop, Goto, shared, private, lists, ControlInv, TypeOK, Locations, Lists, HeldBy, Items, InGuard
    <3>2. (\A u \in Threads : LocalAgrees(u))'
      BY <2>19 DEF ScanStop, Goto, shared, private, lists, ControlInv, TypeOK, LocalAgrees, Published, ThreadsRegistered, InGuard
    <3>3. ThreadsRegistered'
      BY <2>19 DEF ScanStop, Goto, shared, private, lists, ControlInv, TypeOK, LocalAgrees, ThreadsRegistered, InGuard
    <3>4. ScanExclusive'
      BY <2>19 DEF ScanStop, Goto, shared, private, lists, ControlInv, TypeOK, ScanExclusive, InGuard
    <3>5. (todo \subseteq chain)'
      BY <2>19 DEF ScanStop, Goto, shared, private, lists, ControlInv, InGuard
    <3>6. QED
      BY <3>1, <3>2, <3>3, <3>4, <3>5 DEF ControlInv
  <2>20. ASSUME NEW t \in Threads, Advance(t) PROVE ControlInv'
    <3>0. local[t] \in Collectors
      BY <2>20 DEF Advance, ControlInv, TypeOK, LocalAgrees
    <3>1. TypeOK'
      <4>1. (epoch \in Epochs)'
        BY <3>0, <2>20 DEF Advance, ControlInv, TypeOK, LocalAgrees, Published
      <4>2. QED
        BY <3>0, <2>20, <4>1 DEF Advance, Goto, shared, private, lists, ControlInv, TypeOK, Locations
    <3>2. (\A u \in Threads : LocalAgrees(u))'
      BY <2>20 DEF Advance, Goto, shared, private, lists, ControlInv, TypeOK, LocalAgrees, Published, ThreadsRegistered, InGuard
    <3>3. ThreadsRegistered'
      BY <2>20 DEF Advance, Goto, shared, private, lists, ControlInv, TypeOK, LocalAgrees, ThreadsRegistered, InGuard
    <3>4. ScanExclusive'
      BY <2>20 DEF Advance, Goto, shared, private, lists, ControlInv, TypeOK, ScanExclusive, InGuard
    <3>5. (todo \subseteq chain)'
      BY <2>20 DEF Advance, Goto, shared, private, lists, ControlInv, InGuard
    <3>6. QED
      BY <3>1, <3>2, <3>3, <3>4, <3>5 DEF ControlInv
  <2>21. ASSUME NEW t \in Threads, UnlockChain(t) PROVE ControlInv'
    <3>0. local[t] \in Collectors
      BY <2>21 DEF UnlockChain, ControlInv, TypeOK, LocalAgrees
    <3>1. TypeOK'
      <4>1. (next_epoch_update \in [Collectors -> 0 .. CADENCE])'
        BY <3>0, <2>21 DEF UnlockChain, ControlInv, TypeOK
      <4>2. QED
        BY <3>0, <2>21, <4>1 DEF UnlockChain, Goto, shared, private, lists, ControlInv, TypeOK, Locations
    <3>2. (\A u \in Threads : LocalAgrees(u))'
      BY <2>21 DEF UnlockChain, Goto, shared, private, lists, ControlInv, TypeOK, LocalAgrees, Published, ThreadsRegistered, InGuard
    <3>3. ThreadsRegistered'
      BY <2>21 DEF UnlockChain, Goto, shared, private, lists, ControlInv, TypeOK, LocalAgrees, ThreadsRegistered, InGuard
    <3>4. ScanExclusive'
      BY <2>21 DEF UnlockChain, Goto, shared, private, lists, ControlInv, TypeOK, ScanExclusive, InGuard
    <3>5. (todo \subseteq chain)'
      BY <2>21 DEF UnlockChain, Goto, shared, private, lists, ControlInv, InGuard
    <3>6. QED
      BY <3>1, <3>2, <3>3, <3>4, <3>5 DEF ControlInv
  <2>22. ASSUME NEW t \in Threads, Suspend(t) PROVE ControlInv'
    <3>1. TypeOK'
      BY <2>22 DEF Suspend, Goto, shared, private, lists, ControlInv, TypeOK, Locations, Lists, HeldBy, Items, InGuard
    <3>2. (\A u \in Threads : LocalAgrees(u))'
      BY <2>22 DEF Suspend, Goto, shared, private, lists, ControlInv, TypeOK, LocalAgrees, Published, ThreadsRegistered, InGuard
    <3>3. ThreadsRegistered'
      BY <2>22 DEF Suspend, Goto, shared, private, lists, ControlInv, TypeOK, LocalAgrees, ThreadsRegistered, InGuard
    <3>4. ScanExclusive'
      BY <2>22 DEF Suspend, Goto, shared, private, lists, ControlInv, TypeOK, ScanExclusive, InGuard
    <3>5. (todo \subseteq chain)'
      BY <2>22 DEF Suspend, Goto, shared, private, lists, ControlInv, InGuard
    <3>6. QED
      BY <3>1, <3>2, <3>3, <3>4, <3>5 DEF ControlInv
  <2>23. ASSUME NEW t \in Threads, MarkScanEnforced(t) PROVE ControlInv'
    <3>1. TypeOK'
      BY <2>23 DEF MarkScanEnforced, Goto, shared, private, lists, ControlInv, TypeOK, Locations, Lists, HeldBy, Items, InGuard
    <3>2. (\A u \in Threads : LocalAgrees(u))'
      BY <2>23 DEF MarkScanEnforced, Goto, shared, private, lists, ControlInv, TypeOK, LocalAgrees, Published, ThreadsRegistered, InGuard
    <3>3. ThreadsRegistered'
      BY <2>23 DEF MarkScanEnforced, Goto, shared, private, lists, ControlInv, TypeOK, LocalAgrees, ThreadsRegistered, InGuard
    <3>4. ScanExclusive'
      BY <2>23 DEF MarkScanEnforced, Goto, shared, private, lists, ControlInv, TypeOK, ScanExclusive, InGuard
    <3>5. (todo \subseteq chain)'
      BY <2>23 DEF MarkScanEnforced, Goto, shared, private, lists, ControlInv, InGuard
    <3>6. QED
      BY <3>1, <3>2, <3>3, <3>4, <3>5 DEF ControlInv
  <2>24. QED
    BY <1>2, NextCases, <2>1, <2>2, <2>3, <2>4, <2>5, <2>6, <2>7, <2>8, <2>9, <2>10, <2>11, <2>12, <2>13, <2>14, <2>15, <2>16, <2>17, <2>18, <2>19, <2>20, <2>21, <2>22, <2>23
<1>3. QED
  BY <1>1, <1>2

(***************************************************************************)
(* Layer 2: no garbage is lost, dropped twice or out of reach of every     *)
(* thread.                                                                 *)
(***************************************************************************)

(* A step that moves no item, neither disowns nor registers a Collector    *)
(* and clears no flag keeps layer 2.                                       *)
LEMMA GarbageFrame ==
    ASSUME GarbageInv, UNCHANGED <<garbage, life, leaked, chain, local>>,
           \A c \in Collectors : state[c] = INVALID => state'[c] = INVALID,
           \A c \in Collectors : has_garbage[c] => has_garbage'[c],
           TypeOK,
           \A t \in Threads : pc[t] = "drop" => pc'[t] = "drop"
    PROVE  GarbageInv'
<1>1. GarbageConserved' /\ ChainLive'
  BY DEF GarbageInv, GarbageConserved, ChainLive, ListedIn
<1>2. GarbageReachable'
  BY DEF GarbageInv, GarbageReachable, ListedIn
<1>3. DroppingOwned'
  BY DEF GarbageInv, DroppingOwned
<1>4. GarbageFlagged'
  BY DEF GarbageInv, GarbageFlagged, TypeOK
<1>5. QED
  BY <1>1, <1>2, <1>3, <1>4 DEF GarbageInv

(* Initially there is no garbage.                                          *)
LEMMA GarbageInit == Init => GarbageInv
<1> SUFFICES ASSUME Init PROVE GarbageInv
  OBVIOUS
<1>1. \A c \in Collectors, l \in Lists : garbage[c][l] = {}
  BY DEF Init, NoGarbage
<1>2. GarbageConserved /\ GarbageReachable /\ DroppingOwned
  BY <1>1 DEF Init, GarbageConserved, GarbageReachable, DroppingOwned, ListedIn, Lists
<1>3. ChainLive /\ GarbageFlagged
  BY DEF Init, ChainLive, GarbageFlagged
<1>4. QED
  BY <1>2, <1>3 DEF GarbageInv

(* Layer 2 is kept by every step, given layer 1.                           *)
LEMMA GarbageStep == ControlInv /\ GarbageInv /\ [Next]_vars => GarbageInv'
<1> SUFFICES ASSUME ControlInv, GarbageInv, [Next]_vars PROVE GarbageInv'
  OBVIOUS
<1> USE CollectorAssumption, StateValues
<1>1. CASE UNCHANGED vars
  BY <1>1 DEF GarbageInv, GarbageConserved, GarbageReachable, ChainLive, DroppingOwned, GarbageFlagged, ListedIn, vars, shared, private, lists
<1>2. CASE Next
  <2>1. ASSUME NEW t \in Threads, NEW c \in Collectors, Alloc(t, c) PROVE GarbageInv'
    <3>1. UNCHANGED <<garbage, life, leaked>>
      BY <2>1 DEF Alloc, Goto, shared, private, lists
    <3>2. GarbageConserved'
      BY <3>1 DEF GarbageInv, GarbageConserved, ListedIn
    <3>3. GarbageReachable'
      BY SMTT(30), <2>1, <3>1 DEF Alloc, Goto, shared, private, lists, ControlInv, TypeOK, LocalAgrees, ThreadsRegistered, GarbageInv, GarbageReachable, GarbageFlagged, DroppingOwned, InGuard, ListedIn, Lists
    <3>4. ChainLive'
      BY <2>1, <3>1 DEF Alloc, Goto, shared, private, lists, GarbageInv, ChainLive, InGuard
    <3>5. DroppingOwned'
      BY <2>1, <3>1 DEF Alloc, Goto, shared, private, lists, ControlInv, TypeOK, LocalAgrees, ThreadsRegistered, GarbageInv, DroppingOwned, InGuard
    <3>6. GarbageFlagged'
      BY <2>1, <3>1 DEF Alloc, Goto, shared, private, lists, ControlInv, TypeOK, LocalAgrees, ThreadsRegistered, GarbageInv, GarbageFlagged, GarbageReachable, ChainLive, ListedIn, Lists, InGuard
    <3>7. QED
      BY <3>2, <3>3, <3>4, <3>5, <3>6 DEF GarbageInv
  <2>2. ASSUME NEW t \in Threads, LoadEpoch(t) PROVE GarbageInv'
    BY <2>2, GarbageFrame DEF LoadEpoch, Goto, shared, private, lists, ControlInv, TypeOK, ThreadsRegistered
  <2>3. ASSUME NEW t \in Threads, Pin(t) PROVE GarbageInv'
    <3> DEFINE c == local[t]
    <3>1. /\ TypeOK
          /\ c \in Collectors /\ c \in chain /\ life[c] = "live"
          /\ \A u \in Threads : u # t => local[u] # c
      BY <2>3 DEF Pin, ControlInv, TypeOK, LocalAgrees, ThreadsRegistered, GarbageInv, ChainLive
    <3>2. /\ UNCHANGED <<life, leaked, chain, local>>
          /\ pc' = [pc EXCEPT ![t] = pc'[t]]
          /\ \A x \in Collectors : state'[x] = INVALID <=> state[x] = INVALID
      BY <2>3, <3>1 DEF Pin, Goto, shared, ControlInv, TypeOK, LocalAgrees, ThreadsRegistered
    <3>3. ChainLive'
      BY <3>2 DEF GarbageInv, ChainLive
    <3>4. CASE ~(announcement[c] # loaded[t] /\ has_garbage[c])
      <4>1. UNCHANGED <<garbage, has_garbage>> /\ pc'[t] = "idle" /\ pc[t] = "pin"
        BY <2>3, <3>1, <3>4 DEF Pin, Goto, TypeOK
      <4>2. \A u \in Threads : pc'[u] = "drop" <=> pc[u] = "drop"
        BY <3>1, <3>2, <4>1 DEF TypeOK
      <4>3. GarbageConserved'
        BY <3>2, <4>1 DEF GarbageInv, GarbageConserved, ListedIn
      <4>4. GarbageReachable'
        BY <3>1, <3>2, <4>1, <4>2 DEF GarbageInv, GarbageReachable, ListedIn
      <4>5. GarbageFlagged'
        BY <3>2, <4>1 DEF GarbageInv, GarbageFlagged
      <4>6. DroppingOwned'
        BY <3>2, <4>1, <4>2 DEF GarbageInv, DroppingOwned
      <4>7. QED
        BY <3>3, <4>3, <4>4, <4>5, <4>6 DEF GarbageInv
    <3>5. CASE announcement[c] # loaded[t] /\ has_garbage[c]
      <4>1. garbage' = [x \in Collectors |-> [l \in Lists |->
                IF x = c
                THEN IF l = "previous" THEN garbage[x]["current"]
                     ELSE IF l = "next"     THEN garbage[x]["previous"]
                     ELSE IF l = "dropping" THEN garbage[x]["next"]
                     ELSE {}
                ELSE garbage[x][l]]]
        BY <2>3, <3>1, <3>5, PinLists
      <4>2. garbage[c]["dropping"] = {} /\ garbage[c]["clearing"] = {}
        BY <2>3, <3>1 DEF Pin, GarbageInv, DroppingOwned
      <4>3. \A i : \A x \in Collectors : ListedIn(i, x)' <=> ListedIn(i, x)
        BY <3>1, <4>1, <4>2 DEF ListedIn, Lists
      <4>4. GarbageConserved'
        <5>1. \A i : \A x, y \in Collectors, l, m \in Lists :
                  i \in garbage'[x][l] /\ i \in garbage'[y][m] => x = y /\ l = m
          BY <3>1, <4>1, <4>2 DEF GarbageInv, GarbageConserved, Lists
        <5>2. QED
          BY <3>2, <4>3, <5>1 DEF GarbageInv, GarbageConserved
      <4>5. /\ has_garbage' = [has_garbage EXCEPT ![c] =
                    garbage[c]["previous"] # {} \/ garbage[c]["current"] # {}]
            /\ pc'[t] = IF garbage[c]["next"] # {} THEN "drop" ELSE "idle"
        BY <2>3, <3>1, <3>5 DEF Pin, Goto, TypeOK
      <4>6. GarbageFlagged'
        BY ZenonT(60), <3>1, <3>2, <4>1, <4>5 DEF GarbageInv, GarbageFlagged, Lists, TypeOK
      <4>7. DroppingOwned'
        <5> SUFFICES ASSUME NEW x \in Collectors,
                            garbage'[x]["dropping"] # {} \/ garbage'[x]["clearing"] # {}
                     PROVE  \E u \in Threads : local'[u] = x /\ pc'[u] = "drop"
          BY DEF DroppingOwned
        <5>1. CASE x = c
          BY <3>2, <4>1, <4>5, <5>1 DEF Lists
        <5>2. CASE x # c
          <6>1. PICK u \in Threads : local[u] = x /\ pc[u] = "drop"
            BY <4>1, <5>2 DEF GarbageInv, DroppingOwned, Lists
          <6>2. QED
            BY <3>1, <3>2, <5>2, <6>1 DEF TypeOK
        <5>3. QED
          BY <5>1, <5>2
      <4>8. GarbageReachable'
        <5> SUFFICES ASSUME NEW x \in Collectors, NEW i \in Items, ListedIn(i, x)'
                     PROVE  \/ \E u \in Threads :
                                  local'[u] = x /\ (has_garbage'[x] \/ pc'[u] = "drop")
                            \/ x \in chain' /\ state'[x] = INVALID
                            \/ life'[x] = "retired"
          BY DEF GarbageReachable
        <5>1. CASE x = c
          BY <2>3, <3>1, <3>2, <4>1, <4>5, <5>1 DEF ListedIn, Lists, TypeOK
        <5>2. CASE x # c
          <6>1. ListedIn(i, x) /\ has_garbage'[x] = has_garbage[x]
            BY <3>1, <4>3, <4>5, <5>2 DEF TypeOK
          <6>2. \A u \in Threads : local[u] = x => pc'[u] = pc[u]
            BY <3>1, <3>2, <5>2 DEF TypeOK
          <6>3. QED
            BY <3>2, <6>1, <6>2 DEF GarbageInv, GarbageReachable
        <5>3. QED
          BY <5>1, <5>2
      <4>9. QED
        BY <3>3, <4>4, <4>6, <4>7, <4>8 DEF GarbageInv
    <3>6. QED
      BY <3>4, <3>5
  <2>4. ASSUME NEW t \in Threads, NestGuard(t) PROVE GarbageInv'
    BY <2>4, GarbageFrame DEF NestGuard, Goto, shared, private, lists, ControlInv, TypeOK, ThreadsRegistered
  <2>5. ASSUME NEW t \in Threads, NEW o \in Objects, DropObject(t, o) PROVE GarbageInv'
    <3> DEFINE c == local[t]
    <3>1. /\ TypeOK
          /\ c \in Collectors /\ c \in chain /\ life[c] = "live"
          /\ \A u \in Threads : u # t => local[u] # c
      BY <2>5 DEF DropObject, ControlInv, TypeOK, LocalAgrees, ThreadsRegistered, GarbageInv, ChainLive
    <3>2. /\ UNCHANGED <<leaked, chain, local, pc, state, has_garbage>>
          /\ life' = [life EXCEPT ![o] = "live"]
          /\ pc[t] = "drop"
          /\ o \in garbage[c]["dropping"] \/ o \in garbage[c]["clearing"]
      BY <2>5 DEF DropObject, BeingDropped, shared
    <3>3. garbage' = [x \in Collectors |-> [l \in Lists |->
              IF x = c /\ l \in {"dropping", "clearing"}
              THEN garbage[x][l] \ {o} ELSE garbage[x][l]]]
      BY <2>5, <3>1, DropObjectLists
    <3>4. \A i : \A x \in Collectors, l \in Lists :
              i \in garbage'[x][l] <=> i \in garbage[x][l] /\ i # o
      BY <3>1, <3>2, <3>3 DEF GarbageInv, GarbageConserved, Lists, Items
    <3>5. o \notin leaked
      BY <3>1, <3>2 DEF GarbageInv, GarbageConserved, ListedIn, Lists
    <3>6. GarbageConserved'
      BY <3>1, <3>2, <3>4, <3>5 DEF GarbageInv, GarbageConserved, ListedIn, TypeOK, Items
    <3>7. GarbageReachable'
      BY SMTT(30), <3>1, <3>2, <3>4, CollectorAssumption DEF GarbageInv, GarbageReachable, ListedIn, TypeOK
    <3>8. ChainLive'
      BY <3>1, <3>2 DEF GarbageInv, ChainLive, TypeOK, Items
    <3>9. DroppingOwned' /\ GarbageFlagged'
      BY <3>1, <3>2, <3>4 DEF GarbageInv, DroppingOwned, GarbageFlagged, Lists, TypeOK
    <3>10. QED
      BY <3>6, <3>7, <3>8, <3>9 DEF GarbageInv
  <2>6. ASSUME NEW t \in Threads, NEW d \in Collectors, DropCollector(t, d) PROVE GarbageInv'
    <3> DEFINE c == local[t]
    <3>1. /\ TypeOK
          /\ c \in Collectors /\ c \in chain /\ life[c] = "live"
          /\ \A u \in Threads : u # t => local[u] # c
      BY <2>6 DEF DropCollector, ControlInv, TypeOK, LocalAgrees, ThreadsRegistered, GarbageInv, ChainLive
    <3>2. /\ UNCHANGED <<leaked, chain, local, pc, state>>
          /\ life' = [life EXCEPT ![d] = "live"]
          /\ has_garbage' = [has_garbage EXCEPT ![d] = FALSE]
          /\ pc[t] = "drop"
          /\ d \in garbage[c]["dropping"] \/ d \in garbage[c]["clearing"]
      BY <2>6 DEF DropCollector, BeingDropped, shared
    <3>3. /\ life[d] = "retired" /\ d # c /\ d \notin chain
          /\ d \notin leaked
          /\ \A u \in Threads : local[u] # d
      <4>1. life[d] = "retired" /\ d \notin leaked
        BY <3>1, <3>2 DEF GarbageInv, GarbageConserved, ListedIn, Lists, Items
      <4>2. d \notin chain
        BY <4>1 DEF GarbageInv, ChainLive
      <4>3. QED
        BY <3>1, <4>1, <4>2 DEF ControlInv, ThreadsRegistered
    <3>4. garbage[d]["dropping"] = {} /\ garbage[d]["clearing"] = {}
      BY <3>3 DEF GarbageInv, DroppingOwned
    <3>5. garbage' = [x \in Collectors |-> [l \in Lists |->
               IF x = d THEN {}
               ELSE IF x = c /\ l = "dropping" THEN garbage[x][l] \ {d}
               ELSE IF x = c /\ l = "clearing"
                    THEN (garbage[x][l] \ {d}) \cup garbage[d]["previous"]
                            \cup garbage[d]["current"] \cup garbage[d]["next"]
               ELSE garbage[x][l]]]
      BY <2>6, <3>1, <3>3, DropCollectorLists
    <3>6. /\ \A x \in Collectors, l \in Lists :
                d \in garbage[x][l] => x = c /\ l \in {"dropping", "clearing"}
          /\ ~ListedIn(d, d)
      BY <3>1, <3>2, <3>3 DEF GarbageInv, GarbageConserved, ListedIn, Lists, Items
    <3>7. \A i : \A x \in Collectors, l \in Lists :
              i \in garbage'[x][l] <=>
                  \/ x # d /\ i # d /\ i \in garbage[x][l]
                  \/ x = c /\ l = "clearing" /\ ListedIn(i, d)
      <4> SUFFICES ASSUME NEW i, NEW x \in Collectors, NEW l \in Lists
                   PROVE  i \in garbage'[x][l] <=>
                            \/ x # d /\ i # d /\ i \in garbage[x][l]
                            \/ x = c /\ l = "clearing" /\ ListedIn(i, d)
        OBVIOUS
      <4>1. ListedIn(i, d) <=> \/ i \in garbage[d]["previous"]
                               \/ i \in garbage[d]["current"]
                               \/ i \in garbage[d]["next"]
        BY <3>4 DEF ListedIn, Lists
      <4>2. CASE x = c /\ l = "clearing"
        BY <3>1, <3>3, <3>5, <3>6, <4>1, <4>2 DEF Lists
      <4>3. CASE x = c /\ l = "dropping"
        BY <3>1, <3>3, <3>5, <3>6, <4>3 DEF Lists
      <4>4. CASE x = c /\ l \notin {"dropping", "clearing"}
        BY <3>3, <3>5, <3>6, <4>4
      <4>5. CASE x # c
        BY <3>5, <3>6, <4>5
      <4>6. QED
        BY <4>2, <4>3, <4>4, <4>5
    <3>8. \A i : (\E x \in Collectors : ListedIn(i, x))' <=>
                 i # d /\ \E x \in Collectors : ListedIn(i, x)
      <4> SUFFICES ASSUME NEW i
                   PROVE  (\E x \in Collectors : ListedIn(i, x))' <=>
                            i # d /\ \E x \in Collectors : ListedIn(i, x)
        OBVIOUS
      <4>1. ASSUME NEW x \in Collectors, ListedIn(i, x)'
            PROVE  i # d /\ \E y \in Collectors : ListedIn(i, y)
        BY <3>6, <3>7, <4>1 DEF ListedIn
      <4>2. ASSUME i # d, NEW x \in Collectors, ListedIn(i, x)
            PROVE  \E y \in Collectors : ListedIn(i, y)'
        <5>1. CASE x = d
          BY <3>1, <3>7, <4>2, <5>1 DEF ListedIn, Lists
        <5>2. CASE x # d
          BY <3>7, <4>2, <5>2 DEF ListedIn
        <5>3. QED
          BY <5>1, <5>2
      <4>3. QED
        BY <4>1, <4>2
    <3>9. GarbageConserved'
      <4>1. \A i : \A x, y \in Collectors, l, m \in Lists :
                i \in garbage'[x][l] /\ i \in garbage'[y][m] => x = y /\ l = m
        BY SMTT(30), <3>7 DEF GarbageInv, GarbageConserved, ListedIn
      <4>2. \A i \in Items : life'[i] = "retired" <=>
                i \in leaked' \/ (\E x \in Collectors : ListedIn(i, x))'
        BY <3>1, <3>2, <3>3, <3>8 DEF GarbageInv, GarbageConserved, TypeOK, Items
      <4>3. \A x \in Collectors : \A i \in leaked' : ~ListedIn(i, x)'
        BY <3>2, <3>8 DEF GarbageInv, GarbageConserved
      <4>4. QED
        BY <4>1, <4>2, <4>3 DEF GarbageConserved
    <3>10. GarbageReachable'
      <4> SUFFICES ASSUME NEW x \in Collectors, NEW i \in Items, ListedIn(i, x)'
                   PROVE  \/ \E u \in Threads :
                                local'[u] = x /\ (has_garbage'[x] \/ pc'[u] = "drop")
                          \/ x \in chain' /\ state'[x] = INVALID
                          \/ life'[x] = "retired"
        BY DEF GarbageReachable
      <4>1. x # d
        BY <3>3, <3>7 DEF ListedIn
      <4>2. CASE x = c
        BY <3>2, <4>2
      <4>3. CASE x # c
        <5>1. ListedIn(i, x)
          BY <3>7, <4>3 DEF ListedIn
        <5>2. life'[x] = life[x] /\ has_garbage'[x] = has_garbage[x]
          BY <3>1, <3>2, <4>1 DEF TypeOK, Items
        <5>3. QED
          BY <3>2, <5>1, <5>2 DEF GarbageInv, GarbageReachable
      <4>4. QED
        BY <4>2, <4>3
    <3>11. ChainLive'
      BY <3>1, <3>2, <3>3 DEF GarbageInv, ChainLive, TypeOK, Items
    <3>12. DroppingOwned'
      <4> SUFFICES ASSUME NEW x \in Collectors,
                          garbage'[x]["dropping"] # {} \/ garbage'[x]["clearing"] # {}
                   PROVE  \E u \in Threads : local[u] = x /\ pc[u] = "drop"
        BY <3>2 DEF DroppingOwned
      <4>1. CASE x = c
        BY <3>2, <4>1
      <4>2. CASE x # c
        BY <3>7, <4>2 DEF GarbageInv, DroppingOwned, Lists
      <4>3. QED
        BY <4>1, <4>2
    <3>13. GarbageFlagged'
      <4> SUFFICES ASSUME NEW u \in Threads, local[u] # NoCollector,
                          NEW l \in {"current", "previous", "next"},
                          garbage'[local[u]][l] # {}
                   PROVE  has_garbage'[local[u]]
        BY <3>2 DEF GarbageFlagged
      <4>1. local[u] \in Collectors /\ l \in Lists /\ l # "clearing" /\ local[u] # d
        BY <3>1, <3>3 DEF TypeOK, Lists
      <4>2. garbage[local[u]][l] # {}
        BY <3>7, <4>1
      <4>3. QED
        BY <3>1, <3>2, <4>1, <4>2 DEF GarbageInv, GarbageFlagged, TypeOK
    <3>14. QED
      BY <3>9, <3>10, <3>11, <3>12, <3>13 DEF GarbageInv
  <2>7. ASSUME NEW t \in Threads, FinishDrop(t) PROVE GarbageInv'
    <3>1. UNCHANGED <<garbage, life, leaked>>
      BY <2>7 DEF FinishDrop, Goto, shared, private, lists
    <3>2. GarbageConserved'
      BY <3>1 DEF GarbageInv, GarbageConserved, ListedIn
    <3>3. GarbageReachable'
      BY SMTT(30), <2>7, <3>1 DEF FinishDrop, BeingDropped, Goto, shared, private, lists, ControlInv, TypeOK, LocalAgrees, ThreadsRegistered, GarbageInv, GarbageReachable, GarbageFlagged, DroppingOwned, InGuard, ListedIn, Lists
    <3>4. ChainLive'
      BY <2>7, <3>1 DEF FinishDrop, BeingDropped, Goto, shared, private, lists, GarbageInv, ChainLive, InGuard
    <3>5. DroppingOwned'
      BY <2>7, <3>1 DEF FinishDrop, BeingDropped, Goto, shared, private, lists, ControlInv, TypeOK, LocalAgrees, ThreadsRegistered, GarbageInv, DroppingOwned, InGuard, BeingDropped
    <3>6. GarbageFlagged'
      BY <2>7, <3>1 DEF FinishDrop, BeingDropped, Goto, shared, private, lists, ControlInv, TypeOK, LocalAgrees, ThreadsRegistered, GarbageInv, GarbageFlagged, GarbageReachable, ChainLive, ListedIn, Lists, InGuard
    <3>7. QED
      BY <3>2, <3>3, <3>4, <3>5, <3>6 DEF GarbageInv
  <2>8. ASSUME NEW t \in Threads, NEW o \in Objects, DropPanics(t, o) PROVE GarbageInv'
    <3> DEFINE c == local[t]
    <3>1. /\ TypeOK
          /\ c \in Collectors /\ c \in chain /\ life[c] = "live"
          /\ \A u \in Threads : u # t => local[u] # c
      BY <2>8 DEF DropPanics, ControlInv, TypeOK, LocalAgrees, ThreadsRegistered, GarbageInv, ChainLive
    <3>2. /\ UNCHANGED <<chain, local, state>>
          /\ life' = [life EXCEPT ![o] = "live"]
          /\ leaked' = leaked \cup (garbage[c]["clearing"] \ {o})
          /\ has_garbage' = [has_garbage EXCEPT ![c] =
                                @ \/ garbage[c]["dropping"] \ {o} # {}]
          /\ pc[t] = "drop" /\ pc' = [pc EXCEPT ![t] = "unwind"]
          /\ o \in garbage[c]["dropping"] \/ o \in garbage[c]["clearing"]
      BY <2>8 DEF DropPanics, BeingDropped, shared, Goto
    <3>3. garbage' = [x \in Collectors |-> [l \in Lists |->
               IF x # c \/ l \in {"previous", "next"} THEN garbage[x][l]
               ELSE IF l = "current"
                    THEN garbage[x][l] \cup (garbage[x]["dropping"] \ {o})
               ELSE {}]]
      BY <2>8, <3>1, DropPanicsLists
    <3>4. /\ o \notin leaked /\ o \in Items /\ ~(o \in Collectors)
          /\ \A x \in Collectors, l \in Lists :
                o \in garbage[x][l] => x = c /\ l \in {"dropping", "clearing"}
      BY <3>1, <3>2, CollectorAssumption
      DEF GarbageInv, GarbageConserved, ListedIn, Lists, Items
    <3>5. \A i : \A x \in Collectors, l \in Lists :
              i \in garbage'[x][l] <=>
                  /\ i # o
                  /\ \/ i \in garbage[x][l] /\ (x = c => l \notin {"dropping", "clearing"})
                     \/ x = c /\ l = "current" /\ i \in garbage[c]["dropping"]
      <4> SUFFICES ASSUME NEW i, NEW x \in Collectors, NEW l \in Lists
                   PROVE  i \in garbage'[x][l] <=>
                    /\ i # o
                    /\ \/ i \in garbage[x][l] /\ (x = c => l \notin {"dropping", "clearing"})
                       \/ x = c /\ l = "current" /\ i \in garbage[c]["dropping"]
        OBVIOUS
      <4>1. CASE x = c
        BY <3>1, <3>3, <3>4, <4>1 DEF Lists
      <4>2. CASE x # c
        BY <3>3, <3>4, <4>2
      <4>3. QED
        BY <4>1, <4>2
    <3>6. GarbageConserved'
      <4>1. \A i : \A x, y \in Collectors, l, m \in Lists :
                i \in garbage'[x][l] /\ i \in garbage'[y][m] => x = y /\ l = m
        BY <3>1, <3>5 DEF GarbageInv, GarbageConserved, Lists
      <4>2. \A i \in Items, x \in Collectors :
                ListedIn(i, x) /\ i # o =>
                    ListedIn(i, x)' \/ i \in leaked'
        <5> SUFFICES ASSUME NEW i \in Items, NEW x \in Collectors, NEW l \in Lists,
                            i \in garbage[x][l], i # o
                     PROVE  ListedIn(i, x)' \/ i \in leaked'
          BY DEF ListedIn
        <5>1. CASE x = c /\ l = "dropping"
          BY <3>5, <5>1 DEF ListedIn, Lists
        <5>2. CASE x = c /\ l = "clearing"
          BY <3>2, <5>2
        <5>3. CASE x = c => l \notin {"dropping", "clearing"}
          BY <3>5, <5>3 DEF ListedIn
        <5>4. QED
          BY <5>1, <5>2, <5>3
      <4>3. \A i \in Items, x \in Collectors :
                ListedIn(i, x)' => i # o /\ ListedIn(i, x)
        BY <3>1, <3>5 DEF ListedIn, Lists
      <4>4. \A i \in leaked' : i # o /\ (i \in leaked \/ ListedIn(i, c))
        BY <3>2, <3>4 DEF ListedIn, Lists
      <4>5. \A i \in Items : life'[i] = "retired" <=>
                i \in leaked' \/ \E x \in Collectors : ListedIn(i, x)'
        <5>1. \A i \in Items : life'[i] = "retired" <=> i # o /\ life[i] = "retired"
          BY <3>1, <3>2 DEF TypeOK
        <5>2. QED
          BY <3>1, <3>2, <4>2, <4>3, <4>4, <5>1 DEF GarbageInv, GarbageConserved
      <4>6. \A x \in Collectors : \A i \in leaked' : ~ListedIn(i, x)'
        <5> SUFFICES ASSUME NEW x \in Collectors, NEW i \in leaked', NEW l \in Lists,
                            i \in garbage'[x][l]
                     PROVE  FALSE
          BY DEF ListedIn
        <5>1. CASE i \in leaked
          BY <3>1, <3>5, <5>1 DEF GarbageInv, GarbageConserved, ListedIn, Lists
        <5>2. CASE i \in garbage[c]["clearing"]
          BY <3>1, <3>5, <5>2 DEF GarbageInv, GarbageConserved, TypeOK, Lists
        <5>3. QED
          BY <3>2, <5>1, <5>2
      <4>7. QED
        BY <4>1, <4>5, <4>6 DEF GarbageConserved
    <3>7. GarbageReachable'
      <4> SUFFICES ASSUME NEW x \in Collectors, NEW i \in Items, ListedIn(i, x)'
                   PROVE  \/ \E u \in Threads :
                                local'[u] = x /\ (has_garbage'[x] \/ pc'[u] = "drop")
                          \/ x \in chain' /\ state'[x] = INVALID
                          \/ life'[x] = "retired"
        BY DEF GarbageReachable
      <4>1. CASE x = c
        <5>1. has_garbage[c] \/ garbage[c]["dropping"] \ {o} # {}
          BY <3>1, <3>5, <4>1, CollectorAssumption DEF GarbageInv, GarbageFlagged, ListedIn, Lists
        <5>2. QED
          BY <3>1, <3>2, <4>1, <5>1 DEF TypeOK
      <4>2. CASE x # c
        <5>1. ListedIn(i, x)
          BY <3>5, <4>2 DEF ListedIn
        <5>2. life'[x] = life[x]
          BY <3>1, <3>2 DEF TypeOK, Items
        <5>3. has_garbage'[x] = has_garbage[x]
          BY <3>1, <3>2, <4>2 DEF TypeOK
        <5>4. \A u \in Threads : local[u] = x => pc'[u] = pc[u]
          BY <3>1, <3>2, <4>2 DEF TypeOK
        <5>5. QED
          BY <3>2, <5>1, <5>2, <5>3, <5>4 DEF GarbageInv, GarbageReachable
      <4>3. QED
        BY <4>1, <4>2
    <3>8. ChainLive'
      BY <3>1, <3>2 DEF GarbageInv, ChainLive, TypeOK, Items
    <3>9. DroppingOwned'
      <4> SUFFICES ASSUME NEW x \in Collectors,
                          garbage'[x]["dropping"] # {} \/ garbage'[x]["clearing"] # {}
                   PROVE  \E u \in Threads : local'[u] = x /\ pc'[u] = "drop"
        BY DEF DroppingOwned
      <4>1. x # c
        BY <3>3 DEF Lists
      <4>2. PICK u \in Threads : local[u] = x /\ pc[u] = "drop"
        BY <3>3, <4>1 DEF GarbageInv, DroppingOwned, Lists
      <4>3. QED
        BY <3>1, <3>2, <4>1, <4>2 DEF TypeOK
    <3>10. GarbageFlagged'
      <4> SUFFICES ASSUME NEW u \in Threads, local[u] # NoCollector,
                          NEW l \in {"current", "previous", "next"},
                          garbage'[local[u]][l] # {}
                   PROVE  has_garbage'[local[u]]
        BY <3>2 DEF GarbageFlagged
      <4>1. local[u] \in Collectors /\ l \in Lists
        BY DEF TypeOK, ControlInv, Lists
      <4>2. CASE local[u] = c
        BY <3>1, <3>2, <3>3, <4>1, <4>2 DEF GarbageInv, GarbageFlagged, TypeOK, Lists
      <4>3. CASE local[u] # c
        BY <3>1, <3>2, <3>3, <4>1, <4>3 DEF GarbageInv, GarbageFlagged, TypeOK
      <4>4. QED
        BY <4>2, <4>3
    <3>11. QED
      BY <3>6, <3>7, <3>8, <3>9, <3>10 DEF GarbageInv
  <2>9. ASSUME NEW t \in Threads, NEW o \in Objects, Retire(t, o) PROVE GarbageInv'
    <3> DEFINE c == local[t]
    <3>1. /\ TypeOK
          /\ c \in Collectors /\ c \in chain /\ life[c] = "live"
          /\ \A u \in Threads : u # t => local[u] # c
      BY <2>9 DEF Retire, Collect, ControlInv, TypeOK, LocalAgrees, ThreadsRegistered, GarbageInv, ChainLive
    <3>2. /\ UNCHANGED <<leaked, chain, local, pc, state>>
          /\ life[o] = "live" /\ life' = [life EXCEPT ![o] = "retired"]
          /\ has_garbage' = [has_garbage EXCEPT ![c] = TRUE]
      BY <2>9 DEF Retire, Collect, shared
    <3>3. garbage' = [x \in Collectors |-> [l \in Lists |->
              IF x = c /\ l = "current" THEN garbage[x][l] \cup {o}
                                        ELSE garbage[x][l]]]
      BY <2>9, <3>1, RetireLists
    <3>4. /\ o \notin leaked
          /\ \A x \in Collectors, l \in Lists : o \notin garbage[x][l]
      BY <3>2 DEF GarbageInv, GarbageConserved, ListedIn, Items
    <3>5. GarbageConserved'
      <4>1. \A i : \A x, y \in Collectors, l, m \in Lists :
                i \in garbage'[x][l] /\ i \in garbage'[y][m] => x = y /\ l = m
        BY <3>3, <3>4 DEF GarbageInv, GarbageConserved
      <4>2. \A i \in Items : life'[i] = "retired" <=>
                i \in leaked' \/ \E x \in Collectors : ListedIn(i, x)'
        <5>1. \A i \in Items : life'[i] = "retired" <=> i = o \/ life[i] = "retired"
          BY <3>1, <3>2 DEF TypeOK
        <5>2. \A i \in Items, x \in Collectors :
                  ListedIn(i, x)' <=> ListedIn(i, x) \/ (i = o /\ x = c)
          BY <3>3 DEF ListedIn, Lists
        <5>3. QED
          BY <3>1, <3>2, <5>1, <5>2 DEF GarbageInv, GarbageConserved
      <4>3. \A x \in Collectors : \A i \in leaked' : ~ListedIn(i, x)'
        BY <3>2, <3>3, <3>4 DEF GarbageInv, GarbageConserved, ListedIn
      <4>4. QED
        BY <4>1, <4>2, <4>3 DEF GarbageConserved
    <3>6. GarbageReachable'
      <4> SUFFICES ASSUME NEW x \in Collectors, NEW i \in Items, ListedIn(i, x)'
                   PROVE  \/ \E u \in Threads :
                                local'[u] = x /\ (has_garbage'[x] \/ pc'[u] = "drop")
                          \/ x \in chain' /\ state'[x] = INVALID
                          \/ life'[x] = "retired"
        BY DEF GarbageReachable
      <4>1. CASE x = c
        BY <3>1, <3>2, <4>1 DEF TypeOK
      <4>2. CASE x # c
        BY <3>1, <3>2, <3>3, <4>2 DEF GarbageInv, GarbageReachable, ListedIn, TypeOK, Items
      <4>3. QED
        BY <4>1, <4>2
    <3>7. ChainLive'
      BY <3>1, <3>2 DEF GarbageInv, ChainLive, TypeOK, Items
    <3>8. DroppingOwned'
      <4>1. \A x \in Collectors : /\ garbage'[x]["dropping"] = garbage[x]["dropping"]
                                  /\ garbage'[x]["clearing"] = garbage[x]["clearing"]
        BY <3>3 DEF Lists
      <4>2. QED
        BY <3>2, <4>1 DEF GarbageInv, DroppingOwned
    <3>9. GarbageFlagged'
      BY <3>1, <3>2, <3>3 DEF GarbageInv, GarbageFlagged, Lists, TypeOK
    <3>10. QED
      BY <3>5, <3>6, <3>7, <3>8, <3>9 DEF GarbageInv
  <2>10. ASSUME NEW t \in Threads, Accelerate(t) PROVE GarbageInv'
    BY <2>10, GarbageFrame DEF Accelerate, Goto, shared, private, lists, ControlInv, TypeOK, ThreadsRegistered
  <2>11. ASSUME NEW t \in Threads, SetHasGarbage(t) PROVE GarbageInv'
    BY <2>11, GarbageFrame DEF SetHasGarbage, Goto, shared, private, lists, ControlInv, TypeOK, ThreadsRegistered
  <2>12. ASSUME NEW t \in Threads, EndNestedGuard(t) PROVE GarbageInv'
    BY <2>12, GarbageFrame DEF EndNestedGuard, Goto, shared, private, lists, ControlInv, TypeOK, ThreadsRegistered
  <2>13. ASSUME NEW t \in Threads, EndGuard(t) PROVE GarbageInv'
    BY <2>13, GarbageFrame DEF EndGuard, LastGuard, Goto, shared, private, lists, ControlInv, TypeOK, ThreadsRegistered
  <2>14. ASSUME NEW t \in Threads, SkipScan(t) PROVE GarbageInv'
    BY <2>14, GarbageFrame DEF SkipScan, LastGuard, Goto, shared, private, lists, ControlInv, TypeOK, ThreadsRegistered
  <2>15. ASSUME NEW t \in Threads, StartScan(t) PROVE GarbageInv'
    BY <2>15, GarbageFrame DEF StartScan, LastGuard, Goto, shared, private, lists, ControlInv, TypeOK, ThreadsRegistered
  <2>16. ASSUME NEW t \in Threads, Unpin(t) PROVE GarbageInv'
    BY <2>16, GarbageFrame DEF Unpin, Goto, shared, private, lists, ControlInv, TypeOK, ThreadsRegistered
  <2>17. ASSUME NEW t \in Threads, NEW d \in Collectors, ScanPass(t, d) PROVE GarbageInv'
    BY <2>17, GarbageFrame DEF ScanPass, Goto, shared, private, lists, ControlInv, TypeOK, ThreadsRegistered
  <2>18. ASSUME NEW t \in Threads, NEW d \in Collectors, ScanUnlink(t, d) PROVE GarbageInv'
    <3> DEFINE c == local[t]
    <3>1. /\ TypeOK
          /\ c \in Collectors /\ c \in chain /\ life[c] = "live"
          /\ \A u \in Threads : u # t => local[u] # c
      BY <2>18 DEF ScanUnlink, Collect, ControlInv, TypeOK, LocalAgrees, ThreadsRegistered, GarbageInv, ChainLive
    <3>2. /\ UNCHANGED <<leaked, local, pc, state>>
          /\ chain' = chain \ {d} /\ d \in chain /\ d # c
          /\ state[d] = INVALID
          /\ life[d] = "live" /\ life' = [life EXCEPT ![d] = "retired"]
          /\ has_garbage' = [has_garbage EXCEPT ![c] = TRUE]
      BY <2>18 DEF ScanUnlink, Collect, shared, ControlInv, GarbageInv, ChainLive
    <3>3. garbage' = [x \in Collectors |-> [l \in Lists |->
              IF x = c /\ l = "current" THEN garbage[x][l] \cup {d}
                                        ELSE garbage[x][l]]]
      BY <2>18, <3>1, UnlinkLists
    <3>4. /\ d \notin leaked
          /\ \A x \in Collectors, l \in Lists : d \notin garbage[x][l]
      BY <3>2 DEF GarbageInv, GarbageConserved, ListedIn, Items
    <3>5. GarbageConserved'
      <4>1. \A i : \A x, y \in Collectors, l, m \in Lists :
                i \in garbage'[x][l] /\ i \in garbage'[y][m] => x = y /\ l = m
        BY <3>3, <3>4 DEF GarbageInv, GarbageConserved
      <4>2. \A i \in Items : life'[i] = "retired" <=>
                i \in leaked' \/ \E x \in Collectors : ListedIn(i, x)'
        <5>1. \A i \in Items : life'[i] = "retired" <=> i = d \/ life[i] = "retired"
          BY <3>1, <3>2 DEF TypeOK
        <5>2. \A i \in Items, x \in Collectors :
                  ListedIn(i, x)' <=> ListedIn(i, x) \/ (i = d /\ x = c)
          BY <3>3 DEF ListedIn, Lists
        <5>3. QED
          BY <3>1, <3>2, <5>1, <5>2 DEF GarbageInv, GarbageConserved
      <4>3. \A x \in Collectors : \A i \in leaked' : ~ListedIn(i, x)'
        BY <3>2, <3>3, <3>4 DEF GarbageInv, GarbageConserved, ListedIn
      <4>4. QED
        BY <4>1, <4>2, <4>3 DEF GarbageConserved
    <3>6. GarbageReachable'
      <4> SUFFICES ASSUME NEW x \in Collectors, NEW i \in Items, ListedIn(i, x)'
                   PROVE  \/ \E u \in Threads :
                                local'[u] = x /\ (has_garbage'[x] \/ pc'[u] = "drop")
                          \/ x \in chain' /\ state'[x] = INVALID
                          \/ life'[x] = "retired"
        BY DEF GarbageReachable
      <4>1. CASE x = c
        BY <3>1, <3>2, <4>1 DEF TypeOK
      <4>2. CASE x = d
        BY <3>1, <3>2, <4>2 DEF TypeOK, Items
      <4>3. CASE x # c /\ x # d
        BY <3>1, <3>2, <3>3, <4>3 DEF GarbageInv, GarbageReachable, ListedIn, TypeOK, Items
      <4>4. QED
        BY <4>1, <4>2, <4>3
    <3>7. ChainLive'
      BY <3>1, <3>2 DEF GarbageInv, ChainLive, TypeOK, Items
    <3>8. DroppingOwned'
      <4>1. \A x \in Collectors : /\ garbage'[x]["dropping"] = garbage[x]["dropping"]
                                  /\ garbage'[x]["clearing"] = garbage[x]["clearing"]
        BY <3>3 DEF Lists
      <4>2. QED
        BY <3>2, <4>1 DEF GarbageInv, DroppingOwned
    <3>9. GarbageFlagged'
      BY <3>1, <3>2, <3>3 DEF GarbageInv, GarbageFlagged, Lists, TypeOK
    <3>10. QED
      BY <3>5, <3>6, <3>7, <3>8, <3>9 DEF GarbageInv
  <2>19. ASSUME NEW t \in Threads, NEW d \in Collectors, ScanStop(t, d) PROVE GarbageInv'
    BY <2>19, GarbageFrame DEF ScanStop, Goto, shared, private, lists, ControlInv, TypeOK, ThreadsRegistered
  <2>20. ASSUME NEW t \in Threads, Advance(t) PROVE GarbageInv'
    BY <2>20, GarbageFrame DEF Advance, Goto, shared, private, lists, ControlInv, TypeOK, ThreadsRegistered
  <2>21. ASSUME NEW t \in Threads, UnlockChain(t) PROVE GarbageInv'
    BY <2>21, GarbageFrame DEF UnlockChain, Goto, shared, private, lists, ControlInv, TypeOK, ThreadsRegistered
  <2>22. ASSUME NEW t \in Threads, Suspend(t) PROVE GarbageInv'
    <3>1. UNCHANGED <<garbage, life, leaked>>
      BY <2>22 DEF Suspend, Goto, shared, private, lists
    <3>2. GarbageConserved'
      BY <3>1 DEF GarbageInv, GarbageConserved, ListedIn
    <3>3. GarbageReachable'
      BY SMTT(30), <2>22, <3>1 DEF Suspend, Goto, shared, private, lists, ControlInv, TypeOK, LocalAgrees, ThreadsRegistered, GarbageInv, GarbageReachable, GarbageFlagged, DroppingOwned, InGuard, ListedIn, Lists
    <3>4. ChainLive'
      BY <2>22, <3>1 DEF Suspend, Goto, shared, private, lists, GarbageInv, ChainLive, InGuard
    <3>5. DroppingOwned'
      BY <2>22, <3>1 DEF Suspend, Goto, shared, private, lists, ControlInv, TypeOK, LocalAgrees, ThreadsRegistered, GarbageInv, DroppingOwned, InGuard
    <3>6. GarbageFlagged'
      BY <2>22, <3>1 DEF Suspend, Goto, shared, private, lists, ControlInv, TypeOK, LocalAgrees, ThreadsRegistered, GarbageInv, GarbageFlagged, GarbageReachable, ChainLive, ListedIn, Lists, InGuard
    <3>7. QED
      BY <3>2, <3>3, <3>4, <3>5, <3>6 DEF GarbageInv
  <2>23. ASSUME NEW t \in Threads, MarkScanEnforced(t) PROVE GarbageInv'
    BY <2>23, GarbageFrame DEF MarkScanEnforced, Goto, shared, private, lists, ControlInv, TypeOK, ThreadsRegistered
  <2>24. QED
    BY <1>2, NextCases, <2>1, <2>2, <2>3, <2>4, <2>5, <2>6, <2>7, <2>8, <2>9, <2>10, <2>11, <2>12, <2>13, <2>14, <2>15, <2>16, <2>17, <2>18, <2>19, <2>20, <2>21, <2>22, <2>23
<1>3. QED
  BY <1>1, <1>2

(* The first two layers hold throughout, whatever the scheduling.          *)
THEOREM StructureInvariant == Spec => [](ControlInv /\ GarbageInv)
<1>1. Init => ControlInv /\ GarbageInv
  BY ControlInit, GarbageInit
<1>2. (ControlInv /\ GarbageInv) /\ [Next]_vars => (ControlInv /\ GarbageInv)'
  BY ControlStep, GarbageStep
<1>3. QED
  BY <1>1, <1>2, PTL DEF Spec

(* Every variable keeps to its values: counters stay in their bounds and   *)
(* no state byte is neither an epoch nor a mark.                           *)
THEOREM TypeCorrect == Spec => []TypeOK
<1>1. ControlInv => TypeOK
  BY DEF ControlInv
<1>2. QED
  BY <1>1, StructureInvariant, PTL

(* The lock bit of the chain head excludes: two threads never scan at the  *)
(* same time (collector.rs:355-357).                                       *)
THEOREM ScansExclude == Spec => []ScanExclusive
<1>1. ControlInv => ScanExclusive
  BY DEF ControlInv
<1>2. QED
  BY <1>1, StructureInvariant, PTL

(* No thread ever loses its place in the chain (collector.rs:250-278).     *)
THEOREM ThreadsStayRegistered == Spec => []ThreadsRegistered
<1>1. ControlInv => ThreadsRegistered
  BY DEF ControlInv
<1>2. QED
  BY <1>1, StructureInvariant, PTL

(* No retired item is lost or in two places, so none is dropped twice      *)
(* (collector.rs:280-343).                                                 *)
THEOREM GarbageNeverLost == Spec => []GarbageConserved
<1>1. GarbageInv => GarbageConserved
  BY DEF GarbageInv
<1>2. QED
  BY <1>1, StructureInvariant, PTL

(* Garbage never ends up in a list that nobody will rotate, unlink or drop *)
(* (collector.rs:200-248).                                                 *)
THEOREM GarbageStaysReachable == Spec => []GarbageReachable
<1>1. GarbageInv => GarbageReachable
  BY DEF GarbageInv
<1>2. QED
  BY <1>1, StructureInvariant, PTL

=============================================================================
