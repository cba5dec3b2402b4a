------------------------ MODULE CollectorProtection ------------------------
(***************************************************************************)
(* Nothing is dropped under a guard: layer 3 of the invariants, under the  *)
(* assumption ForwardStep on how the global epoch moves; and the promise   *)
(* of DelayedDealloc, which follows from it.                               *)
(***************************************************************************)
EXTENDS CollectorStructure

(* A thread with a guard shows its announcement, and only a scanner in its *)
(* own closing of a guard does so without one.                             *)
LEMMA GuardedIsPublished ==
    ASSUME ControlInv, NEW r \in Threads, InGuard(r)
    PROVE  /\ local[r] \in Collectors /\ local[r] \in chain
           /\ state[local[r]] = announcement[local[r]]
           /\ announcement[local[r]] \in Epochs
           /\ pc[r] \in {"idle", "drop", "unwind"}
<1>1. local[r] \in Collectors /\ num_readers[local[r]] > 0 /\ pc[r] # "pin"
  BY DEF ControlInv, TypeOK, InGuard
<1>2. pc[r] \in {"idle", "drop", "unwind"}
  <2>1. LocalAgrees(r) /\ pc[r] \in Locations
    BY DEF ControlInv, TypeOK
  <2>2. num_readers[local[r]] # 0
    BY <1>1
  <2>3. QED
    BY <1>1, <2>1, <2>2, CollectorAssumption DEF LocalAgrees, Locations
<1>3. QED
  BY <1>1, <1>2, CollectorAssumption
  DEF ControlInv, TypeOK, LocalAgrees, Published, ThreadsRegistered

(* What no thread holds any more can be moved and dropped at will: a step  *)
(* that leaves the epoch alone, opens no guard and adds nothing to what is *)
(* held or can age keeps layer 3.                                          *)
LEMMA ProtectFrame ==
    ASSUME ControlInv, ProtectInv, epoch' = epoch,
           \A r \in Threads :
               held'[r] = IF InGuard(r)' THEN held[r] ELSE {},
           \A r \in Threads, c \in Collectors, l \in Lists :
               \A i \in held[r] : i \in garbage'[c][l] => i \in garbage[c][l],
           \A r \in Threads : \A i \in held[r] : life'[i] = life[i],
           \A c \in Collectors : life'[c] = "retired" => life[c] = "retired",
           \A r \in Threads : InGuard(r)' =>
               /\ InGuard(r)
               /\ local'[r] = local[r]
               /\ announcement'[local[r]] = announcement[local[r]]
               /\ Missed(r)' => CanAdvance(r),
           local' \in [Threads -> Collectors \cup {NoCollector}],
           \A u \in Threads : local'[u] # NoCollector =>
               \/ /\ local'[u] = local[u]
                  /\ announcement'[local[u]] = announcement[local[u]]
               \/ \A l \in Lists : garbage[local'[u]][l] = {},
           \A u \in Threads : pc'[u] = "pin" =>
               /\ local'[u] = local[u] /\ local[u] # NoCollector
               /\ announcement'[local[u]] = announcement[local[u]]
               /\ \/ pc[u] = "pin" /\ loaded'[u] = loaded[u]
                  \/ loaded'[u] = epoch
    PROVE  ProtectInv'
<1>1. /\ \A r \in Threads : held'[r] # {} => InGuard(r)' /\ held'[r] = held[r]
      /\ \A r \in Threads : held'[r] # {} => (CanAdvance(r)' => CanAdvance(r))
  BY DEF CanAdvance
<1>2. \A r \in Threads, c \in Collectors, l \in Lists :
          \A i : i \in held'[r] /\ i \in garbage'[c][l] =>
              i \in held[r] /\ i \in garbage[c][l] /\ held'[r] = held[r]
  BY <1>1
<1>3. GuardProtects' /\ HeldByGuarded'
  BY DEF ProtectInv, GuardProtects, HeldByGuarded
<1>4. HeldNotDropped'
  BY <1>2 DEF ProtectInv, HeldNotDropped, Lists, HoldsIn
<1>5. HeldWithCollector'
  BY <1>2 DEF ProtectInv, HeldWithCollector, HoldsIn
<1>6. MissedIsRecent'
  BY EpochSuccession DEF ProtectInv, MissedIsRecent, CanAdvance, ControlInv, TypeOK
<1>7. HeldAge'
  <2> SUFFICES ASSUME NEW r \in Threads, NEW u \in Threads, local'[u] # NoCollector
               PROVE  /\ HoldsIn(r, local[u], "previous")' =>
                             announcement'[local'[u]] = epoch \/ ~CanAdvance(r)'
                      /\ HoldsIn(r, local[u], "next")' =>
                             announcement'[local'[u]] = epoch /\ ~CanAdvance(r)'
    BY DEF HeldAge
  <2>1. local'[u] \in Collectors /\ "previous" \in Lists /\ "next" \in Lists
    BY DEF Lists
  <2>2. CASE \A l \in Lists : garbage[local'[u]][l] = {}
    BY <1>2, <2>1, <2>2 DEF HoldsIn
  <2>3. CASE local'[u] = local[u] /\ announcement'[local[u]] = announcement[local[u]]
    BY <1>1, <1>2, <2>1, <2>3 DEF ProtectInv, HeldAge, HoldsIn
  <2>4. QED
    BY <2>2, <2>3
<1>8. HeldAgeLoaded'
  <2> SUFFICES ASSUME NEW r \in Threads, NEW u \in Threads, pc'[u] = "pin"
               PROVE  /\ HoldsIn(r, local[u], "current")' =>
                             loaded'[u] = epoch \/ ~CanAdvance(r)'
                      /\ HoldsIn(r, local[u], "previous")' =>
                             \/ loaded'[u] = announcement'[local'[u]]
                             \/ loaded'[u] = epoch /\ ~CanAdvance(r)'
                      /\ HoldsIn(r, local[u], "next")' =>
                             loaded'[u] = announcement'[local'[u]]
    BY DEF HeldAgeLoaded
  <2>1. /\ local[u] \in Collectors
        /\ "current" \in Lists /\ "previous" \in Lists /\ "next" \in Lists
    BY DEF Lists, ControlInv, TypeOK
  <2>2. CASE pc[u] = "pin" /\ loaded'[u] = loaded[u]
    BY <1>1, <1>2, <2>1, <2>2 DEF ProtectInv, HeldAgeLoaded, HoldsIn
  <2>3. CASE loaded'[u] = epoch
    BY <1>1, <1>2, <2>1, <2>3 DEF ProtectInv, HeldAge, HoldsIn
  <2>4. QED
    BY <2>2, <2>3
<1>9. QED
  BY <1>3, <1>4, <1>5, <1>6, <1>7, <1>8 DEF ProtectInv

(* Initially nothing is held.                                              *)
LEMMA ProtectInit == Init => ProtectInv
<1> SUFFICES ASSUME Init PROVE ProtectInv
  OBVIOUS
<1>1. \A r \in Threads : held[r] = {} /\ local[r] = NoCollector /\ pc[r] = "idle"
  BY DEF Init
<1>2. QED
  BY <1>1 DEF ProtectInv, GuardProtects, HeldByGuarded, HeldNotDropped,
              HeldWithCollector, MissedIsRecent, HeldAge, HeldAgeLoaded, HoldsIn,
              InGuard

(* collect(): an item that was in no list goes to a current list, and is   *)
(* held from then on by every thread with a guard.                         *)
LEMMA CollectProtects ==
    ASSUME ControlInv, ControlInv', GarbageInv, ProtectInv,
           NEW t \in Threads, local[t] \in Collectors, pc[t] # "pin",
           NEW i \in Items, life[i] = "live",
           life' = [life EXCEPT ![i] = "retired"],
           held' = HeldBy(Guarded, {i}),
           garbage' = [x \in Collectors |-> [l \in Lists |->
               IF x = local[t] /\ l = "current"
               THEN garbage[x][l] \cup {i} ELSE garbage[x][l]]],
           UNCHANGED <<epoch, announcement, local, num_readers, loaded, pc>>,
           \A r \in Guarded : local[r] \in todo => local[r] \in todo'
    PROVE  ProtectInv'
<1>1. \A r \in Threads : InGuard(r)' <=> InGuard(r)
  BY DEF InGuard
<1>2. \A r \in Threads : held'[r] = IF InGuard(r) THEN held[r] \cup {i} ELSE {}
  BY DEF HeldBy, Guarded, ProtectInv, HeldByGuarded
<1>3. \A r \in Threads : InGuard(r) => (CanAdvance(r)' => CanAdvance(r))
  BY DEF CanAdvance, Missed, Guarded
<1>4. \A x \in Collectors, l \in Lists : i \notin garbage[x][l]
  BY DEF GarbageInv, GarbageConserved, ListedIn
<1>5. life[local[t]] = "live" /\ local[t] \in chain
  BY CollectorAssumption DEF ControlInv, ThreadsRegistered, GarbageInv, ChainLive
<1>6. GuardProtects' /\ HeldByGuarded'
  BY <1>1, <1>2 DEF ProtectInv, GuardProtects, HeldByGuarded, ControlInv, TypeOK
<1>7. \A r \in Threads, x \in Collectors, l \in Lists :
          \A k : k \in held'[r] /\ k \in garbage'[x][l] =>
              /\ InGuard(r)
              /\ \/ k \in held[r] /\ k \in garbage[x][l]
                 \/ x = local[t] /\ l = "current"
  <2> SUFFICES ASSUME NEW r \in Threads, NEW x \in Collectors, NEW l \in Lists,
                      NEW k, k \in held'[r], k \in garbage'[x][l],
                      ~(x = local[t] /\ l = "current")
               PROVE  InGuard(r) /\ k \in held[r] /\ k \in garbage[x][l]
    BY <1>2
  <2>1. k \in garbage[x][l]
    OBVIOUS
  <2>2. k # i
    BY <1>4, <2>1
  <2>3. QED
    BY <1>2, <2>1, <2>2
<1>8. HeldNotDropped'
  BY <1>7 DEF ProtectInv, HeldNotDropped, Lists, HoldsIn
<1>9. HeldWithCollector'
  <2> SUFFICES ASSUME NEW r \in Threads, NEW x \in Collectors, NEW l \in Lists,
                      life'[x] = "retired", HoldsIn(r, x, l)'
               PROVE  x \in held'[r]
    BY DEF HeldWithCollector
  <2>1. InGuard(r)
    BY <1>7 DEF HoldsIn
  <2>2. CASE x = i
    BY <1>2, <2>1, <2>2
  <2>3. CASE x # i
    <3>1. life[x] = "retired" /\ x # local[t]
      BY <1>5, <2>3 DEF ControlInv, TypeOK, Items
    <3>2. PICK k : k \in held[r] /\ k \in garbage[x][l]
      BY <1>7, <3>1 DEF HoldsIn
    <3>3. x \in held[r]
      BY <3>1, <3>2 DEF ProtectInv, HeldWithCollector, HoldsIn
    <3>4. QED
      BY <1>2, <2>1, <3>3
  <2>4. QED
    BY <2>2, <2>3
<1>10. MissedIsRecent'
  BY <1>1 DEF ProtectInv, MissedIsRecent, Missed, Guarded
<1>11. HeldAge'
  <2>1. \A r \in Threads, x \in Collectors, l \in {"previous", "next"} :
            \A k : k \in held'[r] /\ k \in garbage'[x][l] =>
                InGuard(r) /\ k \in held[r] /\ k \in garbage[x][l]
    BY <1>7 DEF Lists
  <2>2. \A u \in Threads : local[u] # NoCollector => local[u] \in Collectors
    BY DEF ControlInv, TypeOK
  <2>3. ASSUME NEW r \in Threads, NEW u \in Threads, local[u] # NoCollector
        PROVE  /\ HoldsIn(r, local[u], "previous")' =>
                      announcement[local[u]] = epoch \/ ~CanAdvance(r)'
               /\ HoldsIn(r, local[u], "next")' =>
                      announcement[local[u]] = epoch /\ ~CanAdvance(r)'
    BY ZenonT(60), <1>3, <2>1, <2>2, <2>3 DEF ProtectInv, HeldAge, HoldsIn
  <2>4. QED
    BY <2>3 DEF HeldAge
<1>12. HeldAgeLoaded'
  <2> SUFFICES ASSUME NEW r \in Threads, NEW u \in Threads, pc[u] = "pin"
               PROVE  LET c == local[u] IN
                      /\ HoldsIn(r, c, "current")' =>
                             loaded[u] = epoch \/ ~CanAdvance(r)'
                      /\ HoldsIn(r, c, "previous")' =>
                             \/ loaded[u] = announcement[c]
                             \/ loaded[u] = epoch /\ ~CanAdvance(r)'
                      /\ HoldsIn(r, c, "next")' =>
                             loaded[u] = announcement[c]
    BY DEF HeldAgeLoaded
  <2>1. local[u] \in Collectors /\ local[u] # local[t]
    BY CollectorAssumption DEF ControlInv, TypeOK, LocalAgrees, ThreadsRegistered
  <2>2. \A l \in {"current", "previous", "next"} :
            \A k : k \in held'[r] /\ k \in garbage'[local[u]][l] =>
                InGuard(r) /\ k \in held[r] /\ k \in garbage[local[u]][l]
    BY ZenonT(60), <1>7, <2>1 DEF Lists
  <2>3. QED
    BY <1>3, <2>2 DEF ProtectInv, HeldAgeLoaded, HoldsIn, HoldsIn
<1>13. QED
  BY <1>6, <1>8, <1>9, <1>10, <1>11, <1>12 DEF ProtectInv

(* Closing the last guard lets go of everything it held.                   *)
LEMMA LastGuardReleases ==
    ASSUME ControlInv, HeldByGuarded, NEW t \in Threads, LastGuard(t)
    PROVE  /\ \A r \in Threads : InGuard(r)' => InGuard(r) \/ pc[r] = "pin"
           /\ \A r \in Threads :
                  pc'[r] = pc[r] \/ r = t =>
                      held'[r] = IF InGuard(r)' THEN held[r] ELSE {}
<1>1. /\ local[t] \in Collectors /\ local' = local
      /\ num_readers' = [num_readers EXCEPT ![local[t]] = 0]
      /\ held' = [held EXCEPT ![t] = {}]
  BY DEF LastGuard, ControlInv, TypeOK
<1>2. ~InGuard(t)'
  BY <1>1 DEF InGuard, ControlInv, TypeOK
<1>3. \A r \in Threads : r # t => local[r] # local[t]
  BY <1>1, CollectorAssumption DEF ControlInv, ThreadsRegistered
<1>4. \A r \in Threads : r # t /\ pc'[r] = pc[r] => (InGuard(r)' <=> InGuard(r))
  BY <1>1, <1>3 DEF InGuard, ControlInv, TypeOK
<1>5. \A r \in Threads : r # t => (InGuard(r)' => InGuard(r) \/ pc[r] = "pin")
  BY <1>1, <1>3 DEF InGuard, ControlInv, TypeOK
<1>6. QED
  BY <1>1, <1>2, <1>4, <1>5 DEF HeldByGuarded, ControlInv, TypeOK
(* Layer 3 is kept by every step that ForwardStep allows, given the first  *)
(* two layers.                                                             *)
LEMMA ProtectStep ==
    ControlInv /\ GarbageInv /\ ProtectInv /\ [Next /\ ForwardStep]_vars
        => ProtectInv'
<1> SUFFICES ASSUME ControlInv, GarbageInv, ProtectInv,
                    [Next /\ ForwardStep]_vars
             PROVE  ProtectInv'
  OBVIOUS
<1> USE CollectorAssumption, EpochSuccession
<1>1. ControlInv'
  BY ControlStep
<1>2. \A r \in Threads : ~InGuard(r) => held[r] = {}
  BY DEF ProtectInv, HeldByGuarded
<1>3. CASE UNCHANGED vars
  <2>1. \A r \in Threads : InGuard(r)' <=> InGuard(r)
    BY <1>3 DEF InGuard, vars, private
  <2>2. QED
    BY <1>2, <1>3, <2>1, ProtectFrame DEF vars, shared, private, lists, CanAdvance, Missed, ControlInv, TypeOK, LocalAgrees
<1>4. CASE Next /\ ForwardStep
  <2>1. ASSUME NEW t \in Threads, NEW c \in Collectors, Alloc(t, c) PROVE ProtectInv'
    <3>1. /\ UNCHANGED <<epoch, garbage, life, held, pc, loaded, todo>>
          /\ local' = [local EXCEPT ![t] = c]
          /\ announcement' = [announcement EXCEPT ![c] = 0]
          /\ num_readers' = [num_readers EXCEPT ![c] = 0]
          /\ c \notin chain /\ life[c] = "live"
          /\ local[t] = NoCollector /\ pc[t] = "idle"
      BY <2>1 DEF Alloc
    <3>2. \A u \in Threads : local[u] # c
      BY <3>1 DEF ControlInv, ThreadsRegistered
    <3>3. \A r \in Threads \ {t} : local'[r] = local[r] /\ (InGuard(r)' <=> InGuard(r))
      BY <3>1, <3>2 DEF InGuard, ControlInv, TypeOK
    <3>4. ~InGuard(t) /\ ~InGuard(t)'
      BY <3>1 DEF InGuard, ControlInv, TypeOK
    <3>5. \A u \in Threads : local[u] # NoCollector =>
              announcement'[local[u]] = announcement[local[u]]
      BY <3>1, <3>2 DEF ControlInv, TypeOK
    <3>6. \A l \in Lists : garbage[c][l] = {}
      <4>1. \A i \in Items : ~ListedIn(i, c)
        BY <3>1, <3>2 DEF GarbageInv, GarbageReachable
      <4>2. \A l \in Lists : garbage[c][l] \subseteq Items
        BY DEF ControlInv, TypeOK
      <4>3. QED
        BY <4>1, <4>2 DEF ListedIn
    <3>7. \A r \in Threads : InGuard(r)' /\ Missed(r)' => CanAdvance(r)
      BY <3>1, <3>3, <3>4, <3>5 DEF CanAdvance, Missed, ControlInv, TypeOK, LocalAgrees
    <3>8. local' \in [Threads -> Collectors \cup {NoCollector}] /\ local'[t] = c
      BY <3>1 DEF ControlInv, TypeOK
    <3>9. \A u \in Threads : pc'[u] = "pin" => u # t /\ local[u] # NoCollector
      BY <3>1 DEF ControlInv, LocalAgrees
    <3>10. \A r \in Threads : InGuard(r)' => r # t /\ local[r] # NoCollector
      BY <3>3, <3>4 DEF InGuard
    <3>11. QED
      BY <1>2, <3>1, <3>3, <3>4, <3>5, <3>6, <3>7, <3>8, <3>9, <3>10, ProtectFrame
  <2>2. ASSUME NEW t \in Threads, LoadEpoch(t) PROVE ProtectInv'
    <3>1. UNCHANGED <<epoch, garbage, life, announcement, local>>
      BY <2>2 DEF LoadEpoch, shared, private, lists
    <3>2. \A r \in Threads : InGuard(r)' => InGuard(r)
      BY <2>2 DEF LoadEpoch, Goto, shared, private, lists, InGuard, ControlInv, TypeOK, LocalAgrees, ThreadsRegistered
    <3>3. \A r \in Threads : held'[r] = IF InGuard(r)' THEN held[r] ELSE {}
      BY <1>2, <2>2, <3>2 DEF LoadEpoch, Goto, shared, private, lists, InGuard, ControlInv, TypeOK, LocalAgrees, ThreadsRegistered
    <3>4. \A r \in Threads : InGuard(r)' /\ Missed(r)' => CanAdvance(r)
      BY <2>2, <3>2 DEF LoadEpoch, Goto, shared, private, lists, InGuard, CanAdvance, Missed, ControlInv, TypeOK, LocalAgrees, ThreadsRegistered
    <3>5. \A u \in Threads : pc'[u] = "pin" =>
              /\ local[u] # NoCollector
              /\ (pc[u] = "pin" /\ loaded'[u] = loaded[u]) \/ loaded'[u] = epoch
      BY <2>2 DEF LoadEpoch, Goto, ControlInv, TypeOK, LocalAgrees
    <3>6. QED
      BY <3>1, <3>2, <3>3, <3>4, <3>5, ProtectFrame DEF ControlInv, TypeOK
  <2>3. ASSUME NEW t \in Threads, Pin(t) PROVE ProtectInv'
    <3> DEFINE c == local[t]
    <3>1. /\ UNCHANGED <<epoch, todo, num_readers, life, local, loaded, held>>
          /\ c \in Collectors /\ num_readers[c] = 1 /\ pc[t] = "pin"
          /\ announcement' = [announcement EXCEPT ![c] = loaded[t]]
          /\ pc'[t] \in {"drop", "idle"} /\ \A u \in Threads \ {t} : pc'[u] = pc[u]
          /\ loaded[t] # NextEpoch(epoch)
          /\ \A u \in Threads \ {t} : local[u] # c
      BY <1>4, <2>3 DEF Pin, Goto, ForwardStep, shared, ControlInv, TypeOK, LocalAgrees, ThreadsRegistered
    <3>2. /\ ~InGuard(t) /\ InGuard(t)' /\ held[t] = {}
          /\ \A r \in Threads \ {t} : InGuard(r)' <=> InGuard(r)
      BY <1>2, <3>1 DEF InGuard
    <3>3. \A u \in Threads \ {t} : local[u] # NoCollector =>
              announcement'[local[u]] = announcement[local[u]]
      BY <3>1 DEF ControlInv, TypeOK
    <3>4. announcement'[c] = loaded[t]
      BY <3>1 DEF ControlInv, TypeOK
    <3>5. \A r \in Threads : Missed(r)' <=> Missed(r)
      BY SMTT(30), <3>1, <3>3 DEF Missed, ControlInv, TypeOK, LocalAgrees
    <3>6. \A r \in Threads : held[r] # {} =>
              InGuard(r) /\ (CanAdvance(r)' <=> CanAdvance(r))
      BY <1>2, <3>1, <3>2, <3>3, <3>5 DEF CanAdvance, InGuard
    <3>7. GuardProtects' /\ HeldByGuarded'
      BY <3>1, <3>2 DEF ProtectInv, GuardProtects, HeldByGuarded
    <3>8. MissedIsRecent'
      BY <3>1, <3>2, <3>3, <3>4, <3>5 DEF ProtectInv, MissedIsRecent, InGuard
    <3>9. HeldNotDropped' /\ HeldWithCollector' /\ HeldAge' /\ HeldAgeLoaded'
      <4>1. CASE announcement[c] # loaded[t] /\ has_garbage[c]
        <5>1. garbage' = [x \in Collectors |-> [l \in Lists |->
               IF x = c
               THEN IF l = "previous" THEN garbage[x]["current"]
                    ELSE IF l = "next"     THEN garbage[x]["previous"]
                    ELSE IF l = "dropping" THEN garbage[x]["next"]
                    ELSE {}
               ELSE garbage[x][l]]]
          BY <2>3, <3>1, <4>1, PinLists DEF ControlInv
        <5>2. /\ \A l \in Lists : garbage'[c][l] =
                      IF l = "previous" THEN garbage[c]["current"]
                      ELSE IF l = "next"     THEN garbage[c]["previous"]
                      ELSE IF l = "dropping" THEN garbage[c]["next"]
                      ELSE {}
              /\ \A x \in Collectors, l \in Lists : x # c => garbage'[x][l] = garbage[x][l]
          BY <3>1, <5>1
        <5>3. \A r \in Threads : \A i \in held[r] :
                  /\ i \in garbage[c]["current"] => loaded[t] = epoch \/ ~CanAdvance(r)
                  /\ i \in garbage[c]["previous"] => loaded[t] = epoch /\ ~CanAdvance(r)
                  /\ i \notin garbage[c]["next"]
          BY <3>1, <4>1 DEF ProtectInv, HeldAgeLoaded, HoldsIn
        <5>4. HeldNotDropped'
          BY <3>1, <5>2, <5>3 DEF ProtectInv, HeldNotDropped, HoldsIn, Lists
        <5>5. life[c] = "live"
          BY <3>1 DEF ControlInv, ThreadsRegistered, GarbageInv, ChainLive
        <5>6. HeldWithCollector'
          BY <3>1, <5>2, <5>5 DEF ProtectInv, HeldWithCollector, HoldsIn
        <5>7. ASSUME NEW r \in Threads, NEW u \in Threads, local[u] # NoCollector
              PROVE  /\ HoldsIn(r, local[u], "previous")' =>
                            announcement'[local[u]] = epoch \/ ~CanAdvance(r)'
                     /\ HoldsIn(r, local[u], "next")' =>
                            announcement'[local[u]] = epoch /\ ~CanAdvance(r)'
          <6>1. local[u] \in Collectors /\ "previous" \in Lists /\ "next" \in Lists
            BY <5>7 DEF ControlInv, TypeOK, Lists
          <6>2. CASE u = t
            BY <3>1, <3>4, <3>6, <5>2, <5>3, <6>1, <6>2 DEF HoldsIn
          <6>3. CASE u # t
            BY <3>1, <3>3, <3>6, <5>2, <5>7, <6>1, <6>3 DEF ProtectInv, HeldAge, HoldsIn
          <6>4. QED
            BY <6>2, <6>3
        <5>8. HeldAge'
          BY <3>1, <5>7 DEF HeldAge
        <5>9. ASSUME NEW r \in Threads, NEW u \in Threads, pc'[u] = "pin"
              PROVE  /\ HoldsIn(r, local[u], "current")' =>
                            loaded[u] = epoch \/ ~CanAdvance(r)'
                     /\ HoldsIn(r, local[u], "previous")' =>
                            \/ loaded[u] = announcement'[local[u]]
                            \/ loaded[u] = epoch /\ ~CanAdvance(r)'
                     /\ HoldsIn(r, local[u], "next")' =>
                            loaded[u] = announcement'[local[u]]
          <6>1. u # t /\ pc[u] = "pin" /\ local[u] # NoCollector
            BY <3>1, <5>9 DEF ControlInv, LocalAgrees
          <6>2. /\ local[u] \in Collectors /\ local[u] # c
                /\ "current" \in Lists /\ "previous" \in Lists /\ "next" \in Lists
            BY <3>1, <6>1 DEF ControlInv, TypeOK, Lists
          <6>3. QED
            BY <3>1, <3>3, <3>6, <5>2, <6>1, <6>2 DEF ProtectInv, HeldAgeLoaded, HoldsIn
        <5>10. HeldAgeLoaded'
          BY <3>1, <5>9 DEF HeldAgeLoaded
        <5>11. QED
          BY <5>4, <5>6, <5>8, <5>10
      <4>2. CASE ~(announcement[c] # loaded[t] /\ has_garbage[c])
        <5>1. garbage' = garbage
          BY <2>3, <4>2 DEF Pin
        <5>2. \/ announcement[c] = loaded[t]
              \/ \A l \in {"current", "previous", "next"} : garbage[c][l] = {}
          BY <3>1, <4>2 DEF GarbageInv, GarbageFlagged
        <5>3. HeldNotDropped' /\ HeldWithCollector'
          BY <3>1, <5>1 DEF ProtectInv, HeldNotDropped, HeldWithCollector, HoldsIn
        <5>4. HeldAge'
          BY <3>1, <3>3, <3>4, <3>6, <5>1, <5>2 DEF ProtectInv, HeldAge, HoldsIn
        <5>5. HeldAgeLoaded'
          BY <3>1, <3>3, <3>6, <5>1 DEF ProtectInv, HeldAgeLoaded, HoldsIn, ControlInv, LocalAgrees
        <5>6. QED
          BY <5>3, <5>4, <5>5
      <4>3. QED
        BY <4>1, <4>2
    <3>10. QED
      BY <3>7, <3>8, <3>9 DEF ProtectInv
  <2>4. ASSUME NEW t \in Threads, NestGuard(t) PROVE ProtectInv'
    <3>1. UNCHANGED <<epoch, garbage, life, announcement, local>>
      BY <2>4 DEF NestGuard, shared, private, lists
    <3>2. \A r \in Threads : InGuard(r)' => InGuard(r)
      BY <2>4 DEF NestGuard, Goto, shared, private, lists, InGuard, ControlInv, TypeOK, LocalAgrees, ThreadsRegistered
    <3>3. \A r \in Threads : held'[r] = IF InGuard(r)' THEN held[r] ELSE {}
      BY <1>2, <2>4, <3>2 DEF NestGuard, Goto, shared, private, lists, InGuard, ControlInv, TypeOK, LocalAgrees, ThreadsRegistered
    <3>4. \A r \in Threads : InGuard(r)' /\ Missed(r)' => CanAdvance(r)
      BY <2>4, <3>2 DEF NestGuard, Goto, shared, private, lists, InGuard, CanAdvance, Missed, ControlInv, TypeOK, LocalAgrees, ThreadsRegistered
    <3>5. \A u \in Threads : pc'[u] = "pin" =>
              /\ local[u] # NoCollector
              /\ (pc[u] = "pin" /\ loaded'[u] = loaded[u]) \/ loaded'[u] = epoch
      BY <2>4 DEF NestGuard, Goto, ControlInv, TypeOK, LocalAgrees
    <3>6. QED
      BY <3>1, <3>2, <3>3, <3>4, <3>5, ProtectFrame DEF ControlInv, TypeOK
  <2>5. ASSUME NEW t \in Threads, NEW o \in Objects, DropObject(t, o) PROVE ProtectInv'
    <3>1. /\ UNCHANGED <<epoch, todo, announcement, num_readers, local, loaded, pc, held>>
          /\ local[t] \in Collectors
          /\ life' = [life EXCEPT ![o] = "live"]
          /\ o \in garbage[local[t]]["dropping"] \/ o \in garbage[local[t]]["clearing"]
      BY <2>5 DEF DropObject, BeingDropped, shared, private, ControlInv, TypeOK, LocalAgrees
    <3>2. \A r \in Threads : o \notin held[r]
      BY <3>1 DEF ProtectInv, HeldNotDropped, HoldsIn
    <3>3. \A x \in Collectors, l \in Lists : \A i :
              i \in garbage'[x][l] => i \in garbage[x][l]
      BY <2>5, <3>1, DropObjectLists DEF ControlInv
    <3>4. /\ \A r \in Threads : \A i \in held[r] : life'[i] = life[i]
          /\ \A x \in Collectors : life'[x] = "retired" => life[x] = "retired"
      BY <3>1, <3>2 DEF ControlInv, TypeOK, Items
    <3>5. \A r \in Threads : (InGuard(r)' <=> InGuard(r)) /\ (Missed(r)' <=> Missed(r))
      BY <3>1 DEF InGuard, Missed
    <3>6. QED
      BY <1>2, <3>1, <3>3, <3>4, <3>5, ProtectFrame DEF CanAdvance, ControlInv, TypeOK, LocalAgrees
  <2>6. ASSUME NEW t \in Threads, NEW d \in Collectors, DropCollector(t, d) PROVE ProtectInv'
    <3>1. /\ UNCHANGED <<epoch, todo, num_readers, local, loaded, pc, held>>
          /\ local[t] \in Collectors
          /\ life' = [life EXCEPT ![d] = "live"]
          /\ announcement' = [announcement EXCEPT ![d] = 0]
          /\ d \in garbage[local[t]]["dropping"] \/ d \in garbage[local[t]]["clearing"]
      BY <2>6 DEF DropCollector, BeingDropped, shared, ControlInv, TypeOK, LocalAgrees
    <3>2. \A r \in Threads : d \notin held[r]
      BY <3>1 DEF ProtectInv, HeldNotDropped, HoldsIn
    <3>3. life[d] = "retired" /\ \A u \in Threads : local[u] # d
      BY <3>1 DEF GarbageInv, GarbageConserved, ListedIn, ChainLive, Lists, Items, ControlInv, ThreadsRegistered
    <3>4. \A r \in Threads, l \in Lists : \A i \in held[r] : i \notin garbage[d][l]
      BY <3>2, <3>3 DEF ProtectInv, HeldWithCollector, HoldsIn
    <3>5. \A r \in Threads, x \in Collectors, l \in Lists :
              \A i \in held[r] : i \in garbage'[x][l] => i \in garbage[x][l]
      <4>1. garbage' = [x \in Collectors |-> [l \in Lists |->
               IF x = d THEN {}
               ELSE IF x = local[t] /\ l = "dropping" THEN garbage[x][l] \ {d}
               ELSE IF x = local[t] /\ l = "clearing"
                    THEN (garbage[x][l] \ {d}) \cup garbage[d]["previous"]
                            \cup garbage[d]["current"] \cup garbage[d]["next"]
               ELSE garbage[x][l]]]
        BY <2>6, <3>1, <3>3, DropCollectorLists DEF ControlInv
      <4>2. QED
        BY <3>4, <4>1 DEF Lists
    <3>6. /\ \A r \in Threads : \A i \in held[r] : life'[i] = life[i]
          /\ \A x \in Collectors : life'[x] = "retired" => life[x] = "retired"
      BY <3>1, <3>2 DEF ControlInv, TypeOK, Items
    <3>7. \A u \in Threads : local[u] # NoCollector =>
              announcement'[local[u]] = announcement[local[u]]
      BY <3>1, <3>3 DEF ControlInv, TypeOK
    <3>8. \A r \in Threads : (InGuard(r)' <=> InGuard(r)) /\ (InGuard(r) => local[r] # NoCollector)
      BY <3>1 DEF InGuard
    <3>9. \A r \in Threads : Missed(r)' => Missed(r)
      BY <3>1, <3>7 DEF Missed, ControlInv, LocalAgrees
    <3>10. QED
      BY <1>2, <3>1, <3>5, <3>6, <3>7, <3>8, <3>9, ProtectFrame DEF CanAdvance, ControlInv, TypeOK, LocalAgrees
  <2>7. ASSUME NEW t \in Threads, FinishDrop(t) PROVE ProtectInv'
    <3>1. UNCHANGED <<epoch, garbage, life, announcement, local>>
      BY <2>7 DEF FinishDrop, shared, private, lists
    <3>2. \A r \in Threads : InGuard(r)' => InGuard(r)
      BY <2>7 DEF FinishDrop, Goto, shared, private, lists, InGuard, ControlInv, TypeOK, LocalAgrees, ThreadsRegistered
    <3>3. \A r \in Threads : held'[r] = IF InGuard(r)' THEN held[r] ELSE {}
      BY <1>2, <2>7, <3>2 DEF FinishDrop, Goto, shared, private, lists, InGuard, ControlInv, TypeOK, LocalAgrees, ThreadsRegistered
    <3>4. \A r \in Threads : InGuard(r)' /\ Missed(r)' => CanAdvance(r)
      BY <2>7, <3>2 DEF FinishDrop, Goto, shared, private, lists, InGuard, CanAdvance, Missed, ControlInv, TypeOK, LocalAgrees, ThreadsRegistered
    <3>5. \A u \in Threads : pc'[u] = "pin" =>
              /\ local[u] # NoCollector
              /\ (pc[u] = "pin" /\ loaded'[u] = loaded[u]) \/ loaded'[u] = epoch
      BY <2>7 DEF FinishDrop, Goto, ControlInv, TypeOK, LocalAgrees
    <3>6. QED
      BY <3>1, <3>2, <3>3, <3>4, <3>5, ProtectFrame DEF ControlInv, TypeOK
  <2>8. ASSUME NEW t \in Threads, NEW o \in Objects, DropPanics(t, o) PROVE ProtectInv'
    <3>1. /\ UNCHANGED <<epoch, todo, announcement, num_readers, local, loaded, held>>
          /\ local[t] \in Collectors
          /\ life' = [life EXCEPT ![o] = "live"]
          /\ o \in garbage[local[t]]["dropping"] \/ o \in garbage[local[t]]["clearing"]
          /\ pc[t] = "drop" /\ pc' = [pc EXCEPT ![t] = "unwind"]
      BY <2>8 DEF DropPanics, BeingDropped, Goto, shared, private, ControlInv, TypeOK, LocalAgrees
    <3>2. \A r \in Threads : o \notin held[r]
      BY <3>1 DEF ProtectInv, HeldNotDropped, HoldsIn
    <3>3. \A r \in Threads, x \in Collectors, l \in Lists :
              \A i \in held[r] : i \in garbage'[x][l] => i \in garbage[x][l]
      <4>1. garbage' = [x \in Collectors |-> [l \in Lists |->
               IF x # local[t] \/ l \in {"previous", "next"} THEN garbage[x][l]
               ELSE IF l = "current"
                    THEN garbage[x][l] \cup (garbage[x]["dropping"] \ {o})
               ELSE {}]]
        BY <2>8, <3>1, DropPanicsLists DEF ControlInv
      <4>2. \A r \in Threads, x \in Collectors :
                \A i \in held[r] : i \notin garbage[x]["dropping"]
        BY DEF ProtectInv, HeldNotDropped, HoldsIn
      <4>3. QED
        BY <4>1, <4>2
    <3>4. /\ \A r \in Threads : \A i \in held[r] : life'[i] = life[i]
          /\ \A x \in Collectors : life'[x] = "retired" => life[x] = "retired"
      BY <3>1, <3>2 DEF ControlInv, TypeOK, Items
    <3>5. \A r \in Threads : (InGuard(r)' <=> InGuard(r)) /\ (Missed(r)' <=> Missed(r))
      BY <3>1 DEF InGuard, Missed, ControlInv, TypeOK
    <3>6. \A u \in Threads : pc'[u] = "pin" => pc[u] = "pin" /\ local[u] # NoCollector
      BY <3>1 DEF ControlInv, TypeOK, LocalAgrees
    <3>7. QED
      BY <1>2, <3>1, <3>3, <3>4, <3>5, <3>6, ProtectFrame DEF CanAdvance, ControlInv, TypeOK
  <2>9. ASSUME NEW t \in Threads, NEW o \in Objects, Retire(t, o) PROVE ProtectInv'
    <3>1. /\ local[t] \in Collectors /\ pc[t] # "pin" /\ o \in Items
          /\ life[o] = "live" /\ life' = [life EXCEPT ![o] = "retired"]
          /\ held' = HeldBy(Guarded, {o})
          /\ UNCHANGED <<epoch, announcement, local, num_readers, loaded, pc, todo>>
      BY <2>9 DEF Retire, Collect, shared, private, Items, ControlInv, TypeOK
    <3>2. garbage' = [x \in Collectors |-> [l \in Lists |->
               IF x = local[t] /\ l = "current"
               THEN garbage[x][l] \cup {o} ELSE garbage[x][l]]]
      BY <2>9, <3>1, RetireLists DEF ControlInv
    <3>3. QED
      BY <1>1, <3>1, <3>2, CollectProtects
  <2>10. ASSUME NEW t \in Threads, Accelerate(t) PROVE ProtectInv'
    <3>1. UNCHANGED <<epoch, garbage, life, announcement, local>>
      BY <2>10 DEF Accelerate, shared, private, lists
    <3>2. \A r \in Threads : InGuard(r)' => InGuard(r)
      BY <2>10 DEF Accelerate, Goto, shared, private, lists, InGuard, ControlInv, TypeOK, LocalAgrees, ThreadsRegistered
    <3>3. \A r \in Threads : held'[r] = IF InGuard(r)' THEN held[r] ELSE {}
      BY <1>2, <2>10, <3>2 DEF Accelerate, Goto, shared, private, lists, InGuard, ControlInv, TypeOK, LocalAgrees, ThreadsRegistered
    <3>4. \A r \in Threads : InGuard(r)' /\ Missed(r)' => CanAdvance(r)
      BY <2>10, <3>2 DEF Accelerate, Goto, shared, private, lists, InGuard, CanAdvance, Missed, ControlInv, TypeOK, LocalAgrees, ThreadsRegistered
    <3>5. \A u \in Threads : pc'[u] = "pin" =>
              /\ local[u] # NoCollector
              /\ (pc[u] = "pin" /\ loaded'[u] = loaded[u]) \/ loaded'[u] = epoch
      BY <2>10 DEF Accelerate, Goto, ControlInv, TypeOK, LocalAgrees
    <3>6. QED
      BY <3>1, <3>2, <3>3, <3>4, <3>5, ProtectFrame DEF ControlInv, TypeOK
  <2>11. ASSUME NEW t \in Threads, SetHasGarbage(t) PROVE ProtectInv'
    <3>1. UNCHANGED <<epoch, garbage, life, announcement, local>>
      BY <2>11 DEF SetHasGarbage, shared, private, lists
    <3>2. \A r \in Threads : InGuard(r)' => InGuard(r)
      BY <2>11 DEF SetHasGarbage, Goto, shared, private, lists, InGuard, ControlInv, TypeOK, LocalAgrees, ThreadsRegistered
    <3>3. \A r \in Threads : held'[r] = IF InGuard(r)' THEN held[r] ELSE {}
      BY <1>2, <2>11, <3>2 DEF SetHasGarbage, Goto, shared, private, lists, InGuard, ControlInv, TypeOK, LocalAgrees, ThreadsRegistered
    <3>4. \A r \in Threads : InGuard(r)' /\ Missed(r)' => CanAdvance(r)
      BY <2>11, <3>2 DEF SetHasGarbage, Goto, shared, private, lists, InGuard, CanAdvance, Missed, ControlInv, TypeOK, LocalAgrees, ThreadsRegistered
    <3>5. \A u \in Threads : pc'[u] = "pin" =>
              /\ local[u] # NoCollector
              /\ (pc[u] = "pin" /\ loaded'[u] = loaded[u]) \/ loaded'[u] = epoch
      BY <2>11 DEF SetHasGarbage, Goto, ControlInv, TypeOK, LocalAgrees
    <3>6. QED
      BY <3>1, <3>2, <3>3, <3>4, <3>5, ProtectFrame DEF ControlInv, TypeOK
  <2>12. ASSUME NEW t \in Threads, EndNestedGuard(t) PROVE ProtectInv'
    <3>1. UNCHANGED <<epoch, garbage, life, announcement, local>>
      BY <2>12 DEF EndNestedGuard, shared, private, lists
    <3>2. \A r \in Threads : InGuard(r)' => InGuard(r)
      BY <2>12 DEF EndNestedGuard, Goto, shared, private, lists, InGuard, ControlInv, TypeOK, LocalAgrees, ThreadsRegistered
    <3>3. \A r \in Threads : held'[r] = IF InGuard(r)' THEN held[r] ELSE {}
      BY <1>2, <2>12, <3>2 DEF EndNestedGuard, Goto, shared, private, lists, InGuard, ControlInv, TypeOK, LocalAgrees, ThreadsRegistered
    <3>4. \A r \in Threads : InGuard(r)' /\ Missed(r)' => CanAdvance(r)
      BY <2>12, <3>2 DEF EndNestedGuard, Goto, shared, private, lists, InGuard, CanAdvance, Missed, ControlInv, TypeOK, LocalAgrees, ThreadsRegistered
    <3>5. \A u \in Threads : pc'[u] = "pin" =>
              /\ local[u] # NoCollector
              /\ (pc[u] = "pin" /\ loaded'[u] = loaded[u]) \/ loaded'[u] = epoch
      BY <2>12 DEF EndNestedGuard, Goto, ControlInv, TypeOK, LocalAgrees
    <3>6. QED
      BY <3>1, <3>2, <3>3, <3>4, <3>5, ProtectFrame DEF ControlInv, TypeOK
  <2>13. ASSUME NEW t \in Threads, EndGuard(t) PROVE ProtectInv'
    <3>1. UNCHANGED <<epoch, garbage, life, announcement, local>>
      BY <2>13 DEF EndGuard, LastGuard, shared, private, lists
    <3>2. \A r \in Threads : InGuard(r)' => InGuard(r)
      BY <2>13 DEF EndGuard, LastGuard, Goto, shared, private, lists, InGuard, ControlInv, TypeOK, LocalAgrees, ThreadsRegistered
    <3>3. \A r \in Threads : held'[r] = IF InGuard(r)' THEN held[r] ELSE {}
      BY <2>13, <3>2, LastGuardReleases DEF EndGuard, Goto, ProtectInv, ControlInv, TypeOK
    <3>4. \A r \in Threads : InGuard(r)' /\ Missed(r)' => CanAdvance(r)
      BY <2>13, <3>2 DEF EndGuard, LastGuard, Goto, shared, private, lists, InGuard, CanAdvance, Missed, ControlInv, TypeOK, LocalAgrees, ThreadsRegistered
    <3>5. \A u \in Threads : pc'[u] = "pin" =>
              /\ local[u] # NoCollector
              /\ (pc[u] = "pin" /\ loaded'[u] = loaded[u]) \/ loaded'[u] = epoch
      BY <2>13 DEF EndGuard, LastGuard, Goto, ControlInv, TypeOK, LocalAgrees
    <3>6. QED
      BY <3>1, <3>2, <3>3, <3>4, <3>5, ProtectFrame DEF ControlInv, TypeOK
  <2>14. ASSUME NEW t \in Threads, SkipScan(t) PROVE ProtectInv'
    <3>1. UNCHANGED <<epoch, garbage, life, announcement, local>>
      BY <2>14 DEF SkipScan, LastGuard, shared, private, lists
    <3>2. \A r \in Threads : InGuard(r)' => InGuard(r)
      BY <2>14 DEF SkipScan, LastGuard, Goto, shared, private, lists, InGuard, ControlInv, TypeOK, LocalAgrees, ThreadsRegistered
    <3>3. \A r \in Threads : held'[r] = IF InGuard(r)' THEN held[r] ELSE {}
      BY <2>14, <3>2, LastGuardReleases DEF SkipScan, Goto, ProtectInv, ControlInv, TypeOK
    <3>4. \A r \in Threads : InGuard(r)' /\ Missed(r)' => CanAdvance(r)
      BY <2>14, <3>2 DEF SkipScan, LastGuard, Goto, shared, private, lists, InGuard, CanAdvance, Missed, ControlInv, TypeOK, LocalAgrees, ThreadsRegistered
    <3>5. \A u \in Threads : pc'[u] = "pin" =>
              /\ local[u] # NoCollector
              /\ (pc[u] = "pin" /\ loaded'[u] = loaded[u]) \/ loaded'[u] = epoch
      BY <2>14 DEF SkipScan, LastGuard, Goto, ControlInv, TypeOK, LocalAgrees
    <3>6. QED
      BY <3>1, <3>2, <3>3, <3>4, <3>5, ProtectFrame DEF ControlInv, TypeOK
  <2>15. ASSUME NEW t \in Threads, StartScan(t) PROVE ProtectInv'
    <3>1. UNCHANGED <<epoch, garbage, life, announcement, local>>
      BY <2>15 DEF StartScan, LastGuard, shared, private, lists
    <3>2. \A r \in Threads : InGuard(r)' => InGuard(r)
      BY <2>15 DEF StartScan, LastGuard, Goto, shared, private, lists, InGuard, ControlInv, TypeOK, LocalAgrees, ThreadsRegistered
    <3>3. \A r \in Threads : held'[r] = IF InGuard(r)' THEN held[r] ELSE {}
      BY <2>15, <3>2, LastGuardReleases DEF StartScan, Goto, ProtectInv, ControlInv, TypeOK
    <3>4. \A r \in Threads : InGuard(r)' /\ Missed(r)' => CanAdvance(r)
      BY <2>15, <3>2 DEF StartScan, LastGuard, Goto, shared, private, lists, InGuard, CanAdvance, Missed, ControlInv, TypeOK, LocalAgrees, ThreadsRegistered
    <3>5. \A u \in Threads : pc'[u] = "pin" =>
              /\ local[u] # NoCollector
              /\ (pc[u] = "pin" /\ loaded'[u] = loaded[u]) \/ loaded'[u] = epoch
      BY <2>15 DEF StartScan, LastGuard, Goto, ControlInv, TypeOK, LocalAgrees
    <3>6. QED
      BY <3>1, <3>2, <3>3, <3>4, <3>5, ProtectFrame DEF ControlInv, TypeOK
  <2>16. ASSUME NEW t \in Threads, Unpin(t) PROVE ProtectInv'
    <3>1. UNCHANGED <<epoch, garbage, life, announcement, local>>
      BY <2>16 DEF Unpin, shared, private, lists
    <3>2. \A r \in Threads : InGuard(r)' => InGuard(r)
      BY <2>16 DEF Unpin, Goto, shared, private, lists, InGuard, ControlInv, TypeOK, LocalAgrees, ThreadsRegistered
    <3>3. \A r \in Threads : held'[r] = IF InGuard(r)' THEN held[r] ELSE {}
      BY <1>2, <2>16, <3>2 DEF Unpin, Goto, shared, private, lists, InGuard, ControlInv, TypeOK, LocalAgrees, ThreadsRegistered
    <3>4. \A r \in Threads : InGuard(r)' /\ Missed(r)' => CanAdvance(r)
      BY <2>16, <3>2 DEF Unpin, Goto, shared, private, lists, InGuard, CanAdvance, Missed, ControlInv, TypeOK, LocalAgrees, ThreadsRegistered
    <3>5. \A u \in Threads : pc'[u] = "pin" =>
              /\ local[u] # NoCollector
              /\ (pc[u] = "pin" /\ loaded'[u] = loaded[u]) \/ loaded'[u] = epoch
      BY <2>16 DEF Unpin, Goto, ControlInv, TypeOK, LocalAgrees
    <3>6. QED
      BY <3>1, <3>2, <3>3, <3>4, <3>5, ProtectFrame DEF ControlInv, TypeOK
  <2>17. ASSUME NEW t \in Threads, NEW d \in Collectors, ScanPass(t, d) PROVE ProtectInv'
    <3>1. UNCHANGED <<epoch, garbage, life, announcement, local, held, num_readers, pc, loaded>>
      BY <2>17 DEF ScanPass, private, lists
    <3>2. \A r \in Threads : InGuard(r)' <=> InGuard(r)
      BY <3>1 DEF InGuard
    <3>3. ASSUME NEW r \in Threads, InGuard(r), Missed(r)' PROVE CanAdvance(r)
      <4>1. CASE local[r] \notin todo
        BY <3>1, <3>3, <4>1 DEF Missed, CanAdvance
      <4>2. CASE local[r] \in todo
        <5>1. local[r] = d
          BY <2>17, <3>1, <3>3, <4>2 DEF ScanPass, Missed
        <5>2. /\ pc[t] = "scan" /\ r # t
              /\ state[d] \in {INACTIVE, state[local[t]]} \/ state[d] = INVALID
          BY <2>17, <3>3, <5>1, GuardedIsPublished DEF ScanPass, ControlInv, ThreadsRegistered
        <5>3. announcement[d] = state[local[t]]
          BY <3>3, <5>1, <5>2, GuardedIsPublished, StateValues
        <5>4. state[local[t]] = announcement[local[t]]
          BY <5>2 DEF ControlInv, LocalAgrees, Published
        <5>5. \A x \in Threads : pc[x] = "scan" => x = t
          BY <5>2 DEF ControlInv, ScanExclusive
        <5>6. QED
          BY <3>1, <3>3, <5>1, <5>3, <5>4, <5>5 DEF Missed, CanAdvance
      <4>3. QED
        BY <4>1, <4>2
    <3>4. \A u \in Threads : pc'[u] = "pin" => pc[u] = "pin" /\ local[u] # NoCollector
      BY <3>1 DEF ControlInv, LocalAgrees
    <3>5. QED
      BY <1>2, <3>1, <3>2, <3>3, <3>4, ProtectFrame DEF ControlInv, TypeOK
  <2>18. ASSUME NEW t \in Threads, NEW d \in Collectors, ScanUnlink(t, d) PROVE ProtectInv'
    <3>1. /\ local[t] \in Collectors /\ pc[t] # "pin" /\ d \in Items
          /\ life[d] = "live" /\ life' = [life EXCEPT ![d] = "retired"]
          /\ held' = HeldBy(Guarded, {d})
          /\ UNCHANGED <<epoch, announcement, local, num_readers, loaded, pc>>
          /\ todo' = todo \ {d} /\ state[d] = INVALID
      BY <2>18 DEF ScanUnlink, Collect, private, Items, ControlInv, TypeOK, LocalAgrees, GarbageInv, ChainLive
    <3>2. garbage' = [x \in Collectors |-> [l \in Lists |->
               IF x = local[t] /\ l = "current"
               THEN garbage[x][l] \cup {d} ELSE garbage[x][l]]]
      BY <2>18, <3>1, UnlinkLists DEF ControlInv
    <3>3. \A r \in Guarded : local[r] \in todo => local[r] \in todo'
      BY <3>1 DEF Guarded, InGuard, ControlInv, ThreadsRegistered
    <3>4. QED
      BY <1>1, <3>1, <3>2, <3>3, CollectProtects
  <2>19. ASSUME NEW t \in Threads, NEW d \in Collectors, ScanStop(t, d) PROVE ProtectInv'
    <3>1. UNCHANGED <<epoch, garbage, life, announcement, local>>
      BY <2>19 DEF ScanStop, shared, private, lists
    <3>2. \A r \in Threads : InGuard(r)' => InGuard(r)
      BY <2>19 DEF ScanStop, Goto, shared, private, lists, InGuard, ControlInv, TypeOK, LocalAgrees, ThreadsRegistered
    <3>3. \A r \in Threads : held'[r] = IF InGuard(r)' THEN held[r] ELSE {}
      BY <1>2, <2>19, <3>2 DEF ScanStop, Goto, shared, private, lists, InGuard, ControlInv, TypeOK, LocalAgrees, ThreadsRegistered
    <3>4. \A r \in Threads : InGuard(r)' /\ Missed(r)' => CanAdvance(r)
      BY <2>19, <3>2 DEF ScanStop, Goto, shared, private, lists, InGuard, CanAdvance, Missed, ControlInv, TypeOK, LocalAgrees, ThreadsRegistered, ScanExclusive
    <3>5. \A u \in Threads : pc'[u] = "pin" =>
              /\ local[u] # NoCollector
              /\ (pc[u] = "pin" /\ loaded'[u] = loaded[u]) \/ loaded'[u] = epoch
      BY <2>19 DEF ScanStop, Goto, ControlInv, TypeOK, LocalAgrees
    <3>6. QED
      BY <3>1, <3>2, <3>3, <3>4, <3>5, ProtectFrame DEF ControlInv, TypeOK
  <2>20. ASSUME NEW t \in Threads, Advance(t) PROVE ProtectInv'
    <3>1. /\ UNCHANGED <<todo, announcement, num_readers, garbage, life, local, loaded, held>>
          /\ todo = {} /\ pc[t] = "scan" /\ pc' = [pc EXCEPT ![t] = "unlock"]
          /\ epoch' = NextEpoch(state[local[t]])
          /\ state[local[t]] = announcement[local[t]]
          /\ announcement[local[t]] \in Epochs
          /\ \A u \in Threads : u # t => pc[u] # "scan"
      BY SMTT(30), <2>20 DEF Advance, Goto, private, lists, ControlInv, TypeOK, LocalAgrees, Published, ScanExclusive
    <3>2. /\ \A r \in Threads : InGuard(r)' <=> InGuard(r)
          /\ \A r \in Threads : ~Missed(r)'
          /\ \A u \in Threads : pc'[u] = "pin" <=> pc[u] = "pin"
      BY <3>1 DEF InGuard, Missed, ControlInv, TypeOK
    <3>3. CASE epoch' = epoch
      BY <1>2, <3>1, <3>2, <3>3, ProtectFrame DEF ControlInv, TypeOK, LocalAgrees
    <3>4. CASE epoch' # epoch
      <4>1. epoch' = NextEpoch(epoch) /\ announcement[local[t]] = epoch
        BY <1>4, <3>1, <3>4 DEF ForwardStep, ControlInv, TypeOK
      <4>2. \A r \in Threads : Missed(r)
        BY <3>1, <4>1 DEF Missed
      <4>3. \A r \in Threads : held[r] # {} => ~CanAdvance(r)'
        BY <1>2, <3>1, <3>2, <4>1, <4>2 DEF ProtectInv, MissedIsRecent, CanAdvance
      <4>4. \A r \in Threads : CanAdvance(r)
        BY <4>2 DEF CanAdvance
      <4>5. GuardProtects' /\ HeldByGuarded' /\ HeldNotDropped' /\ HeldWithCollector'
        BY <3>1, <3>2 DEF ProtectInv, GuardProtects, HeldByGuarded, HeldNotDropped, HeldWithCollector, HoldsIn
      <4>6. MissedIsRecent'
        BY <3>2 DEF MissedIsRecent
      <4>7. HeldAge'
        BY <3>1, <4>3, <4>4 DEF ProtectInv, HeldAge, HoldsIn
      <4>8. HeldAgeLoaded'
        BY <3>1, <3>2, <4>3, <4>4 DEF ProtectInv, HeldAgeLoaded, HoldsIn
      <4>9. QED
        BY <4>5, <4>6, <4>7, <4>8 DEF ProtectInv
    <3>5. QED
      BY <3>3, <3>4
  <2>21. ASSUME NEW t \in Threads, UnlockChain(t) PROVE ProtectInv'
    <3>1. UNCHANGED <<epoch, garbage, life, announcement, local>>
      BY <2>21 DEF UnlockChain, shared, private, lists
    <3>2. \A r \in Threads : InGuard(r)' => InGuard(r)
      BY <2>21 DEF UnlockChain, Goto, shared, private, lists, InGuard, ControlInv, TypeOK, LocalAgrees, ThreadsRegistered
    <3>3. \A r \in Threads : held'[r] = IF InGuard(r)' THEN held[r] ELSE {}
      BY <1>2, <2>21, <3>2 DEF UnlockChain, Goto, shared, private, lists, InGuard, ControlInv, TypeOK, LocalAgrees, ThreadsRegistered
    <3>4. \A r \in Threads : InGuard(r)' /\ Missed(r)' => CanAdvance(r)
      BY <2>21, <3>2 DEF UnlockChain, Goto, shared, private, lists, InGuard, CanAdvance, Missed, ControlInv, TypeOK, LocalAgrees, ThreadsRegistered
    <3>5. \A u \in Threads : pc'[u] = "pin" =>
              /\ local[u] # NoCollector
              /\ (pc[u] = "pin" /\ loaded'[u] = loaded[u]) \/ loaded'[u] = epoch
      BY <2>21 DEF UnlockChain, Goto, ControlInv, TypeOK, LocalAgrees
    <3>6. QED
      BY <3>1, <3>2, <3>3, <3>4, <3>5, ProtectFrame DEF ControlInv, TypeOK
  <2>22. ASSUME NEW t \in Threads, Suspend(t) PROVE ProtectInv'
    <3>1. /\ UNCHANGED <<epoch, garbage, life, held, announcement, loaded, todo, num_readers>>
          /\ local' = [local EXCEPT ![t] = NoCollector]
          /\ pc' = [pc EXCEPT ![t] = "mark"]
          /\ num_readers[local[t]] = 0 /\ pc[t] = "idle"
      BY <2>22 DEF Suspend, Goto, shared, private, lists
    <3>2. \A r \in Threads \ {t} : local'[r] = local[r] /\ (InGuard(r)' <=> InGuard(r))
      BY <3>1 DEF InGuard, ControlInv, TypeOK
    <3>3. ~InGuard(t) /\ ~InGuard(t)' /\ local'[t] = NoCollector
      BY <3>1 DEF InGuard, ControlInv, TypeOK
    <3>4. \A r \in Threads : InGuard(r)' /\ Missed(r)' => CanAdvance(r)
      BY <3>1, <3>2, <3>3 DEF CanAdvance, Missed, ControlInv, TypeOK
    <3>5. \A u \in Threads : pc'[u] = "pin" =>
              u # t /\ pc[u] = "pin" /\ local[u] # NoCollector
      BY <3>1 DEF ControlInv, TypeOK, LocalAgrees
    <3>6. local' \in [Threads -> Collectors \cup {NoCollector}]
      BY <3>1 DEF ControlInv, TypeOK
    <3>7. QED
      BY <1>2, <3>1, <3>2, <3>3, <3>4, <3>5, <3>6, ProtectFrame
  <2>23. ASSUME NEW t \in Threads, MarkScanEnforced(t) PROVE ProtectInv'
    <3>1. UNCHANGED <<epoch, garbage, life, announcement, local>>
      BY <2>23 DEF MarkScanEnforced, shared, private, lists
    <3>2. \A r \in Threads : InGuard(r)' => InGuard(r)
      BY <2>23 DEF MarkScanEnforced, Goto, shared, private, lists, InGuard, ControlInv, TypeOK, LocalAgrees, ThreadsRegistered
    <3>3. \A r \in Threads : held'[r] = IF InGuard(r)' THEN held[r] ELSE {}
      BY <1>2, <2>23, <3>2 DEF MarkScanEnforced, Goto, shared, private, lists, InGuard, ControlInv, TypeOK, LocalAgrees, ThreadsRegistered
    <3>4. \A r \in Threads : InGuard(r)' /\ Missed(r)' => CanAdvance(r)
      BY <2>23, <3>2 DEF MarkScanEnforced, Goto, shared, private, lists, InGuard, CanAdvance, Missed, ControlInv, TypeOK, LocalAgrees, ThreadsRegistered
    <3>5. \A u \in Threads : pc'[u] = "pin" =>
              /\ local[u] # NoCollector
              /\ (pc[u] = "pin" /\ loaded'[u] = loaded[u]) \/ loaded'[u] = epoch
      BY <2>23 DEF MarkScanEnforced, Goto, ControlInv, TypeOK, LocalAgrees
    <3>6. QED
      BY <3>1, <3>2, <3>3, <3>4, <3>5, ProtectFrame DEF ControlInv, TypeOK
  <2>24. QED
    BY <1>4, NextCases, <2>1, <2>2, <2>3, <2>4, <2>5, <2>6, <2>7, <2>8, <2>9, <2>10, <2>11, <2>12, <2>13, <2>14, <2>15, <2>16, <2>17, <2>18, <2>19, <2>20, <2>21, <2>22, <2>23
<1>5. QED
  BY <1>3, <1>4

(* ForwardNext states ForwardStep at the two steps it restricts.           *)
LEMMA ForwardIsNext ==
    ControlInv /\ [ForwardNext]_vars => [Next /\ ForwardStep]_vars
<1> SUFFICES ASSUME ControlInv, ForwardNext PROVE Next /\ ForwardStep
  BY DEF vars
<1>1. Next
  BY DEF ForwardNext, Next, OpenGuard, ScanStep
<1>2. ASSUME epoch' = epoch,
             \A u \in Threads : pc[u] = "pin" => pc'[u] = "pin"
      PROVE  ForwardStep
  BY <1>2 DEF ForwardStep
<1>3. ASSUME NEW t \in Threads, NEW place, epoch' = epoch, pc[t] # "pin", Goto(t, place)
      PROVE  ForwardStep
  <2>1. \A u \in Threads : pc[u] = "pin" => pc'[u] = "pin"
    BY <1>3 DEF Goto, ControlInv, TypeOK
  <2>2. QED
    BY <1>2, <1>3, <2>1
<1>4. ASSUME NEW t \in Threads, LoadEpoch(t) \/ NestGuard(t) \/ DropStep(t) PROVE ForwardStep
  <2>1. CASE LoadEpoch(t)
    BY <2>1, <1>3 DEF LoadEpoch, shared
  <2>2. CASE NestGuard(t)
    BY <2>2, <1>2 DEF NestGuard, shared
  <2>3. CASE FinishDrop(t)
    BY <2>3, <1>3 DEF FinishDrop, shared
  <2>4. CASE \E o \in Objects : DropObject(t, o)
    BY <2>4, <1>2 DEF DropObject, shared
  <2>5. CASE \E d \in Collectors : DropCollector(t, d)
    BY <2>5, <1>2 DEF DropCollector, shared
  <2>6. QED
    BY <1>4, <2>1, <2>2, <2>3, <2>4, <2>5 DEF DropStep
<1>5. ASSUME NEW t \in Threads, EndNestedGuard(t) \/ CloseGuard(t) PROVE ForwardStep
  <2>1. CASE EndNestedGuard(t)
    <3>1. pc[t] # "pin" /\ epoch' = epoch
      BY <2>1 DEF EndNestedGuard, shared
    <3>2. PICK place : Goto(t, place)
      BY <2>1 DEF EndNestedGuard
    <3>3. QED
      BY <1>3, <3>1, <3>2
  <2>2. CASE EndGuard(t)
    BY <2>2, <1>3 DEF EndGuard, LastGuard
  <2>3. CASE SkipScan(t)
    BY <2>3, <1>3 DEF SkipScan, LastGuard
  <2>4. CASE StartScan(t)
    BY <2>4, <1>3 DEF StartScan, LastGuard
  <2>5. CASE Unpin(t)
    BY <2>5, <1>3 DEF Unpin, shared
  <2>6. QED
    BY <1>5, <2>1, <2>2, <2>3, <2>4, <2>5 DEF CloseGuard
<1>6. ASSUME NEW t \in Threads, UnlockChain(t) \/ MarkScanEnforced(t) \/ Suspend(t)
      PROVE  ForwardStep
  BY <1>6, <1>3 DEF UnlockChain, MarkScanEnforced, Suspend, shared
<1>7. ASSUME NEW t \in Threads, NEW c \in Collectors,
             Alloc(t, c) \/ ScanPass(t, c) \/ ScanUnlink(t, c) \/ ScanStop(t, c)
      PROVE  ForwardStep
  <2>1. CASE Alloc(t, c)
    BY <2>1, <1>2 DEF Alloc
  <2>2. CASE ScanPass(t, c)
    BY <2>2, <1>2 DEF ScanPass
  <2>3. CASE ScanUnlink(t, c)
    BY <2>3, <1>2 DEF ScanUnlink, Collect
  <2>4. CASE ScanStop(t, c)
    BY <2>4, <1>3 DEF ScanStop
  <2>5. QED
    BY <1>7, <2>1, <2>2, <2>3, <2>4
<1>8. ASSUME NEW t \in Threads, NEW o \in Objects, DropPanics(t, o) \/ Retire(t, o)
      PROVE  ForwardStep
  <2>1. CASE DropPanics(t, o)
    BY <2>1, <1>3 DEF DropPanics, shared
  <2>2. CASE Retire(t, o)
    BY <2>2, <1>2 DEF Retire, Collect, shared
  <2>3. QED
    BY <1>8, <2>1, <2>2
<1>9. ASSUME NEW t \in Threads, Accelerate(t) \/ SetHasGarbage(t) PROVE ForwardStep
  BY <1>9, <1>2 DEF Accelerate, SetHasGarbage, shared
<1>10. QED
  BY <1>1, <1>4, <1>5, <1>6, <1>7, <1>8, <1>9, CollectorAssumption DEF ForwardNext

(* All three layers hold throughout if the epoch only moves forward and no *)
(* load of it is overtaken by a whole rotation.                            *)
THEOREM ForwardInvariant == ForwardSpec => []IInv
<1>1. Init => IInv
  BY ControlInit, GarbageInit, ProtectInit DEF IInv
<1>2. IInv /\ [ForwardNext]_vars => IInv'
  BY ForwardIsNext, ControlStep, GarbageStep, ProtectStep DEF IInv
<1>3. QED
  BY <1>1, <1>2, PTL DEF ForwardSpec

(* Nothing is dropped while a thread that had a guard open when it was     *)
(* retired still has it (guard.rs:163): the promise of the crate.          *)
THEOREM ForwardProtects == ForwardSpec => []GuardProtects
<1>1. IInv => GuardProtects
  BY DEF IInv, ProtectInv
<1>2. QED
  BY <1>1, ForwardInvariant, PTL

(***************************************************************************)
(* Opening and closing guards, retiring and dropping objects are the only  *)
(* steps of the reclaimer that a user of the crate can tell from none, and *)
(* are steps of DelayedDealloc.                                            *)
(***************************************************************************)

(* A step between which no guard opens or closes, and no object changes    *)
(* hands, is none to DelayedDealloc.                                       *)
LEMMA RefineStutter ==
    ASSUME \A t \in Threads : InGuard(t)' <=> InGuard(t),
           \A o \in Objects : life'[o] = life[o],
           \A t \in Threads : held'[t] \cap Objects = held[t] \cap Objects
    PROVE  UNCHANGED Dealloc!avars
<1>1. Guarded' = Guarded
  BY DEF Guarded
<1>2. [o \in Objects |-> life[o]]' = [o \in Objects |-> life[o]]
  OBVIOUS
<1>3. [t \in Threads |-> held[t] \cap Objects]' = [t \in Threads |-> held[t] \cap Objects]
  OBVIOUS
<1>4. QED
  BY <1>1, <1>2, <1>3 DEF Dealloc!avars

(* The initial states map to the initial state of DelayedDealloc.          *)
LEMMA RefineInit == Init => Dealloc!AbstractInit
<1> SUFFICES ASSUME Init PROVE Dealloc!AbstractInit
  OBVIOUS
<1>1. Guarded = {}
  BY DEF Init, Guarded, InGuard
<1>2. [o \in Objects |-> life[o]] = [o \in Objects |-> "live"]
  BY DEF Init, Items
<1>3. [t \in Threads |-> held[t] \cap Objects] = [t \in Threads |-> {}]
  BY DEF Init
<1>4. QED
  BY <1>1, <1>2, <1>3 DEF Dealloc!AbstractInit

(* Dropping an object that no thread holds is a Reclaim.                   *)
LEMMA RefineDrop ==
    ASSUME IInv, NEW t \in Threads, NEW o \in Objects,
           pc[t] = "drop", o \in BeingDropped(local[t]),
           life' = [life EXCEPT ![o] = "live"], held' = held,
           \A r \in Threads : InGuard(r)' <=> InGuard(r)
    PROVE  Dealloc!Reclaim(o)
<1>1. local[t] \in Collectors
  BY DEF IInv, ControlInv, TypeOK, LocalAgrees
<1>2. o \in garbage[local[t]]["dropping"] \/ o \in garbage[local[t]]["clearing"]
  BY DEF BeingDropped
<1>3. \A r \in Threads : o \notin held[r]
  BY <1>1, <1>2 DEF IInv, ProtectInv, HeldNotDropped, HoldsIn
<1>4. life[o] = "retired"
  BY <1>1, <1>2 DEF IInv, GarbageInv, GarbageConserved, ListedIn, Lists, Items
<1>5. [x \in Objects |-> life[x]]' = [[x \in Objects |-> life[x]] EXCEPT ![o] = "live"]
  BY DEF IInv, ControlInv, TypeOK, Items
<1>6. Guarded' = Guarded
  BY DEF Guarded
<1>7. QED
  BY <1>3, <1>4, <1>5, <1>6 DEF Dealloc!Reclaim

(* Closing the last guard of a thread is an Exit.                          *)
LEMMA RefineExit ==
    ASSUME IInv, NEW t \in Threads, LastGuard(t),
           NEW l \in {"unpin", "scan"}, pc' = [pc EXCEPT ![t] = l]
    PROVE  Dealloc!Exit(t)
<1>1. /\ local[t] \in Collectors /\ local' = local /\ life' = life
      /\ num_readers[local[t]] = 1 /\ pc[t] \in {"idle", "unwind"}
      /\ num_readers' = [num_readers EXCEPT ![local[t]] = 0]
      /\ held' = [held EXCEPT ![t] = {}]
  BY DEF LastGuard, lists, IInv, ControlInv, TypeOK
<1>2. InGuard(t) /\ ~InGuard(t)'
  BY <1>1, CollectorAssumption DEF InGuard, IInv, ControlInv, TypeOK
<1>3. \A r \in Threads \ {t} : InGuard(r)' <=> InGuard(r)
  BY <1>1, CollectorAssumption DEF InGuard, IInv, ControlInv, TypeOK, ThreadsRegistered
<1>4. Guarded' = Guarded \ {t} /\ t \in Guarded
  BY <1>2, <1>3 DEF Guarded
<1>5. [r \in Threads |-> held[r] \cap Objects]' =
          [[r \in Threads |-> held[r] \cap Objects] EXCEPT ![t] = {}]
  BY <1>1 DEF IInv, ControlInv, TypeOK
<1>6. QED
  BY <1>1, <1>4, <1>5 DEF Dealloc!Exit

(* Every step maps to a step of DelayedDealloc or to none.                 *)
LEMMA RefineStep ==
    IInv /\ [Next /\ ForwardStep]_vars
        => [Dealloc!AbstractNext]_(Dealloc!avars)
<1> SUFFICES ASSUME IInv, [Next /\ ForwardStep]_vars
             PROVE  Dealloc!AbstractNext \/ UNCHANGED Dealloc!avars
  OBVIOUS
<1> USE CollectorAssumption
<1>1. ControlInv /\ GarbageInv /\ ProtectInv
  BY DEF IInv
<1>2. CASE UNCHANGED vars
  BY <1>2, RefineStutter DEF vars, shared, private, lists, InGuard
<1>3. CASE Next
  <2>1. ASSUME NEW t \in Threads, NEW c \in Collectors, Alloc(t, c)
        PROVE  Dealloc!AbstractNext \/ UNCHANGED Dealloc!avars
    <3>1. UNCHANGED <<life, held>>
      BY <2>1 DEF Alloc, lists
    <3>2. \A r \in Threads : InGuard(r)' <=> InGuard(r)
      BY <1>1, <2>1 DEF Alloc, Goto, shared, private, lists, InGuard, ControlInv, TypeOK, LocalAgrees, ThreadsRegistered
    <3>3. QED
      BY <3>1, <3>2, RefineStutter
  <2>2. ASSUME NEW t \in Threads, LoadEpoch(t)
        PROVE  Dealloc!AbstractNext \/ UNCHANGED Dealloc!avars
    <3>1. UNCHANGED <<life, held>>
      BY <2>2 DEF LoadEpoch, lists
    <3>2. \A r \in Threads : InGuard(r)' <=> InGuard(r)
      BY <1>1, <2>2 DEF LoadEpoch, Goto, shared, private, lists, InGuard, ControlInv, TypeOK, LocalAgrees, ThreadsRegistered
    <3>3. QED
      BY <3>1, <3>2, RefineStutter
  <2>3. ASSUME NEW t \in Threads, Pin(t)
        PROVE  Dealloc!AbstractNext \/ UNCHANGED Dealloc!avars
    <3>1. /\ UNCHANGED <<life, held, num_readers, local>>
          /\ pc[t] = "pin" /\ pc'[t] # "pin" /\ local[t] # NoCollector
          /\ num_readers[local[t]] = 1
          /\ \A r \in Threads \ {t} : pc'[r] = pc[r]
      BY <1>1, <2>3 DEF Pin, Goto, ControlInv, TypeOK, LocalAgrees
    <3>2. t \notin Guarded /\ Guarded' = Guarded \cup {t}
      BY <3>1 DEF Guarded, InGuard
    <3>3. Dealloc!Enter(t)
      BY <3>1, <3>2 DEF Dealloc!Enter
    <3>4. QED
      BY <3>3 DEF Dealloc!AbstractNext
  <2>4. ASSUME NEW t \in Threads, NestGuard(t)
        PROVE  Dealloc!AbstractNext \/ UNCHANGED Dealloc!avars
    <3>1. UNCHANGED <<life, held>>
      BY <2>4 DEF NestGuard, lists
    <3>2. \A r \in Threads : InGuard(r)' <=> InGuard(r)
      BY <1>1, <2>4 DEF NestGuard, Goto, shared, private, lists, InGuard, ControlInv, TypeOK, LocalAgrees, ThreadsRegistered
    <3>3. QED
      BY <3>1, <3>2, RefineStutter
  <2>5. ASSUME NEW t \in Threads, NEW o \in Objects, DropObject(t, o)
        PROVE  Dealloc!AbstractNext \/ UNCHANGED Dealloc!avars
    <3>1. /\ pc[t] = "drop" /\ o \in BeingDropped(local[t])
          /\ life' = [life EXCEPT ![o] = "live"] /\ held' = held
          /\ \A r \in Threads : InGuard(r)' <=> InGuard(r)
      BY <2>5 DEF DropObject, private, InGuard
    <3>2. QED
      BY <3>1, RefineDrop DEF Dealloc!AbstractNext
  <2>6. ASSUME NEW t \in Threads, NEW d \in Collectors, DropCollector(t, d)
        PROVE  Dealloc!AbstractNext \/ UNCHANGED Dealloc!avars
    <3>1. life' = [life EXCEPT ![d] = "live"] /\ UNCHANGED <<held, num_readers, local, pc>>
      BY <2>6 DEF DropCollector
    <3>2. \A o \in Objects : life'[o] = life[o]
      BY <1>1, <3>1 DEF ControlInv, TypeOK, Items
    <3>3. QED
      BY <3>1, <3>2, RefineStutter DEF InGuard
  <2>7. ASSUME NEW t \in Threads, FinishDrop(t)
        PROVE  Dealloc!AbstractNext \/ UNCHANGED Dealloc!avars
    <3>1. UNCHANGED <<life, held>>
      BY <2>7 DEF FinishDrop, lists
    <3>2. \A r \in Threads : InGuard(r)' <=> InGuard(r)
      BY <1>1, <2>7 DEF FinishDrop, Goto, shared, private, lists, InGuard, ControlInv, TypeOK, LocalAgrees, ThreadsRegistered
    <3>3. QED
      BY <3>1, <3>2, RefineStutter
  <2>8. ASSUME NEW t \in Threads, NEW o \in Objects, DropPanics(t, o)
        PROVE  Dealloc!AbstractNext \/ UNCHANGED Dealloc!avars
    <3>1. /\ pc[t] = "drop" /\ o \in BeingDropped(local[t])
          /\ life' = [life EXCEPT ![o] = "live"] /\ held' = held
          /\ UNCHANGED <<num_readers, local>> /\ pc' = [pc EXCEPT ![t] = "unwind"]
      BY <2>8 DEF DropPanics, Goto, private
    <3>2. \A r \in Threads : InGuard(r)' <=> InGuard(r)
      BY <1>1, <3>1 DEF InGuard, ControlInv, TypeOK
    <3>3. QED
      BY <3>1, <3>2, RefineDrop DEF Dealloc!AbstractNext
  <2>9. ASSUME NEW t \in Threads, NEW o \in Objects, Retire(t, o)
        PROVE  Dealloc!AbstractNext \/ UNCHANGED Dealloc!avars
    <3>1. /\ life[o] = "live" /\ life' = [life EXCEPT ![o] = "retired"]
          /\ held' = HeldBy(Guarded, {o})
          /\ UNCHANGED <<num_readers, local, pc>>
      BY <2>9 DEF Retire, Collect, private
    <3>2. Guarded' = Guarded
      BY <3>1 DEF Guarded, InGuard
    <3>3. [x \in Objects |-> life[x]]' = [[x \in Objects |-> life[x]] EXCEPT ![o] = "retired"]
      BY <1>1, <3>1 DEF ControlInv, TypeOK, Items
    <3>4. [r \in Threads |-> held[r] \cap Objects]' =
              [r \in Threads |-> IF r \in Guarded
                                 THEN (held[r] \cap Objects) \cup {o}
                                 ELSE held[r] \cap Objects]
      BY <3>1 DEF HeldBy
    <3>5. Dealloc!RetireObject(o)
      BY <3>1, <3>2, <3>3, <3>4 DEF Dealloc!RetireObject
    <3>6. QED
      BY <3>5 DEF Dealloc!AbstractNext
  <2>10. ASSUME NEW t \in Threads, Accelerate(t)
        PROVE  Dealloc!AbstractNext \/ UNCHANGED Dealloc!avars
    <3>1. UNCHANGED <<life, held>>
      BY <2>10 DEF Accelerate, lists
    <3>2. \A r \in Threads : InGuard(r)' <=> InGuard(r)
      BY <1>1, <2>10 DEF Accelerate, Goto, shared, private, lists, InGuard, ControlInv, TypeOK, LocalAgrees, ThreadsRegistered
    <3>3. QED
      BY <3>1, <3>2, RefineStutter
  <2>11. ASSUME NEW t \in Threads, SetHasGarbage(t)
        PROVE  Dealloc!AbstractNext \/ UNCHANGED Dealloc!avars
    <3>1. UNCHANGED <<life, held>>
      BY <2>11 DEF SetHasGarbage, lists
    <3>2. \A r \in Threads : InGuard(r)' <=> InGuard(r)
      BY <1>1, <2>11 DEF SetHasGarbage, Goto, shared, private, lists, InGuard, ControlInv, TypeOK, LocalAgrees, ThreadsRegistered
    <3>3. QED
      BY <3>1, <3>2, RefineStutter
  <2>12. ASSUME NEW t \in Threads, EndNestedGuard(t)
        PROVE  Dealloc!AbstractNext \/ UNCHANGED Dealloc!avars
    <3>1. UNCHANGED <<life, held>>
      BY <2>12 DEF EndNestedGuard, lists
    <3>2. \A r \in Threads : InGuard(r)' <=> InGuard(r)
      BY <1>1, <2>12 DEF EndNestedGuard, Goto, shared, private, lists, InGuard, ControlInv, TypeOK, LocalAgrees, ThreadsRegistered
    <3>3. QED
      BY <3>1, <3>2, RefineStutter
  <2>13. ASSUME NEW t \in Threads, EndGuard(t)
        PROVE  Dealloc!AbstractNext \/ UNCHANGED Dealloc!avars
    <3>1. LastGuard(t) /\ pc' = [pc EXCEPT ![t] = "unpin"]
      BY <2>13 DEF EndGuard, Goto
    <3>2. QED
      BY <3>1, RefineExit DEF Dealloc!AbstractNext
  <2>14. ASSUME NEW t \in Threads, SkipScan(t)
        PROVE  Dealloc!AbstractNext \/ UNCHANGED Dealloc!avars
    <3>1. LastGuard(t) /\ pc' = [pc EXCEPT ![t] = "unpin"]
      BY <2>14 DEF SkipScan, Goto
    <3>2. QED
      BY <3>1, RefineExit DEF Dealloc!AbstractNext
  <2>15. ASSUME NEW t \in Threads, StartScan(t)
        PROVE  Dealloc!AbstractNext \/ UNCHANGED Dealloc!avars
    <3>1. LastGuard(t) /\ pc' = [pc EXCEPT ![t] = "scan"]
      BY <2>15 DEF StartScan, Goto
    <3>2. QED
      BY <3>1, RefineExit DEF Dealloc!AbstractNext
  <2>16. ASSUME NEW t \in Threads, Unpin(t)
        PROVE  Dealloc!AbstractNext \/ UNCHANGED Dealloc!avars
    <3>1. UNCHANGED <<life, held>>
      BY <2>16 DEF Unpin, lists
    <3>2. \A r \in Threads : InGuard(r)' <=> InGuard(r)
      BY <1>1, <2>16 DEF Unpin, Goto, shared, private, lists, InGuard, ControlInv, TypeOK, LocalAgrees, ThreadsRegistered
    <3>3. QED
      BY <3>1, <3>2, RefineStutter
  <2>17. ASSUME NEW t \in Threads, NEW d \in Collectors, ScanPass(t, d)
        PROVE  Dealloc!AbstractNext \/ UNCHANGED Dealloc!avars
    <3>1. UNCHANGED <<life, held>>
      BY <2>17 DEF ScanPass, lists
    <3>2. \A r \in Threads : InGuard(r)' <=> InGuard(r)
      BY <1>1, <2>17 DEF ScanPass, Goto, shared, private, lists, InGuard, ControlInv, TypeOK, LocalAgrees, ThreadsRegistered
    <3>3. QED
      BY <3>1, <3>2, RefineStutter
  <2>18. ASSUME NEW t \in Threads, NEW d \in Collectors, ScanUnlink(t, d)
        PROVE  Dealloc!AbstractNext \/ UNCHANGED Dealloc!avars
    <3>1. /\ life' = [life EXCEPT ![d] = "retired"]
          /\ held' = HeldBy(Guarded, {d})
          /\ UNCHANGED <<num_readers, local, pc>>
      BY <2>18 DEF ScanUnlink, Collect, private
    <3>2. \A o \in Objects : life'[o] = life[o]
      BY <1>1, <3>1 DEF ControlInv, TypeOK, Items
    <3>3. \A r \in Threads : held'[r] \cap Objects = held[r] \cap Objects
      BY <3>1 DEF HeldBy
    <3>4. QED
      BY <3>1, <3>2, <3>3, RefineStutter DEF InGuard
  <2>19. ASSUME NEW t \in Threads, NEW d \in Collectors, ScanStop(t, d)
        PROVE  Dealloc!AbstractNext \/ UNCHANGED Dealloc!avars
    <3>1. UNCHANGED <<life, held>>
      BY <2>19 DEF ScanStop, lists
    <3>2. \A r \in Threads : InGuard(r)' <=> InGuard(r)
      BY <1>1, <2>19 DEF ScanStop, Goto, shared, private, lists, InGuard, ControlInv, TypeOK, LocalAgrees, ThreadsRegistered
    <3>3. QED
      BY <3>1, <3>2, RefineStutter
  <2>20. ASSUME NEW t \in Threads, Advance(t)
        PROVE  Dealloc!AbstractNext \/ UNCHANGED Dealloc!avars
    <3>1. UNCHANGED <<life, held>>
      BY <2>20 DEF Advance, lists
    <3>2. \A r \in Threads : InGuard(r)' <=> InGuard(r)
      BY <1>1, <2>20 DEF Advance, Goto, shared, private, lists, InGuard, ControlInv, TypeOK, LocalAgrees, ThreadsRegistered
    <3>3. QED
      BY <3>1, <3>2, RefineStutter
  <2>21. ASSUME NEW t \in Threads, UnlockChain(t)
        PROVE  Dealloc!AbstractNext \/ UNCHANGED Dealloc!avars
    <3>1. UNCHANGED <<life, held>>
      BY <2>21 DEF UnlockChain, lists
    <3>2. \A r \in Threads : InGuard(r)' <=> InGuard(r)
      BY <1>1, <2>21 DEF UnlockChain, Goto, shared, private, lists, InGuard, ControlInv, TypeOK, LocalAgrees, ThreadsRegistered
    <3>3. QED
      BY <3>1, <3>2, RefineStutter
  <2>22. ASSUME NEW t \in Threads, Suspend(t)
        PROVE  Dealloc!AbstractNext \/ UNCHANGED Dealloc!avars
    <3>1. UNCHANGED <<life, held>>
      BY <2>22 DEF Suspend, lists
    <3>2. \A r \in Threads : InGuard(r)' <=> InGuard(r)
      BY <1>1, <2>22 DEF Suspend, Goto, shared, private, lists, InGuard, ControlInv, TypeOK, LocalAgrees, ThreadsRegistered
    <3>3. QED
      BY <3>1, <3>2, RefineStutter
  <2>23. ASSUME NEW t \in Threads, MarkScanEnforced(t)
        PROVE  Dealloc!AbstractNext \/ UNCHANGED Dealloc!avars
    <3>1. UNCHANGED <<life, held>>
      BY <2>23 DEF MarkScanEnforced, lists
    <3>2. \A r \in Threads : InGuard(r)' <=> InGuard(r)
      BY <1>1, <2>23 DEF MarkScanEnforced, Goto, shared, private, lists, InGuard, ControlInv, TypeOK, LocalAgrees, ThreadsRegistered
    <3>3. QED
      BY <3>1, <3>2, RefineStutter
  <2>24. QED
    BY <1>3, NextCases, <2>1, <2>2, <2>3, <2>4, <2>5, <2>6, <2>7, <2>8, <2>9, <2>10, <2>11, <2>12, <2>13, <2>14, <2>15, <2>16, <2>17, <2>18, <2>19, <2>20, <2>21, <2>22, <2>23
<1>4. QED
  BY <1>2, <1>3

(* The reclaimer implements what the crate promises, for any number of     *)
(* threads, objects, epochs and nested guards (guard.rs:8-13, 161-164).    *)
THEOREM ForwardRefines == ForwardSpec => RefinesDealloc
<1>1. Init => Dealloc!AbstractInit
  BY RefineInit
<1>2. IInv /\ [ForwardNext]_vars => [Dealloc!AbstractNext]_(Dealloc!avars)
  BY RefineStep, ForwardIsNext DEF IInv
<1>3. QED
  BY <1>1, <1>2, ForwardInvariant, PTL DEF ForwardSpec, RefinesDealloc, Dealloc!AbstractSpec

=============================================================================
