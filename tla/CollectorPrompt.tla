--------------------------- MODULE CollectorPrompt ---------------------------
(***************************************************************************)
(* If no thread advances the epoch while another is between loading and    *)
(* publishing it, the epoch rotates, is held back by every guard, nothing  *)
(* is dropped under a guard, and, if no load is overtaken at all,          *)
(* in_same_generation() is right about what a thread may still reach.      *)
(***************************************************************************)
EXTENDS CollectorProtection, Generations

(* A thread that shows an announcement has a Collector in the chain.       *)
LEMMA AnnouncedIsPublished ==
    ASSUME ControlInv, NEW t \in Threads, Announced(t)
    PROVE  /\ local[t] \in Collectors /\ local[t] \in chain
           /\ state[local[t]] = announcement[local[t]]
           /\ announcement[local[t]] \in Epochs
  BY CollectorAssumption
  DEF Announced, ControlInv, TypeOK, LocalAgrees, ThreadsRegistered

(* A step that leaves the epoch alone, and lets no thread announce or get  *)
(* past a scan with another one, keeps PromptInv.                          *)
LEMMA PromptFrame ==
    ASSUME PromptInv, epoch \in Epochs, epoch' = epoch,
           \A t \in Threads : pc'[t] = "pin" =>
               (pc[t] = "pin" /\ loaded'[t] = loaded[t]) \/ loaded'[t] = epoch,
           \A t \in Threads : Announced(t)' =>
               \/ /\ Announced(t) /\ local'[t] = local[t]
                  /\ announcement'[local[t]] = announcement[local[t]]
               \/ announcement'[local'[t]] = epoch,
           \A x, r \in Threads :
               pc'[x] = "scan" /\ Announced(r)' /\ local'[r] \notin todo' =>
                   \/ /\ pc[x] = "scan" /\ local'[x] = local[x]
                      /\ announcement'[local[x]] = announcement[local[x]]
                      /\ local'[r] = local[r] /\ local[r] \notin todo
                   \/ announcement'[local'[r]] = epoch
                   \/ announcement'[local'[x]] # epoch
    PROVE  PromptInv'
<1>1. LoadedIsFresh'
  BY DEF PromptInv, LoadedIsFresh
<1>2. AnnouncedIsRecent'
  BY DEF PromptInv, AnnouncedIsRecent
<1>3. ScannedAgrees'
  BY DEF PromptInv, ScannedAgrees
<1>4. QED
  BY <1>1, <1>2, <1>3 DEF PromptInv

(* PromptInv is kept by every step that PromptStep allows.                 *)
LEMMA PromptStepKeeps ==
    ControlInv /\ GarbageInv /\ PromptInv /\ [Next /\ PromptStep]_vars
        => PromptInv'
<1> SUFFICES ASSUME ControlInv, GarbageInv, PromptInv,
                    [Next /\ PromptStep]_vars
             PROVE  PromptInv'
  OBVIOUS
<1> USE CollectorAssumption, EpochSuccession
<1>1. epoch \in Epochs /\ TypeOK
  BY DEF ControlInv, TypeOK
<1>2. CASE UNCHANGED vars
  BY <1>1, <1>2, PromptFrame DEF vars, shared, private, lists, Announced, Published
<1>3. CASE Next /\ PromptStep
  <2>1. ASSUME NEW t \in Threads, NEW c \in Collectors, Alloc(t, c) PROVE PromptInv'
    <3>1. epoch' = epoch
      BY <2>1 DEF Alloc, shared
    <3>2. \A u \in Threads : pc'[u] = "pin" =>
              (pc[u] = "pin" /\ loaded'[u] = loaded[u]) \/ loaded'[u] = epoch
      BY <2>1 DEF Alloc, Goto, PromptInv, LoadedIsFresh, ControlInv, TypeOK
    <3>3. \A u \in Threads : Announced(u)' =>
              \/ /\ Announced(u) /\ local'[u] = local[u]
                 /\ announcement'[local[u]] = announcement[local[u]]
              \/ announcement'[local'[u]] = epoch
      BY <2>1 DEF Alloc, Goto, shared, private, lists, Announced, Published, PromptInv, LoadedIsFresh, ControlInv, TypeOK, LocalAgrees, ThreadsRegistered
    <3>4. \A x \in Threads : pc'[x] = "scan" => pc[x] = "scan"
      BY <2>1 DEF Alloc, Goto, ControlInv, TypeOK
    <3>5. \A x \in Threads : pc[x] = "scan" =>
              /\ local'[x] = local[x]
              /\ announcement'[local[x]] = announcement[local[x]]
      BY <2>1 DEF Alloc, private, ControlInv, TypeOK, LocalAgrees, ThreadsRegistered
    <3>6. \A r \in Threads : local'[r] \notin todo' /\ Announced(r)' =>
              \/ local'[r] = local[r] /\ local[r] \notin todo
              \/ announcement'[local'[r]] = epoch
      BY <2>1, <3>3 DEF Alloc, shared
    <3>7. QED
      BY <1>1, <3>1, <3>2, <3>3, <3>4, <3>5, <3>6, PromptFrame
  <2>2. ASSUME NEW t \in Threads, LoadEpoch(t) PROVE PromptInv'
    <3>1. epoch' = epoch
      BY <2>2 DEF LoadEpoch, shared
    <3>2. \A u \in Threads : pc'[u] = "pin" =>
              (pc[u] = "pin" /\ loaded'[u] = loaded[u]) \/ loaded'[u] = epoch
      BY <2>2 DEF LoadEpoch, Goto, PromptInv, LoadedIsFresh, ControlInv, TypeOK
    <3>3. \A u \in Threads : Announced(u)' =>
              \/ /\ Announced(u) /\ local'[u] = local[u]
                 /\ announcement'[local[u]] = announcement[local[u]]
              \/ announcement'[local'[u]] = epoch
      BY <2>2 DEF LoadEpoch, Goto, shared, private, lists, Announced, Published, PromptInv, LoadedIsFresh, ControlInv, TypeOK, LocalAgrees, ThreadsRegistered
    <3>4. \A x \in Threads : pc'[x] = "scan" => pc[x] = "scan"
      BY <2>2 DEF LoadEpoch, Goto, ControlInv, TypeOK
    <3>5. \A x \in Threads : pc[x] = "scan" =>
              /\ local'[x] = local[x]
              /\ announcement'[local[x]] = announcement[local[x]]
      BY <2>2 DEF LoadEpoch, private, ControlInv, TypeOK, LocalAgrees, ThreadsRegistered
    <3>6. \A r \in Threads : local'[r] \notin todo' /\ Announced(r)' =>
              \/ local'[r] = local[r] /\ local[r] \notin todo
              \/ announcement'[local'[r]] = epoch
      BY <2>2, <3>3 DEF LoadEpoch, shared
    <3>7. QED
      BY <1>1, <3>1, <3>2, <3>3, <3>4, <3>5, <3>6, PromptFrame
  <2>3. ASSUME NEW t \in Threads, Pin(t) PROVE PromptInv'
    <3>1. epoch' = epoch
      BY <2>3 DEF Pin, shared
    <3>2. \A u \in Threads : pc'[u] = "pin" =>
              (pc[u] = "pin" /\ loaded'[u] = loaded[u]) \/ loaded'[u] = epoch
      BY <2>3 DEF Pin, Goto, PromptInv, LoadedIsFresh, ControlInv, TypeOK
    <3>3. \A u \in Threads : Announced(u)' =>
              \/ /\ Announced(u) /\ local'[u] = local[u]
                 /\ announcement'[local[u]] = announcement[local[u]]
              \/ announcement'[local'[u]] = epoch
      BY <2>3 DEF Pin, Goto, shared, private, lists, Announced, Published, PromptInv, LoadedIsFresh, ControlInv, TypeOK, LocalAgrees, ThreadsRegistered
    <3>4. \A x \in Threads : pc'[x] = "scan" => pc[x] = "scan"
      BY <2>3 DEF Pin, Goto, ControlInv, TypeOK
    <3>5. \A x \in Threads : pc[x] = "scan" =>
              /\ local'[x] = local[x]
              /\ announcement'[local[x]] = announcement[local[x]]
      BY <2>3 DEF Pin, private, ControlInv, TypeOK, LocalAgrees, ThreadsRegistered
    <3>6. \A r \in Threads : local'[r] \notin todo' /\ Announced(r)' =>
              \/ local'[r] = local[r] /\ local[r] \notin todo
              \/ announcement'[local'[r]] = epoch
      BY <2>3, <3>3 DEF Pin, shared
    <3>7. QED
      BY <1>1, <3>1, <3>2, <3>3, <3>4, <3>5, <3>6, PromptFrame
  <2>4. ASSUME NEW t \in Threads, NestGuard(t) PROVE PromptInv'
    <3>1. epoch' = epoch
      BY <2>4 DEF NestGuard, shared
    <3>2. \A u \in Threads : pc'[u] = "pin" =>
              (pc[u] = "pin" /\ loaded'[u] = loaded[u]) \/ loaded'[u] = epoch
      BY <2>4 DEF NestGuard, Goto, PromptInv, LoadedIsFresh, ControlInv, TypeOK
    <3>3. \A u \in Threads : Announced(u)' =>
              \/ /\ Announced(u) /\ local'[u] = local[u]
                 /\ announcement'[local[u]] = announcement[local[u]]
              \/ announcement'[local'[u]] = epoch
      BY <2>4 DEF NestGuard, Goto, shared, private, lists, Announced, Published, PromptInv, LoadedIsFresh, ControlInv, TypeOK, LocalAgrees, ThreadsRegistered
    <3>4. \A x \in Threads : pc'[x] = "scan" => pc[x] = "scan"
      BY <2>4 DEF NestGuard, Goto, ControlInv, TypeOK
    <3>5. \A x \in Threads : pc[x] = "scan" =>
              /\ local'[x] = local[x]
              /\ announcement'[local[x]] = announcement[local[x]]
      BY <2>4 DEF NestGuard, private, ControlInv, TypeOK, LocalAgrees, ThreadsRegistered
    <3>6. \A r \in Threads : local'[r] \notin todo' /\ Announced(r)' =>
              \/ local'[r] = local[r] /\ local[r] \notin todo
              \/ announcement'[local'[r]] = epoch
      BY <2>4, <3>3 DEF NestGuard, shared
    <3>7. QED
      BY <1>1, <3>1, <3>2, <3>3, <3>4, <3>5, <3>6, PromptFrame
  <2>5. ASSUME NEW t \in Threads, NEW o \in Objects, DropObject(t, o) PROVE PromptInv'
    <3>1. epoch' = epoch
      BY <2>5 DEF DropObject, shared
    <3>2. \A u \in Threads : pc'[u] = "pin" =>
              (pc[u] = "pin" /\ loaded'[u] = loaded[u]) \/ loaded'[u] = epoch
      BY <2>5 DEF DropObject, Goto, PromptInv, LoadedIsFresh, ControlInv, TypeOK
    <3>3. \A u \in Threads : Announced(u)' =>
              \/ /\ Announced(u) /\ local'[u] = local[u]
                 /\ announcement'[local[u]] = announcement[local[u]]
              \/ announcement'[local'[u]] = epoch
      BY <2>5 DEF DropObject, Goto, shared, private, lists, Announced, Published, PromptInv, LoadedIsFresh, ControlInv, TypeOK, LocalAgrees, ThreadsRegistered
    <3>4. \A x \in Threads : pc'[x] = "scan" => pc[x] = "scan"
      BY <2>5 DEF DropObject, Goto, ControlInv, TypeOK
    <3>5. \A x \in Threads : pc[x] = "scan" =>
              /\ local'[x] = local[x]
              /\ announcement'[local[x]] = announcement[local[x]]
      BY <2>5 DEF DropObject, private, ControlInv, TypeOK, LocalAgrees, ThreadsRegistered
    <3>6. \A r \in Threads : local'[r] \notin todo' /\ Announced(r)' =>
              \/ local'[r] = local[r] /\ local[r] \notin todo
              \/ announcement'[local'[r]] = epoch
      BY <2>5, <3>3 DEF DropObject, shared
    <3>7. QED
      BY <1>1, <3>1, <3>2, <3>3, <3>4, <3>5, <3>6, PromptFrame
  <2>6. ASSUME NEW t \in Threads, NEW d \in Collectors, DropCollector(t, d) PROVE PromptInv'
    <3>1. /\ UNCHANGED <<epoch, todo, local, num_readers, pc, loaded>>
          /\ local[t] \in Collectors
          /\ announcement' = [announcement EXCEPT ![d] = 0]
          /\ d \in garbage[local[t]]["dropping"] \/ d \in garbage[local[t]]["clearing"]
      BY <2>6 DEF DropCollector, BeingDropped, shared, ControlInv, TypeOK, LocalAgrees
    <3>2. d \notin chain
      BY <3>1 DEF GarbageInv, GarbageConserved, ChainLive, ListedIn, Lists, Items
    <3>3. \A u \in Threads : local[u] # NoCollector =>
              local[u] # d /\ announcement'[local[u]] = announcement[local[u]]
      BY <3>1, <3>2 DEF ControlInv, TypeOK, ThreadsRegistered
    <3>4. \A u \in Threads : Announced(u)' <=> Announced(u)
      BY <3>1 DEF Announced, Published
    <3>5. \A u \in Threads : Announced(u) \/ pc[u] = "scan" => local[u] # NoCollector
      BY DEF Announced, ControlInv, LocalAgrees
    <3>6. QED
      BY <1>1, <3>1, <3>3, <3>4, <3>5, PromptFrame
  <2>7. ASSUME NEW t \in Threads, FinishDrop(t) PROVE PromptInv'
    <3>1. epoch' = epoch
      BY <2>7 DEF FinishDrop, shared
    <3>2. \A u \in Threads : pc'[u] = "pin" =>
              (pc[u] = "pin" /\ loaded'[u] = loaded[u]) \/ loaded'[u] = epoch
      BY <2>7 DEF FinishDrop, Goto, PromptInv, LoadedIsFresh, ControlInv, TypeOK
    <3>3. \A u \in Threads : Announced(u)' =>
              \/ /\ Announced(u) /\ local'[u] = local[u]
                 /\ announcement'[local[u]] = announcement[local[u]]
              \/ announcement'[local'[u]] = epoch
      BY <2>7 DEF FinishDrop, Goto, shared, private, lists, Announced, Published, PromptInv, LoadedIsFresh, ControlInv, TypeOK, LocalAgrees, ThreadsRegistered
    <3>4. \A x \in Threads : pc'[x] = "scan" => pc[x] = "scan"
      BY <2>7 DEF FinishDrop, Goto, ControlInv, TypeOK
    <3>5. \A x \in Threads : pc[x] = "scan" =>
              /\ local'[x] = local[x]
              /\ announcement'[local[x]] = announcement[local[x]]
      BY <2>7 DEF FinishDrop, private, ControlInv, TypeOK, LocalAgrees, ThreadsRegistered
    <3>6. \A r \in Threads : local'[r] \notin todo' /\ Announced(r)' =>
              \/ local'[r] = local[r] /\ local[r] \notin todo
              \/ announcement'[local'[r]] = epoch
      BY <2>7, <3>3 DEF FinishDrop, shared
    <3>7. QED
      BY <1>1, <3>1, <3>2, <3>3, <3>4, <3>5, <3>6, PromptFrame
  <2>8. ASSUME NEW t \in Threads, NEW o \in Objects, DropPanics(t, o) PROVE PromptInv'
    <3>1. epoch' = epoch
      BY <2>8 DEF DropPanics, shared
    <3>2. \A u \in Threads : pc'[u] = "pin" =>
              (pc[u] = "pin" /\ loaded'[u] = loaded[u]) \/ loaded'[u] = epoch
      BY <2>8 DEF DropPanics, Goto, PromptInv, LoadedIsFresh, ControlInv, TypeOK
    <3>3. \A u \in Threads : Announced(u)' =>
              \/ /\ Announced(u) /\ local'[u] = local[u]
                 /\ announcement'[local[u]] = announcement[local[u]]
              \/ announcement'[local'[u]] = epoch
      BY <2>8 DEF DropPanics, Goto, shared, private, lists, Announced, Published, PromptInv, LoadedIsFresh, ControlInv, TypeOK, LocalAgrees, ThreadsRegistered
    <3>4. \A x \in Threads : pc'[x] = "scan" => pc[x] = "scan"
      BY <2>8 DEF DropPanics, Goto, ControlInv, TypeOK
    <3>5. \A x \in Threads : pc[x] = "scan" =>
              /\ local'[x] = local[x]
              /\ announcement'[local[x]] = announcement[local[x]]
      BY <2>8 DEF DropPanics, private, ControlInv, TypeOK, LocalAgrees, ThreadsRegistered
    <3>6. \A r \in Threads : local'[r] \notin todo' /\ Announced(r)' =>
              \/ local'[r] = local[r] /\ local[r] \notin todo
              \/ announcement'[local'[r]] = epoch
      BY <2>8, <3>3 DEF DropPanics, shared
    <3>7. QED
      BY <1>1, <3>1, <3>2, <3>3, <3>4, <3>5, <3>6, PromptFrame
  <2>9. ASSUME NEW t \in Threads, NEW o \in Objects, Retire(t, o) PROVE PromptInv'
    <3>1. epoch' = epoch
      BY <2>9 DEF Retire, Collect, shared
    <3>2. \A u \in Threads : pc'[u] = "pin" =>
              (pc[u] = "pin" /\ loaded'[u] = loaded[u]) \/ loaded'[u] = epoch
      BY <2>9 DEF Retire, Collect, Goto, PromptInv, LoadedIsFresh, ControlInv, TypeOK
    <3>3. \A u \in Threads : Announced(u)' =>
              \/ /\ Announced(u) /\ local'[u] = local[u]
                 /\ announcement'[local[u]] = announcement[local[u]]
              \/ announcement'[local'[u]] = epoch
      BY <2>9 DEF Retire, Collect, Goto, shared, private, lists, Announced, Published, PromptInv, LoadedIsFresh, ControlInv, TypeOK, LocalAgrees, ThreadsRegistered
    <3>4. \A x \in Threads : pc'[x] = "scan" => pc[x] = "scan"
      BY <2>9 DEF Retire, Collect, Goto, ControlInv, TypeOK
    <3>5. \A x \in Threads : pc[x] = "scan" =>
              /\ local'[x] = local[x]
              /\ announcement'[local[x]] = announcement[local[x]]
      BY <2>9 DEF Retire, Collect, private, ControlInv, TypeOK, LocalAgrees, ThreadsRegistered
    <3>6. \A r \in Threads : local'[r] \notin todo' /\ Announced(r)' =>
              \/ local'[r] = local[r] /\ local[r] \notin todo
              \/ announcement'[local'[r]] = epoch
      BY <2>9, <3>3 DEF Retire, Collect, shared
    <3>7. QED
      BY <1>1, <3>1, <3>2, <3>3, <3>4, <3>5, <3>6, PromptFrame
  <2>10. ASSUME NEW t \in Threads, Accelerate(t) PROVE PromptInv'
    <3>1. epoch' = epoch
      BY <2>10 DEF Accelerate, shared
    <3>2. \A u \in Threads : pc'[u] = "pin" =>
              (pc[u] = "pin" /\ loaded'[u] = loaded[u]) \/ loaded'[u] = epoch
      BY <2>10 DEF Accelerate, Goto, PromptInv, LoadedIsFresh, ControlInv, TypeOK
    <3>3. \A u \in Threads : Announced(u)' =>
              \/ /\ Announced(u) /\ local'[u] = local[u]
                 /\ announcement'[local[u]] = announcement[local[u]]
              \/ announcement'[local'[u]] = epoch
      BY <2>10 DEF Accelerate, Goto, shared, private, lists, Announced, Published, PromptInv, LoadedIsFresh, ControlInv, TypeOK, LocalAgrees, ThreadsRegistered
    <3>4. \A x \in Threads : pc'[x] = "scan" => pc[x] = "scan"
      BY <2>10 DEF Accelerate, Goto, ControlInv, TypeOK
    <3>5. \A x \in Threads : pc[x] = "scan" =>
              /\ local'[x] = local[x]
              /\ announcement'[local[x]] = announcement[local[x]]
      BY <2>10 DEF Accelerate, private, ControlInv, TypeOK, LocalAgrees, ThreadsRegistered
    <3>6. \A r \in Threads : local'[r] \notin todo' /\ Announced(r)' =>
              \/ local'[r] = local[r] /\ local[r] \notin todo
              \/ announcement'[local'[r]] = epoch
      BY <2>10, <3>3 DEF Accelerate, shared
    <3>7. QED
      BY <1>1, <3>1, <3>2, <3>3, <3>4, <3>5, <3>6, PromptFrame
  <2>11. ASSUME NEW t \in Threads, SetHasGarbage(t) PROVE PromptInv'
    <3>1. epoch' = epoch
      BY <2>11 DEF SetHasGarbage, shared
    <3>2. \A u \in Threads : pc'[u] = "pin" =>
              (pc[u] = "pin" /\ loaded'[u] = loaded[u]) \/ loaded'[u] = epoch
      BY <2>11 DEF SetHasGarbage, Goto, PromptInv, LoadedIsFresh, ControlInv, TypeOK
    <3>3. \A u \in Threads : Announced(u)' =>
              \/ /\ Announced(u) /\ local'[u] = local[u]
                 /\ announcement'[local[u]] = announcement[local[u]]
              \/ announcement'[local'[u]] = epoch
      BY <2>11 DEF SetHasGarbage, Goto, shared, private, lists, Announced, Published, PromptInv, LoadedIsFresh, ControlInv, TypeOK, LocalAgrees, ThreadsRegistered
    <3>4. \A x \in Threads : pc'[x] = "scan" => pc[x] = "scan"
      BY <2>11 DEF SetHasGarbage, Goto, ControlInv, TypeOK
    <3>5. \A x \in Threads : pc[x] = "scan" =>
              /\ local'[x] = local[x]
              /\ announcement'[local[x]] = announcement[local[x]]
      BY <2>11 DEF SetHasGarbage, private, ControlInv, TypeOK, LocalAgrees, ThreadsRegistered
    <3>6. \A r \in Threads : local'[r] \notin todo' /\ Announced(r)' =>
              \/ local'[r] = local[r] /\ local[r] \notin todo
              \/ announcement'[local'[r]] = epoch
      BY <2>11, <3>3 DEF SetHasGarbage, shared
    <3>7. QED
      BY <1>1, <3>1, <3>2, <3>3, <3>4, <3>5, <3>6, PromptFrame
  <2>12. ASSUME NEW t \in Threads, EndNestedGuard(t) PROVE PromptInv'
    <3>1. epoch' = epoch
      BY <2>12 DEF EndNestedGuard, shared
    <3>2. \A u \in Threads : pc'[u] = "pin" =>
              (pc[u] = "pin" /\ loaded'[u] = loaded[u]) \/ loaded'[u] = epoch
      BY <2>12 DEF EndNestedGuard, Goto, PromptInv, LoadedIsFresh, ControlInv, TypeOK
    <3>3. \A u \in Threads : Announced(u)' =>
              \/ /\ Announced(u) /\ local'[u] = local[u]
                 /\ announcement'[local[u]] = announcement[local[u]]
              \/ announcement'[local'[u]] = epoch
      BY <2>12 DEF EndNestedGuard, Goto, shared, private, lists, Announced, Published, PromptInv, LoadedIsFresh, ControlInv, TypeOK, LocalAgrees, ThreadsRegistered
    <3>4. \A x \in Threads : pc'[x] = "scan" => pc[x] = "scan"
      BY <2>12 DEF EndNestedGuard, Goto, ControlInv, TypeOK
    <3>5. \A x \in Threads : pc[x] = "scan" =>
              /\ local'[x] = local[x]
              /\ announcement'[local[x]] = announcement[local[x]]
      BY <2>12 DEF EndNestedGuard, private, ControlInv, TypeOK, LocalAgrees, ThreadsRegistered
    <3>6. \A r \in Threads : local'[r] \notin todo' /\ Announced(r)' =>
              \/ local'[r] = local[r] /\ local[r] \notin todo
              \/ announcement'[local'[r]] = epoch
      BY <2>12, <3>3 DEF EndNestedGuard, shared
    <3>7. QED
      BY <1>1, <3>1, <3>2, <3>3, <3>4, <3>5, <3>6, PromptFrame
  <2>13. ASSUME NEW t \in Threads, EndGuard(t) PROVE PromptInv'
    <3>1. epoch' = epoch
      BY <2>13 DEF EndGuard, LastGuard, shared
    <3>2. \A u \in Threads : pc'[u] = "pin" =>
              (pc[u] = "pin" /\ loaded'[u] = loaded[u]) \/ loaded'[u] = epoch
      BY <2>13 DEF EndGuard, LastGuard, Goto, PromptInv, LoadedIsFresh, ControlInv, TypeOK
    <3>3. \A u \in Threads : Announced(u)' =>
              \/ /\ Announced(u) /\ local'[u] = local[u]
                 /\ announcement'[local[u]] = announcement[local[u]]
              \/ announcement'[local'[u]] = epoch
      BY <2>13 DEF EndGuard, LastGuard, Goto, shared, private, lists, Announced, Published, PromptInv, LoadedIsFresh, ControlInv, TypeOK, LocalAgrees, ThreadsRegistered
    <3>4. \A x \in Threads : pc'[x] = "scan" => pc[x] = "scan"
      BY <2>13 DEF EndGuard, LastGuard, Goto, ControlInv, TypeOK
    <3>5. \A x \in Threads : pc[x] = "scan" =>
              /\ local'[x] = local[x]
              /\ announcement'[local[x]] = announcement[local[x]]
      BY <2>13 DEF EndGuard, LastGuard, private, ControlInv, TypeOK, LocalAgrees, ThreadsRegistered
    <3>6. \A r \in Threads : local'[r] \notin todo' /\ Announced(r)' =>
              \/ local'[r] = local[r] /\ local[r] \notin todo
              \/ announcement'[local'[r]] = epoch
      BY <2>13, <3>3 DEF EndGuard, LastGuard, shared
    <3>7. QED
      BY <1>1, <3>1, <3>2, <3>3, <3>4, <3>5, <3>6, PromptFrame
  <2>14. ASSUME NEW t \in Threads, SkipScan(t) PROVE PromptInv'
    <3>1. epoch' = epoch
      BY <2>14 DEF SkipScan, LastGuard, shared
    <3>2. \A u \in Threads : pc'[u] = "pin" =>
              (pc[u] = "pin" /\ loaded'[u] = loaded[u]) \/ loaded'[u] = epoch
      BY <2>14 DEF SkipScan, LastGuard, Goto, PromptInv, LoadedIsFresh, ControlInv, TypeOK
    <3>3. \A u \in Threads : Announced(u)' =>
              \/ /\ Announced(u) /\ local'[u] = local[u]
                 /\ announcement'[local[u]] = announcement[local[u]]
              \/ announcement'[local'[u]] = epoch
      BY <2>14 DEF SkipScan, LastGuard, Goto, shared, private, lists, Announced, Published, PromptInv, LoadedIsFresh, ControlInv, TypeOK, LocalAgrees, ThreadsRegistered
    <3>4. \A x \in Threads : pc'[x] = "scan" => pc[x] = "scan"
      BY <2>14 DEF SkipScan, LastGuard, Goto, ControlInv, TypeOK
    <3>5. \A x \in Threads : pc[x] = "scan" =>
              /\ local'[x] = local[x]
              /\ announcement'[local[x]] = announcement[local[x]]
      BY <2>14 DEF SkipScan, LastGuard, private, ControlInv, TypeOK, LocalAgrees, ThreadsRegistered
    <3>6. \A r \in Threads : local'[r] \notin todo' /\ Announced(r)' =>
              \/ local'[r] = local[r] /\ local[r] \notin todo
              \/ announcement'[local'[r]] = epoch
      BY <2>14, <3>3 DEF SkipScan, LastGuard, shared
    <3>7. QED
      BY <1>1, <3>1, <3>2, <3>3, <3>4, <3>5, <3>6, PromptFrame
  <2>15. ASSUME NEW t \in Threads, StartScan(t) PROVE PromptInv'
    <3>1. /\ UNCHANGED <<epoch, announcement, local, loaded, chain>>
          /\ num_readers[local[t]] = 1 /\ pc[t] \in {"idle", "unwind"}
          /\ local[t] \in Collectors
          /\ num_readers' = [num_readers EXCEPT ![local[t]] = 0]
          /\ todo' = chain /\ pc' = [pc EXCEPT ![t] = "scan"]
          /\ tag \notin {"First", "Both"}
      BY <2>15 DEF StartScan, LastGuard, Goto, lists, ControlInv, TypeOK
    <3>2. \A u \in Threads : Announced(u)' => Announced(u)
      BY <3>1 DEF Announced, Published, ControlInv, TypeOK, ThreadsRegistered
    <3>3. \A u \in Threads : Announced(u) => local[u] \in todo'
      BY <3>1, AnnouncedIsPublished
    <3>4. \A u \in Threads : pc'[u] = "pin" => pc[u] = "pin"
      BY <3>1 DEF ControlInv, TypeOK
    <3>5. QED
      BY <1>1, <3>1, <3>2, <3>3, <3>4, PromptFrame
  <2>16. ASSUME NEW t \in Threads, Unpin(t) PROVE PromptInv'
    <3>1. epoch' = epoch
      BY <2>16 DEF Unpin, shared
    <3>2. \A u \in Threads : pc'[u] = "pin" =>
              (pc[u] = "pin" /\ loaded'[u] = loaded[u]) \/ loaded'[u] = epoch
      BY <2>16 DEF Unpin, Goto, PromptInv, LoadedIsFresh, ControlInv, TypeOK
    <3>3. \A u \in Threads : Announced(u)' =>
              \/ /\ Announced(u) /\ local'[u] = local[u]
                 /\ announcement'[local[u]] = announcement[local[u]]
              \/ announcement'[local'[u]] = epoch
      BY <2>16 DEF Unpin, Goto, shared, private, lists, Announced, Published, PromptInv, LoadedIsFresh, ControlInv, TypeOK, LocalAgrees, ThreadsRegistered
    <3>4. \A x \in Threads : pc'[x] = "scan" => pc[x] = "scan"
      BY <2>16 DEF Unpin, Goto, ControlInv, TypeOK
    <3>5. \A x \in Threads : pc[x] = "scan" =>
              /\ local'[x] = local[x]
              /\ announcement'[local[x]] = announcement[local[x]]
      BY <2>16 DEF Unpin, private, ControlInv, TypeOK, LocalAgrees, ThreadsRegistered
    <3>6. \A r \in Threads : local'[r] \notin todo' /\ Announced(r)' =>
              \/ local'[r] = local[r] /\ local[r] \notin todo
              \/ announcement'[local'[r]] = epoch
      BY <2>16, <3>3 DEF Unpin, shared
    <3>7. QED
      BY <1>1, <3>1, <3>2, <3>3, <3>4, <3>5, <3>6, PromptFrame
  <2>17. ASSUME NEW t \in Threads, NEW d \in Collectors, ScanPass(t, d) PROVE PromptInv'
    <3>1. /\ UNCHANGED <<epoch, announcement, local, num_readers, pc, loaded>>
          /\ pc[t] = "scan" /\ todo' = todo \ {d}
          /\ \/ d = local[t]
             \/ state[d] \in {INACTIVE, state[local[t]]}
             \/ state[d] = INVALID
      BY <2>17 DEF ScanPass, private, lists
    <3>2. \A u \in Threads : Announced(u)' <=> Announced(u)
      BY <3>1 DEF Announced, Published
    <3>3. Announced(t) /\ \A x \in Threads : pc[x] = "scan" => x = t
      BY <3>1 DEF Announced, Published, ControlInv, LocalAgrees, ScanExclusive
    <3>4. \A r \in Threads : Announced(r) /\ local[r] = d =>
              announcement[local[r]] = announcement[local[t]]
      BY <3>1, <3>3, AnnouncedIsPublished, StateValues
    <3>5. QED
      BY <1>1, <3>1, <3>2, <3>3, <3>4, PromptFrame
  <2>18. ASSUME NEW t \in Threads, NEW d \in Collectors, ScanUnlink(t, d) PROVE PromptInv'
    <3>1. /\ UNCHANGED <<epoch, announcement, local, num_readers, pc, loaded>>
          /\ todo' = todo \ {d} /\ state[d] = INVALID
      BY <2>18 DEF ScanUnlink, Collect, private
    <3>2. \A u \in Threads : Announced(u)' <=> Announced(u)
      BY <3>1 DEF Announced, Published
    <3>3. \A r \in Threads : Announced(r) => local[r] # d
      BY <3>1, AnnouncedIsPublished, StateValues
    <3>4. QED
      BY <1>1, <3>1, <3>2, <3>3, PromptFrame
  <2>19. ASSUME NEW t \in Threads, NEW d \in Collectors, ScanStop(t, d) PROVE PromptInv'
    <3>1. /\ UNCHANGED <<epoch, announcement, local, num_readers, loaded>>
          /\ pc[t] = "scan" /\ pc' = [pc EXCEPT ![t] = "unlock"]
      BY <2>19 DEF ScanStop, Goto, private, lists
    <3>2. \A u \in Threads : Announced(u)' => Announced(u)
      BY <3>1 DEF Announced, Published, ControlInv, TypeOK
    <3>3. \A x \in Threads : pc'[x] # "scan"
      BY <3>1 DEF ControlInv, TypeOK, ScanExclusive
    <3>4. \A u \in Threads : pc'[u] = "pin" => pc[u] = "pin"
      BY <3>1 DEF ControlInv, TypeOK
    <3>5. QED
      BY <1>1, <3>1, <3>2, <3>3, <3>4, PromptFrame
  <2>20. ASSUME NEW t \in Threads, Advance(t) PROVE PromptInv'
    <3>1. /\ UNCHANGED <<announcement, num_readers, local, loaded>>
          /\ todo = {} /\ pc[t] = "scan" /\ pc' = [pc EXCEPT ![t] = "unlock"]
          /\ epoch' = NextEpoch(announcement[local[t]])
          /\ announcement[local[t]] \in Epochs
          /\ \A u \in Threads : u # t => pc[u] # "scan"
          /\ Announced(t)
      BY <2>20 DEF Advance, Goto, private, lists, ControlInv, TypeOK, LocalAgrees, Published, Announced, ScanExclusive
    <3>2. /\ \A x \in Threads : pc'[x] # "scan"
          /\ \A u \in Threads : pc'[u] = "pin" <=> pc[u] = "pin"
          /\ \A u \in Threads : Announced(u)' <=> Announced(u)
      BY <3>1 DEF Announced, Published, ControlInv, TypeOK
    <3>3. CASE epoch' = epoch
      BY <1>1, <3>1, <3>2, <3>3, PromptFrame DEF PromptInv, LoadedIsFresh
    <3>4. CASE epoch' # epoch
      <4>1. announcement[local[t]] = epoch /\ epoch' = NextEpoch(epoch)
        BY <3>1, <3>4 DEF PromptInv, AnnouncedIsRecent
      <4>2. \A u \in Threads : Announced(u) => announcement[local[u]] = epoch
        BY <3>1, <4>1 DEF PromptInv, ScannedAgrees
      <4>3. \A u \in Threads : pc[u] # "pin"
        BY <1>3, <3>4 DEF PromptStep
      <4>4. QED
        BY <3>1, <3>2, <4>1, <4>2, <4>3 DEF PromptInv, LoadedIsFresh, AnnouncedIsRecent, ScannedAgrees
    <3>5. QED
      BY <3>3, <3>4
  <2>21. ASSUME NEW t \in Threads, UnlockChain(t) PROVE PromptInv'
    <3>1. epoch' = epoch
      BY <2>21 DEF UnlockChain, shared
    <3>2. \A u \in Threads : pc'[u] = "pin" =>
              (pc[u] = "pin" /\ loaded'[u] = loaded[u]) \/ loaded'[u] = epoch
      BY <2>21 DEF UnlockChain, Goto, PromptInv, LoadedIsFresh, ControlInv, TypeOK
    <3>3. \A u \in Threads : Announced(u)' =>
              \/ /\ Announced(u) /\ local'[u] = local[u]
                 /\ announcement'[local[u]] = announcement[local[u]]
              \/ announcement'[local'[u]] = epoch
      BY <2>21 DEF UnlockChain, Goto, shared, private, lists, Announced, Published, PromptInv, LoadedIsFresh, ControlInv, TypeOK, LocalAgrees, ThreadsRegistered
    <3>4. \A x \in Threads : pc'[x] = "scan" => pc[x] = "scan"
      BY <2>21 DEF UnlockChain, Goto, ControlInv, TypeOK
    <3>5. \A x \in Threads : pc[x] = "scan" =>
              /\ local'[x] = local[x]
              /\ announcement'[local[x]] = announcement[local[x]]
      BY <2>21 DEF UnlockChain, private, ControlInv, TypeOK, LocalAgrees, ThreadsRegistered
    <3>6. \A r \in Threads : local'[r] \notin todo' /\ Announced(r)' =>
              \/ local'[r] = local[r] /\ local[r] \notin todo
              \/ announcement'[local'[r]] = epoch
      BY <2>21, <3>3 DEF UnlockChain, shared
    <3>7. QED
      BY <1>1, <3>1, <3>2, <3>3, <3>4, <3>5, <3>6, PromptFrame
  <2>22. ASSUME NEW t \in Threads, Suspend(t) PROVE PromptInv'
    <3>1. epoch' = epoch
      BY <2>22 DEF Suspend, shared
    <3>2. \A u \in Threads : pc'[u] = "pin" =>
              (pc[u] = "pin" /\ loaded'[u] = loaded[u]) \/ loaded'[u] = epoch
      BY <2>22 DEF Suspend, Goto, PromptInv, LoadedIsFresh, ControlInv, TypeOK
    <3>3. \A u \in Threads : Announced(u)' =>
              \/ /\ Announced(u) /\ local'[u] = local[u]
                 /\ announcement'[local[u]] = announcement[local[u]]
              \/ announcement'[local'[u]] = epoch
      BY <2>22 DEF Suspend, Goto, shared, private, lists, Announced, Published, PromptInv, LoadedIsFresh, ControlInv, TypeOK, LocalAgrees, ThreadsRegistered
    <3>4. \A x \in Threads : pc'[x] = "scan" => pc[x] = "scan"
      BY <2>22 DEF Suspend, Goto, ControlInv, TypeOK
    <3>5. \A x \in Threads : pc[x] = "scan" =>
              /\ local'[x] = local[x]
              /\ announcement'[local[x]] = announcement[local[x]]
      BY <2>22 DEF Suspend, private, ControlInv, TypeOK, LocalAgrees, ThreadsRegistered
    <3>6. \A r \in Threads : local'[r] \notin todo' /\ Announced(r)' =>
              \/ local'[r] = local[r] /\ local[r] \notin todo
              \/ announcement'[local'[r]] = epoch
      BY <2>22, <3>3 DEF Suspend, shared
    <3>7. QED
      BY <1>1, <3>1, <3>2, <3>3, <3>4, <3>5, <3>6, PromptFrame
  <2>23. ASSUME NEW t \in Threads, MarkScanEnforced(t) PROVE PromptInv'
    <3>1. epoch' = epoch
      BY <2>23 DEF MarkScanEnforced, shared
    <3>2. \A u \in Threads : pc'[u] = "pin" =>
              (pc[u] = "pin" /\ loaded'[u] = loaded[u]) \/ loaded'[u] = epoch
      BY <2>23 DEF MarkScanEnforced, Goto, PromptInv, LoadedIsFresh, ControlInv, TypeOK
    <3>3. \A u \in Threads : Announced(u)' =>
              \/ /\ Announced(u) /\ local'[u] = local[u]
                 /\ announcement'[local[u]] = announcement[local[u]]
              \/ announcement'[local'[u]] = epoch
      BY <2>23 DEF MarkScanEnforced, Goto, shared, private, lists, Announced, Published, PromptInv, LoadedIsFresh, ControlInv, TypeOK, LocalAgrees, ThreadsRegistered
    <3>4. \A x \in Threads : pc'[x] = "scan" => pc[x] = "scan"
      BY <2>23 DEF MarkScanEnforced, Goto, ControlInv, TypeOK
    <3>5. \A x \in Threads : pc[x] = "scan" =>
              /\ local'[x] = local[x]
              /\ announcement'[local[x]] = announcement[local[x]]
      BY <2>23 DEF MarkScanEnforced, private, ControlInv, TypeOK, LocalAgrees, ThreadsRegistered
    <3>6. \A r \in Threads : local'[r] \notin todo' /\ Announced(r)' =>
              \/ local'[r] = local[r] /\ local[r] \notin todo
              \/ announcement'[local'[r]] = epoch
      BY <2>23, <3>3 DEF MarkScanEnforced, shared
    <3>7. QED
      BY <1>1, <3>1, <3>2, <3>3, <3>4, <3>5, <3>6, PromptFrame
  <2>24. QED
    BY <1>3, NextCases, <2>1, <2>2, <2>3, <2>4, <2>5, <2>6, <2>7, <2>8, <2>9, <2>10, <2>11, <2>12, <2>13, <2>14, <2>15, <2>16, <2>17, <2>18, <2>19, <2>20, <2>21, <2>22, <2>23
<1>4. QED
  BY <1>2, <1>3

(* Initially nothing is announced.                                         *)
LEMMA PromptInit == Init => PromptInv
  BY DEF Init, PromptInv, LoadedIsFresh, AnnouncedIsRecent, ScannedAgrees, Announced

(* Where the epoch is, a step can only set it to its successor, and no     *)
(* thread publishes an epoch that is not the present one.                  *)
LEMMA PromptIsForward ==
    ControlInv /\ PromptInv /\ [Next /\ PromptStep]_vars
        => [Next /\ ForwardStep]_vars
<1> SUFFICES ASSUME ControlInv, PromptInv, Next, PromptStep PROVE ForwardStep
  BY DEF vars
<1>1. epoch \in Epochs
  BY DEF ControlInv, TypeOK
<1>2. \A t \in Threads : pc[t] = "pin" => loaded[t] # NextEpoch(epoch)
  BY <1>1, EpochSuccession DEF PromptInv, LoadedIsFresh
<1>3. epoch' \in {epoch, NextEpoch(epoch)}
  <2>1. epoch' = epoch \/ \E t \in Threads : Advance(t)
    <3>1. PICK t \in Threads :
              \/ OpenGuard(t) \/ NestGuard(t) \/ DropStep(t)
              \/ \E o \in Objects : DropPanics(t, o) \/ Retire(t, o)
              \/ Accelerate(t) \/ SetHasGarbage(t) \/ EndNestedGuard(t)
              \/ CloseGuard(t) \/ ScanStep(t) \/ Suspend(t)
              \/ MarkScanEnforced(t)
      BY CollectorAssumption, Zenon DEF Next
    <3>2. OpenGuard(t) \/ NestGuard(t) \/ DropStep(t) => epoch' = epoch
      BY DEF OpenGuard, Alloc, LoadEpoch, Pin, NestGuard, DropStep,
             DropObject, DropCollector, FinishDrop, shared
    <3>3. (\E o \in Objects : DropPanics(t, o) \/ Retire(t, o))
              \/ Accelerate(t) \/ SetHasGarbage(t) \/ EndNestedGuard(t)
              => epoch' = epoch
      BY DEF DropPanics, Retire, Collect, Accelerate, SetHasGarbage, EndNestedGuard, shared
    <3>4. CloseGuard(t) \/ Suspend(t) \/ MarkScanEnforced(t) => epoch' = epoch
      BY DEF CloseGuard, EndGuard, SkipScan, StartScan, LastGuard, Unpin,
             Suspend, MarkScanEnforced, shared
    <3>5. ScanStep(t) => Advance(t) \/ epoch' = epoch
      BY DEF ScanStep, ScanPass, ScanUnlink, Collect, ScanStop, UnlockChain
    <3>6. QED
      BY <3>1, <3>2, <3>3, <3>4, <3>5
  <2>2. ASSUME NEW t \in Threads, Advance(t)
        PROVE  epoch' \in {epoch, NextEpoch(epoch)}
    <3>1. Announced(t) /\ epoch' = NextEpoch(announcement[local[t]])
      BY <2>2 DEF Advance, Announced, Published, ControlInv, LocalAgrees
    <3>2. QED
      BY <3>1 DEF PromptInv, AnnouncedIsRecent
  <2>3. QED
    BY <2>1, <2>2
<1>4. QED
  BY <1>2, <1>3 DEF ForwardStep

(* PromptStep is the stronger of the two assumptions on scheduling.        *)
THEOREM PromptForward == PromptSpec => ForwardSpec /\ []PromptInv
<1>1. Init => ControlInv /\ GarbageInv /\ PromptInv
  BY ControlInit, GarbageInit, PromptInit
<1>2. /\ ControlInv /\ GarbageInv /\ PromptInv
      /\ [Next /\ PromptStep]_vars
      => (ControlInv /\ GarbageInv /\ PromptInv)'
  BY ControlStep, GarbageStep, PromptStepKeeps
<1>3. ControlInv /\ PromptInv /\ [Next /\ PromptStep]_vars
          => [ForwardNext]_vars
  <2>1. Next /\ ForwardStep => ForwardNext
    BY DEF Next, OpenGuard, ScanStep, ForwardNext
  <2>2. QED
    BY <2>1, PromptIsForward
<1>4. QED
  BY <1>1, <1>2, <1>3, PTL DEF PromptSpec, ForwardSpec

(* The global epoch only ever moves to its successor (epoch.rs:3), so long *)
(* as no load of it is overtaken.                                          *)
THEOREM PromptRotates == PromptSpec => EpochRotates
<1>1. IInv /\ [ForwardNext]_vars => [epoch' # epoch => epoch' = NextEpoch(epoch)]_vars
  <2>1. [Next /\ ForwardStep]_vars => [epoch' # epoch => epoch' = NextEpoch(epoch)]_vars
    BY DEF ForwardStep
  <2>2. QED
    BY <2>1, ForwardIsNext DEF IInv
<1>2. QED
  BY <1>1, PromptForward, ForwardInvariant, PTL DEF ForwardSpec, EpochRotates

(* A guard keeps the epoch from passing what its thread announced by more  *)
(* than one (guard.rs:11-13).                                              *)
THEOREM PromptHolds == PromptSpec => []GuardHoldsEpoch
<1>1. IInv /\ PromptInv => GuardHoldsEpoch
  BY GuardedIsPublished
  DEF IInv, PromptInv, AnnouncedIsRecent, GuardHoldsEpoch, Announced, Published, InGuard
<1>2. QED
  BY <1>1, PromptForward, ForwardInvariant, PTL

(* Nothing is dropped under a guard if no load is overtaken.               *)
THEOREM PromptProtects == PromptSpec => []GuardProtects
  BY PromptForward, ForwardProtects, PTL

-----------------------------------------------------------------------------
(* The generations of Epoch::in_same_generation() *)

(* The epochs one and two after an epoch are other epochs.                 *)
LEMMA EpochTwoAhead ==
    ASSUME NEW e \in Epochs
    PROVE  NextEpoch(NextEpoch(e)) \notin {e, NextEpoch(e)}
<1> DEFINE f == NextEpoch(e)
<1>1. f \in Epochs
  BY EpochSuccession
<1>2. /\ f = IF e = NUM_EPOCHS - 1 THEN 0 ELSE e + 1
      /\ NextEpoch(f) = IF f = NUM_EPOCHS - 1 THEN 0 ELSE f + 1
  BY <1>1, NextEpochValue
<1> HIDE DEF f
<1>3. NextEpoch(f) # e /\ NextEpoch(f) # f
  BY <1>1, <1>2, EpochAssumption DEF Epochs
<1>4. QED
  BY <1>3 DEF f

(* A thread that has a guard after a step, and was not just publishing an  *)
(* epoch, had it before, with the same Collector and announcement.         *)
LEMMA GuardFrame ==
    ASSUME ControlInv, GarbageInv, Next,
           NEW r \in Threads, InGuard(r)', pc[r] # "pin"
    PROVE  /\ InGuard(r) /\ local'[r] = local[r]
           /\ announcement'[local[r]] = announcement[local[r]]
<1> DEFINE Kept == /\ InGuard(r) /\ local'[r] = local[r]
                   /\ announcement'[local[r]] = announcement[local[r]]
<1> USE CollectorAssumption
<1>1. CASE UNCHANGED <<local, num_readers, announcement>>
  BY <1>1 DEF InGuard
<1>2. ASSUME NEW t \in Threads, NEW c \in Collectors, Alloc(t, c) PROVE Kept
  BY <1>2 DEF Alloc, InGuard, ControlInv, TypeOK, ThreadsRegistered
<1>3. ASSUME NEW t \in Threads, LoadEpoch(t) PROVE Kept
  BY <1>3 DEF LoadEpoch, Goto, InGuard, ControlInv, TypeOK, ThreadsRegistered
<1>4. ASSUME NEW t \in Threads, Pin(t) PROVE Kept
  BY <1>4 DEF Pin, InGuard, ControlInv, TypeOK, LocalAgrees, ThreadsRegistered
<1>5. ASSUME NEW t \in Threads, NestGuard(t) \/ EndNestedGuard(t) PROVE Kept
  BY <1>5 DEF NestGuard, EndNestedGuard, Goto, lists, InGuard, ControlInv,
              TypeOK, ThreadsRegistered
<1>6. ASSUME NEW t \in Threads, NEW d \in Collectors, DropCollector(t, d) PROVE Kept
  <2>1. /\ UNCHANGED <<local, num_readers, pc>> /\ local[t] \in Collectors
        /\ announcement' = [announcement EXCEPT ![d] = 0]
        /\ d \in garbage[local[t]]["dropping"] \/ d \in garbage[local[t]]["clearing"]
    BY <1>6 DEF DropCollector, BeingDropped, ControlInv, TypeOK, LocalAgrees
  <2>2. d \notin chain
    BY <2>1 DEF GarbageInv, GarbageConserved, ChainLive, ListedIn, Lists, Items
  <2>3. QED
    BY <2>1, <2>2 DEF InGuard, ControlInv, TypeOK, ThreadsRegistered
<1>7. ASSUME NEW t \in Threads, EndGuard(t) \/ SkipScan(t) \/ StartScan(t) PROVE Kept
  <2>1. LastGuard(t)
    BY <1>7 DEF EndGuard, SkipScan, StartScan
  <2>2. QED
    BY <2>1 DEF LastGuard, InGuard, ControlInv, TypeOK, ThreadsRegistered
<1>8. ASSUME NEW t \in Threads, Suspend(t) PROVE Kept
  BY <1>8 DEF Suspend, private, InGuard, ControlInv, TypeOK
<1>9. ASSUME NEW t \in Threads,
             \/ FinishDrop(t) \/ Accelerate(t) \/ SetHasGarbage(t) \/ Unpin(t)
             \/ Advance(t) \/ UnlockChain(t) \/ MarkScanEnforced(t)
             \/ \E o \in Objects : DropObject(t, o) \/ DropPanics(t, o) \/ Retire(t, o)
             \/ \E d \in Collectors :
                    ScanPass(t, d) \/ ScanUnlink(t, d) \/ ScanStop(t, d)
      PROVE  Kept
  <2>1. UNCHANGED <<local, num_readers, announcement>>
    BY <1>9 DEF FinishDrop, Accelerate, SetHasGarbage, Unpin, Advance,
                UnlockChain, MarkScanEnforced, DropObject, DropPanics, Retire,
                ScanPass, ScanUnlink, ScanStop, private
  <2>2. QED
    BY <1>1, <2>1
<1>10. QED
  BY NextCases, <1>2, <1>3, <1>4, <1>5, <1>6, <1>7, <1>8, <1>9

(* A thread comes to hold an object only in the step that retires it, with *)
(* a guard open.                                                           *)
LEMMA HeldSinceRetired ==
    ASSUME ControlInv, Next, NEW r \in Threads, NEW o \in Objects,
           o \in held'[r], o \notin held[r]
    PROVE  life[o] = "live" /\ life'[o] = "retired" /\ InGuard(r)
<1> USE CollectorAssumption
<1>1. CASE UNCHANGED held
  BY <1>1
<1>2. ASSUME NEW t \in Threads, NEW p \in Objects, Retire(t, p)
      PROVE  life[o] = "live" /\ life'[o] = "retired" /\ InGuard(r)
  BY <1>2 DEF Retire, Collect, HeldBy, Guarded, Items, ControlInv, TypeOK
<1>3. ASSUME NEW t \in Threads, NEW d \in Collectors, ScanUnlink(t, d)
      PROVE  FALSE
  BY <1>3 DEF ScanUnlink, Collect, HeldBy
<1>4. ASSUME NEW t \in Threads, EndGuard(t) \/ SkipScan(t) \/ StartScan(t)
      PROVE  FALSE
  BY <1>4 DEF EndGuard, SkipScan, StartScan, LastGuard, ControlInv, TypeOK
<1>5. ASSUME NEW t \in Threads,
             \/ LoadEpoch(t) \/ Pin(t) \/ NestGuard(t) \/ EndNestedGuard(t)
             \/ FinishDrop(t) \/ Accelerate(t) \/ SetHasGarbage(t) \/ Unpin(t)
             \/ Advance(t) \/ UnlockChain(t) \/ Suspend(t) \/ MarkScanEnforced(t)
             \/ \E p \in Objects : DropObject(t, p) \/ DropPanics(t, p)
             \/ \E d \in Collectors : \/ Alloc(t, d) \/ DropCollector(t, d)
                                      \/ ScanPass(t, d) \/ ScanStop(t, d)
      PROVE  FALSE
  <2>1. UNCHANGED held
    BY <1>5 DEF LoadEpoch, Pin, NestGuard, EndNestedGuard, FinishDrop,
                Accelerate, SetHasGarbage, Unpin, Advance, UnlockChain, Suspend,
                MarkScanEnforced, DropObject, DropPanics, Alloc, DropCollector,
                ScanPass, ScanStop
  <2>2. QED
    BY <2>1
<1>6. QED
  BY NextCases, <1>2, <1>3, <1>4, <1>5

(* What an earlier announcement and an epoch one ahead of it have to do    *)
(* with each other does not change under a guard: the epoch cannot go on.  *)
LEMMA EpochStaysAhead ==
    ASSUME NEW b \in Epochs, NEW e, NEW f,
           e = NextEpoch(b), f \in {b, NextEpoch(b)}, f \in {e, NextEpoch(e)}
    PROVE  f = e
  BY EpochTwoAhead

(* The steps of GenerationNext that close or retire are steps of Next.     *)
LEMMA WitnessedIsNext ==
    ASSUME NEW t \in Retirers, NEW o \in Objects, RetireWitnessed(t, o)
    PROVE  Next
<1>1. t \in Threads /\ (t \in Retirers /\ \E p \in Objects : Retire(t, p))
  BY CollectorAssumption DEF RetireWitnessed
<1>2. QED
  BY <1>1 DEF Next

(* GenerationInv is kept by every step.                                    *)
LEMMA GenerationStep ==
    /\ IInv /\ IInv' /\ PromptInv /\ GuardHoldsEpoch /\ GuardHoldsEpoch'
    /\ GenerationInv
    /\ [GenerationNext]_<<vars, generations>>
    => GenerationInv'
<1> SUFFICES ASSUME IInv, IInv', PromptInv, GuardHoldsEpoch, GuardHoldsEpoch',
                    GenerationInv, [GenerationNext]_<<vars, generations>>
             PROVE  GenerationInv'
  OBVIOUS
<1> USE EpochSuccession
<1>1. /\ ControlInv /\ GarbageInv /\ GuardProtects /\ HeldByGuarded /\ HeldByGuarded'
      /\ epoch \in Epochs
      /\ \A t \in Threads : InGuard(t) => announcement[local[t]] \in Epochs
  BY CollectorAssumption DEF IInv, ControlInv, ProtectInv, TypeOK, InGuard
<1>2. /\ \A t \in Threads : InGuard(t) =>
             epoch \in {announcement[local[t]], NextEpoch(announcement[local[t]])}
      /\ \A t \in Threads : InGuard(t)' =>
             epoch' \in {announcement'[local'[t]], NextEpoch(announcement'[local'[t]])}
  BY DEF GuardHoldsEpoch
<1>3. CASE UNCHANGED <<vars, generations>>
  BY <1>3 DEF vars, generations, shared, private, lists, GenerationInv,
              GenerationTypes, WitnessAge, RetiredAge, InGuard
<1>4. CASE \E t \in Threads : CurrentEpoch(t)
  <2>1. PICK t \in Threads : CurrentEpoch(t)
    BY <1>4
  <2>2. /\ UNCHANGED <<epoch, announcement, local, num_readers, pc, held, retired_in>>
        /\ InGuard(t) /\ witnessed' = [witnessed EXCEPT ![t] = epoch]
    BY <2>1 DEF CurrentEpoch, vars, shared, private
  <2>3. WitnessAge'
    BY <1>2, <2>2 DEF GenerationInv, GenerationTypes, WitnessAge, InGuard
  <2>4. GenerationTypes' /\ RetiredAge'
    BY <1>1, <2>2 DEF GenerationInv, GenerationTypes, RetiredAge
  <2>5. QED
    BY <2>3, <2>4 DEF GenerationInv
<1>5. CASE GenerationNext /\ CloseForgets /\ Next /\ PromptStep
  <2>1. epoch' \in {epoch, NextEpoch(epoch)}
    <3>1. [Next /\ ForwardStep]_vars
      BY <1>1, <1>5, PromptIsForward
    <3>2. QED
      BY <3>1 DEF ForwardStep, vars, shared
  <2>2. ASSUME NEW r \in Threads, NEW e, InGuard(r), InGuard(r)',
               NextEpoch(announcement[local[r]]) = e, epoch = e
        PROVE  epoch' = e
    <3>1. pc[r] # "pin"
      BY <2>2 DEF InGuard
    <3>2. epoch' \in {announcement[local[r]], NextEpoch(announcement[local[r]])}
      BY <1>1, <1>2, <1>5, <2>2, <3>1, GuardFrame
    <3>3. QED
      BY <1>1, <2>1, <2>2, <3>2, EpochStaysAhead
  <2>3. WitnessAge'
    <3> SUFFICES ASSUME NEW t \in Threads, witnessed'[t] # Unknown
                 PROVE  /\ InGuard(t)'
                        /\ \/ witnessed'[t] = announcement'[local'[t]]
                           \/ /\ witnessed'[t] = NextEpoch(announcement'[local'[t]])
                              /\ epoch' = witnessed'[t]
      BY DEF WitnessAge
    <3>1. InGuard(t)' /\ witnessed'[t] = witnessed[t]
      BY <1>5 DEF CloseForgets
    <3>2. InGuard(t) /\ pc[t] # "pin"
      BY <3>1 DEF GenerationInv, WitnessAge, InGuard
    <3>3. announcement'[local'[t]] = announcement[local[t]]
      BY <1>1, <1>5, <3>1, <3>2, GuardFrame
    <3>4. QED
      BY <2>2, <3>1, <3>2, <3>3 DEF GenerationInv, WitnessAge
  <2>4. GenerationTypes'
    <3>1. CASE UNCHANGED retired_in
      BY <1>5, <3>1 DEF GenerationInv, GenerationTypes, CloseForgets
    <3>2. ASSUME NEW t \in Threads, NEW o \in Objects, RetireWitnessed(t, o)
          PROVE  GenerationTypes'
      BY <1>5, <3>2 DEF GenerationInv, GenerationTypes, CloseForgets, RetireWitnessed
    <3>3. QED
      BY <1>5, <3>1, <3>2, CollectorAssumption DEF GenerationNext, CurrentEpoch, OtherStep
  <2>5. RetiredAge'
    <3> SUFFICES ASSUME NEW r \in Threads, NEW o \in Objects,
                        o \in held'[r], retired_in'[o] # Unknown
                 PROVE  LET announced == announcement'[local'[r]] IN
                        \/ announced \in {retired_in'[o], NextEpoch(retired_in'[o])}
                        \/ NextEpoch(announced) = retired_in'[o] /\ epoch' = retired_in'[o]
      BY DEF RetiredAge
    <3>1. InGuard(r)'
      BY <1>1 DEF HeldByGuarded
    <3>2. InGuard(r)
      BY <1>1, <1>5, HeldSinceRetired DEF HeldByGuarded
    <3>3. announcement'[local'[r]] = announcement[local[r]]
      BY <1>1, <1>5, <3>1, <3>2, GuardFrame DEF InGuard
    <3>4. CASE o \in held[r]
      <4>1. life[o] = "retired"
        BY <1>1, <3>2, <3>4 DEF GuardProtects
      <4>2. retired_in'[o] = retired_in[o]
        BY <1>5, <4>1 DEF GenerationNext, CurrentEpoch, OtherStep, RetireWitnessed,
                          Retire, GenerationInv, GenerationTypes
      <4>3. QED
        BY <2>2, <3>1, <3>2, <3>3, <3>4, <4>2 DEF GenerationInv, RetiredAge
    <3>5. CASE o \notin held[r]
      <4>1. life[o] = "live" /\ life'[o] = "retired"
        BY <1>1, <1>5, <3>5, HeldSinceRetired
      <4>2. PICK t \in Threads, p \in Objects : RetireWitnessed(t, p)
        BY <1>5, <4>1, CollectorAssumption DEF GenerationNext, CurrentEpoch, OtherStep, vars, lists
      <4>3. p = o /\ retired_in'[o] = witnessed[t] /\ epoch' = epoch
        BY <1>1, <4>1, <4>2 DEF RetireWitnessed, Retire, Collect, shared, Items,
                                GenerationInv, GenerationTypes, ControlInv, TypeOK
      <4>4. /\ InGuard(t)
            /\ \/ witnessed[t] = announcement[local[t]]
               \/ /\ witnessed[t] = NextEpoch(announcement[local[t]])
                  /\ epoch = witnessed[t]
        BY <4>3 DEF GenerationInv, WitnessAge
      <4>5. QED
        BY <1>1, <1>2, <3>2, <3>3, <4>3, <4>4
    <3>6. QED
      BY <3>4, <3>5
  <2>6. QED
    BY <2>3, <2>4, <2>5 DEF GenerationInv
<1>6. QED
  BY <1>3, <1>4, <1>5, WitnessedIsNext DEF GenerationNext, OtherStep

(* All that GenerationInv rests on holds of Collector with its history.    *)
THEOREM GenerationInvariant ==
    GenerationSpec => [](IInv /\ GuardHoldsEpoch /\ GenerationInv)
<1>1. GenerationInit => Init /\ GenerationInv
  BY DEF GenerationInit, Init, GenerationInv, GenerationTypes, WitnessAge, RetiredAge, Unknown
<1>2. [GenerationNext]_<<vars, generations>> => [Next /\ PromptStep]_vars
  <2>1. (\E t \in Threads : CurrentEpoch(t)) => UNCHANGED vars
    BY DEF CurrentEpoch
  <2>2. QED
    BY <2>1, WitnessedIsNext DEF GenerationNext, OtherStep
<1>3. GenerationSpec => PromptSpec
  BY <1>1, <1>2, PTL DEF GenerationSpec, PromptSpec
<1>4. QED
  BY <1>1, <1>3, GenerationStep, PromptForward, PromptHolds, ForwardInvariant, PTL DEF GenerationSpec

(* While a thread may still reach an object, Guard::epoch() returns an     *)
(* epoch of the same generation as the one its retirer witnessed           *)
(* (epoch.rs:40-43).                                                       *)
THEOREM GenerationHolds == GenerationSpec => []SameGenerationIfHeld
<1>1. IInv /\ GuardHoldsEpoch /\ GenerationInv => SameGenerationIfHeld
  <2> SUFFICES ASSUME IInv, GuardHoldsEpoch, GenerationInv,
                      NEW o \in Objects, NEW r \in Threads,
                      o \in held[r], retired_in[o] # Unknown
               PROVE  InSameGeneration(retired_in[o], epoch)
    BY DEF SameGenerationIfHeld
  <2>1. InGuard(r)
    BY DEF IInv, ProtectInv, HeldByGuarded
  <2>2. epoch \in {announcement[local[r]], NextEpoch(announcement[local[r]])}
    BY <2>1 DEF GuardHoldsEpoch
  <2>3. QED
    BY <2>2 DEF GenerationInv, RetiredAge, InSameGeneration
<1>2. QED
  BY <1>1, GenerationInvariant, PTL

=============================================================================
