------------------------ MODULE CollectorInvariants ------------------------
(***************************************************************************)
(* Why the reclaimer is correct: the inductive invariants, in three        *)
(* layers, that CollectorStructure and CollectorProtection prove, and the  *)
(* one of CollectorPrompt.  Each layer rests on the ones before it.        *)
(***************************************************************************)
EXTENDS Collector

(***************************************************************************)
(* Layer 1: control.  What a thread is doing agrees with its Collector.    *)
(***************************************************************************)

(* The state byte of the thread's Collector shows its announcement. *)
Published(t) ==
    \/ pc[t] \in {"drop", "unwind", "scan", "unlock", "unpin"}
    \/ pc[t] = "idle" /\ num_readers[local[t]] > 0

LocalAgrees(t) ==
    /\ pc[t] \notin {"idle", "mark"} => local[t] # NoCollector
    /\ pc[t] = "mark" => local[t] = NoCollector
    /\ pc[t] = "pin" => num_readers[local[t]] = 1
    /\ pc[t] \in {"drop", "unwind"} => num_readers[local[t]] > 0
    /\ pc[t] \in {"scan", "unlock", "unpin"} => num_readers[local[t]] = 0
    /\ local[t] # NoCollector =>
           state[local[t]] = IF Published(t) THEN announcement[local[t]]
                                             ELSE INACTIVE

ControlInv ==
    /\ TypeOK
    /\ \A t \in Threads : LocalAgrees(t)
    /\ ThreadsRegistered
    /\ ScanExclusive
    /\ todo \subseteq chain

(***************************************************************************)
(* Layer 2: garbage.  An item is in at most one place, and what is in the  *)
(* chain is not garbage.                                                   *)
(***************************************************************************)
ChainLive == \A c \in chain : life[c] = "live"

(* Only the thread in its dropping loop has anything half dropped. *)
DroppingOwned ==
    \A c \in Collectors :
        garbage[c]["dropping"] # {} \/ garbage[c]["clearing"] # {} =>
            \E t \in Threads : local[t] = c /\ pc[t] = "drop"

GarbageFlagged ==
    \A t \in Threads : local[t] # NoCollector =>
        \A l \in {"current", "previous", "next"} :
            garbage[local[t]][l] # {} => has_garbage[local[t]]

GarbageInv ==
    /\ GarbageConserved
    /\ GarbageReachable
    /\ ChainLive
    /\ DroppingOwned
    /\ GarbageFlagged

(***************************************************************************)
(* Layer 3: protection, under the assumption ForwardStep.                  *)
(*                                                                         *)
(* While r holds an item, the epoch can still be set to its successor only *)
(* if r announces the present epoch, or a scan that announces it has       *)
(* already gone past r's Collector.                                        *)
(***************************************************************************)
Missed(r) ==
    \E x \in Threads :
        /\ pc[x] = "scan"
        /\ announcement[local[x]] = epoch
        /\ local[r] \notin todo

CanAdvance(r) == announcement[local[r]] = epoch \/ Missed(r)

HoldsIn(r, c, l) == \E i \in held[r] : i \in garbage[c][l]

HeldByGuarded == \A r \in Threads : ~InGuard(r) => held[r] = {}

HeldNotDropped ==
    \A r \in Threads, c \in Collectors, l \in {"dropping", "clearing"} :
        ~HoldsIn(r, c, l)

(* Dropping a Collector drops what is in its lists. *)
HeldWithCollector ==
    \A r \in Threads, c \in Collectors, l \in Lists :
        life[c] = "retired" /\ HoldsIn(r, c, l) => c \in held[r]

MissedIsRecent ==
    \A r \in Threads :
        InGuard(r) /\ Missed(r) => announcement[local[r]] # NextEpoch(epoch)

(* How far an item r holds can have got in the lists of the thread u that  *)
(* retired it: one rotation if u has announced the present epoch or the    *)
(* epoch is stuck, two only if both.                                       *)
HeldAge ==
    \A r, u \in Threads : local[u] # NoCollector =>
        LET c == local[u] IN
        /\ HoldsIn(r, c, "previous") =>
               announcement[c] = epoch \/ ~CanAdvance(r)
        /\ HoldsIn(r, c, "next") =>
               announcement[c] = epoch /\ ~CanAdvance(r)

(* The same for the epoch u has loaded and not yet published. *)
HeldAgeLoaded ==
    \A r, u \in Threads : pc[u] = "pin" =>
        LET c == local[u] IN
        /\ HoldsIn(r, c, "current") =>
               loaded[u] = epoch \/ ~CanAdvance(r)
        /\ HoldsIn(r, c, "previous") =>
               \/ loaded[u] = announcement[c]
               \/ loaded[u] = epoch /\ ~CanAdvance(r)
        /\ HoldsIn(r, c, "next") => loaded[u] = announcement[c]

ProtectInv ==
    /\ GuardProtects
    /\ HeldByGuarded
    /\ HeldNotDropped
    /\ HeldWithCollector
    /\ MissedIsRecent
    /\ HeldAge
    /\ HeldAgeLoaded

(***************************************************************************)
(* Under the stronger assumption PromptStep: the epoch is where every      *)
(* announcement and every loaded epoch puts it.                            *)
(***************************************************************************)
Announced(t) == local[t] # NoCollector /\ Published(t)

LoadedIsFresh == \A t \in Threads : pc[t] = "pin" => loaded[t] = epoch

AnnouncedIsRecent ==
    \A t \in Threads : Announced(t) =>
        epoch \in {announcement[local[t]], NextEpoch(announcement[local[t]])}

(* Whoever a scan has gone past agrees with it.                            *)
ScannedAgrees ==
    \A x, r \in Threads :
        /\ pc[x] = "scan" /\ announcement[local[x]] = epoch
        /\ Announced(r) /\ local[r] \notin todo
        => announcement[local[r]] = epoch

PromptInv == LoadedIsFresh /\ AnnouncedIsRecent /\ ScannedAgrees

IInv == ControlInv /\ GarbageInv /\ ProtectInv

=============================================================================
