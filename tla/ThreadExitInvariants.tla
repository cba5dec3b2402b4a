------------------------ MODULE ThreadExitInvariants ------------------------
(***************************************************************************)
(* Why the chain of Collectors can be freed at the end of a thread, while  *)
(* others push to it: the inductive invariant of ThreadExit, in three      *)
(* layers that rest on one another.                                        *)
(***************************************************************************)
EXTENDS ThreadExit

(***************************************************************************)
(* Layer 1: what a thread is doing agrees with what it owns.               *)
(***************************************************************************)
Locations == {"idle", "push", "drop", "scan", "unlock", "mark", "exit", "check",
              "failed", "free", "cleared", "temp", "exited"}

(* The places where a thread has the chain locked. *)
Working == {"scan", "unlock", "check", "failed", "free", "cleared"}

TypeOK ==
    /\ head \in Collectors \cup {Null}
    /\ tag \in {"None", "First", "Second", "Both"}
    /\ next_link \in [Collectors -> Collectors \cup {Null}]
    /\ state \in [Collectors -> {"free", "valid", "INVALID"}]
    /\ garbage \in [Collectors \cup Threads -> SUBSET Items]
    /\ local \in [Threads -> Collectors \cup Threads \cup {Null}]
    /\ made \in [Threads -> Nat]
    /\ life \in [Objects -> {"live", "retired"}]
    /\ guarded \subseteq Threads
    /\ held \in [Threads -> SUBSET Items]
    /\ pc \in [Threads -> Locations]
    /\ ptr \in [Threads -> Collectors \cup {Null}]
    /\ prev \in [Threads -> Collectors \cup {Null}]
    /\ dropping \in [Threads -> SUBSET Items]

(* Which Collector a thread uses at each place, *)
LocalAgrees(t) ==
    /\ local[t] = Null \/ Registered(t) \/ Exiting(t)
    /\ pc[t] \in {"push", "exited"} => local[t] = Null
    /\ pc[t] = "drop" => Registered(t)
    /\ pc[t] \in {"exit", "check", "failed", "free", "cleared", "temp"} => Exiting(t)
    /\ pc[t] \in {"scan", "unlock"} => local[t] # Null
    /\ pc[t] = "idle" => ~Exiting(t)
    /\ pc[t] = "mark" => ~Registered(t)

(* where it can have a guard open, and where something left to drop. *)
GuardAgrees(t) ==
    /\ t \in guarded => local[t] # Null /\ pc[t] \in {"idle", "drop", "free", "temp"}
    /\ pc[t] = "drop" => t \in guarded
    /\ t \notin guarded => held[t] = {}
    /\ dropping[t] # {} =>
          \/ pc[t] \in {"drop", "free", "temp"}
          \/ pc[t] \in {"scan", "unlock"} /\ Exiting(t)

LockExcludes ==
    LET workers == {t \in Threads : pc[t] \in Working} IN
    /\ Locked <=> workers # {}
    /\ \A t, u \in workers : t = u

ControlInv ==
    /\ TypeOK
    /\ \A t \in Threads : LocalAgrees(t) /\ GuardAgrees(t)
    /\ LockExcludes

(***************************************************************************)
(* Layer 2: the chain.                                                     *)
(***************************************************************************)

(* The Collectors taken out of the chain that are yet to be freed. *)
Taken(t) == Reach(next_link, ptr[t])

(* A Collector somewhere in garbage. *)
Discarded(i) ==
    \/ \E x \in Collectors \cup Threads : i \in garbage[x]
    \/ \E t \in Threads : i \in dropping[t]

ChainOK ==
    /\ Acyclic(next_link, head)
    /\ \A c \in InChain : state[c] # "free" /\ ~Discarded(c)
    /\ \A c \in Collectors : Discarded(c) => state[c] = "INVALID"

(* The Collector of a thread is in the chain, and is its own. *)
RegisteredOK ==
    /\ \A t \in Threads : Registered(t) => state[local[t]] = "valid" /\ local[t] \in InChain
    /\ \A t, u \in Threads : Registered(t) /\ local[t] = local[u] => t = u

(* A new Collector is in nobody else's reach until it is pushed. *)
PushOK ==
    \A t \in Threads : pc[t] = "push" =>
        /\ prev[t] \in Collectors
        /\ state[prev[t]] = "valid"
        /\ next_link[prev[t]] = ptr[t]
        /\ prev[t] \notin InChain
        /\ \A u \in Threads : pc[u] = "push" /\ prev[u] = prev[t] => u = t

(* The cursors of a scan are next to each other. *)
ScanOK ==
    \A t \in Threads : pc[t] = "scan" =>
        /\ {ptr[t], prev[t]} \subseteq InChain \cup {Null}
        /\ prev[t] # Null => next_link[prev[t]] = ptr[t]

(* Whatever clear_chain() has gone past is disowned, and stays so. *)
CheckOK ==
    \A t \in Threads : pc[t] = "check" =>
        /\ {ptr[t], prev[t]} \subseteq InChain \cup {Null}
        /\ \A c \in Reach(next_link, prev[t]) \ Reach(next_link, ptr[t]) :
              state[c] = "INVALID"

(* What it has taken, nobody else comes to. *)
FreeOK ==
    \A t \in Threads : pc[t] = "free" =>
        /\ Acyclic(next_link, ptr[t])
        /\ \A c \in Taken(t) : state[c] = "INVALID" /\ ~Discarded(c) /\ c \notin InChain

ChainInv == ChainOK /\ RegisteredOK /\ PushOK /\ ScanOK /\ CheckOK /\ FreeOK

(***************************************************************************)
(* Layer 3: garbage.                                                       *)
(***************************************************************************)

(* An item is in one place at most, *)
Listed ==
    /\ \A x, y \in Collectors \cup Threads : \A i \in garbage[x] \cap garbage[y] : x = y
    /\ \A t, u \in Threads : \A i \in dropping[t] \cap dropping[u] : t = u
    /\ \A x \in Collectors \cup Threads, t \in Threads : garbage[x] \cap dropping[t] = {}

(* an object is in one if it is retired, and lists are those of Collectors *)
(* in use.                                                                 *)
RetiredOK ==
    /\ \A o \in Objects : life[o] = "retired" <=> Discarded(o)
    /\ \A c \in Collectors : state[c] = "free" => garbage[c] = {}
    /\ \A t \in Threads : garbage[t] # {} => Exiting(t)

(* Who holds what is in the lists of a Collector that is garbage, saw that *)
(* become garbage, too.                                                    *)
HeldWith ==
    \A u \in Threads, c \in Collectors :
        Discarded(c) /\ garbage[c] \cap held[u] # {} => c \in held[u]

(* No thread with a Collector holds what another is dropping under a guard *)
(* or frees with the chain.                                                *)
Unheld ==
    \A t, u \in Threads : Registered(u) =>
        /\ pc[t] \in {"drop", "free"} => dropping[t] \cap held[u] = {}
        /\ pc[t] = "free" => \A c \in Taken(t) : garbage[c] \cap held[u] = {}

GarbageInv == Listed /\ RetiredOK /\ HeldWith /\ Unheld

IInv == ControlInv /\ ChainInv /\ GarbageInv

=============================================================================
