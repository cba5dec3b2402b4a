--------------------------- MODULE BagInvariants ---------------------------
(***************************************************************************)
(* The inductive invariant from which the properties of Bag follow, in     *)
(* three layers.                                                           *)
(***************************************************************************)
EXTENDS Bag

Pushing == {"push", "publish", "rollback", "peek", "grow"}

(* Layer 1: what a thread has in hand where.                               *)
HandsAgree ==
    \A t \in Threads :
        /\ pc[t] \in {"publish", "rollback"} => \E i \in Slots : slots[t] = {i}
        /\ pc[t] \notin {"publish", "rollback", "clear", "fold"} => slots[t] = {}
        /\ pc[t] \in Pushing => \E v \in Values : vals[t] = {v}
        /\ pc[t] \notin {"next", "mark", "fold"} => popped[t] = <<>>
        /\ pc[t] \in {"mark", "fold"} /\ at[t] = Primary => popped[t] = <<>>

ControlInv == TypeOK /\ HandsAgree

(* Layer 2 is SlotsHaveOneOwner.                                           *)

(* Layer 3: a value is in one hand or in one slot.                         *)
HandsApart ==
    \A t \in Threads :
        /\ vals[t] \cap contents = {}
        /\ \A u \in Threads : t # u => vals[t] \cap vals[u] = {}

(* A pusher has written its value to the slot it owns.                     *)
Written ==
    \A t \in Threads :
        pc[t] = "publish" => \A i \in slots[t] : storage[at[t]][i] = vals[t]

(* The slots that can be popped have the contents of the bag.              *)
Filled ==
    /\ \A a \in Arrays : \A i \in Available(a) :
          \E v \in contents : storage[a][i] = {v}
    /\ \A v \in contents : \E a \in Arrays : \E i \in Available(a) :
          storage[a][i] = {v}
    /\ \A a, b \in Arrays : \A i \in Available(a), j \in Available(b) :
          storage[a][i] = storage[b][j] => a = b /\ i = j

(* No array is out of reach with values in it, or going to be.             *)
InReach ==
    /\ \A a \in Arrays : Available(a) # {} => Reachable(a)
    /\ \A t \in Threads :
          pc[t] = "delete" => at[t] # Primary /\ instance[at[t]] = {}

ContentInv == HandsApart /\ Written /\ Filled /\ InReach

IInv == ControlInv /\ SlotsHaveOneOwner /\ ContentInv

=============================================================================
