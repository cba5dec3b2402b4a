------------------------------- MODULE Links -------------------------------
(***************************************************************************)
(* Nodes that are linked to one another: links[n] is the node that follows *)
(* n, or a value that is no node, at the end.                              *)
(***************************************************************************)

Closed(links, S) ==
    \A n \in S : links[n] \in DOMAIN links => links[n] \in S

(* The nodes that a walk from a comes to, a itself included: no set of     *)
(* nodes without them has a and what follows any of its members.           *)
Reach(links, a) ==
    {n \in DOMAIN links :
        \A S \in SUBSET (DOMAIN links \ {n}) :
            (a \in DOMAIN links => a \in S) => ~Closed(links, S)}

(* Those of them that are not marked. *)
Unmarked(links, mark, a) == {n \in Reach(links, a) : ~mark[n]}

(* No walk from a comes to a node twice. *)
Acyclic(links, a) == \A n \in Reach(links, a) : n \notin Reach(links, links[n])

=============================================================================
