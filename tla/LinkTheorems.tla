---------------------------- MODULE LinkTheorems ----------------------------
(***************************************************************************)
(* What walks along links come to, before and after the links change.      *)
(***************************************************************************)
EXTENDS Links, TLAPS

(* A walk comes to its start, goes on from where it comes to, and a walk   *)
(* from no node comes to none.                                             *)
LEMMA ReachStep ==
    ASSUME NEW links, NEW a
    PROVE  /\ Reach(links, a) \subseteq DOMAIN links
           /\ a \in DOMAIN links => a \in Reach(links, a)
           /\ Closed(links, Reach(links, a))
           /\ a \notin DOMAIN links => Reach(links, a) = {}
<1>1. Reach(links, a) \subseteq DOMAIN links /\ (a \in DOMAIN links => a \in Reach(links, a))
  BY DEF Reach
<1>2. Closed(links, Reach(links, a))
  BY DEF Closed, Reach
<1>3. ASSUME a \notin DOMAIN links PROVE Reach(links, a) = {}
  <2>1. Closed(links, {}) /\ {} \in SUBSET DOMAIN links
    BY DEF Closed
  <2>2. QED
    BY <1>3, <2>1 DEF Reach
<1>4. QED
  BY <1>1, <1>2, <1>3

(* It comes to nothing outside a closed set it starts in.                  *)
LEMMA ReachLeast ==
    ASSUME NEW links, NEW a, NEW S \in SUBSET DOMAIN links,
           Closed(links, S), a \in DOMAIN links => a \in S
    PROVE  Reach(links, a) \subseteq S
  BY DEF Reach

(* What a walk comes to from further on is part of what it comes to.       *)
LEMMA ReachMonotone ==
    ASSUME NEW links, NEW a, NEW b \in Reach(links, a)
    PROVE  /\ Reach(links, b) \subseteq Reach(links, a)
           /\ Reach(links, links[b]) \subseteq Reach(links, a)
<1>1. Reach(links, a) \in SUBSET DOMAIN links /\ Closed(links, Reach(links, a))
  BY ReachStep
<1>2. links[b] \in DOMAIN links => links[b] \in Reach(links, a)
  BY <1>1 DEF Closed
<1>3. QED
  BY <1>1, <1>2, ReachLeast

(* The nodes a walk comes to are its start and what comes after.           *)
LEMMA ReachUnfold ==
    ASSUME NEW links, NEW a \in DOMAIN links
    PROVE  Reach(links, a) = {a} \cup Reach(links, links[a])
<1> DEFINE S == {a} \cup Reach(links, links[a])
<1>1. S \in SUBSET DOMAIN links /\ Closed(links, S)
  BY ReachStep DEF Closed
<1>2. Reach(links, a) \subseteq S
  BY <1>1, ReachLeast
<1>3. a \in Reach(links, a)
  BY ReachStep
<1>4. QED
  BY <1>2, <1>3, ReachMonotone

(* Of two nodes that a walk comes to, one comes after the other.           *)
LEMMA ReachTotal ==
    ASSUME NEW links, NEW a, NEW p \in Reach(links, a), NEW q \in Reach(links, a)
    PROVE  q \in Reach(links, p) \/ p \in Reach(links, q)
<1> DEFINE S == {n \in Reach(links, a) : n \in Reach(links, p) \/ p \in Reach(links, n)}
<1>1. Reach(links, a) \in SUBSET DOMAIN links /\ Closed(links, Reach(links, a))
      /\ Closed(links, Reach(links, p))
  BY ReachStep
<1>2. a \in DOMAIN links => a \in S
  BY ReachStep
<1>3. ASSUME NEW n \in S, links[n] \in DOMAIN links PROVE links[n] \in S
  <2>1. links[n] \in Reach(links, a) /\ n \in DOMAIN links
    BY <1>1, <1>3 DEF Closed
  <2>2. CASE n \in Reach(links, p)
    BY <1>1, <1>3, <2>1, <2>2 DEF Closed
  <2>3. CASE p \in Reach(links, n)
    <3>1. p = n \/ p \in Reach(links, links[n])
      BY <2>1, <2>3, ReachUnfold
    <3>2. p = n => links[n] \in Reach(links, p)
      BY <1>1, <1>3, <2>3 DEF Closed
    <3>3. QED
      BY <2>1, <3>1, <3>2
  <2>4. QED
    BY <2>2, <2>3
<1>4. S \in SUBSET DOMAIN links /\ Closed(links, S)
  BY <1>1, <1>3 DEF Closed
<1>5. q \in S
  BY <1>2, <1>4, ReachLeast
<1>6. QED
  BY <1>5

(* Where no walk comes round, a node follows one other only, and nothing   *)
(* precedes the start.                                                     *)
LEMMA OnePredecessor ==
    ASSUME NEW links, NEW a, Acyclic(links, a),
           NEW p \in Reach(links, a), links[p] \in DOMAIN links
    PROVE  /\ \A q \in Reach(links, a) : links[q] = links[p] => q = p
           /\ links[p] # a /\ links[p] # p
<1>1. p \in DOMAIN links /\ p \notin Reach(links, links[p])
  BY ReachStep DEF Acyclic
<1>2. ASSUME NEW q \in Reach(links, a), links[q] = links[p], q # p PROVE FALSE
  <2>1. q \in DOMAIN links /\ q \notin Reach(links, links[p])
    BY <1>2, ReachStep DEF Acyclic
  <2>2. q \in Reach(links, p) => q \in Reach(links, links[p])
    BY <1>1, <1>2, ReachUnfold
  <2>3. p \in Reach(links, q) => p \in Reach(links, links[p])
    BY <1>2, <2>1, ReachUnfold
  <2>4. QED
    BY <1>1, <2>1, <2>2, <2>3, ReachTotal
<1>3. links[p] # a /\ links[p] # p
  BY <1>1, ReachStep
<1>4. QED
  BY <1>2, <1>3

(* Changes to links that a walk does not take do not change the walk.      *)
LEMMA ReachFrame ==
    ASSUME NEW links, NEW a, NEW new, DOMAIN new = DOMAIN links,
           \A n \in Reach(links, a) : new[n] = links[n]
    PROVE  /\ Reach(new, a) = Reach(links, a)
           /\ Acyclic(links, a) => Acyclic(new, a)
           /\ \A b \in Reach(links, a) : /\ Reach(new, b) = Reach(links, b)
                                         /\ Reach(new, new[b]) = Reach(links, links[b])
<1>1. ASSUME NEW b, Reach(links, b) \subseteq Reach(links, a)
      PROVE  Reach(new, b) = Reach(links, b)
  <2>1. Reach(links, b) \in SUBSET DOMAIN new /\ Closed(new, Reach(links, b))
        /\ (b \in DOMAIN new => b \in Reach(links, b))
    BY <1>1, ReachStep DEF Closed
  <2>2. Reach(new, b) \subseteq Reach(links, b)
    BY <2>1, ReachLeast
  <2>3. /\ Reach(new, b) \in SUBSET DOMAIN links
        /\ b \in DOMAIN links => b \in Reach(new, b)
        /\ Closed(new, Reach(new, b))
    BY ReachStep
  <2>4. Closed(links, Reach(new, b))
    BY <1>1, <2>2, <2>3 DEF Closed
  <2>5. Reach(links, b) \subseteq Reach(new, b)
    BY <2>3, <2>4, ReachLeast
  <2>6. QED
    BY <2>2, <2>5
<1>2. Reach(new, a) = Reach(links, a)
  BY <1>1
<1>3. ASSUME NEW b \in Reach(links, a)
      PROVE  Reach(new, b) = Reach(links, b) /\ Reach(new, new[b]) = Reach(links, links[b])
  BY <1>1, <1>3, ReachMonotone
<1>4. QED
  BY <1>2, <1>3 DEF Acyclic

(* A node c that the walk comes to after p is taken out: the walk comes to *)
(* the others still.                                                       *)
LEMMA ReachUnlink ==
    ASSUME NEW links, NEW a, Acyclic(links, a),
           NEW p \in Reach(links, a), NEW c \in DOMAIN links, links[p] = c,
           NEW new, DOMAIN new = DOMAIN links, new[p] = links[c],
           \A n \in DOMAIN links \ {p} : new[n] = links[n]
    PROVE  /\ \A b \in Reach(links, a) \ {c} : Reach(new, b) = Reach(links, b) \ {c}
           /\ Reach(new, a) = Reach(links, a) \ {c}
           /\ Acyclic(new, a)
<1> DEFINE R == Reach(links, a)
<1>1. /\ DOMAIN new = DOMAIN links /\ R \subseteq DOMAIN links /\ Closed(links, R)
      /\ p \in DOMAIN links /\ c \in R
      /\ \A n \in DOMAIN links : new[n] = IF n = p THEN links[c] ELSE links[n]
  BY ReachStep DEF Closed
<1>2. /\ \A q \in R : links[q] = c => q = p
      /\ c # a /\ c # p /\ links[c] # c
  <2>1. links[c] # c
    BY <1>1, ReachStep DEF Acyclic
  <2>2. QED
    BY <2>1, OnePredecessor
<1>3. ASSUME NEW b \in R \ {c} PROVE Reach(new, b) = Reach(links, b) \ {c}
  <2>1. Reach(links, b) \subseteq R /\ b \in Reach(links, b) /\ Closed(links, Reach(links, b))
    BY <1>1, <1>3, ReachMonotone, ReachStep
  <2>2. Reach(new, b) \subseteq Reach(links, b) \ {c}
    <3>1. ASSUME NEW n \in Reach(links, b) \ {c}, new[n] \in DOMAIN new
          PROVE  new[n] \in Reach(links, b) \ {c}
      BY <1>1, <1>2, <2>1, <3>1 DEF Closed
    <3>2. Closed(new, Reach(links, b) \ {c})
      BY <3>1 DEF Closed
    <3>3. Reach(links, b) \ {c} \in SUBSET DOMAIN new /\ b \in Reach(links, b) \ {c}
      BY <1>1, <1>3, <2>1
    <3>4. QED
      BY <3>2, <3>3, ReachLeast
  <2>3. Reach(links, b) \ {c} \subseteq Reach(new, b)
    <3> DEFINE N == Reach(new, b)
    <3>1. /\ N \in SUBSET DOMAIN links /\ b \in N
          /\ \A n \in N : new[n] \in DOMAIN links => new[n] \in N
      BY <1>1, <1>3, ReachStep DEF Closed
    <3> HIDE DEF N
    <3>2. CASE p \in N
      <4>1. N \cup {c} \in SUBSET DOMAIN links /\ Closed(links, N \cup {c})
        BY <1>1, <3>1, <3>2 DEF Closed
      <4>2. Reach(links, b) \subseteq N \cup {c}
        BY <3>1, <4>1, ReachLeast
      <4>3. QED
        BY <4>2 DEF N
    <3>3. CASE p \notin N
      <4>1. Closed(links, N)
        BY <1>1, <3>1, <3>3 DEF Closed
      <4>2. Reach(links, b) \subseteq N
        BY <3>1, <4>1, ReachLeast
      <4>3. QED
        BY <4>2 DEF N
    <3>4. QED
      BY <3>2, <3>3
  <2>4. QED
    BY <2>2, <2>3
<1>4. Reach(new, a) = R \ {c}
  <2>1. a \in DOMAIN links
    BY ReachStep
  <2>2. QED
    BY <1>2, <1>3, <2>1, ReachStep
<1>5. Acyclic(new, a)
  <2> SUFFICES ASSUME NEW n \in R \ {c} PROVE n \notin Reach(new, new[n])
    BY <1>4 DEF Acyclic
  <2>1. n \notin Reach(links, links[n]) /\ n \in DOMAIN links
    BY <1>1 DEF Acyclic
  <2>2. CASE new[n] \notin DOMAIN links
    BY <1>1, <2>2, ReachStep
  <2>3. CASE new[n] \in DOMAIN links
    <3>1. new[n] \in Reach(links, links[n])
      BY <1>1, <2>1, <2>3, ReachStep DEF Closed
    <3>2. Reach(links, new[n]) \subseteq Reach(links, links[n])
      BY <3>1, ReachMonotone
    <3>3. new[n] \in R \ {c}
      BY <1>1, <1>2, <2>3 DEF Closed
    <3>4. QED
      BY <1>3, <2>1, <3>2, <3>3
  <2>4. QED
    BY <2>2, <2>3
<1>6. QED
  BY <1>3, <1>4, <1>5

(* The first node is taken out.                                            *)
LEMMA ReachTail ==
    ASSUME NEW links, NEW a \in DOMAIN links, Acyclic(links, a)
    PROVE  /\ Reach(links, links[a]) = Reach(links, a) \ {a}
           /\ Acyclic(links, links[a])
<1>1. Reach(links, a) = {a} \cup Reach(links, links[a])
  BY ReachUnfold
<1>2. QED
  BY <1>1 DEF Acyclic

(* A node is put before the first.                                         *)
LEMMA ReachPush ==
    ASSUME NEW links, NEW c \in DOMAIN links, c \notin Reach(links, links[c]),
           Acyclic(links, links[c])
    PROVE  /\ Reach(links, c) = {c} \cup Reach(links, links[c])
           /\ Acyclic(links, c)
<1>1. Reach(links, c) = {c} \cup Reach(links, links[c])
  BY ReachUnfold
<1>2. QED
  BY <1>1 DEF Acyclic

(* A walk that starts elsewhere does not come to a node nothing leads to,  *)
(* and the link of that node does not matter to it.                        *)
LEMMA ReachUnknown ==
    ASSUME NEW links, NEW d, \A n \in DOMAIN links : links[n] # d, NEW a, a # d
    PROVE  /\ d \notin Reach(links, a)
           /\ \A new : /\ DOMAIN new = DOMAIN links
                       /\ \A n \in DOMAIN links \ {d} : new[n] = links[n]
                       => Reach(new, a) = Reach(links, a)
<1> DEFINE S == DOMAIN links \ {d}
<1>1. S \in SUBSET DOMAIN links /\ Closed(links, S) /\ (a \in DOMAIN links => a \in S)
  BY DEF Closed
<1>2. Reach(links, a) \subseteq S
  BY <1>1, ReachLeast
<1>3. ASSUME NEW new, DOMAIN new = DOMAIN links, \A n \in DOMAIN links \ {d} : new[n] = links[n]
      PROVE  Reach(new, a) = Reach(links, a)
  <2>1. \A n \in Reach(links, a) : new[n] = links[n]
    BY <1>2, <1>3
  <2>2. QED
    BY ONLY <1>3, <2>1, ReachFrame
<1>4. QED
  BY <1>2, <1>3

(* A node that lets go of what follows it, up to v, keeps what it led to   *)
(* and v leads to as well.                                                 *)
LEMMA ReachSwing ==
    ASSUME NEW links, NEW h \in DOMAIN links, NEW v, h \notin Reach(links, v),
           NEW new, DOMAIN new = DOMAIN links, new[h] = v,
           \A n \in DOMAIN links \ {h} : new[n] = links[n],
           NEW K, K \cap Reach(links, links[h]) = K \cap Reach(links, v),
           NEW b
    PROVE  K \cap Reach(new, b) = K \cap Reach(links, b)
<1>1. Reach(new, v) = Reach(links, v)
  <2>1. \A n \in Reach(links, v) : new[n] = links[n]
    BY ReachStep
  <2>2. QED
    BY <2>1, ReachFrame
<1> DEFINE old(p) == Reach(links, p)
           now(p) == Reach(new, p)
<1>2. \A p : /\ old(p) \subseteq DOMAIN links /\ now(p) \subseteq DOMAIN links
             /\ Closed(links, old(p)) /\ Closed(new, now(p))
             /\ p \in DOMAIN links => p \in old(p) /\ p \in now(p)
  BY ReachStep
<1>3. old(b) \subseteq now(b) \cup (IF h \in now(b) THEN old(links[h]) ELSE {})
  <2> DEFINE S == now(b) \cup (IF h \in now(b) THEN old(links[h]) ELSE {})
  <2>1. S \in SUBSET DOMAIN links /\ (b \in DOMAIN links => b \in S)
    BY <1>2
  <2>2. Closed(links, S)
    <3> SUFFICES ASSUME NEW n \in S, links[n] \in DOMAIN links PROVE links[n] \in S
      BY DEF Closed
    <3> HIDE DEF old, now
    <3>1. CASE n = h /\ n \in now(b)
      BY <1>2, <3>1
    <3>2. CASE n # h /\ n \in now(b)
      BY <1>2, <3>2 DEF Closed
    <3>3. CASE n \notin now(b)
      BY <1>2, <3>3 DEF Closed
    <3>4. QED
      BY <3>1, <3>2, <3>3
  <2>3. QED
    BY <2>1, <2>2, ReachLeast
<1>4. now(b) \subseteq old(b) \cup (IF h \in old(b) THEN old(v) ELSE {})
  <2> DEFINE S == old(b) \cup (IF h \in old(b) THEN old(v) ELSE {})
  <2>1. S \in SUBSET DOMAIN new /\ (b \in DOMAIN new => b \in S)
    BY <1>2
  <2>2. Closed(new, S)
    <3> SUFFICES ASSUME NEW n \in S, new[n] \in DOMAIN new PROVE new[n] \in S
      BY DEF Closed
    <3>0. n \in old(v) => n # h
      OBVIOUS
    <3> HIDE DEF old, now
    <3>1. CASE n = h
      BY <1>2, <3>0, <3>1
    <3>2. CASE n # h /\ n \in old(b)
      BY <1>2, <3>2 DEF Closed
    <3>3. CASE n # h /\ n \notin old(b)
      BY <1>2, <3>3 DEF Closed
    <3>4. QED
      BY <3>1, <3>2, <3>3
  <2>3. QED
    BY <2>1, <2>2, ReachLeast
<1>5. h \in now(b) => now(v) \subseteq now(b)
  BY ReachMonotone
<1>6. h \in old(b) => old(links[h]) \subseteq old(b)
  BY ReachMonotone
<1>7. QED
  BY <1>1, <1>3, <1>4, <1>5, <1>6

(* A node d that nothing leads to, and that leads to what follows e, can   *)
(* follow e: then a walk comes to d if it comes to e.                      *)
LEMMA ReachInsert ==
    ASSUME NEW links, NEW e \in DOMAIN links, NEW d \in DOMAIN links, e # d,
           links[d] = links[e], \A n \in DOMAIN links : links[n] # d,
           NEW new, DOMAIN new = DOMAIN links, new[e] = d,
           \A n \in DOMAIN links \ {e} : new[n] = links[n],
           NEW b, b # d
    PROVE  Reach(new, b) = Reach(links, b) \cup (IF e \in Reach(links, b) THEN {d} ELSE {})
<1> DEFINE old == Reach(links, b)
           now == Reach(new, b)
           S == old \cup (IF e \in old THEN {d} ELSE {})
<1>1. /\ old \subseteq DOMAIN links /\ now \subseteq DOMAIN links
      /\ Closed(links, old) /\ Closed(new, now)
      /\ b \in DOMAIN links => b \in old /\ b \in now
  BY ReachStep
<1>2. d \notin old
  BY ReachUnknown
<1>3. Closed(new, S)
  <2> SUFFICES ASSUME NEW n \in S, new[n] \in DOMAIN new PROVE new[n] \in S
    BY DEF Closed
  <2> HIDE DEF old, now
  <2>1. CASE n = e
    BY <1>1, <2>1
  <2>2. CASE n = d
    BY <1>1, <1>2, <2>2 DEF Closed
  <2>3. CASE n # e /\ n # d
    BY <1>1, <2>3 DEF Closed
  <2>4. QED
    BY <2>1, <2>2, <2>3
<1>4. now \subseteq S
  <2>1. S \in SUBSET DOMAIN new /\ (b \in DOMAIN new => b \in S)
    BY <1>1
  <2>2. QED
    BY <1>3, <2>1, ReachLeast
<1>5. old \subseteq now
  <2>1. Closed(links, now)
    <3> SUFFICES ASSUME NEW n \in now, links[n] \in DOMAIN links PROVE links[n] \in now
      BY DEF Closed
    <3> HIDE DEF old, now
    <3>1. CASE n = e
      <4>1. d \in now
        BY <1>1, <3>1 DEF Closed
      <4>2. new[d] = links[n]
        BY <3>1
      <4>3. QED
        BY <1>1, <4>1, <4>2 DEF Closed
    <3>2. CASE n # e
      BY <1>1, <3>2 DEF Closed
    <3>3. QED
      BY <3>1, <3>2
  <2>2. now \in SUBSET DOMAIN links /\ (b \in DOMAIN links => b \in now)
    BY <1>1
  <2>3. QED
    BY <2>1, <2>2, ReachLeast
<1>6. e \in old => d \in now
  <2> HIDE DEF old, now
  <2>1. QED
    BY <1>1, <1>5 DEF Closed
<1>7. QED
  BY <1>4, <1>5, <1>6

(* A walk leads on in an order that all links keep to.                     *)
LEMMA ReachOrder ==
    ASSUME NEW links, NEW D, NEW R, DOMAIN links = D,
           \A x, y, z \in D : <<x, y>> \in R /\ <<y, z>> \in R => <<x, z>> \in R,
           NEW h \in D, NEW a, a \in D => <<h, a>> \in R,
           \A n \in Reach(links, a) : links[n] \in D => <<n, links[n]>> \in R
    PROVE  \A n \in Reach(links, a) : <<h, n>> \in R
<1> DEFINE S == {n \in Reach(links, a) : <<h, n>> \in R}
<1>1. Reach(links, a) \subseteq D /\ Closed(links, Reach(links, a))
      /\ (a \in D => a \in Reach(links, a))
  BY ReachStep
<1>2. Closed(links, S)
  BY <1>1 DEF Closed
<1>3. S \in SUBSET DOMAIN links /\ (a \in DOMAIN links => a \in S)
  BY <1>1
<1>4. Reach(links, a) \subseteq S
  BY <1>2, <1>3, ReachLeast
<1>5. QED
  BY <1>4

=============================================================================
