--------------------------- MODULE StackTheorems ----------------------------
(***************************************************************************)
(* An iteration over a Stack comes to every entry that is in it all the    *)
(* time, and what a push, a pop or a peek acts on was the newest entry.    *)
(***************************************************************************)
EXTENDS StackInvariants, LinkTheorems

(***************************************************************************)
(* Part 1: what the steps of a search do to its frames.                    *)
(***************************************************************************)
(* The innermost frame of a search.                                        *)
LEMMA InnerFrame ==
    ASSUME TypeOK, NEW t \in Threads, walk[t].frames # <<>>
    PROVE  /\ Len(walk[t].frames) \in Nat \ {0}
           /\ Inner(t) = walk[t].frames[Len(walk[t].frames)]
           /\ Inner(t) \in Frames
           /\ \A i \in Nested(t) : walk[t].frames[i] \in Frames
           /\ Len(walk[t].frames) \in Nested(t) /\ 1 \in Nested(t)
<1>1. walk[t].frames \in Seq(Frames)
  BY DEF TypeOK, Searches
<1>2. Len(walk[t].frames) \in Nat \ {0}
  BY <1>1
<1>3. \A i \in Nested(t) : walk[t].frames[i] \in Frames
  BY <1>1, <1>2 DEF Nested
<1>4. QED
  BY <1>2, <1>3 DEF Inner, Last, Nested

(* The first elements of a sequence.                                       *)
LEMMA Prefix ==
    ASSUME NEW S, NEW s \in Seq(S), NEW n \in Nat, \A i \in 1 .. n : s[i] \in S
    PROVE  /\ SubSeq(s, 1, n) \in Seq(S) /\ Len(SubSeq(s, 1, n)) = n
           /\ \A i \in 1 .. n : SubSeq(s, 1, n)[i] = s[i]
  OBVIOUS

(* The innermost of some frames returns.                                   *)
LEMMA DropLast ==
    ASSUME NEW S, NEW s \in Seq(S), s # <<>>
    PROVE  LET r == Front(s)
           IN  /\ r \in Seq(S) /\ Len(r) = Len(s) - 1
               /\ \A i \in 1 .. Len(r) : r[i] = s[i]
               /\ r = <<>> <=> Len(s) = 1
<1> DEFINE n == Len(s) - 1
           r == SubSeq(s, 1, n)
<1>1. n \in Nat /\ \A i \in 1 .. n : s[i] \in S
  OBVIOUS
<1> HIDE DEF n
<1>2. r \in Seq(S) /\ Len(r) = n /\ \A i \in 1 .. n : r[i] = s[i]
  BY <1>1, Prefix
<1> HIDE DEF r
<1>3. r = <<>> <=> n = 0
  BY <1>1, <1>2
<1>4. QED
  BY <1>1, <1>2, <1>3 DEF Front, r, n

(* The innermost of some frames is replaced.                               *)
LEMMA ReplaceLast ==
    ASSUME NEW S, NEW s \in Seq(S), s # <<>>, NEW f \in S
    PROVE  LET r == Append(Front(s), f)
           IN  /\ r \in Seq(S) /\ r # <<>> /\ Len(r) = Len(s)
               /\ r[Len(s)] = f /\ Last(r) = f
               /\ \A i \in 1 .. Len(s) : i < Len(s) => r[i] = s[i]
<1>1. /\ Front(s) \in Seq(S) /\ Len(s) \in Nat \ {0} /\ Len(Front(s)) = Len(s) - 1
      /\ \A i \in 1 .. Len(Front(s)) : Front(s)[i] = s[i]
  BY DropLast
<1> DEFINE q == Front(s)
           r == Append(q, f)
<1>2. /\ r \in Seq(S) /\ Len(r) = Len(s) /\ r[Len(s)] = f
      /\ \A i \in 1 .. Len(q) : r[i] = q[i]
  BY <1>1
<1> HIDE DEF r, q
<1>3. r # <<>> /\ Last(r) = f
  BY <1>1, <1>2 DEF Last
<1>4. QED
  BY <1>1, <1>2, <1>3 DEF r, q

(* A search goes on in its innermost frame.                                *)
LEMMA ResumeFrames ==
    ASSUME TypeOK, NEW t \in Threads, walk[t].frames # <<>>,
           NEW f \in Frames, NEW v \in Pointers,
           NEW stage \in {"load", "look", "acquire", "swing"},
           Resume(t, f, stage, v)
    PROVE  /\ walk' \in [Threads -> Searches]
           /\ \A u \in Threads \ {t} : walk'[u] = walk[u]
           /\ walk'[t].stage = stage /\ walk'[t].valid = v /\ walk'[t].frames # <<>>
           /\ Len(walk'[t].frames) = Len(walk[t].frames)
           /\ walk'[t].frames[Len(walk[t].frames)] = f /\ Inner(t)' = f
           /\ \A i \in Nested(t) :
                 i < Len(walk[t].frames) => walk'[t].frames[i] = walk[t].frames[i]
<1> DEFINE r == Append(Front(walk[t].frames), f)
           w == [frames |-> r, stage |-> stage, valid |-> v]
<1>1. walk[t].frames \in Seq(Frames) /\ walk \in [Threads -> Searches]
  BY DEF TypeOK, Searches
<1>2. /\ r \in Seq(Frames) /\ r # <<>> /\ Len(r) = Len(walk[t].frames)
      /\ r[Len(walk[t].frames)] = f /\ Last(r) = f
      /\ \A i \in Nested(t) : i < Len(walk[t].frames) => r[i] = walk[t].frames[i]
  BY <1>1, ReplaceLast DEF Nested
<1>3. walk' = [walk EXCEPT ![t] = w]
  BY DEF Resume
<1> HIDE DEF r
<1>4. w \in Searches
  BY <1>2 DEF Searches
<1> HIDE DEF w
<1>5. walk' \in [Threads -> Searches] /\ walk'[t] = w /\ \A u \in Threads \ {t} : walk'[u] = walk[u]
  BY <1>1, <1>3, <1>4
<1>6. QED
  BY <1>2, <1>5 DEF w, Inner

(* An innermost frame returns v to the one that nested it, or ends the     *)
(* search.                                                                 *)
LEMMA ReturnFrames ==
    ASSUME TypeOK, NEW t \in Threads, walk[t].frames # <<>>, NEW v \in Pointers, Return(t, v)
    PROVE  /\ walk' \in [Threads -> Searches]
           /\ \A u \in Threads \ {t} : walk'[u] = walk[u]
           /\ walk'[t].valid = v
           /\ Len(walk[t].frames) = 1 =>
                 walk'[t].frames = <<>> /\ walk'[t].stage = "done"
           /\ Len(walk[t].frames) # 1 =>
                 LET n == Len(walk[t].frames) - 1
                     f == walk[t].frames[n]
                     g == [f EXCEPT !.depth = 0]
                 IN  /\ walk'[t].stage = (IF v = Null THEN "swing" ELSE "acquire")
                     /\ walk'[t].frames # <<>> /\ Len(walk'[t].frames) = n
                     /\ n \in Nested(t) /\ g \in Frames
                     /\ walk'[t].frames[n] = g /\ Inner(t)' = g
                     /\ \A i \in Nested(t) : i < n => walk'[t].frames[i] = walk[t].frames[i]
<1> DEFINE s == walk[t].frames
           outer == Front(s)
<1>1. s \in Seq(Frames) /\ walk \in [Threads -> Searches] /\ Len(s) \in Nat \ {0}
  BY InnerFrame DEF TypeOK, Searches
<1>2. /\ outer \in Seq(Frames) /\ Len(outer) = Len(s) - 1
      /\ \A i \in 1 .. Len(outer) : outer[i] = s[i]
      /\ outer = <<>> <=> Len(s) = 1
  BY <1>1, DropLast
<1>3. CASE Len(s) = 1
  <2> DEFINE w == [frames |-> <<>>, stage |-> "done", valid |-> v]
  <2>1. walk' = [walk EXCEPT ![t] = w]
    BY <1>2, <1>3 DEF Return
  <2>2. w \in Searches
    BY DEF Searches
  <2> HIDE DEF w
  <2>3. walk' \in [Threads -> Searches] /\ walk'[t] = w /\ \A u \in Threads \ {t} : walk'[u] = walk[u]
    BY <1>1, <2>1, <2>2
  <2>4. QED
    BY <1>3, <2>3 DEF w
<1>4. CASE Len(s) # 1
  <2> DEFINE n == Len(s) - 1
             f == s[n]
             g == [f EXCEPT !.depth = 0]
             r == Append(Front(outer), g)
             w == [frames |-> r, stage |-> IF v = Null THEN "swing" ELSE "acquire", valid |-> v]
  <2>1. n \in Nested(t) /\ n \in Nat \ {0} /\ f \in Frames /\ Last(outer) = f /\ n = Len(outer)
    BY <1>1, <1>2, <1>4 DEF Last, Nested
  <2>2. g \in Frames
    BY <2>1 DEF Frames
  <2>3. walk' = [walk EXCEPT ![t] = w]
    BY <1>2, <1>4, <2>1 DEF Return
  <2> HIDE DEF g, f
  <2>4. /\ r \in Seq(Frames) /\ r # <<>> /\ Len(r) = n /\ r[n] = g /\ Last(r) = g
        /\ \A i \in 1 .. n : i < n => r[i] = outer[i]
    BY SMTT(30), <1>2, <1>4, <2>1, <2>2, ReplaceLast
  <2> HIDE DEF r, outer
  <2>5. w \in Searches
    BY <2>4 DEF Searches
  <2> HIDE DEF w
  <2>6. walk' \in [Threads -> Searches] /\ walk'[t] = w /\ \A u \in Threads \ {t} : walk'[u] = walk[u]
    BY <1>1, <2>3, <2>5
  <2>7. \A i \in Nested(t) : i < n => r[i] = s[i]
    BY <1>2, <2>1, <2>4 DEF Nested
  <2>8. QED
    BY <1>4, <2>1, <2>2, <2>4, <2>6, <2>7 DEF w, Inner, f, g
<1>5. QED
  BY <1>3, <1>4

(* A search nests another.                                                 *)
LEMMA NestFrames ==
    ASSUME TypeOK, NEW t \in Threads, walk[t].frames # <<>>,
           NEW g \in Frames,
           walk' = [walk EXCEPT ![t].frames = Append(@, g), ![t].stage = "load"]
    PROVE  /\ walk' \in [Threads -> Searches]
           /\ \A u \in Threads \ {t} : walk'[u] = walk[u]
           /\ walk'[t].stage = "load" /\ walk'[t].valid = walk[t].valid
           /\ walk'[t].frames # <<>>
           /\ Len(walk'[t].frames) = Len(walk[t].frames) + 1
           /\ walk'[t].frames[Len(walk[t].frames) + 1] = g /\ Inner(t)' = g
           /\ \A i \in Nested(t) : walk'[t].frames[i] = walk[t].frames[i]
<1> DEFINE s == walk[t].frames
           r == Append(s, g)
           w == [walk[t] EXCEPT !.frames = r, !.stage = "load"]
<1>1. s \in Seq(Frames) /\ walk \in [Threads -> Searches] /\ Len(s) \in Nat \ {0}
      /\ walk[t] \in Searches
  BY InnerFrame DEF TypeOK, Searches
<1>2. /\ r \in Seq(Frames) /\ r # <<>> /\ Len(r) = Len(s) + 1 /\ r[Len(s) + 1] = g
      /\ \A i \in Nested(t) : r[i] = s[i]
  BY <1>1 DEF Nested
<1>3. walk' = [walk EXCEPT ![t] = w]
  BY <1>1
<1> HIDE DEF r
<1>4. w \in Searches /\ w.frames = r /\ w.stage = "load" /\ w.valid = walk[t].valid
  BY <1>1, <1>2 DEF Searches
<1> HIDE DEF w
<1>5. walk' \in [Threads -> Searches] /\ walk'[t] = w /\ \A u \in Threads \ {t} : walk'[u] = walk[u]
  BY <1>1, <1>3, <1>4
<1>6. QED
  BY <1>2, <1>4, <1>5 DEF Inner, Last

(***************************************************************************)
(* Part 2: what a thread that runs an operation has in its hands.          *)
(***************************************************************************)
(* The steps a thread t can take, as a case distinction.                   *)
StepOf(t) ==
    \/ \E s \in Stacks : BeginPush(t, s)
    \/ \E s \in Stacks : BeginPop(t, s)
    \/ \E s \in Stacks : BeginIter(t, s)
    \/ \E s \in Stacks : BeginClone(t, s)
    \/ \E s \in Stacks : BeginDrop(t, s)
    \/ \E s \in Stacks : \E r \in Stacks \ {s} : PopAll(t, s, r)
    \/ \E s \in Stacks : \E e \in Entries : RemoveEntry(t, s, e)
    \/ \E s \in Stacks : \E e \in Entries : BeginNext(t, s, e)
    \/ \E s \in Stacks : \E e \in Entries : BeginPushBack(t, s, e)
    \/ \E d \in Entries : BeginRelease(t, d)
    \/ FindNext(t)
    \/ ShareNext(t)
    \/ ShareFails(t)
    \/ ReplaceNewest(t)
    \/ Answer(t)
    \/ RefusePush(t)
    \/ AcceptPush(t)
    \/ LinkEntry(t)
    \/ AttachEntry(t)
    \/ AttachFails(t)
    \/ TryNewest(t)
    \/ GetNewest(t)
    \/ RefusePop(t)
    \/ TakeNewest(t)
    \/ MissNewest(t)
    \/ StartVisits(t)
    \/ Visit(t)
    \/ EndVisits(t)
    \/ JoinNext(t)
    \/ InsertEntry(t)
    \/ InsertFails(t)
    \/ RefuseInsert(t)
    \/ EndNext(t)
    \/ EndRelease(t)
    \/ Walk(t)

(* A step is one of these, and the history is kept with it.                *)
LEMMA NextCases ==
    ASSUME Next
    PROVE  Remember /\ \E t \in Threads : StepOf(t)
<1>1. Remember /\ \E t \in Threads : Start(t) \/ Step(t)
  BY DEF Next
<1>2. PICK t \in Threads : Start(t) \/ Step(t)
  BY <1>1
<1>3. CASE Start(t)
  BY ONLY <1>1, <1>3, Zenon DEF Start, StepOf
<1>4. CASE Step(t)
  BY ONLY <1>1, <1>4, Zenon DEF Step, StepOf
<1>5. QED
  BY <1>2, <1>3, <1>4

(* The entries a pointer leads to, and those that are not deleted.         *)
LEMMA LiveEntries ==
    ASSUME TypeOK, NEW p
    PROVE  /\ Reach(next, p) \subseteq Entries /\ Live(p) \subseteq Reach(next, p)
           /\ \A e \in Live(p) : ~deleted[e]
           /\ \A e \in Reach(next, p) : ~deleted[e] => e \in Live(p)
           /\ Live(Null) = {}
<1>1. Reach(next, p) \subseteq Entries /\ Reach(next, Null) = {}
  BY ReachStep, EntriesAssumption DEF TypeOK
<1>2. QED
  BY <1>1 DEF Live, Unmarked

(* What a thread has in its hands where the code uses it.                  *)
LEMMA Hands ==
    ASSUME ControlInv, NEW t \in Threads
    PROVE  /\ call[t].ptr \in Pointers /\ call[t].entry \in Pointers
           /\ call[t].on \in Stacks \cup {Null} /\ walk[t].valid \in Pointers
           /\ call[t].pc \in {"clean", "next", "replace", "link", "attach", "get", "judge",
                             "visit"} => call[t].on \in Stacks
           /\ call[t].pc \in {"link", "attach", "join", "insert"} => call[t].entry \in Entries
           /\ call[t].op = "push" => call[t].entry \in Entries
           /\ call[t].pc \in {"next", "replace", "get", "judge", "join", "insert", "release"}
                 => call[t].ptr \in Entries
           /\ call[t].pc \in {"next", "replace"} => deleted[call[t].ptr]
<1>1. call[t] \in Calls /\ walk[t] \in Searches /\ CallAgrees(t)
  BY DEF ControlInv, TypeOK
<1>2. QED
  BY <1>1 DEF CallAgrees, Calls, Searches, Pointers, Places, OnStack

(* What a step of t makes of its call and of its search.                   *)
Becomes(t, op, pc, s, p, e) ==
    /\ call' \in [Threads -> Calls]
    /\ call'[t].op = op /\ call'[t].pc = pc
    /\ call'[t].on = s /\ call'[t].ptr = p /\ call'[t].entry = e
    /\ \A u \in Threads \ {t} : call'[u] = call[u]

Finds(t, w) ==
    /\ walk' \in [Threads -> Searches]
    /\ walk'[t] = w
    /\ \A u \in Threads \ {t} : walk'[u] = walk[u]

(* A call goes on at another place.                                        *)
LEMMA GotoBecomes ==
    ASSUME TypeOK, NEW t \in Threads,
           NEW pc \in {"idle", "clean", "next", "replace", "link", "attach", "get", "judge",
                       "visit", "join", "insert", "next_ptr", "release"},
           Goto(t, pc)
    PROVE  Becomes(t, call[t].op, pc, call[t].on, call[t].ptr, call[t].entry)
  BY DEF TypeOK, Goto, Calls, Becomes

(* A call becomes another one.                                             *)
LEMMA CallBecomes ==
    ASSUME TypeOK, NEW t \in Threads, NEW c \in Calls, call' = [call EXCEPT ![t] = c]
    PROVE  Becomes(t, c.op, c.pc, c.on, c.ptr, c.entry)
  BY DEF TypeOK, Becomes

(* A call begins.                                                          *)
LEMMA CallOfBecomes ==
    ASSUME TypeOK, NEW t \in Threads,
           NEW op \in {"push", "pop", "iter", "drop", "push_back", "next_ptr", "release"},
           NEW pc \in {"clean", "visit", "join", "next_ptr", "release"},
           NEW s \in Stacks \cup {Null}, NEW p \in Pointers, NEW e \in Pointers,
           call' = [call EXCEPT ![t] = CallOf(op, pc, s, p, e)]
    PROVE  Becomes(t, op, pc, s, p, e)
<1>1. Gone \in SUBSET Entries
  BY DEF Gone
<1>2. CallOf(op, pc, s, p, e) \in Calls
  BY <1>1 DEF CallOf, Calls
<1>3. QED
  BY <1>2, CallBecomes DEF CallOf

(* A call remains as it is.                                                *)
LEMMA SameBecomes ==
    ASSUME TypeOK, NEW t \in Threads, UNCHANGED call
    PROVE  Becomes(t, call[t].op, call[t].pc, call[t].on, call[t].ptr, call[t].entry)
  BY DEF TypeOK, Becomes

(* Searches begin, and end, with one of these.                             *)
LEMMA Searched ==
    ASSUME TypeOK, NEW t \in Threads
    PROVE  /\ UNCHANGED walk => Finds(t, walk[t])
           /\ walk' = [walk EXCEPT ![t] = NoWalk] => Finds(t, NoWalk)
           /\ \A v \in Pointers : walk' = [walk EXCEPT ![t] = Found(v)] => Finds(t, Found(v))
           /\ \A e \in Entries :
                 walk' = [walk EXCEPT ![t] = StartWalk(e)] => Finds(t, StartWalk(e))
<1>1. <<>> \in Seq(Frames)
  OBVIOUS
<1>2. NoWalk \in Searches /\ \A v \in Pointers : Found(v) \in Searches
  BY <1>1 DEF NoWalk, Found, Searches, Pointers
<1>3. ASSUME NEW e \in Entries PROVE StartWalk(e) \in Searches
  <2>1. Frame(e, Depth) \in Frames
    BY DepthAssumption DEF Frame, Frames, Pointers
  <2>2. QED
    BY <2>1 DEF StartWalk, Searches, Pointers
<1>4. QED
  BY <1>2, <1>3 DEF TypeOK, Finds

(* A call returns.                                                         *)
LEMMA DoneBecomes ==
    ASSUME TypeOK, NEW t \in Threads, Done(t)
    PROVE  Becomes(t, "none", "idle", Null, Null, Null) /\ Finds(t, NoWalk)
<1>1. Idle \in Calls
  BY DEF Idle, Calls, Pointers
<1>2. Becomes(t, Idle.op, Idle.pc, Idle.on, Idle.ptr, Idle.entry)
  BY <1>1, CallBecomes DEF Done
<1>3. QED
  BY <1>2, Searched DEF Done, Idle

(* A thread that does not search: there are no frames, or it begins to.    *)
Rests(t) == walk[t].frames = <<>> /\ walk[t].stage \in {"none", "done"}

Starts(t, e) ==
    /\ walk[t].frames = <<Frame(e, Depth)>>
    /\ walk[t].stage = "load"
    /\ walk[t].valid = Null

(* What the searches that begin, or have ended, consist of.                *)
LEMMA SearchValues ==
    ASSUME NEW t \in Threads
    PROVE  /\ NoWalk.frames = <<>> /\ NoWalk.stage = "none" /\ NoWalk.valid = Null
           /\ \A v : /\ Found(v).frames = <<>> /\ Found(v).stage = "done"
                     /\ Found(v).valid = v
           /\ Finds(t, NoWalk) => Rests(t)'
           /\ \A v : Finds(t, Found(v)) => Rests(t)'
           /\ \A e : Finds(t, StartWalk(e)) => Starts(t, e)'
<1>1. Finds(t, NoWalk) => Rests(t)'
  BY DEF NoWalk, Finds, Rests
<1>2. ASSUME NEW v, Finds(t, Found(v)) PROVE Rests(t)'
  BY <1>2 DEF NoWalk, Found, Finds, Rests
<1>3. ASSUME NEW e, Finds(t, StartWalk(e)) PROVE Starts(t, e)'
  BY <1>3 DEF StartWalk, Finds, Starts
<1>4. QED
  BY <1>1, <1>2, <1>3 DEF NoWalk, Found

(* The pointers of a search are what it has found and what its frames have. *)
LEMMA SearchKnows ==
    ASSUME NEW w, w.frames \in Seq(Frames), NEW p
    PROVE  p \in SearchPointers(w) <=>
              \/ p = w.valid
              \/ \E i \in 1 .. Len(w.frames) : LET f == w.frames[i]
                                     IN  p = f.head \/ p = f.link \/ p = f.look
<1> DEFINE F == w.frames
           P(f) == {f.head, f.link, f.look}
           U == UNION {P(f) : f \in ToSet(F)}
<1>1. DOMAIN F = 1 .. Len(w.frames)
  OBVIOUS
<1>2. ToSet(F) = {F[i] : i \in 1 .. Len(w.frames)}
  BY <1>1 DEF ToSet
<1>3. p \in U <=> \E f \in ToSet(F) : p \in P(f)
  <2> HIDE DEF P, F
  <2>1. QED
    OBVIOUS
<1>4. (\E f \in ToSet(F) : p \in P(f)) <=> \E i \in 1 .. Len(w.frames) : p \in P(F[i])
  <2> HIDE DEF P, F
  <2>1. QED
    BY <1>2
<1>5. p \in SearchPointers(w) <=> p \in U \/ p = w.valid
  BY DEF SearchPointers
<1>6. p \in SearchPointers(w) <=> p = w.valid \/ \E i \in 1 .. Len(w.frames) : p \in P(F[i])
  <2> HIDE DEF P, F, U
  <2>1. QED
    BY <1>3, <1>4, <1>5
<1>7. QED
  BY <1>6

(* Neither has anything to keep in order.                                  *)
LEMMA NothingFound ==
    ASSUME TypeOK', NEW t \in Threads, Rests(t)' \/ \E e \in Entries : Starts(t, e)'
    PROVE  /\ Looking(t)' = {} /\ ~Settled(t)'
           /\ (\A i \in Nested(t) : FrameAgrees(t, i))'
           /\ \A R : SearchInOrder(t, R)'
           /\ Rests(t)' => WalkPointers(t)' = {walk'[t].valid} /\ walk'[t].frames = <<>>
           /\ \A e \in Entries : Starts(t, e)' =>
                 /\ WalkPointers(t)' = {e, Null}
                 /\ walk'[t].frames # <<>> /\ walk'[t].frames[1].head = e
<1>0. walk'[t].frames \in Seq(Frames)
  BY DEF TypeOK, Searches
<1>1. CASE Rests(t)'
  <2>1. Nested(t)' = {} /\ walk'[t].frames = <<>>
    BY <1>1 DEF Rests, Nested
  <2>2. WalkPointers(t)' = {walk'[t].valid}
    <3>1. 1 .. Len(walk'[t].frames) = {}
      BY <2>1
    <3>2. \A p : p \in SearchPointers(walk'[t]) <=> p = walk'[t].valid
      BY <1>0, <3>1, SearchKnows
    <3>3. QED
      BY <3>2 DEF WalkPointers
  <2>3. Looking(t)' = {} /\ ~Settled(t)'
    BY <1>1, <2>1 DEF Rests, Looking, Settled, InStage
  <2>4. QED
    BY <1>1, <2>1, <2>2, <2>3 DEF Rests, Starts, SearchInOrder
<1>2. ASSUME NEW e \in Entries, Starts(t, e)'
      PROVE  /\ Looking(t)' = {} /\ ~Settled(t)' /\ Nested(t)' = {1}
             /\ WalkPointers(t)' = {e, Null}
             /\ walk'[t].frames # <<>> /\ walk'[t].frames[1].head = e
             /\ Len(walk'[t].frames) = 1 /\ ~Rests(t)'
  <2>1. /\ Len(walk'[t].frames) = 1 /\ Nested(t)' = {1}
        /\ walk'[t].frames[1] = Frame(e, Depth)
    BY <1>2 DEF Starts, Nested
  <2> DEFINE f == walk'[t].frames[1]
  <2>2. ASSUME NEW p PROVE p \in WalkPointers(t)' <=> p = Null \/ p = e
    <3>1. p \in WalkPointers(t)' <=>
             p = walk'[t].valid \/ p = f.head \/ p = f.link \/ p = f.look
      <4> HIDE DEF f
      <4>1. \A i \in 1 .. Len(walk'[t].frames) : walk'[t].frames[i] = f
        BY <2>1 DEF f
      <4>2. p \in SearchPointers(walk'[t]) <=>
               p = walk'[t].valid \/ p = f.head \/ p = f.link \/ p = f.look
        BY <1>0, <2>1, <4>1, SearchKnows
      <4>3. QED
        BY <4>2 DEF WalkPointers
    <3>2. QED
      BY <1>2, <2>1, <3>1 DEF Starts, Frame
  <2>3. WalkPointers(t)' = {e, Null}
    BY <2>2
  <2>4. Looking(t)' = {} /\ ~Settled(t)'
    BY <1>2, <2>1 DEF Starts, Looking, Settled, InStage
  <2>5. QED
    BY <1>2, <2>1, <2>3, <2>4 DEF Starts, Rests, Frame
<1>3. CASE \E e \in Entries : Starts(t, e)'
  <2>1. PICK e \in Entries : Starts(t, e)'
    BY <1>3
  <2>2. /\ Looking(t)' = {} /\ ~Settled(t)' /\ Nested(t)' = {1}
        /\ Len(walk'[t].frames) = 1 /\ ~Rests(t)'
    BY <2>1, <1>2
  <2>3. FrameAgrees(t, 1)'
    BY <2>2 DEF FrameAgrees
  <2>4. (\A i \in Nested(t) : FrameAgrees(t, i))'
    BY <2>2, <2>3
  <2>5. \A R : SearchInOrder(t, R)'
    BY <2>2 DEF SearchInOrder
  <2>6. QED
    BY <1>2, <2>2, <2>4, <2>5
<1>4. QED
  BY <1>1, <1>3

(* A step of t leaves the calls and searches of the other threads alone.   *)
Alone(t) ==
    \A u \in Threads \ {t} : call'[u] = call[u] /\ walk'[u] = walk[u]

(* Entries stay deleted.                                                   *)
StayDeleted == \A e \in Entries : deleted[e] => deleted'[e]

(* A step of t keeps what is known of the threads, if it does for t.       *)
LEMMA ControlKept ==
    ASSUME ControlInv, NEW t \in Threads, TypeOK', Alone(t), StayDeleted,
           CallAgrees(t)', WalkAgrees(t)',
           \/ call'[t].on = Null
           \/ /\ call'[t].on = call[t].on
              /\ call'[t].op = "drop" => call[t].op = "drop"
           \/ /\ call'[t].op # "drop"
              /\ ~Dropping(call'[t].on)
           \/ Using(call'[t].on) = {}
    PROVE  ControlInv'
<1>1. ASSUME NEW u \in Threads PROVE CallAgrees(u)' /\ WalkAgrees(u)'
  <2>1. CASE u = t
    BY <2>1
  <2>2. CASE u # t
    <3>1. call'[u] = call[u] /\ walk'[u] = walk[u] /\ CallAgrees(u) /\ WalkAgrees(u)
      BY <2>2 DEF Alone, ControlInv
    <3>2. call[u].pc \in {"next", "replace"} => call[u].ptr \in Entries
      BY <3>1, Hands
    <3>3. CallAgrees(u)'
      BY <3>1, <3>2 DEF CallAgrees, StayDeleted
    <3>4. WalkAgrees(u)'
      BY <3>1 DEF WalkAgrees, At, InStage, Inner
    <3>5. QED
      BY <3>3, <3>4
  <2>3. QED
    BY <2>1, <2>2
<1>2. DropsAlone'
  <2> SUFFICES ASSUME NEW u \in Threads, NEW v \in Threads \ {u}, call'[u].op = "drop"
               PROVE  call'[v].on # call'[u].on
    BY DEF DropsAlone
  <2>1. CASE u # t /\ v # t
    BY <2>1 DEF Alone, ControlInv, DropsAlone
  <2>2. CallAgrees(u)' /\ CallAgrees(v)' /\ call'[u].on # Null
    BY <1>1 DEF CallAgrees, OnStack
  <2>3. CASE u = t
    BY <2>2, <2>3 DEF Alone, ControlInv, DropsAlone, Using
  <2>4. CASE v = t
    BY <2>2, <2>4 DEF Alone, ControlInv, DropsAlone, Dropping, Using
  <2>5. QED
    BY <2>1, <2>3, <2>4
<1>3. QED
  BY <1>1, <1>2 DEF ControlInv

(* The search of a thread that begins one, or has none, agrees with the    *)
(* place where the thread is.                                              *)
SearchPlaces == {"next", "replace", "visit", "join", "insert", "next_ptr", "release"}

(* They fit a call that is at one of the places where there is a search.   *)
LEMMA WalkFits ==
    ASSUME NEW t \in Threads,
           \/ /\ Rests(t)' /\ walk'[t].stage = "none" /\ walk'[t].valid = Null
              /\ call'[t].pc \notin SearchPlaces
           \/ /\ Rests(t)' /\ walk'[t].stage = "done" /\ call'[t].pc \in SearchPlaces
           \/ /\ \E e \in Entries : Starts(t, e)'
              /\ call'[t].pc \in SearchPlaces \ {"replace", "join", "insert"}
    PROVE  WalkAgrees(t)'
<1>1. (\E e \in Entries : Starts(t, e)') =>
         walk'[t].frames # <<>> /\ walk'[t].valid = Null /\ walk'[t].stage = "load"
  BY DEF Starts
<1>2. QED
  BY <1>1 DEF WalkAgrees, Rests, SearchPlaces, At, InStage

(***************************************************************************)
(* Part 3: what the steps do to what is not deleted from a pointer on.     *)
(***************************************************************************)
(* The entries that are not deleted from p on, after a step.               *)
Now(p) == Unmarked(next', deleted', p)

(* The definitions of StackInvariants after a step, in terms of Now.       *)
LEMMA Primed ==
    /\ \A p : Live(p)' = Now(p)
    /\ \A s \in Stacks : Contents(s)' = Now(newest'[s])
    /\ Fresh' = {d \in Entries : ~deleted'[d] /\ \A s \in Stacks : d \notin Now(newest'[s])}
    /\ Targets' = {newest'[s] : s \in Stacks} \cup {next'[e] : e \in Entries}
    /\ \A p : \A x \in Now(p) : ~deleted'[x]
    /\ \A s \in Stacks : \A x \in Contents(s)' : ~deleted'[x]
<1>1. \A p : \A x \in Now(p) : ~deleted'[x]
  BY DEF Now, Unmarked
<1>2. \A s \in Stacks : Contents(s)' = Now(newest'[s])
  BY DEF Live, Now, Contents
<1>3. \A p : Live(p)' = Now(p)
  BY DEF Live, Now
<1>4. QED
  BY <1>1, <1>2, <1>3 DEF Fresh, Targets

(* What is not fresh leads to nothing fresh.                               *)
LEMMA FreshFar ==
    ASSUME TypeOK, OwnerInv, NEW a, a \notin Fresh
    PROVE  Reach(next, a) \cap Fresh = {}
<1> DEFINE S == Entries \ Fresh
<1>1. next \in [Entries -> Pointers] /\ \A e \in Entries : next[e] \notin Fresh
  BY DEF TypeOK, OwnerInv, FreshUnknown, Targets
<1>2. S \in SUBSET DOMAIN next /\ Closed(next, S) /\ (a \in DOMAIN next => a \in S)
  BY <1>1 DEF Closed
<1>3. QED
  BY <1>2, ReachLeast

(* What is known is not fresh.                                             *)
LEMMA KnownStale ==
    ASSUME OwnerInv
    PROVE  /\ \A x \in Targets : x \notin Fresh
           /\ \A t \in Threads : \A x \in Knows(t) : x \notin Fresh
           /\ \A s \in Stacks : newest[s] \in Targets
           /\ \A e \in Entries : next[e] \in Targets
           /\ \A t \in Threads : call[t].ptr \in Knows(t) /\ walk[t].valid \in Knows(t)
           /\ Fresh \subseteq Entries
           /\ \A t \in Threads : call[t].entry # Null => call[t].entry \in Fresh
<1>1. /\ \A x \in Targets : x \notin Fresh
      /\ \A t \in Threads : \A x \in Knows(t) : x \notin Fresh
  BY DEF OwnerInv, FreshUnknown
<1>2. /\ \A s \in Stacks : newest[s] \in Targets
      /\ \A e \in Entries : next[e] \in Targets
  BY DEF Targets
<1>3. \A t \in Threads : call[t].ptr \in Knows(t) /\ walk[t].valid \in Knows(t)
  BY DEF Knows, WalkPointers, SearchPointers
<1>4. QED
  BY <1>1, <1>2, <1>3 DEF Fresh, OwnerInv, HandsFresh

(* What is reached from a is after what comes before a.                    *)
LEMMA Onward ==
    ASSUME TypeOK, OwnerInv, NEW R \in Orders, InOrder(R), NEW h \in Entries, NEW a,
           a \notin Fresh, a \in Entries => <<h, a>> \in R
    PROVE  /\ \A n \in Reach(next, a) : <<h, n>> \in R
           /\ h \notin Reach(next, a)
<1>1. next \in [Entries -> Pointers] /\ DOMAIN next = Entries
  BY DEF TypeOK
<1>2. \A n \in Reach(next, a) : n \in Entries /\ n \notin Fresh
  BY <1>1, FreshFar, ReachStep
<1>3. \A n \in Reach(next, a) : next[n] \in Entries => <<n, next[n]>> \in R
  BY <1>2, EntriesAssumption DEF InOrder
<1>4. \A x, y, z \in Entries : <<x, y>> \in R /\ <<y, z>> \in R => <<x, z>> \in R
  BY DEF Orders
<1>5. \A n \in Reach(next, a) : <<h, n>> \in R
  BY <1>1, <1>3, <1>4, ReachOrder
<1>6. QED
  BY <1>5 DEF Orders

(* A deleted entry leads to what its link leads to; any other one to itself *)
(* as well.                                                                *)
LEMMA LiveUnfold ==
    ASSUME TypeOK, NEW e \in Entries
    PROVE  /\ deleted[e] => Live(e) = Live(next[e])
           /\ ~deleted[e] => Live(e) = {e} \cup Live(next[e])
           /\ Live(next[e]) \subseteq Live(e)
<1>1. Reach(next, e) = {e} \cup Reach(next, next[e])
  BY ReachUnfold DEF TypeOK
<1>2. QED
  BY <1>1 DEF Live, Unmarked

(* The entries after one that is not fresh do not have it among them.      *)
LEMMA LiveTail ==
    ASSUME TypeOK, OwnerInv, OrderInv, NEW e \in Entries, e \notin Fresh
    PROVE  e \notin Reach(next, next[e]) /\ Live(next[e]) = Live(e) \ {e}
<1>1. PICK R \in Orders : InOrder(R)
  BY DEF OrderInv
<1>2. next[e] \notin Fresh /\ (next[e] \in Entries => <<e, next[e]>> \in R)
  BY <1>1, KnownStale, EntriesAssumption DEF InOrder
<1>3. e \notin Reach(next, next[e])
  BY <1>1, <1>2, Onward
<1>4. QED
  BY <1>3, LiveUnfold DEF Live, Unmarked

(* An entry of a stack is known there.                                     *)
LEMMA ReachKnown ==
    ASSUME TypeOK, NEW p, NEW e \in Reach(next, p)
    PROVE  e = p \/ e \in Targets
<1> DEFINE S == {x \in Entries : x = p \/ x \in Targets}
<1>1. S \in SUBSET DOMAIN next /\ Closed(next, S) /\ (p \in DOMAIN next => p \in S)
  BY DEF Closed, Targets, TypeOK
<1>2. QED
  BY <1>1, ReachLeast

(* Nothing a step may do to links or tags changes what is known of the     *)
(* entries from X on: what is not deleted stays where it is, and what led  *)
(* to the same entries, or to more of them, does so afterwards.            *)
Keeps(X) ==
    /\ StayDeleted
    /\ \A b \in Pointers \ X : \A x \in Live(b) : ~deleted'[x] => x \in Now(b)
    /\ \A b, c \in Pointers \ X : Live(b) \subseteq Live(c) => Now(b) \subseteq Now(c)

(* Nothing changes where no link does.                                     *)
LEMMA NowQuiet ==
    ASSUME UNCHANGED links
    PROVE  (\A p : Now(p) = Live(p)) /\ Keeps({})
<1>1. \A p : Now(p) = Live(p)
  BY DEF Now, Live, links
<1>2. QED
  BY <1>1 DEF Keeps, StayDeleted, links

(* The link of an entry nothing points to is set.                          *)
LEMMA NowOwn ==
    ASSUME TypeOK, NEW x \in Entries, x \notin Targets, NEW v,
           next' = [next EXCEPT ![x] = v], UNCHANGED deleted
    PROVE  (\A p : p # x => Now(p) = Live(p)) /\ Keeps({x})
<1>1. /\ DOMAIN next' = DOMAIN next /\ \A n \in DOMAIN next \ {x} : next'[n] = next[n]
      /\ \A n \in DOMAIN next : next[n] # x
  BY DEF TypeOK, Targets
<1>2. ASSUME NEW p, p # x PROVE Reach(next', p) = Reach(next, p)
  BY ONLY <1>1, <1>2, ReachUnknown
<1>3. \A p : p # x => Now(p) = Live(p)
  BY <1>2 DEF Now, Live, Unmarked
<1>4. QED
  BY <1>3, LiveEntries DEF Keeps, StayDeleted

(* A link is replaced by one that leads to the same entries.               *)
LEMMA NowSwing ==
    ASSUME TypeOK, OwnerInv, OrderInv, NEW R \in Orders, InOrder(R),
           NEW h \in Entries, NEW v \in Pointers, v \notin Fresh,
           v # Null => <<h, v>> \in R, Live(next[h]) = Live(v),
           next' = [next EXCEPT ![h] = v], UNCHANGED deleted
    PROVE  (\A p : Now(p) = Live(p)) /\ Keeps({})
<1>1. /\ DOMAIN next' = DOMAIN next /\ \A n \in DOMAIN next \ {h} : next'[n] = next[n]
      /\ DOMAIN next = Entries /\ next'[h] = v
  BY DEF TypeOK
<1>2. h \notin Reach(next, v)
  BY Onward, EntriesAssumption DEF Pointers
<1> DEFINE K == {e \in Entries : ~deleted[e]}
<1>3. \A p : Live(p) = K \cap Reach(next, p)
  BY LiveEntries DEF Live, Unmarked
<1>4. K \cap Reach(next, next[h]) = K \cap Reach(next, v)
  BY <1>3
<1>5. ASSUME NEW p PROVE K \cap Reach(next', p) = K \cap Reach(next, p)
  <2> HIDE DEF K
  <2>1. QED
    BY ONLY <1>1, <1>2, <1>4, h \in Entries, ReachSwing
<1>6. \A p : Now(p) = K \cap Reach(next', p)
  BY <1>1, ReachStep DEF Now, Unmarked
<1>7. \A p : Now(p) = Live(p)
  BY <1>3, <1>5, <1>6
<1>8. QED
  BY <1>7 DEF Keeps, StayDeleted

(* An entry is deleted.                                                    *)
LEMMA NowDelete ==
    ASSUME TypeOK, NEW e \in Entries, deleted' = [deleted EXCEPT ![e] = TRUE], UNCHANGED next
    PROVE  (\A p : Now(p) = Live(p) \ {e}) /\ Keeps({})
<1>1. \A p : Now(p) = Live(p) \ {e}
  BY ReachStep DEF Now, Live, Unmarked, TypeOK
<1>2. StayDeleted
  BY DEF StayDeleted, TypeOK
<1>3. deleted'[e]
  BY DEF TypeOK
<1>4. QED
  BY <1>1, <1>2, <1>3 DEF Keeps

(* An entry nothing points to is put behind e, in front of what follows.   *)
LEMMA NowInsert ==
    ASSUME TypeOK, NEW e \in Entries, NEW d \in Entries, e # d, d \notin Targets,
           next[d] = next[e], ~deleted[e], ~deleted[d],
           next' = [next EXCEPT ![e] = d], UNCHANGED deleted
    PROVE  /\ \A p : p # d => Now(p) = Live(p) \cup (IF e \in Live(p) THEN {d} ELSE {})
           /\ Keeps({d})
<1>1. /\ DOMAIN next' = DOMAIN next /\ \A n \in DOMAIN next \ {e} : next'[n] = next[n]
      /\ \A n \in DOMAIN next : next[n] # d
      /\ DOMAIN next = Entries /\ next'[e] = d
  BY DEF TypeOK, Targets
<1>2. ASSUME NEW p, p # d
      PROVE  Reach(next', p) = Reach(next, p) \cup (IF e \in Reach(next, p) THEN {d} ELSE {})
  BY ONLY <1>1, <1>2, e \in Entries, d \in Entries, e # d, next[d] = next[e], ReachInsert
<1>3. \A p : p # d => Now(p) = Live(p) \cup (IF e \in Live(p) THEN {d} ELSE {})
  <2> SUFFICES ASSUME NEW p, p # d
               PROVE  Now(p) = Live(p) \cup (IF e \in Live(p) THEN {d} ELSE {})
    OBVIOUS
  <2>1. e \in Reach(next, p) <=> e \in Live(p)
    BY DEF Live, Unmarked
  <2>2. CASE e \in Live(p)
    BY <1>2, <2>1, <2>2 DEF Now, Live, Unmarked
  <2>3. CASE e \notin Live(p)
    BY <1>2, <2>1, <2>3 DEF Now, Live, Unmarked
  <2>4. QED
    BY <2>2, <2>3
<1>4. QED
  BY <1>3 DEF Keeps, StayDeleted

(***************************************************************************)
(* Part 4: what a step leaves to the other threads.                        *)
(***************************************************************************)
(* What a step of t does to what the other threads rely on: nobody else    *)
(* knows the entries X whose links it sets, and Y, which it puts into a    *)
(* stack, is the entry it has in its hands.                                *)
Harmless(t, X, Y) ==
    /\ Alone(t)
    /\ Keeps(X)
    /\ X \subseteq Entries /\ X \cap Targets = {}
    /\ \A u \in Threads \ {t} : X \cap Knows(u) = {}
    /\ Y \subseteq {call[t].entry}
    /\ Fresh' = Fresh \ Y
    /\ \A d \in Fresh : d # call[t].entry => next'[d] = next[d]
    /\ released \subseteq released'
    /\ \A u \in Threads \ {t} :
          call[u].op = "drop" => newest'[call[u].on] = newest[call[u].on]

(* What is known to lead to the same entries does so afterwards.           *)
LEMMA KeepsEqual ==
    ASSUME NEW X, Keeps(X), NEW b \in Pointers \ X, NEW c \in Pointers \ X
    PROVE  /\ Live(b) = Live(c) => Now(b) = Now(c)
           /\ Live(b) \subseteq Live(c) => Now(b) \subseteq Now(c)
  BY DEF Keeps

(* The frames of a search have pointers that it knows.                     *)
LEMMA FramesKnown ==
    ASSUME TypeOK, NEW t \in Threads
    PROVE  /\ walk[t].frames \in Seq(Frames)
           /\ \A i \in Nested(t) :
                 LET f == walk[t].frames[i]
                 IN  /\ f \in Frames
                     /\ f.head \in Entries /\ f.link \in Pointers /\ f.look \in Pointers
                     /\ {f.head, f.link, f.look} \subseteq Knows(t)
           /\ walk[t].valid \in Pointers /\ walk[t].valid \in Knows(t)
           /\ call[t].ptr \in Pointers /\ call[t].ptr \in Knows(t)
           /\ WalkPointers(t) \subseteq Knows(t)
           /\ walk[t].frames # <<>> =>
                 /\ 1 \in Nested(t) /\ Len(walk[t].frames) \in Nested(t)
                 /\ Inner(t) = walk[t].frames[Len(walk[t].frames)]
<1>1. walk[t].frames \in Seq(Frames) /\ walk[t] \in Searches /\ call[t] \in Calls
  BY DEF TypeOK, Searches
<1>2. walk[t].frames # <<>> => /\ 1 \in Nested(t) /\ Len(walk[t].frames) \in Nested(t)
                               /\ Inner(t) = walk[t].frames[Len(walk[t].frames)]
  BY InnerFrame
<1>3. ASSUME NEW i \in Nested(t) PROVE walk[t].frames[i] \in Frames
  BY <1>1 DEF Nested
<1>4. ASSUME NEW i \in Nested(t)
      PROVE  /\ walk[t].frames[i].head \in WalkPointers(t)
             /\ walk[t].frames[i].link \in WalkPointers(t)
             /\ walk[t].frames[i].look \in WalkPointers(t)
  BY <1>1, SearchKnows DEF Nested, WalkPointers
<1>5. ASSUME NEW f \in Frames
      PROVE  f.head \in Entries /\ f.link \in Pointers /\ f.look \in Pointers
  BY DEF Frames
<1>6. walk[t].valid \in Pointers /\ call[t].ptr \in Pointers /\ walk[t].valid \in WalkPointers(t)
  BY <1>1, SearchKnows DEF Searches, Calls, WalkPointers
<1>7. QED
  BY <1>1, <1>2, <1>3, <1>4, <1>5, <1>6 DEF Knows

(* What another thread's search has found out remains true.                *)
LEMMA OtherSearch ==
    ASSUME ControlInv, NEW t \in Threads, NEW X, NEW Y, Harmless(t, X, Y),
           NEW u \in Threads \ {t}, SearchAgrees(u)
    PROVE  SearchAgrees(u)'
<1>1. /\ TypeOK /\ u \in Threads /\ walk'[u] = walk[u] /\ call'[u] = call[u]
      /\ Keeps(X) /\ StayDeleted /\ X \cap Knows(u) = {}
  BY DEF ControlInv, Harmless, Alone, Keeps
<1>2. /\ Nested(u)' = Nested(u) /\ Looking(u)' = Looking(u) /\ (Settled(u)' <=> Settled(u))
      /\ Inner(u)' = Inner(u)
  BY <1>1 DEF Nested, Looking, Settled, InStage, Inner
<1>3. \A i \in Nested(u) :
         LET f == walk[u].frames[i]
         IN  f.head \in Entries /\ {f.head, f.link, f.look} \subseteq Pointers \ X
  BY <1>1, FramesKnown DEF Pointers
<1>4. walk[u].valid \in Pointers \ X /\ call[u].ptr \in Pointers \ X
  BY <1>1, FramesKnown
<1>5. ASSUME NEW i \in Nested(u) PROVE FrameAgrees(u, i)'
  <2> DEFINE f == walk[u].frames[i]
  <2>1. /\ f.head \in Entries /\ f.head \in Pointers \ X /\ f.link \in Pointers \ X
        /\ f.look \in Pointers \ X
    BY <1>3
  <2>2. /\ Live(f.link) = Live(f.look) => Now(f.link) = Now(f.look)
        /\ Live(f.head) = Live(f.link) => Now(f.head) = Now(f.link)
        /\ deleted[f.head] => deleted'[f.head]
    BY <1>1, <2>1, KeepsEqual DEF StayDeleted
  <2>3. FrameAgrees(u, i)
    BY DEF SearchAgrees
  <2>4. /\ i > 1 => deleted'[f.head]
        /\ i \in Looking(u) => f.look # Null /\ Now(f.link) = Now(f.look)
        /\ i < Len(walk[u].frames) => walk[u].frames[i + 1].head = f.look
        /\ i \in Looking(u) \/ Settled(u) =>
              (i > 1 => f.tag) /\ (f.tag => deleted'[f.head] /\ Now(f.head) = Now(f.link))
    BY <2>2, <2>3 DEF FrameAgrees
  <2>5. QED
    BY <1>1, <1>2, <2>4, Primed DEF FrameAgrees
<1>6. Settled(u)' => (Live(Inner(u).link) = Live(walk[u].valid))'
  <2> SUFFICES ASSUME Settled(u) PROVE Now(Inner(u).link) = Now(walk[u].valid)
    BY <1>1, <1>2, Primed
  <2>1. walk[u].frames # <<>>
    BY DEF ControlInv, WalkAgrees, Settled, InStage
  <2>2. Inner(u).link \in Pointers \ X
    BY <1>1, <1>3, <2>1, FramesKnown
  <2>3. QED
    BY <1>1, <1>4, <2>2, KeepsEqual DEF SearchAgrees
<1>7. CleansUp(u)'
  <2>1. CleansUp(u)
    BY DEF SearchAgrees
  <2>2. walk[u].frames # <<>> =>
           /\ walk[u].frames[1].head \in Entries
           /\ walk[u].frames[1].head \in Pointers \ X
    BY <1>1, <1>3, FramesKnown
  <2>3. /\ Live(walk[u].valid) = Live(call[u].ptr) => Now(walk[u].valid) = Now(call[u].ptr)
        /\ walk[u].frames # <<>> /\ Live(walk[u].frames[1].head) = Live(call[u].ptr)
              => Now(walk[u].frames[1].head) = Now(call[u].ptr)
        /\ walk[u].frames # <<>> /\ deleted[walk[u].frames[1].head]
              => deleted'[walk[u].frames[1].head]
    BY <1>1, <1>4, <2>2, KeepsEqual DEF StayDeleted
  <2>4. QED
    BY <1>1, <1>2, <2>1, <2>3, Primed DEF CleansUp, At, InStage
<1>8. QED
  BY <1>2, <1>5, <1>6, <1>7 DEF SearchAgrees

(* The history variable, for a call that goes on.                          *)
LEMMA Remembered ==
    ASSUME Remember, NEW t \in Threads
    PROVE  /\ call'[t].op \in Ends /\ call[t].op # "none" => seen[t] \subseteq seen'[t]
           /\ call'[t].op \in Ends =>
                 \A s \in Stacks : call'[t].on = s => Top(s)' \in seen'[t]
           /\ call'[t].op = "iter" =>
                 \A s \in Stacks : call'[t].on = s =>
                    /\ seen'[t] \subseteq Contents(s)'
                    /\ call[t].op # "none" => seen'[t] \subseteq seen[t]
                    /\ call[t].op # "none" /\ Visiting(t) => Current(t) \notin seen'[t]
           /\ DOMAIN seen' = Threads
<1>1. CASE call'[t].op \in Ends
  <2>1. seen'[t] = Before(t, {}) \cup Newest(t)
    BY <1>1 DEF Remember, Ends
  <2>2. \A s \in Stacks : call'[t].on = s => Top(s)' \in Newest(t)
    BY DEF Newest, StackOf
  <2>3. QED
    BY <1>1, <2>1, <2>2 DEF Remember, Ends, Before
<1>2. CASE call'[t].op = "iter"
  <2>1. seen'[t] = (Before(t, Entries) \ Met(t)) \cap Present(t)
    BY <1>2 DEF Remember, Ends
  <2>2. ASSUME NEW s \in Stacks, call'[t].on = s PROVE Present(t) = Contents(s)'
    <3>1. StackOf(t) = {s}
      BY <2>2 DEF StackOf
    <3>2. QED
      BY <3>1 DEF Present
  <2>3. QED
    BY <1>2, <2>1, <2>2 DEF Remember, Ends, Before, Met
<1>3. CASE call'[t].op \notin Ends /\ call'[t].op # "iter"
  BY <1>3 DEF Remember
<1>4. QED
  BY <1>1, <1>2, <1>3

(* What another thread's call knows remains true.                          *)
LEMMA OtherCall ==
    ASSUME IInv, Remember, NEW t \in Threads, NEW X, NEW Y, Harmless(t, X, Y),
           NEW u \in Threads \ {t}
    PROVE  CallAware(u)'
<1>1. /\ TypeOK /\ u \in Threads /\ walk'[u] = walk[u] /\ call'[u] = call[u]
      /\ Keeps(X) /\ StayDeleted /\ X \cap Knows(u) = {} /\ X \cap Targets = {}
      /\ CallAgrees(u) /\ CallAware(u) /\ SearchAgrees(u)
  BY DEF IInv, ControlInv, Harmless, Alone, Keeps, CallInv, SearchInv
<1>2. /\ Looking(u)' = Looking(u) /\ (Settled(u)' <=> Settled(u)) /\ Visiting(u)' = Visiting(u)
  BY <1>1 DEF Nested, Looking, Settled, InStage, Visiting, At
<1>3. /\ walk[u].valid \in Pointers \ X /\ call[u].ptr \in Pointers \ X
      /\ walk[u].frames # <<>> => /\ walk[u].frames[1].head \in Pointers \ X
                                  /\ walk[u].frames[1].link \in Pointers \ X
                                  /\ walk[u].frames[1].head \in Entries
  BY <1>1, FramesKnown DEF Pointers
<1>4. VisitsAhead(u)'
  <2> SUFFICES ASSUME call[u].op \in {"iter", "drop"}
               PROVE  VisitsAhead(u)'
    BY <1>1 DEF VisitsAhead
  <2>0. call[u].on \in Stacks
    BY <1>1, StacksAssumption DEF CallAgrees, OnStack, TypeOK, Calls
  <2>1. PICK s \in Stacks : s = call[u].on
    BY <2>0
  <2>2. newest[s] \in Pointers \ X
    BY <1>1, <2>1 DEF Targets, TypeOK
  <2>3. ASSUME NEW p \in Pointers \ X, Left(u) \subseteq Live(p) PROVE Left(u)' \subseteq Now(p)
    <3>1. CASE call[u].op = "drop"
      <4>1. Live(newest[s]) \subseteq Live(p) /\ newest'[s] = newest[s]
        BY <2>1, <2>3, <3>1 DEF Left, Contents, Harmless
      <4>2. Now(newest'[s]) \subseteq Now(p)
        BY <1>1, <2>2, <2>3, <4>1, KeepsEqual
      <4>3. QED
        BY <1>1, <2>1, <3>1, <4>2, Primed DEF Left
    <3>2. CASE call[u].op = "iter"
      <4>1. Left(u)' = seen'[u] /\ Left(u) = seen[u]
        BY <1>1, <3>2 DEF Left
      <4>2. seen'[u] \subseteq Contents(s)' /\ seen'[u] \subseteq seen[u]
        BY <1>1, <2>1, <3>2, Remembered
      <4>3. \A x \in seen'[u] : ~deleted'[x]
        BY <2>1, <4>2, Primed
      <4>4. QED
        BY <1>1, <2>3, <4>1, <4>2, <4>3 DEF Keeps
    <3>3. QED
      BY <3>1, <3>2
  <2>4. Left(u)' \subseteq Contents(s)' /\ \A x \in Contents(s)' : ~deleted'[x]
    <3>1. Left(u)' \subseteq Contents(s)'
      BY <1>1, <2>1, Remembered DEF Left
    <3>2. QED
      BY <2>1, <3>1, Primed
  <2>5. At(u, "visit") /\ walk[u].frames # <<>>
           /\ Left(u) \subseteq Live(walk[u].frames[1].head) \ {walk[u].frames[1].head}
           => Left(u)' \subseteq Now(walk[u].frames[1].head) \ {walk[u].frames[1].head}
    <3> SUFFICES ASSUME At(u, "visit"), walk[u].frames # <<>>,
                        Left(u) \subseteq Live(walk[u].frames[1].head) \ {walk[u].frames[1].head}
                 PROVE  Left(u)' \subseteq Now(walk[u].frames[1].head) \ {walk[u].frames[1].head}
      OBVIOUS
    <3> DEFINE h == walk[u].frames[1].head
    <3>1. Left(u)' \subseteq Now(h)
      BY <1>3, <2>3
    <3>2. h \notin Left(u)'
      <4>1. CASE call[u].op = "drop"
        <5>1. deleted[h]
          BY <1>1, <4>1 DEF CallAware, VisitsAhead
        <5>2. deleted'[h]
          BY <1>1, <1>3, <5>1 DEF StayDeleted
        <5>3. QED
          BY <2>4, <5>2
      <4>2. CASE call[u].op = "iter"
        BY <1>1, <2>1, <4>2, Remembered DEF Left
      <4>3. QED
        BY <4>1, <4>2
    <3>3. QED
      BY <3>1, <3>2
  <2>6. QED
    BY <1>1, <1>2, <1>3, <2>1, <2>3, <2>4, <2>5, Primed DEF CallAware, VisitsAhead,
       At, InStage, StayDeleted
<1>5. SawNewest(u)'
  <2> SUFFICES ASSUME call[u].op \in Ends PROVE SawNewest(u)'
    BY <1>1 DEF SawNewest
  <2>1. seen[u] \subseteq seen'[u]
    BY <1>1, Remembered DEF Ends
  <2>2. Clean(call[u].ptr)' => Clean(call[u].ptr)
    BY <1>1, <1>3 DEF Clean, StayDeleted, Pointers
  <2>3. SawNewest(u)
    BY <1>1 DEF CallAware
  <2>4. QED
    BY <1>1, <2>1, <2>2, <2>3 DEF SawNewest, At, Clean
<1>6. LinksOn(u)'
  <2>1. At(u, "attach") \/ At(u, "insert") => call[u].entry \in Fresh /\ call[u].entry # call[t].entry
    BY <1>1, Hands, EntriesAssumption DEF IInv, OwnerInv, HandsFresh, At
  <2>2. At(u, "attach") \/ At(u, "insert") => next'[call[u].entry] = next[call[u].entry]
    BY <2>1 DEF Harmless
  <2>3. LinksOn(u) /\ released \subseteq released'
    BY <1>1 DEF CallAware, Harmless
  <2>4. QED
    BY <1>1, <2>2, <2>3 DEF LinksOn, At
<1>7. QED
  BY <1>4, <1>5, <1>6 DEF CallAware

(***************************************************************************)
(* Part 5: owners, and the order of entries.                               *)
(***************************************************************************)
(* What is released remains without an owner, if what t makes something    *)
(* point to, or is about to, is owned already, or is not released.         *)
LEMMA ReleasedKept ==
    ASSUME IInv, NEW t \in Threads, Alone(t), TypeOK', Fresh' \subseteq Fresh,
           \A v \in released' : v \in released \/ (~Owned(v) /\ v \in Knows(t)),
           \A v \in Targets' : Owned(v) \/ v \notin released',
           InStage(t, "swing")' \/ At(t, "replace")' =>
              Owned(walk'[t].valid) \/ walk'[t].valid \notin released'
    PROVE  ReleasedUnowned'
<1> SUFFICES ASSUME NEW v \in released' PROVE ~Owned(v)' /\ v \notin Fresh'
  BY DEF ReleasedUnowned
<1>1. ~Owned(v) /\ v \notin Fresh
  BY KnownStale DEF IInv, OwnerInv, ReleasedUnowned
<1>2. v \notin Targets'
  BY <1>1
<1>3. \A u \in Threads :
         walk'[u].valid = v => ~InStage(u, "swing")' /\ ~At(u, "replace")'
  BY <1>1 DEF Alone, Owned, InStage, At
<1>4. QED
  BY <1>1, <1>2, <1>3 DEF Owned, Targets

(* What something points to has an owner.                                  *)
LEMMA TargetsOwned ==
    ASSUME NEW v \in Targets
    PROVE  Owned(v)
  BY DEF Targets, Owned

(* Fresh and reclaimed entries remain unknown, if all t gets to know is    *)
(* known already, but for entries Z.                                       *)
LEMMA OwnerKept ==
    ASSUME IInv, ControlInv', NEW t \in Threads, NEW X, NEW Y, Harmless(t, X, Y),
           ReleasedUnowned',
           Targets' \subseteq Targets \cup Knows(t) \cup {Null} \cup Y,
           NEW Z, Z \cap Fresh = {}, \A u \in Threads \ {t} : call[u].ptr \notin Z,
           Knows(t)' \subseteq Knows(t) \cup Targets \cup {Null} \cup Z,
           call'[t].entry # Null =>
              /\ call'[t].entry \in Fresh \ Y
              /\ \A u \in Threads \ {t} : call[u].entry # call'[t].entry,
           call'[t].op = "release" =>
              /\ deleted'[call'[t].ptr]
              /\ call'[t].ptr \notin Targets'
              /\ call'[t].ptr \notin WalkPointers(t)'
              /\ \A u \in Threads \ {t} : call'[t].ptr \notin Knows(u)
    PROVE  OwnerInv'
<1>1. /\ TypeOK /\ OwnerInv /\ Alone(t) /\ Fresh' = Fresh \ Y /\ StayDeleted
      /\ Y \subseteq {call[t].entry}
  BY DEF IInv, ControlInv, Harmless, Keeps
<1>2. /\ \A u \in Threads \ {t} : Knows(u)' = Knows(u) /\ WalkPointers(u)' = WalkPointers(u)
  BY <1>1 DEF Alone, Knows, WalkPointers
<1>3. FreshUnknown'
  <2> SUFFICES ASSUME NEW d \in Fresh'
               PROVE  d \notin Targets' /\ \A u \in Threads : d \notin Knows(u)'
    BY DEF FreshUnknown
  <2>1. d \in Fresh /\ d \notin Y /\ d # Null /\ d \notin Z
    BY <1>1, EntriesAssumption DEF Fresh
  <2>2. d \notin Targets /\ \A u \in Threads : d \notin Knows(u)
    BY <1>1, <2>1 DEF OwnerInv, FreshUnknown
  <2>3. QED
    BY <1>2, <2>1, <2>2
<1>4. HandsFresh'
  <2> SUFFICES ASSUME NEW u \in Threads, call'[u].entry # Null
               PROVE  /\ call'[u].entry \in Fresh'
                      /\ \A v \in Threads \ {u} : call'[v].entry # call'[u].entry
    BY DEF HandsFresh
  <2>1. CASE u = t
    BY <1>1, <2>1 DEF Alone
  <2>2. CASE u # t
    <3>1. call'[u] = call[u] /\ call[u].entry # Null
      BY <1>1, <2>2 DEF Alone
    <3>2. call[u].entry \in Fresh /\ \A v \in Threads \ {u} : call[v].entry # call[u].entry
      BY <1>1, <3>1 DEF OwnerInv, HandsFresh
    <3>3. call[u].entry \notin Y
      BY <1>1, <2>2, <3>2
    <3>4. \A v \in Threads \ {u} : call'[v].entry # call'[u].entry
      BY <1>1, <2>2, <3>1, <3>2 DEF Alone
    <3>5. QED
      BY <1>1, <3>1, <3>2, <3>3, <3>4
  <2>3. QED
    BY <2>1, <2>2
<1>5. ReclaimedUnknown'
  <2> SUFFICES ASSUME NEW u \in Threads, call'[u].op = "release"
               PROVE  /\ deleted'[call'[u].ptr]
                      /\ call'[u].ptr \notin Targets'
                      /\ call'[u].ptr \notin WalkPointers(u)'
                      /\ \A v \in Threads \ {u} : call'[u].ptr \notin Knows(v)'
    BY DEF ReclaimedUnknown
  <2>1. CASE u = t
    BY <1>2, <2>1
  <2>2. CASE u # t
    <3> DEFINE d == call[u].ptr
    <3>1. call'[u] = call[u] /\ call[u].op = "release"
      BY <1>1, <2>2 DEF Alone
    <3>2. /\ deleted[d] /\ d \notin Targets /\ d \notin WalkPointers(u)
          /\ \A v \in Threads \ {u} : d \notin Knows(v)
      BY <1>1, <3>1 DEF OwnerInv, ReclaimedUnknown
    <3>3. d \in Entries /\ d # Null
      BY <1>1, <3>1, EntriesAssumption DEF IInv, ControlInv, CallAgrees, TypeOK,
         Calls, Pointers
    <3>4. d \notin Y
      <4>1. call[t].entry # Null => ~deleted[call[t].entry]
        BY <1>1 DEF OwnerInv, HandsFresh, Fresh
      <4>2. QED
        BY <1>1, <3>2, <3>3, <4>1
    <3>5. d \notin Targets' /\ d \notin Knows(t)'
      BY <2>2, <3>2, <3>3, <3>4
    <3>6. \A v \in Threads \ {u} : d \notin Knows(v)'
      BY <1>2, <3>2, <3>5
    <3>7. QED
      BY <1>1, <1>2, <2>2, <3>1, <3>2, <3>3, <3>5, <3>6 DEF StayDeleted
  <2>3. QED
    BY <2>1, <2>2
<1>6. QED
  BY <1>3, <1>4, <1>5 DEF OwnerInv

(* The same order will do when links are set to what comes later in it.    *)
LEMMA OrderKept ==
    ASSUME IInv, NEW t \in Threads, Alone(t), Fresh' = Fresh,
           NEW R \in Orders, InOrder(R),
           \A e \in Entries \ Fresh :
              next'[e] # Null => next'[e] = next[e] \/ <<e, next'[e]>> \in R,
           SearchInOrder(t, R)'
    PROVE  OrderInv'
<1>1. \A u \in Threads : SearchInOrder(u, R)'
  <2> SUFFICES ASSUME NEW u \in Threads \ {t} PROVE SearchInOrder(u, R)'
    OBVIOUS
  <2>1. walk'[u] = walk[u] /\ SearchInOrder(u, R)
    BY DEF Alone, InOrder
  <2>2. Looking(u)' = Looking(u) /\ (Settled(u)' <=> Settled(u)) /\ Inner(u)' = Inner(u)
    BY <2>1 DEF Nested, Looking, Settled, InStage, Inner
  <2>3. QED
    BY <2>1, <2>2 DEF SearchInOrder
<1>2. \A e \in Entries \ Fresh' : next'[e] # Null => <<e, next'[e]>> \in R
  BY DEF InOrder
<1>3. InOrder(R)'
  BY <1>1, <1>2 DEF InOrder
<1>4. QED
  BY <1>3 DEF OrderInv, Orders

(* An entry finds its place between those of A and those of B.             *)
LEMMA OrderInsert ==
    ASSUME NEW R \in Orders, NEW d \in Entries,
           NEW A \in SUBSET (Entries \ {d}), NEW B \in SUBSET (Entries \ {d}),
           \A a \in A, b \in B : <<a, b>> \in R,
           \A a \in A : \A x \in Entries \ {d} : <<x, a>> \in R => x \in A,
           \A b \in B : \A x \in Entries \ {d} : <<b, x>> \in R => x \in B
    PROVE  \E Q \in Orders :
              /\ \A x, y \in Entries \ {d} : <<x, y>> \in R => <<x, y>> \in Q
              /\ \A a \in A : <<a, d>> \in Q
              /\ \A b \in B : <<d, b>> \in Q
<1> DEFINE Q == {p \in Entries \X Entries :
                    \/ p[1] # d /\ p[2] # d /\ p \in R
                    \/ p[1] \in A /\ p[2] = d
                    \/ p[1] = d /\ p[2] \in B}
<1>1. \A x, y \in Entries :
         <<x, y>> \in Q <=> \/ x # d /\ y # d /\ <<x, y>> \in R
                            \/ x \in A /\ y = d
                            \/ x = d /\ y \in B
  OBVIOUS
<1>2. Q \in SUBSET (Entries \X Entries)
  OBVIOUS
<1> HIDE DEF Q
<1>3. \A a \in Entries : <<a, a>> \notin Q
  BY <1>1 DEF Orders
<1>4. ASSUME NEW a \in Entries, NEW b \in Entries, NEW c \in Entries,
             <<a, b>> \in Q, <<b, c>> \in Q
      PROVE  <<a, c>> \in Q
  <2>1. CASE b = d
    BY <1>1, <1>4, <2>1
  <2>2. CASE b # d
    <3>1. (<<a, b>> \in R /\ <<b, c>> \in R => <<a, c>> \in R) /\ <<b, b>> \notin R
      BY DEF Orders
    <3>2. CASE a = d
      BY <1>1, <1>4, <2>2, <3>1, <3>2
    <3>3. CASE a # d
      <4>1. <<a, b>> \in R
        BY <1>1, <1>4, <2>2, <3>3
      <4>2. CASE c = d
        BY <1>1, <1>4, <2>2, <3>3, <4>1, <4>2
      <4>3. CASE c # d
        BY <1>1, <1>4, <2>2, <3>1, <3>3, <4>1, <4>3
      <4>4. QED
        BY <4>2, <4>3
    <3>4. QED
      BY <3>2, <3>3
  <2>3. QED
    BY <2>1, <2>2
<1>5. Q \in Orders
  BY <1>2, <1>3, <1>4 DEF Orders
<1>6. QED
  BY <1>1, <1>5

(* All parts of the invariant, if t keeps its own.                         *)
LEMMA AllKept ==
    ASSUME IInv, Remember, NEW t \in Threads, NEW X, NEW Y, Harmless(t, X, Y),
           ControlInv', OwnerInv', OrderInv', SearchAgrees(t)', CallAware(t)'
    PROVE  IInv'
<1>1. \A u \in Threads : SearchAgrees(u)'
  BY OtherSearch DEF IInv, SearchInv
<1>2. \A u \in Threads : CallAware(u)'
  BY OtherCall
<1>3. QED
  BY <1>1, <1>2 DEF IInv, SearchInv, CallInv

(* A thread that has read `newest', and finds nothing to clean up, knows   *)
(* what was the newest entry.                                              *)
LEMMA NewestSeen ==
    ASSUME ControlInv', OwnerInv', OrderInv', Remember, NEW t \in Threads,
           call'[t].op \in Ends, NEW s \in Stacks, call'[t].on = s, Clean(newest[s])'
    PROVE  newest'[s] \in seen'[t]
<1> DEFINE a == newest'[s]
           C == Now(a)
<1>1. Top(s)' \in seen'[t]
  BY Remembered
<1>2. /\ next' \in [Entries -> Pointers] /\ DOMAIN next' = Entries
      /\ a \in Pointers /\ (a # Null => ~deleted'[a])
  BY DEF ControlInv, TypeOK, Clean
<1>3. Contents(s)' = C /\ C = {n \in Reach(next', a) : ~deleted'[n]}
  BY Primed DEF Now, Unmarked
<1>4. CASE a = Null
  <2>1. Contents(s)' = {}
    BY <1>2, <1>3, <1>4, ReachStep, EntriesAssumption
  <2>2. Top(s)' = Null
    BY <2>1 DEF Top
  <2>3. QED
    BY <1>1, <1>4, <2>2
<1>5. CASE a # Null
  <2>1. a \in Entries /\ ~deleted'[a]
    BY <1>2, <1>5 DEF Pointers
  <2>2. a \in C /\ C \subseteq Reach(next', a)
    BY <1>2, <1>3, <2>1, ReachStep
  <2>3. PICK R \in Orders : InOrder(R)'
    BY DEF OrderInv, Orders
  <2>4. a \notin Fresh'
    BY <2>1 DEF OwnerInv, FreshUnknown, Targets
  <2>5. Reach(next', a) \cap Fresh' = {}
    <3> DEFINE S == Entries \ Fresh'
    <3>1. \A e \in Entries : next'[e] \notin Fresh'
      BY <1>2 DEF OwnerInv, FreshUnknown, Targets
    <3>2. S \in SUBSET DOMAIN next' /\ Closed(next', S) /\ a \in S
      BY <1>2, <2>1, <2>4, <3>1 DEF Closed
    <3> HIDE DEF S
    <3>3. Reach(next', a) \subseteq S
      BY ONLY <3>2, ReachLeast
    <3>4. QED
      BY <3>3 DEF S
  <2>6. \A n \in Reach(next', a) : next'[n] \in Entries => <<n, next'[n]>> \in R
    BY <1>2, <2>3, <2>5, ReachStep, EntriesAssumption DEF InOrder
  <2>7. \A e \in C : a \in Reach(next', e) => e = a
    <3> SUFFICES ASSUME NEW e \in C, a \in Reach(next', e), e # a PROVE FALSE
      OBVIOUS
    <3>1. Reach(next', a) = {a} \cup Reach(next', next'[a])
      <4> HIDE DEF a
      <4>1. QED
        BY ONLY <1>2, <2>1, ReachUnfold
    <3>2. e \in Reach(next', next'[a])
      BY <2>2, <3>1
    <3>3. a \in Reach(next', next'[a])
      <4> HIDE DEF a
      <4>1. QED
        BY <3>2, ReachMonotone
    <3>4. \A x, y, z \in Entries : <<x, y>> \in R /\ <<y, z>> \in R => <<x, z>> \in R
      BY DEF Orders
    <3>5. \A n \in Reach(next', next'[a]) : <<a, n>> \in R
      <4>1. \A n \in Reach(next', next'[a]) : next'[n] \in Entries => <<n, next'[n]>> \in R
        BY <2>6, <3>1
      <4>2. next'[a] \in Entries => <<a, next'[a]>> \in R
        BY <2>2, <2>6
      <4> HIDE DEF a
      <4>3. QED
        BY ONLY <1>2, <2>1, <3>4, <4>1, <4>2, ReachOrder
    <3>6. QED
      BY <2>1, <3>3, <3>5 DEF Orders
  <2>8. Top(s)' = CHOOSE e \in C : C \subseteq Reach(next', e)
    BY <1>3, <2>2 DEF Top
  <2>9. Top(s)' = a
    <3> HIDE DEF C, a
    <3>1. QED
      BY <2>2, <2>7, <2>8
  <2>10. QED
    BY <1>1, <2>9
<1>6. QED
  BY <1>4, <1>5

(***************************************************************************)
(* Part 6: the steps of a search.                                          *)
(***************************************************************************)
(* They delete nothing, and leave the calls and what is in the stacks.     *)
Calm == UNCHANGED <<deleted, newest, call>> /\ \A p : Now(p) = Live(p)

(* What a search of t knows, in an order R.                                *)
SearchGoesOn(t, R) ==
    /\ walk' \in [Threads -> Searches]
    /\ \A u \in Threads \ {t} : walk'[u] = walk[u]
    /\ WalkAgrees(t)'
    /\ WalkPointers(t)' \subseteq WalkPointers(t) \cup Targets \cup {Null}
    /\ SearchInOrder(t, R)'
    /\ SearchAgrees(t)'
    /\ VisitsAhead(t)'
    /\ InStage(t, "swing")' => walk'[t].valid = Null \/ AcquireValid(t)

(* An iterator, or a drop, has no more left than before.                   *)
LEMMA LeftKept ==
    ASSUME ControlInv, Remember, Calm, NEW t \in Threads, call[t].op \in {"iter", "drop"}
    PROVE  /\ call[t].on \in Stacks
           /\ Left(t)' \subseteq Contents(call[t].on)'
           /\ VisitsAhead(t) => Left(t)' \subseteq Left(t)
<1>1. call[t].on \in Stacks
  BY StacksAssumption DEF ControlInv, CallAgrees, OnStack, TypeOK, Calls
<1>2. PICK s \in Stacks : s = call[t].on
  BY <1>1
<1>3. call' = call /\ Contents(s)' = Contents(s)
  BY <1>2, Primed DEF Calm, Contents
<1>4. CASE call[t].op = "drop"
  BY <1>2, <1>3, <1>4 DEF Left
<1>5. CASE call[t].op = "iter"
  <2>1. seen'[t] \subseteq Contents(s)' /\ seen'[t] \subseteq seen[t]
    BY <1>2, <1>3, <1>5, Remembered
  <2>2. QED
    BY <1>2, <1>3, <1>5, <2>1 DEF Left
<1>6. QED
  BY <1>4, <1>5, <1>1

(* What is known of a thread that searches.                                *)
LEMMA SearchFacts ==
    ASSUME IInv, NEW t \in Threads, walk[t].stage \notin {"none", "done"}
    PROVE  LET F == walk[t].frames
               n == Len(F)
           IN  /\ F # <<>> /\ n \in Nat \ {0} /\ Nested(t) = 1 .. n
               /\ Inner(t) = F[n] /\ Inner(t) \in Frames
               /\ \A i \in 1 .. n : F[i] \in Frames /\ FrameAgrees(t, i)
               /\ \A i \in 1 .. n : i < n => i \in Looking(t)
               /\ n \in Looking(t) <=> InStage(t, "look")
               /\ call[t].pc \in {"next", "visit", "next_ptr", "release"}
               /\ CleansUp(t) /\ VisitsAhead(t) /\ WalkAgrees(t) /\ TypeOK
               /\ Settled(t) => Live(Inner(t).link) = Live(walk[t].valid)
               /\ walk[t].valid \in Pointers
<1>1. /\ TypeOK /\ WalkAgrees(t) /\ SearchAgrees(t) /\ VisitsAhead(t)
      /\ walk[t] \in Searches
  BY DEF IInv, ControlInv, SearchInv, CallInv, CallAware, TypeOK
<1>2. walk[t].frames # <<>> /\ call[t].pc \in {"next", "visit", "next_ptr", "release"}
  BY <1>1 DEF WalkAgrees, At
<1>3. /\ Len(walk[t].frames) \in Nat \ {0} /\ Inner(t) = walk[t].frames[Len(walk[t].frames)]
      /\ Inner(t) \in Frames /\ \A i \in Nested(t) : walk[t].frames[i] \in Frames
  BY <1>1, <1>2, InnerFrame
<1>4. Nested(t) = 1 .. Len(walk[t].frames)
  BY DEF Nested
<1>5. /\ \A i \in 1 .. Len(walk[t].frames) : i < Len(walk[t].frames) => i \in Looking(t)
      /\ Len(walk[t].frames) \in Looking(t) <=> InStage(t, "look")
  BY <1>3, <1>4 DEF Looking
<1>6. QED
  BY <1>1, <1>2, <1>3, <1>4, <1>5 DEF SearchAgrees, Searches

(* The innermost frame becomes f.                                          *)
LEMMA Resumed ==
    ASSUME IInv, Remember, Calm, NEW R \in Orders, InOrder(R),
           NEW t \in Threads, walk[t].stage \notin {"none", "done"},
           NEW f \in Frames, NEW v \in Pointers,
           NEW stage \in {"load", "look", "acquire", "swing"},
           Resume(t, f, stage, v),
           f.head = Inner(t).head,
           stage \in {"load", "look"} => v = Null,
           stage = "look" =>
              f.look # Null /\ Live(f.link) = Live(f.look) /\ <<f.head, f.look>> \in R,
           stage = "acquire" => v # Null,
           stage = "swing" => v = Null,
           stage \in {"acquire", "swing"} =>
              Live(f.link) = Live(v) /\ (v # Null => <<f.head, v>> \in R),
           stage # "load" =>
              /\ f.tag => deleted[f.head] /\ Live(f.head) = Live(f.link)
              /\ Len(walk[t].frames) > 1 \/ At(t, "next") => f.tag
              /\ At(t, "visit") /\ call[t].op \in {"iter", "drop"} /\ Len(walk[t].frames) = 1
                    => Left(t) \subseteq Live(f.link),
           {f.link, f.look, v} \subseteq WalkPointers(t) \cup Targets \cup {Null}
    PROVE  SearchGoesOn(t, R)
<1> DEFINE F == walk[t].frames
           n == Len(F)
           G == walk'[t].frames
<1>1. /\ F # <<>> /\ n \in Nat \ {0} /\ Nested(t) = 1 .. n
      /\ Inner(t) = F[n] /\ Inner(t) \in Frames
      /\ \A i \in 1 .. n : F[i] \in Frames /\ FrameAgrees(t, i)
      /\ \A i \in 1 .. n : i < n => i \in Looking(t)
      /\ call[t].pc \in {"next", "visit", "next_ptr", "release"}
      /\ CleansUp(t) /\ VisitsAhead(t) /\ TypeOK
  BY SearchFacts
<1>2. /\ walk' \in [Threads -> Searches]
      /\ \A u \in Threads \ {t} : walk'[u] = walk[u]
      /\ walk'[t].stage = stage /\ walk'[t].valid = v /\ G # <<>>
      /\ Len(G) = n /\ G[n] = f /\ Inner(t)' = f
      /\ \A i \in 1 .. n : i < n => G[i] = F[i]
  BY <1>1, ResumeFrames
<1>3. /\ Nested(t)' = 1 .. n
      /\ \A i \in 1 .. n : i \in Looking(t)' <=> i < n \/ stage = "look"
      /\ Looking(t)' \subseteq 1 .. n
      /\ Settled(t)' <=> stage \in {"acquire", "swing"}
  BY <1>1, <1>2 DEF Nested, Looking, Settled, InStage
<1>4. call' = call /\ deleted' = deleted /\ newest' = newest
  BY DEF Calm
<1>5. WalkAgrees(t)'
  BY <1>1, <1>2, <1>4 DEF WalkAgrees, At, InStage
<1>6. WalkPointers(t)' \subseteq WalkPointers(t) \cup Targets \cup {Null}
  <2>1. F \in Seq(Frames) /\ G \in Seq(Frames)
    BY <1>1, <1>2 DEF TypeOK, Searches
  <2> SUFFICES ASSUME NEW p \in SearchPointers(walk'[t])
               PROVE  p \in SearchPointers(walk[t]) \cup Targets \cup {Null}
    BY DEF WalkPointers
  <2>2. \/ p = v
        \/ \E i \in 1 .. n : p = G[i].head \/ p = G[i].link \/ p = G[i].look
    BY <1>2, <2>1, SearchKnows
  <2>3. \A i \in 1 .. n :
           {F[i].head, F[i].link, F[i].look} \subseteq SearchPointers(walk[t])
    BY <2>1, SearchKnows
  <2>4. \A i \in 1 .. n : i = n \/ i < n
    BY <1>1
  <2>5. f.head \in SearchPointers(walk[t])
    BY <1>1, <2>3
  <2>6. QED
    BY <1>2, <2>2, <2>3, <2>4, <2>5 DEF WalkPointers
<1>7. SearchInOrder(t, R)'
  <2>1. SearchInOrder(t, R)
    BY DEF InOrder
  <2>2. \A i \in Looking(t)' : <<G[i].head, G[i].look>> \in R
    <3> SUFFICES ASSUME NEW i \in Looking(t)' PROVE <<G[i].head, G[i].look>> \in R
      OBVIOUS
    <3>1. CASE i < n
      BY <1>1, <1>2, <1>3, <2>1, <3>1 DEF SearchInOrder
    <3>2. CASE i = n
      BY <1>1, <1>2, <1>3, <3>2
    <3>3. QED
      BY <1>1, <1>3, <3>1, <3>2
  <2>3. QED
    BY <1>2, <1>3, <2>2 DEF SearchInOrder
<1>8. ASSUME NEW i \in 1 .. n PROVE FrameAgrees(t, i)'
  <2>1. FrameAgrees(t, i)
    BY <1>1
  <2>2. CASE i < n
    <3>1. G[i] = F[i] /\ i \in Looking(t) /\ i \in Looking(t)'
      BY <1>1, <1>2, <1>3, <2>2
    <3>2. G[i + 1].head = F[i + 1].head
      <4>1. i + 1 \in 1 .. n /\ (i + 1 < n \/ i + 1 = n)
        BY <1>1, <2>2
      <4>2. QED
        BY <1>1, <1>2, <4>1
    <3>3. QED
      BY <1>2, <1>4, <2>1, <2>2, <3>1, <3>2, Primed DEF FrameAgrees, Calm
  <2>3. CASE i = n
    <3>1. G[i] = f /\ ~(i < Len(G)) /\ (i > 1 => deleted[f.head])
      BY <1>1, <1>2, <2>1, <2>3 DEF FrameAgrees
    <3>2. i \in Looking(t)' \/ Settled(t)' => stage # "load"
      BY <1>3, <2>3
    <3>3. QED
      BY <1>2, <1>3, <1>4, <2>3, <3>1, <3>2, Primed DEF FrameAgrees, Calm
  <2>4. QED
    BY <1>1, <2>2, <2>3
<1>9. /\ F[1] \in Frames /\ (n = 1 => G[1] = f /\ F[1].head = f.head)
      /\ (n # 1 => G[1] = F[1]) /\ (n # 1 => 1 \in Looking(t))
      /\ (1 \in Looking(t)' \/ Settled(t)' => n # 1 \/ stage # "load")
  <2>0. n \in Nat \ {0}
    BY <1>1
  <2>1. 1 \in 1 .. n /\ (n # 1 => 1 < n) /\ (n = 1 => ~(1 < n))
    <3> HIDE DEF n
    <3>1. QED
      BY ONLY <2>0
  <2>2. F[1] \in Frames /\ (n = 1 => F[1].head = f.head) /\ (n # 1 => 1 \in Looking(t))
    BY <1>1, <2>1
  <2>3. (n = 1 => G[1] = f) /\ (n # 1 => G[1] = F[1])
    BY <1>2, <2>1
  <2>4. 1 \in Looking(t)' \/ Settled(t)' => n # 1 \/ stage # "load"
    <3>1. (1 \in Looking(t)' => 1 < n \/ stage = "look")
          /\ (Settled(t)' => stage \in {"acquire", "swing"})
      BY <1>3, <2>1
    <3>2. QED
      BY <2>1, <3>1
  <2>5. QED
    BY <2>2, <2>3, <2>4
<1>10. CleansUp(t)'
  <2>1. At(t, "next") => /\ deleted[G[1].head] /\ Now(G[1].head) = Now(call[t].ptr)
                         /\ 1 \in Looking(t)' \/ Settled(t)' => G[1].tag
    BY <1>1, <1>9 DEF CleansUp, Calm
  <2>2. QED
    BY <1>1, <1>2, <1>4, <2>1, Primed DEF CleansUp, At, InStage
<1>11. SearchAgrees(t)'
  <2>1. Settled(t)' => Now(f.link) = Now(v)
    BY <1>3 DEF Calm
  <2>2. QED
    BY <1>2, <1>3, <1>8, <1>10, <2>1, Primed DEF SearchAgrees
<1>12. VisitsAhead(t)'
  <2> SUFFICES ASSUME call[t].op \in {"iter", "drop"} PROVE VisitsAhead(t)'
    BY <1>4 DEF VisitsAhead
  <2>1. Left(t)' \subseteq Contents(call[t].on)' /\ Left(t)' \subseteq Left(t)
    BY <1>1, LeftKept DEF IInv
  <2>2. At(t, "visit") => /\ Left(t)' \subseteq Now(G[1].head) \ {G[1].head}
                          /\ call[t].op = "drop" => deleted[G[1].head]
                          /\ 1 \in Looking(t)' \/ Settled(t)' => Left(t)' \subseteq Now(G[1].link)
    <3> SUFFICES ASSUME At(t, "visit") PROVE
                          /\ Left(t)' \subseteq Live(G[1].head) \ {G[1].head}
                          /\ call[t].op = "drop" => deleted[G[1].head]
                          /\ 1 \in Looking(t)' \/ Settled(t)' => Left(t)' \subseteq Live(G[1].link)
      BY DEF Calm
    <3>1. /\ Left(t) \subseteq Live(F[1].head) \ {F[1].head}
          /\ call[t].op = "drop" => deleted[F[1].head]
          /\ 1 \in Looking(t) => Left(t) \subseteq Live(F[1].link)
      BY <1>1 DEF VisitsAhead
    <3>2. QED
      BY <1>1, <1>9, <2>1, <3>1
  <2>3. QED
    BY <1>1, <1>2, <1>4, <2>1, <2>2, Primed DEF VisitsAhead, At, InStage
<1>13. QED
  BY <1>2, <1>5, <1>6, <1>7, <1>11, <1>12 DEF SearchGoesOn, InStage

(* The places in a sequence of n, and those before the last.               *)
LEMMA PlaceBefore ==
    ASSUME NEW n \in Nat, n # 0, n # 1
    PROVE  \E m \in Nat \ {0} :
              /\ m = n - 1
              /\ 1 < n /\ n > 1 /\ m \in 1 .. n /\ m < n /\ n \in 1 .. n /\ m + 1 = n
              /\ \A i \in 1 .. n : i < n => i \in 1 .. m
              /\ \A i \in 1 .. m : i \in 1 .. n /\ i < n /\ i + 1 \in 1 .. n
              /\ \A i \in 1 .. m : i = m \/ (i < m /\ i + 1 \in 1 .. m)
              /\ 1 \in 1 .. m
<1>1. n - 1 \in Nat \ {0}
  OBVIOUS
<1>2. QED
  BY <1>1

(* The innermost frame returns v.                                          *)
LEMMA Returned ==
    ASSUME IInv, Remember, Calm, NEW R \in Orders, InOrder(R),
           NEW t \in Threads, walk[t].stage \notin {"none", "done"},
           NEW v \in Pointers, Return(t, v),
           v \in WalkPointers(t) \cup Targets \cup {Null},
           Len(walk[t].frames) > 1 \/ At(t, "next") => Live(Inner(t).head) = Live(v),
           v # Null => <<Inner(t).head, v>> \in R,
           At(t, "visit") /\ call[t].op \in {"iter", "drop"} /\ Len(walk[t].frames) = 1
              => Left(t) \subseteq Live(v)
    PROVE  SearchGoesOn(t, R)
<1> DEFINE F == walk[t].frames
           G == walk'[t].frames
<1>1. /\ F # <<>> /\ Len(F) \in Nat \ {0} /\ Nested(t) = 1 .. Len(F)
      /\ Inner(t) = F[Len(F)] /\ Inner(t) \in Frames
      /\ \A i \in 1 .. Len(F) : F[i] \in Frames /\ FrameAgrees(t, i)
      /\ \A i \in 1 .. Len(F) : i < Len(F) => i \in Looking(t)
      /\ call[t].pc \in {"next", "visit", "next_ptr", "release"}
      /\ CleansUp(t) /\ VisitsAhead(t) /\ TypeOK
  BY SearchFacts
<1>2. /\ walk' \in [Threads -> Searches]
      /\ \A u \in Threads \ {t} : walk'[u] = walk[u]
      /\ walk'[t].valid = v
      /\ Len(F) = 1 => G = <<>> /\ walk'[t].stage = "done"
  BY <1>1, ReturnFrames
<1>3. call' = call /\ deleted' = deleted /\ newest' = newest
  BY DEF Calm
<1>4. \A p : Live(p)' = Live(p)
  BY Primed DEF Calm
<1>5. call[t].op \in {"iter", "drop"} =>
         Left(t)' \subseteq Contents(call[t].on)' /\ Left(t)' \subseteq Left(t)
  BY <1>1, LeftKept DEF IInv
<1>6. CASE Len(F) = 1
  <2>1. G = <<>> /\ walk'[t].stage = "done" /\ G \in Seq(Frames) /\ F \in Seq(Frames)
    BY <1>1, <1>2, <1>6 DEF TypeOK, Searches
  <2>2. Nested(t)' = {} /\ Looking(t)' = {} /\ ~Settled(t)'
    BY <2>1 DEF Nested, Looking, Settled, InStage
  <2>3. WalkAgrees(t)'
    BY <1>1, <1>3, <2>1 DEF WalkAgrees, At, InStage
  <2>4. WalkPointers(t)' = {v}
    <3>1. 1 .. Len(G) = {}
      BY <2>1
    <3>2. \A p : p \in SearchPointers(walk'[t]) <=> p = v
      BY <1>2, <2>1, <3>1, SearchKnows
    <3>3. QED
      BY <3>2 DEF WalkPointers
  <2>5. Inner(t) = F[1] /\ 1 \in 1 .. Len(F)
    BY <1>1, <1>6
  <2>6. CleansUp(t)'
    <3>1. At(t, "next") => Live(v) = Live(call[t].ptr)
      BY <1>1, <2>5 DEF CleansUp
    <3>2. QED
      BY <1>1, <1>2, <1>3, <1>4, <2>1, <3>1 DEF CleansUp, At, InStage
  <2>7. SearchAgrees(t)'
    BY <2>2, <2>6 DEF SearchAgrees
  <2>8. VisitsAhead(t)'
    <3> SUFFICES ASSUME call[t].op \in {"iter", "drop"} PROVE VisitsAhead(t)'
      BY <1>3 DEF VisitsAhead
    <3>1. /\ Left(t)' \subseteq Contents(call[t].on)'
          /\ At(t, "visit") => Left(t)' \subseteq Live(v)
      BY <1>1, <1>5, <1>6
    <3>2. QED
      BY <1>1, <1>2, <1>3, <1>4, <2>1, <3>1 DEF VisitsAhead, At, InStage
  <2>9. QED
    BY <1>2, <2>1, <2>2, <2>3, <2>4, <2>7, <2>8 DEF SearchGoesOn, SearchInOrder, InStage
<1>7. CASE Len(F) # 1
  <2>1. PICK n \in Nat : n = Len(F) /\ n # 0 /\ n # 1
    BY <1>1, <1>7
  <2>2. PICK m \in Nat \ {0} :
             /\ m = n - 1
             /\ 1 < n /\ n > 1 /\ m \in 1 .. n /\ m < n /\ n \in 1 .. n /\ m + 1 = n
             /\ \A i \in 1 .. n : i < n => i \in 1 .. m
             /\ \A i \in 1 .. m : i \in 1 .. n /\ i < n /\ i + 1 \in 1 .. n
             /\ \A i \in 1 .. m : i = m \/ (i < m /\ i + 1 \in 1 .. m)
             /\ 1 \in 1 .. m
    BY ONLY <2>1, PlaceBefore
  <2>3. /\ 1 < n /\ n > 1 /\ m \in 1 .. n /\ m < n /\ n \in 1 .. n /\ m + 1 = n
        /\ \A i \in 1 .. n : i < n => i \in 1 .. m
        /\ \A i \in 1 .. m : i \in 1 .. n /\ i < n /\ i + 1 \in 1 .. n
        /\ \A i \in 1 .. m : i = m \/ (i < m /\ i + 1 \in 1 .. m)
        /\ 1 \in 1 .. m
    BY <2>2
  <2>4. PICK g \in Frames : g = [F[m] EXCEPT !.depth = 0]
    <3>1. F[m] \in Frames
      BY <1>1, <2>1, <2>3
    <3>2. QED
      BY <3>1 DEF Frames
  <2>5. /\ walk'[t].stage = (IF v = Null THEN "swing" ELSE "acquire")
        /\ G # <<>> /\ Len(G) = m /\ G[m] = g /\ Inner(t)' = g
        /\ \A i \in 1 .. m : i < m => G[i] = F[i]
    <3>1. Nested(t) = 1 .. n
      BY <1>1, <2>1
    <3>2. /\ walk'[t].stage = (IF v = Null THEN "swing" ELSE "acquire")
          /\ G # <<>> /\ Len(G) = m /\ G[m] = g /\ Inner(t)' = g
          /\ \A i \in Nested(t) : i < m => G[i] = F[i]
      BY <1>1, <2>1, <2>2, <2>4, ReturnFrames
    <3>3. QED
      BY <2>3, <3>1, <3>2
  <2>6. /\ \A i \in 1 .. m : F[i] \in Frames /\ G[i].head = F[i].head /\ G[i].link = F[i].link
              /\ G[i].look = F[i].look /\ G[i].tag = F[i].tag
    <3> SUFFICES ASSUME NEW i \in 1 .. m
                 PROVE  F[i] \in Frames /\ G[i].head = F[i].head /\ G[i].link = F[i].link
                        /\ G[i].look = F[i].look /\ G[i].tag = F[i].tag
      OBVIOUS
    <3>1. F[i] \in Frames /\ F[m] \in Frames
      BY <1>1, <2>1, <2>3
    <3>2. /\ g.head = F[m].head /\ g.link = F[m].link
          /\ g.look = F[m].look /\ g.tag = F[m].tag
      BY <2>4, <3>1 DEF Frames
    <3>3. QED
      BY <2>3, <2>5, <3>1, <3>2
  <2>7. /\ Nested(t)' = 1 .. m /\ Settled(t)'
        /\ \A i \in 1 .. m : i \in Looking(t)' <=> i < m
        /\ Looking(t)' \subseteq 1 .. m
    BY <2>5 DEF Nested, Looking, Settled, InStage
  <2>8. \A i \in 1 .. m : i \in Looking(t) /\ FrameAgrees(t, i)
    BY <1>1, <2>1, <2>3
  <2>9. /\ F[m].look = Inner(t).head
        /\ Live(F[m].link) = Live(v)
    BY <1>1, <2>1, <2>3, <2>8 DEF FrameAgrees
  <2>10. WalkAgrees(t)'
    BY <1>1, <1>2, <1>3, <2>5 DEF WalkAgrees, At, InStage
  <2>11. WalkPointers(t)' \subseteq WalkPointers(t) \cup Targets \cup {Null}
    <3>1. F \in Seq(Frames) /\ G \in Seq(Frames)
      BY <1>1, <1>2 DEF TypeOK, Searches
    <3> SUFFICES ASSUME NEW p \in SearchPointers(walk'[t])
                 PROVE  p \in SearchPointers(walk[t]) \cup Targets \cup {Null}
      BY DEF WalkPointers
    <3>2. \/ p = v
          \/ \E i \in 1 .. m : p = G[i].head \/ p = G[i].link \/ p = G[i].look
      BY <1>2, <2>5, <3>1, SearchKnows
    <3>3. \A i \in 1 .. n :
             {F[i].head, F[i].link, F[i].look} \subseteq SearchPointers(walk[t])
      BY <2>1, <3>1, SearchKnows
    <3>4. QED
      BY <2>3, <2>6, <3>2, <3>3 DEF WalkPointers
  <2>12. SearchInOrder(t, R)'
    <3>1. \A i \in 1 .. m : <<F[i].head, F[i].look>> \in R
      BY <2>8 DEF InOrder, SearchInOrder
    <3>2. v # Null => <<g.head, v>> \in R
      <4> SUFFICES ASSUME v # Null PROVE <<g.head, v>> \in R
        OBVIOUS
      <4>1. <<F[m].head, F[m].look>> \in R /\ <<F[m].look, v>> \in R /\ g.head = F[m].head
        BY <2>3, <2>5, <2>6, <2>9, <3>1
      <4>2. F[m].head \in Entries /\ F[m].look \in Entries /\ v \in Entries
        BY <4>1 DEF Orders
      <4>3. QED
        BY <4>1, <4>2 DEF Orders
    <3>3. QED
      BY <1>2, <2>5, <2>6, <2>7, <3>1, <3>2 DEF SearchInOrder
  <2>13. ASSUME NEW i \in 1 .. m PROVE FrameAgrees(t, i)'
    <3>1. i < m => G[i + 1].head = F[i + 1].head
      BY <2>3, <2>6
    <3>2. FrameAgrees(t, i) /\ i \in Looking(t)
      BY <2>8
    <3>3. i \in 1 .. n /\ i < n
      BY <2>3
    <3>4. /\ i > 1 => deleted[G[i].head]
          /\ G[i].look # Null /\ Live(G[i].link) = Live(G[i].look)
          /\ i < m => G[i + 1].head = G[i].look
          /\ i > 1 => G[i].tag
          /\ G[i].tag => deleted[G[i].head] /\ Live(G[i].head) = Live(G[i].link)
      BY <2>1, <2>6, <3>1, <3>2, <3>3 DEF FrameAgrees
    <3>5. QED
      BY <1>3, <1>4, <2>5, <3>4 DEF FrameAgrees
  <2>14. F[1].head = G[1].head /\ F[1].tag = G[1].tag /\ F[1].link = G[1].link
         /\ 1 \in Looking(t)
    BY <2>3, <2>6, <2>8
  <2>15. CleansUp(t)'
    <3>1. At(t, "next") => /\ deleted[G[1].head] /\ Live(G[1].head) = Live(call[t].ptr)
                           /\ G[1].tag
      BY <1>1, <2>14 DEF CleansUp
    <3>2. QED
      BY <1>1, <1>3, <1>4, <2>5, <3>1 DEF CleansUp, At, InStage
  <2>16. SearchAgrees(t)'
    <3>1. Live(g.link) = Live(v)
      BY <2>3, <2>5, <2>6, <2>9
    <3>2. QED
      BY <1>2, <1>4, <2>5, <2>7, <2>13, <2>15, <3>1 DEF SearchAgrees
  <2>17. VisitsAhead(t)'
    <3> SUFFICES ASSUME call[t].op \in {"iter", "drop"} PROVE VisitsAhead(t)'
      BY <1>3 DEF VisitsAhead
    <3>1. At(t, "visit") => /\ Left(t) \subseteq Live(G[1].head) \ {G[1].head}
                            /\ call[t].op = "drop" => deleted[G[1].head]
                            /\ Left(t) \subseteq Live(G[1].link)
      BY <1>1, <2>14 DEF VisitsAhead
    <3>2. At(t, "visit") => /\ Left(t)' \subseteq Live(G[1].head) \ {G[1].head}
                            /\ call[t].op = "drop" => deleted[G[1].head]
                            /\ Left(t)' \subseteq Live(G[1].link)
      BY <1>5, <3>1
    <3>3. QED
      BY <1>1, <1>3, <1>4, <1>5, <2>5, <3>2 DEF VisitsAhead, At, InStage
  <2>18. QED
    BY <1>2, <2>5, <2>10, <2>11, <2>12, <2>16, <2>17 DEF SearchGoesOn, InStage
<1>8. QED
  BY <1>6, <1>7

(* A search from the deleted entry that was met is nested.                 *)
LEMMA NestedIn ==
    ASSUME IInv, Remember, Calm, NEW R \in Orders, InOrder(R),
           NEW t \in Threads, InStage(t, "look"), deleted[Inner(t).look],
           NEW g \in Frames, g.head = Inner(t).look, g.link = Null, g.look = Null,
           walk' = [walk EXCEPT ![t].frames = Append(@, g), ![t].stage = "load"]
    PROVE  SearchGoesOn(t, R)
<1> DEFINE F == walk[t].frames
           G == walk'[t].frames
<1>1. /\ F # <<>> /\ Len(F) \in Nat \ {0} /\ Nested(t) = 1 .. Len(F)
      /\ Inner(t) = F[Len(F)] /\ Inner(t) \in Frames
      /\ \A i \in 1 .. Len(F) : F[i] \in Frames /\ FrameAgrees(t, i)
      /\ \A i \in 1 .. Len(F) : i < Len(F) => i \in Looking(t)
      /\ Len(F) \in Looking(t)
      /\ call[t].pc \in {"next", "visit", "next_ptr", "release"}
      /\ CleansUp(t) /\ VisitsAhead(t) /\ TypeOK /\ WalkAgrees(t)
  BY SearchFacts DEF InStage
<1>2. /\ walk' \in [Threads -> Searches]
      /\ \A u \in Threads \ {t} : walk'[u] = walk[u]
      /\ walk'[t].stage = "load" /\ walk'[t].valid = walk[t].valid
      /\ G # <<>> /\ Len(G) = Len(F) + 1 /\ G[Len(F) + 1] = g /\ Inner(t)' = g
      /\ \A i \in 1 .. Len(F) : G[i] = F[i]
  <2>1. TypeOK /\ F # <<>> /\ Nested(t) = 1 .. Len(F)
    BY <1>1
  <2>2. walk' = [walk EXCEPT ![t].frames = Append(@, g), ![t].stage = "load"]
    OBVIOUS
  <2>3. /\ walk' \in [Threads -> Searches]
        /\ \A u \in Threads \ {t} : walk'[u] = walk[u]
        /\ walk'[t].stage = "load" /\ walk'[t].valid = walk[t].valid
        /\ walk'[t].frames # <<>>
        /\ Len(walk'[t].frames) = Len(walk[t].frames) + 1
        /\ walk'[t].frames[Len(walk[t].frames) + 1] = g /\ Inner(t)' = g
        /\ \A i \in Nested(t) : walk'[t].frames[i] = walk[t].frames[i]
    BY ONLY <2>1, <2>2, NestFrames, t \in Threads, g \in Frames
  <2>4. QED
    BY <2>1, <2>3
<1>3. call' = call /\ deleted' = deleted /\ newest' = newest
  BY DEF Calm
<1>4. \A p : Live(p)' = Live(p)
  BY Primed DEF Calm
<1>5. PICK n \in Nat \ {0} : n = Len(F)
  BY <1>1
<1>6. PICK m \in Nat : /\ m = n + 1 /\ m > 1
                       /\ \A i \in 1 .. m : i = m \/ i \in 1 .. n
                       /\ \A i \in 1 .. n : i \in 1 .. m /\ i < m /\ i # m
                       /\ \A i \in 1 .. n : i = n \/ (i < n /\ i + 1 \in 1 .. n)
                       /\ 1 \in 1 .. n /\ n \in 1 .. n
                       /\ ~(m < m)
  <2>1. n + 1 \in Nat
    BY ONLY n \in Nat \ {0}
  <2>2. QED
    BY ONLY <2>1, n \in Nat \ {0}
<1>7. Len(G) = m /\ G[m] = g /\ \A i \in 1 .. n : G[i] = F[i]
  BY <1>2, <1>5, <1>6
<1>8. \A i \in 1 .. n : F[i] \in Frames /\ FrameAgrees(t, i) /\ i \in Looking(t)
  BY <1>1, <1>5, <1>6
<1>9. /\ Nested(t)' = 1 .. m /\ Looking(t)' = 1 .. n /\ ~Settled(t)' /\ ~Settled(t)
  <2>1. Nested(t)' = 1 .. m /\ ~Settled(t)' /\ ~Settled(t)
    BY <1>2, <1>7 DEF Nested, Settled, InStage
  <2>2. \A i : i \in Looking(t)' <=> i \in 1 .. m /\ i < m
    BY <1>2, <1>7, <2>1 DEF Looking, InStage
  <2>3. \A i : i \in Looking(t)' <=> i \in 1 .. n
    BY <1>6, <2>2
  <2>4. QED
    BY <2>1, <2>3
<1>10. WalkAgrees(t)'
  BY <1>1, <1>2, <1>3 DEF WalkAgrees, At, InStage
<1>11. g.head = F[n].look /\ Inner(t) = F[n]
  BY <1>1, <1>5
<1>12. WalkPointers(t)' \subseteq WalkPointers(t) \cup Targets \cup {Null}
  <2>1. F \in Seq(Frames) /\ G \in Seq(Frames)
    BY <1>1, <1>2 DEF TypeOK, Searches
  <2> SUFFICES ASSUME NEW p \in SearchPointers(walk'[t])
               PROVE  p \in SearchPointers(walk[t]) \cup Targets \cup {Null}
    BY DEF WalkPointers
  <2>2. \/ p = walk[t].valid
        \/ \E i \in 1 .. m : p = G[i].head \/ p = G[i].link \/ p = G[i].look
    <3>1. \/ p = walk'[t].valid
          \/ \E i \in 1 .. Len(G) : p = G[i].head \/ p = G[i].link \/ p = G[i].look
      <4>1. PICK w : w = walk'[t]
        OBVIOUS
      <4>2. w.frames \in Seq(Frames) /\ p \in SearchPointers(w)
        BY <2>1, <4>1
      <4>3. \/ p = w.valid
            \/ \E i \in 1 .. Len(w.frames) : LET f == w.frames[i]
                                             IN  p = f.head \/ p = f.link \/ p = f.look
        BY ONLY <4>2, SearchKnows
      <4>4. QED
        BY <4>1, <4>3
    <3>2. QED
      BY <1>2, <1>7, <3>1
  <2>3. \A i \in 1 .. n :
           {F[i].head, F[i].link, F[i].look} \subseteq SearchPointers(walk[t])
    BY <1>5, <2>1, SearchKnows
  <2>4. walk[t].valid \in SearchPointers(walk[t])
    BY DEF SearchPointers
  <2>5. \A i \in 1 .. m :
           {G[i].head, G[i].link, G[i].look} \subseteq SearchPointers(walk[t]) \cup {Null}
    <3> SUFFICES ASSUME NEW i \in 1 .. m
                 PROVE  {G[i].head, G[i].link, G[i].look}
                           \subseteq SearchPointers(walk[t]) \cup {Null}
      OBVIOUS
    <3>1. CASE i = m
      BY <1>6, <1>7, <1>11, <2>3, <3>1
    <3>2. CASE i \in 1 .. n
      <4>1. G[i] = F[i]
        BY <1>7, <3>2
      <4>2. {F[i].head, F[i].link, F[i].look} \subseteq SearchPointers(walk[t])
        BY <2>3, <3>2
      <4>3. QED
        BY <4>1, <4>2
    <3>3. QED
      BY <1>6, <3>1, <3>2
  <2>6. QED
    BY <2>2, <2>4, <2>5
<1>13. SearchInOrder(t, R)'
  <2>1. \A i \in 1 .. n : <<F[i].head, F[i].look>> \in R
    BY <1>8 DEF InOrder, SearchInOrder
  <2>2. QED
    BY <1>7, <1>9, <2>1 DEF SearchInOrder
<1>14. ASSUME NEW i \in 1 .. m PROVE FrameAgrees(t, i)'
  <2>1. CASE i = m
    <3>1. deleted[G[i].head]
      BY <1>1, <1>7, <2>1
    <3>2. i \notin Looking(t)'
      BY <1>6, <1>9, <2>1
    <3>3. QED
      BY <1>3, <1>6, <1>7, <1>9, <2>1, <3>1, <3>2 DEF FrameAgrees
  <2>2. CASE i \in 1 .. n
    <3>1. G[i + 1].head = F[i].look
      <4>1. CASE i = n
        BY <1>6, <1>7, <1>11, <4>1
      <4>2. CASE i # n
        <5>1. i < Len(F) /\ i + 1 \in 1 .. n
          BY <1>5, <1>6, <2>2, <4>2
        <5>2. F[i + 1].head = F[i].look
          BY <1>8, <2>2, <5>1 DEF FrameAgrees
        <5>3. QED
          BY <1>7, <5>1, <5>2
      <4>3. QED
        BY <4>1, <4>2
    <3>2. FrameAgrees(t, i) /\ i \in Looking(t) /\ i \in Looking(t)' /\ G[i] = F[i]
      BY <1>7, <1>8, <1>9, <2>2
    <3>3. /\ i > 1 => deleted[G[i].head]
          /\ G[i].look # Null /\ Live(G[i].link) = Live(G[i].look)
          /\ i > 1 => G[i].tag
          /\ G[i].tag => deleted[G[i].head] /\ Live(G[i].head) = Live(G[i].link)
      BY <3>2 DEF FrameAgrees
    <3>4. QED
      BY <1>3, <1>4, <3>1, <3>2, <3>3 DEF FrameAgrees
  <2>3. QED
    BY <1>6, <2>1, <2>2
<1>15. G[1] = F[1] /\ 1 \in Looking(t)
  BY <1>6, <1>7, <1>8
<1>16. CleansUp(t)'
  <2>1. At(t, "next") => /\ deleted[F[1].head] /\ Live(F[1].head) = Live(call[t].ptr)
                         /\ F[1].tag
    BY <1>1, <1>15 DEF CleansUp
  <2>2. QED
    BY <1>1, <1>2, <1>3, <1>4, <1>15, <2>1 DEF CleansUp, At, InStage
<1>17. SearchAgrees(t)'
  BY <1>9, <1>14, <1>16 DEF SearchAgrees
<1>18. VisitsAhead(t)'
  <2> SUFFICES ASSUME call[t].op \in {"iter", "drop"} PROVE VisitsAhead(t)'
    BY <1>3 DEF VisitsAhead
  <2>1. Left(t)' \subseteq Contents(call[t].on)' /\ Left(t)' \subseteq Left(t)
    BY <1>1, LeftKept DEF IInv
  <2>2. At(t, "visit") => /\ Left(t) \subseteq Live(F[1].head) \ {F[1].head}
                          /\ call[t].op = "drop" => deleted[F[1].head]
                          /\ Left(t) \subseteq Live(F[1].link)
    BY <1>1, <1>15 DEF VisitsAhead
  <2>3. At(t, "visit") => /\ Left(t)' \subseteq Live(F[1].head) \ {F[1].head}
                          /\ call[t].op = "drop" => deleted[F[1].head]
                          /\ Left(t)' \subseteq Live(F[1].link)
    BY <2>1, <2>2
  <2>4. QED
    BY <1>1, <1>2, <1>3, <1>4, <1>15, <2>1, <2>3 DEF VisitsAhead, At, InStage
<1>19. QED
  BY <1>2, <1>10, <1>12, <1>13, <1>17, <1>18 DEF SearchGoesOn, InStage

(* An owning pointer to the valid entry has been got.                      *)
LEMMA Acquired ==
    ASSUME IInv, Remember, Calm, NEW R \in Orders, InOrder(R),
           NEW t \in Threads, AcquireValid(t)
    PROVE  SearchGoesOn(t, R)
<1>1. /\ walk \in [Threads -> Searches] /\ walk[t].stage = "acquire"
      /\ walk' = [walk EXCEPT ![t].stage = "swing"]
  BY DEF AcquireValid, InStage, IInv, ControlInv, TypeOK
<1>2. PICK w : w = [walk[t] EXCEPT !.stage = "swing"]
  OBVIOUS
<1>3. w \in Searches /\ w.frames = walk[t].frames /\ w.valid = walk[t].valid /\ w.stage = "swing"
  BY <1>1, <1>2 DEF Searches
<1>4. walk' = [walk EXCEPT ![t] = w]
  BY <1>1, <1>2
<1>5. /\ walk' \in [Threads -> Searches] /\ \A u \in Threads \ {t} : walk'[u] = walk[u]
      /\ walk'[t].frames = walk[t].frames /\ walk'[t].valid = walk[t].valid
      /\ walk'[t].stage = "swing"
  BY <1>1, <1>3, <1>4
<1>6. call' = call /\ deleted' = deleted /\ newest' = newest /\ \A p : Live(p)' = Live(p)
  BY Primed DEF Calm
<1>7. /\ Nested(t)' = Nested(t) /\ Looking(t)' = Looking(t) /\ Settled(t)' /\ Settled(t)
      /\ Inner(t)' = Inner(t)
  BY <1>1, <1>5 DEF Nested, Looking, Settled, InStage, Inner
<1>8. /\ WalkAgrees(t) /\ SearchAgrees(t) /\ VisitsAhead(t) /\ SearchInOrder(t, R)
  BY DEF IInv, ControlInv, SearchInv, CallInv, CallAware, InOrder
<1>9. WalkAgrees(t)'
  BY <1>1, <1>5, <1>6, <1>8 DEF WalkAgrees, At, InStage
<1>10. WalkPointers(t)' = WalkPointers(t)
  BY <1>5 DEF WalkPointers, SearchPointers
<1>11. SearchInOrder(t, R)'
  BY <1>5, <1>7, <1>8 DEF SearchInOrder
<1>12. SearchAgrees(t)'
  <2>1. ASSUME NEW i \in Nested(t) PROVE FrameAgrees(t, i)'
    BY <1>5, <1>6, <1>7, <1>8 DEF SearchAgrees, FrameAgrees
  <2>2. CleansUp(t)'
    BY <1>1, <1>5, <1>6, <1>7, <1>8 DEF SearchAgrees, CleansUp, At, InStage, WalkAgrees
  <2>3. QED
    BY <1>5, <1>6, <1>7, <1>8, <2>1, <2>2 DEF SearchAgrees
<1>13. VisitsAhead(t)'
  <2> SUFFICES ASSUME call[t].op \in {"iter", "drop"} PROVE VisitsAhead(t)'
    BY <1>6 DEF VisitsAhead
  <2>1. Left(t)' \subseteq Contents(call[t].on)' /\ Left(t)' \subseteq Left(t)
    BY <1>8, LeftKept DEF IInv
  <2>2. At(t, "visit") /\ walk[t].frames # <<>> =>
           /\ Left(t)' \subseteq Live(walk[t].frames[1].head) \ {walk[t].frames[1].head}
           /\ call[t].op = "drop" => deleted[walk[t].frames[1].head]
           /\ Left(t)' \subseteq Live(walk[t].frames[1].link)
    BY <1>7, <1>8, <2>1 DEF VisitsAhead
  <2>3. ~At(t, "clean")
    BY <1>1, <1>8 DEF WalkAgrees, At
  <2>4. QED
    BY <1>5, <1>6, <2>1, <2>2, <2>3 DEF VisitsAhead, At, InStage
<1>14. QED
  BY <1>5, <1>9, <1>10, <1>11, <1>12, <1>13 DEF SearchGoesOn

(* What is known of the innermost frame f of a search.                     *)
InnerFits(t, R, f) ==
    /\ f \in Frames
    /\ f.head \in Entries /\ f.link \in Pointers /\ f.look \in Pointers
    /\ {f.head, f.link, f.look, walk[t].valid} \subseteq WalkPointers(t)
    /\ {f.head, f.link, f.look, walk[t].valid} \cap Fresh = {}
    /\ walk[t].valid \in Pointers
    /\ Len(walk[t].frames) > 1 \/ At(t, "next") => deleted[f.head]
    /\ At(t, "visit") /\ call[t].op \in {"iter", "drop"} /\ Len(walk[t].frames) = 1
          => Left(t) \subseteq Live(f.head) \ {f.head}
    /\ InStage(t, "look") \/ Settled(t) =>
          /\ Len(walk[t].frames) > 1 \/ At(t, "next") => f.tag
          /\ f.tag => deleted[f.head] /\ Live(f.head) = Live(f.link)
          /\ At(t, "visit") /\ call[t].op \in {"iter", "drop"} /\ Len(walk[t].frames) = 1
                => Left(t) \subseteq Live(f.link)
    /\ InStage(t, "look") => /\ f.look # Null /\ Live(f.link) = Live(f.look)
                             /\ <<f.head, f.look>> \in R
    /\ Settled(t) => /\ Live(f.link) = Live(walk[t].valid)
                     /\ walk[t].valid # Null => <<f.head, walk[t].valid>> \in R

(* What the invariant says of the innermost frame.                         *)
LEMMA InnerFacts ==
    ASSUME IInv, NEW R \in Orders, InOrder(R),
           NEW t \in Threads, walk[t].stage \notin {"none", "done"},
           NEW f, f = Inner(t)
    PROVE  InnerFits(t, R, f)
<1> DEFINE F == walk[t].frames
<1>1. /\ F # <<>> /\ Len(F) \in Nat \ {0} /\ Nested(t) = 1 .. Len(F)
      /\ Inner(t) = F[Len(F)] /\ Inner(t) \in Frames
      /\ \A i \in 1 .. Len(F) : F[i] \in Frames /\ FrameAgrees(t, i)
      /\ Len(F) \in Looking(t) <=> InStage(t, "look")
      /\ CleansUp(t) /\ VisitsAhead(t) /\ TypeOK
      /\ Settled(t) => Live(Inner(t).link) = Live(walk[t].valid)
      /\ walk[t].valid \in Pointers
  BY SearchFacts
<1>2. PICK n \in Nat \ {0} : n = Len(F)
  BY <1>1
<1>3. /\ f = F[n] /\ FrameAgrees(t, n) /\ (n \in Looking(t) <=> InStage(t, "look"))
      /\ n \in Nested(t) /\ (n = 1 \/ n > 1) /\ (n > 1 => n # 1)
  <2>1. n \in 1 .. n /\ (n = 1 \/ n > 1) /\ (n > 1 => n # 1)
    BY ONLY n \in Nat \ {0}
  <2>2. QED
    BY <1>1, <1>2, <2>1
<1>4. /\ f \in Frames
      /\ f.head \in Entries /\ f.link \in Pointers /\ f.look \in Pointers
  BY <1>1 DEF Frames
<1>5. {f.head, f.link, f.look, walk[t].valid} \subseteq WalkPointers(t)
  <2>1. F \in Seq(Frames) /\ n \in 1 .. Len(F)
    BY <1>1, <1>2 DEF TypeOK, Searches
  <2>2. {F[n].head, F[n].link, F[n].look, walk[t].valid} \subseteq SearchPointers(walk[t])
    BY <2>1, SearchKnows
  <2>3. QED
    BY <1>3, <2>2 DEF WalkPointers
<1>6. {f.head, f.link, f.look, walk[t].valid} \cap Fresh = {}
  BY <1>5, KnownStale DEF IInv, Knows
<1>7. n > 1 \/ At(t, "next") => deleted[f.head]
  BY <1>1, <1>3 DEF FrameAgrees, CleansUp
<1>8. At(t, "visit") /\ call[t].op \in {"iter", "drop"} /\ n = 1 =>
         /\ Left(t) \subseteq Live(f.head) \ {f.head}
         /\ InStage(t, "look") \/ Settled(t) => Left(t) \subseteq Live(f.link)
  BY <1>1, <1>3 DEF VisitsAhead
<1>9. InStage(t, "look") \/ Settled(t) =>
         /\ n > 1 \/ At(t, "next") => f.tag
         /\ f.tag => deleted[f.head] /\ Live(f.head) = Live(f.link)
  BY <1>1, <1>3 DEF FrameAgrees, CleansUp
<1>10. SearchInOrder(t, R)
  BY DEF InOrder
<1>11. InStage(t, "look") => /\ f.look # Null /\ Live(f.link) = Live(f.look)
                             /\ <<f.head, f.look>> \in R
  BY <1>3, <1>10 DEF FrameAgrees, SearchInOrder
<1>12. Settled(t) => /\ Live(f.link) = Live(walk[t].valid)
                     /\ walk[t].valid # Null => <<f.head, walk[t].valid>> \in R
  BY <1>1, <1>10 DEF SearchInOrder
<1>13. QED
  BY <1>1, <1>2, <1>4, <1>5, <1>6, <1>7, <1>8, <1>9, <1>11, <1>12 DEF InnerFits

(* The link of the innermost frame is read.                                *)
LEMMA LinkRead ==
    ASSUME IInv, Remember, Calm, NEW R \in Orders, InOrder(R),
           NEW t \in Threads, walk[t].stage \notin {"none", "done"},
           GoOn(t, Read(Inner(t)))
    PROVE  SearchGoesOn(t, R)
<1>0. PICK e : e = Inner(t)
  OBVIOUS
<1>1. /\ e \in Frames /\ e.head \in Entries
      /\ {e.head, e.link, e.look} \subseteq WalkPointers(t)
      /\ e.head \notin Fresh
      /\ Len(walk[t].frames) > 1 \/ At(t, "next") => deleted[e.head]
      /\ At(t, "visit") /\ call[t].op \in {"iter", "drop"} /\ Len(walk[t].frames) = 1
            => Left(t) \subseteq Live(e.head) \ {e.head}
  <2>1. InnerFits(t, R, e)
    BY <1>0, InnerFacts
  <2>2. QED
    BY <2>1 DEF InnerFits
<1>2. TypeOK /\ OwnerInv /\ OrderInv /\ walk[t].frames # <<>>
  BY SearchFacts DEF IInv
<1>3. PICK h \in Entries : h = e.head
  BY <1>1
<1>4. PICK p : p = next[h]
  OBVIOUS
<1>5. /\ p \in Pointers /\ p \in Targets /\ deleted[h] \in BOOLEAN
      /\ p # Null => <<h, p>> \in R
      /\ deleted[h] => Live(h) = Live(p)
      /\ Live(p) = Live(h) \ {h}
      /\ Live(Null) = {}
  <2>1. p \in Pointers /\ deleted[h] \in BOOLEAN
    BY <1>2, <1>4 DEF TypeOK
  <2>2. p \in Targets
    BY <1>4 DEF Targets
  <2>3. p # Null => <<h, p>> \in R
    BY <1>1, <1>3, <1>4 DEF InOrder
  <2>4. deleted[h] => Live(h) = Live(p)
    BY <1>2, <1>4, LiveUnfold
  <2>5. Live(p) = Live(h) \ {h}
    BY <1>1, <1>2, <1>3, <1>4, LiveTail
  <2>6. QED
    BY <1>2, <2>1, <2>2, <2>3, <2>4, <2>5, LiveEntries
<1>6. PICK f : f = Read(e)
  OBVIOUS
<1>7. f \in Frames /\ f.head = h /\ f.link = p /\ f.look = p /\ f.tag = deleted[h]
  BY <1>1, <1>3, <1>4, <1>5, <1>6 DEF Read, Frames
<1>8. GoOn(t, f)
  BY <1>0, <1>6
<1>9. CASE p = Null
  <2>1. Return(t, Null)
    BY <1>7, <1>8, <1>9 DEF GoOn, Settle
  <2>2. Null \in Pointers
    BY DEF Pointers
  <2>3. Len(walk[t].frames) > 1 \/ At(t, "next") => Live(Inner(t).head) = Live(Null)
    BY <1>0, <1>1, <1>3, <1>5, <1>9
  <2>4. At(t, "visit") /\ call[t].op \in {"iter", "drop"} /\ Len(walk[t].frames) = 1
            => Left(t) \subseteq Live(Null)
    BY <1>1, <1>3, <1>5, <1>9
  <2>5. QED
    BY <2>1, <2>2, <2>3, <2>4, Returned
<1>10. CASE p # Null
  <2>1. Resume(t, f, "look", Null)
    BY <1>7, <1>8, <1>10 DEF GoOn
  <2>2. Null \in Pointers /\ f.head = Inner(t).head
    BY <1>0, <1>3, <1>7 DEF Pointers
  <2>3. f.look # Null /\ Live(f.link) = Live(f.look) /\ <<f.head, f.look>> \in R
    BY <1>5, <1>7, <1>10
  <2>4. /\ f.tag => deleted[f.head] /\ Live(f.head) = Live(f.link)
        /\ Len(walk[t].frames) > 1 \/ At(t, "next") => f.tag
        /\ At(t, "visit") /\ call[t].op \in {"iter", "drop"} /\ Len(walk[t].frames) = 1
              => Left(t) \subseteq Live(f.link)
    BY <1>1, <1>3, <1>5, <1>7
  <2>5. {f.link, f.look, Null} \subseteq WalkPointers(t) \cup Targets \cup {Null}
    BY <1>5, <1>7
  <2>6. QED
    BY <1>7, <2>1, <2>2, <2>3, <2>4, <2>5, Resumed
<1>11. QED
  BY <1>9, <1>10

(* The next valid entry is v.                                              *)
LEMMA SettledOn ==
    ASSUME IInv, Remember, Calm, NEW R \in Orders, InOrder(R),
           NEW t \in Threads, InStage(t, "look"),
           NEW f \in Frames, f.head = Inner(t).head, f.link = Inner(t).link,
           f.tag = Inner(t).tag,
           NEW v \in Pointers, Settle(t, f, v), Live(f.link) = Live(v),
           v # Null => <<f.head, v>> \in R,
           v \in WalkPointers(t) \cup Targets \cup {Null}
    PROVE  SearchGoesOn(t, R)
<1>0. PICK e : e = Inner(t)
  OBVIOUS
<1>1. walk[t].stage \notin {"none", "done"}
  BY DEF InStage
<1>2. /\ e \in Frames
      /\ {e.head, e.link, e.look} \subseteq WalkPointers(t)
      /\ Len(walk[t].frames) > 1 \/ At(t, "next") => e.tag
      /\ e.tag => deleted[e.head] /\ Live(e.head) = Live(e.link)
      /\ At(t, "visit") /\ call[t].op \in {"iter", "drop"} /\ Len(walk[t].frames) = 1
            => Left(t) \subseteq Live(e.link)
  <2>1. InnerFits(t, R, e)
    BY <1>0, <1>1, InnerFacts
  <2>2. QED
    BY <2>1 DEF InnerFits
<1>3. CASE v = f.link
  <2>1. Return(t, v)
    BY <1>3 DEF Settle
  <2>2. QED
    BY <1>0, <1>1, <1>2, <2>1, Returned
<1>4. CASE v # f.link
  <2>1. PICK g : g = [f EXCEPT !.depth = 0, !.look = Null]
    OBVIOUS
  <2>2. PICK stage : stage = IF v = Null THEN "swing" ELSE "acquire"
    OBVIOUS
  <2>3. /\ g \in Frames /\ g.head = e.head /\ g.link = e.link /\ g.tag = e.tag
        /\ g.look = Null
    BY <1>0, <2>1 DEF Frames, Pointers
  <2>4. Resume(t, g, stage, v)
    BY <1>4, <2>1, <2>2 DEF Settle
  <2>5. stage \in {"swing", "acquire"} /\ (stage = "acquire" => v # Null)
        /\ (stage = "swing" => v = Null)
    BY <2>2
  <2>6. Live(g.link) = Live(v) /\ (v # Null => <<g.head, v>> \in R)
    BY <1>0, <2>3
  <2>7. {g.link, g.look, v} \subseteq WalkPointers(t) \cup Targets \cup {Null}
    BY <1>2, <2>3
  <2>8. /\ stage \in {"load", "look"} => v = Null
        /\ stage = "look" =>
              g.look # Null /\ Live(g.link) = Live(g.look) /\ <<g.head, g.look>> \in R
    BY <2>5
  <2>9. /\ g.head = Inner(t).head
        /\ stage = "acquire" => v # Null
        /\ stage = "swing" => v = Null
        /\ stage \in {"acquire", "swing"} =>
              Live(g.link) = Live(v) /\ (v # Null => <<g.head, v>> \in R)
    BY <1>0, <2>3, <2>5, <2>6
  <2>10. stage # "load" =>
            /\ g.tag => deleted[g.head] /\ Live(g.head) = Live(g.link)
            /\ Len(walk[t].frames) > 1 \/ At(t, "next") => g.tag
            /\ At(t, "visit") /\ call[t].op \in {"iter", "drop"} /\ Len(walk[t].frames) = 1
                  => Left(t) \subseteq Live(g.link)
    BY <1>2, <2>3
  <2>11. g \in Frames /\ stage \in {"load", "look", "acquire", "swing"}
    BY <2>3, <2>5
  <2>12. QED
    BY <1>1, <2>4, <2>7, <2>8, <2>9, <2>10, <2>11, Resumed
<1>5. QED
  BY <1>3, <1>4

(* What a step of a search does.                                           *)
Searching(t, R) ==
    /\ Calm
    /\ Keeps({})
    /\ SearchGoesOn(t, R)
    /\ next' \in [Entries -> Pointers]
    /\ \A e \in Entries :
          \/ next'[e] = next[e]
          \/ /\ InStage(t, "swing") /\ e \notin Fresh /\ next'[e] = walk[t].valid
             /\ walk[t].valid # Null => <<e, walk[t].valid>> \in R

(* A step of a search that sets no link.                                   *)
LEMMA LinksLeft ==
    ASSUME TypeOK, UNCHANGED links, NEW t \in Threads, UNCHANGED <<newest, call>>
    PROVE  /\ Calm /\ Keeps({}) /\ next' \in [Entries -> Pointers]
           /\ \A e \in Entries : next'[e] = next[e]
  BY NowQuiet DEF Calm, links, TypeOK

(* LoadHead: the link of the entry a frame starts from is read.            *)
LEMMA LoadHeadKept ==
    ASSUME IInv, Remember, NEW R \in Orders, InOrder(R), NEW t \in Threads,
           UNCHANGED <<newest, call>>, LoadHead(t)
    PROVE  Searching(t, R)
<1>1. walk[t].stage \notin {"none", "done"} /\ GoOn(t, Read(Inner(t))) /\ UNCHANGED links
  BY DEF LoadHead, InStage
<1>2. /\ Calm /\ Keeps({}) /\ next' \in [Entries -> Pointers]
      /\ \A e \in Entries : next'[e] = next[e]
  BY <1>1, LinksLeft DEF IInv, ControlInv
<1>3. SearchGoesOn(t, R)
  BY <1>1, <1>2, LinkRead
<1>4. QED
  BY <1>2, <1>3 DEF Searching

(* SwingFails: another thread has replaced the link.                       *)
LEMMA SwingFailsKept ==
    ASSUME IInv, Remember, NEW R \in Orders, InOrder(R), NEW t \in Threads,
           UNCHANGED <<newest, call>>, SwingFails(t)
    PROVE  Searching(t, R)
<1>1. walk[t].stage \notin {"none", "done"} /\ GoOn(t, Read(Inner(t))) /\ UNCHANGED links
  BY DEF SwingFails, InStage
<1>2. /\ Calm /\ Keeps({}) /\ next' \in [Entries -> Pointers]
      /\ \A e \in Entries : next'[e] = next[e]
  BY <1>1, LinksLeft DEF IInv, ControlInv
<1>3. SearchGoesOn(t, R)
  BY <1>1, <1>2, LinkRead
<1>4. QED
  BY <1>2, <1>3 DEF Searching

(* FindValid: the entry a frame looks at is not deleted, or there is none. *)
LEMMA FindValidKept ==
    ASSUME IInv, Remember, NEW R \in Orders, InOrder(R), NEW t \in Threads,
           UNCHANGED <<newest, call>>, FindValid(t)
    PROVE  Searching(t, R)
<1>1. /\ walk[t].stage \notin {"none", "done"} /\ InStage(t, "look")
      /\ Settle(t, Inner(t), Inner(t).look) /\ UNCHANGED links
  BY DEF FindValid, InStage
<1>2. /\ Calm /\ Keeps({}) /\ next' \in [Entries -> Pointers]
      /\ \A e \in Entries : next'[e] = next[e]
  BY <1>1, LinksLeft DEF IInv, ControlInv
<1>3. PICK f : f = Inner(t)
  OBVIOUS
<1>4. InnerFits(t, R, f)
  BY <1>1, <1>3, InnerFacts
<1>5. /\ f \in Frames /\ f.look \in Pointers /\ Live(f.link) = Live(f.look)
      /\ <<f.head, f.look>> \in R /\ f.look \in WalkPointers(t)
  BY <1>1, <1>4 DEF InnerFits
<1>6. SearchGoesOn(t, R)
  BY <1>1, <1>2, <1>3, <1>5, SettledOn
<1>7. QED
  BY <1>2, <1>6 DEF Searching

(* MeetDeleted: it is deleted, and a search from there is nested in this   *)
(* one, or the loop goes on from there.                                    *)
LEMMA MeetDeletedKept ==
    ASSUME IInv, Remember, NEW R \in Orders, InOrder(R), NEW t \in Threads,
           UNCHANGED <<newest, call>>, MeetDeleted(t)
    PROVE  Searching(t, R)
<1>1. PICK f : f = Inner(t)
  OBVIOUS
<1>2. /\ walk[t].stage \notin {"none", "done"} /\ InStage(t, "look")
      /\ deleted[f.look] /\ UNCHANGED links
  BY <1>1 DEF MeetDeleted, InStage
<1>3. /\ Calm /\ Keeps({}) /\ next' \in [Entries -> Pointers]
      /\ \A e \in Entries : next'[e] = next[e]
  BY <1>2, LinksLeft DEF IInv, ControlInv
<1>4. InnerFits(t, R, f)
  BY <1>1, <1>2, InnerFacts
<1>5. /\ f \in Frames /\ f.head \in Entries /\ f.look \in Entries /\ f.link \in Pointers
      /\ Live(f.link) = Live(f.look) /\ <<f.head, f.look>> \in R
      /\ {f.head, f.link, f.look} \subseteq WalkPointers(t)
      /\ f.look \notin Fresh
      /\ Len(walk[t].frames) > 1 \/ At(t, "next") => f.tag
      /\ f.tag => deleted[f.head] /\ Live(f.head) = Live(f.link)
      /\ At(t, "visit") /\ call[t].op \in {"iter", "drop"} /\ Len(walk[t].frames) = 1
            => Left(t) \subseteq Live(f.link)
  <2>1. f.look \in Pointers /\ f.look # Null
    BY <1>2, <1>4 DEF InnerFits
  <2>2. f.look \in Entries
    BY <2>1 DEF Pointers
  <2>3. QED
    BY <1>2, <1>4, <2>2 DEF InnerFits
<1>6. CASE f.depth = 0
  <2>1. PICK p : p = next[f.look]
    OBVIOUS
  <2>2. /\ p \in Pointers /\ p \in Targets /\ Live(f.look) = Live(p)
        /\ p # Null => <<f.look, p>> \in R
    <3>1. TypeOK
      BY DEF IInv, ControlInv
    <3>2. p \in Pointers /\ p \in Targets
      BY <1>5, <2>1, <3>1 DEF TypeOK, Targets
    <3>3. Live(f.look) = Live(p)
      BY <1>2, <1>5, <2>1, <3>1, LiveUnfold
    <3>4. QED
      BY <1>5, <2>1, <3>2, <3>3 DEF InOrder
  <2>3. p # Null => <<f.head, p>> \in R
    <3> SUFFICES ASSUME p # Null PROVE <<f.head, p>> \in R
      OBVIOUS
    <3>1. p \in Entries
      BY <2>2 DEF Pointers
    <3>2. QED
      BY <1>5, <2>2, <3>1 DEF Orders
  <2>4. PICK g : g = [f EXCEPT !.look = p]
    OBVIOUS
  <2>5. /\ g \in Frames /\ g.head = f.head /\ g.link = f.link /\ g.tag = f.tag
        /\ g.look = p
    BY <1>5, <2>2, <2>4 DEF Frames
  <2>6. GoOn(t, g)
    BY <1>1, <1>6, <2>1, <2>4 DEF MeetDeleted
  <2>7. CASE p = Null
    <3>1. Settle(t, g, Null)
      BY <2>5, <2>6, <2>7 DEF GoOn
    <3>2. Null \in Pointers /\ Live(g.link) = Live(Null)
      BY <1>5, <2>2, <2>5, <2>7
    <3>3. SearchGoesOn(t, R)
      BY <1>1, <1>2, <1>3, <2>5, <3>1, <3>2, SettledOn
    <3>4. QED
      BY <1>3, <3>3 DEF Searching
  <2>8. CASE p # Null
    <3>1. Resume(t, g, "look", Null)
      BY <2>5, <2>6, <2>8 DEF GoOn
    <3>2. Null \in Pointers /\ g.head = Inner(t).head
      BY <1>1, <2>5 DEF Pointers
    <3>3. g.look # Null /\ Live(g.link) = Live(g.look) /\ <<g.head, g.look>> \in R
      BY <1>5, <2>2, <2>3, <2>5, <2>8
    <3>4. /\ g.tag => deleted[g.head] /\ Live(g.head) = Live(g.link)
          /\ Len(walk[t].frames) > 1 \/ At(t, "next") => g.tag
          /\ At(t, "visit") /\ call[t].op \in {"iter", "drop"} /\ Len(walk[t].frames) = 1
                => Left(t) \subseteq Live(g.link)
      BY <1>5, <2>5
    <3>5. {g.link, g.look, Null} \subseteq WalkPointers(t) \cup Targets \cup {Null}
      BY <1>5, <2>2, <2>5
    <3>6. SearchGoesOn(t, R)
      BY <1>2, <1>3, <2>5, <3>1, <3>2, <3>3, <3>4, <3>5, Resumed
    <3>7. QED
      BY <1>3, <3>6 DEF Searching
  <2>9. QED
    BY <2>7, <2>8
<1>7. CASE f.depth # 0
  <2>1. PICK g : g = Frame(f.look, f.depth - 1)
    OBVIOUS
  <2>2. f.depth - 1 \in Nat
    <3>1. f.depth \in Nat
      BY <1>5 DEF Frames
    <3>2. QED
      BY ONLY <1>7, <3>1
  <2>3. g \in Frames /\ g.head = f.look /\ g.link = Null /\ g.look = Null
    BY <1>5, <2>1, <2>2 DEF Frame, Frames, Pointers
  <2>4. walk' = [walk EXCEPT ![t].frames = Append(@, g), ![t].stage = "load"]
    BY <1>1, <1>7, <2>1 DEF MeetDeleted
  <2>5. SearchGoesOn(t, R)
    BY <1>1, <1>2, <1>3, <2>3, <2>4, NestedIn
  <2>6. QED
    BY <1>3, <2>5 DEF Searching
<1>8. QED
  BY <1>6, <1>7

(* AcquireValid: there is an owning pointer to what was found.             *)
LEMMA AcquireValidKept ==
    ASSUME IInv, Remember, NEW R \in Orders, InOrder(R), NEW t \in Threads,
           UNCHANGED <<newest, call>>, AcquireValid(t)
    PROVE  Searching(t, R)
<1>1. UNCHANGED links
  BY DEF AcquireValid
<1>2. /\ Calm /\ Keeps({}) /\ next' \in [Entries -> Pointers]
      /\ \A e \in Entries : next'[e] = next[e]
  BY <1>1, LinksLeft DEF IInv, ControlInv
<1>3. SearchGoesOn(t, R)
  BY <1>2, Acquired
<1>4. QED
  BY <1>2, <1>3 DEF Searching

(* AcquireFails: there is none, and the search goes on from there.         *)
LEMMA AcquireFailsKept ==
    ASSUME IInv, Remember, NEW R \in Orders, InOrder(R), NEW t \in Threads,
           UNCHANGED <<newest, call>>, AcquireFails(t)
    PROVE  Searching(t, R)
<1>1. PICK f : f = Inner(t)
  OBVIOUS
<1>2. walk[t].stage \notin {"none", "done"} /\ Resume(t, f, "load", Null) /\ UNCHANGED links
  BY <1>1 DEF AcquireFails, InStage
<1>3. /\ Calm /\ Keeps({}) /\ next' \in [Entries -> Pointers]
      /\ \A e \in Entries : next'[e] = next[e]
  BY <1>2, LinksLeft DEF IInv, ControlInv
<1>4. InnerFits(t, R, f)
  BY <1>1, <1>2, InnerFacts
<1>5. f \in Frames /\ {f.link, f.look, Null} \subseteq WalkPointers(t) \cup Targets \cup {Null}
      /\ Null \in Pointers
  BY <1>4 DEF InnerFits, Pointers
<1>6. SearchGoesOn(t, R)
  BY <1>1, <1>2, <1>3, <1>5, Resumed
<1>7. QED
  BY <1>3, <1>6 DEF Searching

(* SwingLink: the link a frame has read is replaced by what was found.     *)
LEMMA SwingLinkKept ==
    ASSUME IInv, Remember, NEW R \in Orders, InOrder(R), NEW t \in Threads,
           UNCHANGED <<newest, call>>, SwingLink(t)
    PROVE  Searching(t, R)
<1>1. PICK f : f = Inner(t)
  OBVIOUS
<1>2. PICK v : v = walk[t].valid
  OBVIOUS
<1>3. /\ walk[t].stage \notin {"none", "done"} /\ InStage(t, "swing") /\ Settled(t)
      /\ next[f.head] = f.link /\ next' = [next EXCEPT ![f.head] = v]
      /\ Return(t, v) /\ UNCHANGED deleted
  BY <1>1, <1>2 DEF SwingLink, InStage, Settled, Intact
<1>4. InnerFits(t, R, f)
  BY <1>1, <1>3, InnerFacts
<1>5. /\ f \in Frames /\ f.head \in Entries
      /\ f.head \notin Fresh /\ v \notin Fresh /\ v \in Pointers /\ v \in WalkPointers(t)
      /\ Live(f.link) = Live(v) /\ (v # Null => <<f.head, v>> \in R)
      /\ Len(walk[t].frames) > 1 \/ At(t, "next") => f.tag
      /\ f.tag => deleted[f.head] /\ Live(f.head) = Live(f.link)
      /\ At(t, "visit") /\ call[t].op \in {"iter", "drop"} /\ Len(walk[t].frames) = 1
            => Left(t) \subseteq Live(f.link)
  BY <1>2, <1>3, <1>4 DEF InnerFits
<1>6. TypeOK /\ OwnerInv /\ OrderInv
  BY DEF IInv, ControlInv
<1>7. (\A p : Now(p) = Live(p)) /\ Keeps({})
  <2>1. PICK h \in Entries : h = f.head
    BY <1>5
  <2>2. Live(next[h]) = Live(v) /\ next' = [next EXCEPT ![h] = v] /\ (v # Null => <<h, v>> \in R)
    BY <1>3, <1>5, <2>1
  <2>3. QED
    BY <1>3, <1>5, <1>6, <2>2, NowSwing
<1>8. Calm
  BY <1>3, <1>7 DEF Calm
<1>9. SearchGoesOn(t, R)
  BY <1>1, <1>3, <1>5, <1>8, Returned
<1>10. next' \in [Entries -> Pointers]
       /\ \A e \in Entries : next'[e] = IF e = f.head THEN v ELSE next[e]
  BY <1>3, <1>5, <1>6 DEF TypeOK
<1>11. \A e \in Entries :
          \/ next'[e] = next[e]
          \/ /\ InStage(t, "swing") /\ e \notin Fresh /\ next'[e] = walk[t].valid
             /\ walk[t].valid # Null => <<e, walk[t].valid>> \in R
  BY <1>2, <1>3, <1>5, <1>10
<1>12. QED
  BY <1>7, <1>8, <1>9, <1>10, <1>11 DEF Searching

(* A step of a search keeps the invariant.                                 *)
LEMMA WalkKept ==
    ASSUME IInv, Remember, NEW t \in Threads, Walk(t)
    PROVE  IInv'
<1>1. /\ TypeOK /\ OwnerInv /\ ControlInv
      /\ UNCHANGED <<newest, call>>
  BY DEF IInv, ControlInv, Walk
<1>2. PICK R \in Orders : InOrder(R)
  BY DEF IInv, OrderInv
<1>3. Searching(t, R)
  BY <1>1, <1>2, LoadHeadKept, SwingFailsKept, FindValidKept, MeetDeletedKept,
     AcquireValidKept, AcquireFailsKept, SwingLinkKept DEF Walk
<1>4. /\ Calm /\ Keeps({})
      /\ walk' \in [Threads -> Searches]
      /\ \A u \in Threads \ {t} : walk'[u] = walk[u]
      /\ WalkAgrees(t)'
      /\ WalkPointers(t)' \subseteq WalkPointers(t) \cup Targets \cup {Null}
      /\ SearchInOrder(t, R)' /\ SearchAgrees(t)' /\ VisitsAhead(t)'
      /\ InStage(t, "swing")' => walk'[t].valid = Null \/ AcquireValid(t)
      /\ next' \in [Entries -> Pointers]
      /\ \A e \in Entries :
            \/ next'[e] = next[e]
            \/ /\ InStage(t, "swing") /\ e \notin Fresh /\ next'[e] = walk[t].valid
               /\ walk[t].valid # Null => <<e, walk[t].valid>> \in R
  BY <1>3 DEF Searching, SearchGoesOn
<1>5. call' = call /\ deleted' = deleted /\ newest' = newest
  BY <1>4 DEF Calm
<1>6. call[t].pc \in {"next", "visit", "next_ptr", "release"}
  <2>1. walk[t].stage \notin {"none", "done"}
    BY DEF Walk, LoadHead, FindValid, MeetDeleted, SwingLink, SwingFails, AcquireValid,
       AcquireFails, InStage
  <2>2. QED
    BY <2>1, SearchFacts
<1>7. walk[t].valid \in Knows(t)
  BY FramesKnown, <1>1
<1>8. /\ released \subseteq released' /\ released' \subseteq Entries
      /\ \A v \in released' : v \in released \/ (~Owned(v) /\ v \in Knows(t))
      /\ AcquireValid(t) => walk[t].valid \notin released' \/ InStage(t, "load")'
  <2>1. /\ \/ UNCHANGED released /\ ~AcquireValid(t)
           \/ GetShared(walk[t].valid)
           \/ GetNone(walk[t].valid) /\ AcquireFails(t)
    BY DEF Walk, LoadHead, FindValid, MeetDeleted, SwingLink, SwingFails,
       AcquireValid, InStage
  <2>2. released \subseteq Entries /\ walk[t].valid \in Pointers
    BY <1>1, FramesKnown DEF TypeOK
  <2>3. CASE UNCHANGED released /\ ~AcquireValid(t)
    BY <2>2, <2>3
  <2>4. CASE GetShared(walk[t].valid)
    BY <2>2, <2>4 DEF GetShared
  <2>5. CASE GetNone(walk[t].valid) /\ AcquireFails(t)
    <3>1. released' = released \cup {walk[t].valid} /\ ~Owned(walk[t].valid)
          /\ walk[t].valid \in Entries
      BY <2>2, <2>5 DEF GetNone, Pointers
    <3>2. ~AcquireValid(t) \/ InStage(t, "load")'
      <4>1. walk[t].frames # <<>>
        BY <1>1, <2>5 DEF AcquireFails, InStage, ControlInv, WalkAgrees
      <4>2. Inner(t) \in Frames /\ Null \in Pointers
        BY <1>1, <4>1, InnerFrame DEF Pointers
      <4>3. walk'[t].stage = "load"
        BY <1>1, <2>5, <4>1, <4>2, ResumeFrames DEF AcquireFails
      <4>4. QED
        BY <4>3 DEF InStage
    <3>3. QED
      BY <1>7, <2>2, <3>1, <3>2
  <2>6. QED
    BY <2>1, <2>3, <2>4, <2>5
<1>9. TypeOK'
  BY <1>1, <1>4, <1>5, <1>8, Remembered DEF TypeOK
<1>10. Alone(t) /\ StayDeleted
  BY <1>4, <1>5 DEF Alone, StayDeleted
<1>11. ControlInv'
  <2>1. CallAgrees(t)'
    BY <1>1, <1>5 DEF ControlInv, CallAgrees
  <2>2. QED
    BY <1>1, <1>4, <1>5, <1>9, <1>10, <2>1, ControlKept
<1>12. Fresh' = Fresh
  BY <1>4, <1>5, Primed DEF Calm, Fresh, Contents
<1>13. Harmless(t, {}, {})
  <2>1. \A d \in Fresh : next'[d] = next[d]
    BY <1>4 DEF Fresh
  <2>2. QED
    BY <1>4, <1>5, <1>8, <1>10, <1>12, <2>1 DEF Harmless
<1>14. Targets' \subseteq Targets \cup WalkPointers(t) \cup {Null}
       /\ \A v \in Targets' : v \in Targets \/ (InStage(t, "swing") /\ v = walk[t].valid)
  <2>1. \A e \in Entries : next'[e] \in Targets \/ (InStage(t, "swing") /\ next'[e] = walk[t].valid)
    BY <1>4 DEF Targets
  <2>2. \A s \in Stacks : newest'[s] \in Targets
    BY <1>5 DEF Targets
  <2>3. walk[t].valid \in WalkPointers(t)
    BY DEF WalkPointers, SearchPointers
  <2>4. QED
    BY <2>1, <2>2, <2>3, Primed
<1>15. ReleasedUnowned'
  <2>1. \A v \in Targets' : Owned(v) \/ v \notin released'
    BY <1>14, TargetsOwned DEF Owned
  <2>2. ~At(t, "replace")'
    BY <1>5, <1>6 DEF At
  <2>3. InStage(t, "swing")' => walk'[t].valid \notin released'
    <3>1. Null \notin released'
      BY <1>8, EntriesAssumption
    <3>2. AcquireValid(t) => walk'[t].valid = walk[t].valid
      BY <1>1 DEF AcquireValid, TypeOK, Searches
    <3>3. InStage(t, "swing")' => ~InStage(t, "load")'
      BY DEF InStage
    <3>4. QED
      BY <1>4, <1>8, <3>1, <3>2, <3>3
  <2>4. QED
    BY <1>8, <1>9, <1>10, <1>12, <2>1, <2>2, <2>3, ReleasedKept
<1>16. OwnerInv'
  <2>1. Knows(t)' \subseteq Knows(t) \cup Targets \cup {Null}
    BY <1>4, <1>5 DEF Knows
  <2>2. Targets' \subseteq Targets \cup Knows(t) \cup {Null}
    BY <1>14 DEF Knows
  <2>3. call'[t].entry # Null =>
           /\ call'[t].entry \in Fresh \ {}
           /\ \A u \in Threads \ {t} : call[u].entry # call'[t].entry
    BY <1>1, <1>5 DEF OwnerInv, HandsFresh
  <2>4. call'[t].op = "release" =>
           /\ deleted'[call'[t].ptr]
           /\ call'[t].ptr \notin Targets'
           /\ call'[t].ptr \notin WalkPointers(t)'
           /\ \A u \in Threads \ {t} : call'[t].ptr \notin Knows(u)
    <3> SUFFICES ASSUME call[t].op = "release"
                 PROVE  /\ deleted[call[t].ptr]
                        /\ call[t].ptr \notin Targets'
                        /\ call[t].ptr \notin WalkPointers(t)'
                        /\ \A u \in Threads \ {t} : call[t].ptr \notin Knows(u)
      BY <1>5
    <3>1. call[t].ptr # Null
      BY <1>1 DEF ControlInv, CallAgrees
    <3>2. /\ deleted[call[t].ptr]
          /\ call[t].ptr \notin Targets
          /\ call[t].ptr \notin WalkPointers(t)
          /\ \A u \in Threads \ {t} : call[t].ptr \notin Knows(u)
      BY <1>1 DEF OwnerInv, ReclaimedUnknown
    <3>3. QED
      BY <1>4, <1>14, <3>1, <3>2
  <2>5. QED
    BY <1>11, <1>13, <1>15, <2>1, <2>2, <2>3, <2>4, OwnerKept
<1>17. OrderInv'
  BY <1>2, <1>4, <1>10, <1>12, OrderKept
<1>18. CallAware(t)'
  <2>1. SawNewest(t)' /\ LinksOn(t)'
    BY <1>5, <1>6 DEF SawNewest, LinksOn, At
  <2>2. QED
    BY <1>4, <2>1 DEF CallAware
<1>19. QED
  BY <1>4, <1>11, <1>13, <1>16, <1>17, <1>18, AllKept

(***************************************************************************)
(* Part 7: the other steps.  A thread that takes one has no search, or one *)
(* that is done.                                                           *)
(***************************************************************************)
LEMMA Resting ==
    ASSUME ControlInv, NEW t \in Threads,
           call[t].pc \notin SearchPlaces \/ walk[t].stage \in {"none", "done"}
    PROVE  /\ call[t].pc \notin SearchPlaces => walk[t] = NoWalk
           /\ call[t].pc \in SearchPlaces => walk[t] = Found(walk[t].valid)
           /\ Rests(t)
           /\ WalkPointers(t) = {walk[t].valid}
<1>1. walk[t] \in Searches /\ WalkAgrees(t)
  BY DEF ControlInv, TypeOK
<1>2. /\ call[t].pc \notin SearchPlaces => walk[t].stage = "none" /\ walk[t].valid = Null
      /\ call[t].pc \in SearchPlaces => walk[t].stage = "done"
      /\ walk[t].frames = <<>>
  BY <1>1 DEF WalkAgrees, SearchPlaces
<1>3. walk[t] = [frames |-> walk[t].frames, stage |-> walk[t].stage, valid |-> walk[t].valid]
  BY <1>1 DEF Searches
<1>4. /\ call[t].pc \notin SearchPlaces => walk[t] = NoWalk
      /\ call[t].pc \in SearchPlaces => walk[t] = Found(walk[t].valid)
  <2>0. PICK w \in Searches : w = Found(walk[t].valid)
    <3>1. <<>> \in Seq(Frames) /\ walk[t].valid \in Pointers
      BY <1>1 DEF Searches
    <3>2. Found(walk[t].valid) \in Searches
      BY <3>1 DEF NoWalk, Found, Searches, Pointers
    <3>3. QED
      BY <3>2
  <2>1. Found(walk[t].valid) = [frames |-> <<>>, stage |-> "done", valid |-> walk[t].valid]
    <3>1. w = [frames |-> w.frames, stage |-> w.stage, valid |-> w.valid]
      BY DEF Searches
    <3>2. w.frames = <<>> /\ w.stage = "done" /\ w.valid = walk[t].valid
      BY <2>0, SearchValues
    <3>3. QED
      BY <2>0, <3>1, <3>2
  <2>2. call[t].pc \notin SearchPlaces => walk[t] = NoWalk
    BY <1>2, <1>3 DEF NoWalk
  <2>3. call[t].pc \in SearchPlaces => walk[t] = Found(walk[t].valid)
    BY <1>2, <1>3, <2>1
  <2>4. QED
    BY <2>2, <2>3
<1>5. Rests(t)
  BY <1>2 DEF Rests
<1>6. WalkPointers(t) = {walk[t].valid}
  <2>1. walk[t].frames \in Seq(Frames) /\ 1 .. Len(walk[t].frames) = {}
    BY <1>1, <1>2 DEF Searches
  <2>2. \A p : p \in SearchPointers(walk[t]) <=> p = walk[t].valid
    BY <2>1, SearchKnows
  <2>3. QED
    BY <2>2 DEF WalkPointers
<1>7. QED
  BY <1>4, <1>5, <1>6

(* What a step of t makes of its call and of its search fits together.     *)
Moves(t, op, pc, s, p, e, w) ==
    /\ Becomes(t, op, pc, s, p, e)
    /\ Finds(t, w)
    /\ pc \in Places(op)
    /\ op \in OnStack <=> s # Null
    /\ op \in {"push", "push_back"} <=> e # Null
    /\ op \in {"push_back", "release"} => p # Null
    /\ pc \in {"next", "replace", "get", "judge"} => p # Null
    /\ pc \in {"next", "replace"} => deleted'[p]
    /\ \/ w = NoWalk /\ pc \notin SearchPlaces
       \/ w = Found(w.valid) /\ pc \in SearchPlaces
       \/ /\ \E h \in Entries : w = StartWalk(h)
          /\ pc \in SearchPlaces \ {"replace", "join", "insert"}

(* The stack a call is for can be used.                                    *)
Admitted(t, op, s) ==
    \/ s = Null
    \/ s = call[t].on /\ (op = "drop" => call[t].op = "drop")
    \/ op # "drop" /\ ~Dropping(s)
    \/ Using(s) = {}

(* The control of a call that moves on, and that of all others.            *)
LEMMA Moved ==
    ASSUME ControlInv, Remember, NEW t \in Threads,
           NEW op, NEW pc, NEW s, NEW p, NEW e, NEW w, Moves(t, op, pc, s, p, e, w),
           Admitted(t, op, s), StayDeleted,
           next' \in [Entries -> Pointers], deleted' \in [Entries -> BOOLEAN],
           newest' \in [Stacks -> Pointers], released' \subseteq Entries
    PROVE  /\ ControlInv' /\ TypeOK' /\ Alone(t)
           /\ \A R : SearchInOrder(t, R)'
           /\ CleansUp(t)' => SearchAgrees(t)'
           /\ ~InStage(t, "swing")'
           /\ WalkPointers(t)' = SearchPointers(w) /\ Knows(t)' = {p} \cup SearchPointers(w)
<1>1. /\ Becomes(t, op, pc, s, p, e)
      /\ Finds(t, w)
      /\ \/ w = NoWalk /\ pc \notin SearchPlaces
         \/ w = Found(w.valid) /\ pc \in SearchPlaces
         \/ /\ \E h \in Entries : w = StartWalk(h)
            /\ pc \in SearchPlaces \ {"replace", "join", "insert"}
  BY DEF Moves
<1>2. /\ call' \in [Threads -> Calls] /\ walk' \in [Threads -> Searches] /\ walk'[t] = w
      /\ call'[t].op = op /\ call'[t].pc = pc /\ call'[t].on = s /\ call'[t].ptr = p
      /\ call'[t].entry = e
      /\ \A u \in Threads \ {t} : call'[u] = call[u] /\ walk'[u] = walk[u]
  BY <1>1 DEF Becomes, Finds
<1>3. TypeOK' /\ Alone(t)
  BY <1>2, Remembered DEF TypeOK, Alone
<1>4. CallAgrees(t)'
  BY <1>2 DEF CallAgrees, Moves
<1>5. Rests(t)' \/ \E h \in Entries : Starts(t, h)'
  BY <1>1, SearchValues
<1>6. WalkAgrees(t)'
  <2>1. CASE w = NoWalk /\ pc \notin SearchPlaces
    <3>1. Rests(t)' /\ walk'[t].stage = "none" /\ walk'[t].valid = Null
          /\ call'[t].pc \notin SearchPlaces
      BY <1>1, <1>2, <2>1, SearchValues
    <3>2. QED
      BY <3>1, WalkFits
  <2>2. CASE w = Found(w.valid) /\ pc \in SearchPlaces
    <3>1. Rests(t)' /\ walk'[t].stage = "done" /\ call'[t].pc \in SearchPlaces
      BY <1>1, <1>2, <2>2, SearchValues
    <3>2. QED
      BY <3>1, WalkFits
  <2>3. CASE /\ \E h \in Entries : w = StartWalk(h)
             /\ pc \in SearchPlaces \ {"replace", "join", "insert"}
    <3>1. (\E h \in Entries : Starts(t, h)')
          /\ call'[t].pc \in SearchPlaces \ {"replace", "join", "insert"}
      BY <1>1, <1>2, <2>3, SearchValues
    <3>2. QED
      BY <3>1, WalkFits
  <2>4. QED
    BY <1>1, <2>1, <2>2, <2>3
<1>7. ControlInv'
  <2>1. \/ call'[t].on = Null
        \/ /\ call'[t].on = call[t].on
           /\ call'[t].op = "drop" => call[t].op = "drop"
        \/ /\ call'[t].op # "drop"
           /\ ~Dropping(call'[t].on)
        \/ Using(call'[t].on) = {}
    BY <1>2 DEF Admitted
  <2>2. QED
    BY <1>3, <1>4, <1>6, <2>1, ControlKept
<1>8. /\ ~Settled(t)' /\ (\A i \in Nested(t) : FrameAgrees(t, i))'
      /\ \A R : SearchInOrder(t, R)'
  BY <1>3, <1>5, NothingFound
<1>9. CleansUp(t)' => SearchAgrees(t)'
  BY <1>8 DEF SearchAgrees
<1>10. ~InStage(t, "swing")'
  BY <1>8 DEF Settled
<1>11. WalkPointers(t)' = SearchPointers(w) /\ Knows(t)' = {p} \cup SearchPointers(w)
  BY <1>2 DEF WalkPointers, Knows
<1>12. QED
  BY <1>3, <1>7, <1>8, <1>9, <1>10, <1>11

(* The pointers of such a search.                                          *)
LEMMA SearchHas ==
    /\ SearchPointers(NoWalk) = {Null}
    /\ \A v \in Pointers : SearchPointers(Found(v)) = {v}
    /\ \A h \in Entries : SearchPointers(StartWalk(h)) = {h, Null}
<1>1. <<>> \in Seq(Frames) /\ 1 .. Len(<<>>) = {}
  OBVIOUS
<1>2. SearchPointers(NoWalk) = {Null}
  <2>1. NoWalk.frames = <<>> /\ NoWalk.valid = Null
    BY DEF NoWalk
  <2>2. \A p : p \in SearchPointers(NoWalk) <=> p = Null
    BY <1>1, <2>1, SearchKnows
  <2>3. QED
    BY <2>2
<1>3. ASSUME NEW v \in Pointers PROVE SearchPointers(Found(v)) = {v}
  <2>1. PICK w : w = Found(v)
    OBVIOUS
  <2>2. w.frames = <<>> /\ w.valid = v
    BY <2>1 DEF Found, NoWalk
  <2>3. \A p : p \in SearchPointers(w) <=> p = v
    BY <1>1, <2>2, SearchKnows
  <2>4. QED
    BY <2>1, <2>3
<1>4. ASSUME NEW h \in Entries PROVE SearchPointers(StartWalk(h)) = {h, Null}
  <2>1. PICK w : w = StartWalk(h)
    OBVIOUS
  <2>2. PICK f \in Frames : f = Frame(h, Depth)
    BY DepthAssumption DEF Frame, Frames, Pointers
  <2>3. w.frames = <<f>> /\ w.valid = Null /\ f.head = h /\ f.link = Null /\ f.look = Null
    BY <2>1, <2>2 DEF StartWalk, Frame
  <2>4. w.frames \in Seq(Frames) /\ 1 .. Len(w.frames) = {1} /\ w.frames[1] = f
    BY <2>3
  <2>5. \A p : p \in SearchPointers(w) <=> p = h \/ p = Null
    <3> SUFFICES ASSUME NEW p PROVE p \in SearchPointers(w) <=> p = h \/ p = Null
      OBVIOUS
    <3>1. p \in SearchPointers(w) <=>
             \/ p = w.valid
             \/ \E i \in 1 .. Len(w.frames) : LET g == w.frames[i]
                                              IN  p = g.head \/ p = g.link \/ p = g.look
      BY ONLY <2>4, SearchKnows
    <3>2. QED
      BY <2>3, <2>4, <3>1
  <2>6. QED
    BY <2>1, <2>5
<1>5. QED
  BY <1>2, <1>3, <1>4

(* What the step does to owners: it releases at most one entry it knows,   *)
(* and makes something point to, or is about to, only what is not released. *)
Releases(t) ==
    \/ released' = released
    \/ \E v \in Knows(t) : GetNone(v)

(* An entry in its hands is nobody else's, and neither is one it reclaims. *)
HandsOwn(t, e, Y) ==
    e # Null => /\ e \in Fresh \ Y
                /\ \A u \in Threads \ {t} : call[u].entry # e

Reclaims(t, op, p, w) ==
    op = "release" => /\ deleted'[p]
                      /\ p \notin Targets'
                      /\ p \notin SearchPointers(w)
                      /\ \A u \in Threads \ {t} : p \notin Knows(u)

(* A step keeps the invariant.                                             *)
LEMMA StepKept ==
    ASSUME IInv, Remember, NEW t \in Threads,
           NEW op, NEW pc, NEW s, NEW p, NEW e, NEW w, Moves(t, op, pc, s, p, e, w),
           Admitted(t, op, s),
           next' \in [Entries -> Pointers], deleted' \in [Entries -> BOOLEAN],
           newest' \in [Stacks -> Pointers], Releases(t),
           NEW X, NEW Y, Keeps(X), X \subseteq Entries, X \cap Targets = {},
           \A u \in Threads \ {t} : X \cap Knows(u) = {},
           Y \subseteq {call[t].entry}, Fresh' = Fresh \ Y,
           \A d \in Fresh : d # call[t].entry => next'[d] = next[d],
           \A u \in Threads \ {t} :
              call[u].op = "drop" => newest'[call[u].on] = newest[call[u].on],
           \A v \in Targets' : Owned(v) \/ v \notin released',
           pc = "replace" => w.valid \notin released',
           Targets' \subseteq Targets \cup Knows(t) \cup {Null} \cup Y,
           NEW Z, Z \cap Fresh = {}, \A u \in Threads \ {t} : call[u].ptr \notin Z,
           {p} \cup SearchPointers(w) \subseteq Knows(t) \cup Targets \cup {Null} \cup Z,
           HandsOwn(t, e, Y), Reclaims(t, op, p, w),
           (\A R : SearchInOrder(t, R)') /\ Alone(t) => OrderInv',
           CleansUp(t)',
           ControlInv' /\ OwnerInv' /\ OrderInv' => CallAware(t)'
    PROVE  IInv'
<1>1. TypeOK /\ ControlInv /\ StayDeleted
  BY DEF IInv, ControlInv, Keeps
<1>2. /\ released \subseteq released' /\ released' \subseteq Entries
      /\ \A v \in released' : v \in released \/ (~Owned(v) /\ v \in Knows(t))
  <2>1. Knows(t) \subseteq Entries \cup {Null}
    <3>1. walk[t].frames \in Seq(Frames) /\ walk[t].valid \in Pointers /\ call[t].ptr \in Pointers
      BY <1>1, FramesKnown
    <3>2. ASSUME NEW x \in SearchPointers(walk[t]) PROVE x \in Pointers
      <4>1. \/ x = walk[t].valid
            \/ \E i \in 1 .. Len(walk[t].frames) :
                  LET f == walk[t].frames[i]
                  IN  x = f.head \/ x = f.link \/ x = f.look
        BY <3>1, <3>2, SearchKnows
      <4>2. \A i \in 1 .. Len(walk[t].frames) :
               LET f == walk[t].frames[i]
               IN  f.head \in Entries /\ f.link \in Pointers /\ f.look \in Pointers
        BY <1>1, FramesKnown DEF Nested
      <4>3. QED
        BY <3>1, <4>1, <4>2 DEF Pointers
    <3>3. QED
      BY <3>1, <3>2 DEF Knows, WalkPointers, Pointers
  <2>2. released \subseteq Entries
    BY <1>1 DEF TypeOK
  <2>3. QED
    BY <2>1, <2>2 DEF Releases, GetNone
<1>3. /\ ControlInv' /\ TypeOK' /\ Alone(t)
      /\ \A R : SearchInOrder(t, R)'
      /\ CleansUp(t)' => SearchAgrees(t)'
      /\ ~InStage(t, "swing")'
      /\ WalkPointers(t)' = SearchPointers(w) /\ Knows(t)' = {p} \cup SearchPointers(w)
  BY <1>1, <1>2, Moved
<1>4. /\ call'[t].op = op /\ call'[t].pc = pc /\ call'[t].ptr = p /\ call'[t].entry = e
      /\ walk'[t] = w
  BY DEF Moves, Becomes, Finds
<1>5. Harmless(t, X, Y)
  BY <1>2, <1>3 DEF Harmless
<1>6. ReleasedUnowned'
  <2>1. Fresh' \subseteq Fresh
    OBVIOUS
  <2>2. InStage(t, "swing")' \/ At(t, "replace")' =>
           Owned(walk'[t].valid) \/ walk'[t].valid \notin released'
    BY <1>3, <1>4 DEF At
  <2>3. QED
    BY <1>2, <1>3, <2>1, <2>2, ReleasedKept
<1>7. OwnerInv'
  <2>1. Knows(t)' \subseteq Knows(t) \cup Targets \cup {Null} \cup Z
    BY <1>3
  <2>2. call'[t].entry # Null =>
              /\ call'[t].entry \in Fresh \ Y
              /\ \A u \in Threads \ {t} : call[u].entry # call'[t].entry
    BY <1>4 DEF HandsOwn
  <2>3. call'[t].op = "release" =>
              /\ deleted'[call'[t].ptr]
              /\ call'[t].ptr \notin Targets'
              /\ call'[t].ptr \notin WalkPointers(t)'
              /\ \A u \in Threads \ {t} : call'[t].ptr \notin Knows(u)
    BY <1>3, <1>4 DEF Reclaims
  <2>4. QED
    BY <1>3, <1>5, <1>6, <2>1, <2>2, <2>3, OwnerKept
<1>8. OrderInv' /\ SearchAgrees(t)' /\ CallAware(t)'
  BY <1>3, <1>7
<1>9. QED
  BY <1>3, <1>5, <1>7, <1>8, AllKept

(* A step that sets no link and deletes nothing.                           *)
LEMMA LinksKept ==
    ASSUME IInv, Remember, NEW t \in Threads,
           NEW op, NEW pc, NEW s, NEW p, NEW e, NEW w, Moves(t, op, pc, s, p, e, w),
           Admitted(t, op, s),
           UNCHANGED links, newest' \in [Stacks -> Pointers], Releases(t),
           Fresh' = Fresh,
           \A u \in Threads \ {t} :
              call[u].op = "drop" => newest'[call[u].on] = newest[call[u].on],
           \A r \in Stacks : newest'[r] \in Targets \cup Knows(t) \cup {Null}
                             /\ (Owned(newest'[r]) \/ newest'[r] \notin released'),
           pc = "replace" => w.valid \notin released',
           NEW Z, Z \cap Fresh = {}, \A u \in Threads \ {t} : call[u].ptr \notin Z,
           {p} \cup SearchPointers(w) \subseteq Knows(t) \cup Targets \cup {Null} \cup Z,
           HandsOwn(t, e, {}), Reclaims(t, op, p, w),
           CleansUp(t)',
           ControlInv' /\ OwnerInv' /\ OrderInv' => CallAware(t)'
    PROVE  IInv'
<1>1. /\ TypeOK /\ next' = next /\ deleted' = deleted
  BY DEF links, IInv, ControlInv
<1>2. next' \in [Entries -> Pointers] /\ deleted' \in [Entries -> BOOLEAN]
  BY <1>1 DEF TypeOK
<1>3. Keeps({})
  BY NowQuiet
<1>4. /\ \A v \in Targets' : Owned(v) \/ v \notin released'
      /\ Targets' \subseteq Targets \cup Knows(t) \cup {Null}
  <2>1. \A v \in Targets' : v \in Targets \/ \E r \in Stacks : v = newest'[r]
    BY <1>1, Primed DEF Targets
  <2>2. QED
    BY <2>1, TargetsOwned
<1>5. ASSUME \A R : SearchInOrder(t, R)', Alone(t) PROVE OrderInv'
  <2>1. PICK R \in Orders : InOrder(R)
    BY DEF IInv, OrderInv
  <2>2. QED
    BY <1>1, <1>5, <2>1, OrderKept
<1>6. QED
  BY <1>1, <1>2, <1>3, <1>4, <1>5, StepKept

(* A step that does not change the stacks either.                          *)
LEMMA QuietKept ==
    ASSUME IInv, Remember, NEW t \in Threads,
           NEW op, NEW pc, NEW s, NEW p, NEW e, NEW w, Moves(t, op, pc, s, p, e, w),
           Admitted(t, op, s),
           UNCHANGED <<links, newest>>, Releases(t),
           pc = "replace" => w.valid \notin released',
           {p} \cup SearchPointers(w) \subseteq Knows(t) \cup Targets \cup {Null},
           HandsOwn(t, e, {}), Reclaims(t, op, p, w),
           CleansUp(t)',
           ControlInv' /\ OwnerInv' /\ OrderInv' => CallAware(t)'
    PROVE  IInv'
<1>1. /\ TypeOK /\ newest' = newest /\ UNCHANGED links /\ \A q : Now(q) = Live(q)
  BY NowQuiet DEF IInv, ControlInv
<1>2. newest' \in [Stacks -> Pointers]
  BY <1>1 DEF TypeOK
<1>3. Fresh' = Fresh
  BY <1>1, Primed DEF Fresh, Contents, links
<1>4. \A r \in Stacks : newest'[r] \in Targets /\ Owned(newest'[r])
  BY <1>1, TargetsOwned DEF Targets
<1>5. QED
  BY <1>1, <1>2, <1>3, <1>4, LinksKept

(* The link of an entry x that nothing points to, and nobody else knows,   *)
(* is set to v.                                                            *)
SetsOwn(t, x, v) ==
    /\ x \in Entries /\ x \notin Targets
    /\ \A u \in Threads \ {t} : x \notin Knows(u)
    /\ (x = call[t].entry /\ x \in Fresh) \/ (x \notin Fresh /\ v = Null)
    /\ v \in Pointers /\ v \in Targets \cup Knows(t) \cup {Null}
    /\ Owned(v) \/ v \notin released'
    /\ next' = [next EXCEPT ![x] = v] /\ UNCHANGED <<deleted, newest>>

(* The link of an entry is set that nobody but the thread knows.           *)
LEMMA OwnLinkKept ==
    ASSUME IInv, Remember, NEW t \in Threads,
           NEW op, NEW pc, NEW s, NEW p, NEW e, NEW w, Moves(t, op, pc, s, p, e, w),
           Admitted(t, op, s),
           NEW x, NEW v, SetsOwn(t, x, v), Releases(t),
           pc = "replace" => w.valid \notin released',
           {p} \cup SearchPointers(w) \subseteq Knows(t) \cup Targets \cup {Null},
           HandsOwn(t, e, {}), Reclaims(t, op, p, w),
           CleansUp(t)',
           ControlInv' /\ OwnerInv' /\ OrderInv' => CallAware(t)'
    PROVE  IInv'
<1>0. /\ x \in Entries /\ x \notin Targets
      /\ \A u \in Threads \ {t} : x \notin Knows(u)
      /\ (x = call[t].entry /\ x \in Fresh) \/ (x \notin Fresh /\ v = Null)
      /\ v \in Pointers /\ v \in Targets \cup Knows(t) \cup {Null}
      /\ Owned(v) \/ v \notin released'
      /\ next' = [next EXCEPT ![x] = v] /\ UNCHANGED <<deleted, newest>>
  BY DEF SetsOwn
<1>1. TypeOK /\ newest' = newest /\ deleted' = deleted
  BY <1>0 DEF IInv, ControlInv
<1>2. /\ next' \in [Entries -> Pointers] /\ deleted' \in [Entries -> BOOLEAN]
      /\ newest' \in [Stacks -> Pointers]
      /\ \A n \in Entries : next'[n] = IF n = x THEN v ELSE next[n]
  BY <1>0, <1>1 DEF TypeOK
<1>3. (\A q : q # x => Now(q) = Live(q)) /\ Keeps({x})
  BY <1>0, <1>1, NowOwn
<1>4. Fresh' = Fresh
  <2>1. \A r \in Stacks : newest[r] # x
    BY <1>0 DEF Targets
  <2>2. QED
    BY <1>1, <1>3, <2>1, Primed DEF Fresh, Contents
<1>5. /\ \A y \in Targets' : Owned(y) \/ y \notin released'
      /\ Targets' \subseteq Targets \cup Knows(t) \cup {Null}
  <2>1. \A y \in Targets' : y \in Targets \/ y = v
    BY <1>1, <1>2, Primed DEF Targets
  <2>2. QED
    BY <1>0, <2>1, TargetsOwned
<1>6. ASSUME \A R : SearchInOrder(t, R)', Alone(t) PROVE OrderInv'
  <2>1. PICK R \in Orders : InOrder(R)
    BY DEF IInv, OrderInv
  <2>2. \A n \in Entries \ Fresh : next'[n] # Null => next'[n] = next[n] \/ <<n, next'[n]>> \in R
    BY <1>0, <1>2
  <2>3. QED
    BY <1>4, <1>6, <2>1, <2>2, OrderKept
<1>7. \A d \in Fresh : d # call[t].entry => next'[d] = next[d]
  BY <1>0, <1>2 DEF Fresh
<1>8. {x} \subseteq Entries /\ {x} \cap Targets = {} /\ \A u \in Threads \ {t} : {x} \cap Knows(u) = {}
  BY <1>0
<1>9. /\ {} \subseteq {call[t].entry} /\ Fresh' = Fresh \ {}
      /\ Targets' \subseteq Targets \cup Knows(t) \cup {Null} \cup {}
      /\ {} \cap Fresh = {} /\ \A u \in Threads \ {t} : call[u].ptr \notin {}
      /\ {p} \cup SearchPointers(w) \subseteq Knows(t) \cup Targets \cup {Null} \cup {}
      /\ \A u \in Threads \ {t} :
            call[u].op = "drop" => newest'[call[u].on] = newest[call[u].on]
  BY <1>1, <1>4, <1>5
<1>10. QED
  BY <1>2, <1>3, <1>5, <1>6, <1>7, <1>8, <1>9, StepKept

(* An entry is deleted.                                                    *)
Deletes(x) ==
    /\ x \in Entries \ Fresh
    /\ deleted' = [deleted EXCEPT ![x] = TRUE]
    /\ UNCHANGED <<next, newest, released>>

(* An entry is deleted.                                                    *)
LEMMA DeleteKept ==
    ASSUME IInv, Remember, NEW t \in Threads,
           NEW op, NEW pc, NEW s, NEW p, NEW e, NEW w, Moves(t, op, pc, s, p, e, w),
           Admitted(t, op, s),
           NEW x, Deletes(x),
           pc = "replace" => w.valid \notin released',
           {p} \cup SearchPointers(w) \subseteq Knows(t) \cup Targets \cup {Null},
           HandsOwn(t, e, {}), Reclaims(t, op, p, w),
           CleansUp(t)',
           ControlInv' /\ OwnerInv' /\ OrderInv' => CallAware(t)'
    PROVE  IInv'
<1>0. /\ x \in Entries /\ x \notin Fresh
      /\ deleted' = [deleted EXCEPT ![x] = TRUE]
      /\ UNCHANGED <<next, newest, released>>
  BY DEF Deletes
<1>1. TypeOK /\ newest' = newest /\ next' = next
  BY <1>0 DEF IInv, ControlInv
<1>2. /\ next' \in [Entries -> Pointers] /\ deleted' \in [Entries -> BOOLEAN]
      /\ newest' \in [Stacks -> Pointers]
      /\ \A n \in Entries : deleted'[n] = (n = x \/ deleted[n])
  BY <1>0, <1>1 DEF TypeOK
<1>3. (\A q : Now(q) = Live(q) \ {x}) /\ Keeps({})
  BY <1>0, <1>1, NowDelete
<1>4. Fresh' = Fresh
  BY <1>0, <1>1, <1>2, <1>3, Primed DEF Fresh, Contents
<1>5. /\ \A y \in Targets' : Owned(y) \/ y \notin released'
      /\ Targets' \subseteq Targets
  BY <1>0, <1>1, TargetsOwned, Primed DEF Targets
<1>6. ASSUME \A R : SearchInOrder(t, R)', Alone(t) PROVE OrderInv'
  <2>1. PICK R \in Orders : InOrder(R)
    BY DEF IInv, OrderInv
  <2>2. QED
    BY <1>1, <1>4, <1>6, <2>1, OrderKept
<1>7. Releases(t)
  BY <1>0 DEF Releases
<1>8. /\ {} \subseteq Entries /\ {} \cap Targets = {}
      /\ \A u \in Threads \ {t} : {} \cap Knows(u) = {}
      /\ \A d \in Fresh : d # call[t].entry => next'[d] = next[d]
  BY <1>1
<1>9. /\ {} \subseteq {call[t].entry} /\ Fresh' = Fresh \ {}
      /\ Targets' \subseteq Targets \cup Knows(t) \cup {Null} \cup {}
      /\ {} \cap Fresh = {} /\ \A u \in Threads \ {t} : call[u].ptr \notin {}
      /\ {p} \cup SearchPointers(w) \subseteq Knows(t) \cup Targets \cup {Null} \cup {}
      /\ \A u \in Threads \ {t} :
            call[u].op = "drop" => newest'[call[u].on] = newest[call[u].on]
  BY <1>1, <1>4, <1>5
<1>10. QED
  BY <1>2, <1>3, <1>5, <1>6, <1>7, <1>8, <1>9, StepKept

(* A call that pushes, pops or peeks knows what was the newest entry.      *)
LEMMA EndsAware ==
    ASSUME Remember, NEW t \in Threads, call'[t].op \in Ends, call'[t].pc # "insert",
           \/ call'[t].pc \in {"next", "replace"}
           \/ /\ call'[t].ptr \in seen'[t]
              /\ call'[t].pc = "attach" =>
                    call'[t].ptr \in released' \/ next'[call'[t].entry] = call'[t].ptr
           \/ /\ ControlInv' /\ OwnerInv' /\ OrderInv'
              /\ call'[t].pc = "clean"
              /\ call'[t].on \in Stacks /\ newest'[call'[t].on] = call'[t].ptr
    PROVE  CallAware(t)'
<1>1. VisitsAhead(t)'
  BY DEF VisitsAhead, Ends
<1>2. CASE call'[t].pc \in {"next", "replace"}
  BY <1>1, <1>2 DEF CallAware, SawNewest, LinksOn, At
<1>3. CASE /\ call'[t].ptr \in seen'[t]
           /\ call'[t].pc = "attach" =>
                 call'[t].ptr \in released' \/ next'[call'[t].entry] = call'[t].ptr
  BY <1>1, <1>3 DEF CallAware, SawNewest, LinksOn, At
<1>4. CASE /\ ControlInv' /\ OwnerInv' /\ OrderInv'
           /\ call'[t].pc = "clean"
           /\ call'[t].on \in Stacks /\ newest'[call'[t].on] = call'[t].ptr
  <2>1. PICK s \in Stacks : s = call'[t].on
    BY <1>4
  <2>2. Clean(newest[s])' => newest'[s] \in seen'[t]
    BY <1>4, <2>1, NewestSeen
  <2>3. (At(t, "clean") /\ Clean(call[t].ptr) => call[t].ptr \in seen[t])'
    BY <1>4, <2>1, <2>2 DEF Clean
  <2>4. QED
    BY <1>1, <1>4, <2>3 DEF CallAware, SawNewest, LinksOn, At
<1>5. QED
  BY <1>2, <1>3, <1>4

(* Other calls, but those that visit entries, know nothing of the kind.    *)
LEMMA OthersAware ==
    ASSUME NEW t \in Threads, call'[t].op \notin {"push", "pop", "iter", "drop"},
           call'[t].pc \notin {"attach", "insert"}
    PROVE  CallAware(t)'
  BY DEF CallAware, VisitsAhead, SawNewest, LinksOn, Ends, At

(* Only two places have to do with what replaces the newest entry.         *)
LEMMA NothingToClean ==
    ASSUME NEW t \in Threads, call'[t].pc \notin {"next", "replace"}
    PROVE  CleansUp(t)'
  BY DEF CleansUp, At

(* What a thread has in its hands is still its own.                        *)
LEMMA HandsHold ==
    ASSUME IInv, NEW t \in Threads
    PROVE  /\ HandsOwn(t, call[t].entry, {}) /\ HandsOwn(t, Null, {})
           /\ Admitted(t, call[t].op, call[t].on) /\ \A op : Admitted(t, op, Null)
           /\ call[t].ptr \in Knows(t) /\ SearchPointers(walk[t]) \subseteq Knows(t)
           /\ walk[t].valid \in Knows(t)
<1>1. HandsOwn(t, call[t].entry, {}) /\ HandsOwn(t, Null, {})
  BY DEF HandsOwn, IInv, OwnerInv, HandsFresh
<1>2. Admitted(t, call[t].op, call[t].on) /\ \A op : Admitted(t, op, Null)
  BY DEF Admitted
<1>3. /\ call[t].ptr \in Knows(t) /\ SearchPointers(walk[t]) \subseteq Knows(t)
      /\ walk[t].valid \in Knows(t)
  BY DEF Knows, WalkPointers, SearchPointers
<1>4. QED
  BY <1>1, <1>2, <1>3

(* An operation returns.                                                   *)
LEMMA DoneMoves ==
    ASSUME IInv, NEW t \in Threads, Done(t)
    PROVE  /\ Moves(t, "none", "idle", Null, Null, Null, NoWalk)
           /\ Admitted(t, "none", Null) /\ HandsOwn(t, Null, {})
           /\ \A Y : HandsOwn(t, Null, Y)
           /\ Reclaims(t, "none", Null, NoWalk)
           /\ SearchPointers(NoWalk) = {Null}
           /\ NoWalk.valid = Null
           /\ {Null} \cup SearchPointers(NoWalk) \subseteq Knows(t) \cup Targets \cup {Null}
           /\ CleansUp(t)' /\ CallAware(t)'
           /\ call'[t].op = "none"
<1>1. Becomes(t, "none", "idle", Null, Null, Null) /\ Finds(t, NoWalk)
  BY DoneBecomes DEF IInv, ControlInv
<1>2. Moves(t, "none", "idle", Null, Null, Null, NoWalk)
  BY <1>1 DEF Moves, Places, OnStack, SearchPlaces
<1>3. call'[t].op = "none" /\ call'[t].pc = "idle"
  BY <1>1 DEF Becomes
<1>4. CleansUp(t)' /\ CallAware(t)'
  BY <1>3, NothingToClean, OthersAware
<1>5. Reclaims(t, "none", Null, NoWalk) /\ \A Y : HandsOwn(t, Null, Y)
  BY DEF Reclaims, HandsOwn
<1>6. QED
  BY <1>2, <1>3, <1>4, <1>5, HandsHold, SearchHas, SearchValues

(* An operation goes to its next place.                                    *)
LEMMA GotoMoves ==
    ASSUME IInv, NEW t \in Threads,
           NEW pc \in {"clean", "replace", "link", "attach", "get", "judge", "insert"},
           Goto(t, pc), UNCHANGED walk, pc \in Places(call[t].op),
           call[t].pc \notin SearchPlaces \/ walk[t].stage \in {"none", "done"},
           pc \in SearchPlaces <=> call[t].pc \in SearchPlaces,
           pc \in {"replace", "get", "judge"} => call[t].ptr # Null,
           pc = "replace" => deleted'[call[t].ptr]
    PROVE  /\ Moves(t, call[t].op, pc, call[t].on, call[t].ptr, call[t].entry, walk[t])
           /\ Admitted(t, call[t].op, call[t].on) /\ HandsOwn(t, call[t].entry, {})
           /\ Reclaims(t, call[t].op, call[t].ptr, walk[t])
           /\ {call[t].ptr} \cup SearchPointers(walk[t]) \subseteq Knows(t) \cup Targets \cup {Null}
           /\ pc # "replace" => CleansUp(t)'
           /\ call'[t].op = call[t].op /\ call'[t].pc = pc /\ call'[t].on = call[t].on
           /\ call'[t].ptr = call[t].ptr /\ call'[t].entry = call[t].entry
<1>1. /\ Becomes(t, call[t].op, pc, call[t].on, call[t].ptr, call[t].entry)
      /\ Finds(t, walk[t]) /\ ControlInv /\ CallAgrees(t)
  BY GotoBecomes, Searched DEF IInv, ControlInv
<1>2. /\ call[t].pc \notin SearchPlaces => walk[t] = NoWalk
      /\ call[t].pc \in SearchPlaces => walk[t] = Found(walk[t].valid)
  BY <1>1, Resting
<1>3. /\ call[t].op \in OnStack <=> call[t].on # Null
      /\ call[t].op \in {"push", "push_back"} <=> call[t].entry # Null
      /\ call[t].op \in {"push_back", "release"} => call[t].ptr # Null
  BY <1>1 DEF CallAgrees
<1>4. Moves(t, call[t].op, pc, call[t].on, call[t].ptr, call[t].entry, walk[t])
  BY <1>1, <1>2, <1>3 DEF Moves
<1>5. call[t].op # "release"
  BY DEF Places
<1>6. /\ call'[t].op = call[t].op /\ call'[t].pc = pc /\ call'[t].on = call[t].on
      /\ call'[t].ptr = call[t].ptr /\ call'[t].entry = call[t].entry
  BY <1>1 DEF Becomes
<1>7. pc # "replace" => CleansUp(t)'
  BY <1>6, NothingToClean
<1>8. Reclaims(t, call[t].op, call[t].ptr, walk[t])
  BY <1>5 DEF Reclaims
<1>9. QED
  BY <1>4, <1>6, <1>7, <1>8, HandsHold

(***************************************************************************)
(* Part 8: one step after the other.  First those that return.             *)
(***************************************************************************)
LEMMA AnswerKept ==
    ASSUME IInv, Remember, NEW t \in Threads, Answer(t) \/ RefusePop(t) \/ EndNext(t)
    PROVE  IInv'
<1>1. Done(t) /\ UNCHANGED <<links, newest, released>>
  BY DEF Answer, RefusePop, EndNext, stacks
<1>2. Releases(t)
  BY <1>1 DEF Releases
<1>3. QED
  BY <1>1, <1>2, DoneMoves, QuietKept

(* An operation returns, and the link of an entry is cleared.              *)
LEMMA ClearKept ==
    ASSUME IInv, Remember, NEW t \in Threads, Done(t), UNCHANGED <<deleted, newest, released>>,
           NEW x \in Entries, x \notin Targets, \A u \in Threads \ {t} : x \notin Knows(u),
           next' = [next EXCEPT ![x] = Null],
           (x = call[t].entry /\ x \in Fresh) \/ x \notin Fresh
    PROVE  IInv'
<1>1. Null \in Pointers /\ (Owned(Null) \/ Null \notin released')
  BY EntriesAssumption DEF Pointers, IInv, ControlInv, TypeOK
<1>2. SetsOwn(t, x, Null)
  BY <1>1 DEF SetsOwn
<1>4. Releases(t)
  BY DEF Releases
<1>5. /\ Moves(t, "none", "idle", Null, Null, Null, NoWalk)
      /\ Admitted(t, "none", Null) /\ HandsOwn(t, Null, {})
      /\ Reclaims(t, "none", Null, NoWalk)
      /\ {Null} \cup SearchPointers(NoWalk) \subseteq Knows(t) \cup Targets \cup {Null}
      /\ CleansUp(t)' /\ CallAware(t)'
  BY DoneMoves
<1>6. /\ "idle" = "replace" => NoWalk.valid \notin released'
      /\ ControlInv' /\ OwnerInv' /\ OrderInv' => CallAware(t)'
  BY <1>5
<1>7. QED
  BY <1>2, <1>4, <1>5, <1>6, OwnLinkKept

(* RefusePush, RefuseInsert and EndRelease clear the link of an entry of   *)
(* the thread's own.                                                       *)
LEMMA RefusePushKept ==
    ASSUME IInv, Remember, NEW t \in Threads, RefusePush(t)
    PROVE  IInv'
<1>1. /\ Done(t) /\ UNCHANGED <<deleted, newest, released>>
      /\ next' = [next EXCEPT ![call[t].entry] = Null]
      /\ call[t].op = "push"
  BY DEF RefusePush, stacks, Cleaned
<1>2. PICK x \in Entries : x = call[t].entry
  BY <1>1, Hands DEF IInv
<1>3. x \in Fresh /\ x \notin Targets /\ \A u \in Threads \ {t} : x \notin Knows(u)
  BY <1>2, EntriesAssumption DEF IInv, OwnerInv, HandsFresh, FreshUnknown
<1>4. QED
  BY <1>1, <1>2, <1>3, ClearKept

(* An entry that is not pushed back is the program's again.                *)
LEMMA RefuseInsertKept ==
    ASSUME IInv, Remember, NEW t \in Threads, RefuseInsert(t)
    PROVE  IInv'
<1>1. /\ Done(t) /\ UNCHANGED <<deleted, newest, released>>
      /\ next' = [next EXCEPT ![call[t].entry] = Null]
      /\ call[t].pc = "insert"
  BY DEF RefuseInsert, stacks, At
<1>2. PICK x \in Entries : x = call[t].entry
  BY <1>1, Hands DEF IInv
<1>3. x \in Fresh /\ x \notin Targets /\ \A u \in Threads \ {t} : x \notin Knows(u)
  BY <1>2, EntriesAssumption DEF IInv, OwnerInv, HandsFresh, FreshUnknown
<1>4. QED
  BY <1>1, <1>2, <1>3, ClearKept

(* A reclaimed entry lets go of the next one.                              *)
LEMMA EndReleaseKept ==
    ASSUME IInv, Remember, NEW t \in Threads, EndRelease(t)
    PROVE  IInv'
<1>1. /\ Done(t) /\ UNCHANGED <<deleted, newest, released>>
      /\ next' = [next EXCEPT ![call[t].ptr] = Null]
      /\ call[t].pc = "release"
  BY DEF EndRelease, stacks, At
<1>2. PICK x \in Entries : x = call[t].ptr
  BY <1>1, Hands DEF IInv
<1>3. call[t].op = "release"
  BY <1>1 DEF IInv, ControlInv, CallAgrees, TypeOK, Calls, Places
<1>4. x \notin Fresh /\ x \notin Targets /\ \A u \in Threads \ {t} : x \notin Knows(u)
  BY <1>2, <1>3 DEF IInv, OwnerInv, ReclaimedUnknown, Fresh
<1>5. QED
  BY <1>1, <1>2, <1>4, ClearKept

(* Then those that only go on.                                             *)
LEMMA GotoFacts ==
    ASSUME IInv, Remember, NEW t \in Threads
    PROVE  /\ CallAgrees(t) /\ WalkAgrees(t) /\ SawNewest(t) /\ LinksOn(t) /\ CleansUp(t)
           /\ call'[t].op \in Ends /\ call[t].op # "none" => seen[t] \subseteq seen'[t]
           /\ call[t].pc \in {"clean", "link", "attach", "get", "judge"} =>
                 call[t].pc \notin SearchPlaces
           /\ call[t].pc \in {"clean", "next", "replace"} =>
                 call[t].op \in {"push", "pop", "popped", "iter", "drop"}
           /\ call[t].pc \in {"link", "attach"} => call[t].op = "push"
           /\ call[t].pc \in {"get", "judge"} => call[t].op = "pop"
           /\ call[t].pc \in {"join", "insert"} => call[t].op = "push_back"
           /\ call[t].pc = "visit" => call[t].op \in {"iter", "drop"}
<1>1. /\ CallAgrees(t) /\ WalkAgrees(t) /\ SawNewest(t) /\ LinksOn(t) /\ CleansUp(t)
      /\ call[t] \in Calls
  BY DEF IInv, ControlInv, CallInv, CallAware, SearchInv, SearchAgrees, TypeOK
<1>2. /\ call[t].pc \in {"clean", "next", "replace"} =>
                 call[t].op \in {"push", "pop", "popped", "iter", "drop"}
      /\ call[t].pc \in {"link", "attach"} => call[t].op = "push"
      /\ call[t].pc \in {"get", "judge"} => call[t].op = "pop"
      /\ call[t].pc \in {"join", "insert"} => call[t].op = "push_back"
      /\ call[t].pc = "visit" => call[t].op \in {"iter", "drop"}
  BY <1>1 DEF CallAgrees, Calls, Places
<1>3. QED
  BY <1>1, <1>2, Remembered DEF SearchPlaces

(* Steps of a push and of a pop that change nothing but where the call is. *)
LEMMA GoOnKept ==
    ASSUME IInv, Remember, NEW t \in Threads, AcceptPush(t) \/ TryNewest(t) \/ MissNewest(t)
    PROVE  IInv'
<1>1. PICK pc \in {"clean", "link", "get"} :
         /\ Goto(t, pc) /\ UNCHANGED <<links, walk, newest, released>>
         /\ \/ call[t].op = "push" /\ call[t].pc = "clean" /\ Clean(call[t].ptr) /\ pc = "link"
            \/ /\ call[t].op = "pop" /\ call[t].pc = "clean" /\ Clean(call[t].ptr)
               /\ call[t].ptr # Null /\ pc = "get"
            \/ call[t].op = "pop" /\ call[t].pc = "judge" /\ pc = "clean"
  BY GotoFacts DEF AcceptPush, TryNewest, MissNewest, Cleaned, At, stacks
<1>2. /\ pc \in Places(call[t].op) /\ call[t].pc \notin SearchPlaces
      /\ pc \notin SearchPlaces
      /\ pc \in {"replace", "get", "judge"} => call[t].ptr # Null
  BY <1>1 DEF Places, SearchPlaces
<1>3. /\ Moves(t, call[t].op, pc, call[t].on, call[t].ptr, call[t].entry, walk[t])
      /\ Admitted(t, call[t].op, call[t].on) /\ HandsOwn(t, call[t].entry, {})
      /\ Reclaims(t, call[t].op, call[t].ptr, walk[t])
      /\ {call[t].ptr} \cup SearchPointers(walk[t]) \subseteq Knows(t) \cup Targets \cup {Null}
      /\ CleansUp(t)'
      /\ call'[t].op = call[t].op /\ call'[t].pc = pc
      /\ call'[t].ptr = call[t].ptr
  <2>1. /\ pc \in SearchPlaces <=> call[t].pc \in SearchPlaces
        /\ pc # "replace"
        /\ pc \in {"clean", "replace", "link", "attach", "get", "judge", "insert"}
    BY <1>1, <1>2
  <2>2. QED
    BY <1>1, <1>2, <2>1, GotoMoves
<1>4. call'[t].ptr \in seen'[t] /\ call'[t].op \in Ends
  <2>1. call'[t].op \in Ends /\ call[t].op # "none"
    BY <1>1, <1>3 DEF Ends
  <2>2. call[t].ptr \in seen[t]
    BY <1>1, <2>1, <1>3, GotoFacts DEF SawNewest, At
  <2>3. QED
    BY <1>3, <2>1, <2>2, GotoFacts
<1>5. CallAware(t)'
  <2>1. call'[t].pc # "insert" /\ call'[t].pc # "attach"
    BY <1>1, <1>3
  <2>2. QED
    BY <1>4, <2>1, EndsAware
<1>6. Releases(t) /\ pc # "replace"
  BY <1>1 DEF Releases
<1>7. QED
  BY <1>1, <1>3, <1>5, <1>6, QuietKept

(* A pop takes a Shared of the newest entry, or finds its count zero.      *)
LEMMA GetNewestKept ==
    ASSUME IInv, Remember, NEW t \in Threads, GetNewest(t)
    PROVE  IInv'
<1>1. PICK pc \in {"clean", "judge"} :
         /\ Goto(t, pc) /\ UNCHANGED <<links, walk, newest>>
         /\ call[t].pc = "get" /\ call[t].op = "pop" /\ call[t].ptr # Null
         /\ GetShared(call[t].ptr) \/ GetNone(call[t].ptr)
  BY GotoFacts DEF GetNewest, At, CallAgrees
<1>2. /\ pc \in Places(call[t].op) /\ call[t].pc \notin SearchPlaces
      /\ pc \notin SearchPlaces
  BY <1>1 DEF Places, SearchPlaces
<1>3. /\ Moves(t, call[t].op, pc, call[t].on, call[t].ptr, call[t].entry, walk[t])
      /\ Admitted(t, call[t].op, call[t].on) /\ HandsOwn(t, call[t].entry, {})
      /\ Reclaims(t, call[t].op, call[t].ptr, walk[t])
      /\ {call[t].ptr} \cup SearchPointers(walk[t]) \subseteq Knows(t) \cup Targets \cup {Null}
      /\ CleansUp(t)'
      /\ call'[t].op = call[t].op /\ call'[t].pc = pc
      /\ call'[t].ptr = call[t].ptr
  <2>1. /\ pc \in SearchPlaces <=> call[t].pc \in SearchPlaces
        /\ pc # "replace"
        /\ pc \in {"clean", "replace", "link", "attach", "get", "judge", "insert"}
    BY <1>1, <1>2
  <2>2. QED
    BY <1>1, <1>2, <2>1, GotoMoves
<1>4. call'[t].ptr \in seen'[t] /\ call'[t].op \in Ends
  <2>1. call'[t].op \in Ends /\ call[t].op # "none"
    BY <1>1, <1>3 DEF Ends
  <2>2. call[t].ptr \in seen[t]
    BY <1>1, <2>1, <1>3, GotoFacts DEF SawNewest, At
  <2>3. QED
    BY <1>3, <2>1, <2>2, GotoFacts
<1>5. CallAware(t)'
  <2>1. call'[t].pc # "insert" /\ call'[t].pc # "attach"
    BY <1>1, <1>3
  <2>2. QED
    BY <1>4, <2>1, EndsAware
<1>6. Releases(t) /\ pc # "replace"
  BY <1>1, HandsHold DEF Releases, GetShared
<1>7. QED
  BY <1>1, <1>3, <1>5, <1>6, QuietKept

(* What an iterator, or a drop, has left when its stack stays as it is.    *)
LEMMA LeftStays ==
    ASSUME ControlInv, Remember, NEW t \in Threads, call[t].op \in {"iter", "drop"},
           call'[t].op = call[t].op, call'[t].on = call[t].on,
           newest'[call[t].on] = newest[call[t].on], \A p : Now(p) = Live(p)
    PROVE  /\ call[t].on \in Stacks
           /\ Left(t)' \subseteq Contents(call[t].on)'
           /\ VisitsAhead(t) => Left(t)' \subseteq Left(t)
<1>1. call[t].on \in Stacks
  BY StacksAssumption DEF ControlInv, CallAgrees, OnStack, TypeOK, Calls
<1>2. PICK s \in Stacks : s = call[t].on
  BY <1>1
<1>3. Contents(s)' = Contents(s)
  BY <1>2, Primed DEF Contents
<1>4. CASE call[t].op = "drop"
  BY <1>2, <1>3, <1>4 DEF Left
<1>5. CASE call[t].op = "iter"
  <2>1. seen'[t] \subseteq Contents(s)' /\ seen'[t] \subseteq seen[t]
    BY <1>2, <1>3, <1>5, Remembered
  <2>2. QED
    BY <1>2, <1>3, <1>5, <2>1 DEF Left
<1>6. QED
  BY <1>4, <1>5, <1>1

(* While it cleans up, a visit has begun nothing.                          *)
LEMMA CleaningAware ==
    ASSUME IInv, Remember, NEW t \in Threads,
           call[t].op \in {"push", "pop", "popped", "iter", "drop"},
           call'[t].op = call[t].op, call'[t].on = call[t].on,
           call'[t].pc \in {"next", "replace"},
           newest'[call[t].on] = newest[call[t].on], \A p : Now(p) = Live(p)
    PROVE  CallAware(t)'
<1>1. CASE call[t].op \in {"push", "pop"}
  <2>1. call'[t].op \in Ends /\ call'[t].pc # "insert"
    BY <1>1 DEF Ends
  <2>2. QED
    BY <2>1, EndsAware
<1>2. CASE call[t].op = "popped"
  BY <1>2, OthersAware
<1>3. CASE call[t].op \in {"iter", "drop"}
  <2>1. Left(t)' \subseteq Contents(call[t].on)'
    BY <1>3, LeftStays DEF IInv
  <2>2. VisitsAhead(t)'
    BY <2>1 DEF VisitsAhead, At
  <2>3. SawNewest(t)' /\ LinksOn(t)'
    BY <1>3 DEF SawNewest, LinksOn, At, Ends
  <2>4. QED
    BY <2>2, <2>3 DEF CallAware
<1>4. QED
  BY <1>1, <1>2, <1>3

(* cleanup_newest() takes a Shared of what its search found.               *)
LEMMA ShareNextKept ==
    ASSUME IInv, Remember, NEW t \in Threads, ShareNext(t)
    PROVE  IInv'
<1>1. /\ Goto(t, "replace") /\ UNCHANGED <<links, walk, newest, released>>
      /\ call[t].pc = "next" /\ walk[t].stage = "done" /\ walk[t].valid \notin released
  BY DEF ShareNext, At, InStage, GetShared
<1>2. /\ call[t].op \in {"push", "pop", "popped", "iter", "drop"}
      /\ call[t].ptr # Null /\ deleted'[call[t].ptr]
  BY <1>1, GotoFacts DEF CallAgrees, links
<1>3. "replace" \in Places(call[t].op)
      /\ ("replace" \in SearchPlaces <=> call[t].pc \in SearchPlaces)
  BY <1>1, <1>2 DEF Places, SearchPlaces
<1>4. /\ Moves(t, call[t].op, "replace", call[t].on, call[t].ptr, call[t].entry, walk[t])
      /\ Admitted(t, call[t].op, call[t].on) /\ HandsOwn(t, call[t].entry, {})
      /\ Reclaims(t, call[t].op, call[t].ptr, walk[t])
      /\ {call[t].ptr} \cup SearchPointers(walk[t]) \subseteq Knows(t) \cup Targets \cup {Null}
      /\ call'[t].op = call[t].op /\ call'[t].pc = "replace" /\ call'[t].on = call[t].on
      /\ call'[t].ptr = call[t].ptr
  BY <1>1, <1>2, <1>3, GotoMoves
<1>5. \A p : Now(p) = Live(p)
  BY <1>1, NowQuiet
<1>6. CleansUp(t)'
  <2>1. Live(walk[t].valid) = Live(call[t].ptr)
    BY <1>1, GotoFacts DEF CleansUp, At, InStage
  <2>2. QED
    BY <1>1, <1>4, <1>5, <2>1, Primed DEF CleansUp, At
<1>7. CallAware(t)'
  BY <1>1, <1>2, <1>4, <1>5, CleaningAware
<1>8. Releases(t) /\ walk[t].valid \notin released'
  BY <1>1 DEF Releases
<1>9. QED
  BY <1>1, <1>4, <1>6, <1>7, <1>8, QuietKept

(* The link of the entry in its hands is set to what a call has read.      *)
LEMMA LinkToKept ==
    ASSUME IInv, NEW t \in Threads, call[t].pc \in {"link", "join"},
           NEW q \in Knows(t), q \in Pointers, LinkTo(t, q)
    PROVE  /\ call[t].entry \in Entries /\ call[t].entry \in Fresh
           /\ call[t].entry \notin Targets
           /\ \A u \in Threads \ {t} : call[t].entry \notin Knows(u)
           /\ Releases(t) /\ released \subseteq released'
           /\ UNCHANGED <<deleted, newest>> => \E v : SetsOwn(t, call[t].entry, v)
           /\ q \in released' \/ next'[call[t].entry] = q
<1>1. ControlInv /\ TypeOK
  BY DEF IInv, ControlInv
<1>2. call[t].entry \in Entries
  BY <1>1, Hands
<1>3. /\ call[t].entry \in Fresh /\ call[t].entry \notin Targets
      /\ \A u \in Threads \ {t} : call[t].entry \notin Knows(u)
  BY <1>2, EntriesAssumption DEF IInv, OwnerInv, HandsFresh, FreshUnknown
<1>4. CASE GetShared(q) /\ next' = [next EXCEPT ![call[t].entry] = q]
  <2>1. UNCHANGED <<deleted, newest>> => SetsOwn(t, call[t].entry, q)
    BY <1>2, <1>3, <1>4 DEF GetShared, SetsOwn
  <2>2. q = next'[call[t].entry]
    BY <1>1, <1>2, <1>4 DEF TypeOK
  <2>3. QED
    BY <1>2, <1>3, <1>4, <2>1, <2>2 DEF GetShared, Releases
<1>5. CASE GetNone(q) /\ next' = [next EXCEPT ![call[t].entry] = Null]
  <2>1. released' = released \cup {q} /\ q # Null /\ Null \notin released /\ Null \in Pointers
    BY <1>1, <1>5, EntriesAssumption DEF GetNone, TypeOK, Pointers
  <2>2. Releases(t)
    BY <1>5 DEF Releases
  <2>3. UNCHANGED <<deleted, newest>> => SetsOwn(t, call[t].entry, Null)
    BY <1>2, <1>3, <1>5, <2>1 DEF SetsOwn
  <2>4. QED
    BY <1>2, <1>3, <2>1, <2>2, <2>3
<1>6. QED
  BY <1>4, <1>5 DEF LinkTo

(* A push sets the link of its entry to the newest one.                    *)
LEMMA LinkEntryKept ==
    ASSUME IInv, Remember, NEW t \in Threads, LinkEntry(t)
    PROVE  IInv'
<1>1. /\ Goto(t, "attach") /\ UNCHANGED <<deleted, walk, newest>>
      /\ call[t].pc = "link" /\ call[t].op = "push" /\ LinkTo(t, call[t].ptr)
  BY GotoFacts DEF LinkEntry, At
<1>2. call[t].ptr \in Knows(t) /\ call[t].ptr \in Pointers
  BY HandsHold, Hands DEF IInv
<1>3. /\ call[t].entry \in Entries /\ call[t].entry \in Fresh
      /\ call[t].entry \notin Targets
      /\ \A u \in Threads \ {t} : call[t].entry \notin Knows(u)
      /\ Releases(t)
      /\ \E v : SetsOwn(t, call[t].entry, v)
      /\ call[t].ptr \in released' \/ next'[call[t].entry] = call[t].ptr
  BY <1>1, <1>2, LinkToKept
<1>4. "attach" \in Places(call[t].op) /\ "link" \notin SearchPlaces
      /\ "attach" \notin SearchPlaces
  BY <1>1 DEF Places, SearchPlaces
<1>5. /\ Moves(t, call[t].op, "attach", call[t].on, call[t].ptr, call[t].entry, walk[t])
      /\ Admitted(t, call[t].op, call[t].on) /\ HandsOwn(t, call[t].entry, {})
      /\ Reclaims(t, call[t].op, call[t].ptr, walk[t])
      /\ {call[t].ptr} \cup SearchPointers(walk[t]) \subseteq Knows(t) \cup Targets \cup {Null}
      /\ CleansUp(t)'
      /\ call'[t].op = call[t].op /\ call'[t].pc = "attach"
      /\ call'[t].ptr = call[t].ptr /\ call'[t].entry = call[t].entry
  BY <1>1, <1>4, GotoMoves
<1>6. CallAware(t)'
  <2>1. call'[t].op \in Ends /\ call[t].op # "none" /\ call[t].op \in Ends
    BY <1>1, <1>5 DEF Ends
  <2>2. call[t].ptr \in seen[t]
    BY <1>1, <2>1, GotoFacts DEF SawNewest, At
  <2>3. call'[t].ptr \in seen'[t]
    BY <1>5, <2>1, <2>2, GotoFacts
  <2>4. QED
    BY <1>3, <1>5, <2>1, <2>3, EndsAware
<1>7. PICK v : SetsOwn(t, call[t].entry, v)
  BY <1>3
<1>8. /\ Releases(t)
      /\ "attach" = "replace" => walk[t].valid \notin released'
      /\ ControlInv' /\ OwnerInv' /\ OrderInv' => CallAware(t)'
  BY <1>3, <1>6
<1>9. QED
  BY <1>5, <1>7, <1>8, OwnLinkKept

(* push_back() sets it to the entry that is to be the next one.            *)
LEMMA JoinNextKept ==
    ASSUME IInv, Remember, NEW t \in Threads, JoinNext(t)
    PROVE  IInv'
<1>1. /\ Goto(t, "insert") /\ UNCHANGED <<deleted, walk, newest>>
      /\ call[t].pc = "join" /\ call[t].op = "push_back" /\ LinkTo(t, walk[t].valid)
  BY GotoFacts DEF JoinNext, At
<1>2. walk[t].valid \in Knows(t) /\ walk[t].valid \in Pointers
  BY HandsHold, Hands DEF IInv
<1>3. /\ call[t].entry \in Entries /\ call[t].entry \in Fresh
      /\ call[t].entry \notin Targets
      /\ \A u \in Threads \ {t} : call[t].entry \notin Knows(u)
      /\ Releases(t)
      /\ \E v : SetsOwn(t, call[t].entry, v)
      /\ walk[t].valid \in released' \/ next'[call[t].entry] = walk[t].valid
  BY <1>1, <1>2, LinkToKept
<1>4. "insert" \in Places(call[t].op) /\ "join" \in SearchPlaces
      /\ "insert" \in SearchPlaces /\ walk[t].stage \in {"none", "done"}
  BY <1>1, GotoFacts DEF Places, SearchPlaces, WalkAgrees, At
<1>5. /\ Moves(t, call[t].op, "insert", call[t].on, call[t].ptr, call[t].entry, walk[t])
      /\ Admitted(t, call[t].op, call[t].on) /\ HandsOwn(t, call[t].entry, {})
      /\ Reclaims(t, call[t].op, call[t].ptr, walk[t])
      /\ {call[t].ptr} \cup SearchPointers(walk[t]) \subseteq Knows(t) \cup Targets \cup {Null}
      /\ CleansUp(t)'
      /\ call'[t].op = call[t].op /\ call'[t].pc = "insert"
      /\ call'[t].ptr = call[t].ptr /\ call'[t].entry = call[t].entry
  BY <1>1, <1>4, GotoMoves
<1>6. CallAware(t)'
  BY <1>1, <1>3, <1>5 DEF CallAware, VisitsAhead, SawNewest, LinksOn, Ends, At
<1>7. PICK v : SetsOwn(t, call[t].entry, v)
  BY <1>3
<1>8. /\ Releases(t)
      /\ "insert" = "replace" => walk[t].valid \notin released'
      /\ ControlInv' /\ OwnerInv' /\ OrderInv' => CallAware(t)'
  BY <1>3, <1>6
<1>9. QED
  BY <1>5, <1>7, <1>8, OwnLinkKept

(* A call that has read `newest', and is to clean up.                      *)
LEMMA CleanAware ==
    ASSUME Remember, ControlInv', OwnerInv', OrderInv', NEW t \in Threads,
           call'[t].op \in {"push", "pop", "popped", "iter", "drop"}, call'[t].pc = "clean",
           call'[t].on \in Stacks, newest'[call'[t].on] = call'[t].ptr
    PROVE  CallAware(t)'
<1>1. CASE call'[t].op \in {"push", "pop"}
  BY <1>1, EndsAware DEF Ends
<1>2. CASE call'[t].op = "popped"
  BY <1>2, OthersAware
<1>3. CASE call'[t].op \in {"iter", "drop"}
  <2>1. PICK s \in Stacks : s = call'[t].on
    OBVIOUS
  <2>2. Left(t)' \subseteq Contents(s)'
    BY <1>3, <2>1, Remembered DEF Left
  <2>3. Contents(s)' = Live(call[t].ptr)'
    BY <2>1 DEF Contents
  <2>4. VisitsAhead(t)'
    BY <2>1, <2>2, <2>3 DEF VisitsAhead, At
  <2>5. SawNewest(t)' /\ LinksOn(t)'
    BY <1>3 DEF SawNewest, LinksOn, At, Ends
  <2>6. QED
    BY <2>4, <2>5 DEF CallAware
<1>4. QED
  BY <1>1, <1>2, <1>3

(* A call gets another pointer.                                            *)
LEMMA PointBecomes ==
    ASSUME TypeOK, NEW t \in Threads, NEW pc \in {"clean", "visit"}, NEW q \in Pointers,
           call' = [call EXCEPT ![t].pc = pc, ![t].ptr = q]
    PROVE  Becomes(t, call[t].op, pc, call[t].on, q, call[t].entry)
<1>1. PICK c : c = [call[t] EXCEPT !.pc = pc, !.ptr = q]
  OBVIOUS
<1>2. /\ c \in Calls /\ c.op = call[t].op /\ c.pc = pc /\ c.on = call[t].on
      /\ c.ptr = q /\ c.entry = call[t].entry
  BY <1>1 DEF TypeOK, Calls
<1>3. call' = [call EXCEPT ![t] = c]
  BY <1>1 DEF TypeOK
<1>4. QED
  BY <1>2, <1>3, CallBecomes

(* A push finds that `newest' has changed.                                 *)
LEMMA AttachFailsKept ==
    ASSUME IInv, Remember, NEW t \in Threads, AttachFails(t)
    PROVE  IInv'
<1>1. /\ call[t].pc = "attach" /\ call[t].op = "push" /\ UNCHANGED <<links, newest>>
      /\ UNCHANGED walk /\ UNCHANGED released
      /\ call' = [call EXCEPT ![t].pc = "clean", ![t].ptr = newest[call[t].on]]
  BY GotoFacts DEF AttachFails, At, stacks
<1>2. PICK s \in Stacks : s = call[t].on
  BY <1>1, Hands DEF IInv
<1>3. PICK q \in Pointers : q = newest[s]
  BY DEF IInv, ControlInv, TypeOK
<1>4. /\ Becomes(t, "push", "clean", s, q, call[t].entry) /\ Finds(t, NoWalk)
      /\ walk[t] = NoWalk
  BY <1>1, <1>2, <1>3, PointBecomes, Searched, Resting DEF IInv, ControlInv, SearchPlaces
<1>5. Moves(t, "push", "clean", s, q, call[t].entry, NoWalk)
  <2>1. call[t].entry # Null /\ s # Null
    BY <1>1, StacksAssumption, GotoFacts DEF CallAgrees
  <2>2. QED
    BY <1>4, <2>1 DEF Moves, Places, OnStack, SearchPlaces
<1>6. CleansUp(t)' /\ (ControlInv' /\ OwnerInv' /\ OrderInv' => CallAware(t)')
  <2>1. /\ call'[t].op = "push" /\ call'[t].pc = "clean" /\ call'[t].on = s
        /\ call'[t].ptr = q /\ newest'[s] = q
    BY <1>1, <1>3, <1>4 DEF Becomes
  <2>2. QED
    BY <2>1, NothingToClean, CleanAware
<1>7. /\ {q} \cup SearchPointers(NoWalk) \subseteq Knows(t) \cup Targets \cup {Null}
      /\ Reclaims(t, "push", q, NoWalk) /\ Admitted(t, "push", s)
      /\ HandsOwn(t, call[t].entry, {}) /\ Releases(t)
      /\ "clean" = "replace" => NoWalk.valid \notin released'
  BY <1>1, <1>2, <1>3, SearchHas, HandsHold DEF Targets, Reclaims, Releases, Admitted
<1>8. QED
  BY <1>1, <1>5, <1>6, <1>7, QuietKept

(* cleanup_newest() replaces `newest', or reads it again.                  *)
LEMMA ReplaceNewestKept ==
    ASSUME IInv, Remember, NEW t \in Threads, ReplaceNewest(t)
    PROVE  IInv'
<1>1. PICK s : s = call[t].on
  OBVIOUS
<1>2. /\ call[t].pc = "replace" /\ call[t].op \in {"push", "pop", "popped", "iter", "drop"}
      /\ UNCHANGED <<links, released>>
      /\ newest' = IF newest[s] = call[t].ptr
                   THEN [newest EXCEPT ![s] = walk[t].valid] ELSE newest
      /\ call' = [call EXCEPT ![t].pc = "clean", ![t].ptr = newest'[s]]
      /\ walk' = [walk EXCEPT ![t] = NoWalk]
      /\ CleansUp(t)
  BY <1>1, GotoFacts DEF ReplaceNewest, At, Actual
<1>3. s \in Stacks /\ ControlInv /\ TypeOK /\ walk[t].valid \in Pointers
  BY <1>1, <1>2, Hands DEF IInv, ControlInv
<1>4. newest' \in [Stacks -> Pointers]
      /\ \A r \in Stacks : newest'[r] = IF r = s /\ newest[s] = call[t].ptr
                                        THEN walk[t].valid ELSE newest[r]
  BY <1>2, <1>3 DEF TypeOK
<1>5. PICK q \in Pointers : q = newest'[s]
  BY <1>3, <1>4
<1>6. Becomes(t, call[t].op, "clean", s, q, call[t].entry) /\ Finds(t, NoWalk)
  BY <1>1, <1>2, <1>3, <1>5, PointBecomes, Searched
<1>7. Moves(t, call[t].op, "clean", s, q, call[t].entry, NoWalk)
  <2>1. /\ call[t].op \in OnStack <=> s # Null
        /\ call[t].op \in {"push", "push_back"} <=> call[t].entry # Null
    BY <1>1, GotoFacts DEF CallAgrees
  <2>2. "clean" \in Places(call[t].op) /\ call[t].op \notin {"push_back", "release"}
    BY <1>2 DEF Places
  <2>3. QED
    BY <1>6, <2>1, <2>2 DEF Moves, SearchPlaces
<1>8. \A r \in Stacks : Contents(r)' = Contents(r)
  <2>1. Live(walk[t].valid) = Live(call[t].ptr)
    BY <1>2 DEF CleansUp, At
  <2>2. \A p : Now(p) = Live(p)
    BY <1>2, NowQuiet
  <2>3. QED
    BY <1>4, <2>1, <2>2, Primed DEF Contents
<1>9. Fresh' = Fresh
  BY <1>2, <1>8, Primed DEF Fresh, links
<1>10. CleansUp(t)' /\ (ControlInv' /\ OwnerInv' /\ OrderInv' => CallAware(t)')
  <2>1. /\ call'[t].op = call[t].op /\ call'[t].pc = "clean" /\ call'[t].on = s
        /\ call'[t].ptr = q /\ newest'[s] = q
    BY <1>5, <1>6 DEF Becomes
  <2>2. QED
    BY <1>2, <1>3, <2>1, NothingToClean, CleanAware
<1>11. \A r \in Stacks : newest'[r] \in Targets \cup Knows(t) \cup {Null}
                         /\ (Owned(newest'[r]) \/ newest'[r] \notin released')
  <2>1. walk[t].valid \in Knows(t) /\ Owned(walk[t].valid)
    BY <1>2, HandsHold DEF Owned, At
  <2>2. \A r \in Stacks : newest[r] \in Targets /\ Owned(newest[r])
    BY TargetsOwned DEF Targets
  <2>3. QED
    BY <1>4, <2>1, <2>2
<1>12. \A u \in Threads \ {t} :
          call[u].op = "drop" => newest'[call[u].on] = newest[call[u].on]
  <2> SUFFICES ASSUME NEW u \in Threads \ {t}, call[u].op = "drop"
               PROVE  newest'[call[u].on] = newest[call[u].on]
    OBVIOUS
  <2>1. call[t].on # call[u].on
    BY <1>3 DEF ControlInv, DropsAlone
  <2>2. call[u].on \in Stacks
    BY <1>3, StacksAssumption DEF ControlInv, CallAgrees, OnStack, TypeOK, Calls
  <2>3. QED
    BY <1>1, <1>4, <2>1, <2>2
<1>13. /\ {q} \cup SearchPointers(NoWalk) \subseteq Knows(t) \cup Targets \cup {Null} \cup {}
       /\ {} \cap Fresh = {} /\ \A u \in Threads \ {t} : call[u].ptr \notin {}
       /\ Reclaims(t, call[t].op, q, NoWalk) /\ Admitted(t, call[t].op, s)
       /\ HandsOwn(t, call[t].entry, {}) /\ Releases(t)
       /\ "clean" = "replace" => NoWalk.valid \notin released'
       /\ UNCHANGED links
  BY <1>1, <1>2, <1>3, <1>5, <1>11, SearchHas, HandsHold DEF Reclaims, Releases, Admitted
<1>14. QED
  BY <1>4, <1>7, <1>9, <1>10, <1>11, <1>12, <1>13, LinksKept

(* cleanup_newest() begins its search.                                     *)
LEMMA FindNextKept ==
    ASSUME IInv, Remember, NEW t \in Threads, FindNext(t)
    PROVE  IInv'
<1>1. /\ call[t].pc = "clean" /\ call[t].op \in {"push", "pop", "popped", "iter", "drop"}
      /\ call[t].ptr # Null /\ deleted[call[t].ptr]
      /\ walk' = [walk EXCEPT ![t] = StartWalk(call[t].ptr)] /\ Goto(t, "next")
      /\ UNCHANGED <<links, newest, released>> /\ TypeOK /\ CallAgrees(t)
  BY GotoFacts DEF FindNext, At, Clean, stacks, IInv, ControlInv
<1>2. PICK h \in Entries : h = call[t].ptr
  BY <1>1, Hands DEF IInv, Pointers
<1>3. Becomes(t, call[t].op, "next", call[t].on, h, call[t].entry) /\ Finds(t, StartWalk(h))
  BY <1>1, <1>2, GotoBecomes, Searched
<1>4. Moves(t, call[t].op, "next", call[t].on, h, call[t].entry, StartWalk(h))
  <2>1. /\ call[t].op \in OnStack <=> call[t].on # Null
        /\ call[t].op \in {"push", "push_back"} <=> call[t].entry # Null
    BY <1>1 DEF CallAgrees
  <2>2. "next" \in Places(call[t].op) /\ call[t].op \notin {"push_back", "release"}
    BY <1>1 DEF Places
  <2>3. h # Null /\ deleted'[h]
    BY <1>1, <1>2 DEF links
  <2>4. QED
    BY <1>3, <2>1, <2>2, <2>3 DEF Moves, SearchPlaces
<1>5. /\ call'[t].op = call[t].op /\ call'[t].pc = "next" /\ call'[t].on = call[t].on
      /\ call'[t].ptr = h
  BY <1>3 DEF Becomes
<1>6. \A p : Now(p) = Live(p)
  BY <1>1, NowQuiet
<1>7. CleansUp(t)'
  <2>1. TypeOK'
    BY <1>1, <1>3, Remembered DEF TypeOK, Becomes, Finds, links
  <2>2. Starts(t, h)' /\ walk'[t].stage = "load"
    BY <1>3, SearchValues DEF Starts
  <2>3. Looking(t)' = {} /\ ~Settled(t)' /\ walk'[t].frames # <<>> /\ walk'[t].frames[1].head = h
    BY <2>1, <2>2, NothingFound
  <2>4. QED
    BY <1>1, <1>2, <1>5, <2>2, <2>3, Primed DEF CleansUp, At, InStage, links
<1>8. CallAware(t)'
  BY <1>1, <1>5, <1>6, CleaningAware
<1>9. /\ {h} \cup SearchPointers(StartWalk(h)) \subseteq Knows(t) \cup Targets \cup {Null}
      /\ Reclaims(t, call[t].op, h, StartWalk(h)) /\ Releases(t)
      /\ Admitted(t, call[t].op, call[t].on) /\ HandsOwn(t, call[t].entry, {})
  BY <1>1, <1>2, SearchHas, HandsHold DEF Reclaims, Releases
<1>10. QED
  BY <1>1, <1>4, <1>7, <1>8, <1>9, QuietKept

(* It begins another, from an entry whose count is zero.                   *)
LEMMA ShareFailsKept ==
    ASSUME IInv, Remember, NEW t \in Threads, ShareFails(t)
    PROVE  IInv'
<1>1. /\ call[t].pc = "next" /\ call[t].op \in {"push", "pop", "popped", "iter", "drop"}
      /\ walk[t].stage = "done" /\ GetNone(walk[t].valid)
      /\ walk' = [walk EXCEPT ![t] = StartWalk(walk[t].valid)]
      /\ UNCHANGED <<links, newest, call>> /\ TypeOK /\ CallAgrees(t)
      /\ Live(walk[t].valid) = Live(call[t].ptr)
  BY GotoFacts DEF ShareFails, At, InStage, IInv, ControlInv, CleansUp
<1>2. PICK h \in Entries : h = walk[t].valid
  BY <1>1, Hands DEF IInv, Pointers, GetNone
<1>3. call[t].ptr \in Entries /\ deleted[call[t].ptr]
  BY <1>1, Hands DEF IInv
<1>4. deleted[h]
  <2> SUFFICES ASSUME ~deleted[h] PROVE FALSE
    OBVIOUS
  <2>1. h \in Live(h)
    BY <1>1, LiveUnfold
  <2>2. h \in Reach(next, call[t].ptr) /\ h # call[t].ptr
    BY <1>1, <1>2, <1>3, <2>1, LiveEntries
  <2>3. h \in Targets
    BY <1>1, <2>2, ReachKnown
  <2>4. QED
    BY <1>1, <1>2, <2>3, TargetsOwned DEF GetNone
<1>5. /\ Becomes(t, call[t].op, call[t].pc, call[t].on, call[t].ptr, call[t].entry)
      /\ Finds(t, StartWalk(h))
  BY <1>1, <1>2, SameBecomes, Searched
<1>6. Moves(t, call[t].op, call[t].pc, call[t].on, call[t].ptr, call[t].entry, StartWalk(h))
  BY <1>1, <1>5 DEF Moves, SearchPlaces, CallAgrees, links
<1>7. \A p : Now(p) = Live(p)
  BY <1>1, NowQuiet
<1>8. CleansUp(t)'
  <2>1. TypeOK'
    <3>1. released' \subseteq Entries
      BY <1>1, <1>2 DEF GetNone, TypeOK
    <3>2. QED
      BY <1>1, <1>5, <3>1, Remembered DEF TypeOK, Finds, links
  <2>2. Starts(t, h)' /\ walk'[t].stage = "load"
    BY <1>5, SearchValues DEF Starts
  <2>3. Looking(t)' = {} /\ ~Settled(t)' /\ walk'[t].frames # <<>> /\ walk'[t].frames[1].head = h
    BY <2>1, <2>2, NothingFound
  <2>4. QED
    BY <1>1, <1>2, <1>4, <1>7, <2>2, <2>3, Primed DEF CleansUp, At, InStage, links
<1>9. CallAware(t)'
  BY <1>1, <1>7, CleaningAware
<1>10. /\ {call[t].ptr} \cup SearchPointers(StartWalk(h))
            \subseteq Knows(t) \cup Targets \cup {Null}
       /\ Reclaims(t, call[t].op, call[t].ptr, StartWalk(h)) /\ Releases(t)
       /\ Admitted(t, call[t].op, call[t].on) /\ HandsOwn(t, call[t].entry, {})
       /\ call[t].pc # "replace"
  BY <1>1, <1>2, SearchHas, HandsHold DEF Reclaims, Releases
<1>11. QED
  BY <1>1, <1>6, <1>8, <1>9, <1>10, QuietKept

(* push_back() finds that the link has changed.                            *)
LEMMA InsertFailsKept ==
    ASSUME IInv, Remember, NEW t \in Threads, InsertFails(t)
    PROVE  IInv'
<1>1. /\ call[t].pc = "insert" /\ call[t].op = "push_back"
      /\ walk' = [walk EXCEPT ![t] = Found(next[call[t].ptr])] /\ Goto(t, "join")
      /\ UNCHANGED <<links, newest, released>> /\ TypeOK /\ CallAgrees(t)
  BY GotoFacts DEF InsertFails, At, stacks, IInv, ControlInv
<1>2. PICK v \in Pointers : v = next[call[t].ptr] /\ v \in Targets
  BY <1>1, Hands DEF IInv, TypeOK, Targets
<1>3. /\ Becomes(t, call[t].op, "join", call[t].on, call[t].ptr, call[t].entry)
      /\ Finds(t, Found(v)) /\ Found(v).valid = v
  BY <1>1, <1>2, GotoBecomes, Searched, SearchValues
<1>4. Moves(t, call[t].op, "join", call[t].on, call[t].ptr, call[t].entry, Found(v))
  <2>1. /\ call[t].op \in OnStack <=> call[t].on # Null
        /\ call[t].op \in {"push", "push_back"} <=> call[t].entry # Null
        /\ call[t].ptr # Null
    BY <1>1 DEF CallAgrees
  <2>2. "join" \in Places(call[t].op)
    BY <1>1 DEF Places
  <2>3. QED
    BY <1>3, <2>1, <2>2 DEF Moves, SearchPlaces
<1>5. CleansUp(t)' /\ CallAware(t)'
  <2>1. call'[t].op = "push_back" /\ call'[t].pc = "join"
    BY <1>1, <1>3 DEF Becomes
  <2>2. QED
    BY <2>1, NothingToClean, OthersAware
<1>6. /\ {call[t].ptr} \cup SearchPointers(Found(v)) \subseteq Knows(t) \cup Targets \cup {Null}
      /\ Reclaims(t, call[t].op, call[t].ptr, Found(v)) /\ Releases(t)
      /\ Admitted(t, call[t].op, call[t].on) /\ HandsOwn(t, call[t].entry, {})
  BY <1>1, <1>2, SearchHas, HandsHold DEF Reclaims, Releases
<1>7. QED
  BY <1>1, <1>4, <1>5, <1>6, QuietKept

(* A pop tags the link of the newest entry, which is now the thread's.     *)
LEMMA TakeNewestKept ==
    ASSUME IInv, Remember, NEW t \in Threads, TakeNewest(t)
    PROVE  IInv'
<1>1. /\ call[t].pc = "judge" /\ call[t].op = "pop"
      /\ deleted' = [deleted EXCEPT ![call[t].ptr] = TRUE]
      /\ call' = [call EXCEPT ![t] = Popped(t)]
      /\ UNCHANGED <<next, newest, released, walk>> /\ TypeOK /\ CallAgrees(t)
  BY GotoFacts DEF TakeNewest, At, stacks, IInv, ControlInv, DeleteSelf
<1>2. PICK x \in Entries : x = call[t].ptr
  BY <1>1, Hands DEF IInv
<1>3. PICK c : c = Popped(t)
  OBVIOUS
<1>4. /\ c \in Calls /\ c.op = "popped" /\ c.pc = "clean" /\ c.on = call[t].on
      /\ c.ptr = x /\ c.entry = call[t].entry
  BY <1>1, <1>2, <1>3 DEF Popped, TypeOK, Calls
<1>5. /\ Becomes(t, "popped", "clean", call[t].on, x, call[t].entry) /\ Finds(t, NoWalk)
  <2>1. Becomes(t, c.op, c.pc, c.on, c.ptr, c.entry)
    BY <1>1, <1>3, <1>4, CallBecomes
  <2>2. walk[t] = NoWalk
    BY <1>1, Resting DEF IInv, SearchPlaces
  <2>3. QED
    BY <1>1, <1>4, <2>1, <2>2, Searched
<1>6. Moves(t, "popped", "clean", call[t].on, x, call[t].entry, NoWalk)
  <2>1. call[t].on # Null /\ call[t].entry = Null
    BY <1>1 DEF CallAgrees, OnStack
  <2>2. QED
    BY <1>5, <2>1 DEF Moves, Places, OnStack, SearchPlaces
<1>7. CleansUp(t)' /\ CallAware(t)'
  <2>1. call'[t].op = "popped" /\ call'[t].pc = "clean"
    BY <1>5 DEF Becomes
  <2>2. QED
    BY <2>1, NothingToClean, OthersAware
<1>8. Deletes(x)
  BY <1>1, <1>2, KnownStale, HandsHold DEF IInv, Deletes
<1>9. /\ {x} \cup SearchPointers(NoWalk) \subseteq Knows(t) \cup Targets \cup {Null}
      /\ Reclaims(t, "popped", x, NoWalk)
      /\ Admitted(t, "popped", call[t].on) /\ HandsOwn(t, call[t].entry, {})
      /\ "clean" = "replace" => NoWalk.valid \notin released'
      /\ ControlInv' /\ OwnerInv' /\ OrderInv' => CallAware(t)'
  BY <1>1, <1>2, <1>7, SearchHas, HandsHold DEF Reclaims, Admitted
<1>10. QED
  BY <1>6, <1>7, <1>8, <1>9, DeleteKept

(* What a visit has left is ahead of where its search is, or begins.       *)
LEMMA VisitingAware ==
    ASSUME ControlInv', NEW t \in Threads,
           call'[t].op \in {"iter", "drop"}, call'[t].pc = "visit",
           NEW s \in Stacks, call'[t].on = s, Left(t)' \subseteq Contents(s)',
           \/ \E v : Finds(t, Found(v)) /\ Left(t)' \subseteq Now(v)
           \/ \E h \in Entries : /\ Finds(t, StartWalk(h))
                                 /\ Left(t)' \subseteq Now(h) \ {h}
                                 /\ call'[t].op = "drop" => deleted'[h]
    PROVE  CallAware(t)'
<1>1. SawNewest(t)' /\ LinksOn(t)'
  BY DEF SawNewest, LinksOn, At, Ends
<1>2. TypeOK'
  BY DEF ControlInv
<1>3. CASE \E v : Finds(t, Found(v)) /\ Left(t)' \subseteq Now(v)
  <2>1. PICK v : Finds(t, Found(v)) /\ Left(t)' \subseteq Now(v)
    BY <1>3
  <2>2. walk'[t].frames = <<>> /\ walk'[t].valid = v
    BY <2>1, SearchValues DEF Finds
  <2>3. VisitsAhead(t)'
    BY <2>1, <2>2, Primed DEF VisitsAhead, At
  <2>4. QED
    BY <1>1, <2>3 DEF CallAware
<1>4. CASE \E h \in Entries : /\ Finds(t, StartWalk(h))
                              /\ Left(t)' \subseteq Now(h) \ {h}
                              /\ call'[t].op = "drop" => deleted'[h]
  <2>1. PICK h \in Entries : /\ Finds(t, StartWalk(h))
                             /\ Left(t)' \subseteq Now(h) \ {h}
                             /\ call'[t].op = "drop" => deleted'[h]
    BY <1>4
  <2>2. Starts(t, h)' /\ walk'[t].stage = "load"
    BY <2>1, SearchValues DEF Starts
  <2>3. Looking(t)' = {} /\ ~Settled(t)' /\ walk'[t].frames # <<>> /\ walk'[t].frames[1].head = h
    BY <1>2, <2>2, NothingFound
  <2>4. VisitsAhead(t)'
    BY <2>1, <2>2, <2>3, Primed DEF VisitsAhead, At, InStage
  <2>5. QED
    BY <1>1, <2>4 DEF CallAware
<1>5. QED
  BY <1>3, <1>4

(* An iteration begins at the newest entry.                                *)
LEMMA StartVisitsKept ==
    ASSUME IInv, Remember, NEW t \in Threads, StartVisits(t)
    PROVE  IInv'
<1>1. /\ call[t].pc = "clean" /\ call[t].op \in {"iter", "drop"}
      /\ UNCHANGED <<links, newest, released>>
      /\ walk' = [walk EXCEPT ![t] = Found(call[t].ptr)]
      /\ call' = [call EXCEPT ![t].pc = "visit", ![t].ptr = Null]
      /\ CallAgrees(t) /\ TypeOK /\ VisitsAhead(t)
  BY GotoFacts DEF StartVisits, Cleaned, At, stacks, IInv, ControlInv, CallInv, CallAware
<1>2. PICK s \in Stacks : s = call[t].on
  BY <1>1, Hands DEF IInv
<1>3. PICK v \in Pointers : v = call[t].ptr
  BY Hands DEF IInv
<1>4. Becomes(t, call[t].op, "visit", s, Null, call[t].entry) /\ Finds(t, Found(v))
      /\ Found(v).valid = v
  <2>1. Null \in Pointers
    BY DEF Pointers
  <2>2. QED
    BY <1>1, <1>2, <1>3, <2>1, PointBecomes, Searched, SearchValues
<1>5. Moves(t, call[t].op, "visit", s, Null, call[t].entry, Found(v))
  <2>1. /\ call[t].op \in OnStack <=> s # Null
        /\ call[t].op \in {"push", "push_back"} <=> call[t].entry # Null
    BY <1>1, <1>2 DEF CallAgrees
  <2>2. "visit" \in Places(call[t].op) /\ call[t].op \notin {"push_back", "release"}
    BY <1>1 DEF Places
  <2>3. QED
    BY <1>4, <2>1, <2>2 DEF Moves, SearchPlaces
<1>6. /\ call'[t].op = call[t].op /\ call'[t].pc = "visit" /\ call'[t].on = s
  BY <1>4 DEF Becomes
<1>7. (\A p : Now(p) = Live(p)) /\ newest' = newest
  BY <1>1, NowQuiet
<1>8. Left(t)' \subseteq Contents(s)' /\ Left(t)' \subseteq Live(v)
  <2>1. Left(t)' \subseteq Contents(s)' /\ Left(t)' \subseteq Left(t)
    BY <1>1, <1>2, <1>6, <1>7, LeftStays DEF IInv
  <2>2. Left(t) \subseteq Live(v)
    BY <1>1, <1>3 DEF VisitsAhead, At
  <2>3. QED
    BY <2>1, <2>2
<1>9. /\ CleansUp(t)'
      /\ ControlInv' /\ OwnerInv' /\ OrderInv' => CallAware(t)'
  BY <1>1, <1>4, <1>6, <1>7, <1>8, NothingToClean, VisitingAware
<1>10. /\ {Null} \cup SearchPointers(Found(v)) \subseteq Knows(t) \cup Targets \cup {Null}
       /\ Reclaims(t, call[t].op, Null, Found(v)) /\ Releases(t)
       /\ Admitted(t, call[t].op, s) /\ HandsOwn(t, call[t].entry, {})
       /\ "visit" = "replace" => Found(v).valid \notin released'
  BY <1>1, <1>2, <1>3, SearchHas, HandsHold DEF Reclaims, Releases
<1>11. UNCHANGED <<links, newest>>
  BY <1>1
<1>12. QED
  BY <1>5, <1>9, <1>10, <1>11, QuietKept

(* An iterator, or the drop of a stack, goes on from the entry it is at.   *)
LEMMA VisitKept ==
    ASSUME IInv, Remember, NEW t \in Threads, Visit(t)
    PROVE  IInv'
<1>1. /\ call[t].pc = "visit" /\ walk[t].stage = "done" /\ call[t].op \in {"iter", "drop"}
      /\ walk[t].valid # Null /\ Visiting(t) /\ Current(t) = walk[t].valid
      /\ walk' = [walk EXCEPT ![t] = StartWalk(walk[t].valid)]
      /\ UNCHANGED <<newest, released, call>>
      /\ \/ UNCHANGED links /\ (call[t].op = "drop" => deleted[walk[t].valid])
         \/ call[t].op = "drop" /\ DeleteSelf(walk[t].valid)
      /\ CallAgrees(t) /\ TypeOK /\ VisitsAhead(t)
  BY GotoFacts
     DEF Visit, Visiting, Current, At, InStage, stacks, IInv, ControlInv, CallInv, CallAware
<1>2. PICK s \in Stacks : s = call[t].on
  BY <1>1, Hands DEF IInv
<1>3. PICK h \in Entries : h = walk[t].valid
  BY <1>1, Hands DEF IInv, Pointers
<1>4. /\ Becomes(t, call[t].op, call[t].pc, call[t].on, call[t].ptr, call[t].entry)
      /\ Finds(t, StartWalk(h))
  BY <1>1, <1>3, SameBecomes, Searched
<1>5. Moves(t, call[t].op, call[t].pc, call[t].on, call[t].ptr, call[t].entry, StartWalk(h))
  BY <1>1, <1>4 DEF Moves, SearchPlaces, CallAgrees
<1>6. call'[t].op = call[t].op /\ call'[t].pc = "visit" /\ call'[t].on = s
  BY <1>1, <1>2
<1>7. Left(t) \subseteq Live(h) /\ (call[t].op = "drop" => Left(t) = Contents(s))
  BY <1>1, <1>2, <1>3 DEF VisitsAhead, At, InStage, Left
<1>8. CleansUp(t)'
  BY <1>6, NothingToClean
<1>9. /\ {call[t].ptr} \cup SearchPointers(StartWalk(h)) \subseteq Knows(t) \cup Targets \cup {Null}
      /\ Reclaims(t, call[t].op, call[t].ptr, StartWalk(h)) /\ Releases(t)
      /\ Admitted(t, call[t].op, call[t].on) /\ HandsOwn(t, call[t].entry, {})
      /\ call[t].pc = "replace" => StartWalk(h).valid \notin released'
  BY <1>1, <1>3, SearchHas, HandsHold DEF Reclaims, Releases
<1>10. CASE UNCHANGED links /\ (call[t].op = "drop" => deleted[h])
  <2>1. \A p : Now(p) = Live(p)
    BY <1>10, NowQuiet
  <2>2. Left(t)' \subseteq Contents(s)' /\ Left(t)' \subseteq Left(t)
    BY <1>1, <1>2, <1>6, <2>1, LeftStays DEF IInv
  <2>3. h \notin Left(t)'
    <3>1. CASE call[t].op = "iter"
      BY <1>1, <1>2, <1>3, <1>6, <3>1, Remembered DEF Left
    <3>2. CASE call[t].op = "drop"
      BY <1>7, <1>10, <2>2, <3>2, LiveEntries, <1>1
    <3>3. QED
      BY <1>1, <3>1, <3>2
  <2>4. /\ Left(t)' \subseteq Now(h) \ {h}
        /\ call'[t].op = "drop" => deleted'[h]
    BY <1>6, <1>7, <1>10, <2>1, <2>2, <2>3 DEF links
  <2>5. ControlInv' /\ OwnerInv' /\ OrderInv' => CallAware(t)'
    BY <1>1, <1>4, <1>6, <2>2, <2>4, VisitingAware
  <2>6. UNCHANGED <<links, newest>>
    BY <1>1, <1>10
  <2>7. QED
    BY <1>5, <1>8, <1>9, <2>5, <2>6, QuietKept
<1>11. CASE call[t].op = "drop" /\ DeleteSelf(h)
  <2>1. deleted' = [deleted EXCEPT ![h] = TRUE] /\ UNCHANGED next
    BY <1>11 DEF DeleteSelf
  <2>2. \A p : Now(p) = Live(p) \ {h}
    BY <1>1, <2>1, NowDelete
  <2>3. Contents(s)' = Contents(s) \ {h}
    BY <1>1, <2>2, Primed DEF Contents
  <2>4. Left(t)' = Contents(s)'
    BY <1>2, <1>6, <1>11 DEF Left
  <2>5. Left(t)' \subseteq Now(h) \ {h} /\ deleted'[h]
    BY <1>1, <1>7, <1>11, <2>1, <2>2, <2>3, <2>4 DEF TypeOK
  <2>6. ControlInv' /\ OwnerInv' /\ OrderInv' => CallAware(t)'
    BY <1>1, <1>4, <1>6, <2>4, <2>5, VisitingAware
  <2>7. Deletes(h)
    BY <1>1, <1>3, <2>1, KnownStale, HandsHold DEF IInv, Deletes
  <2>8. QED
    BY <1>5, <1>8, <1>9, <2>6, <2>7, DeleteKept
<1>12. QED
  BY <1>1, <1>3, <1>10, <1>11

(* It has come to the end.                                                 *)
LEMMA EndVisitsKept ==
    ASSUME IInv, Remember, NEW t \in Threads, EndVisits(t)
    PROVE  IInv'
<1>1. PICK s : s = call[t].on
  OBVIOUS
<1>2. /\ call[t].pc = "visit" /\ walk[t].stage = "done" /\ call[t].op \in {"iter", "drop"}
      /\ walk[t].valid = Null /\ Done(t) /\ UNCHANGED <<links, released>>
      /\ newest' = IF call[t].op = "drop" THEN [newest EXCEPT ![s] = Null] ELSE newest
      /\ TypeOK /\ VisitsAhead(t)
  BY <1>1, GotoFacts
     DEF EndVisits, Visiting, Current, At, InStage, IInv, ControlInv, CallInv, CallAware
<1>3. s \in Stacks
  BY <1>1, <1>2, Hands DEF IInv
<1>4. newest' \in [Stacks -> Pointers]
      /\ \A r \in Stacks : newest'[r] = IF r = s /\ call[t].op = "drop" THEN Null ELSE newest[r]
  BY <1>2, <1>3 DEF TypeOK, Pointers
<1>5. \A r \in Stacks : Contents(r)' = Contents(r)
  <2>1. Live(Null) = {}
    BY <1>2, LiveEntries
  <2>2. call[t].op = "drop" => Contents(s) = {}
    BY <1>1, <1>2, <2>1 DEF VisitsAhead, At, InStage, Left
  <2>3. \A p : Now(p) = Live(p)
    BY <1>2, NowQuiet
  <2>4. QED
    BY <1>4, <2>1, <2>2, <2>3, Primed DEF Contents
<1>6. Fresh' = Fresh
  BY <1>2, <1>5, Primed DEF Fresh, links
<1>7. \A r \in Stacks : newest'[r] \in Targets \cup Knows(t) \cup {Null}
                        /\ (Owned(newest'[r]) \/ newest'[r] \notin released')
  <2>1. \A r \in Stacks : newest[r] \in Targets /\ Owned(newest[r])
    BY TargetsOwned DEF Targets
  <2>2. Null \notin released'
    BY <1>2, EntriesAssumption DEF TypeOK
  <2>3. QED
    BY <1>4, <2>1, <2>2
<1>8. \A u \in Threads \ {t} :
         call[u].op = "drop" => newest'[call[u].on] = newest[call[u].on]
  <2> SUFFICES ASSUME NEW u \in Threads \ {t}, call[u].op = "drop"
               PROVE  newest'[call[u].on] = newest[call[u].on]
    OBVIOUS
  <2>1. call[t].on # call[u].on
    BY DEF IInv, ControlInv, DropsAlone
  <2>2. call[u].on \in Stacks
    BY <1>2, StacksAssumption DEF IInv, ControlInv, CallAgrees, OnStack, TypeOK, Calls
  <2>3. QED
    BY <1>1, <1>4, <2>1, <2>2
<1>9. /\ Moves(t, "none", "idle", Null, Null, Null, NoWalk)
      /\ Admitted(t, "none", Null) /\ HandsOwn(t, Null, {})
      /\ Reclaims(t, "none", Null, NoWalk)
      /\ {Null} \cup SearchPointers(NoWalk) \subseteq Knows(t) \cup Targets \cup {Null} \cup {}
      /\ CleansUp(t)' /\ CallAware(t)'
  BY <1>2, DoneMoves
<1>10. /\ {} \cap Fresh = {} /\ \A u \in Threads \ {t} : call[u].ptr \notin {}
       /\ Releases(t)
       /\ "idle" = "replace" => NoWalk.valid \notin released'
       /\ UNCHANGED links
       /\ ControlInv' /\ OwnerInv' /\ OrderInv' => CallAware(t)'
  BY <1>2, <1>9 DEF Releases
<1>11. QED
  BY <1>4, <1>6, <1>7, <1>8, <1>9, <1>10, LinksKept

(* A thread that runs no operation.                                        *)
LEMMA IdleMoves ==
    ASSUME IInv, NEW t \in Threads, call[t].pc = "idle", UNCHANGED <<walk, call>>
    PROVE  /\ Moves(t, call[t].op, "idle", call[t].on, call[t].ptr, call[t].entry, NoWalk)
           /\ Admitted(t, call[t].op, call[t].on) /\ HandsOwn(t, call[t].entry, {})
           /\ Reclaims(t, call[t].op, call[t].ptr, NoWalk)
           /\ {call[t].ptr} \cup SearchPointers(NoWalk) \subseteq Knows(t) \cup Targets \cup {Null}
           /\ CleansUp(t)' /\ CallAware(t)'
<1>1. /\ Becomes(t, call[t].op, "idle", call[t].on, call[t].ptr, call[t].entry)
      /\ TypeOK /\ CallAgrees(t) /\ walk[t] = NoWalk /\ call[t] \in Calls
  BY SameBecomes, Resting DEF IInv, ControlInv, TypeOK, SearchPlaces
<1>2. call[t].op = "none"
  BY <1>1 DEF CallAgrees, Calls, Places
<1>3. Finds(t, NoWalk)
  BY <1>1, Searched
<1>4. Moves(t, call[t].op, "idle", call[t].on, call[t].ptr, call[t].entry, NoWalk)
  BY <1>1, <1>2, <1>3 DEF Moves, SearchPlaces, CallAgrees
<1>5. call'[t].op = "none" /\ call'[t].pc = "idle"
  BY <1>1, <1>2 DEF Becomes
<1>6. CleansUp(t)' /\ CallAware(t)'
  BY <1>5, NothingToClean, OthersAware
<1>7. Reclaims(t, call[t].op, call[t].ptr, NoWalk)
  BY <1>2 DEF Reclaims
<1>8. QED
  BY <1>4, <1>6, <1>7, HandsHold, SearchHas

(* A program deletes an entry.                                             *)
LEMMA RemoveEntryKept ==
    ASSUME IInv, Remember, NEW t \in Threads, NEW s \in Stacks, NEW e \in Entries,
           RemoveEntry(t, s, e)
    PROVE  IInv'
<1>1. /\ call[t].pc = "idle" /\ UNCHANGED <<walk, call>>
      /\ Deletes(e)
  <2>1. e \notin Fresh
    BY DEF RemoveEntry, Fresh
  <2>2. QED
    BY <2>1 DEF RemoveEntry, At, DeleteSelf, Deletes, stacks
<1>2. /\ Moves(t, call[t].op, "idle", call[t].on, call[t].ptr, call[t].entry, NoWalk)
      /\ Admitted(t, call[t].op, call[t].on) /\ HandsOwn(t, call[t].entry, {})
      /\ Reclaims(t, call[t].op, call[t].ptr, NoWalk)
      /\ {call[t].ptr} \cup SearchPointers(NoWalk) \subseteq Knows(t) \cup Targets \cup {Null}
      /\ CleansUp(t)' /\ CallAware(t)'
  BY <1>1, IdleMoves
<1>3. /\ "idle" = "replace" => NoWalk.valid \notin released'
      /\ ControlInv' /\ OwnerInv' /\ OrderInv' => CallAware(t)'
  BY <1>2
<1>4. QED
  BY <1>1, <1>2, <1>3, DeleteKept

(* The entry a thread has in its hands joins the others in their order.    *)
LEMMA OrderAdded ==
    ASSUME IInv, NEW t \in Threads, Alone(t), \A P : SearchInOrder(t, P)',
           NEW d \in Fresh, Fresh' = Fresh \ {d},
           NEW R \in Orders, InOrder(R), NEW Q \in Orders,
           \A x, y \in Entries \ {d} : <<x, y>> \in R => <<x, y>> \in Q,
           \A e \in Entries \ Fresh' :
              next'[e] # Null => \/ <<e, next'[e]>> \in Q
                                 \/ e # d /\ next'[e] = next[e]
    PROVE  OrderInv'
<1>1. /\ TypeOK /\ d \notin Targets /\ \A u \in Threads : d \notin Knows(u)
  BY DEF IInv, ControlInv, OwnerInv, FreshUnknown
<1>2. ASSUME NEW e \in Entries \ Fresh', next'[e] # Null
      PROVE  <<e, next'[e]>> \in Q
  <2>1. CASE e # d /\ next'[e] = next[e]
    <3>1. e \in Entries \ Fresh /\ next[e] # Null
      BY <1>2, <2>1
    <3>2. <<e, next[e]>> \in R /\ next[e] \in Entries
      BY <1>1, <3>1 DEF InOrder, TypeOK, Pointers
    <3>3. next[e] # d
      BY <1>1 DEF Targets
    <3>4. QED
      BY <2>1, <3>2, <3>3
  <2>2. QED
    BY <1>2, <2>1
<1>3. ASSUME NEW u \in Threads \ {t} PROVE SearchInOrder(u, Q)'
  <2>1. /\ walk'[u] = walk[u] /\ SearchInOrder(u, R)
        /\ \A i \in Nested(u) :
              LET f == walk[u].frames[i]
              IN  f.head \in Entries \ {d} /\ f.look \in Pointers \ {d}
        /\ walk[u].valid \in Pointers \ {d}
        /\ walk[u].frames # <<>> =>
              /\ Len(walk[u].frames) \in Nested(u)
              /\ Inner(u) = walk[u].frames[Len(walk[u].frames)]
    BY <1>1, FramesKnown DEF Alone, InOrder
  <2>2. \A i \in Looking(u) :
           LET f == walk[u].frames[i]
           IN  <<f.head, f.look>> \in R /\ f.head \in Entries \ {d} /\ f.look \in Entries \ {d}
    <3> SUFFICES ASSUME NEW i \in Looking(u)
                 PROVE  LET f == walk[u].frames[i]
                        IN  /\ <<f.head, f.look>> \in R
                            /\ f.head \in Entries \ {d} /\ f.look \in Entries \ {d}
      OBVIOUS
    <3>1. i \in Nested(u)
      BY DEF Looking
    <3>2. <<walk[u].frames[i].head, walk[u].frames[i].look>> \in R
      BY <2>1 DEF SearchInOrder
    <3>3. walk[u].frames[i].look \in Entries
      BY <3>2 DEF Orders
    <3>4. QED
      BY <2>1, <3>1, <3>2, <3>3
  <2>3. Settled(u) => walk[u].frames # <<>>
    BY DEF IInv, ControlInv, WalkAgrees, Settled, InStage
  <2>4. Settled(u) /\ walk[u].valid # Null => <<Inner(u).head, walk[u].valid>> \in Q
    BY <2>1, <2>3 DEF SearchInOrder, Pointers
  <2>5. \A i \in Looking(u) : <<walk[u].frames[i].head, walk[u].frames[i].look>> \in Q
    BY <2>2
  <2>6. SearchInOrder(u, Q)
    BY <2>4, <2>5 DEF SearchInOrder
  <2>7. QED
    BY <2>1, <2>6 DEF SearchInOrder, Looking, Nested, Settled, InStage, Inner
<1>4. \A u \in Threads : SearchInOrder(u, Q)'
  BY <1>3
<1>5. (\A u \in Threads : SearchInOrder(u, Q))'
  BY <1>4
<1>6. (\A e \in Entries \ Fresh : next[e] # Null => <<e, next[e]>> \in Q)'
  BY <1>2
<1>7. InOrder(Q)'
  BY <1>5, <1>6 DEF InOrder
<1>8. QED
  BY <1>7 DEF OrderInv

(* An entry becomes the newest one: all the others are behind it.          *)
LEMMA AttachEntryKept ==
    ASSUME IInv, Remember, NEW t \in Threads, AttachEntry(t)
    PROVE  IInv'
<1>1. PICK s : s = call[t].on
  OBVIOUS
<1>2. /\ call[t].pc = "attach" /\ newest[s] = call[t].ptr /\ Done(t)
      /\ newest' = [newest EXCEPT ![s] = call[t].entry]
      /\ UNCHANGED <<links, released>>
      /\ TypeOK /\ LinksOn(t)
  BY <1>1, GotoFacts DEF AttachEntry, At, IInv, ControlInv
<1>3. s \in Stacks /\ newest[s] \in Targets
  BY <1>1, <1>2, Hands DEF IInv, Targets
<1>4. PICK d \in Entries : d = call[t].entry
  BY <1>2, Hands DEF IInv
<1>5. /\ d \in Fresh /\ d \notin Targets /\ \A u \in Threads : d \notin Knows(u)
      /\ d \notin released /\ ~deleted[d]
  BY <1>4, EntriesAssumption
     DEF IInv, OwnerInv, HandsFresh, FreshUnknown, ReleasedUnowned, Fresh
<1>6. next[d] = newest[s]
  <2>1. newest[s] \notin released
    BY <1>3, TargetsOwned DEF IInv, OwnerInv, ReleasedUnowned
  <2>2. QED
    BY <1>2, <1>4, <2>1 DEF LinksOn, At
<1>7. newest' \in [Stacks -> Pointers]
      /\ \A r \in Stacks : newest'[r] = IF r = s THEN d ELSE newest[r]
  BY <1>2, <1>3, <1>4 DEF TypeOK, Pointers
<1>8. next' = next /\ deleted' = deleted /\ released' = released
  BY <1>2 DEF links
<1>9. (\A p : Now(p) = Live(p)) /\ Keeps({})
  BY <1>2, NowQuiet
<1>10. Fresh' = Fresh \ {d}
  <2>1. Live(d) = {d} \cup Contents(s)
    BY <1>2, <1>5, <1>6, LiveUnfold DEF Contents
  <2>2. \A r \in Stacks : Contents(r)' = IF r = s THEN {d} \cup Contents(s) ELSE Contents(r)
    BY <1>7, <1>9, <2>1, Primed DEF Contents
  <2>3. Fresh' = {x \in Entries : ~deleted[x] /\ \A r \in Stacks : x \notin Contents(r)'}
    BY <1>8, Primed
  <2>4. QED
    BY <1>3, <2>2, <2>3 DEF Fresh
<1>11. \A u \in Threads \ {t} :
          call[u].op = "drop" => newest'[call[u].on] = newest[call[u].on]
  <2> SUFFICES ASSUME NEW u \in Threads \ {t}, call[u].op = "drop"
               PROVE  newest'[call[u].on] = newest[call[u].on]
    OBVIOUS
  <2>1. call[t].on # call[u].on
    BY DEF IInv, ControlInv, DropsAlone
  <2>2. call[u].on \in Stacks
    BY <1>2, StacksAssumption DEF IInv, ControlInv, CallAgrees, OnStack, TypeOK, Calls
  <2>3. QED
    BY <1>1, <1>7, <2>1, <2>2
<1>12. /\ \A v \in Targets' : Owned(v) \/ v \notin released'
       /\ Targets' \subseteq Targets \cup Knows(t) \cup {Null} \cup {d}
  <2>1. Targets' \subseteq Targets \cup {d}
    BY <1>7, <1>8, Primed DEF Targets
  <2>2. QED
    BY <1>5, <1>8, <2>1, TargetsOwned
<1>13. ASSUME \A P : SearchInOrder(t, P)', Alone(t) PROVE OrderInv'
  <2>1. PICK R \in Orders : InOrder(R)
    BY DEF IInv, OrderInv
  <2>2. PICK p : p = newest[s]
    OBVIOUS
  <2>3. p \in Pointers \ {d}
    BY <1>2, <1>3, <1>5, <2>2 DEF TypeOK
  <2>4. PICK B \in SUBSET (Entries \ {d}) :
           B = {x \in Entries \ {d} : x = p \/ <<p, x>> \in R}
    OBVIOUS
  <2>5. \E Q \in Orders :
           /\ \A x, y \in Entries \ {d} : <<x, y>> \in R => <<x, y>> \in Q
           /\ \A b \in B : <<d, b>> \in Q
    <3>1. \A b \in B : \A x \in Entries \ {d} : <<b, x>> \in R => x \in B
      <4> SUFFICES ASSUME NEW b \in B, NEW x \in Entries \ {d}, <<b, x>> \in R PROVE x \in B
        OBVIOUS
      <4>1. b = p \/ (<<p, b>> \in R /\ p \in Entries)
        BY <2>4 DEF Orders
      <4>2. <<p, x>> \in R
        BY <2>4, <4>1 DEF Orders
      <4>3. QED
        BY <2>4, <4>2
    <3>2. PICK A \in SUBSET (Entries \ {d}) : A = {}
      OBVIOUS
    <3>3. /\ \A a \in A, b \in B : <<a, b>> \in R
          /\ \A a \in A : \A x \in Entries \ {d} : <<x, a>> \in R => x \in A
      BY <3>2
    <3>4. \E Q \in Orders :
              /\ \A x, y \in Entries \ {d} : <<x, y>> \in R => <<x, y>> \in Q
              /\ \A a \in A : <<a, d>> \in Q
              /\ \A b \in B : <<d, b>> \in Q
      BY <3>1, <3>3, OrderInsert
    <3>5. QED
      BY <3>4
  <2>6. PICK Q \in Orders :
           /\ \A x, y \in Entries \ {d} : <<x, y>> \in R => <<x, y>> \in Q
           /\ \A b \in B : <<d, b>> \in Q
    BY <2>5
  <2>7. \A e \in Entries \ Fresh' :
           next'[e] # Null => \/ <<e, next'[e]>> \in Q
                              \/ e # d /\ next'[e] = next[e]
    BY <1>6, <1>8, <2>2, <2>3, <2>4, <2>6 DEF Pointers
  <2>8. QED
    BY <1>5, <1>10, <1>13, <2>1, <2>6, <2>7, OrderAdded
<1>14. /\ {} \subseteq Entries /\ {} \cap Targets = {}
       /\ \A u \in Threads \ {t} : {} \cap Knows(u) = {}
       /\ {d} \subseteq {call[t].entry}
       /\ \A x \in Fresh : x # call[t].entry => next'[x] = next[x]
       /\ {} \cap Fresh = {} /\ \A u \in Threads \ {t} : call[u].ptr \notin {}
       /\ Releases(t)
       /\ "idle" = "replace" => NoWalk.valid \notin released'
  BY <1>4, <1>8 DEF Releases
<1>15. /\ Moves(t, "none", "idle", Null, Null, Null, NoWalk)
       /\ Admitted(t, "none", Null) /\ HandsOwn(t, Null, {d})
       /\ Reclaims(t, "none", Null, NoWalk)
       /\ {Null} \cup SearchPointers(NoWalk) \subseteq Knows(t) \cup Targets \cup {Null} \cup {}
       /\ CleansUp(t)' /\ CallAware(t)'
  BY <1>2, DoneMoves
<1>16. /\ next' \in [Entries -> Pointers] /\ deleted' \in [Entries -> BOOLEAN]
       /\ (\A P : SearchInOrder(t, P)') /\ Alone(t) => OrderInv'
       /\ ControlInv' /\ OwnerInv' /\ OrderInv' => CallAware(t)'
  BY <1>2, <1>8, <1>13, <1>15 DEF TypeOK
<1>17. QED
  BY <1>7, <1>9, <1>10, <1>11, <1>12, <1>14, <1>15, <1>16, StepKept

(* An entry is linked in behind another one.                               *)
LEMMA InsertEntryKept ==
    ASSUME IInv, Remember, NEW t \in Threads, InsertEntry(t)
    PROVE  IInv'
<1>1. /\ call[t].pc = "insert" /\ next[call[t].ptr] = walk[t].valid /\ ~deleted[call[t].ptr]
      /\ next' = [next EXCEPT ![call[t].ptr] = call[t].entry]
      /\ Done(t) /\ UNCHANGED <<deleted, newest, released>>
      /\ TypeOK /\ LinksOn(t)
  BY GotoFacts DEF InsertEntry, At, IInv, ControlInv, stacks
<1>2. PICK e \in Entries : e = call[t].ptr
  BY <1>1, Hands DEF IInv
<1>3. PICK d \in Entries : d = call[t].entry
  BY <1>1, Hands DEF IInv
<1>4. /\ d \in Fresh /\ d \notin Targets /\ \A u \in Threads : d \notin Knows(u)
      /\ d \notin released /\ ~deleted[d]
  BY <1>3, EntriesAssumption
     DEF IInv, OwnerInv, HandsFresh, FreshUnknown, ReleasedUnowned, Fresh
<1>5. e # d /\ e \notin Fresh /\ next[e] \in Targets
  BY <1>2, <1>4, KnownStale, HandsHold DEF IInv, Targets
<1>6. next[d] = next[e]
  <2>1. next[e] \notin released
    BY <1>5, TargetsOwned DEF IInv, OwnerInv, ReleasedUnowned
  <2>2. QED
    BY <1>1, <1>2, <1>3, <2>1 DEF LinksOn, At
<1>7. next' = [next EXCEPT ![e] = d] /\ next' \in [Entries -> Pointers]
      /\ (\A n \in Entries : next'[n] = IF n = e THEN d ELSE next[n])
      /\ newest' = newest /\ deleted' = deleted /\ released' = released
      /\ newest' \in [Stacks -> Pointers] /\ deleted' \in [Entries -> BOOLEAN]
  BY <1>1, <1>2, <1>3 DEF TypeOK, Pointers
<1>8. /\ \A p : p # d => Now(p) = Live(p) \cup (IF e \in Live(p) THEN {d} ELSE {})
      /\ Keeps({d})
  <2>1. /\ TypeOK /\ e # d /\ d \notin Targets /\ next[d] = next[e]
        /\ ~deleted[e] /\ ~deleted[d]
        /\ next' = [next EXCEPT ![e] = d] /\ UNCHANGED deleted
    BY <1>1, <1>2, <1>4, <1>5, <1>6, <1>7
  <2>2. QED
    BY <2>1, NowInsert
<1>9. Fresh' = Fresh \ {d}
  <2>1. \A r \in Stacks : newest[r] # d
    BY <1>4 DEF Targets
  <2>2. \A r \in Stacks :
           Contents(r)' = Contents(r) \cup (IF e \in Contents(r) THEN {d} ELSE {})
    BY <1>7, <1>8, <2>1, Primed DEF Contents
  <2>3. \E r \in Stacks : e \in Contents(r)
    BY <1>1, <1>2, <1>5 DEF Fresh
  <2>4. Fresh' = {x \in Entries : ~deleted[x] /\ \A r \in Stacks : x \notin Contents(r)'}
    BY <1>7, Primed
  <2>5. QED
    BY <2>2, <2>3, <2>4 DEF Fresh
<1>10. /\ \A v \in Targets' : Owned(v) \/ v \notin released'
       /\ Targets' \subseteq Targets \cup Knows(t) \cup {Null} \cup {d}
  <2>1. Targets' \subseteq Targets \cup {d}
    BY <1>7, Primed DEF Targets
  <2>2. QED
    BY <1>4, <1>7, <2>1, TargetsOwned
<1>11. ASSUME \A P : SearchInOrder(t, P)', Alone(t) PROVE OrderInv'
  <2>1. PICK R \in Orders : InOrder(R)
    BY DEF IInv, OrderInv
  <2>2. PICK A \in SUBSET (Entries \ {d}) :
           A = {x \in Entries \ {d} : x = e \/ <<x, e>> \in R}
    OBVIOUS
  <2>3. PICK B \in SUBSET (Entries \ {d}) : B = {x \in Entries \ {d} : <<e, x>> \in R}
    OBVIOUS
  <2>4. \A a, b, c \in Entries : <<a, b>> \in R /\ <<b, c>> \in R => <<a, c>> \in R
    BY DEF Orders
  <2>5. \E Q \in Orders :
           /\ \A x, y \in Entries \ {d} : <<x, y>> \in R => <<x, y>> \in Q
           /\ \A a \in A : <<a, d>> \in Q
           /\ \A b \in B : <<d, b>> \in Q
    <3>1. \A a \in A, b \in B : <<a, b>> \in R
      BY <2>2, <2>3, <2>4
    <3>2. \A a \in A : \A x \in Entries \ {d} : <<x, a>> \in R => x \in A
      BY <2>2, <2>4
    <3>3. \A b \in B : \A x \in Entries \ {d} : <<b, x>> \in R => x \in B
      BY <2>3, <2>4
    <3>4. QED
      BY <3>1, <3>2, <3>3, OrderInsert
  <2>6. PICK Q \in Orders :
           /\ \A x, y \in Entries \ {d} : <<x, y>> \in R => <<x, y>> \in Q
           /\ \A a \in A : <<a, d>> \in Q
           /\ \A b \in B : <<d, b>> \in Q
    BY <2>5
  <2>7. <<e, d>> \in Q
    BY <1>5, <2>2, <2>6
  <2>8. next[e] # Null => <<d, next[e]>> \in Q
    <3>1. next[e] \in Pointers \ {d} /\ (next[e] # Null => <<e, next[e]>> \in R)
      BY <1>1, <1>4, <1>5, <2>1 DEF InOrder, TypeOK
    <3>2. QED
      BY <2>3, <2>6, <3>1 DEF Pointers
  <2>9. \A n \in Entries \ Fresh' :
           next'[n] # Null => \/ <<n, next'[n]>> \in Q
                              \/ n # d /\ next'[n] = next[n]
    BY <1>5, <1>6, <1>7, <2>7, <2>8
  <2>10. QED
    BY <1>4, <1>9, <1>11, <2>1, <2>6, <2>9, OrderAdded
<1>12. /\ {d} \subseteq Entries /\ {d} \cap Targets = {}
       /\ \A u \in Threads \ {t} : {d} \cap Knows(u) = {}
       /\ {d} \subseteq {call[t].entry}
       /\ \A x \in Fresh : x # call[t].entry => next'[x] = next[x]
       /\ {} \cap Fresh = {} /\ \A u \in Threads \ {t} : call[u].ptr \notin {}
       /\ Releases(t)
       /\ "idle" = "replace" => NoWalk.valid \notin released'
       /\ \A u \in Threads \ {t} :
             call[u].op = "drop" => newest'[call[u].on] = newest[call[u].on]
  <2>1. \A x \in Fresh : x \in Entries /\ x # e
    BY <1>5 DEF Fresh
  <2>2. QED
    BY <1>3, <1>4, <1>7, <2>1 DEF Releases
<1>13. /\ Moves(t, "none", "idle", Null, Null, Null, NoWalk)
       /\ Admitted(t, "none", Null) /\ HandsOwn(t, Null, {d})
       /\ Reclaims(t, "none", Null, NoWalk)
       /\ {Null} \cup SearchPointers(NoWalk) \subseteq Knows(t) \cup Targets \cup {Null} \cup {}
       /\ CleansUp(t)' /\ CallAware(t)'
  BY <1>1, DoneMoves
<1>14. /\ (\A P : SearchInOrder(t, P)') /\ Alone(t) => OrderInv'
       /\ ControlInv' /\ OwnerInv' /\ OrderInv' => CallAware(t)'
  BY <1>11, <1>13
<1>15. QED
  BY <1>7, <1>8, <1>9, <1>10, <1>12, <1>13, <1>14, StepKept

(***************************************************************************)
(* Part 9: the calls that begin.                                           *)
(***************************************************************************)
LEMMA IdleHands ==
    ASSUME IInv, NEW t \in Threads, At(t, "idle")
    PROVE  /\ TypeOK /\ walk[t] = NoWalk /\ Null \in Pointers
           /\ call[t].op = "none" /\ call[t].on = Null /\ call[t].entry = Null
           /\ UNCHANGED walk => Finds(t, NoWalk)
<1>1. /\ TypeOK /\ CallAgrees(t) /\ walk[t] = NoWalk /\ call[t] \in Calls
  BY Resting DEF IInv, ControlInv, TypeOK, SearchPlaces, At
<1>2. call[t].op = "none"
  BY <1>1 DEF CallAgrees, Calls, Places, At
<1>3. call[t].on = Null /\ call[t].entry = Null
  BY <1>1, <1>2 DEF CallAgrees, OnStack
<1>4. UNCHANGED walk => Finds(t, NoWalk)
  BY <1>1, Searched
<1>5. Null \in Pointers
  BY DEF Pointers
<1>6. QED
  BY <1>1, <1>2, <1>3, <1>4, <1>5

(* An entry nobody uses is one to push.                                    *)
LEMMA UnusedOwn ==
    ASSUME IInv, NEW t \in Threads, NEW e \in Unused
    PROVE  e \in Entries /\ e # Null /\ HandsOwn(t, e, {})
<1>1. e \in Entries /\ e \in Fresh /\ \A u \in Threads : call[u].entry # e
  BY DEF Unused, Fresh
<1>2. QED
  BY <1>1, EntriesAssumption DEF HandsOwn

(* An operation on a stack begins by reading `newest'.                     *)
LEMMA BeginKept ==
    ASSUME IInv, Remember, NEW t \in Threads,
           NEW op \in {"push", "pop", "iter", "drop"}, NEW s \in Stacks, NEW e \in Pointers,
           Begin(t, op, s, e), HandsOwn(t, e, {}), op = "push" <=> e # Null,
           op = "drop" => Using(s) = {}
    PROVE  IInv'
<1>1. /\ At(t, "idle") /\ ~Dropping(s)
      /\ call' = [call EXCEPT ![t] = CallOf(op, "clean", s, newest[s], e)]
      /\ UNCHANGED <<links, walk, newest, released>>
  BY DEF Begin, stacks
<1>2. TypeOK /\ Finds(t, NoWalk) /\ newest' = newest
  BY <1>1, IdleHands
<1>3. PICK p \in Pointers : p = newest[s]
  BY <1>2 DEF TypeOK
<1>4. Becomes(t, op, "clean", s, p, e)
  BY <1>1, <1>2, <1>3, CallOfBecomes
<1>5. Moves(t, op, "clean", s, p, e, NoWalk)
  <2>1. s # Null /\ op \in OnStack /\ "clean" \in Places(op)
        /\ op \notin {"push_back", "release"}
    BY StacksAssumption DEF OnStack, Places
  <2>2. QED
    BY <1>2, <1>4, <2>1 DEF Moves, SearchPlaces
<1>6. /\ call'[t].op = op /\ call'[t].pc = "clean" /\ call'[t].on = s
      /\ call'[t].ptr = p /\ newest'[s] = p
  BY <1>2, <1>3, <1>4 DEF Becomes
<1>7. CleansUp(t)' /\ (ControlInv' /\ OwnerInv' /\ OrderInv' => CallAware(t)')
  BY <1>6, NothingToClean, CleanAware
<1>8. /\ {p} \cup SearchPointers(NoWalk) \subseteq Knows(t) \cup Targets \cup {Null}
      /\ Reclaims(t, op, p, NoWalk) /\ Releases(t)
      /\ "clean" = "replace" => NoWalk.valid \notin released'
  BY <1>1, <1>3, SearchHas DEF Targets, Reclaims, Releases
<1>9. Admitted(t, op, s)
  BY <1>1 DEF Admitted
<1>10. UNCHANGED <<links, newest>>
  BY <1>1
<1>11. QED
  BY <1>5, <1>7, <1>8, <1>9, <1>10, QuietKept

(* push(), pop(), iter() and drop().                                       *)
LEMMA BeginsKept ==
    ASSUME IInv, Remember, NEW t \in Threads, NEW s \in Stacks,
           BeginPush(t, s) \/ BeginPop(t, s) \/ BeginIter(t, s) \/ BeginDrop(t, s)
    PROVE  IInv'
<1>1. HandsOwn(t, Null, {}) /\ Null \in Pointers
  BY HandsHold DEF Pointers
<1>2. CASE BeginPush(t, s)
  <2>1. PICK e : e = CHOOSE x \in Unused \ Inserts : TRUE
    OBVIOUS
  <2>2. e \in Unused /\ Begin(t, "push", s, e)
    BY <1>2, <2>1 DEF BeginPush
  <2>3. e \in Pointers /\ e # Null /\ HandsOwn(t, e, {})
    BY <2>2, UnusedOwn DEF Pointers
  <2>4. QED
    BY <2>2, <2>3, BeginKept
<1>3. CASE BeginPop(t, s)
  <2>1. Begin(t, "pop", s, Null)
    BY <1>3 DEF BeginPop
  <2>2. QED
    BY <1>1, <2>1, BeginKept
<1>4. CASE BeginIter(t, s)
  <2>1. Begin(t, "iter", s, Null)
    BY <1>4 DEF BeginIter
  <2>2. QED
    BY <1>1, <2>1, BeginKept
<1>5. CASE BeginDrop(t, s)
  <2>1. Begin(t, "drop", s, Null) /\ Using(s) = {}
    BY <1>5 DEF BeginDrop
  <2>2. QED
    BY <1>1, <2>1, BeginKept
<1>6. QED
  BY <1>2, <1>3, <1>4, <1>5

(* clone(), whose iterator starts without cleaning up.                     *)
LEMMA BeginCloneKept ==
    ASSUME IInv, Remember, NEW t \in Threads, NEW s \in Stacks, BeginClone(t, s)
    PROVE  IInv'
<1>1. /\ At(t, "idle") /\ ~Dropping(s)
      /\ call' = [call EXCEPT ![t] = CallOf("iter", "visit", s, Null, Null)]
      /\ walk' = [walk EXCEPT ![t] = Found(newest[s])]
      /\ UNCHANGED <<links, newest, released>>
  BY DEF BeginClone, stacks
<1>2. TypeOK /\ Null \in Pointers /\ newest' = newest
  BY <1>1, IdleHands
<1>3. PICK v \in Pointers : v = newest[s]
  BY <1>2 DEF TypeOK
<1>4. Becomes(t, "iter", "visit", s, Null, Null) /\ Finds(t, Found(v)) /\ Found(v).valid = v
  BY <1>1, <1>2, <1>3, CallOfBecomes, Searched, SearchValues
<1>5. Moves(t, "iter", "visit", s, Null, Null, Found(v))
  <2>1. s # Null /\ "iter" \in OnStack /\ "visit" \in Places("iter")
    BY StacksAssumption DEF OnStack, Places
  <2>2. QED
    BY <1>4, <2>1 DEF Moves, SearchPlaces
<1>6. call'[t].op = "iter" /\ call'[t].pc = "visit" /\ call'[t].on = s
  BY <1>4 DEF Becomes
<1>7. CleansUp(t)' /\ (ControlInv' /\ OwnerInv' /\ OrderInv' => CallAware(t)')
  <2>1. Left(t)' \subseteq Contents(s)'
    BY <1>6, Remembered DEF Left
  <2>2. Contents(s)' = Now(v)
    BY <1>2, <1>3, Primed
  <2>3. QED
    BY <1>4, <1>6, <2>1, <2>2, NothingToClean, VisitingAware
<1>8. /\ {Null} \cup SearchPointers(Found(v)) \subseteq Knows(t) \cup Targets \cup {Null}
      /\ Reclaims(t, "iter", Null, Found(v)) /\ Releases(t)
      /\ Admitted(t, "iter", s) /\ HandsOwn(t, Null, {})
      /\ "visit" = "replace" => Found(v).valid \notin released'
  BY <1>1, <1>3, SearchHas, HandsHold DEF Targets, Reclaims, Releases, Admitted
<1>9. UNCHANGED <<links, newest>>
  BY <1>1
<1>10. QED
  BY <1>5, <1>7, <1>8, <1>9, QuietKept

(* pop_all() moves what `newest' leads to to another stack.                *)
LEMMA PopAllKept ==
    ASSUME IInv, Remember, NEW t \in Threads, NEW s \in Stacks, NEW r \in Stacks \ {s},
           PopAll(t, s, r)
    PROVE  IInv'
<1>1. /\ call[t].pc = "idle" /\ ~Dropping(s) /\ newest[r] = Null /\ Using(r) = {}
      /\ newest' = [newest EXCEPT ![s] = Null, ![r] = newest[s]]
      /\ UNCHANGED links /\ UNCHANGED released /\ UNCHANGED <<walk, call>>
      /\ TypeOK
  BY DEF PopAll, At, IInv, ControlInv
<1>2. /\ newest' \in [Stacks -> Pointers]
      /\ \A q \in Stacks : newest'[q] = IF q = r THEN newest[s]
                                        ELSE IF q = s THEN Null ELSE newest[q]
  BY <1>1 DEF TypeOK, Pointers
<1>3. Fresh' = Fresh
  <2>1. (\A p : Now(p) = Live(p)) /\ Live(Null) = {}
    BY <1>1, NowQuiet, LiveEntries
  <2>2. \A q \in Stacks : Contents(q)' = IF q = r THEN Contents(s)
                                         ELSE IF q = s THEN {} ELSE Contents(q)
    BY <1>2, <2>1, Primed DEF Contents
  <2>3. Contents(r) = {}
    BY <1>1, <2>1 DEF Contents
  <2>4. \A d : (\A q \in Stacks : d \notin Contents(q)') <=> (\A q \in Stacks : d \notin Contents(q))
    BY <2>2, <2>3
  <2>5. Fresh' = {x \in Entries : ~deleted[x] /\ \A q \in Stacks : x \notin Contents(q)'}
    BY <1>1, Primed DEF links
  <2>6. QED
    BY <2>4, <2>5 DEF Fresh
<1>4. \A q \in Stacks : newest'[q] \in Targets \cup Knows(t) \cup {Null}
                        /\ (Owned(newest'[q]) \/ newest'[q] \notin released')
  <2>1. \A q \in Stacks : newest[q] \in Targets /\ Owned(newest[q])
    BY TargetsOwned DEF Targets
  <2>2. Null \notin released'
    BY <1>1, EntriesAssumption DEF TypeOK
  <2>3. QED
    BY <1>2, <2>1, <2>2
<1>5. \A u \in Threads \ {t} :
         call[u].op = "drop" => newest'[call[u].on] = newest[call[u].on]
  <2> SUFFICES ASSUME NEW u \in Threads \ {t}, call[u].op = "drop"
               PROVE  newest'[call[u].on] = newest[call[u].on]
    OBVIOUS
  <2>1. call[u].on \in Stacks
    BY <1>1, StacksAssumption DEF IInv, ControlInv, CallAgrees, OnStack, TypeOK, Calls
  <2>2. call[u].on # s /\ call[u].on # r
    BY <1>1 DEF Dropping, Using
  <2>3. QED
    BY <1>2, <2>1, <2>2
<1>6. /\ Moves(t, call[t].op, "idle", call[t].on, call[t].ptr, call[t].entry, NoWalk)
      /\ Admitted(t, call[t].op, call[t].on) /\ HandsOwn(t, call[t].entry, {})
      /\ Reclaims(t, call[t].op, call[t].ptr, NoWalk)
      /\ {call[t].ptr} \cup SearchPointers(NoWalk) \subseteq Knows(t) \cup Targets \cup {Null} \cup {}
      /\ CleansUp(t)' /\ CallAware(t)'
  BY <1>1, IdleMoves
<1>7. /\ {} \cap Fresh = {} /\ \A u \in Threads \ {t} : call[u].ptr \notin {}
      /\ Releases(t)
      /\ "idle" = "replace" => NoWalk.valid \notin released'
      /\ ControlInv' /\ OwnerInv' /\ OrderInv' => CallAware(t)'
      /\ UNCHANGED links
  BY <1>1, <1>6 DEF Releases
<1>8. QED
  BY <1>2, <1>3, <1>4, <1>5, <1>6, <1>7, LinksKept

(* next_ptr() of an entry.                                                 *)
LEMMA BeginNextKept ==
    ASSUME IInv, Remember, NEW t \in Threads, NEW s \in Stacks, NEW e \in Entries,
           BeginNext(t, s, e)
    PROVE  IInv'
<1>1. /\ At(t, "idle") /\ e \in Reach(next, newest[s])
      /\ call' = [call EXCEPT ![t] = CallOf("next_ptr", "next_ptr", Null, e, Null)]
      /\ walk' = [walk EXCEPT ![t] = StartWalk(e)]
      /\ UNCHANGED <<links, newest, released>>
  BY DEF BeginNext, Search, stacks
<1>2. TypeOK /\ Null \in Pointers /\ e \in Pointers
  BY <1>1, IdleHands DEF Pointers
<1>3. Becomes(t, "next_ptr", "next_ptr", Null, e, Null) /\ Finds(t, StartWalk(e))
  BY <1>1, <1>2, CallOfBecomes, Searched
<1>4. Moves(t, "next_ptr", "next_ptr", Null, e, Null, StartWalk(e))
  BY <1>3 DEF Moves, Places, OnStack, SearchPlaces
<1>5. CleansUp(t)' /\ CallAware(t)'
  <2>1. call'[t].op = "next_ptr" /\ call'[t].pc = "next_ptr"
    BY <1>3 DEF Becomes
  <2>2. QED
    BY <2>1, NothingToClean, OthersAware
<1>6. e \in Targets
  BY <1>1, <1>2, ReachKnown DEF Targets
<1>7. /\ {e} \cup SearchPointers(StartWalk(e)) \subseteq Knows(t) \cup Targets \cup {Null}
      /\ Reclaims(t, "next_ptr", e, StartWalk(e)) /\ Releases(t)
      /\ Admitted(t, "next_ptr", Null) /\ HandsOwn(t, Null, {})
      /\ "next_ptr" = "replace" => StartWalk(e).valid \notin released'
      /\ ControlInv' /\ OwnerInv' /\ OrderInv' => CallAware(t)'
      /\ UNCHANGED <<links, newest>>
  BY <1>1, <1>5, <1>6, SearchHas, HandsHold DEF Reclaims, Releases
<1>8. QED
  BY <1>4, <1>5, <1>7, QuietKept

(* push_back() behind an entry.                                            *)
LEMMA BeginPushBackKept ==
    ASSUME IInv, Remember, NEW t \in Threads, NEW s \in Stacks, NEW e \in Entries,
           BeginPushBack(t, s, e)
    PROVE  IInv'
<1>1. PICK d \in Unused :
         call' = [call EXCEPT ![t] = CallOf("push_back", "join", Null, e, d)]
  BY DEF BeginPushBack
<1>2. /\ At(t, "idle") /\ e \in Contents(s)
      /\ walk' = [walk EXCEPT ![t] = Found(next[e])]
      /\ UNCHANGED <<links, newest, released>>
  BY DEF BeginPushBack, stacks
<1>3. /\ TypeOK /\ Null \in Pointers /\ e \in Pointers /\ e # Null
      /\ d \in Pointers /\ d # Null /\ HandsOwn(t, d, {})
  BY <1>1, <1>2, IdleHands, UnusedOwn, EntriesAssumption DEF Pointers
<1>4. PICK v \in Pointers : v = next[e]
  BY <1>3 DEF TypeOK
<1>5. Becomes(t, "push_back", "join", Null, e, d) /\ Finds(t, Found(v)) /\ Found(v).valid = v
  BY <1>1, <1>2, <1>3, <1>4, CallOfBecomes, Searched, SearchValues
<1>6. Moves(t, "push_back", "join", Null, e, d, Found(v))
  BY <1>3, <1>5 DEF Moves, Places, OnStack, SearchPlaces
<1>7. CleansUp(t)' /\ CallAware(t)'
  <2>1. call'[t].op = "push_back" /\ call'[t].pc = "join"
    BY <1>5 DEF Becomes
  <2>2. QED
    BY <2>1, NothingToClean, OthersAware
<1>8. e \in Targets /\ v \in Targets
  <2>1. e \in Reach(next, newest[s])
    BY <1>2, <1>3, LiveEntries DEF Contents
  <2>2. QED
    BY <1>3, <1>4, <2>1, ReachKnown DEF Targets
<1>9. /\ {e} \cup SearchPointers(Found(v)) \subseteq Knows(t) \cup Targets \cup {Null}
      /\ Reclaims(t, "push_back", e, Found(v)) /\ Releases(t)
      /\ Admitted(t, "push_back", Null)
      /\ "join" = "replace" => Found(v).valid \notin released'
      /\ ControlInv' /\ OwnerInv' /\ OrderInv' => CallAware(t)'
      /\ UNCHANGED <<links, newest>>
  BY <1>2, <1>7, <1>8, SearchHas, HandsHold DEF Reclaims, Releases
<1>10. QED
  BY <1>3, <1>6, <1>7, <1>9, QuietKept

(* The drop of an entry.                                                   *)
LEMMA BeginReleaseKept ==
    ASSUME IInv, Remember, NEW t \in Threads, NEW d \in Entries, BeginRelease(t, d)
    PROVE  IInv'
<1>1. /\ At(t, "idle") /\ d \in Gone
      /\ call' = [call EXCEPT ![t] = CallOf("release", "release", Null, d, Null)]
      /\ walk' = [walk EXCEPT ![t] = StartWalk(next[d])]
      /\ UNCHANGED links /\ UNCHANGED newest /\ UNCHANGED released
  BY DEF BeginRelease, Search, stacks
<1>2. /\ TypeOK /\ Null \in Pointers /\ d \in Pointers /\ d # Null
      /\ deleted[d] /\ ~Owned(d) /\ next[d] # Null
      /\ \A u \in Threads : d \notin CallPointers(u)
  BY <1>1, IdleHands, EntriesAssumption DEF Pointers, Gone
<1>3. PICK h \in Entries : h = next[d]
  BY <1>2 DEF TypeOK, Pointers
<1>4. Becomes(t, "release", "release", Null, d, Null) /\ Finds(t, StartWalk(h))
  BY <1>1, <1>2, <1>3, CallOfBecomes, Searched
<1>5. Moves(t, "release", "release", Null, d, Null, StartWalk(h))
  BY <1>2, <1>4 DEF Moves, Places, OnStack, SearchPlaces
<1>6. CleansUp(t)' /\ CallAware(t)'
  <2>1. call'[t].op = "release" /\ call'[t].pc = "release"
    BY <1>4 DEF Becomes
  <2>2. QED
    BY <2>1, NothingToClean, OthersAware
<1>7. /\ h \in Targets /\ d \notin Targets
      /\ \A u \in Threads : d \notin Knows(u)
      /\ \A u \in Threads \ {t} : call[u].ptr \notin {d}
  BY <1>2, <1>3, TargetsOwned DEF Targets, CallPointers, Knows
<1>8. Reclaims(t, "release", d, StartWalk(h))
  <2>1. deleted'[d] /\ Targets' = Targets
    BY <1>1, <1>2, Primed DEF links, Targets
  <2>2. d \notin SearchPointers(StartWalk(h))
    BY <1>2, <1>7, SearchHas
  <2>3. QED
    BY <1>7, <2>1, <2>2 DEF Reclaims
<1>9. Fresh' = Fresh
  <2>1. \A p : Now(p) = Live(p)
    BY <1>1, NowQuiet
  <2>2. QED
    BY <1>1, <2>1, Primed DEF Fresh, Contents, links
<1>10. /\ newest' \in [Stacks -> Pointers]
       /\ \A r \in Stacks : newest'[r] \in Targets \cup Knows(t) \cup {Null}
                            /\ (Owned(newest'[r]) \/ newest'[r] \notin released')
       /\ \A u \in Threads \ {t} :
             call[u].op = "drop" => newest'[call[u].on] = newest[call[u].on]
  BY <1>1, <1>2, TargetsOwned DEF TypeOK, Targets
<1>11. PICK Z : Z = {d}
  OBVIOUS
<1>12. /\ Z \cap Fresh = {} /\ \A u \in Threads \ {t} : call[u].ptr \notin Z
       /\ {d} \cup SearchPointers(StartWalk(h)) \subseteq Knows(t) \cup Targets \cup {Null} \cup Z
       /\ Releases(t)
       /\ Admitted(t, "release", Null) /\ HandsOwn(t, Null, {})
       /\ "release" = "replace" => StartWalk(h).valid \notin released'
       /\ ControlInv' /\ OwnerInv' /\ OrderInv' => CallAware(t)'
       /\ UNCHANGED links /\ CleansUp(t)'
  BY <1>1, <1>2, <1>6, <1>7, <1>11, SearchHas, HandsHold DEF Releases, Fresh
<1>13. QED
  BY <1>5, <1>8, <1>9, <1>10, <1>12, LinksKept

(***************************************************************************)
(* Part 10: the invariant, and what follows from it.                       *)
(***************************************************************************)
LEMMA InitControl ==
    ASSUME Init
    PROVE  /\ ControlInv
           /\ \A e \in Entries : next[e] = Null /\ ~deleted[e]
           /\ \A s \in Stacks : newest[s] = Null
           /\ \A t \in Threads : walk[t] = NoWalk /\ call[t] = Idle
           /\ released = {}
<1>1. Null \in Pointers
  BY DEF Pointers
<1>2. PICK w : w = NoWalk
  OBVIOUS
<1>3. w \in Searches /\ w.frames = <<>> /\ w.stage = "none" /\ w.valid = Null
  <2>1. <<>> \in Seq(Frames)
    OBVIOUS
  <2>2. QED
    BY <1>1, <1>2, <2>1 DEF NoWalk, Searches
<1>4. PICK c : c = Idle
  OBVIOUS
<1>5. /\ c \in Calls /\ c.op = "none" /\ c.pc = "idle" /\ c.on = Null /\ c.ptr = Null
      /\ c.entry = Null
  BY <1>1, <1>4 DEF Idle, Calls
<1>6. /\ walk = [t \in Threads |-> w] /\ call = [t \in Threads |-> c]
      /\ next = [e \in Entries |-> Null] /\ deleted = [e \in Entries |-> FALSE]
      /\ newest = [s \in Stacks |-> Null] /\ released = {}
      /\ seen = [t \in Threads |-> {}]
  BY <1>2, <1>4 DEF Init, LinksInit
<1>7. TypeOK
  BY <1>1, <1>3, <1>5, <1>6 DEF TypeOK
<1>8. \A t \in Threads : CallAgrees(t) /\ WalkAgrees(t)
  BY <1>3, <1>5, <1>6 DEF CallAgrees, WalkAgrees, Places, OnStack, At
<1>9. DropsAlone
  BY <1>5, <1>6 DEF DropsAlone
<1>10. QED
  BY <1>2, <1>4, <1>6, <1>7, <1>8, <1>9 DEF ControlInv

(* The invariant holds of empty stacks.                                    *)
LEMMA InitKept ==
    ASSUME Init
    PROVE  IInv
<1>1. /\ ControlInv /\ TypeOK
      /\ \A e \in Entries : next[e] = Null /\ ~deleted[e]
      /\ \A s \in Stacks : newest[s] = Null
      /\ \A t \in Threads : walk[t] = NoWalk /\ call[t] = Idle
      /\ released = {}
  BY InitControl DEF ControlInv
<1>2. /\ \A t \in Threads : /\ walk[t].frames = <<>> /\ walk[t].stage = "none"
                            /\ walk[t].valid = Null /\ WalkPointers(t) = {Null}
                            /\ Nested(t) = {} /\ ~Settled(t)
      /\ \A t \in Threads : /\ call[t].op = "none" /\ call[t].pc = "idle"
                            /\ call[t].ptr = Null /\ call[t].entry = Null
  <2>1. \A t \in Threads : /\ walk[t].frames = <<>> /\ walk[t].stage = "none"
                           /\ walk[t].valid = Null
    BY <1>1, SearchValues
  <2>2. \A t \in Threads : WalkPointers(t) = {Null}
    BY <1>1, SearchHas DEF WalkPointers
  <2>3. \A t \in Threads : Nested(t) = {}
    BY <2>1 DEF Nested
  <2>4. \A t \in Threads : ~Settled(t)
    BY <2>1 DEF Settled, InStage
  <2>5. QED
    BY <1>1, <2>1, <2>2, <2>3, <2>4 DEF Idle
<1>3. OwnerInv
  <2>1. FreshUnknown
    <3>1. \A x \in Targets : x = Null
      BY <1>1 DEF Targets
    <3>2. \A t \in Threads : Knows(t) = {Null}
      BY <1>2 DEF Knows
    <3>3. \A d \in Fresh : d # Null
      BY EntriesAssumption DEF Fresh
    <3>4. QED
      BY <3>1, <3>2, <3>3 DEF FreshUnknown
  <2>2. HandsFresh /\ ReleasedUnowned /\ ReclaimedUnknown
    BY <1>1, <1>2 DEF HandsFresh, ReleasedUnowned, ReclaimedUnknown
  <2>3. QED
    BY <2>1, <2>2 DEF OwnerInv
<1>4. OrderInv
  <2>1. {} \in Orders
    BY DEF Orders
  <2>2. \A t \in Threads : SearchInOrder(t, {})
    BY <1>2 DEF SearchInOrder, Looking
  <2>3. InOrder({})
    BY <1>1, <2>2 DEF InOrder
  <2>4. QED
    BY <2>1, <2>3 DEF OrderInv
<1>5. SearchInv
  BY <1>2 DEF SearchInv, SearchAgrees, CleansUp, At
<1>6. CallInv
  BY <1>2 DEF CallInv, CallAware, VisitsAhead, SawNewest, LinksOn, Ends, At
<1>7. QED
  BY <1>1, <1>3, <1>4, <1>5, <1>6 DEF IInv

(* Every step keeps it.                                                    *)
LEMMA NextKept ==
    ASSUME IInv, Next
    PROVE  IInv'
<1>1. PICK t \in Threads : StepOf(t)
  BY NextCases
<1>2. Remember
  BY NextCases
<1>3. CASE \E s \in Stacks :
              BeginPush(t, s) \/ BeginPop(t, s) \/ BeginIter(t, s) \/ BeginDrop(t, s)
  BY <1>2, <1>3, BeginsKept
<1>4. CASE \E s \in Stacks : BeginClone(t, s) \/ \E r \in Stacks \ {s} : PopAll(t, s, r)
  BY <1>2, <1>4, BeginCloneKept, PopAllKept
<1>5. CASE \E s \in Stacks : \E e \in Entries :
              RemoveEntry(t, s, e) \/ BeginNext(t, s, e) \/ BeginPushBack(t, s, e)
  BY <1>2, <1>5, RemoveEntryKept, BeginNextKept, BeginPushBackKept
<1>6. CASE \E d \in Entries : BeginRelease(t, d)
  BY <1>2, <1>6, BeginReleaseKept
<1>7. CASE FindNext(t) \/ ShareNext(t) \/ ShareFails(t) \/ ReplaceNewest(t)
  BY <1>2, <1>7, FindNextKept, ShareNextKept, ShareFailsKept, ReplaceNewestKept
<1>8. CASE Answer(t) \/ RefusePop(t) \/ EndNext(t) \/ RefusePush(t) \/ RefuseInsert(t)
           \/ EndRelease(t)
  BY <1>2, <1>8, AnswerKept, RefusePushKept, RefuseInsertKept, EndReleaseKept
<1>9. CASE AcceptPush(t) \/ TryNewest(t) \/ MissNewest(t) \/ GetNewest(t) \/ TakeNewest(t)
  BY <1>2, <1>9, GoOnKept, GetNewestKept, TakeNewestKept
<1>10. CASE LinkEntry(t) \/ AttachEntry(t) \/ AttachFails(t)
  BY <1>2, <1>10, LinkEntryKept, AttachEntryKept, AttachFailsKept
<1>11. CASE StartVisits(t) \/ Visit(t) \/ EndVisits(t)
  BY <1>2, <1>11, StartVisitsKept, VisitKept, EndVisitsKept
<1>12. CASE JoinNext(t) \/ InsertEntry(t) \/ InsertFails(t)
  BY <1>2, <1>12, JoinNextKept, InsertEntryKept, InsertFailsKept
<1>13. CASE Walk(t)
  BY <1>2, <1>13, WalkKept
<1>14. QED
  BY <1>1, <1>3, <1>4, <1>5, <1>6, <1>7, <1>8, <1>9, <1>10, <1>11, <1>12, <1>13 DEF StepOf

(* So does a step of something else.                                       *)
LEMMA StutterKept ==
    ASSUME IInv, UNCHANGED vars
    PROVE  IInv'
<1>1. /\ next' = next /\ deleted' = deleted /\ walk' = walk /\ newest' = newest
      /\ released' = released /\ call' = call /\ seen' = seen
  BY DEF vars, state, links, stacks
<1>2. ControlInv'
  <2>1. TypeOK'
    BY <1>1 DEF IInv, ControlInv, TypeOK
  <2>2. \A t \in Threads : CallAgrees(t)' /\ WalkAgrees(t)'
    BY <1>1 DEF IInv, ControlInv, CallAgrees, WalkAgrees, At, Inner
  <2>3. DropsAlone'
    BY <1>1 DEF IInv, ControlInv, DropsAlone
  <2>4. QED
    BY <2>1, <2>2, <2>3 DEF ControlInv
<1>3. \A p : Live(p)' = Live(p)
  BY <1>1 DEF Live
<1>4. (\A s \in Stacks : Contents(s)' = Contents(s)) /\ Fresh' = Fresh /\ Targets' = Targets
      /\ \A t \in Threads : Knows(t)' = Knows(t) /\ WalkPointers(t)' = WalkPointers(t)
  BY <1>1, <1>3 DEF Contents, Fresh, Targets, Knows, WalkPointers
<1>5. OwnerInv'
  <2>1. \A v : Owned(v)' <=> Owned(v)
    BY <1>1 DEF Owned, InStage, At
  <2>2. QED
    BY <1>1, <1>4, <2>1
       DEF IInv, OwnerInv, FreshUnknown, HandsFresh, ReleasedUnowned, ReclaimedUnknown
<1>6. OrderInv'
  <2>1. PICK R \in Orders : InOrder(R)
    BY DEF IInv, OrderInv
  <2>2. \A t \in Threads : SearchInOrder(t, R)'
    BY <1>1, <2>1 DEF InOrder, SearchInOrder, Looking, Nested, Settled, InStage, Inner
  <2>3. InOrder(R)'
    BY <1>1, <1>4, <2>1, <2>2 DEF InOrder
  <2>4. QED
    BY <2>3 DEF OrderInv
<1>7. SearchInv'
  <2> SUFFICES ASSUME NEW t \in Threads PROVE SearchAgrees(t)'
    BY DEF SearchInv
  <2>1. SearchAgrees(t)
    BY DEF IInv, SearchInv
  <2>2. /\ Nested(t)' = Nested(t) /\ Looking(t)' = Looking(t) /\ Inner(t)' = Inner(t)
        /\ Settled(t)' <=> Settled(t)
    BY <1>1 DEF Nested, Looking, Settled, InStage, Inner
  <2>3. \A i \in Nested(t) : FrameAgrees(t, i)'
    BY <1>1, <1>3, <2>1, <2>2 DEF SearchAgrees, FrameAgrees
  <2>4. CleansUp(t)'
    BY <1>1, <1>3, <2>1, <2>2 DEF SearchAgrees, CleansUp, At, InStage
  <2>5. Settled(t)' => (Live(Inner(t).link) = Live(walk[t].valid))'
    BY <1>1, <1>3, <2>1, <2>2 DEF SearchAgrees
  <2>6. QED
    BY <2>2, <2>3, <2>4, <2>5 DEF SearchAgrees
<1>8. CallInv'
  <2> SUFFICES ASSUME NEW t \in Threads PROVE CallAware(t)'
    BY DEF CallInv
  <2>1. CallAware(t)
    BY DEF IInv, CallInv
  <2>2. Looking(t)' = Looking(t) /\ (Settled(t)' <=> Settled(t))
    BY <1>1 DEF Nested, Looking, Settled, InStage
  <2>3. VisitsAhead(t)'
    <3>1. \A s : Contents(s)' = Contents(s)
      BY <1>1, <1>3 DEF Contents
    <3>2. Left(t)' = Left(t)
      BY <1>1, <3>1 DEF Left
    <3>3. QED
      BY <1>1, <1>3, <2>1, <2>2, <3>1, <3>2 DEF CallAware, VisitsAhead, At, InStage
  <2>4. SawNewest(t)' /\ LinksOn(t)'
    BY <1>1, <2>1 DEF CallAware, SawNewest, LinksOn, At, Clean
  <2>5. QED
    BY <2>3, <2>4 DEF CallAware
<1>9. QED
  BY <1>2, <1>5, <1>6, <1>7, <1>8 DEF IInv

(* The invariant holds in every state: links lead on in one order, what a  *)
(* search of linked_list.rs:505 skips is deleted, the entry a thread is to *)
(* push is known to nobody, and what an operation of stack.rs acts on it   *)
(* has read as the newest entry.                                           *)
THEOREM StackInvariant == Spec => []IInv
<1>1. Init => IInv
  BY InitKept
<1>2. IInv /\ [Next]_vars => IInv'
  BY NextKept, StutterKept
<1>3. QED
  BY <1>1, <1>2, PTL DEF Spec

(* An iterator that ends has come to every entry that was in the stack     *)
(* from its beginning to its end: Iter::next() of stack.rs passes over no  *)
(* entry but deleted ones, whatever is unlinked, pushed or reclaimed       *)
(* around it.                                                              *)
THEOREM IteratorsVisitAll == Spec => []VisitsAll
<1>1. IInv => VisitsAll
  <2> SUFFICES ASSUME IInv, NEW t \in Threads,
                      call[t].op = "iter", Visiting(t), Current(t) = Null
               PROVE  seen[t] = {}
    BY DEF VisitsAll
  <2>1. VisitsAhead(t) /\ Live(Null) = {}
    BY LiveEntries DEF IInv, ControlInv, CallInv, CallAware
  <2>2. seen[t] \subseteq Live(Null)
    BY <2>1 DEF VisitsAhead, Visiting, Current, Left
  <2>3. QED
    BY <2>1, <2>2
<1>2. QED
  BY <1>1, StackInvariant, PTL

(* A step of t that ends what it had to do with the newest entry.          *)
TellsNewest(t) ==
    call[t].op \in Ends /\ call'[t].op # call[t].op =>
        /\ call[t].ptr \in seen[t]
        /\ call'[t].op = "popped" => ~deleted[call[t].ptr]

(* A call returns what was the newest entry.                               *)
LEMMA DoneTells ==
    ASSUME IInv, NEW t \in Threads, Done(t),
           call[t].op \in Ends => call[t].ptr \in seen[t]
    PROVE  TellsNewest(t)
<1>1. call'[t].op = "none"
  BY DoneMoves
<1>2. QED
  BY <1>1 DEF TellsNewest

(* A step that returns no answer.                                          *)
LEMMA OthersTell ==
    ASSUME NEW t \in Threads, call'[t].op = call[t].op \/ call[t].op \notin Ends
    PROVE  TellsNewest(t)
  BY DEF TellsNewest

(* Every step of a call tells the newest entry, if it tells one.           *)
LEMMA NextTells ==
    ASSUME IInv, Next, NEW u \in Threads
    PROVE  TellsNewest(u)
<1>1. PICK t \in Threads : StepOf(t)
  BY NextCases
<1>2. /\ Remember /\ TypeOK /\ call[t] \in Calls /\ call[u] \in Calls
      /\ CallAgrees(t) /\ SawNewest(t)
      /\ call[t].pc \in {"clean", "next", "replace"} =>
            call[t].op \in {"push", "pop", "popped", "iter", "drop"}
      /\ call[t].pc = "attach" => call[t].op = "push"
      /\ call[t].pc \in {"get", "judge"} => call[t].op = "pop"
      /\ call[t].pc \in {"join", "insert"} => call[t].op = "push_back"
      /\ call[t].pc = "visit" => call[t].op \in {"iter", "drop"}
  BY NextCases, GotoFacts DEF IInv, ControlInv, TypeOK
<1>3. ASSUME At(t, "idle"), \E c : call' = [call EXCEPT ![t] = c] PROVE TellsNewest(u)
  <2>1. call[t].op = "none"
    BY <1>3, IdleHands
  <2>2. call'[u].op = call[u].op \/ call[u].op \notin Ends
    BY <1>2, <1>3, <2>1 DEF TypeOK, Ends
  <2>3. QED
    BY <2>2, OthersTell
<1>4. ASSUME UNCHANGED call PROVE TellsNewest(u)
  BY <1>4, OthersTell
<1>5. ASSUME NEW pc, NEW p,
             \/ Goto(t, pc)
             \/ call' = [call EXCEPT ![t].pc = pc, ![t].ptr = p]
      PROVE  TellsNewest(u)
  <2>1. call'[u].op = call[u].op
    BY <1>2, <1>5 DEF TypeOK, Calls, Goto
  <2>2. QED
    BY <2>1, OthersTell
<1>6. ASSUME Done(t), call[t].op \in Ends => call[t].ptr \in seen[t] PROVE TellsNewest(u)
  <2>1. CASE u = t
    BY <1>6, <2>1, DoneTells
  <2>2. CASE u # t
    BY <1>2, <1>6, <2>2, OthersTell DEF Done, TypeOK
  <2>3. QED
    BY <2>1, <2>2
<1>7. CASE \/ \E s \in Stacks :
                \/ BeginPush(t, s) \/ BeginPop(t, s) \/ BeginIter(t, s) \/ BeginDrop(t, s)
                \/ BeginClone(t, s)
                \/ \E e \in Entries : BeginNext(t, s, e) \/ BeginPushBack(t, s, e)
           \/ \E d \in Entries : BeginRelease(t, d)
  <2>1. At(t, "idle") /\ \E c : call' = [call EXCEPT ![t] = c]
    BY <1>7 DEF BeginPush, BeginPop, BeginIter, BeginDrop, Begin, BeginClone, BeginNext,
                BeginPushBack, BeginRelease, Search
  <2>2. QED
    BY <1>3, <2>1
<1>8. CASE \/ \E s \in Stacks : \/ \E r \in Stacks \ {s} : PopAll(t, s, r)
                                \/ \E e \in Entries : RemoveEntry(t, s, e)
           \/ ShareFails(t) \/ Visit(t) \/ Walk(t)
  BY <1>4, <1>8 DEF PopAll, RemoveEntry, ShareFails, Visit, Walk
<1>9. CASE \/ FindNext(t) \/ ShareNext(t) \/ AcceptPush(t) \/ LinkEntry(t) \/ TryNewest(t)
           \/ GetNewest(t) \/ MissNewest(t) \/ JoinNext(t) \/ InsertFails(t)
  <2>1. \E pc : Goto(t, pc)
    BY <1>9 DEF FindNext, ShareNext, AcceptPush, LinkEntry, TryNewest, GetNewest,
       MissNewest,
                JoinNext, InsertFails
  <2>2. QED
    BY <1>5, <2>1
<1>10. CASE ReplaceNewest(t) \/ AttachFails(t) \/ StartVisits(t)
  <2>1. \E pc, p : call' = [call EXCEPT ![t].pc = pc, ![t].ptr = p]
    BY <1>10 DEF ReplaceNewest, AttachFails, StartVisits
  <2>2. QED
    BY <1>5, <2>1
<1>11. CASE \/ Answer(t) \/ RefusePush(t) \/ AttachEntry(t) \/ RefusePop(t)
            \/ EndVisits(t) \/ InsertEntry(t) \/ RefuseInsert(t) \/ EndNext(t) \/ EndRelease(t)
  <2>1. call[t].op \in Ends => call[t].ptr \in seen[t]
    <3>1. CASE Answer(t) \/ RefusePush(t)
      BY <1>2, <3>1 DEF Answer, RefusePush, Cleaned, SawNewest
    <3>2. CASE AttachEntry(t) \/ RefusePop(t)
      BY <1>2, <3>2 DEF AttachEntry, RefusePop, SawNewest, At
    <3>3. CASE \/ EndVisits(t) \/ InsertEntry(t) \/ RefuseInsert(t) \/ EndNext(t)
               \/ EndRelease(t)
      <4>1. call[t].pc \in {"visit", "insert", "next_ptr", "release"}
        BY <3>3 DEF EndVisits, Visiting, InsertEntry, RefuseInsert, EndNext,
           EndRelease, At
      <4>2. call[t].op \notin Ends
        BY <1>2, <4>1 DEF CallAgrees, Places, Ends
      <4>3. QED
        BY <4>2
    <3>4. QED
      BY <1>11, <3>1, <3>2, <3>3
  <2>2. Done(t)
    BY <1>11 DEF Answer, RefusePush, AttachEntry, RefusePop, EndVisits, InsertEntry,
                 RefuseInsert, EndNext, EndRelease
  <2>3. QED
    BY <1>6, <2>1, <2>2
<1>12. CASE TakeNewest(t)
  <2>1. CASE u = t
    BY <1>2, <1>12, <2>1 DEF TakeNewest, DeleteSelf, SawNewest, At, TellsNewest
  <2>2. CASE u # t
    BY <1>2, <1>12, <2>2, OthersTell DEF TakeNewest, TypeOK
  <2>3. QED
    BY <2>1, <2>2
<1>13. QED
  BY <1>1, <1>7, <1>8, <1>9, <1>10, <1>11, <1>12 DEF StepOf

(* What push_if(), pop_if() and peek() of stack.rs act on or report was    *)
(* the newest entry, or the lack of one, at some time during the call, and *)
(* a pop takes what nobody has deleted before.                             *)
THEOREM EndsTakeNewest == Spec => TakesNewest
<1>1. IInv /\ [Next]_vars =>
         [\A t \in Threads :
             call[t].op \in Ends /\ call'[t].op # call[t].op =>
                 /\ call[t].ptr \in seen[t]
                 /\ call'[t].op = "popped" => ~deleted[call[t].ptr]]_vars
  BY NextTells DEF TellsNewest
<1>2. QED
  BY <1>1, StackInvariant, PTL DEF Spec, TakesNewest

=============================================================================
