------------------------- MODULE ParallelizeProofs -------------------------
(***************************************************************************)
(* Proofs about Parallelize for every number of calls and of processes,    *)
(* whatever fails.                                                         *)
(*                                                                         *)
(* Nothing rests on the locks: that results are whole is the order of the  *)
(* two writes of WriteShared (ResultInv, ChildInv), that the count is      *)
(* exact is that an update which no other one overlaps finds the value it  *)
(* read unchanged (Exact), and that the count stays within the number of   *)
(* calls even when updates do overlap is that no value ever read was       *)
(* greater than what had been added nor less than what was taken (Bounds). *)
(***************************************************************************)
EXTENDS Parallelize, FiniteSetTheorems, TLAPS

ParentPC == {"check", "read", "add", "clear", "fork", "poll", "wait", "done"}
ChildPC  == {"none", "compute", "return", "read", "add",
             "ended", "killed", "left", "failed", "astray"}
Stages   == {"test", "mark", "desc", "body", "free"}

\* A process at a, stage s, has read np and not yet written it, is counted in
\* it, or has taken itself from it.
Upd(a, s) == \/ a = "read" /\ s = "free"
             \/ a = "add" /\ s \in {"test", "mark", "desc"}
Cnt(a, s) == \/ a \in {"compute", "return", "read", "killed", "failed", "astray"}
             \/ a = "add" /\ s # "free"
Sub(a, s) == a \in {"ended", "left", "none"} \/ (a = "add" /\ s = "free")

\* The parent has started call c, or at least cleared its variable.
Started(c) == ~ Forking \/ c < k
Cleared(c) ==
  \/ Started(c)
  \/ c = k /\ (pc[Parent] = "fork" \/ (pc[Parent] = "clear" /\ stage[Parent] = "free"))

Typed ==
  /\ lock \in [Vars -> {-1, 0, 1}] /\ count \in Int
  /\ desc \in [Children -> {"none", "Undefined", "list"}]
  /\ body \in [Children -> {"old", "f"}]
  /\ pc \in [Procs -> ChildPC \cup ParentPC]
  /\ pc[Parent] \in ParentPC /\ \A c \in Children : pc[c] \in ChildPC
  /\ stage \in [Procs -> Stages] /\ x \in [Procs -> Int] /\ k \in Children
  /\ result \in [Children -> {"none", "Undefined", "list", "old", "f"}]
  /\ mixed \in BOOLEAN

StageOK(a, s) ==
  /\ a \notin Reads \cup Writes => s = "test"
  /\ s = "body" => a \in {"return", "poll"}

\* The descriptor of a result says there is a list only when all of it is there.
ChildInv(c) ==
  /\ ~ Started(c) => pc[c] = "none"
  /\ Cleared(c) => desc[c] # "none"
  /\ desc[c] = "list" => body[c] = "f"
  /\ pc[c] = "return" /\ stage[c] \in {"desc", "free"} => body[c] = "f"

ResultInv ==
  /\ pc[Parent] \in {"poll", "wait"} => \A c \in Children : c < k => result[c] = "f"
  /\ pc[Parent] = "poll" /\ stage[Parent] = "body" => desc[k] = "list"
  /\ pc[Parent] = "poll" /\ stage[Parent] = "free" => result[k] \in {"Undefined", "f"}
  /\ pc[Parent] = "wait" => result[k] = "f"
  /\ pc[Parent] = "done" => \A c \in Children : result[c] = "f"

InCount == {c \in Children : Cnt(pc[c], stage[c])}
Pending == IF ParentAdded THEN 1 ELSE 0

Exact ==
  ~ mixed =>
    /\ \A p, q \in Procs : Upd(pc[p], stage[p]) /\ Upd(pc[q], stage[q]) => p = q
    /\ \A p \in Procs : Upd(pc[p], stage[p]) => x[p] = count
    /\ Forking => count = Cardinality(InCount) + Pending

\* What the parent has added, and the children that may have taken something.
Added      == IF Forking THEN k - 1 + Pending ELSE N
Subtracted == {c \in Children : Started(c) /\ Sub(pc[c], stage[c])}

Bounds ==
  /\ -Cardinality(Subtracted) <= count /\ count <= Added
  /\ \A p \in Procs : -Cardinality(Subtracted) <= x[p] /\ x[p] <= Added

IInv ==
  /\ Typed /\ \A p \in Procs : StageOK(pc[p], stage[p])
  /\ \A c \in Children : ChildInv(c)
  /\ ResultInv /\ Exact /\ Bounds

-----------------------------------------------------------------------------
LEMMA ProcFacts ==
  /\ \A c \in Children : c \in Nat \ {0} /\ c <= N /\ c \in Procs /\ c # Parent
  /\ \A p \in Procs : p = Parent \/ p \in Children
  /\ Parent \in Procs /\ Parent \notin Children /\ N \in Nat \ {0} /\ Parent = 0 /\ NP = 0
BY NAssumption DEF Children, Procs, Parent, NP

LEMMA CardFacts ==
  ASSUME NEW S, NEW T, S \subseteq T, T \subseteq Children
  PROVE  /\ IsFiniteSet(S) /\ Cardinality(S) \in Nat /\ Cardinality(T) \in Nat
         /\ Cardinality(S) <= Cardinality(T) /\ Cardinality(T) <= N
         /\ \A c \in T : c \notin S => Cardinality(S) + 1 <= Cardinality(T)
<1>1. IsFiniteSet(Children) /\ Cardinality(Children) = N
  BY NAssumption, FS_Interval DEF Children
<1>2. IsFiniteSet(T) /\ Cardinality(T) <= N
  BY <1>1, FS_Subset
<1>3. IsFiniteSet(S) /\ Cardinality(S) <= Cardinality(T)
  BY <1>2, FS_Subset
<1>4. ASSUME NEW c \in T, c \notin S PROVE Cardinality(S) + 1 <= Cardinality(T)
  <2>1. S \cup {c} \subseteq T
    BY <1>4
  <2>2. Cardinality(S \cup {c}) = Cardinality(S) + 1
    BY <1>3, <1>4, FS_AddElement
  <2> QED  BY <1>2, <2>1, <2>2, FS_Subset
<1> QED  BY <1>2, <1>3, <1>4, FS_CardinalityType

LEMMA CardNext ==
  ASSUME NEW S, S \subseteq Children, NEW c \in Children
  PROVE  /\ c \notin S => Cardinality(S \cup {c}) = Cardinality(S) + 1
         /\ c \in S => Cardinality(S \ {c}) = Cardinality(S) - 1
<1>1. IsFiniteSet(S)
  BY CardFacts
<1> QED  BY <1>1, FS_AddElement, FS_RemoveElement

\* The bounds get no narrower and the values stay among those there were.
LEMMA BoundsFrame ==
  ASSUME IInv, Added \in Int, Added' \in Int, Added <= Added', Subtracted \subseteq Subtracted',
         count' = count, \A p \in Procs : x'[p] \in {x[p], count}
  PROVE  Bounds'
<1>1. Subtracted' \subseteq Children
  BY DEF Subtracted
<1>2. /\ Cardinality(Subtracted) \in Nat /\ Cardinality(Subtracted') \in Nat
      /\ Cardinality(Subtracted) <= Cardinality(Subtracted')
  BY <1>1, CardFacts
<1>3. /\ count \in Int /\ \A p \in Procs : x[p] \in Int
      /\ -Cardinality(Subtracted) <= count /\ count <= Added
      /\ \A p \in Procs : -Cardinality(Subtracted) <= x[p] /\ x[p] <= Added
  BY DEF IInv, Typed, Bounds
<1>4. /\ -Cardinality(Subtracted') <= count' /\ count' <= Added'
      /\ \A p \in Procs : x'[p] \in Int /\ -Cardinality(Subtracted') <= x'[p] /\ x'[p] <= Added'
  <2> HIDE DEF Added, Subtracted
  <2> QED  BY <1>2, <1>3
<1> QED  BY <1>4 DEF Bounds

LEMMA AddedFacts ==
  ASSUME IInv
  PROVE  Added \in Int /\ Pending \in {0, 1} /\ k \in Nat /\ N \in Nat /\ k <= N
BY ProcFacts DEF IInv, Typed, Added, Pending

\* No update begins, and what is counted is the same.
LEMMA ExactFrame ==
  ASSUME IInv, count' = count, mixed => mixed', mixed' \in BOOLEAN,
         \A p \in Procs : Upd(pc'[p], stage'[p]) => Upd(pc[p], stage[p]) /\ x'[p] = x[p],
         Forking' => Forking /\ InCount' = InCount /\ Pending' = Pending
  PROVE  Exact'
BY DEF IInv, Exact

-----------------------------------------------------------------------------
(* The steps.                                                              *)

\* A child goes on without writing anything that others read.
LEMMA ChildMoves ==
  ASSUME IInv, NEW c \in Children, pc[c] # "none",
         NEW g \in ChildPC, NEW s \in Stages,
         pc' = [pc EXCEPT ![c] = g], stage' = [stage EXCEPT ![c] = s],
         lock' \in [Vars -> {-1, 0, 1}],
         UNCHANGED <<count, desc, body, x, k, result, mixed>>,
         StageOK(g, s), Upd(g, s) => Upd(pc[c], stage[c]),
         Cnt(g, s) <=> Cnt(pc[c], stage[c]), Sub(pc[c], stage[c]) => Sub(g, s),
         g = "return" /\ s \in {"desc", "free"} => body[c] = "f"
  PROVE  IInv'
<1>1. /\ c \in Procs /\ c # Parent /\ Parent \in Procs
      /\ pc'[c] = g /\ stage'[c] = s /\ pc'[Parent] = pc[Parent] /\ stage'[Parent] = stage[Parent]
      /\ \A p \in Procs : p # c => pc'[p] = pc[p] /\ stage'[p] = stage[p]
  BY ProcFacts DEF IInv, Typed
<1>2. Typed'
  <2>1. /\ pc' \in [Procs -> ChildPC \cup ParentPC] /\ stage' \in [Procs -> Stages]
        /\ \A d \in Children : pc'[d] \in ChildPC
    BY <1>1, ProcFacts DEF IInv, Typed
  <2> QED  BY <1>1, <2>1 DEF IInv, Typed
<1>3. \A p \in Procs : StageOK(pc[p], stage[p])'
  BY <1>1 DEF IInv
<1>4. (Forking' <=> Forking) /\ (ParentAdded' <=> ParentAdded)
      /\ \A d : (Started(d)' <=> Started(d)) /\ (Cleared(d)' <=> Cleared(d))
  BY <1>1 DEF Forking, ParentAdded, Started, Cleared
<1>5. Pending' = Pending /\ Added' = Added
  BY <1>4 DEF Pending, Added
<1>6. Started(c)
  BY DEF IInv, ChildInv
<1>7. \A d \in Children : ChildInv(d)'
  BY <1>1, <1>4, <1>6, ProcFacts DEF IInv, ChildInv
<1>8. ResultInv'
  BY <1>1 DEF IInv, ResultInv
<1>9. Exact'
  <2>1. InCount' = InCount
    BY <1>1, ProcFacts DEF InCount
  <2>2. \A p \in Procs : Upd(pc'[p], stage'[p]) => Upd(pc[p], stage[p]) /\ x'[p] = x[p]
    BY <1>1
  <2>3. mixed' \in BOOLEAN /\ (mixed => mixed')
    BY <1>2 DEF Typed
  <2> QED  BY <1>4, <1>5, <2>1, <2>2, <2>3, ExactFrame
<1>10. Bounds'
  <2>1. Subtracted \subseteq Subtracted'
    BY <1>1, <1>4, ProcFacts DEF Subtracted
  <2> QED  BY <1>5, <2>1, AddedFacts, BoundsFrame
<1> QED  BY <1>2, <1>3, <1>7, <1>8, <1>9, <1>10 DEF IInv

\* The same of the parent.
LEMMA ParentMoves ==
  ASSUME IInv, NEW g \in ParentPC, NEW s \in Stages,
         pc' = [pc EXCEPT ![Parent] = g], stage' = [stage EXCEPT ![Parent] = s],
         lock' \in [Vars -> {-1, 0, 1}],
         UNCHANGED <<count, desc, body, x, k, mixed>>,
         result' \in [Children -> {"none", "Undefined", "list", "old", "f"}],
         StageOK(g, s), Upd(g, s) => Upd(pc[Parent], stage[Parent]),
         Forking' <=> Forking, ParentAdded' <=> ParentAdded,
         \A c \in Children : Cleared(c)' => Cleared(c),
         ResultInv'
  PROVE  IInv'
<1>1. /\ Parent \in Procs /\ pc'[Parent] = g /\ stage'[Parent] = s
      /\ \A c \in Children : pc'[c] = pc[c] /\ stage'[c] = stage[c]
      /\ \A p \in Procs : p # Parent => pc'[p] = pc[p] /\ stage'[p] = stage[p]
  BY ProcFacts DEF IInv, Typed
<1>2. Typed'
  <2>1. pc' \in [Procs -> ChildPC \cup ParentPC] /\ stage' \in [Procs -> Stages]
    BY <1>1, ProcFacts DEF IInv, Typed
  <2> QED  BY <1>1, <2>1 DEF IInv, Typed
<1>3. \A p \in Procs : StageOK(pc[p], stage[p])'
  BY <1>1 DEF IInv
<1>4. \A c : Started(c)' <=> Started(c)
  BY DEF Started
<1>5. Pending' = Pending /\ Added' = Added
  BY DEF Pending, Added
<1>6. \A c \in Children : ChildInv(c)'
  BY <1>1, <1>4 DEF IInv, ChildInv
<1>7. Exact'
  <2>1. InCount' = InCount
    BY <1>1 DEF InCount
  <2>2. \A p \in Procs : Upd(pc'[p], stage'[p]) => Upd(pc[p], stage[p]) /\ x'[p] = x[p]
    BY <1>1
  <2>3. mixed' \in BOOLEAN /\ (mixed => mixed')
    BY <1>2 DEF Typed
  <2> QED  BY <1>5, <2>1, <2>2, <2>3, ExactFrame
<1>8. Bounds'
  <2>1. Subtracted \subseteq Subtracted'
    BY <1>1, <1>4, ProcFacts DEF Subtracted
  <2> QED  BY <1>5, <2>1, AddedFacts, BoundsFrame
<1> QED  BY <1>2, <1>3, <1>6, <1>7, <1>8 DEF IInv

LEMMA MarkInv ==
  ASSUME IInv, NEW p \in Procs, Test(p) \/ Mark(p)
  PROVE  IInv'
<1>1. pc[p] \in Reads \cup Writes /\ stage[p] \in {"test", "mark"}
  BY DEF IInv, StageOK, Test, Mark
<1>2. PICK s \in Stages : /\ stage' = [stage EXCEPT ![p] = s]
                         /\ s \in {"mark", "desc", "body"}
                         /\ (s = "body" => pc[p] = "return")
                         /\ (s = "desc" => pc[p] # "return")
  BY DEF Test, Mark, Stages
<1>3. /\ lock' \in [Vars -> {-1, 0, 1}]
      /\ UNCHANGED <<count, desc, body, pc, x, k, result, mixed>>
  BY DEF Test, Mark, IInv, Typed
<1>4. /\ StageOK(pc[p], s)
      /\ (Upd(pc[p], s) => Upd(pc[p], stage[p]))
      /\ (Cnt(pc[p], s) <=> Cnt(pc[p], stage[p]))
      /\ (Sub(pc[p], stage[p]) => Sub(pc[p], s))
      /\ ~ (pc[p] = "return" /\ s \in {"desc", "free"})
  <2>1. /\ StageOK(pc[p], s)
        /\ (Upd(pc[p], s) => Upd(pc[p], stage[p]))
    BY <1>1, <1>2 DEF StageOK, Upd
  <2>2. /\ (Cnt(pc[p], s) <=> Cnt(pc[p], stage[p]))
        /\ (Sub(pc[p], stage[p]) => Sub(pc[p], s))
    BY <1>1, <1>2 DEF Cnt, Sub
  <2>3. ~ (pc[p] = "return" /\ s \in {"desc", "free"})
    BY <1>2
  <2> QED  BY <2>1, <2>2, <2>3
<1>5. pc' = [pc EXCEPT ![p] = pc[p]]
  BY <1>3 DEF IInv, Typed
<1>6. CASE p \in Children
  <2>1. pc[p] # "none" /\ pc[p] \in ChildPC
    BY <1>1, <1>6 DEF Reads, Writes, IInv, Typed
  <2> QED  BY <1>2, <1>3, <1>4, <1>5, <1>6, <2>1, ChildMoves
<1>7. CASE p = Parent
  <2>1. pc'[Parent] = pc[Parent] /\ pc[Parent] \in ParentPC
    BY <1>3 DEF IInv, Typed
  <2>2. stage'[Parent] = s
    BY <1>2, <1>7 DEF IInv, Typed
  <2>3. pc[Parent] # "return"
    BY <2>1 DEF ParentPC
  <2>4. (Forking' <=> Forking) /\ (ParentAdded' <=> ParentAdded)
    BY <1>1, <1>2, <1>7, <2>1, <2>2 DEF Forking, ParentAdded
  <2>5. \A c \in Children : Cleared(c)' => Cleared(c)
    BY <1>2, <1>3, <2>1, <2>2, <2>4 DEF Cleared, Started
  <2>6. ResultInv'
    BY <1>2, <1>3, <2>1, <2>2, <2>3, <1>7 DEF IInv, ResultInv
  <2>7. result' \in [Children -> {"none", "Undefined", "list", "old", "f"}]
    BY <1>3 DEF IInv, Typed
  <2> QED  BY <1>2, <1>3, <1>4, <1>5, <1>7, <2>1, <2>4, <2>5, <2>6, <2>7, ParentMoves
<1> QED  BY <1>6, <1>7, ProcFacts

LEMMA GoOnFacts ==
  ASSUME NEW p, pc[p] \in Reads \cup Writes
  PROVE  /\ pc[p] = "check" => GoOn(p) \in {"check", "read"}
         /\ pc[p] = "read" => GoOn(p) = "add"
         /\ pc[p] = "add" => GoOn(p) = IF p = Parent THEN "clear" ELSE "ended"
         /\ pc[p] = "clear" => GoOn(p) = "fork"
         /\ pc[p] = "return" => GoOn(p) = "read"
         /\ pc[p] = "poll" => GoOn(p) = IF result[k] = "Undefined" THEN "poll" ELSE "wait"
<1>1. pc[p] \in {"check", "read", "add", "clear", "return", "poll"}
  BY DEF Reads, Writes
<1>2. pc[p] = "check" => GoOn(p) \in {"check", "read"}
  BY DEF GoOn
<1>3. pc[p] = "read" => GoOn(p) = "add"
  BY DEF GoOn
<1>4. pc[p] = "add" => GoOn(p) = IF p = Parent THEN "clear" ELSE "ended"
  BY DEF GoOn
<1>5. pc[p] = "clear" => GoOn(p) = "fork"
  BY DEF GoOn
<1>6. pc[p] = "return" => GoOn(p) = "read"
  BY DEF GoOn
<1>7. pc[p] = "poll" => GoOn(p) = IF result[k] = "Undefined" THEN "poll" ELSE "wait"
  BY DEF GoOn
<1> QED  BY <1>2, <1>3, <1>4, <1>5, <1>6, <1>7

LEMMA FreeLockInv ==
  ASSUME IInv, NEW p \in Procs, FreeLock(p)
  PROVE  IInv'
<1>1. stage[p] = "free" /\ pc[p] \in Reads \cup Writes
  BY DEF IInv, StageOK, FreeLock
<1>2. /\ stage' = [stage EXCEPT ![p] = "test"] /\ pc' = [pc EXCEPT ![p] = GoOn(p)]
      /\ lock' \in [Vars -> {-1, 0, 1}]
      /\ UNCHANGED <<count, desc, body, x, k, result, mixed>>
      /\ "test" \in Stages
  BY DEF FreeLock, IInv, Typed, Stages
<1>3. CASE p \in Children
  <2>1. pc[p] \in {"read", "add", "return"} /\ p # Parent
    BY <1>1, <1>3, ProcFacts DEF IInv, Typed, ChildPC, Reads, Writes
  <2>2. GoOn(p) \in {"add", "ended", "read"} /\ GoOn(p) \in ChildPC /\ pc[p] # "none"
    BY <1>1, <2>1, GoOnFacts DEF ChildPC
  <2>3. /\ StageOK(GoOn(p), "test") /\ (Upd(GoOn(p), "test") => Upd(pc[p], stage[p]))
        /\ Cnt(GoOn(p), "test") <=> Cnt(pc[p], stage[p])
        /\ Sub(pc[p], stage[p]) => Sub(GoOn(p), "test")
    BY <1>1, <2>1, GoOnFacts DEF StageOK, Upd, Cnt, Sub
  <2> QED  BY <1>2, <1>3, <2>2, <2>3, ChildMoves
<1>4. CASE p = Parent
  <2>1. pc[Parent] \in {"check", "read", "add", "clear", "poll"}
    BY <1>1, <1>4 DEF IInv, Typed, ParentPC, Reads, Writes
  <2> DEFINE g == GoOn(Parent)
  <2>2. /\ pc[Parent] = "check" => g \in {"check", "read"}
        /\ pc[Parent] = "read" => g = "add"
        /\ pc[Parent] = "add" => g = "clear"
        /\ pc[Parent] = "clear" => g = "fork"
        /\ pc[Parent] = "poll" => g = IF result[k] = "Undefined" THEN "poll" ELSE "wait"
    BY <1>1, <1>4, GoOnFacts
  <2>3. pc'[Parent] = g /\ stage'[Parent] = "test"
    BY <1>2, <1>4, ProcFacts DEF IInv, Typed
  <2> HIDE DEF g
  <2>4. /\ g \in ParentPC /\ StageOK(g, "test")
        /\ Upd(g, "test") => Upd(pc[Parent], stage[Parent])
    BY <1>1, <1>4, <2>1, <2>2 DEF ParentPC, StageOK, Upd
  <2>5. (Forking' <=> Forking) /\ (ParentAdded' <=> ParentAdded)
    BY <1>1, <1>4, <2>1, <2>2, <2>3 DEF Forking, ParentAdded
  <2>6. \A c \in Children : Cleared(c)' => Cleared(c)
    BY <1>1, <1>2, <1>4, <2>1, <2>2, <2>3, <2>5 DEF Cleared, Started
  <2>7. ResultInv'
    BY <1>1, <1>2, <1>4, <2>1, <2>2, <2>3 DEF IInv, ResultInv
  <2>8. result' \in [Children -> {"none", "Undefined", "list", "old", "f"}]
    BY <1>2 DEF IInv, Typed
  <2>9. pc' = [pc EXCEPT ![Parent] = g]
    BY <1>2, <1>4 DEF g
  <2> QED  BY <1>2, <1>4, <2>4, <2>5, <2>6, <2>7, <2>8, <2>9, ParentMoves
<1> QED  BY <1>3, <1>4, ProcFacts

\* np is read.
LEMMA ReadCountInv ==
  ASSUME IInv, NEW p \in Procs, ReadDesc(p), Var(p) = NP
  PROVE  IInv'
<1>1. /\ pc[p] \in {"check", "read"} /\ stage[p] = "desc"
      /\ stage' = [stage EXCEPT ![p] = "free"] /\ x' = [x EXCEPT ![p] = count]
      /\ UNCHANGED <<lock, count, desc, body, pc, k, result>>
  BY ProcFacts DEF ReadDesc, Reads, Var, IInv, Typed
<1>2. mixed' = (mixed \/ (pc[p] = "read" /\ Overlaps(p)))
  BY DEF ReadDesc
<1>3. /\ stage'[p] = "free" /\ x'[p] = count
      /\ \A q \in Procs : q # p => stage'[q] = stage[q] /\ x'[q] = x[q]
  BY <1>1 DEF IInv, Typed
<1>4. Typed'
  <2>1. stage' \in [Procs -> Stages] /\ x' \in [Procs -> Int]
    BY <1>1 DEF IInv, Typed, Stages
  <2>2. mixed' \in BOOLEAN
    BY <1>2
  <2> QED  BY <1>1, <2>1, <2>2 DEF IInv, Typed
<1>5. \A q \in Procs : StageOK(pc[q], stage[q])'
  <2>1. StageOK(pc[p], "free")
    BY <1>1 DEF StageOK, Reads, Writes
  <2> QED  BY <1>1, <1>3, <2>1 DEF IInv
<1>6. (Forking' <=> Forking) /\ (ParentAdded' <=> ParentAdded)
      /\ \A c : (Started(c)' <=> Started(c)) /\ (Cleared(c)' <=> Cleared(c))
  BY <1>1, <1>3, ProcFacts DEF Forking, ParentAdded, Started, Cleared
<1>7. \A c \in Children : ChildInv(c)'
  BY <1>1, <1>3, <1>6, ProcFacts DEF IInv, ChildInv
<1>8. ResultInv'
  BY <1>1, <1>3, ProcFacts DEF IInv, ResultInv
<1>9. \A q \in Procs : /\ Cnt(pc'[q], stage'[q]) <=> Cnt(pc[q], stage[q])
                       /\ Sub(pc'[q], stage'[q]) <=> Sub(pc[q], stage[q])
                       /\ q # p => (Upd(pc'[q], stage'[q]) <=> Upd(pc[q], stage[q]))
  BY <1>1, <1>3 DEF Cnt, Sub
<1>10. Pending' = Pending /\ Added' = Added /\ InCount' = InCount /\ Subtracted' = Subtracted
  BY <1>1, <1>6, <1>9, ProcFacts DEF Pending, Added, InCount, Subtracted
<1>11. Exact'
  <2>1. CASE pc[p] = "check"
    <3>1. \A q \in Procs : Upd(pc'[q], stage'[q]) => Upd(pc[q], stage[q]) /\ x'[q] = x[q]
      BY <1>1, <1>3, <1>9, <2>1 DEF Upd
    <3>2. mixed' \in BOOLEAN /\ (mixed => mixed')
      BY <1>2
    <3> QED  BY <1>1, <1>6, <1>10, <3>1, <3>2, ExactFrame
  <2>2. CASE pc[p] = "read"
    <3> SUFFICES ASSUME ~ mixed' PROVE Exact'
      BY DEF Exact
    <3>1. ~ mixed /\ \A q \in Procs : q # p => ~ Upd(pc[q], stage[q])
      BY <1>2, <2>2 DEF Overlaps, Updating, Upd
    <3>2. \A q \in Procs : Upd(pc'[q], stage'[q]) => q = p
      BY <1>9, <3>1
    <3>3. Forking => count = Cardinality(InCount) + Pending
      BY <3>1 DEF IInv, Exact
    <3> QED  BY <1>1, <1>3, <1>6, <1>10, <3>2, <3>3 DEF Exact
  <2> QED  BY <1>1, <2>1, <2>2
<1>12. Bounds'
  <2>1. \A q \in Procs : x'[q] \in {x[q], count}
    BY <1>3
  <2> QED  BY <1>1, <1>10, <2>1, AddedFacts, BoundsFrame
<1> QED  BY <1>4, <1>5, <1>7, <1>8, <1>11, <1>12 DEF IInv

\* The parent looks at a result.
LEMMA ReadResultInv ==
  ASSUME IInv, NEW p \in Procs, (ReadDesc(p) /\ Var(p) # NP) \/ ReadBody(p)
  PROVE  IInv'
<1>1. /\ pc[p] = "poll"
      /\ UNCHANGED <<lock, count, desc, body, pc, x, k, mixed>>
  BY DEF ReadDesc, ReadBody, Reads, Var
<1>2. p = Parent
  BY <1>1, ProcFacts DEF IInv, Typed, ChildPC
<1>3. PICK s \in {"body", "free"}, r \in {"Undefined", "list", "f"} :
        /\ stage' = [stage EXCEPT ![p] = s] /\ result' = [result EXCEPT ![k] = r]
        /\ s = "body" => desc[k] = "list"
        /\ s = "free" => r \in {"Undefined", "f"}
  <2>1. k \in Children /\ Cleared(k)
    BY <1>1, <1>2 DEF IInv, Typed, Cleared, Started, Forking
  <2>2. desc[k] \in {"Undefined", "list"}
    BY <2>1 DEF IInv, Typed, ChildInv
  <2>3. CASE ReadBody(p)
    <3>1. body[k] = "f"
      BY <1>1, <1>2, <2>1, <2>3 DEF ReadBody, IInv, ResultInv, ChildInv
    <3> QED  BY <2>3, <3>1 DEF ReadBody
  <2>4. CASE ReadDesc(p) /\ Var(p) # NP
    BY <2>2, <2>4 DEF ReadDesc
  <2> QED  BY <2>3, <2>4
<1>4. /\ stage'[Parent] = s /\ pc'[Parent] = "poll" /\ k \in Children /\ k \in Nat
      /\ result'[k] = r /\ \A c \in Children : c # k => result'[c] = result[c]
      /\ result' \in [Children -> {"none", "Undefined", "list", "old", "f"}]
  BY <1>1, <1>2, <1>3, ProcFacts DEF IInv, Typed
<1>5. ResultInv'
  <2>1. \A c \in Children : c < k => result'[c] = "f"
    BY <1>1, <1>2, <1>4, ProcFacts DEF IInv, ResultInv
  <2> QED  BY <1>1, <1>3, <1>4, <2>1 DEF ResultInv
<1>6. /\ Forking' <=> Forking
      /\ ParentAdded' <=> ParentAdded
      /\ \A c \in Children : Cleared(c)' => Cleared(c)
  BY <1>1, <1>2, <1>4 DEF Forking, ParentAdded, Cleared, Started
<1>7. "poll" \in ParentPC /\ s \in Stages /\ StageOK("poll", s) /\ ~ Upd("poll", s)
  BY DEF ParentPC, Stages, StageOK, Upd, Reads
<1>8. pc' = [pc EXCEPT ![Parent] = "poll"] /\ lock' \in [Vars -> {-1, 0, 1}]
  BY <1>1, <1>2 DEF IInv, Typed
<1> QED  BY <1>1, <1>2, <1>3, <1>4, <1>5, <1>6, <1>7, <1>8, ParentMoves
\* The words of a result are written.
LEMMA WriteBodyInv ==
  ASSUME IInv, NEW p \in Procs, WriteBody(p)
  PROVE  IInv'
<1>1. /\ pc[p] = "return" /\ stage[p] = "body"
      /\ body' = [body EXCEPT ![p] = "f"] /\ stage' = [stage EXCEPT ![p] = "desc"]
      /\ UNCHANGED <<lock, count, desc, pc, x, k, result, mixed>>
  BY DEF WriteBody
<1>2. p \in Children /\ p # Parent
  <2>1. pc[Parent] # "return"
    BY DEF IInv, Typed, ParentPC
  <2> QED  BY <1>1, <2>1, ProcFacts
<1>3. /\ stage'[p] = "desc" /\ body'[p] = "f" /\ stage'[Parent] = stage[Parent]
      /\ \A q \in Procs : q # p => stage'[q] = stage[q]
      /\ \A c \in Children : c # p => body'[c] = body[c]
  BY <1>1, <1>2, ProcFacts DEF IInv, Typed
<1>4. Typed'
  <2>1. stage' \in [Procs -> Stages] /\ body' \in [Children -> {"old", "f"}]
    BY <1>1 DEF IInv, Typed, Stages
  <2> QED  BY <1>1, <2>1 DEF IInv, Typed
<1>5. \A q \in Procs : StageOK(pc[q], stage[q])'
  <2>1. StageOK("return", "desc")
    BY DEF StageOK, Writes
  <2> QED  BY <1>1, <1>3, <2>1 DEF IInv
<1>6. (Forking' <=> Forking) /\ (ParentAdded' <=> ParentAdded)
      /\ \A c : (Started(c)' <=> Started(c)) /\ (Cleared(c)' <=> Cleared(c))
  BY <1>1, <1>3 DEF Forking, ParentAdded, Started, Cleared
<1>7. \A c \in Children : ChildInv(c)'
  BY <1>1, <1>3, <1>6, ProcFacts DEF IInv, ChildInv
<1>8. ResultInv'
  BY <1>1, <1>3 DEF IInv, ResultInv
<1>9. \A q \in Procs : /\ (Cnt(pc'[q], stage'[q]) <=> Cnt(pc[q], stage[q]))
                       /\ (Sub(pc'[q], stage'[q]) <=> Sub(pc[q], stage[q]))
                       /\ (Upd(pc'[q], stage'[q]) <=> Upd(pc[q], stage[q]))
  BY <1>1, <1>3 DEF Cnt, Sub, Upd
<1>10. Pending' = Pending /\ Added' = Added /\ InCount' = InCount /\ Subtracted' = Subtracted
  BY <1>1, <1>6, <1>9, ProcFacts DEF Pending, Added, InCount, Subtracted
<1>11. Exact'
  <2>1. mixed' \in BOOLEAN /\ (mixed => mixed')
    BY <1>1 DEF IInv, Typed
  <2> QED  BY <1>1, <1>6, <1>9, <1>10, <2>1, ExactFrame
<1>12. Bounds'
  BY <1>1, <1>10, AddedFacts, BoundsFrame
<1> QED  BY <1>4, <1>5, <1>7, <1>8, <1>11, <1>12 DEF IInv

\* The descriptor is written, when the parent clears the variable of a call or
\* the child has written its result.
LEMMA WriteResultInv ==
  ASSUME IInv, NEW p \in Procs, WriteDesc(p), pc[p] # "add"
  PROVE  IInv'
<1>1. /\ stage[p] = "desc" /\ pc[p] \in {"clear", "return"}
      /\ desc' = [desc EXCEPT ![Var(p)] = IF pc[p] = "clear" THEN "Undefined" ELSE "list"]
      /\ stage' = [stage EXCEPT ![p] = "free"]
      /\ UNCHANGED <<lock, count, body, pc, x, k, result, mixed>>
  BY DEF WriteDesc, Writes
<1>2. /\ (pc[p] = "clear" => p = Parent) /\ (pc[p] = "return" => p # Parent)
      /\ k \in Children /\ k \in Procs
  BY ProcFacts DEF IInv, Typed, ChildPC, ParentPC
<1>3. Var(p) = IF pc[p] = "clear" THEN k ELSE p
  BY <1>1, <1>2 DEF Var
<1>4. /\ stage'[p] = "free" /\ \A q \in Procs : q # p => stage'[q] = stage[q]
  BY <1>1 DEF IInv, Typed
<1>5. Var(p) \in Children
  BY <1>1, <1>2, <1>3, ProcFacts
<1>6. /\ desc'[Var(p)] = IF pc[p] = "clear" THEN "Undefined" ELSE "list"
      /\ \A c \in Children : c # Var(p) => desc'[c] = desc[c]
      /\ desc' \in [Children -> {"none", "Undefined", "list"}]
  BY <1>1, <1>5 DEF IInv, Typed
<1>7. Typed'
  <2>1. stage' \in [Procs -> Stages]
    BY <1>1 DEF IInv, Typed, Stages
  <2> QED  BY <1>1, <1>6, <2>1 DEF IInv, Typed
<1>8. \A q \in Procs : StageOK(pc[q], stage[q])'
  <2>1. StageOK(pc[p], "free")
    BY <1>1 DEF StageOK, Writes
  <2> QED  BY <1>1, <1>4, <2>1 DEF IInv
<1>9. (Forking' <=> Forking) /\ (ParentAdded' <=> ParentAdded)
      /\ \A c : (Started(c)' <=> Started(c))
  BY <1>1, <1>2, <1>4, ProcFacts DEF Forking, ParentAdded, Started
<1>10. \A c \in Children : ChildInv(c)'
  <2>1. CASE pc[p] = "clear"
    <3>1. \A c \in Children : Cleared(c)' => Cleared(c) \/ c = k
      BY <1>1, <1>9 DEF Cleared
    <3>2. \A c \in Children : c # k => desc'[c] = desc[c]
      BY <1>3, <1>6, <2>1
    <3>3. desc'[k] = "Undefined"
      BY <1>3, <1>6, <2>1
    <3>4. \A c \in Children : stage'[c] = stage[c]
      BY <1>2, <1>4, <2>1, ProcFacts
    <3> QED  BY <1>1, <1>9, <3>1, <3>2, <3>3, <3>4 DEF IInv, ChildInv
  <2>2. CASE pc[p] = "return"
    <3>1. p # Parent /\ p \in Children
      BY <1>2, <2>2, ProcFacts
    <3>2. \A c \in Children : Cleared(c)' <=> Cleared(c)
      BY <1>1, <1>4, <1>9, <3>1, ProcFacts DEF Cleared
    <3>3. desc'[p] = "list" /\ \A c \in Children : c # p => desc'[c] = desc[c]
      BY <1>3, <1>6, <2>2
    <3>4. body[p] = "f" /\ ~ (~ Started(p))
      BY <1>1, <2>2, <3>1 DEF IInv, ChildInv
    <3> QED  BY <1>1, <1>4, <1>9, <3>1, <3>2, <3>3, <3>4, ProcFacts DEF IInv, ChildInv
  <2> QED  BY <1>1, <2>1, <2>2
<1>11. ResultInv'
  <2>1. CASE pc[p] = "clear"
    BY <1>1, <1>2, <2>1 DEF IInv, ResultInv
  <2>2. CASE pc[p] = "return"
    <3>1. p # Parent /\ stage'[Parent] = stage[Parent]
      BY <1>2, <1>4, <2>2, ProcFacts
    <3>2. desc[k] = "list" => desc'[k] = "list"
      BY <1>2, <1>6, <2>2
    <3> QED  BY <1>1, <3>1, <3>2 DEF IInv, ResultInv
  <2> QED  BY <1>1, <2>1, <2>2
<1>12. \A q \in Procs : /\ (Cnt(pc'[q], stage'[q]) <=> Cnt(pc[q], stage[q]))
                        /\ (Sub(pc'[q], stage'[q]) <=> Sub(pc[q], stage[q]))
                        /\ (Upd(pc'[q], stage'[q]) <=> Upd(pc[q], stage[q]))
  BY <1>1, <1>4 DEF Cnt, Sub, Upd
<1>13. Pending' = Pending /\ Added' = Added /\ InCount' = InCount /\ Subtracted' = Subtracted
  BY <1>1, <1>9, <1>12, ProcFacts DEF Pending, Added, InCount, Subtracted
<1>14. Exact'
  <2>1. mixed' \in BOOLEAN /\ (mixed => mixed')
    BY <1>1 DEF IInv, Typed
  <2> QED  BY <1>1, <1>9, <1>12, <1>13, <2>1, ExactFrame
<1>15. Bounds'
  BY <1>1, <1>13, AddedFacts, BoundsFrame
<1> QED  BY <1>7, <1>8, <1>10, <1>11, <1>14, <1>15 DEF IInv

\* np is written.  When the updates do not overlap, it is one more, or one
\* less, than it was; when they do, it still is within the bounds.
LEMMA WriteCountInv ==
  ASSUME IInv, NEW p \in Procs, WriteDesc(p), pc[p] = "add"
  PROVE  IInv'
<1>1. /\ stage[p] = "desc" /\ count' = IF p = Parent THEN x[p] + 1 ELSE x[p] - 1
      /\ stage' = [stage EXCEPT ![p] = "free"]
      /\ UNCHANGED <<lock, desc, body, pc, x, k, result, mixed>>
  BY DEF WriteDesc, Writes
<1>2. /\ stage'[p] = "free" /\ \A q \in Procs : q # p => stage'[q] = stage[q]
      /\ x[p] \in Int /\ count \in Int /\ k \in Children /\ k \in Nat
  BY <1>1, ProcFacts DEF IInv, Typed
<1>3. Typed'
  <2>1. stage' \in [Procs -> Stages]
    BY <1>1 DEF IInv, Typed, Stages
  <2>2. count' \in Int
    BY <1>1, <1>2
  <2> QED  BY <1>1, <2>1, <2>2 DEF IInv, Typed
<1>4. \A q \in Procs : StageOK(pc[q], stage[q])'
  <2>1. StageOK("add", "free")
    BY DEF StageOK, Writes
  <2> QED  BY <1>1, <1>2, <2>1 DEF IInv
<1>5. (Forking' <=> Forking) /\ \A c : (Started(c)' <=> Started(c)) /\ (Cleared(c)' <=> Cleared(c))
  BY <1>1, <1>2, ProcFacts DEF Forking, Started, Cleared
<1>6. \A c \in Children : ChildInv(c)'
  BY <1>1, <1>2, <1>5, ProcFacts DEF IInv, ChildInv
<1>7. ResultInv'
  BY <1>1, <1>2, ProcFacts DEF IInv, ResultInv
<1>8. \A q \in Procs : q # p => /\ (Cnt(pc'[q], stage'[q]) <=> Cnt(pc[q], stage[q]))
                                /\ (Sub(pc'[q], stage'[q]) <=> Sub(pc[q], stage[q]))
                                /\ (Upd(pc'[q], stage'[q]) <=> Upd(pc[q], stage[q]))
  BY <1>1, <1>2 DEF Cnt, Sub, Upd
<1>9. /\ Cnt(pc[p], stage[p]) /\ ~ Cnt(pc'[p], stage'[p])
      /\ ~ Sub(pc[p], stage[p]) /\ Sub(pc'[p], stage'[p])
      /\ Upd(pc[p], stage[p]) /\ ~ Upd(pc'[p], stage'[p])
  BY <1>1, <1>2 DEF Cnt, Sub, Upd
<1>10. ~ mixed => x[p] = count /\ \A q \in Procs : ~ Upd(pc'[q], stage'[q])
  BY <1>8, <1>9 DEF IInv, Exact
<1>11. ~ mixed /\ Forking => count = Cardinality(InCount) + Pending
  BY DEF IInv, Exact
<1>12. /\ Cardinality(InCount) \in Nat /\ Cardinality(Subtracted) \in Nat
       /\ InCount \subseteq Children /\ Subtracted \subseteq Children
  <2>1. InCount \subseteq Children /\ Subtracted \subseteq Children
    BY DEF InCount, Subtracted
  <2> QED  BY <2>1, CardFacts
<1>13. /\ -Cardinality(Subtracted) <= count /\ count <= Added
       /\ \A q \in Procs : -Cardinality(Subtracted) <= x[q] /\ x[q] <= Added /\ x[q] \in Int
  BY DEF IInv, Bounds, Typed
<1>14. CASE p = Parent
  <2>1. Forking /\ Pending = 0 /\ Pending' = 1
    BY <1>1, <1>2, <1>14 DEF Forking, Pending, ParentAdded
  <2>2. InCount' = InCount /\ Subtracted' = Subtracted
    BY <1>5, <1>8, <1>14, ProcFacts DEF InCount, Subtracted
  <2>3. Added' = Added + 1 /\ Added \in Int
    BY <1>1, <1>2, <1>5, <2>1 DEF Added
  <2>4. count' = x[p] + 1
    BY <1>1, <1>14
  <2>5. Exact'
    <3> SUFFICES ASSUME ~ mixed PROVE Exact'
      BY <1>1 DEF Exact
    <3>1. count' = Cardinality(InCount) + 1
      BY <1>10, <1>11, <1>12, <2>1, <2>4
    <3> QED  BY <1>10, <2>1, <2>2, <3>1 DEF Exact
  <2>6. Bounds'
    <3> HIDE DEF Added, Subtracted
    <3>1. /\ -Cardinality(Subtracted) <= count' /\ count' <= Added + 1
          /\ \A q \in Procs : -Cardinality(Subtracted) <= x[q] /\ x[q] <= Added + 1
      BY <1>12, <1>13, <2>3, <2>4
    <3> QED  BY <1>1, <2>2, <2>3, <3>1 DEF Bounds
  <2> QED  BY <1>3, <1>4, <1>6, <1>7, <2>5, <2>6 DEF IInv
<1>15. CASE p \in Children
  <2>1. p # Parent /\ Pending' = Pending /\ Added' = Added /\ Started(p)
    BY <1>1, <1>2, <1>5, <1>15, ProcFacts DEF Pending, ParentAdded, Added, IInv, ChildInv
  <2>2. InCount' = InCount \ {p} /\ p \in InCount
    BY <1>8, <1>9, <1>15, ProcFacts DEF InCount
  <2>3. Subtracted' = Subtracted \cup {p} /\ p \notin Subtracted
    BY <1>5, <1>8, <1>9, <1>15, <2>1, ProcFacts DEF Subtracted
  <2>4. count' = x[p] - 1
    BY <1>1, <2>1
  <2>5. Cardinality(InCount') = Cardinality(InCount) - 1
    BY <1>12, <1>15, <2>2, CardNext
  <2>6. Cardinality(Subtracted') = Cardinality(Subtracted) + 1
    BY <1>12, <1>15, <2>3, CardNext
  <2>7. Exact'
    <3> SUFFICES ASSUME ~ mixed PROVE Exact'
      BY <1>1 DEF Exact
    <3>1. Forking => count' = Cardinality(InCount) - 1 + Pending
      BY <1>2, <1>10, <1>11, <1>12, <2>4, AddedFacts
    <3> QED  BY <1>5, <1>10, <2>1, <2>5, <3>1 DEF Exact
  <2>8. Bounds'
    <3>1. Added \in Int
      BY AddedFacts
    <3> HIDE DEF Added, Subtracted
    <3>2. /\ -(Cardinality(Subtracted) + 1) <= count' /\ count' <= Added
          /\ \A q \in Procs : -(Cardinality(Subtracted) + 1) <= x[q] /\ x[q] <= Added
      BY <1>12, <1>13, <2>4, <3>1
    <3> QED  BY <1>1, <2>1, <2>6, <3>2 DEF Bounds
  <2> QED  BY <1>3, <1>4, <1>6, <1>7, <2>7, <2>8 DEF IInv
<1> QED  BY <1>14, <1>15, ProcFacts
\* A child computes its result, is killed, or goes astray.
LEMMA ChildAloneInv ==
  ASSUME IInv, NEW c \in Children, Compute(c) \/ Killed(c) \/ TooLarge(c)
  PROVE  IInv'
<1>1. pc[c] \in {"compute", "return", "read", "add"}
  BY DEF Compute, Killed, TooLarge
<1>2. PICK g \in ChildPC : /\ pc' = [pc EXCEPT ![c] = g]
                          /\ stage' = [stage EXCEPT ![c] = "test"]
                          /\ StageOK(g, "test") /\ ~ Upd(g, "test")
                          /\ (Cnt(g, "test") <=> Cnt(pc[c], stage[c]))
                          /\ (Sub(pc[c], stage[c]) => Sub(g, "test"))
  <2>1. CASE Compute(c)
    <3>1. pc[c] = "compute" /\ pc' = [pc EXCEPT ![c] = "return"] /\ stage' = stage
      BY <2>1 DEF Compute
    <3>2. stage[c] = "test"
      BY <3>1, ProcFacts DEF IInv, StageOK, Reads, Writes
    <3>3. stage' = [stage EXCEPT ![c] = "test"]
      BY <3>1, <3>2 DEF IInv, Typed
    <3>4. /\ "return" \in ChildPC /\ StageOK("return", "test") /\ ~ Upd("return", "test")
          /\ Cnt("return", "test") /\ Cnt(pc[c], stage[c]) /\ ~ Sub(pc[c], stage[c])
      BY <3>1 DEF ChildPC, StageOK, Upd, Cnt, Sub
    <3> QED  BY <3>1, <3>3, <3>4
  <2>2. CASE Killed(c)
    <3> DEFINE g == IF pc[c] = "add" /\ stage[c] = "free" THEN "left" ELSE "killed"
    <3>1. pc' = [pc EXCEPT ![c] = g] /\ stage' = [stage EXCEPT ![c] = "test"]
      BY <2>2 DEF Killed
    <3>2. g \in ChildPC /\ StageOK(g, "test") /\ ~ Upd(g, "test")
      BY DEF ChildPC, StageOK, Upd
    <3>3. (Cnt(g, "test") <=> Cnt(pc[c], stage[c])) /\ (Sub(pc[c], stage[c]) => Sub(g, "test"))
      BY <1>1 DEF Cnt, Sub
    <3> QED  BY <3>1, <3>2, <3>3
  <2>3. CASE TooLarge(c)
    <3>1. /\ pc[c] = "return"
          /\ pc' = [pc EXCEPT ![c] = "astray"] /\ stage' = [stage EXCEPT ![c] = "test"]
      BY <2>3 DEF TooLarge
    <3>2. /\ "astray" \in ChildPC /\ StageOK("astray", "test") /\ ~ Upd("astray", "test")
          /\ Cnt("astray", "test") /\ Cnt(pc[c], stage[c]) /\ ~ Sub(pc[c], stage[c])
      BY <3>1 DEF ChildPC, StageOK, Upd, Cnt, Sub
    <3> QED  BY <3>1, <3>2
  <2> QED  BY <2>1, <2>2, <2>3
<1>3. /\ lock' \in [Vars -> {-1, 0, 1}]
      /\ UNCHANGED <<count, desc, body, x, k, result, mixed>>
  <2>1. lock \in [Vars -> {-1, 0, 1}]
    BY DEF IInv, Typed
  <2> QED  BY <2>1 DEF Compute, Killed, TooLarge
<1>4. pc[c] # "none" /\ "test" \in Stages
  BY <1>1 DEF Stages
<1> QED  BY <1>2, <1>3, <1>4, ChildMoves

\* A child is forked, or its fork fails: what the parent added is now its.
LEMMA ForkedInv ==
  ASSUME IInv, NEW g \in {"compute", "failed"}, Forked(g)
  PROVE  IInv'
<1> DEFINE h == IF k = N THEN "poll" ELSE "check"
<1>1. /\ pc[Parent] = "fork" /\ k' = IF k = N THEN 1 ELSE k + 1
      /\ pc' = [pc EXCEPT ![k] = g, ![Parent] = h]
      /\ UNCHANGED <<lock, count, desc, body, stage, x, result, mixed>>
  BY DEF Forked
<1>2. /\ k \in Children /\ k \in Procs /\ k # Parent /\ k \in Nat /\ 1 <= k /\ k <= N
      /\ N \in Nat /\ 1 \in Children
  BY ProcFacts DEF IInv, Typed, Children
<1>3. /\ pc'[k] = g /\ pc'[Parent] = h
      /\ \A q \in Procs : q # k /\ q # Parent => pc'[q] = pc[q]
      /\ pc' \in [Procs -> ChildPC \cup ParentPC]
  BY <1>1, <1>2, ProcFacts DEF IInv, Typed, ChildPC, ParentPC
<1>4. k' \in Children /\ (k # N => k' = k + 1) /\ (k = N => k' = 1)
  BY <1>1, <1>2 DEF Children
<1>5. (h = "poll" /\ k = N) \/ (h = "check" /\ k # N)
  OBVIOUS
<1> HIDE DEF h
<1>6. Forking /\ ParentAdded /\ Pending = 1 /\ Pending' = 0 /\ (Forking' <=> k # N)
  BY <1>1, <1>3, <1>5 DEF Forking, ParentAdded, Pending
<1>7. pc[k] = "none" /\ ~ Started(k)
  BY <1>2, <1>6 DEF Started, IInv, ChildInv
<1>8. stage[k] = "test" /\ stage[Parent] = "test"
  BY <1>1, <1>2, <1>7, ProcFacts DEF IInv, StageOK, Reads, Writes
<1>9. \A c \in Children : (Started(c)' <=> Started(c) \/ c = k)
  BY <1>2, <1>4, <1>6, ProcFacts DEF Started
<1>10. Typed'
  <2>1. h \in ParentPC /\ g \in ChildPC
    BY <1>5 DEF ParentPC, ChildPC
  <2>2. \A c \in Children : pc'[c] \in ChildPC
    BY <1>3, <2>1, ProcFacts DEF IInv, Typed
  <2> QED  BY <1>1, <1>3, <1>4, <2>1, <2>2 DEF IInv, Typed
<1>11. \A q \in Procs : StageOK(pc[q], stage[q])'
  <2>1. StageOK(g, "test") /\ StageOK(h, "test")
    BY DEF StageOK
  <2> QED  BY <1>1, <1>3, <1>8, <2>1, ProcFacts DEF IInv
<1>12. \A c \in Children : ChildInv(c)'
  <2>1. \A c \in Children : Cleared(c)' => Cleared(c)
    BY <1>1, <1>3, <1>5, <1>9 DEF Cleared
  <2> QED  BY <1>1, <1>2, <1>3, <1>9, <2>1, ProcFacts DEF IInv, ChildInv
<1>13. ResultInv'
  <2>1. h = "poll" => \A c \in Children : ~ (c < k')
    BY <1>4, <1>5, ProcFacts
  <2> QED  BY <1>1, <1>3, <1>5, <1>8, <2>1 DEF ResultInv
<1>14. /\ Cnt(g, "test") /\ ~ Upd(g, "test") /\ ~ Upd(h, "test") /\ ~ Cnt(pc[k], stage[k])
  BY <1>5, <1>7 DEF Cnt, Upd
<1>15. InCount' = InCount \cup {k} /\ k \notin InCount /\ InCount \subseteq Children
  <2>1. \A c \in Children : c # k => (Cnt(pc'[c], stage'[c]) <=> Cnt(pc[c], stage[c]))
    BY <1>1, <1>3, ProcFacts
  <2>2. Cnt(pc'[k], stage'[k])
    BY <1>1, <1>3, <1>8, <1>14
  <2> QED  BY <1>2, <1>14, <2>1, <2>2 DEF InCount
<1>16. Exact'
  <2> SUFFICES ASSUME ~ mixed PROVE Exact'
    BY <1>1 DEF Exact
  <2>1. \A q \in Procs : Upd(pc'[q], stage'[q]) => Upd(pc[q], stage[q])
    BY <1>1, <1>3, <1>8, <1>14, ProcFacts
  <2>2. /\ Cardinality(InCount') = Cardinality(InCount) + 1
        /\ Cardinality(InCount) \in Nat
    BY <1>2, <1>15, CardNext, CardFacts
  <2>3. /\ count = Cardinality(InCount) + Pending
        /\ \A p, q \in Procs : Upd(pc[p], stage[p]) /\ Upd(pc[q], stage[q]) => p = q
        /\ \A p \in Procs : Upd(pc[p], stage[p]) => x[p] = count
    BY <1>6 DEF IInv, Exact
  <2>4. count' = Cardinality(InCount') + Pending'
    BY <1>1, <1>6, <2>2, <2>3
  <2> QED  BY <1>1, <2>1, <2>3, <2>4 DEF Exact
<1>17. Bounds'
  <2>1. Added' = Added
    <3>1. Added = k
      BY <1>2, <1>6 DEF Added
    <3>2. Added' = IF Forking' THEN k' - 1 + Pending' ELSE N
      BY DEF Added
    <3>3. CASE k = N
      BY <1>6, <3>1, <3>2, <3>3
    <3>4. CASE k # N
      <4>1. Forking' /\ Pending' = 0 /\ k' = k + 1
        BY <1>4, <1>6, <3>4
      <4> QED  BY <1>2, <3>1, <3>2, <4>1
    <3> QED  BY <3>3, <3>4
  <2>2. Subtracted \subseteq Subtracted'
    BY <1>1, <1>2, <1>3, <1>7, <1>9, ProcFacts DEF Subtracted
  <2> QED  BY <1>1, <2>1, <2>2, AddedFacts, BoundsFrame
<1> QED  BY <1>10, <1>11, <1>12, <1>13, <1>16, <1>17 DEF IInv

\* A child that has ended is waited for; Wait[] of no child returns too.
LEMMA WaitInv ==
  ASSUME IInv, Wait
  PROVE  IInv'
<1> DEFINE h == IF k = N THEN "done" ELSE "poll"
<1>1. /\ pc[Parent] = "wait" /\ pc' \in [Procs -> ChildPC \cup ParentPC]
      /\ pc'[Parent] = h
      /\ \A c \in Children : pc'[c] = pc[c] \/ (Ended(c) /\ pc'[c] = "none")
  <2>1. "none" \in ChildPC /\ h \in ParentPC
    BY DEF ChildPC, ParentPC
  <2>2. PICK next : /\ \/ \E c \in Children : Ended(c) /\ next = [pc EXCEPT ![c] = "none"]
                       \/ next = pc
                    /\ pc' = [next EXCEPT ![Parent] = h]
    BY DEF Wait, Waited
  <2>3. /\ next \in [Procs -> ChildPC \cup ParentPC]
        /\ \A c \in Children : next[c] = pc[c] \/ (Ended(c) /\ next[c] = "none")
    BY <2>1, <2>2, ProcFacts DEF IInv, Typed
  <2>4. pc[Parent] = "wait"
    BY DEF Wait
  <2> HIDE DEF h
  <2> QED  BY <2>1, <2>2, <2>3, <2>4, ProcFacts
<1>2. /\ k' = IF k = N THEN k ELSE k + 1
      /\ UNCHANGED <<lock, count, desc, body, stage, x, result, mixed>>
  BY DEF Wait, Waited
<1>3. /\ k \in Nat /\ 1 <= k /\ k <= N /\ N \in Nat /\ \A c \in Children : c \in Nat /\ c <= N
      /\ k' \in Children
  <2>1. /\ k \in Nat /\ 1 <= k /\ k <= N /\ N \in Nat /\ \A c \in Children : c \in Nat /\ c <= N
    BY ProcFacts DEF IInv, Typed, Children
  <2> QED  BY <1>2, <2>1 DEF IInv, Typed, Children
<1>4. (h = "done" /\ k = N) \/ (h = "poll" /\ k # N /\ k' = k + 1)
  BY <1>2
<1> HIDE DEF h
<1>5. ~ Forking /\ ~ Forking' /\ Pending = 0 /\ Pending' = 0
  BY <1>1, <1>4 DEF Forking, Pending, ParentAdded
<1>6. \A c : Started(c) /\ Started(c)' /\ Cleared(c) /\ Cleared(c)'
  BY <1>5 DEF Started, Cleared
<1>7. \A c \in Children : Ended(c) => stage[c] = "test" /\ ~ Upd(pc[c], stage[c])
  BY ProcFacts DEF IInv, StageOK, Reads, Writes, Ended, Upd
<1>8. stage[Parent] = "test"
  BY <1>1, ProcFacts DEF IInv, StageOK, Reads, Writes
<1>9. Typed'
  <2>1. h \in ParentPC /\ "none" \in ChildPC
    BY <1>4 DEF ParentPC, ChildPC
  <2>2. \A c \in Children : pc'[c] \in ChildPC
    BY <1>1, <2>1 DEF IInv, Typed
  <2> QED  BY <1>1, <1>2, <1>3, <2>1, <2>2 DEF IInv, Typed
<1>10. \A q \in Procs : StageOK(pc[q], stage[q])'
  <2>1. StageOK("none", "test") /\ StageOK(h, "test")
    BY DEF StageOK
  <2> QED  BY <1>1, <1>2, <1>7, <1>8, <2>1, ProcFacts DEF IInv
<1>11. \A c \in Children : ChildInv(c)'
  BY <1>1, <1>2, <1>6 DEF IInv, ChildInv
<1>12. ResultInv'
  <2>1. \A c \in Children : c <= k => result[c] = "f"
    BY <1>1, <1>3 DEF IInv, ResultInv
  <2> QED  BY <1>1, <1>2, <1>3, <1>4, <1>8, <2>1 DEF ResultInv
<1>13. \A c \in Children : Upd(pc'[c], stage'[c]) => Upd(pc[c], stage[c])
  BY <1>1, <1>2 DEF Upd
<1>14. Exact'
  <2>1. ~ Upd(pc'[Parent], stage'[Parent])
    BY <1>1, <1>4 DEF Upd
  <2>2. \A q \in Procs : Upd(pc'[q], stage'[q]) => Upd(pc[q], stage[q]) /\ x'[q] = x[q]
    BY <1>2, <1>13, <2>1, ProcFacts
  <2>3. mixed' \in BOOLEAN /\ (mixed => mixed')
    BY <1>2 DEF IInv, Typed
  <2> QED  BY <1>2, <1>5, <2>2, <2>3, ExactFrame
<1>15. Bounds'
  <2>1. Added' = Added
    BY <1>5 DEF Added
  <2>2. Subtracted \subseteq Subtracted'
    BY <1>1, <1>2, <1>6 DEF Subtracted, Sub
  <2> QED  BY <1>2, <2>1, <2>2, AddedFacts, BoundsFrame
<1> QED  BY <1>9, <1>10, <1>11, <1>12, <1>14, <1>15 DEF IInv

LEMMA InitInv == Init => IInv
<1> SUFFICES ASSUME Init PROVE IInv
  OBVIOUS
<1>1. /\ pc \in [Procs -> ChildPC \cup ParentPC] /\ pc[Parent] = "check"
      /\ \A c \in Children : pc[c] = "none"
      /\ stage \in [Procs -> Stages] /\ x \in [Procs -> Int] /\ k = 1 /\ k \in Children
      /\ \A p \in Procs : stage[p] = "test" /\ x[p] = 0
  BY ProcFacts DEF Init, ChildPC, ParentPC, Stages, Children
<1>2. Typed
  <2>1. /\ lock \in [Vars -> {-1, 0, 1}] /\ count \in Int
        /\ desc \in [Children -> {"none", "Undefined", "list"}]
        /\ body \in [Children -> {"old", "f"}]
        /\ result \in [Children -> {"none", "Undefined", "list", "old", "f"}]
        /\ mixed \in BOOLEAN
    <3>1. lock = [v \in Vars |-> 0] /\ count = 0 /\ mixed = FALSE
      BY DEF Init
    <3>2. lock \in [Vars -> {-1, 0, 1}] /\ count \in Int /\ mixed \in BOOLEAN
      <4>1. lock \in [Vars -> {-1, 0, 1}]
        <5>1. 0 \in {-1, 0, 1}
          OBVIOUS
        <5> QED  BY <3>1, <5>1, Zenon
      <4>2. count \in Int
        BY <3>1
      <4>3. mixed \in BOOLEAN
        BY <3>1, Zenon
      <4> QED  BY <4>1, <4>2, <4>3
    <3>3. /\ desc = [c \in Children |-> "none"] /\ body = [c \in Children |-> "old"]
          /\ result = [c \in Children |-> "none"]
      BY DEF Init
    <3>4. /\ desc \in [Children -> {"none", "Undefined", "list"}]
          /\ body \in [Children -> {"old", "f"}]
      BY <3>3
    <3>5. result \in [Children -> {"none", "Undefined", "list", "old", "f"}]
      BY <3>3
    <3> QED  BY <3>2, <3>4, <3>5
  <2>2. pc[Parent] \in ParentPC /\ \A c \in Children : pc[c] \in ChildPC
    BY <1>1 DEF ChildPC, ParentPC
  <2> QED  BY <1>1, <2>1, <2>2 DEF Typed
<1>3. \A p \in Procs : StageOK(pc[p], stage[p]) /\ ~ Upd(pc[p], stage[p])
  BY <1>1, ProcFacts DEF StageOK, Upd
<1>4. Forking /\ ~ ParentAdded /\ \A c \in Children : ~ Started(c) /\ ~ Cleared(c)
  BY <1>1, ProcFacts DEF Forking, ParentAdded, Started, Cleared
<1>5. \A c \in Children : ChildInv(c)
  BY <1>1, <1>4 DEF Init, ChildInv
<1>6. ResultInv
  BY <1>1 DEF ResultInv
<1>7. InCount = {} /\ Subtracted = {} /\ Pending = 0 /\ Added = 0
  <2>1. \A c \in Children : ~ Cnt(pc[c], stage[c])
    BY <1>1 DEF Cnt
  <2>2. Pending = 0 /\ Added = 0
    BY <1>1, <1>4 DEF Pending, Added
  <2> QED  BY <1>4, <2>1, <2>2 DEF InCount, Subtracted
<1>8. Cardinality({}) = 0
  BY FS_EmptySet
<1>9. Exact
  BY <1>3, <1>7, <1>8 DEF Init, Exact
<1>10. Bounds
  BY <1>1, <1>7, <1>8 DEF Init, Bounds
<1> QED  BY <1>2, <1>3, <1>5, <1>6, <1>9, <1>10 DEF IInv

LEMMA StepInv == IInv /\ [Next]_vars => IInv'
<1> SUFFICES ASSUME IInv, [Next]_vars PROVE IInv'
  OBVIOUS
<1>1. ASSUME NEW p \in Procs, Access(p) PROVE IInv'
  <2>1. CASE Test(p) \/ Mark(p)
    BY <2>1, MarkInv
  <2>2. CASE ReadDesc(p) /\ Var(p) = NP
    BY <2>2, ReadCountInv
  <2>3. CASE (ReadDesc(p) /\ Var(p) # NP) \/ ReadBody(p)
    BY <2>3, ReadResultInv
  <2>4. CASE WriteBody(p)
    BY <2>4, WriteBodyInv
  <2>5. CASE TooLarge(p)
    <3>1. p \in Children
      BY <2>5, ProcFacts DEF TooLarge, IInv, Typed, ParentPC
    <3> QED  BY <2>5, <3>1, ChildAloneInv
  <2>6. CASE WriteDesc(p) /\ pc[p] # "add"
    BY <2>6, WriteResultInv
  <2>7. CASE WriteDesc(p) /\ pc[p] = "add"
    BY <2>7, WriteCountInv
  <2>8. CASE FreeLock(p)
    BY <2>8, FreeLockInv
  <2> QED  BY <1>1, <2>1, <2>2, <2>3, <2>4, <2>5, <2>6, <2>7, <2>8 DEF Access
<1>2. CASE ParentStep
  <2>1. CASE Access(Parent)
    BY <1>1, <2>1, ProcFacts
  <2>2. CASE Fork \/ ForkFails
    BY <2>2, ForkedInv DEF Fork, ForkFails
  <2>3. CASE Wait
    BY <2>3, WaitInv
  <2> QED  BY <1>2, <2>1, <2>2, <2>3 DEF ParentStep
<1>3. ASSUME NEW c \in Children, ChildStep(c) \/ Killed(c) PROVE IInv'
  BY <1>1, <1>3, ProcFacts, ChildAloneInv DEF ChildStep
<1>4. CASE UNCHANGED vars
  <2> USE <1>4 DEF vars
  <2>1. Typed'
    BY DEF IInv, Typed
  <2>2. \A p \in Procs : StageOK(pc[p], stage[p])'
    BY DEF IInv
  <2>3. /\ (Forking' <=> Forking) /\ (ParentAdded' <=> ParentAdded)
        /\ \A c : (Started(c)' <=> Started(c)) /\ (Cleared(c)' <=> Cleared(c))
    BY DEF Forking, ParentAdded, Started, Cleared
  <2>4. \A c \in Children : ChildInv(c)'
    BY <2>3 DEF IInv, ChildInv
  <2>5. ResultInv'
    BY DEF IInv, ResultInv
  <2>6. Pending' = Pending /\ Added' = Added /\ InCount' = InCount /\ Subtracted' = Subtracted
    BY <2>3 DEF Pending, Added, InCount, Subtracted
  <2>7. Exact'
    BY <2>3, <2>6 DEF IInv, Exact
  <2>8. Bounds'
    BY <2>6 DEF IInv, Bounds
  <2> QED  BY <2>1, <2>2, <2>4, <2>5, <2>7, <2>8 DEF IInv
<1> QED  BY <1>2, <1>3, <1>4 DEF Next

LEMMA InvImplies == IInv => TypeOK /\ WholeResults /\ CountIsExact
<1> SUFFICES ASSUME IInv PROVE TypeOK /\ WholeResults /\ CountIsExact
  OBVIOUS
<1>1. TypeOK
  <2>1. Subtracted \subseteq Children /\ Cardinality(Subtracted) \in Nat /\ Cardinality(Subtracted) <= N
    <3>1. Subtracted \subseteq Children
      BY DEF Subtracted
    <3> QED  BY <3>1, CardFacts
  <2>2. Added <= N /\ Added \in Int
    <3>1. Pending = 1 => Forking
      BY DEF Pending, ParentAdded, Forking
    <3> QED  BY <3>1, AddedFacts DEF Added
  <2>3. count \in (-N)..N /\ \A p \in Procs : x[p] \in (-N)..N
    <3>1. /\ count \in Int /\ -Cardinality(Subtracted) <= count /\ count <= Added
          /\ \A p \in Procs : -Cardinality(Subtracted) <= x[p] /\ x[p] <= Added /\ x[p] \in Int
      BY DEF IInv, Bounds, Typed
    <3> HIDE DEF Added, Subtracted
    <3> QED  BY <2>1, <2>2, <3>1, AddedFacts
  <2>4. x \in [Procs -> (-N)..N]
    BY <2>3 DEF IInv, Typed
  <2>5. pc \in [Procs -> Reads \cup Writes
                      \cup {"none", "fork", "compute", "wait", "done"}
                      \cup {"ended", "killed", "left", "failed", "astray"}]
    BY DEF IInv, Typed, ChildPC, ParentPC, Reads, Writes
  <2> QED  BY <2>3, <2>4, <2>5 DEF TypeOK, IInv, Typed
<1>2. WholeResults
  BY ProcFacts DEF IInv, ResultInv, WholeResults
<1>3. CountIsExact
  <2>1. InCount = Counted
    BY DEF InCount, Counted, Cnt
  <2> QED  BY <2>1 DEF IInv, Exact, Pending, CountIsExact
<1> QED  BY <1>1, <1>2, <1>3

LEMMA AlwaysInv == Spec => []IInv
BY InitInv, StepInv, PTL DEF Spec

\* The shared count and every value read of it lie between minus the calls and
\* the calls, whatever updates overlap and whoever is killed (np of Parallelize,
\* tfreadshared and tfwriteshared).
THEOREM ParallelizeTypeOK == Spec => []TypeOK
BY AlwaysInv, InvImplies, PTL

\* A result the parent has collected is the whole result of its child, however
\* the accesses interleave and whichever processes fail (Parallelize, Shared[]).
THEOREM ParallelizeWholeResults == Spec => []WholeResults
BY AlwaysInv, InvImplies, PTL

\* np is the number of children that are still to subtract themselves, plus
\* what the parent has added for the next one, as long as no two updates of it
\* have overlapped (While[Shared[np] >= npara] of Parallelize).
THEOREM ParallelizeCountIsExact == Spec => []CountIsExact
BY AlwaysInv, InvImplies, PTL
=============================================================================
