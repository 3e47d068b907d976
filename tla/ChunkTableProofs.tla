-------------------------- MODULE ChunkTableProofs --------------------------
(***************************************************************************)
(* Proofs about ChunkTable for every size of the table and every set of    *)
(* chunks.  Shape is what the four invariants need to be inductive: how    *)
(* the entries look while tfentercbk is half way through them.             *)
(***************************************************************************)
EXTENDS ChunkTable, TLAPS, WellFoundedInduction

Shape ==
  /\ \A k \in 1..NCbk : tab[k] # Empty => tab[k].lo > 0 /\ tab[k].lo <= tab[k].hi
  /\ \A k \in 1..NCbk : k > jcbk => tab[k] = Empty
  /\ new # Empty =>
       /\ Words(new) \cap mem = {}
       /\ jcbk < icbk /\ j <= jcbk + 1 /\ j0 <= jcbk + 1
       /\ \A k \in 1..NCbk : tab[k].hi \in Words(new) => tab[k].hi = new.hi

IInv == TypeOK /\ Shape /\ NothingLost /\ NothingElse /\ FreeSlot

\* A chunk is longer than two words and starts above address 1.
LEMMA ChunkFacts ==
  ASSUME NEW c \in Chunks
  PROVE  /\ c \in Entry /\ c # Empty
         /\ c.lo \in Nat /\ c.hi \in Nat /\ c.lo > 1 /\ c.hi > c.lo + 1
         /\ Words(c) = c.lo .. c.hi
BY ChunksAssumption DEF Entry, Empty, Words

LEMMA EntryFacts ==
  ASSUME TypeOK, Shape, NEW k \in 1..NCbk
  PROVE  /\ tab[k] \in Entry /\ tab[k].lo \in Nat /\ tab[k].hi \in Nat
         /\ tab[k] # Empty => Words(tab[k]) = tab[k].lo .. tab[k].hi
         /\ tab[k] # Empty <=> tab[k].hi > 0
         /\ tab[k] # Empty <=> tab[k].lo > 0
<1>1. tab[k] \in Entry
  BY DEF TypeOK
<1>2. tab[k].lo \in Nat /\ tab[k].hi \in Nat /\ Empty.lo = 0 /\ Empty.hi = 0
  BY <1>1 DEF Entry, Empty
<1>3. tab[k] # Empty => tab[k].lo > 0 /\ tab[k].lo <= tab[k].hi
  BY DEF Shape
<1> QED  BY <1>1, <1>2, <1>3 DEF Words

\* A set of naturals that has an element has a least one.
LEMMA SmallestIn ==
  ASSUME NEW S, NEW n \in Nat, n \in S
  PROVE  \E m \in Nat : m \in S /\ \A l \in 0..(m - 1) : l \notin S
<1> DEFINE R == OpToRel(<, Nat)
           T == {x \in Nat : x \in S}
<1>1. IsWellFoundedOn(R, Nat)
  BY NatLessThanWellFounded
<1>2. T \subseteq Nat /\ T # {}
  OBVIOUS
<1>3. \A x, y \in Nat : x < y => <<x, y>> \in R
  BY DEF OpToRel
<1>4. \A x : x \in T <=> x \in Nat /\ x \in S
  OBVIOUS
<1> HIDE DEF R, T
<1>5. PICK m \in T : \A y \in T : ~ (<<y, m>> \in R)
  BY <1>1, <1>2, WFMin
<1>6. m \in Nat /\ m \in S
  BY <1>4
<1>7. ASSUME NEW l \in 0..(m - 1) PROVE l \notin S
  <2>1. l \in Nat /\ l < m
    BY <1>6
  <2>2. l \notin T
    BY <1>3, <1>5, <1>6, <2>1
  <2> QED  BY <1>4, <2>1, <2>2
<1> QED  BY <1>6, <1>7

LEMMA InitInv == Init => IInv
<1> SUFFICES ASSUME Init PROVE IInv
  OBVIOUS
<1>1. PICK c \in Chunks : /\ tab = [k \in 1..NCbk |-> IF k = 1 THEN c ELSE Empty]
                          /\ mem = Words(c)
  BY DEF Init
<1>2. Empty \in Entry
  BY DEF Entry, Empty
<1>3. TypeOK
  BY <1>1, <1>2, ChunkFacts, NCbkAssumption DEF Init, TypeOK, Entry
<1>4. Shape
  BY <1>1, ChunkFacts, NCbkAssumption DEF Init, Shape
<1>5. NothingLost
  BY <1>1, NCbkAssumption DEF Init, NothingLost, InTable
<1>6. NothingElse
  BY <1>1 DEF Init, NothingElse
<1>7. FreeSlot
  BY DEF Init, FreeSlot
<1> QED  BY <1>3, <1>4, <1>5, <1>6, <1>7 DEF IInv

\* The branch of tfentercbk that merges downwards is dead.
LEMMA MergeDownIsDead == IInv => NeverMergesDown
<1> SUFFICES ASSUME IInv, Scanning, NEW k \in 1..jcbk, tab[k].hi = new.lo + 1
             PROVE  FALSE
  BY DEF NeverMergesDown, Reaching
<1>1. new \in Chunks
  BY DEF IInv, TypeOK, Scanning
<1>2. k \in 1..NCbk
  BY NCbkAssumption DEF IInv, TypeOK
<1>3. tab[k].hi \in Words(new) /\ tab[k].hi # new.hi
  BY <1>1, ChunkFacts
<1> QED  BY <1>2, <1>3 DEF IInv, Shape, Scanning

-----------------------------------------------------------------------------
\* When tfentercbk returns with the table t, using at most the first n
\* entries: what has to be shown of t.
Fine(t, n, words) ==
  /\ t \in [1..NCbk -> Entry]
  /\ \A k \in 1..NCbk : t[k] # Empty => /\ k <= n
                                         /\ t[k].lo > 0 /\ t[k].lo <= t[k].hi
                                         /\ Words(t[k]) \subseteq words
  /\ \A w \in words : \E k \in 1..NCbk : w \in Words(t[k])

LEMMA ReturnInv ==
  ASSUME IInv, NEW t, Return(t), new \in Chunks,
         jcbk' \in 1..NCbk, jcbk' <= icbk, Fine(t, jcbk', mem \cup Words(new))
  PROVE  IInv'
<1>1. tab' = t /\ mem' = mem \cup Words(new) /\ new' = Empty /\ icbk' = icbk
      /\ j' = j /\ j0' = j0
  BY DEF Return
<1>2. Words(new) \subseteq Nat \ {0}
  BY ChunkFacts
<1>3. TypeOK'
  BY <1>1, <1>2 DEF IInv, TypeOK, Fine
<1>4. Shape'
  BY <1>1 DEF Shape, Fine, IInv, TypeOK
<1>5. NothingElse'
  BY <1>1 DEF NothingElse, Fine
<1>6. NothingLost'
  <2> SUFFICES ASSUME NEW w \in mem' PROVE InTable(w)'
    BY DEF NothingLost
  <2>1. PICK k \in 1..NCbk : w \in Words(t[k])
    BY <1>1 DEF Fine
  <2>2. t[k] # Empty
    BY <2>1 DEF Empty, Words
  <2>3. k \in 1..jcbk'
    BY <2>2, NCbkAssumption DEF Fine
  <2> QED  BY <1>1, <2>1, <2>3 DEF InTable
<1>7. FreeSlot'
  BY <1>1 DEF FreeSlot
<1> QED  BY <1>3, <1>4, <1>5, <1>6, <1>7 DEF IInv

LEMMA AllocateInv == ASSUME IInv, NEW c \in Chunks, Allocate(c) PROVE IInv'
<1>1. c # Empty /\ c \in Entry /\ Words(Empty) = {}
  BY ChunkFacts DEF Words, Empty
<1>2. TypeOK'
  BY NCbkAssumption DEF IInv, TypeOK, Allocate
<1>3. \A k \in 1..NCbk : tab[k].hi \in Words(c) => FALSE
  <2> SUFFICES ASSUME NEW k \in 1..NCbk, tab[k].hi \in Words(c) PROVE FALSE
    OBVIOUS
  <2>1. tab[k] # Empty
    BY DEF Words, Empty
  <2>2. tab[k].hi \in Words(tab[k])
    BY <2>1, EntryFacts DEF IInv, Shape
  <2>3. tab[k].hi \in mem
    BY <1>1, <2>1, <2>2 DEF IInv, NothingElse, Allocate
  <2> QED  BY <2>3 DEF Allocate
<1>4. Shape'
  BY <1>3, NCbkAssumption DEF IInv, TypeOK, Shape, Allocate
<1>5. NothingLost' /\ NothingElse'
  BY <1>1 DEF IInv, NothingLost, InTable, NothingElse, Allocate
<1>6. FreeSlot'
  BY NCbkAssumption DEF IInv, TypeOK, Shape, FreeSlot, Allocate
<1> QED  BY <1>2, <1>4, <1>5, <1>6 DEF IInv

LEMMA PassInv == ASSUME IInv, Pass PROVE IInv'
<1>1. j \in 1..NCbk /\ new \in Chunks
  BY NCbkAssumption DEF IInv, TypeOK, Pass, Scanning
<1>2. TypeOK'
  BY <1>1, NCbkAssumption DEF IInv, TypeOK, Pass
<1>3. Shape'
  BY <1>1, NCbkAssumption DEF IInv, TypeOK, Shape, Pass, Scanning
<1>4. NothingLost' /\ NothingElse'
  BY DEF IInv, NothingLost, InTable, NothingElse, Pass
<1>5. FreeSlot'
  <2>1. tab[j].hi = 0 => tab[j] = Empty
    BY <1>1, EntryFacts DEF IInv
  <2> QED  BY <2>1 DEF IInv, FreeSlot, Pass
<1> QED  BY <1>2, <1>3, <1>4, <1>5 DEF IInv

\* An entry extended by the chunk, upwards or downwards.
LEMMA ExtendInv ==
  ASSUME IInv, Scanning, NEW e \in Entry, new \in Chunks,
         tab[j] # Empty, e # Empty, e.lo > 0, e.lo <= e.hi,
         Words(tab[j]) \subseteq Words(e),
         Words(e) \subseteq mem \cup Words(new),
         e.hi \in Words(new) => e.hi = new.hi,
         tab' = [tab EXCEPT ![j] = e], j' = j + 1,
         UNCHANGED <<jcbk, icbk, mem, new, j0>>
  PROVE  IInv'
<1>1. j \in 1..NCbk /\ j <= jcbk
  BY NCbkAssumption DEF IInv, TypeOK, Scanning
<1>2. \A k \in 1..NCbk : tab'[k] = IF k = j THEN e ELSE tab[k]
  BY <1>1 DEF IInv, TypeOK
<1>3. TypeOK'
  BY <1>1, NCbkAssumption DEF IInv, TypeOK
<1>4. Shape'
  BY <1>1, <1>2, NCbkAssumption DEF IInv, TypeOK, Shape, Scanning
<1>5. NothingLost'
  <2> SUFFICES ASSUME NEW w \in mem PROVE InTable(w)'
    BY DEF NothingLost
  <2>1. PICK k \in 1..jcbk : w \in Words(tab[k])
    BY DEF IInv, NothingLost, InTable
  <2>2. k \in 1..NCbk
    BY NCbkAssumption DEF IInv, TypeOK
  <2>3. w \in Words(tab'[k])
    BY <1>2, <2>1, <2>2
  <2> QED  BY <2>1, <2>3 DEF InTable
<1>6. NothingElse'
  BY <1>2 DEF IInv, NothingElse
<1>7. FreeSlot'
  <2>1. j0 # j /\ j0 \in 1..NCbk
    BY DEF IInv, FreeSlot, TypeOK, Scanning
  <2> QED  BY <1>2, <2>1 DEF IInv, FreeSlot
<1> QED  BY <1>3, <1>4, <1>5, <1>6, <1>7 DEF IInv

LEMMA ExtendDownInv == ASSUME IInv, ExtendDown PROVE IInv'
<1> DEFINE e == [tab[j] EXCEPT !.lo = new.lo]
<1>1. new \in Chunks /\ j \in 1..NCbk /\ Scanning
  BY NCbkAssumption DEF IInv, TypeOK, Scanning, ExtendDown
<1>2. tab[j] \in Entry /\ tab[j].lo = new.hi + 1
  BY <1>1 DEF IInv, TypeOK, ExtendDown, StartsAfter
<1>3. tab[j] # Empty /\ tab[j].lo <= tab[j].hi /\ tab[j].lo \in Nat /\ tab[j].hi \in Nat
      /\ Words(tab[j]) = tab[j].lo .. tab[j].hi
  BY <1>1, <1>2, ChunkFacts, EntryFacts DEF IInv, Shape
<1>4. e \in Entry /\ e.lo = new.lo /\ e.hi = tab[j].hi
  BY <1>1, <1>2, ChunkFacts DEF Entry
<1>5. tab' = [tab EXCEPT ![j] = e]
  BY <1>1, <1>2 DEF ExtendDown, IInv, TypeOK
<1> HIDE DEF e
<1>6. e # Empty /\ e.lo > 0 /\ e.lo <= e.hi /\ Words(e) = new.lo .. tab[j].hi
  BY <1>1, <1>2, <1>3, <1>4, ChunkFacts DEF Words, Empty
<1>7. Words(e) = Words(tab[j]) \cup Words(new)
  BY <1>1, <1>2, <1>3, <1>6, ChunkFacts
<1>8. Words(tab[j]) \subseteq mem \cup Words(new)
  BY <1>1, <1>3 DEF IInv, NothingElse
<1>9. e.hi \notin Words(new)
  BY <1>1, <1>2, <1>3, <1>4, ChunkFacts
<1> QED  BY <1>1, <1>3, <1>4, <1>5, <1>6, <1>7, <1>8, <1>9, ExtendInv DEF ExtendDown

LEMMA ExtendUpInv == ASSUME IInv, ExtendUp PROVE IInv'
<1> DEFINE e == [tab[j] EXCEPT !.hi = new.hi]
           t == [tab EXCEPT ![j].hi = new.hi]
           K == Touching(t, new.hi + 1)
           k == First(K)
<1>1. new \in Chunks /\ j \in 1..NCbk /\ j <= jcbk /\ Scanning /\ jcbk \in 1..NCbk
  BY NCbkAssumption DEF IInv, TypeOK, Scanning, ExtendUp
<1>2. tab[j] \in Entry /\ tab[j].hi = new.lo - 1
  BY <1>1 DEF IInv, TypeOK, ExtendUp, EndsBefore
<1>3. tab[j] # Empty /\ tab[j].lo > 0 /\ tab[j].lo <= tab[j].hi /\ tab[j].lo \in Nat
      /\ Words(tab[j]) = tab[j].lo .. tab[j].hi
  BY <1>1, <1>2, ChunkFacts, EntryFacts DEF IInv, Shape
<1>4. e \in Entry /\ e.lo = tab[j].lo /\ e.hi = new.hi
  BY <1>1, <1>2, ChunkFacts DEF Entry
<1>5. t = [tab EXCEPT ![j] = e] /\ t \in [1..NCbk -> Entry]
      /\ \A i \in 1..NCbk : t[i] = IF i = j THEN e ELSE tab[i]
  BY <1>1, <1>2, <1>4 DEF IInv, TypeOK
<1>6. e # Empty /\ e.lo > 0 /\ e.lo <= e.hi /\ Words(e) = tab[j].lo .. new.hi
  BY <1>1, <1>2, <1>3, <1>4, ChunkFacts DEF Words, Empty
<1> HIDE DEF e, t
<1>7. Words(e) = Words(tab[j]) \cup Words(new)
  BY <1>1, <1>2, <1>3, <1>6, ChunkFacts
<1>8. Words(tab[j]) \subseteq mem \cup Words(new)
  BY <1>1, <1>3 DEF IInv, NothingElse
<1>9. CASE /\ K = {} /\ tab' = t /\ j' = j + 1
           /\ UNCHANGED <<jcbk, icbk, mem, new, j0>>
  BY <1>1, <1>3, <1>4, <1>5, <1>6, <1>7, <1>8, <1>9, ExtendInv
<1>10. ASSUME K # {}
       PROVE  /\ k \in 1..jcbk /\ k \in 1..NCbk /\ k # j
              /\ tab[k] \in Entry /\ tab[k] # Empty /\ tab[k].lo = new.hi + 1
              /\ tab[k].lo <= tab[k].hi /\ tab[k].hi \in Nat
              /\ Words(tab[k]) = tab[k].lo .. tab[k].hi
              /\ Words(tab[k]) \subseteq mem \cup Words(new)
  <2>1. K \subseteq 1..jcbk
    BY DEF Touching
  <2>2. \E m \in K : \A l \in K : m <= l
    <3>1. K \subseteq Nat
      BY <1>1, <2>1
    <3>2. PICK x \in Nat : x \in K
      BY <1>10, <3>1
    <3> HIDE DEF K
    <3>3. \E m \in Nat : m \in K /\ \A l \in 0..(m - 1) : l \notin K
      BY <3>2, SmallestIn
    <3> QED  BY <3>1, <3>3
  <2>3. k \in K
    BY <2>2 DEF First
  <2> HIDE DEF K, k
  <2>4. k \in 1..jcbk /\ k \in 1..NCbk /\ t[k].lo = new.hi + 1
    BY <1>1, <2>1, <2>3, NCbkAssumption DEF K, Touching
  <2>5. k # j
    BY <1>1, <1>2, <1>3, <1>4, <1>5, <2>4, ChunkFacts
  <2>6. tab[k].lo = new.hi + 1 /\ tab[k] \in Entry
    BY <1>5, <2>4, <2>5 DEF IInv, TypeOK
  <2>7. tab[k] # Empty
    BY <1>1, <2>4, <2>6, ChunkFacts, EntryFacts DEF IInv
  <2>8. tab[k].lo <= tab[k].hi /\ tab[k].hi \in Nat /\ Words(tab[k]) = tab[k].lo .. tab[k].hi
    BY <2>4, <2>6, <2>7, EntryFacts DEF IInv, Shape
  <2>9. Words(tab[k]) \subseteq mem \cup Words(new)
    BY <2>4, <2>7 DEF IInv, NothingElse
  <2> QED  BY <2>4, <2>5, <2>6, <2>7, <2>8, <2>9
<1> HIDE DEF K, k
<1>11. ASSUME K # {}, NEW a \in 1..NCbk, NEW b \in 1..NCbk, a # b, {a, b} = {j, k},
              NEW x \in Entry, x.lo = tab[j].lo, x.hi = tab[k].hi,
              NEW r, r = [tab EXCEPT ![a] = x, ![b] = Empty],
              NEW n \in 1..NCbk, n = jcbk \/ (n = jcbk - 1 /\ b = jcbk)
       PROVE  Fine(r, n, mem \cup Words(new))
  <2>1. /\ k \in 1..jcbk /\ k # j /\ tab[k].lo = new.hi + 1 /\ tab[k].lo <= tab[k].hi
        /\ tab[k].hi \in Nat
        /\ Words(tab[k]) = tab[k].lo .. tab[k].hi
        /\ Words(tab[k]) \subseteq mem \cup Words(new)
    BY <1>10, <1>11
  <2>2. x.lo > 0 /\ x.lo <= x.hi /\ x # Empty /\ Words(x) = tab[j].lo .. tab[k].hi
    BY <1>1, <1>2, <1>3, <1>11, <2>1, ChunkFacts DEF Words, Empty
  <2>3. Words(x) = Words(tab[j]) \cup Words(new) \cup Words(tab[k])
    <3>1. /\ tab[j].lo \in Nat /\ tab[j].lo <= new.lo - 1 /\ new.lo \in Nat
          /\ new.hi \in Nat /\ new.lo < new.hi /\ new.hi + 1 <= tab[k].hi /\ tab[k].hi \in Nat
          /\ Words(tab[j]) = tab[j].lo .. (new.lo - 1)
          /\ Words(new) = new.lo .. new.hi
          /\ Words(tab[k]) = (new.hi + 1) .. tab[k].hi
      BY <1>1, <1>2, <1>3, <2>1, ChunkFacts
    <3> DEFINE p == tab[j].lo
               q == tab[k].hi
    <3> HIDE DEF p, q
    <3>2. \A w : w \in p .. q <=> w \in p .. (new.lo - 1) \/ w \in new.lo .. new.hi
                                   \/ w \in (new.hi + 1) .. q
      BY <3>1 DEF p, q
    <3> QED  BY <2>2, <3>1, <3>2 DEF p, q
  <2>4. /\ r \in [1..NCbk -> Entry]
        /\ \A i \in 1..NCbk : r[i] = IF i = b THEN Empty ELSE IF i = a THEN x ELSE tab[i]
    <3>1. Empty \in Entry /\ tab \in [1..NCbk -> Entry]
      BY DEF Entry, Empty, IInv, TypeOK
    <3> QED  BY <1>11, <3>1
  <2>5. a <= n
    <3>1. j \in 1..jcbk /\ jcbk \in Nat
      BY <1>1
    <3>2. a \in 1..jcbk
      BY <1>11, <2>1, <3>1
    <3> QED  BY <1>11, <3>1, <3>2
  <2>6. \A i \in 1..NCbk : tab[i] # Empty => i <= jcbk /\ tab[i].lo > 0 /\ tab[i].lo <= tab[i].hi
                                         /\ Words(tab[i]) \subseteq mem \cup Words(new)
    <3>1. \A i \in 1..NCbk : i > jcbk => tab[i] = Empty
      BY DEF IInv, Shape
    <3> QED  BY <1>1, <3>1 DEF IInv, Shape, NothingElse
  <2>7. \A i \in 1..NCbk : r[i] # Empty => /\ i <= n /\ r[i].lo > 0 /\ r[i].lo <= r[i].hi
                                          /\ Words(r[i]) \subseteq mem \cup Words(new)
    <3>1. Words(x) \subseteq mem \cup Words(new)
      BY <1>8, <2>1, <2>3
    <3> SUFFICES ASSUME NEW i \in 1..NCbk, r[i] # Empty
                 PROVE  /\ i <= n /\ r[i].lo > 0 /\ r[i].lo <= r[i].hi
                        /\ Words(r[i]) \subseteq mem \cup Words(new)
      OBVIOUS
    <3>2. i # b
      BY <2>4
    <3>3. CASE i = a
      <4>1. r[i] = x
        BY <1>11, <2>4, <3>3
      <4> QED  BY <2>2, <2>5, <3>1, <3>3, <4>1
    <3>4. CASE i # a
      <4>1. r[i] = tab[i]
        BY <2>4, <3>2, <3>4
      <4>2. i <= jcbk /\ (b = jcbk => i <= jcbk - 1)
        BY <1>1, <2>6, <3>2, <4>1
      <4> QED  BY <1>1, <1>11, <2>6, <4>1, <4>2
    <3> QED  BY <3>3, <3>4
  <2>8. ASSUME NEW w \in mem \cup Words(new)
        PROVE  \E i \in 1..NCbk : w \in Words(r[i])
    <3>1. CASE w \in Words(x)
      BY <1>11, <2>4, <3>1
    <3>2. CASE w \notin Words(x)
      <4>1. PICK i \in 1..jcbk : w \in Words(tab[i])
        BY <2>3, <2>8, <3>2 DEF IInv, NothingLost, InTable
      <4>2. i # a /\ i # b /\ i \in 1..NCbk
        BY <1>1, <1>11, <2>3, <3>2, <4>1, NCbkAssumption
      <4> QED  BY <2>4, <4>1, <4>2
    <3> QED  BY <3>1, <3>2
  <2> QED  BY <2>4, <2>7, <2>8 DEF Fine
<1>12. CASE /\ K # {} /\ k < j
            /\ Return([t EXCEPT ![k].lo = t[j].lo, ![j] = Empty])
            /\ jcbk' = IF j = jcbk THEN jcbk - 1 ELSE jcbk
  <2> DEFINE x == [tab[k] EXCEPT !.lo = tab[j].lo]
             r == [tab EXCEPT ![k] = x, ![j] = Empty]
  <2>1. k \in 1..NCbk /\ k # j /\ tab[k] \in Entry
    BY <1>10, <1>12
  <2>2. x \in Entry /\ x.lo = tab[j].lo /\ x.hi = tab[k].hi
    BY <1>2, <2>1 DEF Entry
  <2>3. [t EXCEPT ![k].lo = t[j].lo, ![j] = Empty] = r
    BY <1>1, <1>4, <1>5, <2>1 DEF IInv, TypeOK
  <2>4. jcbk' \in 1..NCbk /\ jcbk' <= icbk /\ (jcbk' = jcbk \/ (jcbk' = jcbk - 1 /\ j = jcbk))
    BY <1>1, <1>12, <2>1, NCbkAssumption DEF IInv, TypeOK
  <2>5. Fine(r, jcbk', mem \cup Words(new))
    BY <1>1, <1>11, <1>12, <2>1, <2>2, <2>4
  <2> QED  BY <1>1, <1>12, <2>3, <2>4, <2>5, ReturnInv
<1>13. CASE /\ K # {} /\ k >= j
            /\ Return([t EXCEPT ![j].hi = t[k].hi, ![k] = Empty])
            /\ jcbk' = jcbk
  <2> DEFINE x == [tab[j] EXCEPT !.hi = tab[k].hi]
             r == [tab EXCEPT ![j] = x, ![k] = Empty]
  <2>1. k \in 1..NCbk /\ k # j /\ tab[k] \in Entry
    BY <1>10, <1>13
  <2>2. x \in Entry /\ x.lo = tab[j].lo /\ x.hi = tab[k].hi
    BY <1>2, <2>1 DEF Entry
  <2>3. [t EXCEPT ![j].hi = t[k].hi, ![k] = Empty] = r
    BY <1>1, <1>2, <1>5, <2>1 DEF IInv, TypeOK, e
  <2>4. jcbk' \in 1..NCbk /\ jcbk' <= icbk
    BY <1>1, <1>13 DEF IInv, TypeOK
  <2>5. Fine(r, jcbk', mem \cup Words(new))
    BY <1>1, <1>11, <1>13, <2>1, <2>2, <2>4
  <2> QED  BY <1>1, <1>13, <2>3, <2>4, <2>5, ReturnInv
<1> QED  BY <1>9, <1>12, <1>13 DEF ExtendUp, t, K, k

LEMMA AppendInv == ASSUME IInv, Append PROVE IInv'
<1>1. new \in Chunks /\ j0 \in 1..NCbk /\ jcbk \in 1..NCbk /\ icbk \in 1..NCbk
      /\ jcbk < icbk /\ j0 <= jcbk + 1 /\ tab[j0] = Empty /\ tab \in [1..NCbk -> Entry]
  BY NCbkAssumption DEF IInv, TypeOK, Shape, FreeSlot, Append
<1> DEFINE r == [tab EXCEPT ![j0] = new]
<1>2. jcbk' \in 1..NCbk /\ jcbk' <= icbk /\ jcbk <= jcbk' /\ j0 <= jcbk'
  BY <1>1 DEF Append
<1>3. r \in [1..NCbk -> Entry] /\ \A i \in 1..NCbk : r[i] = IF i = j0 THEN new ELSE tab[i]
  BY <1>1, ChunkFacts
<1> HIDE DEF r
<1>4. \A i \in 1..NCbk : r[i] # Empty => /\ i <= jcbk'
                                        /\ r[i].lo > 0 /\ r[i].lo <= r[i].hi
                                        /\ Words(r[i]) \subseteq mem \cup Words(new)
  BY <1>1, <1>2, <1>3, ChunkFacts DEF IInv, Shape, NothingElse
<1>5. ASSUME NEW w \in mem \cup Words(new)
      PROVE  \E i \in 1..NCbk : w \in Words(r[i])
  <2>1. CASE w \in Words(new)
    BY <1>1, <1>3, <2>1
  <2>2. CASE w \in mem
    <3>1. PICK i \in 1..jcbk : w \in Words(tab[i])
      BY <2>2 DEF IInv, NothingLost, InTable
    <3>2. i # j0 /\ i \in 1..NCbk
      BY <1>1, <3>1, NCbkAssumption DEF Words, Empty
    <3> QED  BY <1>3, <3>1, <3>2
  <2> QED  BY <2>1, <2>2
<1>6. Fine(r, jcbk', mem \cup Words(new))
  BY <1>3, <1>4, <1>5 DEF Fine
<1> QED  BY <1>1, <1>2, <1>6, ReturnInv DEF Append, r

-----------------------------------------------------------------------------
LEMMA StepInv == ASSUME IInv, [Next]_vars PROVE IInv'
<1>1. CASE \E c \in Chunks : Allocate(c)
  BY <1>1, AllocateInv
<1>2. CASE Negative
  BY <1>2, NCbkAssumption DEF IInv, TypeOK, Shape, NothingLost, InTable, NothingElse,
              FreeSlot, Negative
<1>3. CASE ExtendUp
  BY <1>3, ExtendUpInv
<1>4. CASE ExtendDown
  BY <1>4, ExtendDownInv
<1>5. CASE Pass
  BY <1>5, PassInv
<1>6. CASE Append
  BY <1>6, AppendInv
<1>7. CASE UNCHANGED vars
  BY <1>7 DEF IInv, TypeOK, Shape, NothingLost, InTable, NothingElse, FreeSlot, vars
<1> QED  BY <1>1, <1>2, <1>3, <1>4, <1>5, <1>6, <1>7 DEF Next

\* The table knows every word of the heap and no other, and never overwrites
\* an entry in use or needs more entries than there were chunks.
THEOREM ChunkTableInv == Spec => [](TypeOK /\ ExactlyTheHeap /\ FreeSlot)
<1>1. IInv /\ [Next]_vars => IInv'
  BY StepInv
<1>2. IInv => TypeOK /\ ExactlyTheHeap /\ FreeSlot
  BY DEF IInv, ExactlyTheHeap
<1> QED  BY InitInv, <1>1, <1>2, PTL DEF Spec

\* The branch of tfentercbk that would merge an entry with the one below it
\* never runs, whatever the chunks are.
THEOREM NoDownwardMerge == Spec => []NeverMergesDown
<1>1. IInv /\ [Next]_vars => IInv'
  BY StepInv
<1> QED  BY InitInv, <1>1, MergeDownIsDead, PTL DEF Spec
=============================================================================
