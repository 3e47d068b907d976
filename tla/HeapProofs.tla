----------------------------- MODULE HeapProofs -----------------------------
(***************************************************************************)
(* Proofs about Heap for every size, every place of a chunk and every      *)
(* sequence of operations: the lists and chains stay sound, no word is     *)
(* lost, the heap grows only when nothing fits, and ktaloc, ktalocr, tfree *)
(* and talocp with their lists, chains, reserve and separators implement   *)
(* BlockStore, whose theorems then hold of the heap.                       *)
(*                                                                         *)
(* The invariant joins the tables to the blocks: what the tables say of a  *)
(* block is right only because the blocks do not overlap, and the blocks   *)
(* do not overlap only because the tables were right.  Each step is shown  *)
(* to be a step of BlockStore, so the part about the blocks is BlockStore's *)
(* own invariant and is not proved again.                                  *)
(***************************************************************************)
EXTENDS Heap, TLAPS, FiniteSetTheorems, SequenceTheorems, WellFoundedInduction

\* BlockStore as Heap instantiates it, with its theorems.
Sizes  == {Max({n, MinWords - 1}) + 1 : n \in Requests \cup {NResv}}
Chunks == {ChunkWords(Max({n, MinWords - 1}) + 1) : n \in Requests \cup {NResv}}
BP == INSTANCE BlockStoreProofs
         WITH blocks <- Blocks, memory <- memory,
              Requests <- Sizes, ChunkSize <- Chunks

-----------------------------------------------------------------------------
(* The invariant.                                                          *)

\* The fields of the tables h.
Typed(h) ==
  /\ h = [hdr |-> h.hdr, list |-> h.list, chain |-> h.chain,
          maxic |-> h.maxic, nnet |-> h.nnet, nmem |-> h.nmem]
  /\ DOMAIN h.hdr \subseteq Nat
  /\ h.hdr = [lo \in DOMAIN h.hdr |-> h.hdr[lo]]
  /\ \A lo \in DOMAIN h.hdr : h.hdr[lo] \in Nat /\ h.hdr[lo] >= MinWords
  /\ h.list \in [1..Big -> Seq(Nat)]
  /\ h.chain \in [0..(HashSize - 1) -> Seq(Nat)]
  /\ h.maxic \in 0..NIndex /\ h.nnet \in Int /\ h.nmem \in Int

\* The free blocks of the tables h are those at F, each in its list and its
\* chain once.
Lists(h, F) ==
  \A m \in 1..Big : /\ IsInjective(h.list[m])
                    /\ Range(h.list[m]) = {lo \in F : ListOf(h.hdr[lo]) = m}
Chains(h, F) ==
  \A k \in 0..(HashSize - 1) :
    /\ IsInjective(h.chain[k])
    /\ Range(h.chain[k]) = {lo \in F : Key(lo, h.hdr[lo]) = k}
Sound(h, F) ==
  Typed(h) /\ F \subseteq DOMAIN h.hdr /\ Lists(h, F) /\ Chains(h, F)

\* No list above maxic holds a block, but for list c.
Topped(h, c) == \A m \in 1..NIndex : h.list[m] # <<>> => m <= h.maxic \/ m = c

\* What the program and the reserve hold is apart from what is free.
Owned ==
  /\ held \subseteq DOMAIN heap.hdr /\ held \cap FreeBlocks = {}
  /\ resv = NoResv \/ /\ resv = [lo |-> resv.lo, n |-> resv.n]
                      /\ resv.lo \in Nat /\ resv.n \in MinWords..NResv
                      /\ resv.lo \notin held \cup FreeBlocks

\* Every separator in the list is a block of its kind, younger than the next.
Seps ==
  /\ sep \in Seq([lo : Nat, age : 1..SepAge])
  /\ \A k \in DOMAIN sep :
       [kind |-> "sep", lo |-> sep[k].lo, size |-> MinWords] \in Blocks
  /\ \A j, k \in DOMAIN sep :
       j < k => sep[j].age > sep[k].age /\ sep[j].lo # sep[k].lo

\* The words of the free blocks, and of the others, counted.
FreeCover(bs) == UNION {b.lo .. (b.lo + b.size - 1) : b \in {c \in bs : c.kind = "free"}}
Counted ==
  /\ IsFiniteSet(memory)
  /\ heap.nmem = Cardinality(memory)
  /\ heap.nnet = Cardinality(memory \ FreeCover(Blocks))

\* The call in progress.
Words(n) == Max({n, MinWords - 1}) + 1
Caller ==
  \/ call = Idle
  \/ call = Crashed
  \/ /\ call.n \in Requests /\ call.at \in {"small", "big", "grow"}
     /\ call = [op |-> "ktaloc", n |-> call.n, m |-> Words(call.n), at |-> call.at]
  \/ /\ call.n \in Requests /\ call.at \in {"resv", "small", "big", "grow"}
     /\ call.n >= MinWords - 1 /\ call.n <= NResv - (MinWords + 1)
     /\ call = [op |-> "ktalocr", n |-> call.n, m |-> NResv + 1, at |-> call.at]
     /\ call.at # "resv" => resv = NoResv

\* What the search has seen.
Searched ==
  /\ call.at \in {"big", "grow"} =>
       \A lo \in FreeBlocks :
         call.m <= NIndex /\ heap.hdr[lo] <= NIndex =>
           heap.hdr[lo] # call.m /\ heap.hdr[lo] < call.m + MinSeg1
  /\ call.at = "grow" => Fitting = {}

\* The invariant: of the tables, and of the blocks.
Tables == /\ Sound(heap, FreeBlocks) /\ Topped(heap, 0)
          /\ Owned /\ Seps /\ Counted /\ Caller /\ Searched
HInv == Tables /\ BP!Inv

-----------------------------------------------------------------------------
(* Numbers, sets and sequences.                                            *)

LEMMA SizeFacts ==
  /\ MinWords \in Nat /\ MinWords > 0
  /\ MinSeg1 \in Nat /\ MinSeg1 >= MinWords
  /\ MinSeg2 \in Nat /\ MinSeg2 >= MinWords
  /\ NIndex \in Nat /\ Big \in Nat /\ Big = NIndex + 1
  /\ Span \in Nat /\ HashSize \in Nat /\ HashSize > 0
  /\ MpSize \in Nat /\ MpSize - MinWords > NIndex
  /\ NResv \in Nat /\ NResv > 2 * MinWords
  /\ SepAge \in Nat /\ SepAge > 0
  /\ Requests \subseteq Nat \ {0} /\ ChunkAddr \subseteq Nat /\ Garbage \subseteq Int
BY HeapAssumption DEF Big

\* The greater and the smaller of two numbers.
LEMMA MaxPair ==
  ASSUME NEW a \in Int, NEW b \in Int
  PROVE  Max({a, b}) = IF a >= b THEN a ELSE b
BY DEF Max

LEMMA MinPair ==
  ASSUME NEW a \in Int, NEW b \in Int
  PROVE  Min({a, b}) = IF a <= b THEN a ELSE b
BY DEF Min

\* The least and the greatest number of a set.
NatOrder == {x \in Nat \X Nat : x[1] < x[2]}

LEMMA Least ==
  ASSUME NEW S \in SUBSET Nat, S # {}
  PROVE  Min(S) \in S /\ \A d \in S : Min(S) <= d
<1>1. IsWellFoundedOn(NatOrder, Nat)
  BY NatLessThanWellFounded DEF OpToRel, NatOrder
<1> HIDE DEF NatOrder
<1>2. PICK m \in S : \A d \in S : ~ (<<d, m>> \in NatOrder)
  BY <1>1, WFMin
<1>3. \A d \in S : ~ d < m
  BY <1>2 DEF NatOrder
<1>4. m \in S /\ \A d \in S : m <= d
  BY <1>3
<1> QED  BY <1>4 DEF Min

LEMMA Greatest ==
  ASSUME NEW n \in Nat, NEW S \in SUBSET (0..n), S # {}
  PROVE  Max(S) \in S /\ \A d \in S : d <= Max(S)
<1> DEFINE M == {x \in Nat : n - x \in S}
           m == Min(M)
<1>1. M \in SUBSET Nat
  OBVIOUS
<1>2. \A d \in S : d \in Nat /\ n - d \in M
  OBVIOUS
<1>3. m \in M /\ \A d \in M : m <= d
  BY <1>1, <1>2, Least
<1>4. n - m \in S /\ m \in Nat
  BY <1>3
<1> HIDE DEF M, m
<1>5. \A d \in S : m <= n - d /\ d \in Nat
  BY <1>2, <1>3
<1>6. \A d \in S : d <= n - m
  BY <1>4, <1>5
<1> QED  BY <1>4, <1>6 DEF Max

\* What a sequence holds.
LEMMA InRange ==
  ASSUME NEW f, NEW x
  PROVE  x \in Range(f) <=> \E i \in DOMAIN f : f[i] = x
BY Zenon DEF Range

LEMMA HeadFacts ==
  ASSUME NEW s \in Seq(Nat), s # <<>>
  PROVE  Head(s) = s[1] /\ s[1] \in Range(s)
<1>1. 1 \in DOMAIN s
  OBVIOUS
<1>2. s[1] \in Range(s)
  BY <1>1, InRange
<1> QED  BY <1>2

\* A sequence without one of its elements, which it holds once.
LEMMA RemoveFacts ==
  ASSUME NEW s \in Seq(Nat), IsInjective(s), NEW e \in Range(s)
  PROVE  /\ RemoveFirst(s, e) \in Seq(Nat)
         /\ IsInjective(RemoveFirst(s, e))
         /\ Range(RemoveFirst(s, e)) = Range(s) \ {e}
<1> DEFINE I == {i \in 1..Len(s) : s[i] = e}
           p == Min(I)
           t == SubSeq(s, 1, p - 1) \o SubSeq(s, p + 1, Len(s))
<1>1. p \in 1..Len(s) /\ s[p] = e
  <2>1. I # {} /\ I \in SUBSET Nat
    BY DEF Range
  <2>2. p \in I
    BY <2>1, Least
  <2> QED  BY <2>2
<1>2. RemoveFirst(s, e) = t
  BY <1>1 DEF RemoveFirst, RemoveAt, SelectInSeq
<1> HIDE DEF p, t
<1>3. /\ t \in Seq(Nat) /\ Len(t) = Len(s) - 1
      /\ \A i \in 1..Len(t) : t[i] = IF i < p THEN s[i] ELSE s[i + 1]
  <2> DEFINE b == SubSeq(s, 1, p - 1)
             c == SubSeq(s, p + 1, Len(s))
  <2>1. b \in Seq(Nat) /\ Len(b) = p - 1 /\ \A i \in 1..(p - 1) : b[i] = s[i]
    BY <1>1
  <2>2. /\ c \in Seq(Nat) /\ Len(c) = Len(s) - p
        /\ \A i \in 1..(Len(s) - p) : c[i] = s[p + i]
    BY <1>1
  <2> HIDE DEF b, c
  <2>3. /\ b \o c \in Seq(Nat) /\ Len(b \o c) = Len(s) - 1
        /\ \A i \in 1..(Len(s) - 1) :
             (b \o c)[i] = IF i <= p - 1 THEN b[i] ELSE c[i - (p - 1)]
    <3>1. /\ b \o c \in Seq(Nat) /\ Len(b \o c) = Len(b) + Len(c)
          /\ \A i \in 1..(Len(b) + Len(c)) :
               (b \o c)[i] = IF i <= Len(b) THEN b[i] ELSE c[i - Len(b)]
      BY <2>1, <2>2, ConcatProperties
    <3>2. Len(b) + Len(c) = Len(s) - 1 /\ Len(b) = p - 1
      BY <1>1, <2>1, <2>2
    <3> QED  BY <3>1, <3>2
  <2>4. ASSUME NEW i \in 1..(Len(s) - 1), i >= p
        PROVE  c[i - (p - 1)] = s[i + 1]
    <3>1. i - (p - 1) \in 1..(Len(s) - p) /\ p + (i - (p - 1)) = i + 1
      BY <1>1, <2>4
    <3> QED  BY <2>2, <2>4, <3>1
  <2>5. ASSUME NEW i \in 1..(Len(s) - 1)
        PROVE  (b \o c)[i] = IF i < p THEN s[i] ELSE s[i + 1]
    <3>1. CASE i < p
      <4>1. i \in 1..(p - 1) /\ i <= p - 1
        BY <1>1, <3>1
      <4> QED  BY <2>1, <2>3, <3>1, <4>1
    <3>2. CASE i >= p
      <4>1. ~ i <= p - 1 /\ ~ i < p
        BY <1>1, <3>2
      <4> QED  BY <2>3, <2>4, <3>2, <4>1
    <3>3. i < p \/ i >= p
      BY <1>1
    <3> QED  BY ONLY <3>1, <3>2, <3>3
  <2>6. t = b \o c
    BY DEF t, b, c
  <2> QED  BY <2>3, <2>5, <2>6
<1> DEFINE from == [i \in 1..Len(t) |-> IF i < p THEN i ELSE i + 1]
<1>4. \A i \in 1..Len(t) : from[i] \in (1..Len(s)) \ {p} /\ t[i] = s[from[i]]
  BY <1>1, <1>3
<1>5. \A i, j \in 1..Len(t) : from[i] = from[j] => i = j
  BY <1>1, <1>3
<1>6. \A j \in (1..Len(s)) \ {p} : \E i \in 1..Len(t) : from[i] = j
  <2> SUFFICES ASSUME NEW j \in (1..Len(s)) \ {p}
               PROVE  \E i \in 1..Len(t) : from[i] = j
    OBVIOUS
  <2>1. CASE j < p
    <3>1. j \in 1..Len(t) /\ from[j] = j
      BY <1>1, <1>3, <2>1
    <3> QED  BY <3>1
  <2>2. CASE j > p
    <3>1. j - 1 \in 1..Len(t) /\ from[j - 1] = j
      BY <1>1, <1>3, <2>2
    <3> QED  BY <3>1
  <2> QED  BY <1>1, <2>1, <2>2
<1> HIDE DEF from
<1>7. DOMAIN t = 1..Len(t) /\ DOMAIN s = 1..Len(s)
  BY <1>3
<1>8. \A i, j \in 1..Len(s) : s[i] = s[j] => i = j
  BY <1>7 DEF IsInjective
<1>9. IsInjective(t)
  BY <1>4, <1>5, <1>7, <1>8 DEF IsInjective
<1>10. Range(t) = Range(s) \ {e}
  <2>1. \A x \in Range(t) : x \in Range(s) \ {e}
    <3> SUFFICES ASSUME NEW x \in Range(t) PROVE x \in Range(s) /\ x # e
      OBVIOUS
    <3>1. PICK i \in 1..Len(t) : t[i] = x
      BY <1>7, InRange
    <3>2. from[i] \in 1..Len(s) /\ from[i] # p /\ s[from[i]] = x
      BY <1>4, <3>1
    <3>3. x \in Range(s)
      BY <1>7, <3>2, InRange
    <3> QED  BY <1>1, <1>8, <3>2, <3>3
  <2>2. \A x \in Range(s) \ {e} : x \in Range(t)
    <3> SUFFICES ASSUME NEW x \in Range(s), x # e PROVE x \in Range(t)
      OBVIOUS
    <3>1. PICK j \in 1..Len(s) : s[j] = x
      BY <1>7, InRange
    <3>2. PICK i \in 1..Len(t) : from[i] = j
      BY <1>1, <1>6, <3>1
    <3>3. t[i] = x
      BY <1>4, <3>1, <3>2
    <3> QED  BY <1>7, <3>3, InRange
  <2> QED  BY <2>1, <2>2
<1> QED  BY <1>2, <1>3, <1>9, <1>10

\* A sequence with an element put before it that it did not hold.
LEMMA PrependFacts ==
  ASSUME NEW s \in Seq(Nat), IsInjective(s), NEW e \in Nat, e \notin Range(s)
  PROVE  /\ <<e>> \o s \in Seq(Nat)
         /\ IsInjective(<<e>> \o s)
         /\ Range(<<e>> \o s) = Range(s) \cup {e}
<1> DEFINE t == <<e>> \o s
<1>1. /\ t \in Seq(Nat) /\ Len(t) = Len(s) + 1 /\ t[1] = e
      /\ \A i \in 1..Len(s) : t[i + 1] = s[i]
  OBVIOUS
<1>2. DOMAIN t = 1..Len(t) /\ DOMAIN s = 1..Len(s)
  BY <1>1
<1>3. \A i \in 1..Len(s) : s[i] # e
  BY <1>2 DEF Range
<1>4. \A i, j \in 1..Len(s) : s[i] = s[j] => i = j
  BY <1>2 DEF IsInjective
<1>5. \A i \in 1..Len(t) : i = 1 \/ \E k \in 1..Len(s) : i = k + 1
  <2> SUFFICES ASSUME NEW i \in 1..Len(t), i # 1
               PROVE  \E k \in 1..Len(s) : i = k + 1
    OBVIOUS
  <2>1. i - 1 \in 1..Len(s) /\ i = (i - 1) + 1
    BY <1>1
  <2> QED  BY <2>1
<1> HIDE DEF t
<1>6. IsInjective(t)
  <2> SUFFICES ASSUME NEW i \in 1..Len(t), NEW j \in 1..Len(t), t[i] = t[j]
               PROVE  i = j
    BY <1>2 DEF IsInjective
  <2>1. CASE i = 1 \/ j = 1
    <3>1. ASSUME NEW k \in 1..Len(t), k # 1 PROVE t[k] # t[1]
      <4>1. PICK p \in 1..Len(s) : k = p + 1
        BY ONLY <1>5, <3>1
      <4> QED  BY ONLY <1>1, <1>3, <4>1
    <3> QED  BY ONLY <2>1, <3>1, t[i] = t[j], i \in 1..Len(t), j \in 1..Len(t)
  <2>2. CASE i # 1 /\ j # 1
    <3>1. PICK k \in 1..Len(s), l \in 1..Len(s) : i = k + 1 /\ j = l + 1
      BY <1>5, <2>2
    <3> QED  BY <1>1, <1>4, <3>1
  <2> QED  BY <2>1, <2>2
<1>7. Range(t) = Range(s) \cup {e}
  <2>1. ASSUME NEW x \in Range(t) PROVE x \in Range(s) \cup {e}
    <3>1. PICK i \in 1..Len(t) : t[i] = x
      BY <1>2, InRange
    <3>2. CASE i = 1
      BY <1>1, <3>1, <3>2
    <3>3. ASSUME NEW k \in 1..Len(s), i = k + 1 PROVE x \in Range(s)
      <4>1. s[k] = x
        BY <1>1, <3>1, <3>3
      <4> QED  BY <1>2, <4>1, InRange
    <3> QED  BY <1>5, <3>2, <3>3
  <2>2. e \in Range(t)
    <3>1. 1 \in 1..Len(t)
      BY <1>1
    <3> QED  BY <1>1, <1>2, <3>1, InRange
  <2>3. ASSUME NEW x \in Range(s) PROVE x \in Range(t)
    <3>1. PICK k \in 1..Len(s) : s[k] = x
      BY <1>2, InRange
    <3>2. k + 1 \in 1..Len(t) /\ t[k + 1] = x
      BY <1>1, <3>1
    <3> QED  BY <1>2, <3>2, InRange
  <2> QED  BY <2>1, <2>2, <2>3
<1> QED  BY <1>1, <1>6, <1>7 DEF t

-----------------------------------------------------------------------------
(* The tables.                                                             *)

LEMMA ListOfFacts ==
  ASSUME NEW m \in Nat, m >= MinWords
  PROVE  /\ ListOf(m) \in 1..Big
         /\ m <= NIndex => ListOf(m) = m
         /\ m > NIndex => ListOf(m) = Big
BY SizeFacts DEF ListOf

LEMMA KeyFacts ==
  ASSUME NEW lo \in Int, NEW m \in Int
  PROVE  Key(lo, m) \in 0..(HashSize - 1)
<1>1. lo + 3 + m \in Int /\ HashSize \in Nat /\ HashSize > 0
  BY SizeFacts
<1> QED  BY <1>1 DEF Key

\* The tables stay sound whatever is written into headers that are not free.
LEMMA SoundSame ==
  ASSUME NEW h, NEW F, Sound(h, F), NEW g, Typed(g),
         F \subseteq DOMAIN g.hdr, \A x \in F : g.hdr[x] = h.hdr[x],
         g.list = h.list, g.chain = h.chain
  PROVE  Sound(g, F)
<1>1. \A k : {x \in F : ListOf(h.hdr[x]) = k} = {x \in F : ListOf(g.hdr[x]) = k}
  OBVIOUS
<1>2. \A k : {x \in F : Key(x, h.hdr[x]) = k} = {x \in F : Key(x, g.hdr[x]) = k}
  OBVIOUS
<1> QED  BY <1>1, <1>2 DEF Sound, Lists, Chains

\* tsetindexhash, field by field: i is h with a block of m words inserted at lo.
Inserted(i, h, lo, m) ==
  /\ i.hdr = Write(h.hdr, lo, m)
  /\ i.list = [h.list EXCEPT ![ListOf(m)] = <<lo>> \o @]
  /\ i.chain = [h.chain EXCEPT ![Key(lo, m)] = <<lo>> \o @]
  /\ i.maxic = IF m > NIndex THEN h.maxic ELSE Max({h.maxic, m})
  /\ i.nnet = h.nnet /\ i.nmem = h.nmem
  /\ i = [hdr |-> i.hdr, list |-> i.list, chain |-> i.chain,
          maxic |-> i.maxic, nnet |-> i.nnet, nmem |-> i.nmem]

LEMMA InsertFields ==
  ASSUME NEW h, Typed(h), NEW lo, NEW m
  PROVE  Inserted(Insert(h, lo, m), h, lo, m)
<1> DEFINE hd == Write(h.hdr, lo, m)
           li == [h.list EXCEPT ![ListOf(m)] = <<lo>> \o @]
           ch == [h.chain EXCEPT ![Key(lo, m)] = <<lo>> \o @]
           mx == IF m > NIndex THEN h.maxic ELSE Max({h.maxic, m})
<1>1. Insert(h, lo, m) = [h EXCEPT !.hdr = hd, !.list = li, !.chain = ch, !.maxic = mx]
  BY DEF Insert
<1> HIDE DEF hd, li, ch, mx
<1>2. h = [hdr |-> h.hdr, list |-> h.list, chain |-> h.chain,
          maxic |-> h.maxic, nnet |-> h.nnet, nmem |-> h.nmem]
  BY DEF Typed
<1>3. Insert(h, lo, m) = [hdr |-> hd, list |-> li, chain |-> ch,
                          maxic |-> mx, nnet |-> h.nnet, nmem |-> h.nmem]
  BY <1>1, <1>2
<1> QED  BY <1>3 DEF Inserted, hd, li, ch, mx

\* What is listed, by list and by chain.
LEMMA ListedFacts ==
  ASSUME NEW h, NEW F, Sound(h, F)
  PROVE  /\ \A m \in 1..Big : /\ h.list[m] \in Seq(Nat) /\ IsInjective(h.list[m])
                              /\ \A x : x \in Range(h.list[m])
                                         <=> x \in F /\ ListOf(h.hdr[x]) = m
         /\ \A k \in 0..(HashSize - 1) :
              /\ h.chain[k] \in Seq(Nat) /\ IsInjective(h.chain[k])
              /\ \A x : x \in Range(h.chain[k]) <=> x \in F /\ Key(x, h.hdr[x]) = k
         /\ \A x \in F : /\ x \in Nat /\ h.hdr[x] \in Nat /\ h.hdr[x] >= MinWords
                         /\ ListOf(h.hdr[x]) \in 1..Big
                         /\ Key(x, h.hdr[x]) \in 0..(HashSize - 1)
<1>1. /\ \A m \in 1..Big : h.list[m] \in Seq(Nat)
      /\ \A k \in 0..(HashSize - 1) : h.chain[k] \in Seq(Nat)
  BY DEF Sound, Typed
<1>2. \A x \in F : x \in Nat /\ h.hdr[x] \in Nat /\ h.hdr[x] >= MinWords
  BY DEF Sound, Typed
<1>3. ASSUME NEW x \in F
      PROVE  ListOf(h.hdr[x]) \in 1..Big /\ Key(x, h.hdr[x]) \in 0..(HashSize - 1)
  <2>1. /\ h.hdr[x] \in Nat /\ h.hdr[x] >= MinWords
        /\ x \in Int /\ h.hdr[x] \in Int
    BY <1>2
  <2> QED  BY <2>1, ListOfFacts, KeyFacts
<1> QED  BY <1>1, <1>2, <1>3 DEF Sound, Lists, Chains

LEMMA FreeFacts ==
  ASSUME NEW h, NEW F, Sound(h, F)
  PROVE  \A x \in F : /\ x \in DOMAIN h.hdr /\ x \in Nat
                      /\ h.hdr[x] \in Nat /\ h.hdr[x] >= MinWords
<1> SUFFICES ASSUME NEW x \in F
             PROVE  /\ x \in DOMAIN h.hdr /\ x \in Nat
                    /\ h.hdr[x] \in Nat /\ h.hdr[x] >= MinWords
  OBVIOUS
<1>1. x \in DOMAIN h.hdr
  BY DEF Sound
<1> QED  BY <1>1 DEF Sound, Typed

LEMMA HeaderFacts ==
  ASSUME NEW h, Typed(h), NEW lo \in DOMAIN h.hdr
  PROVE  lo \in Nat /\ h.hdr[lo] \in Nat /\ h.hdr[lo] >= MinWords
BY DEF Typed

LEMMA ListFacts ==
  ASSUME NEW h, NEW F, Sound(h, F), NEW m \in 1..Big
  PROVE  /\ h.list[m] \in Seq(Nat) /\ IsInjective(h.list[m])
         /\ \A x : x \in Range(h.list[m]) <=> x \in F /\ ListOf(h.hdr[x]) = m
BY ListedFacts

\* A new free block is in its list and its chain, and no list above maxic
\* gains one.
LEMMA InsertSound ==
  ASSUME NEW h, NEW F, Sound(h, F), NEW lo \in Nat, lo \notin F,
         NEW m \in Nat, m >= MinWords
  PROVE  LET i == Insert(h, lo, m)
         IN  /\ Sound(i, F \cup {lo})
             /\ i.hdr = Write(h.hdr, lo, m)
             /\ i.nnet = h.nnet /\ i.nmem = h.nmem
             /\ \A c : Topped(h, c) => Topped(i, c)
<1> DEFINE i == Insert(h, lo, m)
           G == F \cup {lo}
<1>1. Typed(h)
  BY DEF Sound
<1>2. Inserted(i, h, lo, m)
  BY <1>1, InsertFields
<1> HIDE DEF i
<1>3. /\ DOMAIN i.hdr = DOMAIN h.hdr \cup {lo}
      /\ i.hdr[lo] = m
      /\ \A x \in DOMAIN h.hdr : x # lo => i.hdr[x] = h.hdr[x]
      /\ i.hdr = [x \in DOMAIN i.hdr |-> i.hdr[x]]
  <2> DEFINE f == h.hdr
             g == i.hdr
  <2>1. g = Write(f, lo, m)
    BY <1>2 DEF Inserted
  <2> HIDE DEF f, g
  <2>2. /\ DOMAIN g = DOMAIN f \cup {lo}
        /\ g[lo] = m
        /\ \A x \in DOMAIN f : x # lo => g[x] = f[x]
        /\ g = [x \in DOMAIN g |-> g[x]]
    BY <2>1 DEF Write
  <2> QED  BY <2>2 DEF f, g
<1>4. ListOf(m) \in 1..Big /\ Key(lo, m) \in 0..(HashSize - 1)
  BY ListOfFacts, KeyFacts
<1>5. \A x \in F : x \in DOMAIN h.hdr /\ x # lo /\ i.hdr[x] = h.hdr[x]
  BY <1>3 DEF Sound
<1>6. \A k \in 1..Big : /\ h.list[k] \in Seq(Nat) /\ IsInjective(h.list[k])
                        /\ \A x : x \in Range(h.list[k])
                                   <=> x \in F /\ ListOf(h.hdr[x]) = k
  BY ListedFacts
<1>7. \A k \in 0..(HashSize - 1) :
        /\ h.chain[k] \in Seq(Nat) /\ IsInjective(h.chain[k])
        /\ \A x : x \in Range(h.chain[k]) <=> x \in F /\ Key(x, h.hdr[x]) = k
  BY ListedFacts
<1>8. ASSUME NEW k \in 1..Big
      PROVE  /\ i.list[k] \in Seq(Nat) /\ IsInjective(i.list[k])
             /\ Range(i.list[k]) = {x \in G : ListOf(i.hdr[x]) = k}
  <2>1. CASE k # ListOf(m)
    <3>1. i.list[k] = h.list[k]
      BY <1>1, <1>2, <2>1 DEF Typed, Inserted
    <3>2. \A x : x \in Range(h.list[k]) <=> x \in G /\ ListOf(i.hdr[x]) = k
      BY <1>3, <1>5, <1>6, <2>1
    <3> QED  BY <1>6, <3>1, <3>2
  <2>2. CASE k = ListOf(m)
    <3>1. i.list[k] = <<lo>> \o h.list[k]
      BY <1>1, <1>2, <2>2 DEF Typed, Inserted
    <3>2. h.list[k] \in Seq(Nat) /\ IsInjective(h.list[k]) /\ lo \notin Range(h.list[k])
      BY <1>6
    <3>3. /\ i.list[k] \in Seq(Nat) /\ IsInjective(i.list[k])
          /\ Range(i.list[k]) = Range(h.list[k]) \cup {lo}
      BY <3>1, <3>2, PrependFacts
    <3>4. \A x : x \in Range(h.list[k]) \cup {lo} <=> x \in G /\ ListOf(i.hdr[x]) = k
      BY <1>3, <1>5, <1>6, <2>2
    <3> QED  BY <3>3, <3>4
  <2> QED  BY <2>1, <2>2
<1>9. ASSUME NEW k \in 0..(HashSize - 1)
      PROVE  /\ i.chain[k] \in Seq(Nat) /\ IsInjective(i.chain[k])
             /\ Range(i.chain[k]) = {x \in G : Key(x, i.hdr[x]) = k}
  <2>1. CASE k # Key(lo, m)
    <3>1. i.chain[k] = h.chain[k]
      BY <1>1, <1>2, <2>1 DEF Typed, Inserted
    <3>2. \A x : x \in Range(h.chain[k]) <=> x \in G /\ Key(x, i.hdr[x]) = k
      BY <1>3, <1>5, <1>7, <2>1
    <3> QED  BY <1>7, <3>1, <3>2
  <2>2. CASE k = Key(lo, m)
    <3>1. i.chain[k] = <<lo>> \o h.chain[k]
      BY <1>1, <1>2, <2>2 DEF Typed, Inserted
    <3>2. h.chain[k] \in Seq(Nat) /\ IsInjective(h.chain[k]) /\ lo \notin Range(h.chain[k])
      BY <1>7
    <3>3. /\ i.chain[k] \in Seq(Nat) /\ IsInjective(i.chain[k])
          /\ Range(i.chain[k]) = Range(h.chain[k]) \cup {lo}
      BY <3>1, <3>2, PrependFacts
    <3>4. \A x : x \in Range(h.chain[k]) \cup {lo} <=> x \in G /\ Key(x, i.hdr[x]) = k
      BY <1>3, <1>5, <1>7, <2>2
    <3> QED  BY <3>3, <3>4
  <2> QED  BY <2>1, <2>2
<1>10. i.maxic \in 0..NIndex /\ i.maxic >= h.maxic /\ (m <= NIndex => i.maxic >= m)
  <2>1. h.maxic \in 0..NIndex /\ h.maxic \in Int /\ NIndex \in Nat
    BY <1>1, SizeFacts DEF Typed
  <2>2. Max({h.maxic, m}) = IF h.maxic >= m THEN h.maxic ELSE m
    BY <2>1, MaxPair
  <2>3. i.maxic = IF m > NIndex THEN h.maxic ELSE Max({h.maxic, m})
    BY <1>2 DEF Inserted
  <2> QED  BY <2>1, <2>2, <2>3
<1>11. Typed(i)
  <2>1. DOMAIN i.hdr \subseteq Nat
    BY <1>1, <1>3 DEF Typed
  <2>2. \A x \in DOMAIN i.hdr : i.hdr[x] \in Nat /\ i.hdr[x] >= MinWords
    BY <1>1, <1>3 DEF Typed
  <2>3. i.list \in [1..Big -> Seq(Nat)]
    <3>1. i.list = [k \in 1..Big |-> i.list[k]]
      BY <1>1, <1>2 DEF Typed, Inserted
    <3> QED  BY <1>8, <3>1
  <2>4. i.chain \in [0..(HashSize - 1) -> Seq(Nat)]
    <3>1. i.chain = [k \in 0..(HashSize - 1) |-> i.chain[k]]
      BY <1>1, <1>2 DEF Typed, Inserted
    <3> QED  BY <1>9, <3>1
  <2>5. i.nnet \in Int /\ i.nmem \in Int
    BY <1>1, <1>2 DEF Typed, Inserted
  <2> QED  BY <1>2, <1>3, <1>10, <2>1, <2>2, <2>3, <2>4, <2>5 DEF Typed, Inserted
<1>12. Sound(i, G)
  BY <1>3, <1>5, <1>8, <1>9, <1>11 DEF Sound, Lists, Chains
<1>13. ASSUME NEW c, Topped(h, c) PROVE Topped(i, c)
  <2> SUFFICES ASSUME NEW k \in 1..NIndex, i.list[k] # <<>> PROVE k <= i.maxic \/ k = c
    BY DEF Topped
  <2>1. CASE k = ListOf(m)
    BY <1>10, <2>1, ListOfFacts, SizeFacts
  <2>2. CASE k # ListOf(m)
    <3>1. k \in 1..Big /\ i.list[k] = h.list[k]
      BY <1>1, <1>2, <2>2, SizeFacts DEF Typed, Inserted
    <3>2. k <= h.maxic \/ k = c
      BY <1>13, <3>1 DEF Topped
    <3>3. h.maxic \in Int /\ i.maxic \in Int /\ k \in Int
      BY <1>1, <1>10 DEF Typed
    <3> QED  BY <1>10, <3>2, <3>3
  <2> QED  BY <2>1, <2>2
<1> QED  BY <1>2, <1>12, <1>13 DEF i, Inserted

\* A block taken out of its list and its chain, field by field.
Unlinked(u, h, lo) ==
  /\ u.hdr = h.hdr
  /\ u.list = [h.list EXCEPT ![ListOf(h.hdr[lo])] = RemoveFirst(@, lo)]
  /\ u.chain = [h.chain EXCEPT ![Key(lo, h.hdr[lo])] = RemoveFirst(@, lo)]
  /\ u.maxic = h.maxic /\ u.nnet = h.nnet /\ u.nmem = h.nmem
  /\ u = [hdr |-> u.hdr, list |-> u.list, chain |-> u.chain,
          maxic |-> u.maxic, nnet |-> u.nnet, nmem |-> u.nmem]

LEMMA UnlinkFields ==
  ASSUME NEW h, Typed(h), NEW lo
  PROVE  Unlinked(Unlink(h, lo), h, lo)
<1> DEFINE li == [h.list EXCEPT ![ListOf(h.hdr[lo])] = RemoveFirst(@, lo)]
           ch == [h.chain EXCEPT ![Key(lo, h.hdr[lo])] = RemoveFirst(@, lo)]
<1>1. Unlink(h, lo) = [h EXCEPT !.list = li, !.chain = ch]
  BY DEF Unlink
<1> HIDE DEF li, ch
<1>2. h = [hdr |-> h.hdr, list |-> h.list, chain |-> h.chain,
          maxic |-> h.maxic, nnet |-> h.nnet, nmem |-> h.nmem]
  BY DEF Typed
<1>3. Unlink(h, lo) = [hdr |-> h.hdr, list |-> li, chain |-> ch,
                       maxic |-> h.maxic, nnet |-> h.nnet, nmem |-> h.nmem]
  BY <1>1, <1>2
<1> QED  BY <1>3 DEF Unlinked, li, ch

LEMMA UnlinkSound ==
  ASSUME NEW h, NEW F, Sound(h, F), NEW lo \in F
  PROVE  LET u == Unlink(h, lo)
         IN  /\ Sound(u, F \ {lo})
             /\ u.hdr = h.hdr /\ u.maxic = h.maxic
             /\ u.nnet = h.nnet /\ u.nmem = h.nmem
             /\ \A k \in 1..Big : u.list[k] # <<>> => h.list[k] # <<>>
<1> DEFINE u == Unlink(h, lo)
           G == F \ {lo}
           m == h.hdr[lo]
<1>1. Typed(h)
  BY DEF Sound
<1>2. Unlinked(u, h, lo)
  BY <1>1, UnlinkFields
<1> HIDE DEF u
<1>3. u.hdr = h.hdr
  BY <1>2 DEF Unlinked
<1>4. ListOf(m) \in 1..Big /\ Key(lo, m) \in 0..(HashSize - 1)
  BY ListedFacts
<1>5. \A k \in 1..Big : /\ h.list[k] \in Seq(Nat) /\ IsInjective(h.list[k])
                        /\ \A x : x \in Range(h.list[k])
                                   <=> x \in F /\ ListOf(h.hdr[x]) = k
  BY ListedFacts
<1>6. \A k \in 0..(HashSize - 1) :
        /\ h.chain[k] \in Seq(Nat) /\ IsInjective(h.chain[k])
        /\ \A x : x \in Range(h.chain[k]) <=> x \in F /\ Key(x, h.hdr[x]) = k
  BY ListedFacts
<1>7. ASSUME NEW k \in 1..Big
      PROVE  /\ u.list[k] \in Seq(Nat) /\ IsInjective(u.list[k])
             /\ Range(u.list[k]) = {x \in G : ListOf(u.hdr[x]) = k}
             /\ Range(u.list[k]) \subseteq Range(h.list[k])
  <2>1. CASE k # ListOf(m)
    <3>1. u.list[k] = h.list[k]
      BY <1>1, <1>2, <2>1 DEF Typed, Unlinked
    <3>2. \A x : x \in Range(h.list[k]) <=> x \in G /\ ListOf(u.hdr[x]) = k
      BY <1>3, <1>5, <2>1
    <3> QED  BY <1>5, <3>1, <3>2
  <2>2. CASE k = ListOf(m)
    <3>1. u.list[k] = RemoveFirst(h.list[k], lo)
      BY <1>1, <1>2, <2>2 DEF Typed, Unlinked
    <3>2. h.list[k] \in Seq(Nat) /\ IsInjective(h.list[k]) /\ lo \in Range(h.list[k])
      BY <1>5, <2>2
    <3>3. /\ u.list[k] \in Seq(Nat) /\ IsInjective(u.list[k])
          /\ Range(u.list[k]) = Range(h.list[k]) \ {lo}
      BY <3>1, <3>2, RemoveFacts
    <3>4. \A x : x \in Range(h.list[k]) \ {lo} <=> x \in G /\ ListOf(u.hdr[x]) = k
      BY <1>3, <1>5, <2>2
    <3> QED  BY <3>3, <3>4
  <2> QED  BY <2>1, <2>2
<1>8. ASSUME NEW k \in 0..(HashSize - 1)
      PROVE  /\ u.chain[k] \in Seq(Nat) /\ IsInjective(u.chain[k])
             /\ Range(u.chain[k]) = {x \in G : Key(x, u.hdr[x]) = k}
  <2>1. CASE k # Key(lo, m)
    <3>1. u.chain[k] = h.chain[k]
      BY <1>1, <1>2, <2>1 DEF Typed, Unlinked
    <3>2. \A x : x \in Range(h.chain[k]) <=> x \in G /\ Key(x, u.hdr[x]) = k
      BY <1>3, <1>6, <2>1
    <3> QED  BY <1>6, <3>1, <3>2
  <2>2. CASE k = Key(lo, m)
    <3>1. u.chain[k] = RemoveFirst(h.chain[k], lo)
      BY <1>1, <1>2, <2>2 DEF Typed, Unlinked
    <3>2. h.chain[k] \in Seq(Nat) /\ IsInjective(h.chain[k]) /\ lo \in Range(h.chain[k])
      BY <1>6, <2>2
    <3>3. /\ u.chain[k] \in Seq(Nat) /\ IsInjective(u.chain[k])
          /\ Range(u.chain[k]) = Range(h.chain[k]) \ {lo}
      BY <3>1, <3>2, RemoveFacts
    <3>4. \A x : x \in Range(h.chain[k]) \ {lo} <=> x \in G /\ Key(x, u.hdr[x]) = k
      BY <1>3, <1>6, <2>2
    <3> QED  BY <3>3, <3>4
  <2> QED  BY <2>1, <2>2
<1>9. Typed(u)
  <2>1. u.list \in [1..Big -> Seq(Nat)]
    <3>1. u.list = [k \in 1..Big |-> u.list[k]]
      BY <1>1, <1>2 DEF Typed, Unlinked
    <3> QED  BY <1>7, <3>1
  <2>2. u.chain \in [0..(HashSize - 1) -> Seq(Nat)]
    <3>1. u.chain = [k \in 0..(HashSize - 1) |-> u.chain[k]]
      BY <1>1, <1>2 DEF Typed, Unlinked
    <3> QED  BY <1>8, <3>1
  <2> QED  BY <1>1, <1>2, <2>1, <2>2 DEF Typed, Unlinked
<1>10. Sound(u, G)
  <2>1. G \subseteq DOMAIN u.hdr
    BY <1>3 DEF Sound
  <2> QED  BY <1>7, <1>8, <1>9, <2>1 DEF Sound, Lists, Chains
<1>11. ASSUME NEW k \in 1..Big, u.list[k] # <<>> PROVE h.list[k] # <<>>
  <2>1. u.list[k] \in Seq(Nat)
    BY <1>7
  <2>2. u.list[k][1] \in Range(u.list[k])
    BY <1>11, <2>1, HeadFacts
  <2>3. u.list[k][1] \in Range(h.list[k])
    BY <1>7, <2>2
  <2>4. Range(<<>>) = {}
    BY DEF Range
  <2> QED  BY <2>3, <2>4
<1> QED  BY <1>2, <1>10, <1>11 DEF u, Unlinked

\* What ktaloc makes of the tables: the block at lo is no longer free and has
\* m words; what exceeds them is a free block.  If list c was the only one above
\* maxic, and the block at lo the only one in it, no list is now.
Rest(h, lo, m) == IF h.hdr[lo] = m THEN {} ELSE {lo + m}
LEMMA TakeSound ==
  ASSUME NEW h, NEW F, Sound(h, F), NEW lo \in F,
         NEW m \in Nat, m >= MinWords, lo + m \notin F,
         h.hdr[lo] = m \/ h.hdr[lo] >= m + MinWords
  PROVE  LET t == Take(h, lo, m)
             R == Rest(h, lo, m)
         IN  /\ Sound(t, (F \ {lo}) \cup R)
             /\ DOMAIN t.hdr = DOMAIN h.hdr \cup R
             /\ t.hdr[lo] = m
             /\ \A x \in R : t.hdr[x] = h.hdr[lo] - m
             /\ \A x \in DOMAIN h.hdr \ ({lo} \cup R) : t.hdr[x] = h.hdr[x]
             /\ t.nnet = h.nnet + m /\ t.nmem = h.nmem
             /\ \A c : /\ Topped(h, c)
                       /\ c \in 1..NIndex => Range(h.list[c]) \subseteq {lo}
                       => Topped(t, 0)
<1> DEFINE rest == h.hdr[lo] - m
           u == Unlink(h, lo)
           s == IF rest = 0 THEN u ELSE Insert(u, lo + m, rest)
           t == Take(h, lo, m)
           R == Rest(h, lo, m)
<1>1. lo \in Nat /\ lo \in DOMAIN h.hdr /\ h.hdr[lo] \in Nat /\ h.hdr[lo] >= MinWords
  BY ListedFacts DEF Sound
<1>2. /\ rest \in Nat /\ (rest = 0 \/ rest >= MinWords)
      /\ rest = 0 => R = {}
      /\ rest # 0 => R = {lo + m}
      /\ lo + m \in Nat /\ lo + m # lo
  BY <1>1, SizeFacts DEF Rest
<1>3. /\ Sound(u, F \ {lo})
      /\ u.hdr = h.hdr /\ u.maxic = h.maxic
      /\ u.nnet = h.nnet /\ u.nmem = h.nmem
      /\ \A k \in 1..Big : u.list[k] # <<>> => h.list[k] # <<>>
  BY UnlinkSound
<1>4. t = [s EXCEPT !.hdr = [@ EXCEPT ![lo] = m], !.nnet = @ + m]
  BY DEF Take
<1> HIDE DEF u, t, R, rest
<1>5. ASSUME rest # 0
      PROVE  LET i == Insert(u, lo + m, rest)
             IN  /\ Sound(i, (F \ {lo}) \cup {lo + m})
                 /\ i.hdr = Write(h.hdr, lo + m, rest)
                 /\ i.nnet = h.nnet /\ i.nmem = h.nmem
                 /\ \A c : Topped(u, c) => Topped(i, c)
  <2> DEFINE x == lo + m
             G == F \ {lo}
  <2>1. x \in Nat /\ x \notin G /\ rest \in Nat /\ rest >= MinWords
    BY <1>2, <1>5
  <2> HIDE DEF x, G
  <2>2. Sound(u, G)
    BY <1>3 DEF G
  <2>3. LET i == Insert(u, x, rest)
        IN  /\ Sound(i, G \cup {x})
            /\ i.hdr = Write(u.hdr, x, rest)
            /\ i.nnet = u.nnet /\ i.nmem = u.nmem
            /\ \A c : Topped(u, c) => Topped(i, c)
    BY <2>1, <2>2, InsertSound
  <2> QED  BY <1>3, <2>3 DEF x, G
<1>6. /\ Sound(s, (F \ {lo}) \cup R)
      /\ DOMAIN s.hdr = DOMAIN h.hdr \cup R
      /\ \A x \in R : s.hdr[x] = rest
      /\ \A x \in DOMAIN h.hdr \ R : s.hdr[x] = h.hdr[x]
      /\ s.nnet = h.nnet /\ s.nmem = h.nmem
      /\ \A c : Topped(u, c) => Topped(s, c)
  <2>1. CASE rest = 0
    BY <1>2, <1>3, <2>1
  <2>2. CASE rest # 0
    <3> DEFINE i == Insert(u, lo + m, rest)
    <3>1. s = i
      BY <2>2
    <3> HIDE DEF i, s
    <3>2. /\ Sound(i, (F \ {lo}) \cup {lo + m})
          /\ i.hdr = Write(h.hdr, lo + m, rest)
          /\ i.nnet = h.nnet /\ i.nmem = h.nmem
          /\ \A c : Topped(u, c) => Topped(i, c)
      BY <1>5, <2>2 DEF i
    <3>3. /\ DOMAIN i.hdr = DOMAIN h.hdr \cup {lo + m}
          /\ i.hdr[lo + m] = rest
          /\ \A x \in DOMAIN h.hdr : x # lo + m => i.hdr[x] = h.hdr[x]
      BY <3>2 DEF Write
    <3> QED  BY <1>2, <2>2, <3>1, <3>2, <3>3
  <2> QED  BY <2>1, <2>2
<1> HIDE DEF s
<1>7. Typed(s) /\ lo \in DOMAIN s.hdr
  BY <1>1, <1>6 DEF Sound
<1>8. /\ t.hdr = [s.hdr EXCEPT ![lo] = m] /\ t.list = s.list /\ t.chain = s.chain
      /\ t.maxic = s.maxic /\ t.nnet = s.nnet + m /\ t.nmem = s.nmem
      /\ t = [hdr |-> t.hdr, list |-> t.list, chain |-> t.chain,
              maxic |-> t.maxic, nnet |-> t.nnet, nmem |-> t.nmem]
  <2> DEFINE hd == [s.hdr EXCEPT ![lo] = m]
  <2>1. t = [s EXCEPT !.hdr = hd, !.nnet = s.nnet + m]
    BY <1>4
  <2> HIDE DEF hd
  <2>2. s = [hdr |-> s.hdr, list |-> s.list, chain |-> s.chain,
             maxic |-> s.maxic, nnet |-> s.nnet, nmem |-> s.nmem]
    BY <1>7 DEF Typed
  <2>3. t = [hdr |-> hd, list |-> s.list, chain |-> s.chain,
             maxic |-> s.maxic, nnet |-> s.nnet + m, nmem |-> s.nmem]
    BY <2>1, <2>2
  <2> QED  BY <2>3 DEF hd
<1>9. /\ DOMAIN t.hdr = DOMAIN s.hdr
      /\ t.hdr[lo] = m
      /\ \A x \in DOMAIN s.hdr : x # lo => t.hdr[x] = s.hdr[x]
      /\ t.hdr = [x \in DOMAIN t.hdr |-> t.hdr[x]]
  BY <1>7, <1>8
<1>10. Typed(t)
  <2>1. \A x \in DOMAIN t.hdr : t.hdr[x] \in Nat /\ t.hdr[x] >= MinWords
    BY <1>7, <1>9 DEF Typed
  <2>2. t.nnet \in Int
    BY <1>7, <1>8 DEF Typed
  <2> QED  BY <1>7, <1>8, <1>9, <2>1, <2>2 DEF Typed
<1>11. Sound(t, (F \ {lo}) \cup R)
  <2> DEFINE G == (F \ {lo}) \cup R
  <2>1. G \subseteq DOMAIN t.hdr
    BY <1>6, <1>9 DEF Sound
  <2>2. \A x \in G : t.hdr[x] = s.hdr[x]
    BY <1>2, <1>9, <2>1
  <2>3. Sound(s, G)
    BY <1>6
  <2> HIDE DEF G
  <2>4. Sound(t, G)
    BY <1>8, <1>10, <2>1, <2>2, <2>3, SoundSame
  <2> QED  BY <2>4 DEF G
<1>12. ASSUME NEW c, Topped(h, c), c \in 1..NIndex => Range(h.list[c]) \subseteq {lo}
       PROVE  Topped(t, 0)
  <2>1. ASSUME NEW k \in 1..NIndex, u.list[k] # <<>> PROVE k <= u.maxic
    <3>1. k \in 1..Big
      BY SizeFacts
    <3>2. k <= h.maxic \/ k = c
      BY <1>3, <1>12, <2>1, <3>1 DEF Topped
    <3>3. ASSUME k = c PROVE FALSE
      <4>1. h.list[k] # <<>> /\ Range(h.list[k]) \subseteq {lo}
        BY <1>3, <1>12, <2>1, <3>1, <3>3
      <4>2. u.list[k] \in Seq(Nat) /\ \A x : x \in Range(u.list[k])
                                   <=> x \in F \ {lo} /\ ListOf(u.hdr[x]) = k
        <5> DEFINE G == F \ {lo}
        <5>1. Sound(u, G)
          BY <1>3
        <5> HIDE DEF G
        <5>2. u.list[k] \in Seq(Nat) /\ \A x : x \in Range(u.list[k])
                                   <=> x \in G /\ ListOf(u.hdr[x]) = k
          BY <3>1, <5>1, ListFacts
        <5> QED  BY <5>2 DEF G
      <4>3. \A x : x \in Range(h.list[k]) <=> x \in F /\ ListOf(h.hdr[x]) = k
        BY <3>1, ListFacts
      <4>4. \A x : x \notin Range(u.list[k])
        BY <1>3, <4>1, <4>2, <4>3
      <4>5. u.list[k][1] \in Range(u.list[k])
        <5>1. u.list[k] \in Seq(Nat)
          BY <4>2
        <5> QED  BY <2>1, <5>1, HeadFacts
      <4> QED  BY <4>4, <4>5
    <3> QED  BY <1>3, <3>2, <3>3
  <2>2. Topped(u, 0)
    BY <2>1 DEF Topped
  <2>3. Topped(s, 0)
    BY <1>6, <2>2
  <2> QED  BY <1>8, <2>3 DEF Topped
<1>13. /\ t.nnet = h.nnet + m /\ t.nmem = h.nmem
       /\ DOMAIN t.hdr = DOMAIN h.hdr \cup R
       /\ \A x \in R : t.hdr[x] = rest
       /\ \A x \in DOMAIN h.hdr \ ({lo} \cup R) : t.hdr[x] = h.hdr[x]
  BY <1>2, <1>6, <1>8, <1>9
<1> QED  BY <1>9, <1>11, <1>12, <1>13 DEF t, R, rest

\* What tfree finds around the block at lo: the free block before it, the free
\* block after it, and where the block they make together starts and ends.
Pre(h, F, lo)  == {p \in F : p + h.hdr[p] = lo}
Post(h, F, lo) == F \cap {lo + h.hdr[lo]}
From(h, F, lo) == IF Pre(h, F, lo) = {} THEN lo ELSE CHOOSE p \in Pre(h, F, lo) : TRUE
To(h, F, lo)   == LET end == lo + h.hdr[lo]
                  IN  IF end \in F THEN end + h.hdr[end] ELSE end

\* The chain of the end of the block before leads to it.
LEMMA PrecedingFacts ==
  ASSUME NEW h, NEW F, Sound(h, F), NEW lo \in Nat
  PROVE  Preceding(h, lo) = Pre(h, F, lo)
<1> DEFINE k == (lo + 3) % HashSize
<1>1. k \in 0..(HashSize - 1)
  <2>1. lo + 3 \in Int /\ HashSize \in Nat /\ HashSize > 0
    BY SizeFacts
  <2> QED  BY <2>1
<1>2. \A p \in F : p \in Nat /\ h.hdr[p] \in Nat /\ h.hdr[p] > 0
  BY ListedFacts, SizeFacts
<1>3. \A p \in F : p + h.hdr[p] = lo => p < lo /\ Key(p, h.hdr[p]) = k
  <2> SUFFICES ASSUME NEW p \in F, p + h.hdr[p] = lo
               PROVE  p < lo /\ Key(p, h.hdr[p]) = k
    OBVIOUS
  <2>1. p + 3 + h.hdr[p] = lo + 3 /\ p < lo
    BY <1>2
  <2> QED  BY <2>1 DEF Key
<1>4. \A p : p \in Range(h.chain[k]) <=> p \in F /\ Key(p, h.hdr[p]) = k
  <2> HIDE DEF k
  <2> QED  BY <1>1, ListedFacts
<1> QED  BY <1>3, <1>4 DEF Preceding, Pre

\* The header of the block after, or what is read where there is none, leads to
\* a chain that holds it only if it is free.
LEMMA FollowsFacts ==
  ASSUME NEW h, NEW F, Sound(h, F), NEW lo \in Nat, NEW g \in Int
  PROVE  Follows(h, lo, g) <=> lo \in F
<1> DEFINE m == IF lo \in DOMAIN h.hdr THEN h.hdr[lo] ELSE g
           k == Key(lo, m)
<1>1. m \in Int
  BY DEF Sound, Typed
<1>2. k \in 0..(HashSize - 1)
  <2> HIDE DEF m
  <2>1. lo \in Int
    OBVIOUS
  <2> QED  BY <1>1, <2>1, KeyFacts
<1>3. \A p : p \in Range(h.chain[k]) <=> p \in F /\ Key(p, h.hdr[p]) = k
  <2> HIDE DEF k
  <2> QED  BY <1>2, ListedFacts
<1>4. lo \in F => k = Key(lo, h.hdr[lo])
  BY DEF Sound
<1>5. Follows(h, lo, g) <=> lo \in Range(h.chain[k])
  BY DEF Follows
<1> HIDE DEF k
<1> QED  BY <1>3, <1>4, <1>5

\* tfree leaves the tables sound: the blocks around the one given back are
\* gone from their lists and chains, and the block they make together is in
\* those of its size and its end.
LEMMA FreeSound ==
  ASSUME NEW h, NEW F, Sound(h, F), NEW lo \in DOMAIN h.hdr, lo \notin F,
         NEW g \in Int, Pre(h, F, lo) = {} \/ \E p : Pre(h, F, lo) = {p}
  PROVE  LET n == Free(h, lo, g)
             P == Pre(h, F, lo)
             N == Post(h, F, lo)
             a == From(h, F, lo)
         IN  /\ Sound(n, (F \ (P \cup N)) \cup {a})
             /\ DOMAIN n.hdr = (DOMAIN h.hdr \ ({lo} \cup N)) \cup {a}
             /\ n.hdr[a] = To(h, F, lo) - a
             /\ \A x \in DOMAIN n.hdr \ {a} : n.hdr[x] = h.hdr[x]
             /\ n.nnet = h.nnet - h.hdr[lo] /\ n.nmem = h.nmem
             /\ Topped(h, 0) => Topped(n, 0)
<1> DEFINE m   == h.hdr[lo]
           end == lo + m
           P   == Pre(h, F, lo)
           N   == Post(h, F, lo)
           a   == From(h, F, lo)
           z   == To(h, F, lo)
           h1  == IF P = {} THEN h ELSE Unlink(h, a)
           next == Follows(h1, end, g)
           h2  == IF next THEN Unlink(h1, end) ELSE h1
           gone == {lo} \cup N
           h3  == [h2 EXCEPT !.hdr = Restrict(@, DOMAIN @ \ gone), !.nnet = @ - m]
           n   == Free(h, lo, g)
<1>1. lo \in Nat /\ m \in Nat /\ m >= MinWords /\ end \in Nat /\ end > lo
  <2>1. Typed(h)
    BY DEF Sound
  <2>2. lo \in Nat /\ m \in Nat /\ m >= MinWords
    BY <2>1, HeaderFacts
  <2>3. end = lo + m
    OBVIOUS
  <2> HIDE DEF m, end
  <2> QED  BY <2>2, <2>3, SizeFacts
<1>2. \A p \in F : p \in DOMAIN h.hdr /\ p \in Nat /\ h.hdr[p] \in Nat /\ h.hdr[p] >= MinWords
  BY FreeFacts
<1>3. Preceding(h, lo) = P
  BY <1>1, PrecedingFacts
<1>4. /\ P = {} => a = lo
      /\ P # {} => P = {a} /\ a \in F /\ a + h.hdr[a] = lo
  BY DEF Pre, From
<1>5. /\ Sound(h1, F \ P) /\ h1.hdr = h.hdr
      /\ h1.nnet = h.nnet /\ h1.nmem = h.nmem
      /\ Topped(h, 0) => Topped(h1, 0)
  <2>1. CASE P = {}
    BY <2>1
  <2>2. CASE P # {}
    <3> HIDE DEF a, P, h1
    <3>1. a \in F /\ P = {a} /\ h1 = Unlink(h, a)
      BY <1>4, <2>2 DEF h1
    <3>2. /\ Sound(h1, F \ {a}) /\ h1.hdr = h.hdr /\ h1.maxic = h.maxic
          /\ h1.nnet = h.nnet /\ h1.nmem = h.nmem
          /\ \A k \in 1..Big : h1.list[k] # <<>> => h.list[k] # <<>>
      BY <3>1, UnlinkSound
    <3>3. 1..NIndex \subseteq 1..Big
      BY SizeFacts
    <3> QED  BY <3>1, <3>2, <3>3 DEF Topped
  <2> QED  BY <2>1, <2>2
<1>6. next <=> end \in F \ P
  <2> HIDE DEF h1, end
  <2> QED  BY <1>1, <1>5, FollowsFacts
<1>7. end \notin P
  BY <1>1, <1>2 DEF Pre
<1>8. /\ next => N = {end} /\ end \in F /\ z = end + h.hdr[end]
      /\ ~ next => N = {} /\ z = end
  <2> HIDE DEF next
  <2> QED  BY <1>6, <1>7 DEF Post, To
<1>9. n = Insert(h3, a, z - a)
  <2>1. n = LET lo1  == a
                end1 == IF next THEN end + h1.hdr[end] ELSE end
                gone1 == {lo} \cup (IF next THEN {end} ELSE {})
                i3   == [h2 EXCEPT !.hdr = Restrict(@, DOMAIN @ \ gone1), !.nnet = @ - m]
            IN  Insert(i3, lo1, end1 - lo1)
    BY <1>3 DEF Free, From
  <2>2. z = IF next THEN end + h1.hdr[end] ELSE end
    <3> HIDE DEF next, end, z, h1
    <3> QED  BY <1>5, <1>8
  <2>3. gone = {lo} \cup (IF next THEN {end} ELSE {})
    <3> HIDE DEF next, end, N
    <3> QED  BY <1>8
  <2> HIDE DEF next, end, z, a, h1, h2, n, gone
  <2> QED  BY <2>1, <2>2, <2>3
<1> HIDE DEF n, h1, next, end, a, z, P, N, m
<1>10. /\ Sound(h2, F \ (P \cup N)) /\ h2.hdr = h.hdr
       /\ h2.nnet = h.nnet /\ h2.nmem = h.nmem
       /\ Topped(h, 0) => Topped(h2, 0)
  <2>1. CASE ~ next
    <3>1. h2 = h1 /\ N = {}
      BY <1>8, <2>1
    <3> QED  BY <1>5, <3>1
  <2>2. CASE next
    <3> DEFINE G == F \ P
    <3>1. end \in G /\ G \ {end} = F \ (P \cup N) /\ h2 = Unlink(h1, end)
      BY <1>6, <1>8, <2>2
    <3>2. Sound(h1, G)
      BY <1>5
    <3> HIDE DEF G, h2
    <3>3. /\ Sound(h2, G \ {end}) /\ h2.hdr = h1.hdr /\ h2.maxic = h1.maxic
          /\ h2.nnet = h1.nnet /\ h2.nmem = h1.nmem
          /\ \A k \in 1..Big : h2.list[k] # <<>> => h1.list[k] # <<>>
      BY <3>1, <3>2, UnlinkSound
    <3>4. 1..NIndex \subseteq 1..Big
      BY SizeFacts
    <3>5. Topped(h1, 0) => Topped(h2, 0)
      BY <3>3, <3>4 DEF Topped
    <3> QED  BY <1>5, <3>1, <3>3, <3>5
  <2> QED  BY <2>1, <2>2
<1> HIDE DEF h2
<1>11. /\ h3.hdr = [x \in DOMAIN h.hdr \ gone |-> h.hdr[x]]
       /\ h3.list = h2.list /\ h3.chain = h2.chain /\ h3.maxic = h2.maxic
       /\ h3.nnet = h.nnet - m /\ h3.nmem = h.nmem
       /\ h3 = [hdr |-> h3.hdr, list |-> h3.list, chain |-> h3.chain,
                maxic |-> h3.maxic, nnet |-> h3.nnet, nmem |-> h3.nmem]
  <2> DEFINE hd == [x \in DOMAIN h.hdr \ gone |-> h.hdr[x]]
  <2> DEFINE nn == h.nnet - m
  <2>1. h3 = [h2 EXCEPT !.hdr = hd, !.nnet = nn]
    BY <1>10 DEF Restrict
  <2> HIDE DEF hd, nn, h3
  <2>2. h2 = [hdr |-> h2.hdr, list |-> h2.list, chain |-> h2.chain,
              maxic |-> h2.maxic, nnet |-> h2.nnet, nmem |-> h2.nmem]
    BY <1>10 DEF Sound, Typed
  <2>3. h3 = [hdr |-> hd, list |-> h2.list, chain |-> h2.chain,
              maxic |-> h2.maxic, nnet |-> nn, nmem |-> h2.nmem]
    BY <2>1, <2>2
  <2> QED  BY <1>10, <2>3 DEF hd, nn
<1> HIDE DEF h3
<1>12. /\ DOMAIN h3.hdr = DOMAIN h.hdr \ gone
       /\ \A x \in DOMAIN h3.hdr : h3.hdr[x] = h.hdr[x]
       /\ h3.hdr = [x \in DOMAIN h3.hdr |-> h3.hdr[x]]
  BY <1>11
<1>13. Typed(h3)
  <2>1. Typed(h) /\ Typed(h2)
    BY <1>10 DEF Sound
  <2>2. \A x \in DOMAIN h3.hdr : x \in Nat /\ h3.hdr[x] \in Nat /\ h3.hdr[x] >= MinWords
    BY <1>12, <2>1 DEF Typed
  <2>3. h3.nnet \in Int
    BY <1>1, <1>11, <2>1 DEF Typed
  <2> QED  BY <1>11, <1>12, <2>1, <2>2, <2>3 DEF Typed
<1> DEFINE G == F \ (P \cup N)
<1>14. Sound(h3, G)
  <2>1. G \subseteq DOMAIN h3.hdr
    BY <1>2, <1>12
  <2>2. Sound(h2, G)
    BY <1>10
  <2> HIDE DEF G
  <2> QED  BY <1>10, <1>11, <1>12, <1>13, <2>1, <2>2, SoundSame
<1>15. a \in Nat /\ a \notin G /\ z - a \in Nat /\ z - a >= MinWords
  <2>1. a \in Nat /\ a <= lo
    BY <1>1, <1>2, <1>4
  <2>2. z \in Nat /\ z >= end
    BY <1>1, <1>2, <1>8
  <2>3. end = lo + m
    BY DEF end
  <2>4. a \notin G
    BY <1>4
  <2> QED  BY <1>1, <2>1, <2>2, <2>3, <2>4, SizeFacts
<1>16. /\ Sound(n, G \cup {a})
       /\ n.hdr = Write(h3.hdr, a, z - a)
       /\ n.nnet = h3.nnet /\ n.nmem = h3.nmem
       /\ \A c : Topped(h3, c) => Topped(n, c)
  <2> HIDE DEF G
  <2> DEFINE w == z - a
  <2>1. w \in Nat /\ w >= MinWords /\ n = Insert(h3, a, w)
    BY <1>9, <1>15
  <2> HIDE DEF w
  <2>2. a \in Nat /\ a \notin G
    BY <1>15
  <2>3. /\ Sound(n, G \cup {a})
        /\ n.hdr = Write(h3.hdr, a, w)
        /\ n.nnet = h3.nnet /\ n.nmem = h3.nmem
        /\ \A c : Topped(h3, c) => Topped(n, c)
    BY ONLY <1>14, <2>1, <2>2, InsertSound
  <2> QED  BY <2>3 DEF w
<1>17. /\ DOMAIN n.hdr = DOMAIN h3.hdr \cup {a} /\ n.hdr[a] = z - a
       /\ \A x \in DOMAIN n.hdr \ {a} : n.hdr[x] = h3.hdr[x]
  BY <1>16 DEF Write
<1>18. Topped(h, 0) => Topped(n, 0)
  BY <1>10, <1>11, <1>16 DEF Topped
<1>19. n.nnet = h.nnet - m /\ n.nmem = h.nmem
  BY <1>11, <1>16
<1>20. \A x \in DOMAIN n.hdr \ {a} : n.hdr[x] = h.hdr[x]
  BY <1>12, <1>17
<1>21. DOMAIN n.hdr = (DOMAIN h.hdr \ gone) \cup {a}
  BY <1>12, <1>17
<1> QED  BY <1>16, <1>17, <1>18, <1>19, <1>20, <1>21 DEF n, P, N, a, z, m

-----------------------------------------------------------------------------
(* The tables and the blocks they make.                                    *)

\* The block at each address: f the header words, F the free blocks, H those
\* the program holds, r the reserve.
BlockMap(f, F, H, r) ==
  [lo \in DOMAIN f \cup (IF r.n = 0 THEN {} ELSE {r.lo}) |->
     IF r.n # 0 /\ lo = r.lo
       THEN [kind |-> "used", lo |-> lo, size |-> r.n + 1]
       ELSE [kind |-> IF lo \in F THEN "free" ELSE IF lo \in H THEN "used" ELSE "sep",
             lo |-> lo, size |-> f[lo]]]

ReserveOf(r) == IF r.n = 0 THEN {}
                ELSE {[kind |-> "used", lo |-> r.lo, size |-> r.n + 1]}

LEMMA MapRange ==
  ASSUME NEW f, NEW F, NEW H, NEW r
  PROVE  {[kind |-> IF lo \in F THEN "free" ELSE IF lo \in H THEN "used" ELSE "sep",
           lo |-> lo, size |-> f[lo]] : lo \in DOMAIN f \ {b.lo : b \in ReserveOf(r)}}
         \cup ReserveOf(r) = Range(BlockMap(f, F, H, r))
<1> DEFINE B(lo) == [kind |-> IF lo \in F THEN "free" ELSE IF lo \in H THEN "used" ELSE "sep",
                     lo |-> lo, size |-> f[lo]]
           v == BlockMap(f, F, H, r)
<1>1. CASE r.n = 0
  <2>1. ReserveOf(r) = {} /\ {b.lo : b \in ReserveOf(r)} = {}
    BY <1>1 DEF ReserveOf
  <2>2. DOMAIN v = DOMAIN f /\ \A lo \in DOMAIN f : v[lo] = B(lo)
    BY <1>1 DEF BlockMap
  <2> HIDE DEF B, v
  <2>3. Range(v) = {B(lo) : lo \in DOMAIN f}
    BY <2>2 DEF Range
  <2> QED  BY <2>1, <2>3 DEF B, v
<1>2. CASE r.n # 0
  <2> DEFINE R == [kind |-> "used", lo |-> r.lo, size |-> r.n + 1]
  <2>1. ReserveOf(r) = {R} /\ {b.lo : b \in ReserveOf(r)} = {r.lo}
    BY <1>2 DEF ReserveOf
  <2>2. /\ DOMAIN v = DOMAIN f \cup {r.lo} /\ v[r.lo] = R
        /\ \A lo \in DOMAIN f \ {r.lo} : v[lo] = B(lo)
    BY <1>2 DEF BlockMap
  <2> HIDE DEF B, v, R
  <2>3. Range(v) = {B(lo) : lo \in DOMAIN f \ {r.lo}} \cup {R}
    BY <2>2 DEF Range
  <2> QED  BY <2>1, <2>3 DEF B, v
<1> QED  BY <1>1, <1>2

LEMMA BlocksAre ==
  /\ Blocks = Range(BlockMap(heap.hdr, FreeBlocks, held, resv))
  /\ Blocks' = Range(BlockMap(heap.hdr', FreeBlocks', held', resv'))
<1>1. Blocks = Range(BlockMap(heap.hdr, FreeBlocks, held, resv))
  BY MapRange DEF Blocks, KindOf, Reserve, ReserveOf
<1>2. Blocks' = Range(BlockMap(heap.hdr', FreeBlocks', held', resv'))
  BY MapRange DEF Blocks, KindOf, Reserve, ReserveOf
<1> QED  BY <1>1, <1>2

\* What the map says of an address.
Mapped(v, f, F, H, r) ==
  /\ DOMAIN v = DOMAIN f \cup (IF r.n = 0 THEN {} ELSE {r.lo})
  /\ \A lo \in DOMAIN v : v[lo].lo = lo
  /\ r.n # 0 => v[r.lo] = [kind |-> "used", lo |-> r.lo, size |-> r.n + 1]
  /\ \A lo \in DOMAIN f : r.n = 0 \/ lo # r.lo =>
       v[lo] = [kind |-> IF lo \in F THEN "free" ELSE IF lo \in H THEN "used" ELSE "sep",
                lo |-> lo, size |-> f[lo]]

LEMMA MapFacts ==
  ASSUME NEW f, NEW F, NEW H, NEW r
  PROVE  Mapped(BlockMap(f, F, H, r), f, F, H, r)
BY DEF BlockMap, Mapped

\* What is in the map is in its range, under its own address only.
LEMMA MapRangeFacts ==
  ASSUME NEW v, \A lo \in DOMAIN v : v[lo].lo = lo
  PROVE  /\ \A lo \in DOMAIN v : v[lo] \in Range(v)
         /\ \A b \in Range(v) : b.lo \in DOMAIN v /\ b = v[b.lo]
         /\ \A x, y \in DOMAIN v : v[x] = v[y] => x = y
BY DEF Range

\* A map that differs from another in the blocks at D, for which it has those
\* at A.
Patched(w, v, D, A) ==
  /\ \A lo \in DOMAIN v : v[lo].lo = lo
  /\ D \subseteq DOMAIN v
  /\ DOMAIN w = (DOMAIN v \ D) \cup A
  /\ A \cap (DOMAIN v \ D) = {}
  /\ \A lo \in DOMAIN v \ D : w[lo] = v[lo]

LEMMA MapPatch ==
  ASSUME NEW v, NEW w, NEW D, NEW A, Patched(w, v, D, A)
  PROVE  Range(w) = (Range(v) \ {v[lo] : lo \in D}) \cup {w[lo] : lo \in A}
<1>1. \A lo \in DOMAIN v \ D : v[lo] \notin {v[x] : x \in D}
  BY DEF Patched
<1> QED  BY <1>1 DEF Patched, Range

\* The least multiple of b above a.
LEMMA DivFacts ==
  ASSUME NEW a \in Nat, NEW b \in Nat, b > 0
  PROVE  LET c == b * (1 + (a \div b)) IN c \in Nat /\ c > a /\ c >= b
<1> DEFINE q == a \div b
           y == b * q
<1>1. b * (1 + q) > a /\ q \in Nat
  OBVIOUS
<1> HIDE DEF q
<1>2. b * (1 + q) = b + y /\ y \in Nat
  BY <1>1
<1> HIDE DEF y
<1>3. b + y \in Nat /\ b + y >= b
  BY <1>2
<1> QED  BY <1>1, <1>2, <1>3 DEF q

\* A chunk has room for the request and for a separator.
LEMMA ChunkWordsFacts ==
  ASSUME NEW m \in Nat
  PROVE  /\ ChunkWords(m) \in Nat /\ ChunkWords(m) >= MpSize
         /\ ChunkWords(m) >= m + MinWords
<1> DEFINE x == m + MinWords - 1
           c == ChunkWords(m)
<1>1. x \in Nat /\ MpSize \in Nat /\ MpSize > 0 /\ x + 1 = m + MinWords
  BY SizeFacts
<1>2. c = MpSize * (1 + (x \div MpSize))
  BY DEF ChunkWords
<1> HIDE DEF x, c
<1>3. c \in Nat /\ c > x /\ c >= MpSize
  BY <1>1, <1>2, DivFacts
<1>4. c >= x + 1
  BY <1>1, <1>3
<1> QED  BY <1>1, <1>3, <1>4 DEF c

LEMMA SizesAreNat == BP!MinWordsAssumption /\ BP!RequestsAssumption /\ BP!ChunkAssumption
<1>1. \A n \in Requests \cup {NResv} : Max({n, MinWords - 1}) + 1 \in Nat
                                     /\ Max({n, MinWords - 1}) + 1 >= MinWords
  <2> SUFFICES ASSUME NEW n \in Requests \cup {NResv}
               PROVE  Max({n, MinWords - 1}) + 1 \in Nat
                      /\ Max({n, MinWords - 1}) + 1 >= MinWords
    OBVIOUS
  <2>1. n \in Nat /\ MinWords \in Nat /\ MinWords > 0
    BY SizeFacts
  <2>2. Max({n, MinWords - 1}) = IF n >= MinWords - 1 THEN n ELSE MinWords - 1
    BY <2>1, MaxPair
  <2> QED  BY <2>1, <2>2
<1>2. \A n \in Requests \cup {NResv} :
        ChunkWords(Max({n, MinWords - 1}) + 1) \in {k \in Nat : k >= 2 * MinWords}
  <2> SUFFICES ASSUME NEW n \in Requests \cup {NResv}
               PROVE  ChunkWords(Max({n, MinWords - 1}) + 1) \in {k \in Nat : k >= 2 * MinWords}
    OBVIOUS
  <2> DEFINE m == Max({n, MinWords - 1}) + 1
  <2>1. m \in Nat /\ m >= MinWords
    BY <1>1
  <2> HIDE DEF m
  <2>2. ChunkWords(m) \in Nat /\ ChunkWords(m) >= m + MinWords
    BY <2>1, ChunkWordsFacts, SizeFacts
  <2>3. ChunkWords(m) \in {k \in Nat : k >= 2 * MinWords}
    BY <2>1, <2>2, SizeFacts
  <2> QED  BY <2>3 DEF m
<1>3. MinWords \in Nat \ {0} /\ ChunkAddr \subseteq Nat
  BY SizeFacts
<1>4. Sizes \subseteq {m \in Nat : m >= MinWords}
  BY <1>1 DEF Sizes
<1>5. Chunks \subseteq {k \in Nat : k >= 2 * MinWords}
  BY <1>2 DEF Chunks
<1> QED  BY <1>3, <1>4, <1>5 DEF BP!MinWordsAssumption, BP!RequestsAssumption, BP!ChunkAssumption

\* BlockStore's fact about what tfree merges.
LEMMA MergedHere ==
  ASSUME NEW bs, bs \subseteq BP!Block, BP!Disjoint(bs),
         NEW x \in BP!Block, \A c \in bs : BP!Apart(x, c)
  PROVE  /\ \/ BP!Before(bs, x) = {} /\ BP!Start(bs, x) = x.lo
            \/ \E f \in bs : BP!Before(bs, x) = {f} /\ BP!Start(bs, x) = f.lo
         /\ \/ BP!After(bs, x) = {} /\ BP!Finish(bs, x) = BP!End(x)
            \/ \E f \in bs : BP!After(bs, x) = {f} /\ BP!Finish(bs, x) = BP!End(f)
BY SizesAreNat, BP!MergedFacts

\* What BlockStore's invariant says of the map.
LEMMA MapGood ==
  ASSUME NEW v, \A lo \in DOMAIN v : v[lo].lo = lo, BP!Good(Range(v))
  PROVE  /\ \A x \in DOMAIN v : /\ v[x] \in BP!Block /\ x \in Nat
                                /\ v[x].size \in Nat /\ v[x].size >= MinWords
                                /\ BP!End(v[x]) = x + v[x].size
         /\ \A x, y \in DOMAIN v :
              x # y => x + v[x].size <= y \/ y + v[y].size <= x
         /\ \A x, y \in DOMAIN v :
              v[x].kind = "free" /\ v[y].kind = "free" => x + v[x].size # y
<1>1. /\ \A lo \in DOMAIN v : v[lo] \in Range(v)
      /\ \A x, y \in DOMAIN v : v[x] = v[y] => x = y
  BY MapRangeFacts
<1>2. \A x \in DOMAIN v : /\ v[x] \in BP!Block /\ x \in Nat
                          /\ v[x].size \in Nat /\ v[x].size >= MinWords
                          /\ BP!End(v[x]) = x + v[x].size
  <2> SUFFICES ASSUME NEW x \in DOMAIN v
               PROVE  /\ v[x] \in BP!Block /\ x \in Nat
                      /\ v[x].size \in Nat /\ v[x].size >= MinWords
                      /\ BP!End(v[x]) = x + v[x].size
    OBVIOUS
  <2>1. v[x] \in BP!Block /\ v[x].lo = x
    BY <1>1 DEF BP!Good
  <2> QED  BY <2>1 DEF BP!Block, BP!End
<1>3. \A x, y \in DOMAIN v : x # y => BP!Apart(v[x], v[y])
  BY <1>1 DEF BP!Good, BP!Disjoint
<1>4. \A x, y \in DOMAIN v :
        ~ (v[x].kind = "free" /\ v[y].kind = "free" /\ BP!End(v[x]) = v[y].lo)
  BY <1>1 DEF BP!Good, BP!NoPair
<1> QED  BY <1>2, <1>3, <1>4 DEF BP!Apart

\* tfree on the tables is Release and Grow's merge on the blocks: x, with the
\* words the header says, joins the rest of the blocks as a free one.
CanFree(h, F, H, r, lo, rest, x) ==
  /\ Sound(h, F)
  /\ r.n = 0 \/ r.lo \notin F
  /\ lo \in DOMAIN h.hdr /\ lo \notin F
  /\ r.n = 0 \/ r.lo # lo
  /\ rest = Range(BlockMap(h.hdr, F, H, r)) \ {BlockMap(h.hdr, F, H, r)[lo]}
  /\ x = [kind |-> "used", lo |-> lo, size |-> h.hdr[lo]]
  /\ rest \subseteq BP!Block /\ BP!Disjoint(rest)
  /\ \A c \in rest : BP!Apart(x, c)
Given(n, a, G, h, F, H, r, lo, rest, x) ==
  /\ Sound(n, G)
  /\ Topped(h, 0) => Topped(n, 0)
  /\ n.nnet = h.nnet - h.hdr[lo] /\ n.nmem = h.nmem
  /\ Range(BlockMap(n.hdr, G, H \ {lo}, r)) = BP!Freed(rest, x)
  /\ a \in DOMAIN n.hdr /\ n.hdr[a] >= h.hdr[lo]
  /\ \A y \in G \ {a} : n.hdr[y] = h.hdr[y]
  /\ DOMAIN h.hdr \ F \subseteq (DOMAIN n.hdr \ G) \cup {lo}
  /\ \A y \in DOMAIN n.hdr \ G : y \in DOMAIN h.hdr \ F /\ y # lo /\ n.hdr[y] = h.hdr[y]
FreeAfter(h, F, lo) == (F \ (Pre(h, F, lo) \cup Post(h, F, lo))) \cup {From(h, F, lo)}

LEMMA FreeMap ==
  ASSUME NEW h, NEW F, NEW H, NEW r, NEW lo, NEW g \in Int, NEW rest, NEW x,
         CanFree(h, F, H, r, lo, rest, x)
  PROVE  Given(Free(h, lo, g), From(h, F, lo), FreeAfter(h, F, lo), h, F, H, r, lo, rest, x)
<1> SUFFICES
      ASSUME Sound(h, F), r.n = 0 \/ r.lo \notin F,
             lo \in DOMAIN h.hdr, lo \notin F, r.n = 0 \/ r.lo # lo,
             rest = Range(BlockMap(h.hdr, F, H, r)) \ {BlockMap(h.hdr, F, H, r)[lo]},
             x = [kind |-> "used", lo |-> lo, size |-> h.hdr[lo]],
             rest \subseteq BP!Block, BP!Disjoint(rest), \A c \in rest : BP!Apart(x, c)
      PROVE  LET n == Free(h, lo, g)
                 a == From(h, F, lo)
                 G == (F \ (Pre(h, F, lo) \cup Post(h, F, lo))) \cup {a}
             IN  /\ Sound(n, G)
                 /\ Topped(h, 0) => Topped(n, 0)
                 /\ n.nnet = h.nnet - h.hdr[lo] /\ n.nmem = h.nmem
                 /\ Range(BlockMap(n.hdr, G, H \ {lo}, r)) = BP!Freed(rest, x)
                 /\ a \in DOMAIN n.hdr /\ n.hdr[a] >= h.hdr[lo]
                 /\ \A y \in G \ {a} : n.hdr[y] = h.hdr[y]
                 /\ DOMAIN h.hdr \ F \subseteq (DOMAIN n.hdr \ G) \cup {lo}
                 /\ \A y \in DOMAIN n.hdr \ G :
                      y \in DOMAIN h.hdr \ F /\ y # lo /\ n.hdr[y] = h.hdr[y]
  BY Zenon DEF CanFree, Given, FreeAfter
<1> DEFINE v == BlockMap(h.hdr, F, H, r)
           n == Free(h, lo, g)
           a == From(h, F, lo)
           z == To(h, F, lo)
           P == Pre(h, F, lo)
           N == Post(h, F, lo)
           G == (F \ (P \cup N)) \cup {a}
           w == BlockMap(n.hdr, G, H \ {lo}, r)
           B == BP!Before(rest, x)
           A == BP!After(rest, x)
           M == BP!Merged(rest, x)
<1>0. Mapped(v, h.hdr, F, H, r)
  BY MapFacts
<1> HIDE DEF v
<1>1. /\ DOMAIN v = DOMAIN h.hdr \cup (IF r.n = 0 THEN {} ELSE {r.lo})
      /\ \A y \in DOMAIN v : v[y].lo = y
      /\ r.n # 0 => v[r.lo] = [kind |-> "used", lo |-> r.lo, size |-> r.n + 1]
      /\ \A y \in DOMAIN h.hdr : r.n = 0 \/ y # r.lo =>
           v[y] = [kind |-> IF y \in F THEN "free" ELSE IF y \in H THEN "used" ELSE "sep",
                   lo |-> y, size |-> h.hdr[y]]
  BY <1>0 DEF Mapped
<1>2. \A y \in F : /\ y \in DOMAIN h.hdr /\ y \in Nat /\ h.hdr[y] \in Nat
                   /\ h.hdr[y] >= MinWords
  BY FreeFacts
<1>3. lo \in Nat /\ h.hdr[lo] \in Nat /\ h.hdr[lo] >= MinWords
  <2>1. Typed(h)
    BY DEF Sound
  <2> QED  BY <2>1, HeaderFacts
<1>4. /\ \A y \in DOMAIN v : v[y] \in Range(v)
      /\ \A b \in Range(v) : b.lo \in DOMAIN v /\ b = v[b.lo]
      /\ \A y, t \in DOMAIN v : v[y] = v[t] => y = t
  BY <1>1, MapRangeFacts
<1>5. rest = Range(v) \ {v[lo]}
  BY DEF v
<1>6. \A y \in F : /\ y \in DOMAIN v /\ v[y] \in rest
                   /\ v[y].kind = "free" /\ v[y].lo = y
                   /\ BP!End(v[y]) = y + h.hdr[y]
  <2> SUFFICES ASSUME NEW y \in F
               PROVE  /\ y \in DOMAIN v /\ v[y] \in rest
                      /\ v[y].kind = "free" /\ v[y].lo = y
                      /\ BP!End(v[y]) = y + h.hdr[y]
    OBVIOUS
  <2>1. y \in DOMAIN v /\ y \in DOMAIN h.hdr /\ (r.n = 0 \/ y # r.lo)
    BY <1>1, <1>2
  <2>2. v[y] = [kind |-> "free", lo |-> y, size |-> h.hdr[y]]
    BY <1>1, <2>1
  <2>3. v[y] \in rest
    BY <1>1, <1>4, <1>5, <2>1
  <2> QED  BY <2>1, <2>2, <2>3 DEF BP!End
<1>7. \A b \in rest : b.kind = "free" => b.lo \in F /\ b = v[b.lo]
  <2> SUFFICES ASSUME NEW b \in rest, b.kind = "free" PROVE b.lo \in F /\ b = v[b.lo]
    OBVIOUS
  <2>1. b.lo \in DOMAIN v /\ b = v[b.lo]
    BY <1>4, <1>5
  <2>2. r.n = 0 \/ b.lo # r.lo
    <3>1. "used" # "free"
      OBVIOUS
    <3> QED  BY <1>1, <2>1, <3>1
  <2>3. b.lo \in DOMAIN h.hdr
    BY <1>1, <2>1, <2>2
  <2>4. b.kind = IF b.lo \in F THEN "free" ELSE IF b.lo \in H THEN "used" ELSE "sep"
    <3> DEFINE y == b.lo
    <3>1. v[y] = [kind |-> IF y \in F THEN "free" ELSE IF y \in H THEN "used" ELSE "sep",
                  lo |-> y, size |-> h.hdr[y]]
      BY <1>1, <2>2, <2>3
    <3> HIDE DEF y
    <3>2. v[y].kind = IF y \in F THEN "free" ELSE IF y \in H THEN "used" ELSE "sep"
      BY <3>1
    <3> QED  BY <2>1, <3>2 DEF y
  <2>5. b.lo \in F
    BY ONLY <2>4, b.kind = "free"
  <2> QED  BY <2>1, <2>5
<1> HIDE DEF n, a, z, P, N, G, w, B, A, M
<1>8. \A b : b \in B <=> b \in rest /\ b.kind = "free" /\ BP!End(b) = lo
  BY DEF B, BP!Before
<1>9. \A p : p \in P <=> p \in F /\ p + h.hdr[p] = lo
  BY DEF P, Pre
<1>10. /\ \A p \in P : v[p] \in B
       /\ \A b \in B : b.lo \in P /\ b = v[b.lo]
  <2>1. ASSUME NEW p \in P PROVE v[p] \in B
    <3>1. p \in F /\ p + h.hdr[p] = lo
      BY <1>9
    <3>2. v[p] \in rest /\ v[p].kind = "free" /\ BP!End(v[p]) = lo
      BY <1>6, <3>1
    <3> QED  BY <1>8, <3>2
  <2>2. ASSUME NEW b \in B PROVE b.lo \in P /\ b = v[b.lo]
    <3>1. b \in rest /\ b.kind = "free" /\ BP!End(b) = lo
      BY <1>8
    <3>2. b.lo \in F /\ b = v[b.lo]
      BY <1>7, <3>1
    <3>3. BP!End(b) = b.lo + h.hdr[b.lo]
      BY <1>6, <3>2
    <3> QED  BY <1>9, <3>1, <3>2, <3>3
  <2> QED  BY <2>1, <2>2
<1> DEFINE end == lo + h.hdr[lo]
<1>11. BP!End(x) = end /\ x \in BP!Block /\ x.lo = lo
  BY <1>3 DEF BP!End, BP!Block, BP!Kind
<1>12. \A b : b \in A <=> b \in rest /\ b.kind = "free" /\ b.lo = end
  BY <1>11 DEF A, BP!After
<1>13. \A q : q \in N <=> q \in F /\ q = end
  BY DEF N, Post
<1> HIDE DEF end
<1>14. /\ \A q \in N : v[q] \in A
       /\ \A b \in A : b.lo \in N /\ b = v[b.lo]
  <2>1. ASSUME NEW q \in N PROVE v[q] \in A
    <3>1. q \in F /\ q = end
      BY <1>13
    <3>2. v[q] \in rest /\ v[q].kind = "free" /\ v[q].lo = end
      BY <1>6, <3>1
    <3> QED  BY <1>12, <3>2
  <2>2. ASSUME NEW b \in A PROVE b.lo \in N /\ b = v[b.lo]
    <3>1. b \in rest /\ b.kind = "free" /\ b.lo = end
      BY <1>12
    <3>2. b.lo \in F /\ b = v[b.lo]
      BY <1>7, <3>1
    <3> QED  BY <1>13, <3>1, <3>2
  <2> QED  BY <2>1, <2>2
<1>15. /\ \/ B = {} /\ BP!Start(rest, x) = lo
          \/ \E f \in rest : B = {f} /\ BP!Start(rest, x) = f.lo
       /\ \/ A = {} /\ BP!Finish(rest, x) = end
          \/ \E f \in rest : A = {f} /\ BP!Finish(rest, x) = BP!End(f)
  BY ONLY rest \subseteq BP!Block, BP!Disjoint(rest), \A c \in rest : BP!Apart(x, c),
          <1>11, MergedHere DEF A, B
<1>16. /\ P = {} \/ \E p : P = {p}
       /\ BP!Start(rest, x) = a
  <2>1. a = IF P = {} THEN lo ELSE CHOOSE p \in P : TRUE
    BY DEF a, P, From
  <2>2. CASE B = {}
    <3>1. P = {}
      BY <1>10, <2>2
    <3> QED  BY <1>15, <2>1, <2>2, <3>1
  <2>3. ASSUME NEW f \in rest, B = {f}, BP!Start(rest, x) = f.lo
        PROVE  P = {f.lo} /\ a = f.lo
    <3>1. f.lo \in P
      BY <1>10, <2>3
    <3>2. ASSUME NEW p \in P PROVE p = f.lo
      <4>1. v[p] = f /\ p \in F
        BY <1>9, <1>10, <2>3
      <4>2. v[p].lo = p
        BY <1>6, <4>1
      <4> QED  BY <4>1, <4>2
    <3>3. P = {f.lo}
      BY <3>1, <3>2
    <3> QED  BY <2>1, <3>3
  <2> QED  BY <1>15, <2>2, <2>3
<1>17. BP!Finish(rest, x) = z
  <2>1. z = IF end \in F THEN end + h.hdr[end] ELSE end
    BY DEF z, To, end
  <2>2. CASE A = {}
    <3>1. end \notin F
      BY <1>13, <1>14, <2>2
    <3> QED  BY <1>15, <2>1, <2>2, <3>1
  <2>3. ASSUME NEW f \in rest, A = {f}, BP!Finish(rest, x) = BP!End(f)
        PROVE  BP!Finish(rest, x) = z
    <3>1. f.lo \in N /\ f = v[f.lo]
      BY <1>14, <2>3
    <3>2. f.lo = end /\ end \in F /\ BP!End(v[end]) = end + h.hdr[end]
      BY <1>6, <1>13, <3>1
    <3> QED  BY <2>1, <2>3, <3>1, <3>2
  <2> QED  BY <1>15, <2>2, <2>3
<1>18. M = [kind |-> "free", lo |-> a, size |-> z - a]
  BY <1>16, <1>17 DEF M, BP!Merged
<1>19. /\ Sound(n, G)
       /\ DOMAIN n.hdr = (DOMAIN h.hdr \ ({lo} \cup N)) \cup {a}
       /\ n.hdr[a] = z - a
       /\ \A y \in DOMAIN n.hdr \ {a} : n.hdr[y] = h.hdr[y]
       /\ n.nnet = h.nnet - h.hdr[lo] /\ n.nmem = h.nmem
       /\ Topped(h, 0) => Topped(n, 0)
  <2>1. Pre(h, F, lo) = {} \/ \E p : Pre(h, F, lo) = {p}
    BY <1>16 DEF P
  <2> QED  BY <2>1, FreeSound DEF n, G, P, N, a, z
<1>20. /\ P = {} => a = lo
       /\ P # {} => P = {a} /\ a \in F /\ a < lo
       /\ a <= lo /\ a \in Nat
  <2>1. a = IF P = {} THEN lo ELSE CHOOSE p \in P : TRUE
    BY DEF a, P, From
  <2>2. P # {} => a \in P /\ P = {a}
    BY <1>16, <2>1
  <2>3. ASSUME P # {} PROVE a \in F /\ a < lo /\ a \in Nat
    <3>1. a \in F /\ a + h.hdr[a] = lo
      BY <1>9, <2>2, <2>3
    <3>2. a \in Nat /\ h.hdr[a] \in Nat /\ h.hdr[a] > 0
      BY <1>2, <3>1, SizeFacts
    <3> QED  BY <1>3, <3>1, <3>2
  <2> QED  BY <1>3, <2>1, <2>2, <2>3
<1>21. z \in Nat /\ z >= end
  <2>1. z = IF end \in F THEN end + h.hdr[end] ELSE end
    BY DEF z, To, end
  <2>2. end \in Nat
    BY <1>3 DEF end
  <2> QED  BY <1>2, <2>1, <2>2
<1>22. z - a >= h.hdr[lo]
  <2>1. end = lo + h.hdr[lo]
    BY DEF end
  <2> QED  BY <1>3, <1>20, <1>21, <2>1
<1>23. a \notin N /\ lo \notin N
  <2>1. end = lo + h.hdr[lo] /\ h.hdr[lo] > 0
    BY <1>3, SizeFacts DEF end
  <2> QED  BY <1>3, <1>13, <1>20, <2>1
<1>24. P \subseteq F /\ N \subseteq F
  BY <1>9, <1>13
<1>25. Mapped(w, n.hdr, G, H \ {lo}, r)
  BY MapFacts DEF w
<1>26. G = (F \ (P \cup N)) \cup {a}
  BY DEF G
<1>27. r.n = 0 \/ (r.lo # a /\ r.lo # lo /\ r.lo \notin F)
  BY <1>20
<1> DEFINE D == {lo} \cup P \cup N
<1>28. /\ D \subseteq DOMAIN v
       /\ DOMAIN w = (DOMAIN v \ D) \cup {a}
       /\ {a} \cap (DOMAIN v \ D) = {}
  <2>1. a \in D
    BY <1>16, <1>20
  <2>2. DOMAIN n.hdr = (DOMAIN h.hdr \ D) \cup {a}
    BY <1>19, <1>20
  <2>3. D \subseteq DOMAIN h.hdr /\ (r.n = 0 \/ r.lo \notin D)
    BY <1>2, <1>24, <1>27
  <2>4. DOMAIN w = DOMAIN n.hdr \cup (IF r.n = 0 THEN {} ELSE {r.lo})
    BY <1>25 DEF Mapped
  <2> HIDE DEF D
  <2> QED  BY <1>1, <2>1, <2>2, <2>3, <2>4
<1>29. \A y \in DOMAIN v \ D : w[y] = v[y]
  <2> SUFFICES ASSUME NEW y \in DOMAIN v, y \notin D PROVE w[y] = v[y]
    OBVIOUS
  <2>1. CASE r.n # 0 /\ y = r.lo
    <3>1. w[r.lo] = [kind |-> "used", lo |-> r.lo, size |-> r.n + 1]
      BY <1>25, <2>1 DEF Mapped
    <3> QED  BY <1>1, <2>1, <3>1
  <2>2. CASE r.n = 0 \/ y # r.lo
    <3>1. y \in DOMAIN h.hdr /\ y \in DOMAIN n.hdr /\ y # a /\ y # lo
      BY <1>1, <1>19, <1>20, <2>2
    <3>2. y \in G <=> y \in F
      BY <1>26, <3>1
    <3>3. n.hdr[y] = h.hdr[y]
      BY <1>19, <3>1
    <3>4. w[y] = [kind |-> IF y \in G THEN "free" ELSE IF y \in H \ {lo} THEN "used" ELSE "sep",
                  lo |-> y, size |-> n.hdr[y]]
      BY <1>25, <2>2, <3>1 DEF Mapped
    <3>5. v[y] = [kind |-> IF y \in F THEN "free" ELSE IF y \in H THEN "used" ELSE "sep",
                  lo |-> y, size |-> h.hdr[y]]
      BY <1>1, <2>2, <3>1
    <3>6. y \in H \ {lo} <=> y \in H
      BY <3>1
    <3> QED  BY ONLY <3>2, <3>3, <3>4, <3>5, <3>6
  <2> QED  BY <2>1, <2>2
<1>30. w[a] = M
  <2>1. a \in DOMAIN n.hdr /\ a \in G
    BY <1>19, <1>26
  <2>2. w[a] = [kind |-> IF a \in G THEN "free" ELSE IF a \in H \ {lo} THEN "used" ELSE "sep",
                lo |-> a, size |-> n.hdr[a]]
    BY <1>25, <1>27, <2>1 DEF Mapped
  <2> QED  BY <1>18, <1>19, <2>1, <2>2
<1>31. Range(w) = (Range(v) \ {v[y] : y \in D}) \cup {w[y] : y \in {a}}
  <2> DEFINE Q == {a}
  <2>1. DOMAIN w = (DOMAIN v \ D) \cup Q /\ Q \cap (DOMAIN v \ D) = {}
    BY <1>28
  <2>3. D \subseteq DOMAIN v /\ \A y \in DOMAIN v : v[y].lo = y
    BY <1>1, <1>28
  <2> HIDE DEF D, Q
  <2>4. Patched(w, v, D, Q)
    BY ONLY <1>29, <2>1, <2>3 DEF Patched
  <2>2. Range(w) = (Range(v) \ {v[y] : y \in D}) \cup {w[y] : y \in Q}
    BY <2>4, MapPatch
  <2> QED  BY <2>2 DEF Q
<1>32. Range(w) = BP!Freed(rest, x)
  <2>1. {v[y] : y \in D} = {v[lo]} \cup {v[y] : y \in P} \cup {v[y] : y \in N}
    OBVIOUS
  <2>2. {v[y] : y \in P} = B /\ {v[y] : y \in N} = A
    BY <1>10, <1>14
  <2>3. Range(w) = (rest \ (B \cup A)) \cup {M}
    BY <1>5, <1>30, <1>31, <2>1, <2>2
  <2> QED  BY <2>3 DEF BP!Freed, A, B, M
<1>33. \A y \in G \ {a} : n.hdr[y] = h.hdr[y]
  <2>1. G \subseteq DOMAIN n.hdr
    BY <1>19 DEF Sound
  <2> QED  BY <1>19, <2>1
<1>34. /\ DOMAIN h.hdr \ F \subseteq (DOMAIN n.hdr \ G) \cup {lo}
       /\ \A y \in DOMAIN n.hdr \ G : y \in DOMAIN h.hdr \ F /\ y # lo /\ n.hdr[y] = h.hdr[y]
  BY <1>19, <1>20, <1>24, <1>26
<1>35. a \in DOMAIN n.hdr /\ n.hdr[a] >= h.hdr[lo]
  BY <1>19, <1>22
<1> QED  BY <1>19, <1>32, <1>33, <1>34, <1>35 DEF n, a, G, w, P, N

\* ktaloc on the tables is Allocate on the blocks, whether the program (H) or
\* the reserve (r) gets the block.
CanTake(h, F, H, r, lo, m, H2, r2) ==
  /\ Sound(h, F) /\ (r.n = 0 \/ r.lo \notin F)
  /\ lo \in F /\ m \in Nat /\ m >= MinWords
  /\ h.hdr[lo] = m \/ h.hdr[lo] >= m + MinWords
  /\ BP!Good(Range(BlockMap(h.hdr, F, H, r)))
  /\ \/ H2 = H \cup {lo} /\ r2 = r
     \/ H2 = H /\ r.n = 0 /\ r2 = [lo |-> lo, n |-> m - 1] /\ m # 1

Taken(t, R, G, h, F, H, r, lo, m, H2, r2) ==
  /\ Sound(t, G)
  /\ t.nnet = h.nnet + m /\ t.nmem = h.nmem
  /\ \A c : /\ Topped(h, c)
            /\ c \in 1..NIndex => Range(h.list[c]) \subseteq {lo}
            => Topped(t, 0)
  /\ [kind |-> "free", lo |-> lo, size |-> h.hdr[lo]] \in Range(BlockMap(h.hdr, F, H, r))
  /\ Range(BlockMap(t.hdr, G, H2, r2)) =
       (Range(BlockMap(h.hdr, F, H, r)) \ {[kind |-> "free", lo |-> lo, size |-> h.hdr[lo]]})
         \cup {[kind |-> "used", lo |-> lo, size |-> m]}
         \cup {[kind |-> "free", lo |-> y, size |-> h.hdr[lo] - m] : y \in R}
  /\ lo \notin G /\ DOMAIN t.hdr = DOMAIN h.hdr \cup R
  /\ R \cap DOMAIN h.hdr = {} /\ (r.n = 0 \/ r.lo \notin R)

LEMMA TakeMap ==
  ASSUME NEW h, NEW F, NEW H, NEW r, NEW lo, NEW m, NEW H2, NEW r2,
         CanTake(h, F, H, r, lo, m, H2, r2)
  PROVE  Taken(Take(h, lo, m), Rest(h, lo, m), (F \ {lo}) \cup Rest(h, lo, m),
               h, F, H, r, lo, m, H2, r2)
<1> SUFFICES ASSUME Sound(h, F), r.n = 0 \/ r.lo \notin F,
                    lo \in F, m \in Nat, m >= MinWords,
                    h.hdr[lo] = m \/ h.hdr[lo] >= m + MinWords,
                    BP!Good(Range(BlockMap(h.hdr, F, H, r))),
                    \/ H2 = H \cup {lo} /\ r2 = r
                    \/ H2 = H /\ r.n = 0 /\ r2 = [lo |-> lo, n |-> m - 1] /\ m # 1
             PROVE  Taken(Take(h, lo, m), Rest(h, lo, m), (F \ {lo}) \cup Rest(h, lo, m),
                          h, F, H, r, lo, m, H2, r2)
  BY Zenon DEF CanTake
<1> DEFINE v == BlockMap(h.hdr, F, H, r)
           t == Take(h, lo, m)
           R == Rest(h, lo, m)
           G == (F \ {lo}) \cup R
           w == BlockMap(t.hdr, G, H2, r2)
           s == h.hdr[lo]
<1>0. Mapped(v, h.hdr, F, H, r) /\ Mapped(w, t.hdr, G, H2, r2)
  BY MapFacts
<1>00. BP!Good(Range(v))
  OBVIOUS
<1> HIDE DEF v, t, R, G, w
<1>1. /\ DOMAIN v = DOMAIN h.hdr \cup (IF r.n = 0 THEN {} ELSE {r.lo})
      /\ \A y \in DOMAIN v : v[y].lo = y
      /\ r.n # 0 => v[r.lo] = [kind |-> "used", lo |-> r.lo, size |-> r.n + 1]
      /\ \A y \in DOMAIN h.hdr : r.n = 0 \/ y # r.lo =>
           v[y] = [kind |-> IF y \in F THEN "free" ELSE IF y \in H THEN "used" ELSE "sep",
                   lo |-> y, size |-> h.hdr[y]]
  BY <1>0 DEF Mapped
<1>2. \A y \in F : y \in DOMAIN h.hdr /\ y \in Nat /\ h.hdr[y] \in Nat
  BY FreeFacts
<1>3. /\ \A y \in DOMAIN v : y \in Nat /\ v[y].size \in Nat /\ v[y].size >= MinWords
      /\ \A x, y \in DOMAIN v : x # y => x + v[x].size <= y \/ y + v[y].size <= x
      /\ \A x, y \in DOMAIN v :
           v[x].kind = "free" /\ v[y].kind = "free" => x + v[x].size # y
  BY <1>00, <1>1, MapGood
<1>4. \A y \in F : /\ y \in DOMAIN v /\ v[y] = [kind |-> "free", lo |-> y, size |-> h.hdr[y]]
                   /\ v[y].kind = "free" /\ v[y].size = h.hdr[y]
  BY <1>1, <1>2
<1>5. R = IF s = m THEN {} ELSE {lo + m}
  BY DEF R, Rest
<1>6. s \in Nat /\ lo \in Nat /\ lo \in DOMAIN v /\ v[lo].size = s /\ v[lo].kind = "free"
  BY <1>2, <1>4
<1> HIDE DEF s
<1>7. s = m \/ s >= m + MinWords
  BY DEF s
<1>8. ASSUME s # m PROVE lo + m \notin DOMAIN v
  <2> SUFFICES ASSUME lo + m \in DOMAIN v PROVE FALSE
    OBVIOUS
  <2> DEFINE y == lo + m
  <2>1. y \in DOMAIN v /\ y = lo + m
    OBVIOUS
  <2> HIDE DEF y
  <2>2. lo + s <= y \/ y + v[y].size <= lo
    BY <1>3, <1>6, <2>1, SizeFacts
  <2>3. v[y].size \in Nat
    BY <1>3, <2>1
  <2> QED  BY <1>6, <1>7, <1>8, <2>1, <2>2, <2>3, SizeFacts
<1>9. lo + m \notin F
  <2>1. ASSUME s = m, lo + m \in F PROVE FALSE
    <3> DEFINE y == lo + m
    <3>1. y \in F /\ y = lo + s
      BY <2>1
    <3> HIDE DEF y
    <3>2. y \in DOMAIN v /\ v[y].kind = "free"
      BY <1>4, <3>1
    <3> QED  BY <1>3, <1>6, <3>1, <3>2
  <2>2. ASSUME s # m, lo + m \in F PROVE FALSE
    BY <1>4, <1>8, <2>2
  <2> QED  BY <2>1, <2>2
<1>10. /\ Sound(t, G)
       /\ DOMAIN t.hdr = DOMAIN h.hdr \cup R
       /\ t.hdr[lo] = m
       /\ \A x \in R : t.hdr[x] = s - m
       /\ \A x \in DOMAIN h.hdr \ ({lo} \cup R) : t.hdr[x] = h.hdr[x]
       /\ t.nnet = h.nnet + m /\ t.nmem = h.nmem
       /\ \A c : /\ Topped(h, c)
                 /\ c \in 1..NIndex => Range(h.list[c]) \subseteq {lo}
                 => Topped(t, 0)
  BY <1>9, TakeSound DEF t, G, R, s
<1>11. R \cap DOMAIN v = {} /\ lo \notin R
  BY <1>5, <1>6, <1>8
<1>12. /\ R \cap DOMAIN h.hdr = {} /\ (r.n = 0 \/ r.lo \notin R)
       /\ lo \in DOMAIN h.hdr /\ (r.n = 0 \/ r.lo # lo)
  BY <1>1, <1>2, <1>11
<1>13. lo \notin G
  BY <1>11 DEF G
<1>14. \/ r2.n = r.n /\ r2.lo = r.lo /\ H2 = H \cup {lo}
       \/ r.n = 0 /\ r2.n # 0 /\ r2.lo = lo /\ H2 = H /\ r2.n + 1 = m
  <2>1. CASE H2 = H \cup {lo} /\ r2 = r
    BY <2>1
  <2>2. CASE H2 = H /\ r.n = 0 /\ r2 = [lo |-> lo, n |-> m - 1] /\ m # 1
    <3>1. r2.n = m - 1 /\ r2.lo = lo
      BY <2>2
    <3>2. m - 1 # 0 /\ (m - 1) + 1 = m
      BY <2>2
    <3> QED  BY <2>2, <3>1, <3>2
  <2> QED  BY <2>1, <2>2
<1>15. DOMAIN w = (DOMAIN v \ {lo}) \cup ({lo} \cup R)
  <2>1. DOMAIN w = DOMAIN t.hdr \cup (IF r2.n = 0 THEN {} ELSE {r2.lo})
    BY <1>0 DEF Mapped
  <2> QED  BY <1>1, <1>10, <1>12, <1>14, <2>1
<1>16. \A y \in DOMAIN v \ {lo} : w[y] = v[y]
  <2> SUFFICES ASSUME NEW y \in DOMAIN v, y # lo PROVE w[y] = v[y]
    OBVIOUS
  <2>1. CASE r.n # 0 /\ y = r.lo
    <3>1. r2.n # 0 /\ r2.lo = y /\ r2.n = r.n
      BY <1>14, <2>1
    <3>2. w[y] = [kind |-> "used", lo |-> y, size |-> r.n + 1]
      BY <1>0, <3>1 DEF Mapped
    <3> QED  BY <1>1, <2>1, <3>2
  <2>2. CASE r.n = 0 \/ y # r.lo
    <3>1. y \in DOMAIN h.hdr /\ y \in DOMAIN t.hdr /\ y \notin R /\ (r2.n = 0 \/ y # r2.lo)
      BY <1>1, <1>10, <1>11, <1>14, <2>2
    <3>2. (y \in G <=> y \in F) /\ (y \in H2 <=> y \in H)
      BY <1>14, <3>1 DEF G
    <3>3. t.hdr[y] = h.hdr[y]
      BY <1>10, <3>1
    <3>4. w[y] = [kind |-> IF y \in G THEN "free" ELSE IF y \in H2 THEN "used" ELSE "sep",
                  lo |-> y, size |-> t.hdr[y]]
      BY <1>0, <3>1 DEF Mapped
    <3>5. v[y] = [kind |-> IF y \in F THEN "free" ELSE IF y \in H THEN "used" ELSE "sep",
                  lo |-> y, size |-> h.hdr[y]]
      BY <1>1, <2>2, <3>1
    <3> QED  BY ONLY <3>2, <3>3, <3>4, <3>5
  <2> QED  BY <2>1, <2>2
<1>17. w[lo] = [kind |-> "used", lo |-> lo, size |-> m]
  <2>1. CASE r2.n # 0 /\ r2.lo = lo
    <3>1. r2.n + 1 = m
      BY <1>12, <1>14, <2>1
    <3> QED  BY <1>0, <2>1, <3>1 DEF Mapped
  <2>2. CASE r2.n = 0 \/ r2.lo # lo
    <3>1. lo \in H2 /\ lo \in DOMAIN t.hdr
      BY <1>10, <1>12, <1>14, <2>2
    <3>2. w[lo] = [kind |-> IF lo \in G THEN "free" ELSE IF lo \in H2 THEN "used" ELSE "sep",
                   lo |-> lo, size |-> t.hdr[lo]]
      BY <1>0, <2>2, <3>1 DEF Mapped
    <3> QED  BY <1>10, <1>13, <3>1, <3>2
  <2> QED  BY <2>1, <2>2
<1>18. \A y \in R : w[y] = [kind |-> "free", lo |-> y, size |-> s - m]
  <2> SUFFICES ASSUME NEW y \in R PROVE w[y] = [kind |-> "free", lo |-> y, size |-> s - m]
    OBVIOUS
  <2>1. y \in DOMAIN t.hdr /\ y \in G /\ (r2.n = 0 \/ y # r2.lo) /\ t.hdr[y] = s - m
    BY <1>10, <1>11, <1>12, <1>14 DEF G
  <2>2. w[y] = [kind |-> IF y \in G THEN "free" ELSE IF y \in H2 THEN "used" ELSE "sep",
                lo |-> y, size |-> t.hdr[y]]
    BY <1>0, <2>1 DEF Mapped
  <2> QED  BY <2>1, <2>2
<1>19. Range(w) = (Range(v) \ {v[y] : y \in {lo}}) \cup {w[y] : y \in {lo} \cup R}
  <2> DEFINE D == {lo}
             A == {lo} \cup R
  <2>1. D \subseteq DOMAIN v /\ DOMAIN w = (DOMAIN v \ D) \cup A
        /\ A \cap (DOMAIN v \ D) = {}
    BY <1>6, <1>11, <1>15
  <2>2. (\A y \in DOMAIN v : v[y].lo = y) /\ \A y \in DOMAIN v \ D : w[y] = v[y]
    BY <1>1, <1>16
  <2> HIDE DEF D, A
  <2>4. Patched(w, v, D, A)
    BY ONLY <2>1, <2>2 DEF Patched
  <2>3. Range(w) = (Range(v) \ {v[y] : y \in D}) \cup {w[y] : y \in A}
    BY <2>4, MapPatch
  <2> QED  BY <2>3 DEF D, A
<1>20. {v[y] : y \in {lo}} = {[kind |-> "free", lo |-> lo, size |-> s]}
  <2>1. {v[y] : y \in {lo}} = {v[lo]}
    OBVIOUS
  <2>2. v[lo] = [kind |-> "free", lo |-> lo, size |-> s]
    BY <1>4 DEF s
  <2> QED  BY <2>1, <2>2
<1>21. {w[y] : y \in {lo} \cup R} =
         {[kind |-> "used", lo |-> lo, size |-> m]}
           \cup {[kind |-> "free", lo |-> y, size |-> s - m] : y \in R}
  <2>1. {w[y] : y \in {lo} \cup R} = {w[lo]} \cup {w[y] : y \in R}
    OBVIOUS
  <2>2. {w[y] : y \in R} = {[kind |-> "free", lo |-> y, size |-> s - m] : y \in R}
    BY <1>18
  <2> QED  BY <1>17, <2>1, <2>2
<1>22. [kind |-> "free", lo |-> lo, size |-> s] \in Range(v)
  BY <1>4, <1>1, MapRangeFacts DEF s
<1> QED  BY <1>10, <1>12, <1>13, <1>19, <1>20, <1>21, <1>22 DEF Taken, t, R, G, w, v, s

-----------------------------------------------------------------------------
(* Counting words.                                                         *)

\* A set with m words in a row that it did not have.
LEMMA AddWords ==
  ASSUME NEW S, IsFiniteSet(S), NEW lo \in Nat, NEW m \in Nat,
         (lo .. (lo + m - 1)) \cap S = {}
  PROVE  LET T == S \cup (lo .. (lo + m - 1))
         IN  IsFiniteSet(T) /\ Cardinality(T) = Cardinality(S) + m
<1> DEFINE I == lo .. (lo + m - 1)
<1>1. lo \in Int /\ lo + m - 1 \in Int
  OBVIOUS
<1>2. IsFiniteSet(I) /\ Cardinality(I) = m
  <2> DEFINE e == lo + m - 1
  <2>1. e \in Int /\ e - lo + 1 = m /\ (lo > e => m = 0) /\ lo \in Int
    OBVIOUS
  <2>2. I = lo..e
    OBVIOUS
  <2> HIDE DEF e, I
  <2>3. IsFiniteSet(lo..e) /\ Cardinality(lo..e) = IF lo > e THEN 0 ELSE e - lo + 1
    BY <2>1, FS_Interval
  <2> QED  BY <2>1, <2>2, <2>3
<1> HIDE DEF I
<1>3. I \cap S = {}
  BY DEF I
<1>4. /\ IsFiniteSet(S \cup I)
      /\ Cardinality(S \cup I) = Cardinality(S) + Cardinality(I) - Cardinality(S \cap I)
  BY <1>2, FS_Union
<1>5. S \cap I = {} /\ Cardinality({}) = 0
  BY <1>3, FS_EmptySet
<1>6. Cardinality(S) \in Nat
  BY FS_CardinalityType
<1>7. Cardinality(S \cup I) = Cardinality(S) + m - 0
  BY ONLY <1>2, <1>4, <1>5
<1>8. IsFiniteSet(S \cup I) /\ Cardinality(S \cup I) = Cardinality(S) + m
  BY ONLY <1>4, <1>6, <1>7, m \in Nat
<1> QED  BY <1>8 DEF I

\* The same for an interval given by a name.
Row(I, S, m) == /\ m \in Nat /\ I \cap S = {}
               /\ \E lo \in Nat : I = lo .. (lo + m - 1)

LEMMA AddRow ==
  ASSUME NEW S, IsFiniteSet(S), NEW I, NEW m, Row(I, S, m)
  PROVE  IsFiniteSet(S \cup I) /\ Cardinality(S \cup I) = Cardinality(S) + m
<1>1. PICK lo \in Nat : I = lo .. (lo + m - 1)
  BY DEF Row
<1>2. m \in Nat /\ (lo .. (lo + m - 1)) \cap S = {}
  BY <1>1 DEF Row
<1>3. LET T == S \cup (lo .. (lo + m - 1))
      IN  IsFiniteSet(T) /\ Cardinality(T) = Cardinality(S) + m
  BY <1>2, AddWords
<1> QED  BY <1>1, <1>3

\* What is in a free block.
LEMMA CoverFree ==
  ASSUME NEW bs, NEW w
  PROVE  w \in FreeCover(bs)
           <=> \E c \in bs : c.kind = "free" /\ w \in c.lo .. (c.lo + c.size - 1)
BY DEF FreeCover

\* Only free blocks count.
LEMMA CoverSame ==
  ASSUME NEW bs, NEW cs, \A c \in bs \cup cs : c.kind = "free" => (c \in bs <=> c \in cs)
  PROVE  FreeCover(bs) = FreeCover(cs)
<1>1. {c \in bs : c.kind = "free"} = {c \in cs : c.kind = "free"}
  OBVIOUS
<1> QED  BY <1>1 DEF FreeCover

\* The words taken from a free block are no longer free, and no others change.
LEMMA CoverTake ==
  ASSUME NEW bs, BP!Good(bs), NEW b \in bs, b.kind = "free", NEW m \in Nat, m <= b.size,
         NEW u, u.kind = "used", NEW rs,
         \A y : y \in rs <=> /\ y = [kind |-> "free", lo |-> b.lo + m, size |-> b.size - m]
                             /\ b.size # m
  PROVE  /\ FreeCover((bs \ {b}) \cup {u} \cup rs)
              = FreeCover(bs) \ (b.lo .. (b.lo + m - 1))
         /\ (b.lo .. (b.lo + m - 1)) \subseteq FreeCover(bs)
<1> DEFINE I == b.lo .. (b.lo + m - 1)
           new == (bs \ {b}) \cup {u} \cup rs
           r == [kind |-> "free", lo |-> b.lo + m, size |-> b.size - m]
<1>1. \A c \in bs : c.lo \in Nat /\ c.size \in Nat /\ BP!End(c) = c.lo + c.size
  BY DEF BP!Good, BP!Block, BP!End
<1>2. \A c \in bs : c # b => c.lo + c.size <= b.lo \/ b.lo + b.size <= c.lo
  BY <1>1 DEF BP!Good, BP!Disjoint, BP!Apart
<1>3. ASSUME NEW w \in FreeCover(bs), w \notin I PROVE w \in FreeCover(new)
  <2>1. PICK c \in bs : c.kind = "free" /\ w \in c.lo .. (c.lo + c.size - 1)
    BY CoverFree
  <2>2. CASE c # b
    <3>1. c \in new
      BY <2>2
    <3> HIDE DEF new
    <3> QED  BY <2>1, <3>1, CoverFree
  <2>3. CASE c = b
    <3>1. b.size # m /\ w \in (b.lo + m) .. (b.lo + m + (b.size - m) - 1)
      BY <1>1, <1>3, <2>1, <2>3
    <3>2. r \in new
      BY <3>1
    <3>3. r.kind = "free" /\ r.lo = b.lo + m /\ r.size = b.size - m
      OBVIOUS
    <3> HIDE DEF new, r
    <3> QED  BY <3>1, <3>2, <3>3, CoverFree
  <2> QED  BY <2>2, <2>3
<1>4. ASSUME NEW w \in FreeCover(new) PROVE w \in FreeCover(bs) /\ w \notin I
  <2> HIDE DEF new
  <2>1. PICK c \in new : c.kind = "free" /\ w \in c.lo .. (c.lo + c.size - 1)
    BY CoverFree
  <2>2. CASE c \in bs \ {b}
    <3>1. w \notin I
      BY <1>1, <1>2, <2>1, <2>2
    <3>2. w \in FreeCover(bs)
      BY <2>1, <2>2, CoverFree
    <3> QED  BY <3>1, <3>2
  <2>3. CASE c \in rs
    <3>1. c = r /\ b.size # m
      BY <2>3
    <3>2. c.lo = b.lo + m /\ c.size = b.size - m
      BY <3>1
    <3>3. w \in b.lo .. (b.lo + b.size - 1) /\ w \notin I
      BY <1>1, <2>1, <3>2
    <3>4. w \in FreeCover(bs)
      BY <3>3, CoverFree
    <3> QED  BY <3>3, <3>4
  <2>4. c # u
    BY <2>1
  <2> QED  BY <2>1, <2>2, <2>3, <2>4 DEF new
<1>5. I \subseteq FreeCover(bs)
  <2> SUFFICES ASSUME NEW w \in I PROVE w \in FreeCover(bs)
    OBVIOUS
  <2>1. w \in b.lo .. (b.lo + b.size - 1)
    BY <1>1
  <2> QED  BY <2>1, CoverFree
<1> HIDE DEF new, I
<1>6. FreeCover(new) = FreeCover(bs) \ I
  BY <1>3, <1>4
<1> QED  BY <1>5, <1>6 DEF new, I

\* What is freed becomes free, and nothing else changes.
LEMMA CoverFreed ==
  ASSUME NEW bs, bs \subseteq BP!Block, BP!Disjoint(bs),
         NEW x \in BP!Block, \A c \in bs : BP!Apart(x, c)
  PROVE  /\ FreeCover(BP!Freed(bs, x)) = FreeCover(bs) \cup (x.lo .. (x.lo + x.size - 1))
         /\ FreeCover(bs) \cap (x.lo .. (x.lo + x.size - 1)) = {}
<1> DEFINE I == x.lo .. (x.lo + x.size - 1)
           B == BP!Before(bs, x)
           A == BP!After(bs, x)
           l == BP!Start(bs, x)
           h == BP!Finish(bs, x)
           M == BP!Merged(bs, x)
           new == BP!Freed(bs, x)
<1>1. \A c \in bs \cup {x} : c.lo \in Nat /\ c.size \in Nat /\ BP!End(c) = c.lo + c.size
  BY DEF BP!Block, BP!End
<1>2. \A c \in bs : c.lo + c.size <= x.lo \/ x.lo + x.size <= c.lo
  BY <1>1 DEF BP!Apart
<1>3. /\ \/ B = {} /\ l = x.lo
         \/ \E f \in bs : B = {f} /\ l = f.lo
      /\ \/ A = {} /\ h = BP!End(x)
         \/ \E f \in bs : A = {f} /\ h = BP!End(f)
  BY MergedHere
<1>4. \A f \in B : f \in bs /\ f.kind = "free" /\ f.lo + f.size = x.lo
  BY <1>1 DEF BP!Before
<1>5. \A f \in A : f \in bs /\ f.kind = "free" /\ f.lo = x.lo + x.size
  BY <1>1 DEF BP!After
<1>6. M.kind = "free" /\ M.lo = l /\ M.size = h - l /\ new = (bs \ (B \cup A)) \cup {M}
  BY DEF BP!Merged, BP!Freed
<1> HIDE DEF B, A, l, h, M, new
<1>7. \/ B = {} /\ l = x.lo
      \/ \E f \in bs : B = {f} /\ f.kind = "free" /\ l = f.lo /\ f.lo + f.size = x.lo
  BY <1>3, <1>4
<1>8. \/ A = {} /\ h = x.lo + x.size
      \/ \E f \in bs : /\ A = {f} /\ f.kind = "free" /\ f.lo = x.lo + x.size
                       /\ h = f.lo + f.size
  BY <1>1, <1>3, <1>5
<1>9. l \in Nat /\ h \in Nat /\ l <= x.lo /\ h >= x.lo + x.size
  BY <1>1, <1>7, <1>8
<1>10. M.lo .. (M.lo + M.size - 1) = l .. (h - 1)
  <2>1. M.lo + M.size - 1 = h - 1
    BY <1>6, <1>9
  <2> QED  BY <1>6, <2>1
<1>11. ASSUME NEW w \in FreeCover(bs) PROVE w \in FreeCover(new)
  <2>1. PICK c \in bs : c.kind = "free" /\ w \in c.lo .. (c.lo + c.size - 1)
    BY CoverFree
  <2>2. CASE c \notin B \cup A
    <3>1. c \in new
      BY <1>6, <2>2
    <3> QED  BY <2>1, <3>1, CoverFree
  <2>3. CASE c \in B \cup A
    <3>1. w \in l .. (h - 1)
      BY <1>1, <1>7, <1>8, <1>9, <2>1, <2>3
    <3>2. w \in M.lo .. (M.lo + M.size - 1) /\ M \in new
      BY <1>6, <1>10, <3>1
    <3> QED  BY <1>6, <3>2, CoverFree
  <2> QED  BY <2>2, <2>3
<1>12. ASSUME NEW w \in I PROVE w \in FreeCover(new)
  <2>1. w \in l .. (h - 1)
    BY <1>1, <1>9
  <2>2. w \in M.lo .. (M.lo + M.size - 1) /\ M \in new
    BY <1>6, <1>10, <2>1
  <2> QED  BY <1>6, <2>2, CoverFree
<1>13. ASSUME NEW w \in FreeCover(new), w \notin I PROVE w \in FreeCover(bs)
  <2>1. PICK c \in new : c.kind = "free" /\ w \in c.lo .. (c.lo + c.size - 1)
    BY CoverFree
  <2>2. CASE c \in bs
    BY <2>1, <2>2, CoverFree
  <2>3. CASE c = M
    <3>1. w \in l .. (h - 1)
      BY <1>10, <2>1, <2>3
    <3>2. CASE w < x.lo
      <4>1. PICK f \in bs : f.kind = "free" /\ l = f.lo /\ f.lo + f.size = x.lo
        BY <1>1, <1>7, <1>9, <3>1, <3>2
      <4>2. w \in f.lo .. (f.lo + f.size - 1)
        BY <1>1, <3>1, <3>2, <4>1
      <4> QED  BY <4>1, <4>2, CoverFree
    <3>3. CASE w >= x.lo + x.size
      <4>1. PICK f \in bs : f.kind = "free" /\ f.lo = x.lo + x.size /\ h = f.lo + f.size
        BY <1>1, <1>8, <1>9, <3>1, <3>3
      <4>2. w \in f.lo .. (f.lo + f.size - 1)
        BY <1>1, <3>1, <3>3, <4>1
      <4> QED  BY <4>1, <4>2, CoverFree
    <3> QED  BY <1>1, <1>9, <1>13, <3>1, <3>2, <3>3
  <2> QED  BY <1>6, <2>1, <2>2, <2>3
<1>14. \A w \in I : w \notin FreeCover(bs)
  <2> SUFFICES ASSUME NEW w \in I, w \in FreeCover(bs) PROVE FALSE
    OBVIOUS
  <2>1. PICK c \in bs : c.kind = "free" /\ w \in c.lo .. (c.lo + c.size - 1)
    BY CoverFree
  <2> QED  BY <1>1, <1>2, <2>1
<1> HIDE DEF I
<1>15. FreeCover(new) = FreeCover(bs) \cup I /\ FreeCover(bs) \cap I = {}
  BY <1>11, <1>12, <1>13, <1>14
<1> QED  BY <1>15 DEF new, I

-----------------------------------------------------------------------------
(* The state and the steps.                                                *)

\* The lists hold the free blocks.
LEMMA ListedAre ==
  ASSUME NEW h, NEW F, Sound(h, F)
  PROVE  UNION {Range(h.list[m]) : m \in 1..Big} = F
<1>1. \A m \in 1..Big : \A x : x \in Range(h.list[m]) <=> x \in F /\ ListOf(h.hdr[x]) = m
  BY ListFacts
<1>2. \A x \in F : ListOf(h.hdr[x]) \in 1..Big
  BY ListedFacts
<1> QED  BY <1>1, <1>2

LEMMA FreeBlocksAre ==
  ASSUME NEW F, Sound(heap', F)
  PROVE  FreeBlocks' = F
<1>1. UNION {Range(heap'.list[m]) : m \in 1..Big} = F
  BY ListedAre
<1> QED  BY <1>1 DEF FreeBlocks

\* The blocks of a state.
Map == BlockMap(heap.hdr, FreeBlocks, held, resv)

LEMMA StateFacts ==
  ASSUME HInv
  PROVE  /\ Sound(heap, FreeBlocks) /\ Topped(heap, 0)
         /\ Blocks = Range(Map) /\ BP!Good(Blocks)
         /\ memory \subseteq Nat /\ memory = BP!Cover(Blocks)
         /\ resv.n = 0 \/ resv.lo \notin FreeBlocks
<1>1. BP!Good(Blocks) /\ memory \subseteq Nat /\ memory = BP!Cover(Blocks)
  BY SizesAreNat, BP!InvIsGood DEF HInv
<1>2. Blocks = Range(Map)
  BY BlocksAre DEF Map
<1>3. resv.n = 0 \/ resv.lo \notin FreeBlocks
  BY DEF HInv, Tables, Owned, NoResv
<1> QED  BY <1>1, <1>2, <1>3 DEF HInv, Tables

\* What a call that is not over asks for.
LEMMA CallFacts ==
  ASSUME Caller, call.at # "none"
  PROVE  /\ call.m \in Nat /\ call.m >= MinWords
         /\ call.m \in Sizes /\ ChunkWords(call.m) \in Chunks
         /\ \/ /\ call.op = "ktaloc" /\ call.n \in Requests
               /\ call.at \in {"small", "big", "grow"}
            \/ /\ call.op = "ktalocr" /\ call.m = NResv + 1
               /\ call.n \in Requests /\ call.n >= MinWords - 1
               /\ call.n <= NResv - (MinWords + 1)
               /\ call.at \in {"resv", "small", "big", "grow"}
               /\ call.at # "resv" => resv = NoResv
         /\ call = [op |-> call.op, n |-> call.n, m |-> call.m, at |-> call.at]
<1>1. call # Idle /\ call # Crashed
  <2>1. Idle.at = "none" /\ Crashed.at = "none"
    BY DEF Idle, Crashed
  <2> QED  BY <2>1
<1>2. ASSUME NEW n \in Requests \cup {NResv}
      PROVE  /\ Words(n) \in Nat /\ Words(n) >= MinWords
             /\ Words(n) \in Sizes /\ ChunkWords(Words(n)) \in Chunks
  <2>1. n \in Nat /\ MinWords \in Nat /\ MinWords > 0
    BY SizeFacts
  <2>2. Max({n, MinWords - 1}) = IF n >= MinWords - 1 THEN n ELSE MinWords - 1
    BY <2>1, MaxPair
  <2>3. Words(n) \in Nat /\ Words(n) >= MinWords
    BY <2>1, <2>2 DEF Words
  <2>4. Words(n) \in Sizes
    BY DEF Words, Sizes
  <2>5. ChunkWords(Words(n)) \in Chunks
    BY DEF Words, Chunks
  <2> QED  BY <2>3, <2>4, <2>5
<1>3. Words(NResv) = NResv + 1
  <2>1. Max({NResv, MinWords - 1}) = IF NResv >= MinWords - 1 THEN NResv ELSE MinWords - 1
    BY SizeFacts, MaxPair
  <2> QED  BY <2>1, SizeFacts DEF Words
<1>4. CASE /\ call.n \in Requests /\ call.at \in {"small", "big", "grow"}
           /\ call = [op |-> "ktaloc", n |-> call.n, m |-> Words(call.n), at |-> call.at]
  <2>1. call.op = "ktaloc" /\ call.m = Words(call.n)
    BY <1>4
  <2> QED  BY <1>2, <1>4, <2>1
<1>5. CASE /\ call.n \in Requests /\ call.at \in {"resv", "small", "big", "grow"}
           /\ call.n >= MinWords - 1 /\ call.n <= NResv - (MinWords + 1)
           /\ call = [op |-> "ktalocr", n |-> call.n, m |-> NResv + 1, at |-> call.at]
           /\ call.at # "resv" => resv = NoResv
  <2>1. call.op = "ktalocr" /\ call.m = NResv + 1
    BY <1>5
  <2> QED  BY <1>2, <1>3, <1>5, <2>1
<1> QED  BY <1>1, <1>4, <1>5 DEF Caller

\* Free words are words of the memory.
LEMMA CoverInMemory ==
  ASSUME NEW bs, bs \subseteq BP!Block
  PROVE  FreeCover(bs) \subseteq BP!Cover(bs)
<1> SUFFICES ASSUME NEW w \in FreeCover(bs) PROVE w \in BP!Cover(bs)
  OBVIOUS
<1>1. PICK c \in bs : w \in c.lo .. (c.lo + c.size - 1)
  BY CoverFree
<1>2. c.lo \in Nat /\ c.size \in Nat
  BY DEF BP!Block
<1>3. w \in BP!Words(c)
  BY <1>1, <1>2 DEF BP!Words, BP!End
<1> QED  BY <1>3 DEF BP!Cover

\* Separators stay separators while the blocks of their kind stay.
LEMMA SepsKept ==
  ASSUME Seps, sep' = sep, \A b \in Blocks : b.kind = "sep" => b \in Blocks'
  PROVE  Seps'
BY DEF Seps

\* A step that changes no table of blocks leaves the blocks alone.
LEMMA BlocksKept ==
  ASSUME heap'.hdr = heap.hdr, heap'.list = heap.list, held' = held, resv' = resv
  PROVE  Blocks' = Blocks /\ FreeBlocks' = FreeBlocks
<1>1. FreeBlocks' = FreeBlocks
  BY DEF FreeBlocks
<1> QED  BY <1>1, BlocksAre

\* ktaloc takes the free block at lo, whichever list it found it in: h are the
\* tables, with maxic lowered below list c if the search found lists above c
\* empty.
LEMMA DoneStep ==
  ASSUME HInv, NEW h, Sound(h, FreeBlocks),
         h.hdr = heap.hdr, h.nnet = heap.nnet, h.nmem = heap.nmem,
         NEW lo \in FreeBlocks, Done(h, lo), call.at \in {"small", "big"},
         heap.hdr[lo] = call.m \/ heap.hdr[lo] >= call.m + MinWords,
         NEW c, Topped(h, c), c \in 1..NIndex => Range(h.list[c]) \subseteq {lo}
  PROVE  Tables' /\ BP!Allocate(call.m)
<1> DEFINE F == FreeBlocks
           m == call.m
           s == heap.hdr[lo]
           t == Take(h, lo, m)
           R == Rest(h, lo, m)
           G == (F \ {lo}) \cup R
           b == [kind |-> "free", lo |-> lo, size |-> s]
           u == [kind |-> "used", lo |-> lo, size |-> m]
           rs == {[kind |-> "free", lo |-> y, size |-> s - m] : y \in R}
<1>1. /\ Sound(heap, F) /\ Topped(heap, 0)
      /\ Blocks = Range(Map) /\ BP!Good(Blocks)
      /\ memory \subseteq Nat /\ memory = BP!Cover(Blocks)
      /\ resv.n = 0 \/ resv.lo \notin F
  BY StateFacts
<1>2. Owned /\ Seps /\ Counted /\ Caller
  BY DEF HInv, Tables
<1>3. /\ m \in Nat /\ m >= MinWords /\ m \in Sizes
      /\ \/ call.op = "ktaloc"
         \/ call.op = "ktalocr" /\ m = NResv + 1 /\ resv = NoResv
            /\ call.n \in Requests /\ call.n >= MinWords - 1
            /\ call.n <= NResv - (MinWords + 1)
      /\ call = [op |-> call.op, n |-> call.n, m |-> m, at |-> call.at]
  <2>1. call.at # "none" /\ call.at # "resv"
    OBVIOUS
  <2> QED  BY <1>2, <2>1, CallFacts
<1>4. /\ heap' = t /\ memory' = memory /\ sep' = sep
      /\ \/ /\ call.op = "ktaloc" /\ held' = held \cup {lo} /\ resv' = resv /\ call' = Idle
         \/ /\ call.op # "ktaloc" /\ resv' = [lo |-> lo, n |-> NResv] /\ held' = held
            /\ call' = [call EXCEPT !.at = "resv"]
  BY DEF Done
<1>5. lo \in DOMAIN heap.hdr /\ lo \in Nat /\ s \in Nat /\ s >= MinWords /\ (s = m \/ s >= m + MinWords)
  <2>1. lo \in DOMAIN heap.hdr /\ lo \in Nat /\ heap.hdr[lo] \in Nat /\ heap.hdr[lo] >= MinWords
    BY <1>1, FreeFacts
  <2> QED  BY <2>1
<1>6. \/ held' = held \cup {lo} /\ resv' = resv
      \/ held' = held /\ resv.n = 0 /\ resv' = [lo |-> lo, n |-> m - 1] /\ m # 1
  <2>1. CASE call.op = "ktaloc"
    BY <1>4, <2>1
  <2>2. CASE call.op # "ktaloc"
    <3>1. m = NResv + 1 /\ NResv = m - 1 /\ m # 1 /\ resv = NoResv
      BY <1>3, <2>2, SizeFacts
    <3> QED  BY <1>4, <2>2, <3>1 DEF NoResv
  <2> QED  BY <2>1, <2>2
<1>7. BP!Good(Range(BlockMap(h.hdr, F, held, resv))) /\ Blocks = Range(BlockMap(h.hdr, F, held, resv))
  BY <1>1 DEF Map
<1>8. h.hdr[lo] = s
  OBVIOUS
<1> HIDE DEF F, m, s, t, R, G, b, u, rs
<1>9. /\ Sound(t, G) /\ Topped(t, 0)
      /\ t.nnet = h.nnet + m /\ t.nmem = h.nmem
      /\ b \in Blocks
      /\ Range(BlockMap(t.hdr, G, held', resv')) = (Blocks \ {b}) \cup {u} \cup rs
      /\ lo \notin G /\ DOMAIN t.hdr = DOMAIN h.hdr \cup R
      /\ R \cap DOMAIN h.hdr = {} /\ (resv.n = 0 \/ resv.lo \notin R)
  <2> DEFINE H == held
             H2 == held'
             r == resv
             r2 == resv'
             bs == Range(BlockMap(h.hdr, F, H, r))
  <2>1. CanTake(h, F, H, r, lo, m, H2, r2)
    <3>1. BP!Good(bs) /\ bs = Blocks
      BY <1>7
    <3>2. /\ Sound(h, F) /\ (r.n = 0 \/ r.lo \notin F) /\ lo \in F
          /\ m \in Nat /\ m >= MinWords /\ (h.hdr[lo] = m \/ h.hdr[lo] >= m + MinWords)
      BY <1>1, <1>3, <1>5, <1>8 DEF F
    <3>3. \/ H2 = H \cup {lo} /\ r2 = r
          \/ H2 = H /\ r.n = 0 /\ r2 = [lo |-> lo, n |-> m - 1] /\ m # 1
      BY <1>6
    <3> HIDE DEF H, H2, r, r2
    <3> QED  BY <3>1, <3>2, <3>3 DEF CanTake
  <2> HIDE DEF H, H2, r, r2
  <2>2. Taken(t, R, G, h, F, H, r, lo, m, H2, r2)
    BY <2>1, TakeMap DEF t, R, G
  <2>3. Topped(t, 0)
    BY <2>2 DEF Taken
  <2>4. bs = Blocks
    BY <1>7 DEF H, r
  <2> QED  BY <1>8, <2>2, <2>3, <2>4 DEF Taken, b, u, rs, H, H2, r, r2
<1>10. FreeBlocks' = G /\ Blocks' = (Blocks \ {b}) \cup {u} \cup rs
  <2>1. FreeBlocks' = G
    BY <1>4, <1>9, FreeBlocksAre
  <2> QED  BY <1>4, <1>9, <2>1, BlocksAre
<1>11. R = IF s = m THEN {} ELSE {lo + m}
  BY <1>8 DEF R, Rest
<1>12. BP!Allocate(m)
  <2>1. b.kind = "free" /\ b.size = s /\ b.lo = lo /\ [b EXCEPT !.kind = "used"] = [kind |-> "used", lo |-> lo, size |-> s]
    BY DEF b
  <2>2. CASE s = m
    <3>1. rs = {} /\ u = [b EXCEPT !.kind = "used"]
      BY <1>11, <2>1, <2>2 DEF rs, u
    <3> QED  BY <1>4, <1>9, <1>10, <2>1, <2>2, <3>1 DEF BP!Allocate
  <2>3. CASE s # m
    <3>1. rs = {[kind |-> "free", lo |-> lo + m, size |-> s - m]}
      BY <1>11, <2>3 DEF rs
    <3>2. s >= m + MinWords
      BY <1>5, <2>3
    <3>3. Blocks' = (Blocks \ {b}) \cup {[kind |-> "used", lo |-> b.lo, size |-> m],
                     [kind |-> "free", lo |-> b.lo + m, size |-> b.size - m]}
      BY <1>10, <2>1, <3>1 DEF u
    <3> QED  BY <1>4, <1>9, <2>1, <3>2, <3>3 DEF BP!Allocate
  <2> QED  BY <2>2, <2>3
<1>13. Sound(heap, FreeBlocks)' /\ Topped(heap, 0)'
  BY <1>4, <1>9, <1>10 DEF Sound, Typed, Lists, Chains, Topped
<1>14. Owned'
  <2>1. /\ held \subseteq DOMAIN heap.hdr /\ held \cap F = {}
        /\ \/ resv = NoResv
           \/ /\ resv = [lo |-> resv.lo, n |-> resv.n] /\ resv.n # 0
              /\ resv.lo \in Nat /\ resv.n \in MinWords..NResv
              /\ resv.lo \notin held \cup F
    BY <1>2, SizeFacts DEF Owned, F
  <2>2. G = (F \ {lo}) \cup R /\ lo \in F
    BY DEF G, F
  <2>3. /\ held' \subseteq DOMAIN heap'.hdr /\ held' \cap G = {}
    BY <1>4, <1>5, <1>9, <2>1, <2>2
  <2>4. CASE resv' = resv
    BY <1>4, <1>9, <1>10, <2>1, <2>2, <2>3, <2>4 DEF Owned
  <2>5. CASE resv' = [lo |-> lo, n |-> NResv] /\ held' = held
    <3>1. resv'.lo = lo /\ resv'.n = NResv /\ NResv \in MinWords..NResv
      BY <2>5, SizeFacts
    <3> QED  BY <1>5, <1>9, <1>10, <2>1, <2>2, <2>3, <2>5, <3>1 DEF Owned
  <2> QED  BY <1>4, <2>4, <2>5
<1>15. Seps'
  <2>1. b.kind = "free"
    BY DEF b
  <2>2. \A d \in Blocks : d.kind = "sep" => d \in Blocks'
    BY <1>10, <2>1
  <2> QED  BY <1>2, <1>4, <2>2, SepsKept
<1>16. Counted'
  <2> DEFINE I == lo .. (lo + m - 1)
             S == memory \ FreeCover(Blocks)
  <2>1. b.kind = "free" /\ b.lo = lo /\ b.size = s /\ u.kind = "used" /\ m <= s
    BY <1>3, <1>5, SizeFacts DEF b, u
  <2>2. \A y : y \in rs <=> /\ y = [kind |-> "free", lo |-> b.lo + m, size |-> b.size - m]
                            /\ b.size # m
    BY <1>11, <2>1 DEF rs
  <2>0. /\ FreeCover((Blocks \ {b}) \cup {u} \cup rs)
             = FreeCover(Blocks) \ (b.lo .. (b.lo + m - 1))
        /\ (b.lo .. (b.lo + m - 1)) \subseteq FreeCover(Blocks)
    <3> DEFINE bs == Blocks
    <3>1. BP!Good(bs) /\ b \in bs /\ m \in Nat /\ m <= b.size
      BY <1>1, <1>3, <1>9, <2>1
    <3> HIDE DEF bs
    <3>2. /\ FreeCover((bs \ {b}) \cup {u} \cup rs)
               = FreeCover(bs) \ (b.lo .. (b.lo + m - 1))
          /\ (b.lo .. (b.lo + m - 1)) \subseteq FreeCover(bs)
      BY ONLY <2>1, <2>2, <3>1, CoverTake
    <3> QED  BY <3>2 DEF bs
  <2>3. /\ FreeCover((Blocks \ {b}) \cup {u} \cup rs) = FreeCover(Blocks) \ I
        /\ I \subseteq FreeCover(Blocks)
    BY <2>0, <2>1
  <2>4. FreeCover(Blocks) \subseteq memory
    BY <1>1, CoverInMemory DEF BP!Good
  <2>5. memory \ FreeCover(Blocks') = S \cup I
    BY <1>10, <2>3, <2>4
  <2>6. IsFiniteSet(S) /\ I \cap S = {}
    <3>1. IsFiniteSet(memory)
      BY <1>2 DEF Counted
    <3> QED  BY <2>3, <3>1, FS_Subset
  <2> HIDE DEF S
  <2>7. Cardinality(S \cup I) = Cardinality(S) + m
    BY <1>3, <1>5, <2>6, AddWords
  <2>8. heap.nmem = Cardinality(memory) /\ heap.nnet = Cardinality(S) /\ IsFiniteSet(memory)
    BY <1>2 DEF Counted, S
  <2> QED  BY <1>4, <1>9, <2>5, <2>7, <2>8 DEF Counted
<1>17. Caller'
  <2>1. CASE call' = Idle
    BY <2>1 DEF Caller
  <2>2. CASE call' = [call EXCEPT !.at = "resv"] /\ call.op # "ktaloc"
    <3>1. /\ call.op = "ktalocr" /\ m = NResv + 1
          /\ call.n \in Requests /\ call.n >= MinWords - 1
          /\ call.n <= NResv - (MinWords + 1)
          /\ call = [op |-> "ktalocr", n |-> call.n, m |-> NResv + 1, at |-> call.at]
      BY <1>3, <2>2
    <3>2. call' = [op |-> "ktalocr", n |-> call.n, m |-> NResv + 1, at |-> "resv"]
      BY <2>2, <3>1
    <3>3. call'.n = call.n /\ call'.at = "resv"
      BY <3>2
    <3> QED  BY <3>1, <3>2, <3>3 DEF Caller
  <2> QED  BY <1>4, <2>1, <2>2
<1>18. Searched'
  <2>1. call'.at \notin {"big", "grow"}
    <3>1. Idle.at = "none"
      BY DEF Idle
    <3>2. [call EXCEPT !.at = "resv"].at = "resv"
      BY <1>3
    <3> QED  BY <1>4, <3>1, <3>2
  <2> QED  BY <2>1 DEF Searched
<1> QED  BY <1>12, <1>13, <1>14, <1>15, <1>16, <1>17, <1>18 DEF Tables, m

\* A list of one size holds blocks of that size.
LEMMA ListHead ==
  ASSUME NEW h, NEW F, Sound(h, F), NEW k \in 1..NIndex, h.list[k] # <<>>
  PROVE  Head(h.list[k]) \in F /\ h.hdr[Head(h.list[k])] = k
<1> DEFINE lo == Head(h.list[k])
<1>1. k \in 1..Big /\ k \in Nat /\ k <= NIndex /\ k # Big
  BY SizeFacts
<1>2. /\ h.list[k] \in Seq(Nat)
      /\ \A x : x \in Range(h.list[k]) <=> x \in F /\ ListOf(h.hdr[x]) = k
  BY <1>1, ListFacts
<1>3. lo \in Range(h.list[k])
  BY <1>2, HeadFacts
<1> HIDE DEF lo
<1>4. lo \in F /\ ListOf(h.hdr[lo]) = k
  BY <1>2, <1>3
<1>5. h.hdr[lo] \in Nat
  BY <1>4, FreeFacts
<1>6. h.hdr[lo] = k
  BY <1>1, <1>4, <1>5 DEF ListOf
<1> QED  BY <1>4, <1>6 DEF lo

\* Where the lists looked at are.
LEMMA SearchFacts ==
  ASSUME HInv, Small
  PROVE  /\ call.m \in 1..NIndex /\ call.m \in Nat /\ call.m >= MinWords
         /\ First \in Nat /\ First >= call.m + MinWords /\ First <= call.m + MinSeg1
         /\ heap.maxic \in 0..NIndex
         /\ Limit \in Int /\ Limit <= heap.maxic - 1
<1>1. call.m \in Nat /\ call.m >= MinWords /\ call.m <= NIndex
  BY CallFacts DEF HInv, Tables, Small
<1>2. MinWords \in Nat /\ MinWords > 0 /\ MinSeg1 \in Nat /\ MinSeg1 >= MinWords /\ Span \in Nat /\ NIndex \in Nat
  BY SizeFacts
<1>3. Min({call.m, MinSeg1}) = IF call.m <= MinSeg1 THEN call.m ELSE MinSeg1
  BY <1>1, <1>2, MinPair
<1>4. First \in Nat /\ First >= call.m + MinWords /\ First <= call.m + MinSeg1
  BY <1>1, <1>2, <1>3 DEF First
<1>5. heap.maxic \in 0..NIndex
  BY DEF HInv, Tables, Sound, Typed
<1>6. Limit \in Int /\ Limit <= heap.maxic - 1
  <2> DEFINE x == heap.maxic - 1
             y == First + Span
  <2>1. x \in Int /\ y \in Int
    BY <1>2, <1>4, <1>5
  <2>2. Limit = Min({x, y})
    BY DEF Limit
  <2> HIDE DEF x, y
  <2>3. Limit = IF x <= y THEN x ELSE y
    BY <2>1, <2>2, MinPair
  <2>4. Limit \in Int /\ Limit <= x
    BY <2>1, <2>3
  <2> QED  BY <2>4 DEF x
<1> QED  BY <1>1, <1>2, <1>4, <1>5, <1>6

LEMMA TakeExactStep ==
  ASSUME HInv, TakeExact
  PROVE  Tables' /\ BP!Allocate(call.m)
<1> DEFINE lo == Head(heap.list[call.m])
<1>1. call.m \in 1..NIndex
  BY SearchFacts DEF TakeExact
<1>2. Sound(heap, FreeBlocks) /\ Topped(heap, 0)
  BY StateFacts
<1>3. lo \in FreeBlocks /\ heap.hdr[lo] = call.m
  BY <1>1, <1>2, ListHead DEF TakeExact
<1>4. Done(heap, lo) /\ call.at \in {"small", "big"}
  BY DEF TakeExact, Small
<1>5. 0 \in 1..NIndex => Range(heap.list[0]) \subseteq {lo}
  OBVIOUS
<1> HIDE DEF lo
<1> QED  BY <1>2, <1>3, <1>4, <1>5, DoneStep

LEMMA TakeNearStep ==
  ASSUME HInv, TakeNear
  PROVE  Tables' /\ BP!Allocate(call.m)
<1> DEFINE k == Min(NearLists)
           lo == Head(heap.list[k])
<1>1. /\ call.m \in 1..NIndex /\ call.m \in Nat /\ call.m >= MinWords
      /\ First \in Nat /\ First >= call.m + MinWords
      /\ heap.maxic \in 0..NIndex
      /\ Limit \in Int /\ Limit <= heap.maxic - 1
  BY SearchFacts DEF TakeNear
<1>2. Sound(heap, FreeBlocks) /\ Topped(heap, 0)
  BY StateFacts
<1>3. k \in NearLists
  <2>1. NearLists \in SUBSET Nat /\ NearLists # {}
    BY <1>1 DEF TakeNear, NearLists, Filled
  <2> QED  BY <2>1, Least
<1> HIDE DEF k
<1>4. k \in 1..NIndex /\ heap.list[k] # <<>> /\ k >= call.m + MinWords
  <2>1. k \in First..Limit /\ heap.list[k] # <<>>
    BY <1>3 DEF NearLists, Filled
  <2> QED  BY <1>1, <2>1, SizeFacts
<1>5. lo \in FreeBlocks /\ heap.hdr[lo] = k
  BY <1>2, <1>4, ListHead
<1>6. Done(heap, lo) /\ call.at \in {"small", "big"}
  BY DEF TakeNear, Small, k
<1>7. 0 \in 1..NIndex => Range(heap.list[0]) \subseteq {lo}
  OBVIOUS
<1>8. heap.hdr[lo] >= call.m + MinWords
  BY <1>4, <1>5
<1> HIDE DEF lo
<1> QED  BY <1>2, <1>5, <1>6, <1>7, <1>8, DoneStep

LEMMA TakeBigStep ==
  ASSUME HInv, TakeBig
  PROVE  Tables' /\ BP!Allocate(call.m)
<1> DEFINE s == heap.list[Big]
           k == Min(Fitting)
           lo == s[k]
<1>1. Sound(heap, FreeBlocks) /\ Topped(heap, 0)
  BY StateFacts
<1>2. Big \in 1..Big
  BY SizeFacts
<1>3. s \in Seq(Nat) /\ \A x \in Range(s) : x \in FreeBlocks
  BY <1>1, <1>2, ListFacts
<1>4. k \in DOMAIN s /\ Fits(heap.hdr[lo])
  <2>1. Fitting \in SUBSET Nat /\ Fitting # {}
    BY <1>3 DEF TakeBig, Fitting
  <2>2. k \in Fitting
    BY <2>1, Least
  <2> HIDE DEF k
  <2> QED  BY <2>2 DEF Fitting
<1>5. Done(heap, lo) /\ call.at \in {"small", "big"}
  BY DEF TakeBig
<1> HIDE DEF s, k
<1>6. lo \in FreeBlocks
  BY <1>3, <1>4, InRange
<1>7. heap.hdr[lo] \in Nat
  BY <1>1, <1>6, FreeFacts
<1>8. call.m \in Nat
  BY <1>5, CallFacts DEF HInv, Tables
<1> HIDE DEF lo
<1>9. heap.hdr[lo] = call.m \/ heap.hdr[lo] >= call.m + MinWords
  BY <1>4, <1>7, <1>8, SizeFacts DEF Fits
<1>10. 0 \in 1..NIndex => Range(heap.list[0]) \subseteq {lo}
  OBVIOUS
<1> QED  BY <1>1, <1>5, <1>6, <1>9, <1>10, DoneStep

\* A sequence of one element holds only its head.
LEMMA OnlyHead ==
  ASSUME NEW s \in Seq(Nat), Len(s) = 1
  PROVE  Range(s) \subseteq {Head(s)}
<1>1. DOMAIN s = {1} /\ Head(s) = s[1]
  OBVIOUS
<1> QED  BY <1>1 DEF Range

LEMMA TakeFarStep ==
  ASSUME HInv, TakeFar
  PROVE  Tables' /\ BP!Allocate(call.m)
<1> DEFINE k == Max(FarLists)
           lo == Head(heap.list[k])
           top == IF Len(heap.list[k]) = 1 THEN k - 1 ELSE k
           h == [heap EXCEPT !.maxic = top]
           c == IF Len(heap.list[k]) = 1 THEN k ELSE 0
           from == Max({First, Limit + 1})
<1>1. /\ call.m \in 1..NIndex /\ call.m \in Nat /\ call.m >= MinWords
      /\ First \in Nat /\ First >= call.m + MinWords
      /\ heap.maxic \in 0..NIndex
      /\ Limit \in Int /\ Limit <= heap.maxic - 1
  BY SearchFacts DEF TakeFar
<1>2. Sound(heap, FreeBlocks) /\ Topped(heap, 0)
  BY StateFacts
<1>3. from \in Nat /\ from >= First /\ from >= Limit + 1 /\ (from = First \/ from = Limit + 1)
  <2>1. from = IF First >= Limit + 1 THEN First ELSE Limit + 1
    BY <1>1, MaxPair
  <2> HIDE DEF from
  <2> QED  BY <1>1, <2>1
<1>5. \A d : d \in FarLists <=> d \in from..heap.maxic /\ heap.list[d] # <<>>
  BY DEF FarLists, Filled
<1> HIDE DEF from
<1>4. k \in FarLists /\ \A d \in FarLists : d <= k
  <2> DEFINE n == heap.maxic
  <2>1. \A d \in FarLists : d \in 0..n
    BY <1>1, <1>3, <1>5
  <2>2. n \in Nat
    BY <1>1
  <2>3. FarLists # {}
    BY DEF TakeFar
  <2> HIDE DEF n
  <2> QED  BY <2>1, <2>2, <2>3, Greatest
<1> HIDE DEF k
<1>6. k \in 1..NIndex /\ heap.list[k] # <<>> /\ k >= call.m + MinWords /\ k <= heap.maxic
  <2>1. k \in from..heap.maxic /\ heap.list[k] # <<>>
    BY <1>4, <1>5
  <2>2. MinWords \in Nat /\ MinWords > 0 /\ NIndex \in Nat
    BY SizeFacts
  <2>3. k \in Nat /\ k >= First /\ k <= heap.maxic
    BY <1>1, <1>3, <2>1
  <2> QED  BY <1>1, <2>1, <2>2, <2>3
<1>7. lo \in FreeBlocks /\ heap.hdr[lo] = k
  BY <1>2, <1>6, ListHead
<1>8. Done(h, lo) /\ call.at \in {"small", "big"}
  BY DEF TakeFar, Small, k
<1>9. Typed(heap)
  BY <1>2 DEF Sound
<1>10. top \in 0..NIndex /\ (top = k \/ (top = k - 1 /\ Len(heap.list[k]) = 1))
  BY <1>6, SizeFacts
<1> HIDE DEF lo, top
<1>11. /\ h.hdr = heap.hdr /\ h.list = heap.list /\ h.chain = heap.chain
       /\ h.maxic = top /\ h.nnet = heap.nnet /\ h.nmem = heap.nmem
       /\ h = [hdr |-> h.hdr, list |-> h.list, chain |-> h.chain,
               maxic |-> h.maxic, nnet |-> h.nnet, nmem |-> h.nmem]
  BY <1>9 DEF Typed
<1> HIDE DEF h
<1>12. Typed(h)
  BY <1>9, <1>10, <1>11 DEF Typed
<1>13. Sound(h, FreeBlocks)
  <2>1. FreeBlocks \subseteq DOMAIN h.hdr
    BY <1>2, <1>11 DEF Sound
  <2> QED  BY <1>2, <1>11, <1>12, <2>1, SoundSame
<1>14. Topped(h, c)
  <2> SUFFICES ASSUME NEW d \in 1..NIndex, heap.list[d] # <<>> PROVE d <= top \/ d = c
    BY <1>11 DEF Topped
  <2>1. d <= heap.maxic
    BY <1>2, SizeFacts DEF Topped
  <2>2. d <= k
    <3>1. CASE d \in from..heap.maxic
      BY <1>4, <1>5, <3>1
    <3>2. CASE d \notin from..heap.maxic
      <4>1. d < from
        BY <1>1, <1>3, <2>1, <3>2
      <4>2. from <= k
        BY <1>4, <1>5, <1>3, <1>1
      <4> QED  BY <1>1, <1>3, <1>6, <4>1, <4>2
    <3> QED  BY <3>1, <3>2
  <2>3. CASE Len(heap.list[k]) = 1
    BY <1>6, <2>2, <2>3 DEF top
  <2>4. CASE Len(heap.list[k]) # 1
    BY <1>6, <2>2, <2>4 DEF top
  <2> QED  BY <2>3, <2>4
<1>15. c \in 1..NIndex => Range(h.list[c]) \subseteq {lo}
  <2> SUFFICES ASSUME c \in 1..NIndex PROVE Range(heap.list[k]) \subseteq {lo} /\ c = k
    BY <1>11
  <2>1. c = k /\ Len(heap.list[k]) = 1
    OBVIOUS
  <2>2. k \in 1..Big
    BY <1>6, SizeFacts
  <2>3. heap.list[k] \in Seq(Nat)
    BY <1>2, <2>2, ListFacts
  <2> QED  BY <2>1, <2>3, OnlyHead DEF lo
<1>16. heap.hdr[lo] >= call.m + MinWords
  BY <1>6, <1>7
<1> HIDE DEF c
<1> QED  BY <1>7, <1>8, <1>11, <1>13, <1>14, <1>15, <1>16, DoneStep

LEMMA FromIn ==
  ASSUME NEW h, NEW F, NEW lo
  PROVE  From(h, F, lo) \in F \cup {lo}
<1>1. CASE Pre(h, F, lo) = {}
  BY <1>1 DEF From
<1>2. CASE Pre(h, F, lo) # {}
  <2>1. From(h, F, lo) \in Pre(h, F, lo)
    BY <1>2 DEF From
  <2> QED  BY <2>1 DEF Pre
<1> QED  BY <1>1, <1>2

\* What lies in the blocks before a step on one of them.
LEMMA OthersGood ==
  ASSUME NEW bs, BP!Good(bs), NEW x \in bs
  PROVE  /\ bs \ {x} \subseteq BP!Block /\ BP!Disjoint(bs \ {x})
         /\ x \in BP!Block /\ \A c \in bs \ {x} : BP!Apart(x, c)
BY DEF BP!Good, BP!Disjoint

\* tfree gives the block x at lo back: h are the tables once its header says how
\* many words it has.
GivesBack(h, lo, g, r, x) ==
  /\ Sound(h, FreeBlocks) /\ Topped(h, 0)
  /\ h.nnet = heap.nnet /\ h.nmem = heap.nmem /\ DOMAIN heap.hdr \subseteq DOMAIN h.hdr
  /\ lo \in DOMAIN h.hdr /\ lo \notin FreeBlocks
  /\ heap' = Free(h, lo, g) /\ held' = held \ {lo} /\ memory' = memory /\ sep' = sep
  /\ resv' = r /\ (r = NoResv \/ (r = resv /\ resv.lo # lo))
  /\ x \in Blocks /\ x = [kind |-> "used", lo |-> lo, size |-> h.hdr[lo]]
  /\ Blocks \ {x} = Range(BlockMap(h.hdr, FreeBlocks, held, r))
                       \ {BlockMap(h.hdr, FreeBlocks, held, r)[lo]}

LEMMA FreedStep ==
  ASSUME HInv, NEW h, NEW lo, NEW g \in Int, NEW r, NEW x, GivesBack(h, lo, g, r, x)
  PROVE  /\ (Sound(heap, FreeBlocks) /\ Topped(heap, 0) /\ Owned /\ Seps /\ Counted)'
         /\ BP!Release(x)
<1> SUFFICES
      ASSUME Sound(h, FreeBlocks), Topped(h, 0),
             h.nnet = heap.nnet, h.nmem = heap.nmem, DOMAIN heap.hdr \subseteq DOMAIN h.hdr,
             lo \in DOMAIN h.hdr, lo \notin FreeBlocks,
             heap' = Free(h, lo, g), held' = held \ {lo}, memory' = memory, sep' = sep,
             resv' = r, r = NoResv \/ (r = resv /\ resv.lo # lo),
             x \in Blocks, x = [kind |-> "used", lo |-> lo, size |-> h.hdr[lo]],
             Blocks \ {x} = Range(BlockMap(h.hdr, FreeBlocks, held, r))
                              \ {BlockMap(h.hdr, FreeBlocks, held, r)[lo]}
      PROVE  /\ (Sound(heap, FreeBlocks) /\ Topped(heap, 0) /\ Owned /\ Seps /\ Counted)'
             /\ BP!Release(x)
  BY Zenon DEF GivesBack
<1> DEFINE F == FreeBlocks
           H == held
           n == Free(h, lo, g)
           a == From(h, F, lo)
           G == (F \ (Pre(h, F, lo) \cup Post(h, F, lo))) \cup {a}
           bs == Blocks
           rest == Blocks \ {x}
           m == h.hdr[lo]
<1>1. BP!Good(bs) /\ memory \subseteq Nat /\ memory = BP!Cover(bs)
  BY StateFacts
<1>2. Owned /\ Seps /\ Counted
  BY DEF HInv, Tables
<1>3. /\ r.n = 0 \/ r.lo \notin F
      /\ r.n = 0 \/ r.lo # lo
  BY <1>2 DEF Owned, NoResv
<1>4. rest \subseteq BP!Block /\ BP!Disjoint(rest) /\ x \in BP!Block /\ \A c \in rest : BP!Apart(x, c)
  <2>1. x \in bs
    OBVIOUS
  <2> HIDE DEF bs
  <2>2. /\ bs \ {x} \subseteq BP!Block /\ BP!Disjoint(bs \ {x})
        /\ x \in BP!Block /\ \A c \in bs \ {x} : BP!Apart(x, c)
    BY ONLY <1>1, <2>1, OthersGood
  <2> QED  BY <2>2 DEF bs
<1>5. /\ Sound(n, G)
      /\ Topped(h, 0) => Topped(n, 0)
      /\ n.nnet = h.nnet - h.hdr[lo] /\ n.nmem = h.nmem
      /\ Range(BlockMap(n.hdr, G, H \ {lo}, r)) = BP!Freed(rest, x)
      /\ DOMAIN h.hdr \ F \subseteq (DOMAIN n.hdr \ G) \cup {lo}
  <2>1. CanFree(h, F, H, r, lo, rest, x)
    <3>1. /\ Sound(h, F) /\ lo \notin F /\ lo \in DOMAIN h.hdr
          /\ rest = Range(BlockMap(h.hdr, F, H, r)) \ {BlockMap(h.hdr, F, H, r)[lo]}
      OBVIOUS
    <3>2. x = [kind |-> "used", lo |-> lo, size |-> h.hdr[lo]]
      OBVIOUS
    <3> HIDE DEF F, H, rest
    <3> QED  BY ONLY <1>3, <1>4, <3>1, <3>2 DEF CanFree
  <2> HIDE DEF F, H, rest
  <2>2. Given(Free(h, lo, g), From(h, F, lo), FreeAfter(h, F, lo), h, F, H, r, lo, rest, x)
    BY ONLY <2>1, FreeMap, g \in Int
  <2> QED  BY ONLY <2>2 DEF Given, FreeAfter, n, a, G
<1>6. a \in F \cup {lo}
  BY FromIn
<1>7. G \subseteq F \cup {lo}
  BY <1>6
<1>8. FreeBlocks' = G /\ bs' = BP!Freed(rest, x)
  <2>1. FreeBlocks' = G
    BY <1>5, FreeBlocksAre
  <2> QED  BY <1>5, <2>1, BlocksAre
<1>9. x.kind = "used" /\ x.lo = lo /\ x.size = m /\ m \in Nat
  <2>1. Typed(h)
    BY DEF Sound
  <2> QED  BY <2>1, HeaderFacts
<1> HIDE DEF n, a, G, F, H, m
<1>10. BP!Release(x)
  BY <1>8, <1>9 DEF BP!Release
<1>11. Sound(heap, FreeBlocks)' /\ Topped(heap, 0)'
  BY <1>5, <1>8 DEF n, Sound, Typed, Lists, Chains, Topped
<1>12. Owned'
  <2>1. held \subseteq DOMAIN h.hdr /\ held \cap F = {}
    BY <1>2 DEF Owned, F
  <2>2. held' \subseteq DOMAIN n.hdr \ G
    BY <1>5, <2>1
  <2>3. r # NoResv => /\ r = [lo |-> r.lo, n |-> r.n]
                      /\ r.lo \in Nat /\ r.n \in MinWords..NResv
                      /\ r.lo \notin held \cup F /\ r.lo # lo
    BY <1>2 DEF Owned, F
  <2>4. r # NoResv => r.lo \notin held' \cup G
    BY <1>7, <2>3
  <2> QED  BY <1>8, <2>2, <2>3, <2>4 DEF Owned, n
<1>13. Seps'
  <2>1. ASSUME NEW b \in bs, b.kind = "sep" PROVE b \in bs'
    <3>1. b \in rest /\ b.kind # "free"
      BY <1>9, <2>1
    <3> QED  BY <1>8, <3>1 DEF BP!Freed, BP!Before, BP!After
  <2> QED  BY <1>2, <2>1, SepsKept
<1>14. Counted'
  <2> DEFINE I == x.lo .. (x.lo + x.size - 1)
             S == memory \ (FreeCover(bs) \cup I)
  <2>1. /\ FreeCover(BP!Freed(rest, x)) = FreeCover(rest) \cup I
        /\ FreeCover(rest) \cap I = {}
    <3> HIDE DEF rest
    <3> QED  BY <1>4, CoverFreed
  <2>2. FreeCover(rest) = FreeCover(bs)
    <3>1. \A c \in rest \cup bs : c.kind = "free" => (c \in rest <=> c \in bs)
      BY <1>9
    <3> HIDE DEF rest, bs
    <3> QED  BY <3>1, CoverSame
  <2>3. I \subseteq memory
    <3>1. I = BP!Words(x)
      BY <1>9, <1>4 DEF BP!Words, BP!End, BP!Block
    <3>2. memory = BP!Cover(bs) /\ x \in bs
      BY <1>1
    <3> HIDE DEF bs, I
    <3> QED  BY ONLY <3>1, <3>2 DEF BP!Cover
  <2>4. IsFiniteSet(memory) /\ heap.nmem = Cardinality(memory)
        /\ heap.nnet = Cardinality(memory \ FreeCover(bs))
    BY <1>2 DEF Counted
  <2>5. memory \ FreeCover(bs) = S \cup I /\ I \cap S = {} /\ IsFiniteSet(S)
    BY <2>1, <2>2, <2>3, <2>4, FS_Subset
  <2> HIDE DEF S
  <2>6. Cardinality(S \cup I) = Cardinality(S) + m /\ Cardinality(S) \in Nat
    <3>1. x.lo \in Nat
      BY <1>4 DEF BP!Block
    <3>2. I = x.lo .. (x.lo + m - 1)
      BY <1>9
    <3> DEFINE y == x.lo
    <3> HIDE DEF I, y
    <3>3. y \in Nat /\ I = y .. (y + m - 1)
      BY <3>1, <3>2 DEF y
    <3>4. Cardinality(S \cup (y .. (y + m - 1))) = Cardinality(S) + m
      BY ONLY <1>9, <2>5, <3>3, AddWords
    <3>5. Cardinality(S) \in Nat
      BY <2>5, FS_CardinalityType
    <3> QED  BY ONLY <3>3, <3>4, <3>5
  <2>7. memory \ FreeCover(bs') = S
    BY <1>8, <2>1, <2>2 DEF S
  <2>8. n.nnet = Cardinality(S)
    <3> HIDE DEF I
    <3>1. heap.nnet = Cardinality(S) + m
      BY ONLY <2>4, <2>5, <2>6
    <3>2. n.nnet = heap.nnet - m
      BY <1>5 DEF m
    <3> QED  BY ONLY <1>9, <2>6, <3>1, <3>2
  <2> QED  BY <1>5, <2>4, <2>7, <2>8 DEF Counted, n
<1> QED  BY <1>10, <1>11, <1>12, <1>13, <1>14

\* What the block at an address is.
LEMMA BlockAt ==
  ASSUME HInv, NEW lo \in DOMAIN heap.hdr, lo \notin FreeBlocks, resv.n = 0 \/ lo # resv.lo
  PROVE  /\ Map[lo] = [kind |-> IF lo \in held THEN "used" ELSE "sep",
                       lo |-> lo, size |-> heap.hdr[lo]]
         /\ Map[lo] \in Blocks
<1>1. Mapped(Map, heap.hdr, FreeBlocks, held, resv)
  BY MapFacts DEF Map
<1>2. Map[lo] \in Range(Map)
  BY <1>1, MapRangeFacts DEF Mapped
<1>3. Blocks = Range(Map)
  BY StateFacts
<1>4. Map[lo] = [kind |-> IF lo \in held THEN "used" ELSE "sep",
                 lo |-> lo, size |-> heap.hdr[lo]]
  BY <1>1 DEF Mapped
<1> QED  BY <1>2, <1>3, <1>4

\* No call is in progress when the program frees.
LEMMA IdleKept ==
  ASSUME call = Idle, call' = call
  PROVE  Caller' /\ Searched'
<1>1. call'.at = "none" /\ call' = Idle
  BY DEF Idle
<1> QED  BY <1>1 DEF Caller, Searched

LEMMA TfreeStep ==
  ASSUME HInv, NEW lo \in held, Tfree(lo)
  PROVE  Tables' /\ \E x \in Blocks : BP!Release(x)
<1>1. /\ Sound(heap, FreeBlocks) /\ Topped(heap, 0) /\ Blocks = Range(Map)
  BY StateFacts
<1>2. /\ lo \in DOMAIN heap.hdr /\ lo \notin FreeBlocks
      /\ resv = NoResv \/ resv.lo # lo
  BY DEF HInv, Tables, Owned
<1>3. resv.n = 0 \/ lo # resv.lo
  BY <1>2 DEF NoResv
<1>4. PICK g \in Int : heap' = Free(heap, lo, g)
  BY SizeFacts DEF Tfree
<1>5. /\ held' = held \ {lo} /\ memory' = memory /\ sep' = sep /\ resv' = resv
      /\ call = Idle /\ call' = call
  BY DEF Tfree
<1> DEFINE x == Map[lo]
<1>6. x \in Blocks /\ x = [kind |-> "used", lo |-> lo, size |-> heap.hdr[lo]]
  BY <1>2, <1>3, BlockAt
<1>7. Blocks \ {x} = Range(BlockMap(heap.hdr, FreeBlocks, held, resv))
                       \ {BlockMap(heap.hdr, FreeBlocks, held, resv)[lo]}
  BY <1>1 DEF Map
<1> HIDE DEF x
<1>8. /\ (Sound(heap, FreeBlocks) /\ Topped(heap, 0) /\ Owned /\ Seps /\ Counted)'
      /\ BP!Release(x)
  <2> DEFINE r == resv
             h == heap
  <2> HIDE DEF r, h
  <2>1. GivesBack(h, lo, g, r, x)
    BY <1>1, <1>2, <1>4, <1>5, <1>6, <1>7 DEF GivesBack, h, r
  <2> QED  BY ONLY HInv, <2>1, g \in Int, FreedStep
<1>9. Caller' /\ Searched'
  BY <1>5, IdleKept
<1> QED  BY <1>6, <1>8, <1>9 DEF Tables

\* A header is written where no free block is: the tables stay sound.
Wrote(h, g, lo, m) ==
  /\ h.hdr = Write(g.hdr, lo, m) /\ h.list = g.list /\ h.chain = g.chain
  /\ h.maxic = g.maxic /\ h.nnet \in Int /\ h.nmem \in Int
  /\ h = [hdr |-> h.hdr, list |-> h.list, chain |-> h.chain,
          maxic |-> h.maxic, nnet |-> h.nnet, nmem |-> h.nmem]

WroteSound(h, g, F, lo, m) ==
  /\ Sound(h, F) /\ (Topped(g, 0) => Topped(h, 0))
  /\ DOMAIN h.hdr = DOMAIN g.hdr \cup {lo} /\ h.hdr[lo] = m
  /\ \A y \in DOMAIN g.hdr \ {lo} : h.hdr[y] = g.hdr[y]

LEMMA WriteSound ==
  ASSUME NEW g, NEW F, Sound(g, F), NEW lo \in Nat, lo \notin F,
         NEW m \in Nat, m >= MinWords, NEW h, Wrote(h, g, lo, m)
  PROVE  WroteSound(h, g, F, lo, m)
<1>1. /\ DOMAIN h.hdr = DOMAIN g.hdr \cup {lo} /\ h.hdr[lo] = m
      /\ \A y \in DOMAIN g.hdr \ {lo} : h.hdr[y] = g.hdr[y]
      /\ h.hdr = [y \in DOMAIN h.hdr |-> h.hdr[y]]
  BY DEF Wrote, Write
<1>2. Typed(h)
  BY <1>1 DEF Wrote, Sound, Typed
<1>3. F \subseteq DOMAIN h.hdr /\ \A y \in F : h.hdr[y] = g.hdr[y]
  BY <1>1 DEF Sound
<1>4. Sound(h, F)
  BY <1>2, <1>3, SoundSame DEF Wrote
<1> QED  BY <1>1, <1>4 DEF Topped, Wrote, WroteSound

\* ktalocr gives what is left of the reserve back, with a header for all of it.
LEMMA DropReserveStep ==
  ASSUME HInv, DropReserve
  PROVE  Tables' /\ \E x \in Blocks : BP!Release(x)
<1> DEFINE lo == resv.lo
           m == resv.n + 1
           h == [heap EXCEPT !.hdr = Write(@, lo, m)]
           x == [kind |-> "used", lo |-> lo, size |-> m]
           F == FreeBlocks
           v == BlockMap(h.hdr, F, held, NoResv)
<1>1. /\ Sound(heap, F) /\ Topped(heap, 0) /\ Blocks = Range(Map)
  BY StateFacts
<1>2. /\ resv # NoResv /\ lo \in Nat /\ resv.n \in Nat /\ resv.n >= MinWords
      /\ lo \notin held \cup F /\ held \subseteq DOMAIN heap.hdr
  <2>1. resv # NoResv
    BY DEF DropReserve, NoResv
  <2> QED  BY <2>1, SizeFacts DEF HInv, Tables, Owned
<1>3. PICK g \in Int : heap' = Free(h, lo, g)
  BY SizeFacts DEF DropReserve
<1>4. /\ held' = held /\ memory' = memory /\ sep' = sep /\ resv' = NoResv
      /\ call.at = "resv" /\ call' = call /\ held \ {lo} = held
  BY <1>2 DEF DropReserve
<1>5. m \in Nat /\ m >= MinWords /\ MinWords \in Nat
  BY <1>2, SizeFacts
<1>6. Wrote(h, heap, lo, m) /\ h.nnet = heap.nnet /\ h.nmem = heap.nmem
  BY <1>1 DEF Sound, Typed, Wrote
<1> HIDE DEF h, m
<1>7. /\ DOMAIN h.hdr = DOMAIN heap.hdr \cup {lo} /\ h.hdr[lo] = m
      /\ \A y \in DOMAIN heap.hdr \ {lo} : h.hdr[y] = heap.hdr[y]
      /\ Sound(h, F) /\ Topped(h, 0)
  <2> HIDE DEF lo, F
  <2>1. lo \notin F
    BY ONLY <1>2
  <2>2. WroteSound(h, heap, F, lo, m)
    BY ONLY <1>1, <1>2, <1>5, <1>6, <2>1, WriteSound
  <2> QED  BY ONLY <1>1, <2>2 DEF WroteSound
<1>8. Sound(h, F) /\ Topped(h, 0)
  BY <1>7
<1>9. /\ Mapped(Map, heap.hdr, F, held, resv) /\ Mapped(v, h.hdr, F, held, NoResv)
  BY MapFacts DEF Map
<1> HIDE DEF v
<1>10. resv.n # 0
  BY DEF DropReserve
<1>11. x \in Blocks /\ x = Map[lo] /\ x = v[lo] => x \in Blocks
  OBVIOUS
<1>12. /\ Map[lo] = x /\ lo \in DOMAIN Map
       /\ DOMAIN Map = DOMAIN heap.hdr \cup {lo}
       /\ \A y \in DOMAIN Map : Map[y].lo = y
       /\ \A y \in DOMAIN heap.hdr : y # lo =>
            Map[y] = [kind |-> IF y \in F THEN "free" ELSE IF y \in held THEN "used" ELSE "sep",
                      lo |-> y, size |-> heap.hdr[y]]
  BY <1>9, <1>10 DEF Mapped, m
<1>13. /\ DOMAIN v = DOMAIN heap.hdr \cup {lo}
       /\ \A y \in DOMAIN v : v[y].lo = y
       /\ \A y \in DOMAIN heap.hdr : y # lo => v[y] = Map[y]
  <2> DEFINE q == NoResv
  <2>1. q.n = 0
    BY DEF NoResv
  <2>2. Mapped(v, h.hdr, F, held, q)
    BY <1>9
  <2> HIDE DEF q
  <2>3. /\ DOMAIN v = DOMAIN h.hdr /\ \A y \in DOMAIN v : v[y].lo = y
        /\ \A y \in DOMAIN h.hdr :
            v[y] = [kind |-> IF y \in F THEN "free" ELSE IF y \in held THEN "used" ELSE "sep",
                    lo |-> y, size |-> h.hdr[y]]
    BY ONLY <2>1, <2>2 DEF Mapped
  <2> HIDE DEF lo
  <2>4. ASSUME NEW y \in DOMAIN heap.hdr, y # lo PROVE v[y] = Map[y]
    <3> DEFINE B(t) == [kind |-> IF y \in F THEN "free"
                                 ELSE IF y \in held THEN "used" ELSE "sep",
                        lo |-> y, size |-> t]
    <3>1. y \in DOMAIN h.hdr /\ h.hdr[y] = heap.hdr[y]
      BY ONLY <1>7, <2>4
    <3>2. v[y] = B(h.hdr[y])
      BY ONLY <2>3, <3>1
    <3>3. Map[y] = B(heap.hdr[y])
      BY ONLY <1>12, <2>4
    <3> HIDE DEF B
    <3> QED  BY ONLY <3>1, <3>2, <3>3
  <2> QED  BY <1>7, <2>3, <2>4
<1>14. Blocks \ {x} = Range(v) \ {v[lo]}
  <2>1. {Map[y] : y \in DOMAIN Map \ {lo}} = {v[y] : y \in DOMAIN v \ {lo}}
    BY <1>12, <1>13
  <2>2. Range(Map) \ {Map[lo]} = {Map[y] : y \in DOMAIN Map \ {lo}}
    BY <1>12 DEF Range
  <2>3. Range(v) \ {v[lo]} = {v[y] : y \in DOMAIN v \ {lo}}
    BY <1>12, <1>13 DEF Range
  <2> HIDE DEF x
  <2> QED  BY <1>1, <1>12, <2>1, <2>2, <2>3
<1>15. x \in Blocks
  <2> HIDE DEF x
  <2>1. Map[lo] \in Range(Map)
    BY <1>12, MapRangeFacts
  <2> QED  BY <1>1, <1>12, <2>1
<1>16. /\ (Sound(heap, FreeBlocks) /\ Topped(heap, 0) /\ Owned /\ Seps /\ Counted)'
       /\ BP!Release(x)
  <2>1. Sound(h, FreeBlocks) /\ h.nnet = heap.nnet /\ h.nmem = heap.nmem
        /\ DOMAIN heap.hdr \subseteq DOMAIN h.hdr
        /\ lo \in DOMAIN h.hdr /\ lo \notin FreeBlocks
    BY <1>2, <1>6, <1>7, <1>8
  <2>2. Blocks \ {x} = Range(BlockMap(h.hdr, FreeBlocks, held, NoResv))
                         \ {BlockMap(h.hdr, FreeBlocks, held, NoResv)[lo]}
    BY <1>14 DEF v
  <2>3. x = [kind |-> "used", lo |-> lo, size |-> h.hdr[lo]]
    BY <1>7
  <2>4. held' = held \ {lo}
    BY <1>4
  <2>5. GivesBack(h, lo, g, NoResv, x)
    <3> HIDE DEF lo, x, F
    <3> QED  BY ONLY <1>3, <1>4, <1>8, <1>15, <2>1, <2>2, <2>3, <2>4 DEF GivesBack
  <2> DEFINE r == NoResv
             l == lo
  <2> HIDE DEF F, x, r, l
  <2>6. GivesBack(h, l, g, r, x)
    BY <2>5 DEF r, l
  <2> QED  BY ONLY HInv, <2>6, g \in Int, FreedStep
<1>17. Caller'
  <2>1. call # Idle /\ call # Crashed
    BY <1>4 DEF Idle, Crashed
  <2>2. Caller
    BY DEF HInv, Tables
  <2> QED  BY <1>4, <2>1, <2>2 DEF Caller
<1>18. Searched'
  BY <1>4 DEF Searched
<1> QED  BY <1>15, <1>16, <1>17, <1>18 DEF Tables

\* ktalocr cuts a block off its reserve.
LEMMA CarveStep ==
  ASSUME HInv, Carve
  PROVE  Tables' /\ \E x \in Blocks, m \in Sizes : BP!Carve(x, m)
<1> DEFINE lo == resv.lo
           s == resv.n + 1
           m == call.n + 1
           z == lo + m
           F == FreeBlocks
           b == [kind |-> "used", lo |-> lo, size |-> s]
           p == [kind |-> "used", lo |-> lo, size |-> m]
           q == [kind |-> "used", lo |-> z, size |-> s - m]
           v == Map
           w == BlockMap(heap'.hdr, F, held', resv')
<1>1. /\ Sound(heap, F) /\ Topped(heap, 0) /\ Blocks = Range(Map)
      /\ BP!Good(Blocks) /\ memory \subseteq Nat /\ memory = BP!Cover(Blocks)
  BY StateFacts
<1>2. Owned /\ Seps /\ Counted /\ Caller
  BY DEF HInv, Tables
<1>3. /\ resv # NoResv /\ lo \in Nat /\ resv.n \in Nat /\ resv.n >= MinWords
      /\ resv.n # 0 /\ resv.n <= NResv
      /\ lo \notin held \cup F /\ held \subseteq DOMAIN heap.hdr /\ held \cap F = {}
  <2>1. resv # NoResv
    BY DEF Carve, NoResv
  <2> QED  BY <1>2, <2>1, SizeFacts DEF Owned
<1>4. /\ call.n \in Requests /\ call.n >= MinWords - 1 /\ call.at = "resv"
      /\ call.n <= resv.n - (MinWords + 1)
  <2>1. call.at # "none" /\ call.at = "resv"
    BY DEF Carve
  <2> QED  BY <1>2, <2>1, CallFacts DEF Carve
<1>5. /\ m \in Nat /\ m >= MinWords /\ s \in Nat /\ s >= m + MinWords /\ z \in Nat
      /\ resv.n - call.n - 1 = s - m - 1 /\ s - m - 1 \in MinWords..NResv
      /\ MinWords \in Nat /\ MinWords > 0
  <2>1. /\ MinWords \in Nat /\ MinWords > 0 /\ NResv \in Nat
        /\ call.n \in Nat /\ call.n >= MinWords - 1
    BY <1>4, SizeFacts
  <2>2. call.n + 1 \in Nat /\ call.n + 1 >= MinWords /\ resv.n + 1 \in Nat
    BY ONLY <1>3, <2>1
  <2>3. resv.n - call.n - 1 \in MinWords..NResv
    BY ONLY <1>3, <1>4, <2>1
  <2>4. resv.n - call.n - 1 = (resv.n + 1) - (call.n + 1) - 1
    BY ONLY <1>3, <2>1
  <2>5. resv.n + 1 >= (call.n + 1) + MinWords
    BY ONLY <1>3, <1>4, <2>1
  <2>6. lo + (call.n + 1) \in Nat
    BY ONLY <1>3, <2>1
  <2> QED  BY ONLY <2>1, <2>2, <2>3, <2>4, <2>5, <2>6
<1>6. m \in Sizes
  <2>0. call.n \in Int /\ MinWords - 1 \in Int
    <3>1. call.n \in Nat
      BY <1>4, SizeFacts
    <3> QED  BY ONLY <1>5, <3>1
  <2>1. Max({call.n, MinWords - 1}) = IF call.n >= MinWords - 1 THEN call.n ELSE MinWords - 1
    BY ONLY <2>0, MaxPair
  <2> DEFINE M == Max({call.n, MinWords - 1})
  <2>2. M + 1 = m
    <3>1. M = call.n
      BY ONLY <1>4, <2>1
    <3> QED  BY ONLY <3>1
  <2>3. Max({call.n, MinWords - 1}) + 1 \in Sizes
    BY <1>4 DEF Sizes
  <2> QED  BY <2>2, <2>3
<1>7. /\ heap' = [heap EXCEPT !.hdr = Write(@, lo, m)]
      /\ held' = held \cup {lo} /\ resv' = [lo |-> z, n |-> s - m - 1]
      /\ call' = Idle /\ memory' = memory /\ sep' = sep
  <2>0. call.n \in Nat
    BY <1>4, SizeFacts
  <2>1. lo + call.n + 1 = z
    BY ONLY <1>3, <2>0
  <2> QED  BY <1>5, <2>1 DEF Carve
<1>8. resv'.lo = z /\ resv'.n = s - m - 1 /\ resv'.n # 0 /\ resv'.n + 1 = s - m
  BY <1>5, <1>7
<1>9. /\ Wrote(heap', heap, lo, m) /\ heap'.list = heap.list
      /\ heap'.nnet = heap.nnet /\ heap'.nmem = heap.nmem
  BY <1>1, <1>7 DEF Sound, Typed, Wrote
<1> HIDE DEF s, m, z, v, w
<1>10. /\ DOMAIN heap'.hdr = DOMAIN heap.hdr \cup {lo} /\ heap'.hdr[lo] = m
       /\ \A y \in DOMAIN heap.hdr \ {lo} : heap'.hdr[y] = heap.hdr[y]
       /\ Sound(heap', F) /\ Topped(heap', 0)
  <2> DEFINE h == heap'
  <2>1. Wrote(h, heap, lo, m)
    BY <1>9
  <2> HIDE DEF lo, F, h
  <2>2. lo \notin F
    BY ONLY <1>3
  <2>3. WroteSound(h, heap, F, lo, m)
    BY ONLY <1>1, <1>3, <1>5, <2>1, <2>2, WriteSound
  <2>4. /\ DOMAIN h.hdr = DOMAIN heap.hdr \cup {lo} /\ h.hdr[lo] = m
        /\ \A y \in DOMAIN heap.hdr \ {lo} : h.hdr[y] = heap.hdr[y]
        /\ Sound(h, F) /\ Topped(h, 0)
    BY ONLY <1>1, <2>3 DEF WroteSound
  <2> QED  BY <2>4 DEF h
<1>11. FreeBlocks' = F /\ Blocks' = Range(w)
  <2>1. FreeBlocks' = F
    BY <1>10, FreeBlocksAre
  <2> QED  BY <2>1, BlocksAre DEF w
<1>12. /\ DOMAIN v = DOMAIN heap.hdr \cup {lo} /\ v[lo] = b
       /\ \A y \in DOMAIN v : v[y].lo = y
       /\ \A y \in DOMAIN heap.hdr : y # lo =>
            v[y] = [kind |-> IF y \in F THEN "free" ELSE IF y \in held THEN "used" ELSE "sep",
                    lo |-> y, size |-> heap.hdr[y]]
  <2>1. Mapped(v, heap.hdr, F, held, resv)
    BY MapFacts DEF Map, v
  <2> QED  BY <1>3, <2>1 DEF Mapped, s
<1>13. z \notin DOMAIN v /\ z # lo
  <2>1. BP!Good(Range(v))
    BY <1>1 DEF v
  <2>2. \A y \in DOMAIN v : /\ y \in Nat /\ v[y].size \in Nat /\ v[y].size >= MinWords
                            /\ y # lo => lo + v[lo].size <= y \/ y + v[y].size <= lo
    BY <1>12, <2>1, MapGood
  <2>3. v[lo].size = s
    BY <1>12
  <2>4. z = lo + m
    BY DEF z
  <2> QED  BY <1>3, <1>5, <2>2, <2>3, <2>4
<1>14. /\ DOMAIN w = DOMAIN heap'.hdr \cup {z}
       /\ \A y \in DOMAIN w : w[y].lo = y
       /\ w[z] = q
       /\ \A y \in DOMAIN heap'.hdr : y # z =>
            w[y] = [kind |-> IF y \in F THEN "free" ELSE IF y \in held' THEN "used" ELSE "sep",
                    lo |-> y, size |-> heap'.hdr[y]]
  <2> DEFINE f == heap'.hdr
             H == held'
             r == resv'
  <2>1. r.lo = z /\ r.n # 0 /\ r.n + 1 = s - m
    BY <1>8
  <2>2. Mapped(w, f, F, H, r)
    BY MapFacts DEF w
  <2> HIDE DEF f, H, r
  <2>3. /\ DOMAIN w = DOMAIN f \cup {z}
        /\ \A y \in DOMAIN w : w[y].lo = y
        /\ w[z] = q
        /\ \A y \in DOMAIN f : y # z =>
             w[y] = [kind |-> IF y \in F THEN "free" ELSE IF y \in H THEN "used" ELSE "sep",
                     lo |-> y, size |-> f[y]]
    BY ONLY <2>1, <2>2 DEF Mapped
  <2> QED  BY <2>3 DEF f, H, r
<1>15. w[lo] = p
  BY <1>3, <1>7, <1>10, <1>13, <1>14
<1>16. ASSUME NEW y \in DOMAIN heap.hdr, y # lo PROVE w[y] = v[y]
  <2>1. y \in DOMAIN heap'.hdr /\ y # z /\ heap'.hdr[y] = heap.hdr[y]
        /\ (y \in held' <=> y \in held)
    BY <1>7, <1>10, <1>12, <1>13, <1>16
  <2> DEFINE B(t, k) == [kind |-> IF y \in F THEN "free" ELSE IF k THEN "used" ELSE "sep",
                         lo |-> y, size |-> t]
  <2>2. w[y] = B(heap'.hdr[y], y \in held')
    BY <1>14, <2>1
  <2>3. v[y] = B(heap.hdr[y], y \in held)
    BY <1>12, <1>16
  <2> QED  BY ONLY <2>1, <2>2, <2>3
<1>17. Patched(w, v, {lo}, {lo, z})
  <2>1. DOMAIN w = (DOMAIN v \ {lo}) \cup {lo, z}
    BY <1>10, <1>12, <1>14
  <2>2. {lo, z} \cap (DOMAIN v \ {lo}) = {}
    BY <1>13
  <2>3. \A y \in DOMAIN v \ {lo} : w[y] = v[y]
    BY <1>12, <1>16
  <2> QED  BY <1>12, <2>1, <2>2, <2>3 DEF Patched
<1>18. Blocks' = (Blocks \ {b}) \cup {p, q} /\ b \in Blocks
  <2>1. Range(w) = (Range(v) \ {v[y] : y \in {lo}}) \cup {w[y] : y \in {lo, z}}
    BY <1>17, MapPatch
  <2>2. {v[y] : y \in {lo}} = {v[lo]} /\ {w[y] : y \in {lo, z}} = {w[lo], w[z]}
    OBVIOUS
  <2>3. v[lo] \in Range(v)
    BY <1>12, MapRangeFacts
  <2>4. Blocks = Range(v)
    BY <1>1 DEF v
  <2> HIDE DEF b, p, q
  <2> QED  BY <1>11, <1>12, <1>14, <1>15, <2>1, <2>2, <2>3, <2>4
<1>19. BP!Carve(b, m)
  BY <1>5, <1>7, <1>18 DEF BP!Carve, z
<1>20. Sound(heap, FreeBlocks)' /\ Topped(heap, 0)'
  BY <1>10, <1>11 DEF Sound, Typed, Lists, Chains, Topped
<1>21. Owned'
  <2>1. held' \subseteq DOMAIN heap'.hdr /\ held' \cap F = {}
    BY <1>3, <1>7, <1>10
  <2>2. z \notin held' \cup F
    <3>1. F \subseteq DOMAIN heap.hdr
      BY <1>1 DEF Sound
    <3> QED  BY <1>3, <1>7, <1>12, <1>13, <3>1
  <2>3. resv' = [lo |-> resv'.lo, n |-> resv'.n]
    BY <1>7
  <2> QED  BY <1>5, <1>8, <1>11, <2>1, <2>2, <2>3 DEF Owned
<1>22. Seps'
  <2>1. \A c \in Blocks : c.kind = "sep" => c \in Blocks'
    BY <1>18
  <2> QED  BY <1>2, <1>7, <2>1, SepsKept
<1>23. Counted'
  <2>1. FreeCover(Blocks') = FreeCover(Blocks)
    <3> DEFINE bs == Blocks
               cs == Blocks'
    <3>1. \A c \in bs \cup cs : c.kind = "free" => (c \in bs <=> c \in cs)
      BY <1>18
    <3> HIDE DEF bs, cs
    <3>2. FreeCover(bs) = FreeCover(cs)
      BY ONLY <3>1, CoverSame
    <3> QED  BY <3>2 DEF bs, cs
  <2> QED  BY <1>2, <1>7, <1>9, <2>1 DEF Counted
<1>24. Caller' /\ Searched'
  BY <1>7 DEF Caller, Searched, Idle
<1> HIDE DEF b
<1>25. \E x \in Blocks, k \in Sizes : BP!Carve(x, k)
  BY <1>6, <1>18, <1>19
<1> QED  BY <1>20, <1>21, <1>22, <1>23, <1>24, <1>25 DEF Tables

\* Steps of the search: the tables and the blocks stay as they are, but for the
\* bound on the lists that may hold a block.
Quiet ==
  /\ heap'.hdr = heap.hdr /\ heap'.list = heap.list /\ heap'.chain = heap.chain
  /\ heap'.nnet = heap.nnet /\ heap'.nmem = heap.nmem
  /\ memory' = memory /\ sep' = sep /\ held' = held /\ resv' = resv

LEMMA QuietStep ==
  ASSUME HInv, Quiet, Typed(heap'), Topped(heap', 0)
  PROVE  /\ (Sound(heap, FreeBlocks) /\ Topped(heap, 0) /\ Owned /\ Seps /\ Counted)'
         /\ Blocks' = Blocks /\ FreeBlocks' = FreeBlocks
<1>1. Blocks' = Blocks /\ FreeBlocks' = FreeBlocks
  BY BlocksKept DEF Quiet
<1>2. Sound(heap', FreeBlocks)
  <2>1. Sound(heap, FreeBlocks)
    BY StateFacts
  <2>2. FreeBlocks \subseteq DOMAIN heap'.hdr
    BY <2>1 DEF Sound, Quiet
  <2> DEFINE h == heap'
  <2>3. h.hdr = heap.hdr /\ h.list = heap.list /\ h.chain = heap.chain
    BY DEF Quiet
  <2> HIDE DEF h
  <2>4. Typed(h) /\ FreeBlocks \subseteq DOMAIN h.hdr
    BY <2>2 DEF h
  <2>5. Sound(h, FreeBlocks)
    BY <2>1, <2>3, <2>4, SoundSame
  <2> QED  BY <2>5 DEF h
<1>3. Sound(heap, FreeBlocks)' /\ Topped(heap, 0)'
  BY <1>1, <1>2 DEF Sound, Typed, Lists, Chains, Topped
<1>4. Owned /\ Seps /\ Counted
  BY DEF HInv, Tables
<1>5. Owned'
  BY <1>1, <1>4 DEF Owned, Quiet
<1>6. Seps'
  BY <1>1, <1>4, SepsKept DEF Quiet
<1>7. Counted'
  BY <1>1, <1>4 DEF Counted, Quiet
<1> QED  BY <1>1, <1>3, <1>5, <1>6, <1>7

\* The common case: the tables do not change at all.
LEMMA SameTables ==
  ASSUME HInv, UNCHANGED <<heap, memory, sep, held, resv>>
  PROVE  /\ (Sound(heap, FreeBlocks) /\ Topped(heap, 0) /\ Owned /\ Seps /\ Counted)'
         /\ Blocks' = Blocks /\ FreeBlocks' = FreeBlocks
<1>1. Typed(heap') /\ Topped(heap', 0) /\ Quiet
  BY StateFacts DEF Sound, Quiet
<1> QED  BY <1>1, QuietStep

LEMMA KtalocStep ==
  ASSUME HInv, NEW n \in Requests, Ktaloc(n)
  PROVE  Tables' /\ UNCHANGED <<Blocks, memory>>
<1>1. call' = [op |-> "ktaloc", n |-> n, m |-> Words(n), at |-> "small"]
  BY DEF Ktaloc, Search, Words
<1>2. Caller'
  <2>1. call'.n = n /\ call'.at = "small"
    BY <1>1
  <2> QED  BY <1>1, <2>1 DEF Caller
<1>3. Searched'
  <2>1. call'.at = "small"
    BY <1>1
  <2> QED  BY <2>1 DEF Searched
<1>4. UNCHANGED <<heap, memory, sep, held, resv>>
  BY DEF Ktaloc
<1> QED  BY <1>2, <1>3, <1>4, SameTables DEF Tables

LEMMA KtalocrStep ==
  ASSUME HInv, NEW n \in Requests, Ktalocr(n)
  PROVE  Tables' /\ UNCHANGED <<Blocks, memory>>
<1>1. CASE n > NResv - (MinWords + 1)
  <2>1. call' = [op |-> "ktaloc", n |-> n, m |-> Words(n), at |-> "small"]
    BY <1>1 DEF Ktalocr, Search, Words
  <2>2. call'.n = n /\ call'.at = "small"
    BY <2>1
  <2>3. Caller' /\ Searched'
    BY <2>1, <2>2 DEF Caller, Searched
  <2>4. UNCHANGED <<heap, memory, sep, held, resv>>
    BY DEF Ktalocr
  <2> QED  BY <2>3, <2>4, SameTables DEF Tables
<1>2. CASE ~ n > NResv - (MinWords + 1)
  <2>1. call' = [op |-> "ktalocr", n |-> n, m |-> NResv + 1, at |-> "resv"]
    BY <1>2 DEF Ktalocr
  <2>2. call'.n = n /\ call'.at = "resv"
    BY <2>1
  <2>3. n >= MinWords - 1 /\ n <= NResv - (MinWords + 1)
    BY <1>2, SizeFacts DEF Ktalocr
  <2>4. Caller' /\ Searched'
    BY <2>1, <2>2, <2>3 DEF Caller, Searched
  <2>5. UNCHANGED <<heap, memory, sep, held, resv>>
    BY DEF Ktalocr
  <2> QED  BY <2>4, <2>5, SameTables DEF Tables
<1> QED  BY <1>1, <1>2

LEMMA NewReserveStep ==
  ASSUME HInv, NewReserve
  PROVE  Tables' /\ UNCHANGED <<Blocks, memory>>
<1>1. UNCHANGED <<heap, memory, sep, held, resv>> /\ call.at = "resv" /\ resv.n = 0
      /\ call' = [call EXCEPT !.at = "small"]
  BY DEF NewReserve
<1>2. /\ call.op = "ktalocr" /\ call.m = NResv + 1
      /\ call.n \in Requests /\ call.n >= MinWords - 1
      /\ call.n <= NResv - (MinWords + 1)
      /\ call = [op |-> call.op, n |-> call.n, m |-> call.m, at |-> call.at]
  <2>1. Caller /\ call.at # "none" /\ call.at = "resv"
    BY <1>1 DEF HInv, Tables
  <2> QED  BY <2>1, CallFacts
<1>3. resv = NoResv
  <2>1. resv.n \in MinWords..NResv => resv.n # 0
    BY SizeFacts
  <2> QED  BY <1>1, <2>1 DEF HInv, Tables, Owned
<1>4. call' = [op |-> "ktalocr", n |-> call.n, m |-> NResv + 1, at |-> "small"]
  BY <1>1, <1>2
<1>5. call'.n = call.n /\ call'.at = "small"
  BY <1>4
<1>6. Caller' /\ Searched'
  BY <1>1, <1>2, <1>3, <1>4, <1>5 DEF Caller, Searched
<1> QED  BY <1>1, <1>6, SameTables DEF Tables

\* A call that goes on elsewhere keeps what it asks for.
LEMMA MovedOn ==
  ASSUME HInv, NEW at \in {"big", "grow"}, call.at \in {"small", "big", "grow"},
         call' = [call EXCEPT !.at = at], resv' = resv
  PROVE  Caller' /\ call'.at = at /\ call'.m = call.m
<1>1. Caller /\ call.at # "none" /\ call.at # "resv"
  BY DEF HInv, Tables
<1>2. /\ call = [op |-> call.op, n |-> call.n, m |-> call.m, at |-> call.at]
      /\ call' = [op |-> call.op, n |-> call.n, m |-> call.m, at |-> at]
  BY <1>1, CallFacts
<1>3. call'.at = at /\ call'.m = call.m /\ call'.n = call.n /\ call'.op = call.op
  BY <1>2
<1>4. call # Idle /\ call # Crashed
  BY <1>1 DEF Idle, Crashed
<1>5. CASE /\ call.n \in Requests /\ call.at \in {"small", "big", "grow"}
           /\ call = [op |-> "ktaloc", n |-> call.n, m |-> Words(call.n), at |-> call.at]
  <2>1. call.op = "ktaloc" /\ call.m = Words(call.n)
    BY <1>5
  <2>2. call' = [op |-> "ktaloc", n |-> call'.n, m |-> Words(call'.n), at |-> call'.at]
    BY <1>2, <1>3, <2>1
  <2> QED  BY <1>3, <1>5, <2>2 DEF Caller
<1>6. CASE /\ call.n \in Requests /\ call.at \in {"resv", "small", "big", "grow"}
           /\ call.n >= MinWords - 1 /\ call.n <= NResv - (MinWords + 1)
           /\ call = [op |-> "ktalocr", n |-> call.n, m |-> NResv + 1, at |-> call.at]
           /\ call.at # "resv" => resv = NoResv
  <2>1. call.op = "ktalocr" /\ call.m = NResv + 1 /\ resv = NoResv
    BY <1>1, <1>6
  <2>2. call' = [op |-> "ktalocr", n |-> call'.n, m |-> NResv + 1, at |-> call'.at]
    BY <1>2, <1>3, <2>1
  <2> QED  BY <1>3, <1>6, <2>1, <2>2 DEF Caller
<1> QED  BY <1>1, <1>3, <1>4, <1>5, <1>6 DEF Caller

LEMMA BigFailsStep ==
  ASSUME HInv, BigFails
  PROVE  Tables' /\ UNCHANGED <<Blocks, memory>>
<1>1. /\ UNCHANGED <<heap, memory, sep, held, resv>> /\ call.at = "big" /\ Fitting = {}
      /\ call' = [call EXCEPT !.at = "grow"]
  BY DEF BigFails
<1>2. Caller' /\ call'.at = "grow" /\ call'.m = call.m
  BY <1>1, MovedOn
<1>3. Blocks' = Blocks /\ FreeBlocks' = FreeBlocks
  BY <1>1, SameTables
<1>4. Fitting' = {}
  BY <1>1, <1>2 DEF Fitting, Fits
<1>5. \A lo \in FreeBlocks :
         call.m <= NIndex /\ heap.hdr[lo] <= NIndex =>
           heap.hdr[lo] # call.m /\ heap.hdr[lo] < call.m + MinSeg1
  BY <1>1 DEF HInv, Tables, Searched
<1>6. Searched'
  BY <1>1, <1>2, <1>3, <1>4, <1>5 DEF Searched
<1> QED  BY <1>1, <1>2, <1>6, SameTables DEF Tables

LEMMA OutOfMemoryStep ==
  ASSUME HInv, OutOfMemory
  PROVE  Tables' /\ UNCHANGED <<Blocks, memory>>
<1>1. UNCHANGED <<heap, memory, sep, held, resv>> /\ (call' = Idle \/ call' = Crashed)
  BY DEF OutOfMemory
<1>2. Caller' /\ Searched'
  BY <1>1 DEF Caller, Searched, Idle, Crashed
<1> QED  BY <1>1, <1>2, SameTables DEF Tables

\* A free block of a size with a list is in it.
LEMMA ListNotEmpty ==
  ASSUME NEW h, NEW F, Sound(h, F), NEW lo \in F, h.hdr[lo] <= NIndex
  PROVE  h.hdr[lo] \in 1..NIndex /\ h.list[h.hdr[lo]] # <<>>
<1> DEFINE k == h.hdr[lo]
<1>1. k \in Nat /\ k >= MinWords
  BY FreeFacts
<1>2. k \in 1..NIndex /\ k \in 1..Big /\ ListOf(k) = k
  BY <1>1, SizeFacts, ListOfFacts
<1>3. lo \in Range(h.list[k])
  BY <1>2, ListFacts
<1>4. Range(<<>>) = {}
  BY DEF Range
<1> QED  BY <1>2, <1>3, <1>4

LEMMA SmallFailsStep ==
  ASSUME HInv, SmallFails
  PROVE  Tables' /\ UNCHANGED <<Blocks, memory>>
<1> DEFINE F == FreeBlocks
           top == IF call.m <= NIndex /\ First <= heap.maxic THEN First - 1 ELSE heap.maxic
           h == [heap EXCEPT !.maxic = top]
<1>1. /\ heap' = h /\ call.at = "small" /\ call' = [call EXCEPT !.at = "big"]
      /\ UNCHANGED <<memory, sep, held, resv>>
      /\ call.m <= NIndex => heap.list[call.m] = <<>> /\ NearLists = {} /\ FarLists = {}
  BY DEF SmallFails
<1>2. Sound(heap, F) /\ Topped(heap, 0)
  BY StateFacts
<1>3. Caller' /\ call'.at = "big" /\ call'.m = call.m
  BY <1>1, MovedOn
<1>4. heap.maxic \in 0..NIndex
  BY <1>2 DEF Sound, Typed
<1>5. ASSUME call.m <= NIndex, NEW d \in 1..NIndex, heap.list[d] # <<>>
      PROVE  d < First /\ d # call.m /\ First \in Nat /\ First <= call.m + MinSeg1
  <2>1. /\ First \in Nat /\ First <= call.m + MinSeg1
        /\ Limit \in Int /\ Limit <= heap.maxic - 1
    BY <1>1, <1>5, SearchFacts DEF Small
  <2>2. d <= heap.maxic
    BY <1>2, <1>5, SizeFacts DEF Topped
  <2> DEFINE from == Max({First, Limit + 1})
  <2>3. from = IF First >= Limit + 1 THEN First ELSE Limit + 1
    BY <2>1, MaxPair
  <2>4. d \notin First..Limit /\ d \notin from..heap.maxic
    BY <1>1, <1>5 DEF NearLists, FarLists, Filled
  <2> HIDE DEF from
  <2>5. d < First
    BY <1>4, <2>1, <2>2, <2>3, <2>4
  <2> QED  BY <1>1, <1>5, <2>1, <2>5
<1>6. top \in 0..NIndex
  <2>1. CASE call.m <= NIndex /\ First <= heap.maxic
    <3>1. First \in Nat /\ First >= call.m + MinWords /\ call.m \in Nat
      BY <1>1, <2>1, SearchFacts DEF Small
    <3> QED  BY <1>4, <2>1, <3>1, SizeFacts
  <2> QED  BY <1>4, <2>1
<1>7. ASSUME NEW d \in 1..NIndex, heap.list[d] # <<>> PROVE d <= top
  <2>1. d <= heap.maxic
    BY <1>2, <1>7, SizeFacts DEF Topped
  <2>2. call.m <= NIndex => d < First /\ First \in Nat
    BY <1>5, <1>7
  <2> QED  BY <2>1, <2>2
<1> HIDE DEF top
<1>8. /\ h.hdr = heap.hdr /\ h.list = heap.list /\ h.chain = heap.chain
      /\ h.maxic = top /\ h.nnet = heap.nnet /\ h.nmem = heap.nmem
      /\ h = [hdr |-> h.hdr, list |-> h.list, chain |-> h.chain,
              maxic |-> h.maxic, nnet |-> h.nnet, nmem |-> h.nmem]
  BY <1>2 DEF Sound, Typed
<1> HIDE DEF h
<1>9. Typed(h) /\ Topped(h, 0)
  BY <1>2, <1>6, <1>7, <1>8 DEF Sound, Typed, Topped
<1>10. Typed(heap') /\ Topped(heap', 0) /\ Quiet
  BY <1>1, <1>8, <1>9 DEF Quiet
<1>11. /\ (Sound(heap, FreeBlocks) /\ Topped(heap, 0) /\ Owned /\ Seps /\ Counted)'
       /\ Blocks' = Blocks /\ FreeBlocks' = FreeBlocks
  BY <1>10, QuietStep
<1>12. Searched'
  <2>1. ASSUME NEW lo \in F, call.m <= NIndex, heap.hdr[lo] <= NIndex
        PROVE  heap.hdr[lo] # call.m /\ heap.hdr[lo] < call.m + MinSeg1
    <3> DEFINE d == heap.hdr[lo]
    <3>1. d \in 1..NIndex /\ heap.list[d] # <<>>
      BY <1>2, <2>1, ListNotEmpty
    <3> HIDE DEF d
    <3>2. d < First /\ d # call.m /\ First \in Nat /\ First <= call.m + MinSeg1
      BY <1>5, <2>1, <3>1
    <3>3. call.m \in Nat /\ MinSeg1 \in Nat
      BY <1>1, SizeFacts, CallFacts DEF HInv, Tables
    <3>4. d # call.m /\ d < call.m + MinSeg1
      BY <3>1, <3>2, <3>3
    <3> QED  BY <3>4 DEF d
  <2>2. heap'.hdr = heap.hdr
    BY <1>1, <1>8
  <2> QED  BY <1>3, <1>11, <2>1, <2>2 DEF Searched
<1> QED  BY <1>1, <1>3, <1>11, <1>12 DEF Tables

-----------------------------------------------------------------------------
(* talocp.                                                                 *)

\* The separator that ends where the chunk starts.
LEMMA HitFacts ==
  ASSUME Seps, NEW a
  PROVE  /\ Hit(a) \in 0..Len(sep)
         /\ Hit(a) # 0 => sep[Hit(a)].lo + MinWords = a
<1> DEFINE I == {i \in 1..Len(sep) : sep[i].lo + MinWords = a}
<1>1. Hit(a) = IF I # {} THEN Min(I) ELSE 0
  BY DEF Hit, SelectInSeq
<1>2. Len(sep) \in Nat
  BY DEF Seps
<1>3. CASE I = {}
  <2> HIDE DEF I
  <2> QED  BY <1>1, <1>2, <1>3
<1>4. CASE I # {}
  <2>1. I \in SUBSET Nat
    BY <1>2
  <2> HIDE DEF I
  <2>2. Min(I) \in I /\ Hit(a) = Min(I)
    BY <1>1, <1>4, <2>1, Least
  <2> QED  BY <1>2, <2>2 DEF I
<1> QED  BY <1>3, <1>4

LEMMA SepTyped ==
  ASSUME Seps, NEW k \in DOMAIN sep
  PROVE  sep[k].lo \in Nat /\ sep[k].age \in 1..SepAge
<1> DEFINE T == [lo : Nat, age : 1..SepAge]
<1>1. sep \in Seq(T)
  BY DEF Seps
<1> HIDE DEF T
<1>2. sep[k] \in T
  BY <1>1
<1> QED  BY <1>2 DEF T

\* The separators that stay in the list: each is an older one, none is the one
\* used, and the ages still decrease.
Stays(r, f, a) ==
  /\ r \in Seq([lo : Nat, age : 1..SepAge])
  /\ \A i \in 1..Len(r) : /\ f[i] \in DOMAIN sep /\ f[i] # Hit(a)
                          /\ r[i].lo = sep[f[i]].lo /\ r[i].age < SepAge
  /\ \A i, j \in 1..Len(r) : i < j => f[i] < f[j] /\ r[i].age > r[j].age

LEMMA RemainingFacts ==
  ASSUME Seps, NEW a
  PROVE  \E f : Stays(Remaining(a), f, a)
<1> DEFINE n    == Len(sep)
           p    == Hit(a)
           last == IF p = 0 THEN n ELSE p
           dead == IF p # 0 THEN p
                   ELSE IF n # 0 /\ sep[n].age <= 1 THEN n ELSE 0
           E(g) == [k \in 0..n |->
                      k \in 1..last /\ (k = p \/ sep[k].age <= 1) /\ ~ g[k - 1]]
           gone == CHOOSE g : g = E(g)
           kept == {k \in 1..n : ~ gone[k]}
           c    == Cardinality(kept)
           aged(k) == IF k <= last /\ k # p THEN [sep[k] EXCEPT !.age = @ - 1] ELSE sep[k]
           Increasing(s) == \A i, j \in DOMAIN s : i < j => s[i] < s[j]
           order == CHOOSE s \in [1..c -> kept] : Increasing(s)
           r == Remaining(a)
<1>1. r = [i \in 1..c |-> aged(order[i])]
  BY DEF Remaining
<1>2. /\ n \in Nat /\ DOMAIN sep = 1..n /\ SepAge \in Nat
      /\ \A k \in 1..n : /\ sep[k] = [lo |-> sep[k].lo, age |-> sep[k].age]
                         /\ sep[k].lo \in Nat /\ sep[k].age \in 1..SepAge
      /\ \A j, k \in 1..n : j < k => sep[j].age > sep[k].age
  <2>1. sep \in Seq([lo : Nat, age : 1..SepAge])
    BY DEF Seps
  <2>2. n \in Nat /\ DOMAIN sep = 1..n /\ \A k \in 1..n : sep[k] \in [lo : Nat, age : 1..SepAge]
    <3> DEFINE T == [lo : Nat, age : 1..SepAge]
    <3> HIDE DEF T
    <3>1. sep \in Seq(T)
      BY <2>1 DEF T
    <3>2. n \in Nat /\ DOMAIN sep = 1..n /\ \A k \in 1..n : sep[k] \in T
      BY ONLY <3>1
    <3> QED  BY <3>2 DEF T
  <2> QED  BY <2>2, SizeFacts DEF Seps
<1>3. p \in 0..n
  BY HitFacts
<1> HIDE DEF n, p
<1>4. last \in 0..n /\ dead \in 0..n /\ (p # 0 => last = p /\ dead = p) /\ (p = 0 => last = n)
  BY <1>2, <1>3
<1>5. ASSUME NEW k \in 1..n, sep[k].age <= 1 PROVE k = n
  <2>1. CASE k < n
    <3>1. sep[k].age > sep[n].age /\ sep[n].age >= 1 /\ sep[k].age \in Nat /\ sep[n].age \in Nat
      BY <1>2, <2>1
    <3> QED  BY <1>5, <3>1
  <2> QED  BY <1>2, <2>1
<1>6. \A k \in 0..n : (k \in 1..last /\ (k = p \/ sep[k].age <= 1)) <=> k = dead /\ dead # 0
  BY <1>2, <1>3, <1>4, <1>5
<1>7. gone = E(gone)
  <2> DEFINE g == [k \in 0..n |-> k = dead /\ dead # 0]
  <2>1. \A k \in 1..n : ~ (k = dead /\ k - 1 = dead)
    BY <1>2
  <2>2. g = E(g)
    <3> HIDE DEF last, dead
    <3>1. ASSUME NEW k \in 0..n PROVE g[k] = E(g)[k]
      <4>1. CASE k = dead /\ dead # 0
        <5>1. k - 1 \in 0..n /\ k - 1 # dead
          BY <1>2, <4>1
        <5>2. g[k] = TRUE /\ g[k - 1] = FALSE
          BY <4>1, <5>1
        <5> QED  BY <1>6, <4>1, <5>2
      <4>2. CASE ~ (k = dead /\ dead # 0)
        <5>1. g[k] = FALSE
          BY <4>2
        <5> QED  BY <1>6, <4>2, <5>1
      <4> QED  BY <4>1, <4>2
    <3> QED  BY <3>1
  <2> HIDE DEF g, E
  <2> QED  BY <2>2
<1> HIDE DEF gone, last, dead
<1>8. \A k \in 1..n : gone[k] <=> k = dead
  <2>1. \A k \in 0..n : gone[k] = (/\ k \in 1..last /\ (k = p \/ sep[k].age <= 1)
                                   /\ ~ gone[k - 1])
    BY <1>7
  <2>2. ASSUME NEW k \in 0..n, ~ (k = dead /\ dead # 0) PROVE ~ gone[k]
    BY <1>6, <2>1, <2>2
  <2>3. ASSUME dead # 0 PROVE gone[dead]
    <3>1. dead - 1 \in 0..n /\ dead - 1 # dead
      BY <1>2, <1>4, <2>3
    <3>2. ~ gone[dead - 1]
      BY <2>2, <3>1
    <3> QED  BY <1>4, <1>6, <2>1, <2>3, <3>2
  <2> QED  BY <2>2, <2>3
<1>9. kept = (1..n) \ {dead}
  BY <1>8
<1> HIDE DEF kept
<1>10. c = IF dead = 0 THEN n ELSE n - 1
  <2>1. IsFiniteSet(1..n) /\ Cardinality(1..n) = n
    <3>1. 1 \in Int /\ n \in Int
      BY <1>2
    <3>2. IsFiniteSet(1..n) /\ Cardinality(1..n) = IF 1 > n THEN 0 ELSE n - 1 + 1
      BY ONLY <3>1, FS_Interval
    <3> QED  BY <1>2, <3>2
  <2>2. CASE dead = 0
    <3>1. kept = 1..n
      BY <1>9, <2>2
    <3> QED  BY ONLY <2>1, <2>2, <3>1 DEF c
  <2>3. CASE dead # 0
    <3>1. dead \in 1..n
      BY <1>4, <2>3
    <3>2. Cardinality((1..n) \ {dead}) = Cardinality(1..n) - 1
      BY ONLY <2>1, <3>1, FS_RemoveElement
    <3> QED  BY ONLY <1>9, <2>1, <2>3, <3>2 DEF c
  <2> QED  BY <2>2, <2>3
<1> HIDE DEF c
<1>11. c \in Nat /\ c <= n
  BY <1>2, <1>4, <1>10
<1>12. order \in [1..c -> kept] /\ Increasing(order)
  <2> DEFINE s == [i \in 1..c |-> IF dead = 0 \/ i < dead THEN i ELSE i + 1]
  <2>1. s \in [1..c -> kept]
    <3>1. ASSUME NEW i \in 1..c PROVE (IF dead = 0 \/ i < dead THEN i ELSE i + 1) \in kept
      BY <1>2, <1>4, <1>9, <1>10
    <3> QED  BY <3>1
  <2>2. Increasing(s)
    BY <1>4, <1>11
  <2> HIDE DEF s, Increasing
  <2> QED  BY <2>1, <2>2
<1> HIDE DEF order
<1>13. \A i \in 1..c : order[i] \in 1..n /\ order[i] # dead
  BY <1>9, <1>12
<1>14. \A i, j \in 1..c : i < j => order[i] < order[j]
  BY <1>12
<1>15. ASSUME NEW k \in 1..n, k # dead
       PROVE  /\ k # p /\ aged(k) \in [lo : Nat, age : 1..SepAge]
              /\ aged(k).lo = sep[k].lo /\ aged(k).age < SepAge
              /\ aged(k).age = IF k <= last THEN sep[k].age - 1 ELSE sep[k].age
  <2>1. k # p
    BY <1>4, <1>15
  <2>2. CASE k <= last
    <3>1. sep[k].age > 1
      BY <1>2, <1>4, <1>6, <1>15, <2>2
    <3>2. aged(k) = [lo |-> sep[k].lo, age |-> sep[k].age - 1]
      BY <1>2, <2>1, <2>2
    <3>3. sep[k].age - 1 \in 1..SepAge /\ sep[k].age - 1 < SepAge
      BY <1>2, <3>1
    <3> QED  BY <1>2, <2>1, <2>2, <3>2, <3>3
  <2>3. CASE ~ k <= last
    <3>1. p # 0 /\ p \in 1..n /\ p < k
      BY <1>2, <1>3, <1>4, <2>3
    <3>2. sep[p].age > sep[k].age /\ sep[p].age \in 1..SepAge /\ sep[k].age \in 1..SepAge
      BY <1>2, <3>1
    <3>3. sep[k].age < SepAge
      BY <1>2, <3>2
    <3>4. aged(k) = sep[k] /\ aged(k).age = sep[k].age
      BY <2>3
    <3> QED  BY <1>2, <2>1, <2>3, <3>3, <3>4
  <2> QED  BY <2>2, <2>3
<1>16. ASSUME NEW j \in 1..n, NEW k \in 1..n, j # dead, k # dead, j < k
       PROVE  aged(j).age > aged(k).age
  <2> DEFINE s == sep[j].age
             t == sep[k].age
             u == sep[p].age
  <2>1. s \in Int /\ t \in Int /\ s > t
    BY <1>2, <1>16
  <2>2. aged(j).age = IF j <= last THEN s - 1 ELSE s
    BY <1>15, <1>16
  <2>3. aged(k).age = IF k <= last THEN t - 1 ELSE t
    BY <1>15, <1>16
  <2>4. CASE j <= last /\ ~ k <= last
    <3>1. p # 0 /\ p \in 1..n /\ last = p /\ j # p
      BY <1>2, <1>3, <1>4, <1>16, <2>4
    <3>2. j < p /\ p < k
      BY <1>2, <1>16, <2>4, <3>1
    <3>3. s > u /\ u > t /\ u \in Int
      BY <1>2, <3>1, <3>2
    <3> HIDE DEF s, t, u, aged
    <3> QED  BY <2>1, <2>2, <2>3, <2>4, <3>3
  <2>5. CASE j <= last /\ k <= last
    <3> HIDE DEF s, t, u, aged
    <3> QED  BY <2>1, <2>2, <2>3, <2>5
  <2>6. CASE ~ j <= last
    <3>1. ~ k <= last
      BY <1>2, <1>4, <1>16, <2>6
    <3> HIDE DEF s, t, u, aged
    <3> QED  BY <2>1, <2>2, <2>3, <2>6, <3>1
  <2> QED  BY <2>4, <2>5, <2>6
<1> HIDE DEF aged, r
<1>17. /\ r \in Seq([lo : Nat, age : 1..SepAge]) /\ Len(r) = c
       /\ \A i \in 1..c : r[i] = aged(order[i])
  <2>1. \A i \in 1..c : aged(order[i]) \in [lo : Nat, age : 1..SepAge]
    BY <1>13, <1>15
  <2> DEFINE T == [lo : Nat, age : 1..SepAge]
  <2> HIDE DEF T
  <2>2. \A i \in 1..c : aged(order[i]) \in T
    BY <2>1 DEF T
  <2>3. r \in Seq(T) /\ Len(r) = c /\ \A i \in 1..c : r[i] = aged(order[i])
    BY <1>1, <1>11, <2>2
  <2> QED  BY <2>3 DEF T
<1>18. Stays(r, order, a)
  BY <1>2, <1>13, <1>14, <1>15, <1>16, <1>17 DEF Stays, p
<1> QED  BY <1>18 DEF r

\* The words of a chunk at a, the block made of them and the separator they may
\* take in, and where the new separator is.
Chunk        == ChunkWords(call.m)
ChunkIs(a)   == a .. (a + Chunk - 1)
GainLo(a)    == IF Hit(a) # 0 THEN a - MinWords ELSE a
GainSize(a)  == IF Hit(a) # 0 THEN Chunk ELSE Chunk - MinWords
Gain(a)      == [kind |-> "used", lo |-> GainLo(a), size |-> GainSize(a)]
SepLo(a)     == a + Chunk - MinWords
Absorbed(a)  == IF Hit(a) # 0 THEN {[kind |-> "sep", lo |-> GainLo(a), size |-> MinWords]}
                ELSE {}
Others(a)    == Blocks \ Absorbed(a)

\* The blocks lie in the memory, so a chunk apart from it is apart from them.
LEMMA ApartFromChunk ==
  ASSUME NEW bs, BP!Good(bs), NEW c \in bs, NEW l \in Nat, NEW e \in Nat, l <= e,
         (l..e) \cap BP!Cover(bs) = {}
  PROVE  /\ c.lo + c.size <= l \/ e < c.lo
         /\ c.lo \in BP!Cover(bs)
<1>1. c.lo \in Nat /\ c.size \in Nat /\ c.size > 0 /\ BP!Words(c) = c.lo .. (c.lo + c.size - 1)
  BY SizeFacts DEF BP!Good, BP!Block, BP!Words, BP!End
<1>2. \A y \in c.lo .. (c.lo + c.size - 1) : y \in BP!Cover(bs)
  BY <1>1 DEF BP!Cover
<1>3. c.lo \in BP!Cover(bs)
  BY <1>1, <1>2
<1>4. c.lo \notin l..e /\ l \notin c.lo .. (c.lo + c.size - 1)
  BY <1>2, <1>3
<1> QED  BY <1>1, <1>3, <1>4

LEMMA ChunkNumbers ==
  ASSUME HInv, call.at = "grow", NEW a \in ChunkAddr
  PROVE  /\ a \in Nat /\ call.m \in Nat /\ call.m >= MinWords /\ MinWords \in Nat
         /\ MinWords > 0
         /\ Chunk \in Nat /\ Chunk >= call.m + MinWords /\ Chunk - MinWords > NIndex
         /\ Chunk \in Chunks
         /\ GainLo(a) \in Nat /\ GainSize(a) \in Nat /\ GainSize(a) >= Chunk - MinWords
         /\ GainSize(a) >= MinWords /\ GainSize(a) > NIndex
         /\ SepLo(a) = GainLo(a) + GainSize(a) /\ SepLo(a) \in Nat
         /\ SepLo(a) \in ChunkIs(a) /\ GainLo(a) <= a
         /\ SepLo(a) + MinWords = a + Chunk
<1>1. /\ call.m \in Nat /\ call.m >= MinWords /\ Chunk \in Chunks
  <2>1. Caller /\ call.at # "none"
    BY DEF HInv, Tables
  <2> QED  BY <2>1, CallFacts DEF Chunk
<1>2. /\ MinWords \in Nat /\ MinWords > 0 /\ a \in Nat /\ MpSize \in Nat /\ NIndex \in Nat
      /\ MpSize - MinWords > NIndex
  BY SizeFacts
<1>3. Chunk \in Nat /\ Chunk >= call.m + MinWords /\ Chunk >= MpSize
  BY <1>1, ChunkWordsFacts DEF Chunk
<1>4. Hit(a) # 0 => a - MinWords \in Nat
  <2> SUFFICES ASSUME Hit(a) # 0 PROVE a - MinWords \in Nat
    OBVIOUS
  <2>1. Seps
    BY DEF HInv, Tables
  <2>2. Hit(a) \in DOMAIN sep /\ sep[Hit(a)].lo + MinWords = a
    BY <2>1, HitFacts DEF Seps
  <2>3. sep[Hit(a)].lo \in Nat
    BY <2>1, <2>2, SepTyped
  <2> QED  BY <1>2, <2>2, <2>3
<1> DEFINE n == Chunk
           m == call.m
<1> HIDE DEF n, m
<1>5. n \in Nat /\ m \in Nat /\ m >= MinWords /\ n >= m + MinWords /\ n >= MpSize
  BY <1>1, <1>3 DEF n, m
<1>6. /\ GainLo(a) = IF Hit(a) # 0 THEN a - MinWords ELSE a
      /\ GainSize(a) = IF Hit(a) # 0 THEN n ELSE n - MinWords
      /\ SepLo(a) = a + n - MinWords /\ ChunkIs(a) = a .. (a + n - 1)
  BY DEF GainLo, GainSize, SepLo, ChunkIs, n
<1>7. /\ GainLo(a) \in Nat /\ GainSize(a) \in Nat /\ GainSize(a) >= n - MinWords
      /\ GainSize(a) >= MinWords /\ GainSize(a) > NIndex
      /\ SepLo(a) = GainLo(a) + GainSize(a) /\ SepLo(a) \in Nat
      /\ SepLo(a) \in ChunkIs(a) /\ GainLo(a) <= a
      /\ SepLo(a) + MinWords = a + n
      /\ n - MinWords > NIndex
  BY ONLY <1>2, <1>4, <1>5, <1>6
<1> QED  BY <1>1, <1>2, <1>3, <1>7 DEF n

\* Where the block is, nothing is but the separator it takes in.
LEMMA ChunkPlace ==
  ASSUME HInv, call.at = "grow", NEW a \in ChunkAddr, ChunkIs(a) \cap memory = {}
  PROVE  /\ GainLo(a) \notin FreeBlocks \cup held
         /\ resv.n = 0 \/ resv.lo # GainLo(a)
         /\ SepLo(a) \notin DOMAIN Map
         /\ Absorbed(a) \subseteq Blocks
         /\ Hit(a) # 0 => GainLo(a) \in DOMAIN Map /\ Absorbed(a) = {Map[GainLo(a)]}
         /\ Hit(a) = 0 => GainLo(a) \notin DOMAIN Map /\ Absorbed(a) = {}
         /\ \A c \in Others(a) : BP!Apart(Gain(a), c)
         /\ Gain(a) \in BP!Block
         /\ DOMAIN heap.hdr \subseteq memory
<1> DEFINE l == GainLo(a)
           s == SepLo(a)
           S == [kind |-> "sep", lo |-> l, size |-> MinWords]
<1>1. /\ Blocks = Range(Map) /\ BP!Good(Blocks) /\ memory = BP!Cover(Blocks)
      /\ Sound(heap, FreeBlocks)
  BY StateFacts
<1>2. Owned /\ Seps
  BY DEF HInv, Tables
<1>3. /\ a \in Nat /\ MinWords \in Nat /\ MinWords > 0 /\ Chunk \in Nat
      /\ l \in Nat /\ GainSize(a) \in Nat /\ GainSize(a) >= MinWords
      /\ s = l + GainSize(a) /\ s \in Nat /\ s \in ChunkIs(a) /\ l <= a
      /\ s + MinWords = a + Chunk
  BY ChunkNumbers
<1>4. Mapped(Map, heap.hdr, FreeBlocks, held, resv)
  BY MapFacts DEF Map
<1>5. /\ \A y \in DOMAIN Map : Map[y].lo = y /\ Map[y] \in Blocks
      /\ \A c \in Blocks : c.lo \in DOMAIN Map /\ c = Map[c.lo]
  <2>1. \A y \in DOMAIN Map : Map[y].lo = y
    BY <1>4 DEF Mapped
  <2> QED  BY <1>1, <2>1, MapRangeFacts
<1>6. \A y \in DOMAIN Map : y \in memory
  <2> SUFFICES ASSUME NEW y \in DOMAIN Map PROVE y \in memory
    OBVIOUS
  <2>1. Map[y] \in Blocks /\ Map[y].lo = y
    BY <1>5
  <2>2. Map[y] \in BP!Block
    BY <1>1, <2>1 DEF BP!Good
  <2>3. y \in BP!Words(Map[y])
    BY <1>3, <2>1, <2>2 DEF BP!Block, BP!Words, BP!End
  <2> QED  BY <1>1, <2>1, <2>3 DEF BP!Cover
<1>7. s \notin DOMAIN Map
  BY <1>3, <1>6
<1>8. a \in ChunkIs(a)
  BY <1>3 DEF ChunkIs
<1>9. DOMAIN heap.hdr \subseteq DOMAIN Map /\ (resv.n = 0 \/ resv.lo \in DOMAIN Map)
  BY <1>4 DEF Mapped
<1>10. FreeBlocks \subseteq DOMAIN heap.hdr /\ held \subseteq DOMAIN heap.hdr
  BY <1>1, <1>2 DEF Sound, Owned
<1>11. ASSUME Hit(a) = 0
       PROVE  /\ l \notin FreeBlocks \cup held /\ (resv.n = 0 \/ resv.lo # l)
              /\ l \notin DOMAIN Map /\ Absorbed(a) = {}
  <2>1. l = a /\ Absorbed(a) = {}
    BY <1>11 DEF GainLo, Absorbed
  <2>2. l \notin DOMAIN Map
    BY <1>6, <1>8, <2>1
  <2> QED  BY <1>9, <1>10, <1>11, <2>1, <2>2
<1>12. ASSUME Hit(a) # 0
       PROVE  /\ l \notin FreeBlocks \cup held /\ (resv.n = 0 \/ resv.lo # l)
              /\ l \in DOMAIN Map /\ Absorbed(a) = {S} /\ S \in Blocks /\ S = Map[l]
  <2>1. l = a - MinWords /\ Absorbed(a) = {S}
    BY <1>12 DEF GainLo, Absorbed
  <2>2. Hit(a) \in DOMAIN sep /\ sep[Hit(a)].lo + MinWords = a
    BY <1>2, <1>12, HitFacts DEF Seps
  <2>3. sep[Hit(a)].lo = l
    <3>1. sep[Hit(a)].lo \in Nat
      BY <1>2, <2>2, SepTyped
    <3> QED  BY <1>3, <2>1, <2>2, <3>1
  <2>4. S \in Blocks
    BY <1>2, <2>2, <2>3 DEF Seps
  <2>5. S.lo = l /\ S.kind = "sep"
    OBVIOUS
  <2>6. l \in DOMAIN Map /\ S = Map[l]
    <3> HIDE DEF S
    <3> QED  BY <1>5, <2>4, <2>5
  <2>7. resv.n = 0 \/ resv.lo # l
    <3> SUFFICES ASSUME resv.n # 0, resv.lo = l PROVE FALSE
      OBVIOUS
    <3>1. Map[l] = [kind |-> "used", lo |-> resv.lo, size |-> resv.n + 1]
      BY <1>4 DEF Mapped
    <3>2. Map[l].kind = "used"
      BY <3>1
    <3> HIDE DEF S
    <3> QED  BY <2>5, <2>6, <3>2
  <2>8. l \in DOMAIN heap.hdr
    BY <1>4, <2>6, <2>7 DEF Mapped
  <2>9. Map[l].kind = IF l \in FreeBlocks THEN "free" ELSE IF l \in held THEN "used" ELSE "sep"
    <3> HIDE DEF l, S
    <3>1. Map[l] = [kind |-> IF l \in FreeBlocks THEN "free"
                             ELSE IF l \in held THEN "used" ELSE "sep",
                    lo |-> l, size |-> heap.hdr[l]]
      BY ONLY <1>4, <2>7, <2>8 DEF Mapped
    <3> QED  BY ONLY <3>1
  <2>10. l \notin FreeBlocks /\ l \notin held
    <3>1. Map[l].kind = "sep"
      BY <2>5, <2>6
    <3> QED  BY <2>9, <3>1
  <2> HIDE DEF S
  <2> QED  BY <2>1, <2>4, <2>6, <2>7, <2>10
<1>13. Gain(a) \in BP!Block
  BY <1>3 DEF Gain, BP!Block, BP!Kind
<1>14. ASSUME NEW c \in Others(a) PROVE BP!Apart(Gain(a), c)
  <2>1. c \in Blocks /\ c \notin Absorbed(a)
    BY DEF Others
  <2>2. c.lo \in Nat /\ c.size \in Nat /\ BP!End(c) = c.lo + c.size
    BY <1>1, <2>1 DEF BP!Good, BP!Block, BP!End
  <2> DEFINE e == a + Chunk - 1
             bs == Blocks
  <2>3. c.lo + c.size <= a \/ e < c.lo
    <3>1. e \in Nat /\ a <= e /\ a..e = ChunkIs(a)
      BY <1>3, <1>8 DEF ChunkIs
    <3>2. (a..e) \cap BP!Cover(bs) = {} /\ BP!Good(bs) /\ c \in bs /\ a \in Nat
      BY <1>1, <1>3, <2>1, <3>1
    <3> HIDE DEF e, bs
    <3> QED  BY ONLY <3>1, <3>2, ApartFromChunk
  <2>4. Gain(a).lo = l /\ BP!End(Gain(a)) = s
    BY <1>3 DEF Gain, BP!End
  <2>5. CASE e < c.lo
    <3>1. s <= c.lo
      BY <1>3, <2>2, <2>5
    <3> QED  BY <2>4, <3>1 DEF BP!Apart
  <2>6. CASE c.lo + c.size <= a
    <3>1. CASE Hit(a) = 0
      BY <2>2, <2>4, <2>6, <3>1 DEF BP!Apart, GainLo
    <3>2. CASE Hit(a) # 0
      <4>1. Absorbed(a) = {S} /\ S \in Blocks /\ l = a - MinWords
        BY <1>12, <3>2 DEF Absorbed, GainLo
      <4>2. BP!Apart(c, S)
        BY <1>1, <2>1, <4>1 DEF BP!Good, BP!Disjoint
      <4>3. S.lo = l /\ BP!End(S) = a
        BY <1>3, <4>1 DEF BP!End
      <4>4. c.lo + c.size <= l \/ a <= c.lo
        BY <2>2, <4>2, <4>3 DEF BP!Apart
      <4>5. c.lo + c.size <= l
        <5>1. c.size > 0
          BY <1>1, <1>3, <2>1 DEF BP!Good, BP!Block
        <5> QED  BY <1>3, <2>2, <2>6, <4>4, <5>1
      <4> QED  BY <2>2, <2>4, <4>5 DEF BP!Apart
    <3> QED  BY <3>1, <3>2
  <2> QED  BY <2>3, <2>5, <2>6
<1>15. DOMAIN heap.hdr \subseteq memory
  BY <1>6, <1>9
<1> HIDE DEF S
<1> QED  BY <1>7, <1>11, <1>12, <1>13, <1>14, <1>15

\* A separator does not merge with what is freed.
LEMMA FreedBeside ==
  ASSUME NEW bs, NEW x, NEW S, S.kind = "sep"
  PROVE  BP!Freed(bs \cup {S}, x) = BP!Freed(bs, x) \cup {S}
<1>1. BP!Before(bs \cup {S}, x) = BP!Before(bs, x) /\ BP!After(bs \cup {S}, x) = BP!After(bs, x)
  BY DEF BP!Before, BP!After
<1>2. BP!Merged(bs \cup {S}, x) = BP!Merged(bs, x)
  <2> DEFINE cs == bs \cup {S}
  <2> HIDE DEF cs
  <2>1. BP!Before(cs, x) = BP!Before(bs, x) /\ BP!After(cs, x) = BP!After(bs, x)
    BY <1>1 DEF cs
  <2>2. BP!Start(cs, x) = BP!Start(bs, x) /\ BP!Finish(cs, x) = BP!Finish(bs, x)
    BY ONLY <2>1 DEF BP!Start, BP!Finish
  <2>3. BP!Merged(cs, x) = BP!Merged(bs, x)
    BY ONLY <2>2 DEF BP!Merged
  <2> QED  BY <2>3 DEF cs
<1>3. S \notin BP!Before(bs, x) /\ S \notin BP!After(bs, x)
  BY DEF BP!Before, BP!After
<1> DEFINE B == BP!Before(bs, x)
           A == BP!After(bs, x)
           M == BP!Merged(bs, x)
<1>4. BP!Freed(bs \cup {S}, x) = ((bs \cup {S}) \ (B \cup A)) \cup {M}
  BY <1>1, <1>2 DEF BP!Freed
<1>5. BP!Freed(bs, x) = (bs \ (B \cup A)) \cup {M}
  BY DEF BP!Freed
<1> HIDE DEF A, B, M
<1>6. S \notin B /\ S \notin A
  BY <1>3 DEF A, B
<1> QED  BY ONLY <1>4, <1>5, <1>6

\* What talocp makes of the tables and the blocks: G is what is free now, at the
\* block the chunk has become part of.
NewSep(a) == [kind |-> "sep", lo |-> SepLo(a), size |-> MinWords]
Gained(a, at, G) ==
  /\ Sound(heap', G) /\ Topped(heap', 0) /\ FreeBlocks' = G
  /\ Blocks' = BP!Freed(Others(a), Gain(a)) \cup {NewSep(a)}
  /\ heap'.nnet = heap.nnet + Chunk - GainSize(a) /\ heap'.nmem = heap.nmem + Chunk
  /\ at \in G /\ heap'.hdr[at] >= GainSize(a)
  /\ \A y \in G \ {at} : y \in FreeBlocks /\ heap'.hdr[y] = heap.hdr[y]
  /\ held \subseteq DOMAIN heap'.hdr \ G
  /\ G \subseteq FreeBlocks \cup {GainLo(a)}

\* The tables when the header of the chunk's block is written.
Started(a) == [heap EXCEPT !.nmem = @ + Chunk, !.nnet = @ + Chunk,
                           !.hdr = Write(@, GainLo(a), GainSize(a))]

LEMMA TalocpIs ==
  ASSUME NEW a, Talocp(a)
  PROVE  /\ call.at = "grow" /\ ChunkIs(a) \cap memory = {}
         /\ memory' = memory \cup ChunkIs(a)
         /\ \E g \in Garbage :
              heap' = [Free(Started(a), GainLo(a), g) EXCEPT
                         !.hdr = Write(@, SepLo(a), MinWords)]
         /\ sep' = <<[lo |-> SepLo(a), age |-> SepAge]>> \o Remaining(a)
         /\ call' = [call EXCEPT !.at = "big"]
         /\ held' = held /\ resv' = resv
BY DEF Talocp, Chunk, ChunkIs, GainLo, GainSize, SepLo, Started

LEMMA StartedFacts ==
  ASSUME HInv, call.at = "grow", NEW a \in ChunkAddr, ChunkIs(a) \cap memory = {}
  PROVE  LET h == Started(a)
         IN  /\ Sound(h, FreeBlocks) /\ Topped(h, 0)
             /\ DOMAIN h.hdr = DOMAIN heap.hdr \cup {GainLo(a)}
             /\ h.hdr[GainLo(a)] = GainSize(a)
             /\ \A y \in DOMAIN heap.hdr \ {GainLo(a)} : h.hdr[y] = heap.hdr[y]
             /\ h.nnet = heap.nnet + Chunk /\ h.nmem = heap.nmem + Chunk
             /\ h.nnet \in Int /\ h.nmem \in Int
             /\ CanFree(h, FreeBlocks, held, resv, GainLo(a), Others(a), Gain(a))
<1> DEFINE h == Started(a)
           l == GainLo(a)
           n == GainSize(a)
           F == FreeBlocks
           v == Map
           w == BlockMap(h.hdr, F, held, resv)
<1>1. /\ Sound(heap, F) /\ Topped(heap, 0)
      /\ Blocks = Range(Map) /\ BP!Good(Blocks)
      /\ resv.n = 0 \/ resv.lo \notin F
  BY StateFacts
<1>2. l \in Nat /\ n \in Nat /\ n >= MinWords /\ Chunk \in Nat
  BY ChunkNumbers
<1>3. /\ l \notin F /\ l \notin held /\ (resv.n = 0 \/ resv.lo # l)
      /\ Absorbed(a) \subseteq Blocks
      /\ Hit(a) # 0 => l \in DOMAIN Map /\ Absorbed(a) = {Map[l]}
      /\ Hit(a) = 0 => l \notin DOMAIN Map /\ Absorbed(a) = {}
      /\ \A c \in Others(a) : BP!Apart(Gain(a), c)
  BY ChunkPlace
<1>4. heap.nnet \in Int /\ heap.nmem \in Int
  BY <1>1 DEF Sound, Typed
<1>5. /\ h.hdr = Write(heap.hdr, l, n) /\ h.list = heap.list /\ h.chain = heap.chain
      /\ h.maxic = heap.maxic /\ h.nnet = heap.nnet + Chunk /\ h.nmem = heap.nmem + Chunk
      /\ h = [hdr |-> h.hdr, list |-> h.list, chain |-> h.chain,
              maxic |-> h.maxic, nnet |-> h.nnet, nmem |-> h.nmem]
  <2> DEFINE hd == Write(heap.hdr, l, n)
             p == heap.nnet + Chunk
             q == heap.nmem + Chunk
  <2>1. h = [heap EXCEPT !.nmem = q, !.nnet = p, !.hdr = hd]
    BY DEF Started
  <2>2. heap = [hdr |-> heap.hdr, list |-> heap.list, chain |-> heap.chain,
                maxic |-> heap.maxic, nnet |-> heap.nnet, nmem |-> heap.nmem]
    BY <1>1 DEF Sound, Typed
  <2> HIDE DEF h, hd, p, q
  <2>3. h = [hdr |-> hd, list |-> heap.list, chain |-> heap.chain,
             maxic |-> heap.maxic, nnet |-> p, nmem |-> q]
    BY <2>1, <2>2
  <2>4. /\ h.hdr = hd /\ h.list = heap.list /\ h.chain = heap.chain
        /\ h.maxic = heap.maxic /\ h.nnet = p /\ h.nmem = q
        /\ h = [hdr |-> h.hdr, list |-> h.list, chain |-> h.chain,
                maxic |-> h.maxic, nnet |-> h.nnet, nmem |-> h.nmem]
    BY <2>3
  <2> QED  BY <2>4 DEF hd, p, q
<1> HIDE DEF h
<1>6. Wrote(h, heap, l, n)
  BY <1>2, <1>4, <1>5 DEF Wrote
<1>7. WroteSound(h, heap, F, l, n)
  <2>1. l \notin F
    BY <1>3
  <2> HIDE DEF l, n, F
  <2> QED  BY ONLY <1>1, <1>2, <1>6, <2>1, WriteSound
<1>8. /\ Sound(h, F) /\ Topped(h, 0)
      /\ DOMAIN h.hdr = DOMAIN heap.hdr \cup {l} /\ h.hdr[l] = n
      /\ \A y \in DOMAIN heap.hdr \ {l} : h.hdr[y] = heap.hdr[y]
  BY <1>1, <1>7 DEF WroteSound
<1>9. Mapped(v, heap.hdr, F, held, resv) /\ Mapped(w, h.hdr, F, held, resv)
  BY MapFacts DEF Map
<1> HIDE DEF v, w
<1>10. /\ DOMAIN w = DOMAIN v \cup {l}
       /\ \A y \in DOMAIN w : w[y].lo = y
       /\ \A y \in DOMAIN v : v[y].lo = y
  BY <1>8, <1>9 DEF Mapped
<1>11. ASSUME NEW y \in DOMAIN v, y # l PROVE w[y] = v[y]
  <2>1. CASE resv.n # 0 /\ y = resv.lo
    BY <1>9, <2>1 DEF Mapped
  <2>2. CASE resv.n = 0 \/ y # resv.lo
    <3>1. y \in DOMAIN heap.hdr /\ y \in DOMAIN h.hdr /\ h.hdr[y] = heap.hdr[y]
      BY <1>8, <1>9, <1>11, <2>2 DEF Mapped
    <3> DEFINE B(t) == [kind |-> IF y \in F THEN "free"
                                 ELSE IF y \in held THEN "used" ELSE "sep",
                        lo |-> y, size |-> t]
    <3>2. w[y] = B(h.hdr[y])
      BY ONLY <1>9, <2>2, <3>1 DEF Mapped
    <3>3. v[y] = B(heap.hdr[y])
      BY ONLY <1>9, <2>2, <3>1 DEF Mapped
    <3> HIDE DEF B
    <3> QED  BY ONLY <3>1, <3>2, <3>3
  <2> QED  BY <2>1, <2>2
<1>12. Others(a) = Range(w) \ {w[l]}
  <2>1. Range(w) \ {w[l]} = {w[y] : y \in DOMAIN w \ {l}}
    BY <1>10 DEF Range
  <2>2. {w[y] : y \in DOMAIN w \ {l}} = {v[y] : y \in DOMAIN v \ {l}}
    BY <1>10, <1>11
  <2>3. Range(v) = Blocks
    BY <1>1 DEF v
  <2>4. CASE Hit(a) = 0
    <3>1. l \notin DOMAIN v /\ Others(a) = Blocks
      BY <1>3, <2>4 DEF v, Others
    <3>2. {v[y] : y \in DOMAIN v \ {l}} = Range(v)
      BY <3>1 DEF Range
    <3> QED  BY <2>1, <2>2, <2>3, <3>1, <3>2
  <2>5. CASE Hit(a) # 0
    <3>1. l \in DOMAIN v /\ Others(a) = Blocks \ {v[l]}
      BY <1>3, <2>5 DEF v, Others
    <3>2. {v[y] : y \in DOMAIN v \ {l}} = Range(v) \ {v[l]}
      BY <1>10, <3>1 DEF Range
    <3> QED  BY <2>1, <2>2, <2>3, <3>1, <3>2
  <2> QED  BY <2>4, <2>5
<1>13. Others(a) \subseteq BP!Block /\ BP!Disjoint(Others(a))
  <2> DEFINE bs == Blocks
             cs == Others(a)
  <2>1. BP!Good(bs) /\ cs \subseteq bs
    BY <1>1 DEF Others
  <2> HIDE DEF bs, cs
  <2>2. cs \subseteq BP!Block /\ BP!Disjoint(cs)
    BY <2>1 DEF BP!Good, BP!Disjoint
  <2> QED  BY <2>2 DEF cs
<1>14. Gain(a) = [kind |-> "used", lo |-> l, size |-> h.hdr[l]]
  BY <1>8 DEF Gain
<1>15. CanFree(h, F, held, resv, l, Others(a), Gain(a))
  <2>1. Others(a) = Range(BlockMap(h.hdr, F, held, resv)) \ {BlockMap(h.hdr, F, held, resv)[l]}
    BY <1>12 DEF w
  <2>2. l \in DOMAIN h.hdr
    BY <1>8
  <2> HIDE DEF l, F
  <2> QED  BY ONLY <1>1, <1>3, <1>8, <1>13, <1>14, <2>1, <2>2 DEF CanFree
<1>16. h.nnet \in Int /\ h.nmem \in Int
  BY <1>2, <1>4, <1>5
<1> QED  BY <1>5, <1>8, <1>15, <1>16 DEF h

LEMMA GainedFacts ==
  ASSUME HInv, NEW a \in ChunkAddr, Talocp(a)
  PROVE  \E at, G : Gained(a, at, G)
<1> DEFINE h == Started(a)
           l == GainLo(a)
           s == SepLo(a)
           m == GainSize(a)
           F == FreeBlocks
           x == Gain(a)
           rest == Others(a)
           at == From(h, F, l)
           G == FreeAfter(h, F, l)
           k == heap'
           S == NewSep(a)
<1>1. /\ call.at = "grow" /\ ChunkIs(a) \cap memory = {}
      /\ held' = held /\ resv' = resv
  BY TalocpIs
<1>2. PICK g \in Int : k = [Free(h, l, g) EXCEPT !.hdr = Write(@, s, MinWords)]
  BY TalocpIs, SizeFacts
<1>3. /\ Sound(h, F) /\ Topped(h, 0)
      /\ DOMAIN h.hdr = DOMAIN heap.hdr \cup {l}
      /\ h.hdr[l] = m
      /\ \A y \in DOMAIN heap.hdr \ {l} : h.hdr[y] = heap.hdr[y]
      /\ h.nnet = heap.nnet + Chunk /\ h.nmem = heap.nmem + Chunk
      /\ h.nnet \in Int /\ h.nmem \in Int
      /\ CanFree(h, F, held, resv, l, rest, x)
  BY <1>1, StartedFacts
<1>4. /\ l \notin F \cup held
      /\ resv.n = 0 \/ resv.lo # l
      /\ s \notin DOMAIN Map
      /\ DOMAIN heap.hdr \subseteq memory
  BY <1>1, ChunkPlace
<1>5. /\ l \in Nat /\ s \in Nat /\ s = l + m /\ m \in Nat /\ m >= MinWords
      /\ MinWords \in Nat /\ MinWords > 0 /\ s # l
  BY <1>1, ChunkNumbers
<1> DEFINE n == Free(h, l, g)
<1> HIDE DEF h, l, s, m, F, x, rest
<1>6. Given(n, at, G, h, F, held, resv, l, rest, x)
  BY <1>3, FreeMap
<1>7. /\ Sound(n, G) /\ Topped(n, 0)
      /\ n.nnet = h.nnet - m /\ n.nmem = h.nmem
      /\ Range(BlockMap(n.hdr, G, held, resv)) = BP!Freed(rest, x)
      /\ at \in DOMAIN n.hdr /\ n.hdr[at] >= m
      /\ \A y \in G \ {at} : n.hdr[y] = h.hdr[y]
      /\ DOMAIN h.hdr \ F \subseteq (DOMAIN n.hdr \ G) \cup {l}
      /\ \A y \in DOMAIN n.hdr \ G : y \in DOMAIN h.hdr \ F
  <2> HIDE DEF n, at, G
  <2>1. held \ {l} = held
    BY <1>4
  <2> QED  BY ONLY <1>3, <1>6, <2>1 DEF Given
<1>8. at \in G /\ G \subseteq F \cup {l} /\ \A y \in G \ {at} : y \in F
  <2>1. at \in F \cup {l}
    BY FromIn
  <2> QED  BY <2>1 DEF FreeAfter
<1> HIDE DEF n, at, G
<1>9. s \notin DOMAIN n.hdr /\ s \notin G /\ (resv.n = 0 \/ s # resv.lo) /\ s \notin held
  <2>1. Mapped(Map, heap.hdr, F, held, resv)
    BY MapFacts DEF Map, F
  <2>2. s \notin DOMAIN heap.hdr /\ (resv.n = 0 \/ s # resv.lo)
    BY <1>4, <2>1 DEF Mapped
  <2>3. F \subseteq DOMAIN h.hdr
    BY <1>3 DEF Sound
  <2>4. held \subseteq DOMAIN heap.hdr
    BY DEF HInv, Tables, Owned
  <2> QED  BY <1>3, <1>5, <1>7, <1>8, <2>2, <2>3, <2>4
<1>10. /\ k.hdr = Write(n.hdr, s, MinWords) /\ k.list = n.list /\ k.chain = n.chain
       /\ k.maxic = n.maxic /\ k.nnet = n.nnet /\ k.nmem = n.nmem
       /\ k = [hdr |-> k.hdr, list |-> k.list, chain |-> k.chain,
               maxic |-> k.maxic, nnet |-> k.nnet, nmem |-> k.nmem]
  <2>1. n = [hdr |-> n.hdr, list |-> n.list, chain |-> n.chain,
             maxic |-> n.maxic, nnet |-> n.nnet, nmem |-> n.nmem]
    BY <1>7 DEF Sound, Typed
  <2> DEFINE hd == Write(n.hdr, s, MinWords)
  <2>2. k = [n EXCEPT !.hdr = hd]
    BY <1>2 DEF n
  <2> HIDE DEF hd, k
  <2>3. k.hdr = hd
    BY <2>1, <2>2
  <2>4. /\ k.list = n.list /\ k.chain = n.chain
        /\ k.maxic = n.maxic /\ k.nnet = n.nnet /\ k.nmem = n.nmem
        /\ k = [hdr |-> k.hdr, list |-> k.list, chain |-> k.chain,
                maxic |-> k.maxic, nnet |-> k.nnet, nmem |-> k.nmem]
    BY <2>1, <2>2
  <2> QED  BY <2>3, <2>4 DEF hd
<1> HIDE DEF k
<1>11. Wrote(k, n, s, MinWords)
  <2>1. n.nnet \in Int /\ n.nmem \in Int
    BY <1>7 DEF Sound, Typed
  <2> QED  BY <1>10, <2>1 DEF Wrote
<1>12. WroteSound(k, n, G, s, MinWords)
  BY ONLY <1>5, <1>7, <1>9, <1>11, WriteSound, MinWords >= MinWords
<1>13. /\ Sound(k, G) /\ Topped(k, 0)
       /\ DOMAIN k.hdr = DOMAIN n.hdr \cup {s} /\ k.hdr[s] = MinWords
       /\ \A y \in DOMAIN n.hdr : k.hdr[y] = n.hdr[y]
  BY ONLY <1>7, <1>9, <1>12 DEF WroteSound
<1>14. Sound(heap', G) /\ Topped(heap', 0)
  BY <1>13 DEF k
<1>15. FreeBlocks' = G
  BY <1>14, FreeBlocksAre
<1> DEFINE v == BlockMap(n.hdr, G, held, resv)
           w == BlockMap(k.hdr, G, held, resv)
<1>16. Blocks' = Range(w)
  BY <1>1, <1>15, BlocksAre DEF k
<1>17. Mapped(v, n.hdr, G, held, resv) /\ Mapped(w, k.hdr, G, held, resv)
  BY MapFacts
<1> HIDE DEF v, w
<1>18. DOMAIN w = DOMAIN v \cup {s} /\ s \notin DOMAIN v /\ \A y \in DOMAIN v : v[y].lo = y
  BY <1>9, <1>13, <1>17 DEF Mapped
<1>19. ASSUME NEW y \in DOMAIN v PROVE w[y] = v[y]
  <2>1. CASE resv.n # 0 /\ y = resv.lo
    BY <1>17, <2>1 DEF Mapped
  <2>2. CASE resv.n = 0 \/ y # resv.lo
    <3>1. y \in DOMAIN n.hdr /\ y \in DOMAIN k.hdr /\ k.hdr[y] = n.hdr[y]
      BY <1>13, <1>17, <2>2 DEF Mapped
    <3> DEFINE B(t) == [kind |-> IF y \in G THEN "free"
                                 ELSE IF y \in held THEN "used" ELSE "sep",
                        lo |-> y, size |-> t]
    <3>2. w[y] = B(k.hdr[y])
      BY ONLY <1>17, <2>2, <3>1 DEF Mapped
    <3>3. v[y] = B(n.hdr[y])
      BY ONLY <1>17, <2>2, <3>1 DEF Mapped
    <3> HIDE DEF B
    <3> QED  BY ONLY <3>1, <3>2, <3>3
  <2> QED  BY <2>1, <2>2
<1>20. w[s] = S
  <2>1. s \in DOMAIN k.hdr /\ (resv.n = 0 \/ s # resv.lo) /\ s \notin G /\ s \notin held
    BY <1>9, <1>13
  <2>2. w[s] = [kind |-> IF s \in G THEN "free" ELSE IF s \in held THEN "used" ELSE "sep",
                lo |-> s, size |-> k.hdr[s]]
    BY ONLY <1>17, <2>1 DEF Mapped
  <2>3. w[s] = [kind |-> "sep", lo |-> s, size |-> MinWords]
    BY ONLY <1>13, <2>1, <2>2
  <2> QED  BY <2>3 DEF NewSep, s
<1>21. Range(w) = Range(v) \cup {S}
  <2> HIDE DEF S
  <2>1. Patched(w, v, {}, {s})
    BY <1>18, <1>19 DEF Patched
  <2>2. Range(w) = (Range(v) \ {v[y] : y \in {}}) \cup {w[y] : y \in {s}}
    BY <2>1, MapPatch
  <2>3. {v[y] : y \in {}} = {} /\ {w[y] : y \in {s}} = {w[s]}
    OBVIOUS
  <2> QED  BY <1>20, <2>2, <2>3
<1>22. Blocks' = BP!Freed(rest, x) \cup {S}
  <2>1. Range(v) = BP!Freed(rest, x)
    BY ONLY <1>7 DEF v
  <2> HIDE DEF S
  <2> QED  BY ONLY <1>16, <1>21, <2>1
<1>23. k.nnet = heap.nnet + Chunk - m /\ k.nmem = heap.nmem + Chunk
  <2>1. heap.nnet \in Int /\ heap.nmem \in Int /\ Chunk \in Nat
    BY <1>1, StateFacts, ChunkNumbers DEF Sound, Typed
  <2>2. k.nnet = (heap.nnet + Chunk) - m /\ k.nmem = heap.nmem + Chunk
    BY ONLY <1>3, <1>7, <1>10
  <2> QED  BY ONLY <1>5, <2>1, <2>2
<1>24. at \in G /\ k.hdr[at] >= m
  BY <1>7, <1>8, <1>13
<1>25. \A y \in G \ {at} : y \in F /\ k.hdr[y] = heap.hdr[y]
  <2> SUFFICES ASSUME NEW y \in G, y # at PROVE y \in F /\ k.hdr[y] = heap.hdr[y]
    OBVIOUS
  <2>1. y \in F /\ y # l /\ y \in DOMAIN n.hdr
    BY <1>4, <1>7, <1>8 DEF Sound
  <2>2. y \in DOMAIN heap.hdr
    BY <1>3, <2>1 DEF Sound
  <2>3. k.hdr[y] = n.hdr[y] /\ n.hdr[y] = h.hdr[y] /\ h.hdr[y] = heap.hdr[y]
    BY <1>3, <1>7, <1>13, <2>1, <2>2
  <2> QED  BY <2>1, <2>3
<1>26. held \subseteq DOMAIN k.hdr \ G
  <2>1. held \subseteq DOMAIN heap.hdr /\ held \cap F = {}
    BY DEF HInv, Tables, Owned, F
  <2> QED  BY <1>3, <1>4, <1>7, <1>13, <2>1
<1>27. Gained(a, at, G)
  BY <1>8, <1>14, <1>15, <1>22, <1>23, <1>24, <1>25, <1>26 DEF Gained, k, x, rest, F, m, l
<1> QED  BY <1>27

\* The words of the chunk are not free memory yet; those of its block are when
\* talocp is done.
LEMMA ChunkCounted ==
  ASSUME HInv, NEW a \in ChunkAddr, Talocp(a), NEW at, NEW G, Gained(a, at, G)
  PROVE  Counted'
<1> DEFINE x == Gain(a)
           l == GainLo(a)
           m == GainSize(a)
           n == Chunk
           rest == Others(a)
           I == ChunkIs(a)
           W == l .. (l + m - 1)
           C == FreeCover(Blocks)
           N == memory \ C
           D == FreeCover(rest)
           M == (memory \cup I) \ (D \cup W)
<1>1. /\ call.at = "grow" /\ I \cap memory = {} /\ memory' = memory \cup I
  BY TalocpIs
<1>2. /\ a \in Nat /\ n \in Nat /\ l \in Nat /\ m \in Nat /\ l + m = SepLo(a)
      /\ SepLo(a) + MinWords = a + n /\ l <= a /\ MinWords \in Nat /\ MinWords > 0
      /\ I = a .. (a + n - 1)
  BY <1>1, ChunkNumbers DEF ChunkIs
<1>3. /\ memory = BP!Cover(Blocks) /\ BP!Good(Blocks)
  BY StateFacts
<1>4. /\ Absorbed(a) \subseteq Blocks /\ x \in BP!Block
      /\ \A c \in rest : BP!Apart(x, c)
  BY <1>1, ChunkPlace
<1>5. rest \subseteq BP!Block /\ BP!Disjoint(rest)
  <2> DEFINE bs == Blocks
  <2>1. BP!Good(bs) /\ rest \subseteq bs
    BY <1>3 DEF Others
  <2> HIDE DEF bs, rest
  <2>2. rest \subseteq BP!Block /\ BP!Disjoint(rest)
    BY <2>1 DEF BP!Good, BP!Disjoint
  <2> QED  BY <2>2
<1>6. /\ IsFiniteSet(memory) /\ heap.nmem = Cardinality(memory)
      /\ heap.nnet = Cardinality(N)
  BY DEF HInv, Tables, Counted
<1>7. x.lo = l /\ x.size = m
  BY DEF Gain
<1>8. Blocks' = BP!Freed(rest, x) \cup {NewSep(a)}
      /\ heap'.nnet = heap.nnet + n - m /\ heap'.nmem = heap.nmem + n
  BY DEF Gained
<1>9. FreeCover(Blocks') = D \cup W /\ D \cap W = {}
  <2> HIDE DEF x, rest
  <2>1. /\ FreeCover(BP!Freed(rest, x)) = FreeCover(rest) \cup (x.lo .. (x.lo + x.size - 1))
        /\ FreeCover(rest) \cap (x.lo .. (x.lo + x.size - 1)) = {}
    BY <1>4, <1>5, CoverFreed
  <2> DEFINE bs == BP!Freed(rest, x)
             S == NewSep(a)
  <2>2. S.kind # "free"
    BY DEF NewSep
  <2> HIDE DEF bs, S
  <2>3. \A c \in (bs \cup {S}) \cup bs : c.kind = "free" => (c \in bs \cup {S} <=> c \in bs)
    BY <2>2
  <2>4. FreeCover(bs \cup {S}) = FreeCover(bs)
    BY ONLY <2>3, CoverSame
  <2> QED  BY <1>7, <1>8, <2>1, <2>4 DEF bs, S
<1>10. D = C
  <2> DEFINE bs == Blocks
  <2>1. \A c \in rest \cup bs : c.kind = "free" => (c \in rest <=> c \in bs)
    BY DEF Others, Absorbed
  <2> HIDE DEF rest, bs
  <2>2. FreeCover(rest) = FreeCover(bs)
    BY ONLY <2>1, CoverSame
  <2> QED  BY <2>2 DEF bs
<1>11. C \subseteq memory
  BY <1>3, CoverInMemory DEF BP!Good
<1>12. W \subseteq N \cup I
  <2> SUFFICES ASSUME NEW y \in W PROVE y \in memory \cup I
    BY <1>1, <1>9, <1>10, <1>11
  <2>1. CASE y >= a
    BY <1>2, <2>1
  <2>2. CASE y < a
    <3>1. Hit(a) # 0 /\ l = a - MinWords
      <4>1. l # a
        BY <1>2, <2>2
      <4> QED  BY <4>1 DEF GainLo
    <3> DEFINE S == [kind |-> "sep", lo |-> l, size |-> MinWords]
    <3>2. S \in Blocks
      BY <1>4, <3>1 DEF Absorbed
    <3>3. y \in BP!Words(S)
      BY <1>2, <2>2, <3>1 DEF BP!Words, BP!End
    <3> QED  BY <1>3, <3>2, <3>3 DEF BP!Cover
  <2> QED  BY <1>2, <2>1, <2>2
<1> HIDE DEF x, rest, l, m, n
<1>13. I = a .. (a + n - 1) /\ W = l .. (l + m - 1)
  BY <1>2
<1> HIDE DEF I, W, C, D
<1>14. /\ M \cup W = N \cup I /\ M \cap W = {} /\ N \cap I = {} /\ I \cap memory = {}
       /\ memory' \ FreeCover(Blocks') = M
  BY <1>1, <1>9, <1>10, <1>11, <1>12
<1>15. IsFiniteSet(N)
  BY <1>6, FS_Subset
<1> HIDE DEF M, N
<1>16. IsFiniteSet(N \cup I) /\ Cardinality(N \cup I) = Cardinality(N) + n
  <2>1. Row(I, N, n)
    BY ONLY <1>2, <1>13, <1>14 DEF Row
  <2> QED  BY ONLY <1>15, <2>1, AddRow
<1>17. IsFiniteSet(M)
  <2>1. M \subseteq N \cup I
    BY ONLY <1>14
  <2> QED  BY ONLY <1>16, <2>1, FS_Subset
<1>18. Cardinality(M \cup W) = Cardinality(M) + m
  <2>1. Row(W, M, m)
    BY ONLY <1>2, <1>13, <1>14 DEF Row
  <2> QED  BY ONLY <1>17, <2>1, AddRow
<1>19. IsFiniteSet(memory \cup I) /\ Cardinality(memory \cup I) = Cardinality(memory) + n
  <2>1. Row(I, memory, n)
    BY ONLY <1>2, <1>13, <1>14 DEF Row
  <2> QED  BY ONLY <1>6, <2>1, AddRow
<1>20. Cardinality(M) \in Nat /\ Cardinality(N) \in Nat
  BY ONLY <1>15, <1>17, FS_CardinalityType
<1>21. heap.nnet + n - m = Cardinality(M)
  <2>1. Cardinality(M) + m = Cardinality(N) + n
    BY ONLY <1>14, <1>16, <1>18
  <2> QED  BY ONLY <1>2, <1>6, <1>20, <2>1
<1>22. /\ IsFiniteSet(memory') /\ heap'.nmem = Cardinality(memory')
       /\ heap'.nnet = Cardinality(memory' \ FreeCover(Blocks'))
  BY ONLY <1>1, <1>6, <1>8, <1>14, <1>19, <1>21
<1> QED  BY ONLY <1>22 DEF Counted

\* The list of separators after talocp.
LEMMA ChunkSeps ==
  ASSUME HInv, NEW a \in ChunkAddr, Talocp(a), NEW at, NEW G, Gained(a, at, G)
  PROVE  Seps'
<1> DEFINE r == Remaining(a)
           s == SepLo(a)
           e == [lo |-> s, age |-> SepAge]
           t == <<e>> \o r
           T == [lo : Nat, age : 1..SepAge]
           rest == Others(a)
           x == Gain(a)
<1>1. /\ call.at = "grow" /\ ChunkIs(a) \cap memory = {} /\ sep' = t
  BY TalocpIs
<1>2. Seps /\ Owned /\ BP!Good(Blocks) /\ memory = BP!Cover(Blocks)
  BY StateFacts DEF HInv, Tables
<1>3. PICK f : Stays(r, f, a)
  BY <1>2, RemainingFacts
<1>4. /\ r \in Seq(T)
      /\ \A i \in 1..Len(r) : /\ f[i] \in DOMAIN sep /\ f[i] # Hit(a)
                              /\ r[i].lo = sep[f[i]].lo /\ r[i].age < SepAge
      /\ \A i, j \in 1..Len(r) : i < j => f[i] < f[j] /\ r[i].age > r[j].age
  BY <1>3 DEF Stays
<1> HIDE DEF r
<1>5. s \in Nat /\ s \in ChunkIs(a) /\ SepAge \in 1..SepAge
  BY <1>1, ChunkNumbers, SizeFacts
<1>6. e \in T /\ e.lo = s /\ e.age = SepAge
  BY <1>5
<1> HIDE DEF e, T
<1>7. /\ t \in Seq(T) /\ Len(t) = Len(r) + 1 /\ DOMAIN t = 1..(Len(r) + 1)
      /\ t[1] = e /\ Len(r) \in Nat
      /\ \A k \in 1..(Len(r) + 1) : k # 1 => k - 1 \in 1..Len(r) /\ t[k] = r[k - 1]
  BY <1>4, <1>6
<1> HIDE DEF t
<1>8. \A k \in DOMAIN sep :
        [kind |-> "sep", lo |-> sep[k].lo, size |-> MinWords] \in Blocks
  BY <1>2 DEF Seps
<1>9. \A j, k \in DOMAIN sep : j # k => sep[j].lo # sep[k].lo
  <2>1. \A j, k \in DOMAIN sep : j < k => sep[j].lo # sep[k].lo
    BY <1>2 DEF Seps
  <2>2. DOMAIN sep \subseteq Nat
    BY <1>2 DEF Seps
  <2>3. \A j, k \in DOMAIN sep : j < k \/ k < j \/ j = k
    BY <2>2
  <2> QED  BY ONLY <2>1, <2>3
<1>10. ASSUME NEW k \in DOMAIN sep, k # Hit(a)
       PROVE  [kind |-> "sep", lo |-> sep[k].lo, size |-> MinWords] \in Blocks'
  <2> DEFINE S == [kind |-> "sep", lo |-> sep[k].lo, size |-> MinWords]
  <2>1. S \in Blocks /\ S.kind = "sep" /\ S.lo = sep[k].lo
    BY <1>8
  <2>2. S \notin Absorbed(a)
    <3>1. CASE Hit(a) = 0
      BY <3>1 DEF Absorbed
    <3>2. CASE Hit(a) # 0
      <4>1. Hit(a) \in DOMAIN sep /\ sep[Hit(a)].lo + MinWords = a
        BY <1>2, <3>2, HitFacts DEF Seps
      <4>2. sep[Hit(a)].lo \in Nat
        BY <1>2, <4>1, SepTyped
      <4>3. GainLo(a) = sep[Hit(a)].lo
        BY <3>2, <4>1, <4>2, SizeFacts DEF GainLo
      <4>4. sep[k].lo # GainLo(a)
        BY <1>9, <1>10, <4>1, <4>3
      <4>5. \A c \in Absorbed(a) : c.lo = GainLo(a)
        BY <3>2 DEF Absorbed
      <4> HIDE DEF S
      <4> QED  BY <2>1, <4>4, <4>5
    <3> QED  BY <3>1, <3>2
  <2> HIDE DEF S
  <2>3. S \in rest
    BY <2>1, <2>2 DEF Others
  <2>4. S \in BP!Freed(rest, x)
    BY <2>1, <2>3 DEF BP!Freed, BP!Before, BP!After
  <2>5. S \in Blocks'
    BY <2>4 DEF Gained
  <2> QED  BY <2>5 DEF S
<1>11. [kind |-> "sep", lo |-> s, size |-> MinWords] \in Blocks'
  BY DEF Gained, NewSep
<1>12. \A k \in DOMAIN t : [kind |-> "sep", lo |-> t[k].lo, size |-> MinWords] \in Blocks'
  <2> SUFFICES ASSUME NEW k \in DOMAIN t
               PROVE  [kind |-> "sep", lo |-> t[k].lo, size |-> MinWords] \in Blocks'
    OBVIOUS
  <2>1. CASE k = 1
    BY <1>6, <1>7, <1>11, <2>1
  <2>2. CASE k # 1
    <3> DEFINE i == k - 1
    <3>1. i \in 1..Len(r) /\ t[k] = r[i]
      BY <1>7, <2>2
    <3> HIDE DEF i
    <3>2. f[i] \in DOMAIN sep /\ f[i] # Hit(a) /\ t[k].lo = sep[f[i]].lo
      BY <1>4, <3>1
    <3> QED  BY <1>10, <3>2
  <2> QED  BY <2>1, <2>2
<1>13. \A k \in DOMAIN sep : sep[k].lo # s
  <2> SUFFICES ASSUME NEW k \in DOMAIN sep PROVE sep[k].lo # s
    OBVIOUS
  <2> DEFINE S == [kind |-> "sep", lo |-> sep[k].lo, size |-> MinWords]
             bs == Blocks
  <2>1. S \in bs /\ S.lo = sep[k].lo
    BY <1>8
  <2>2. s \notin BP!Cover(bs) /\ BP!Good(bs)
    BY <1>1, <1>2, <1>5
  <2> HIDE DEF S, bs
  <2>3. S.lo \in BP!Cover(bs)
    <3>1. S \in BP!Block
      BY <2>1, <2>2 DEF BP!Good
    <3>2. S.lo \in BP!Words(S)
      BY <3>1, SizeFacts DEF BP!Block, BP!Words, BP!End
    <3> QED  BY <2>1, <3>2 DEF BP!Cover
  <2> QED  BY <2>1, <2>2, <2>3
<1>14. ASSUME NEW j \in DOMAIN t, NEW k \in DOMAIN t, j < k
       PROVE  t[j].age > t[k].age /\ t[j].lo # t[k].lo
  <2> DEFINE i == k - 1
  <2>1. i \in 1..Len(r) /\ t[k] = r[i]
    BY <1>7, <1>14
  <2>2. /\ f[i] \in DOMAIN sep /\ r[i].lo = sep[f[i]].lo /\ r[i].age < SepAge
        /\ r[i].age \in Int
    <3>1. r[i] \in T
      BY <1>4, <2>1
    <3> QED  BY <1>4, <2>1, <3>1 DEF T
  <2>3. CASE j = 1
    <3>1. t[j].age = SepAge /\ t[j].lo = s
      BY <1>6, <1>7, <2>3
    <3>2. t[j].lo # t[k].lo
      BY <1>13, <2>1, <2>2, <3>1
    <3> QED  BY <2>1, <2>2, <3>1, <3>2, SizeFacts
  <2>4. CASE j # 1
    <3> DEFINE q == j - 1
    <3>1. q \in 1..Len(r) /\ t[j] = r[q] /\ q < i
      BY <1>7, <1>14, <2>4
    <3> HIDE DEF q, i
    <3>2. f[q] < f[i] /\ r[q].age > r[i].age /\ f[q] \in DOMAIN sep /\ r[q].lo = sep[f[q]].lo
      BY <1>4, <2>1, <3>1
    <3>3. sep[f[q]].lo # sep[f[i]].lo
      BY <1>2, <2>2, <3>2 DEF Seps
    <3> QED  BY <2>1, <2>2, <3>1, <3>2, <3>3
  <2> QED  BY <2>3, <2>4
<1>15. t \in Seq([lo : Nat, age : 1..SepAge])
  BY <1>7 DEF T
<1> QED  BY <1>1, <1>12, <1>14, <1>15 DEF Seps

\* talocp is a step of BlockStore.
LEMMA GrowIs ==
  ASSUME HInv, NEW a \in ChunkAddr, Talocp(a), NEW at, NEW G, Gained(a, at, G)
  PROVE  BP!Grow(a, Chunk)
<1> DEFINE n == Chunk
           S == NewSep(a)
           x == Gain(a)
           bs == Blocks
           B == Blocks'
<1>1. /\ call.at = "grow" /\ ChunkIs(a) \cap memory = {}
      /\ memory' = memory \cup ChunkIs(a)
  BY TalocpIs
<1>2. ChunkIs(a) = a .. (a + n - 1)
  BY DEF ChunkIs
<1>3. S = BP!Separator(a, n) /\ S.kind = "sep"
  BY DEF NewSep, SepLo, BP!Separator
<1>4. B = BP!Freed(Others(a), x) \cup {S}
  BY DEF Gained
<1> HIDE DEF S, B, x
<1>5. B = BP!Freed(Others(a) \cup {S}, x)
  BY <1>3, <1>4, FreedBeside
<1>6. CASE Hit(a) = 0
  <2>1. Others(a) = bs /\ x = [kind |-> "used", lo |-> a, size |-> n - MinWords]
    BY <1>6 DEF Others, Absorbed, Gain, GainLo, GainSize, x
  <2>2. Blocks' = BP!Freed(Blocks \cup {BP!Separator(a, n)},
                          [kind |-> "used", lo |-> a, size |-> n - MinWords])
    BY ONLY <1>3, <1>5, <2>1 DEF B, bs
  <2> QED  BY <1>1, <1>2, <2>2 DEF BP!Grow
<1>7. CASE Hit(a) # 0
  <2> DEFINE l == GainLo(a)
             s == [kind |-> "sep", lo |-> l, size |-> MinWords]
  <2>1. Absorbed(a) = {s} /\ x = [kind |-> "used", lo |-> l, size |-> n]
    BY <1>7 DEF Absorbed, Gain, GainSize, x
  <2>2. Absorbed(a) \subseteq bs
    BY <1>1, ChunkPlace
  <2>3. l = a - MinWords /\ a \in Nat /\ MinWords \in Nat
    BY <1>7, SizeFacts DEF GainLo
  <2>4. s \in bs /\ s.kind = "sep" /\ BP!End(s) = a /\ s.lo = l
    BY <2>1, <2>2, <2>3 DEF BP!End
  <2>5. Others(a) = bs \ {s}
    BY <2>1 DEF Others
  <2> HIDE DEF s, l
  <2>6. Blocks' = BP!Freed((Blocks \ {s}) \cup {BP!Separator(a, n)},
                          [kind |-> "used", lo |-> s.lo, size |-> n])
    BY ONLY <1>3, <1>5, <2>1, <2>4, <2>5 DEF B, bs
  <2>7. s \in Blocks
    BY <2>4
  <2> QED  BY <1>1, <1>2, <2>4, <2>6, <2>7 DEF BP!Grow
<1> QED  BY <1>6, <1>7

LEMMA TalocpStep ==
  ASSUME HInv, NEW a \in ChunkAddr, Talocp(a)
  PROVE  Tables' /\ \E n \in Chunks : BP!Grow(a, n)
<1>1. PICK at, G : Gained(a, at, G)
  BY GainedFacts
<1>2. /\ call.at = "grow" /\ ChunkIs(a) \cap memory = {}
      /\ call' = [call EXCEPT !.at = "big"] /\ held' = held /\ resv' = resv
  BY TalocpIs
<1>3. Sound(heap', G) /\ Topped(heap', 0) /\ FreeBlocks' = G
  BY <1>1 DEF Gained
<1>4. Sound(heap, FreeBlocks)' /\ Topped(heap, 0)'
  BY <1>3 DEF Sound, Typed, Lists, Chains, Topped
<1>5. Owned'
  <2>1. held \subseteq DOMAIN heap'.hdr \ G /\ G \subseteq FreeBlocks \cup {GainLo(a)}
    BY <1>1 DEF Gained
  <2>2. resv.n = 0 \/ resv.lo # GainLo(a)
    BY <1>2, ChunkPlace
  <2>3. Owned /\ resv.n \in MinWords..NResv => resv.n # 0
    BY SizeFacts DEF HInv, Tables
  <2> QED  BY <1>2, <1>3, <2>1, <2>2, <2>3 DEF Owned, HInv, Tables
<1>6. Seps' /\ Counted'
  BY <1>1, ChunkSeps, ChunkCounted
<1>7. Caller' /\ call'.at = "big" /\ call'.m = call.m
  BY <1>2, MovedOn
<1>8. Searched'
  <2>1. ASSUME NEW y \in G, call.m <= NIndex, heap'.hdr[y] <= NIndex
        PROVE  heap'.hdr[y] # call.m /\ heap'.hdr[y] < call.m + MinSeg1
    <3>1. heap'.hdr[at] >= GainSize(a) /\ GainSize(a) > NIndex
          /\ GainSize(a) \in Nat /\ NIndex \in Nat
      BY <1>1, <1>2, ChunkNumbers, SizeFacts DEF Gained
    <3>2. y # at
      <4>1. heap'.hdr[y] \in Nat
        BY <1>3, <2>1 DEF Sound, Typed
      <4> QED  BY <2>1, <3>1, <4>1
    <3>3. y \in FreeBlocks /\ heap'.hdr[y] = heap.hdr[y]
      BY <1>1, <3>2 DEF Gained
    <3> QED  BY <1>2, <2>1, <3>3 DEF HInv, Tables, Searched
  <2> QED  BY <1>3, <1>7, <2>1 DEF Searched
<1>9. Tables'
  BY <1>4, <1>5, <1>6, <1>7, <1>8 DEF Tables
<1>10. Chunk \in Chunks /\ BP!Grow(a, Chunk)
  BY <1>1, <1>2, ChunkNumbers, GrowIs
<1> QED  BY <1>9, <1>10

-----------------------------------------------------------------------------
(* The invariant is inductive.                                             *)

LEMMA StartInv ==
  ASSUME Init
  PROVE  HInv /\ BP!Init
<1>1. /\ heap.hdr = <<>> /\ heap.list = [m \in 1..Big |-> <<>>]
      /\ heap.chain = [k \in 0..(HashSize - 1) |-> <<>>]
      /\ heap.maxic = 0 /\ heap.nnet = 0 /\ heap.nmem = 0
      /\ heap = [hdr |-> heap.hdr, list |-> heap.list, chain |-> heap.chain,
                 maxic |-> heap.maxic, nnet |-> heap.nnet, nmem |-> heap.nmem]
      /\ memory = {} /\ sep = <<>> /\ held = {} /\ resv = NoResv /\ call = Idle
  BY DEF Init
<1>2. DOMAIN heap.hdr = {}
  BY <1>1
<1>3. FreeBlocks = {}
  <2>1. \A m \in 1..Big : Range(heap.list[m]) = {}
    BY <1>1 DEF Range
  <2> QED  BY <2>1 DEF FreeBlocks
<1>4. Blocks = {}
  <2>1. Reserve = {}
    BY <1>1 DEF Reserve, NoResv
  <2> QED  BY <1>2, <2>1 DEF Blocks
<1>5. Sound(heap, {}) /\ Topped(heap, 0)
  <2>1. Typed(heap)
    BY <1>1, <1>2, SizeFacts DEF Typed
  <2>2. /\ \A m \in 1..Big : IsInjective(heap.list[m]) /\ Range(heap.list[m]) = {}
        /\ \A k \in 0..(HashSize - 1) : IsInjective(heap.chain[k]) /\ Range(heap.chain[k]) = {}
    BY <1>1 DEF IsInjective, Range
  <2>3. Lists(heap, {}) /\ Chains(heap, {})
    BY <2>2 DEF Lists, Chains
  <2>4. Topped(heap, 0)
    BY <1>1, SizeFacts DEF Topped
  <2> QED  BY <1>2, <2>1, <2>3, <2>4 DEF Sound
<1>6. Owned /\ Seps
  BY <1>1, <1>2, <1>3 DEF Owned, Seps
<1>7. Counted
  <2>1. IsFiniteSet({}) /\ Cardinality({}) = 0
    BY FS_EmptySet
  <2> QED  BY <1>1, <2>1 DEF Counted
<1>8. Caller /\ Searched
  BY <1>1 DEF Caller, Searched, Idle
<1>9. BP!Init
  BY <1>1, <1>4 DEF BP!Init
<1>10. BP!Inv
  BY <1>9, SizesAreNat, BP!InitInv
<1> QED  BY <1>3, <1>5, <1>6, <1>7, <1>8, <1>9, <1>10 DEF HInv, Tables

\* What a call asks for is a size BlockStore may be asked for.
LEMMA AskedFor ==
  ASSUME HInv, call.at # "none"
  PROVE  call.m \in Sizes
BY CallFacts DEF HInv, Tables

\* Every step keeps the invariant of the tables, and is a step of BlockStore or
\* leaves its blocks alone.
LEMMA StepIs ==
  ASSUME HInv, [Next]_vars
  PROVE  Tables' /\ [BP!Next]_<<Blocks, memory>>
<1>1. ASSUME NEW n \in Requests, Ktaloc(n) PROVE Tables' /\ UNCHANGED <<Blocks, memory>>
  BY <1>1, KtalocStep
<1>2. ASSUME NEW n \in Requests, Ktalocr(n) PROVE Tables' /\ UNCHANGED <<Blocks, memory>>
  BY <1>2, KtalocrStep
<1>3. ASSUME NEW lo \in held, Tfree(lo) PROVE Tables' /\ BP!Next
  BY <1>3, TfreeStep DEF BP!Next
<1>4. ASSUME Carve PROVE Tables' /\ BP!Next
  BY <1>4, CarveStep DEF BP!Next
<1>5. ASSUME DropReserve PROVE Tables' /\ BP!Next
  BY <1>5, DropReserveStep DEF BP!Next
<1>6. ASSUME NewReserve \/ SmallFails \/ BigFails \/ OutOfMemory
      PROVE  Tables' /\ UNCHANGED <<Blocks, memory>>
  BY <1>6, NewReserveStep, SmallFailsStep, BigFailsStep, OutOfMemoryStep
<1>7. ASSUME TakeExact \/ TakeNear \/ TakeFar \/ TakeBig
      PROVE  Tables' /\ BP!Next
  <2>1. Tables' /\ BP!Allocate(call.m)
    BY <1>7, TakeExactStep, TakeNearStep, TakeFarStep, TakeBigStep
  <2>2. call.m \in Sizes
    BY <1>7, AskedFor DEF TakeExact, TakeNear, TakeFar, TakeBig, Small
  <2> QED  BY <2>1, <2>2 DEF BP!Next
<1>8. ASSUME NEW a \in ChunkAddr, Talocp(a) PROVE Tables' /\ BP!Next
  BY <1>8, TalocpStep DEF BP!Next
<1>9. CASE UNCHANGED vars
  <2>1. UNCHANGED <<heap, memory, sep, held, resv, call>>
    BY <1>9 DEF vars
  <2>2. Blocks' = Blocks /\ FreeBlocks' = FreeBlocks
    BY <2>1, BlocksKept
  <2>3. Tables
    BY DEF HInv
  <2>4. Tables'
    BY <2>1, <2>2, <2>3 DEF Tables, Sound, Typed, Lists, Chains, Topped, Owned, Seps,
         Counted, Caller, Searched, Fitting, Fits
  <2> QED  BY <2>1, <2>2, <2>4
<1> QED
  BY <1>1, <1>2, <1>3, <1>4, <1>5, <1>6, <1>7, <1>8, <1>9 DEF Next

LEMMA HeapStep ==
  ASSUME HInv, [Next]_vars
  PROVE  HInv' /\ [BP!Next]_<<Blocks, memory>>
<1>1. Tables' /\ [BP!Next]_<<Blocks, memory>> /\ BP!Inv
  BY StepIs DEF HInv
<1>2. BP!Inv'
  BY <1>1, SizesAreNat, BP!StepInv DEF BP!vars
<1> QED  BY <1>1, <1>2 DEF HInv

LEMMA HeapInv == Spec => []HInv
<1>1. Init => HInv
  BY StartInv
<1>2. HInv /\ [Next]_vars => HInv'
  BY HeapStep
<1> QED  BY <1>1, <1>2, PTL DEF Spec

-----------------------------------------------------------------------------
(* The theorems.                                                           *)

\* The lists, the chains, the reserve and the separators implement the set of
\* blocks: every step of ktaloc, ktalocr, tfree and talocp takes, frees, carves
\* or adds the block that it should, or leaves all blocks as they are.
THEOREM HeapImplementsBlockStore == Spec => ImplementsBlockStore
<1>1. Init => Store!Init
  <2>1. BP!Init => Store!Init
    BY DEF BP!Init, Store!Init
  <2> QED  BY <2>1, StartInv
<1>2. HInv /\ [Next]_vars => [Store!Next]_(Store!vars)
  <2>1. BP!Next => Store!Next
    BY DEF BP!Next, Store!Next, BP!Allocate, Store!Allocate, BP!Release, Store!Release,
         BP!Carve, Store!Carve, BP!Grow, Store!Grow, BP!Freed, Store!Freed,
         BP!Merged, Store!Merged, BP!Start, Store!Start, BP!Finish, Store!Finish,
         BP!Before, Store!Before, BP!After, Store!After, BP!End, Store!End,
         BP!Separator, Store!Separator, Sizes, Chunks
  <2> QED  BY <2>1, HeapStep DEF Store!vars
<1> QED  BY <1>1, <1>2, HeapInv, PTL DEF Spec, ImplementsBlockStore, Store!Spec

\* What the blocks say of the tables.
LEMMA BlockFactsHere ==
  ASSUME HInv
  PROVE  /\ DOMAIN heap.hdr \subseteq memory
         /\ resv.n = 0 \/ resv.lo \in memory
         /\ \A y \in FreeBlocks : [kind |-> "free", lo |-> y, size |-> heap.hdr[y]] \in Blocks
         /\ \A b \in Blocks : b.kind = "free" => b.lo \in FreeBlocks /\ b.size = heap.hdr[b.lo]
         /\ \A b \in Blocks : b.kind = "sep" =>
              /\ b.lo \in DOMAIN heap.hdr /\ b.size = heap.hdr[b.lo]
              /\ b.lo \notin FreeBlocks /\ b.lo \notin held
<1> DEFINE F == FreeBlocks
           v == Map
<1>1. /\ Blocks = Range(v) /\ BP!Good(Blocks) /\ memory = BP!Cover(Blocks)
      /\ Sound(heap, F) /\ (resv.n = 0 \/ resv.lo \notin F)
  BY StateFacts
<1>2. Mapped(v, heap.hdr, F, held, resv)
  BY MapFacts DEF Map
<1> HIDE DEF v
<1>3. /\ \A y \in DOMAIN v : v[y].lo = y /\ v[y] \in Blocks
      /\ \A c \in Blocks : c.lo \in DOMAIN v /\ c = v[c.lo]
  <2>1. \A y \in DOMAIN v : v[y].lo = y
    BY <1>2 DEF Mapped
  <2> QED  BY <1>1, <2>1, MapRangeFacts
<1>4. \A y \in DOMAIN v : y \in memory
  <2> SUFFICES ASSUME NEW y \in DOMAIN v PROVE y \in memory
    OBVIOUS
  <2>1. v[y] \in Blocks /\ v[y].lo = y
    BY <1>3
  <2>2. v[y] \in BP!Block
    BY <1>1, <2>1 DEF BP!Good
  <2>3. y \in BP!Words(v[y])
    BY <2>1, <2>2, SizeFacts DEF BP!Block, BP!Words, BP!End
  <2> QED  BY <1>1, <2>1, <2>3 DEF BP!Cover
<1>5. DOMAIN heap.hdr \subseteq memory /\ (resv.n = 0 \/ resv.lo \in memory)
  BY <1>2, <1>4 DEF Mapped
<1>6. ASSUME NEW y \in F
      PROVE  [kind |-> "free", lo |-> y, size |-> heap.hdr[y]] \in Blocks
  <2>1. y \in DOMAIN heap.hdr /\ (resv.n = 0 \/ y # resv.lo)
    BY <1>1 DEF Sound
  <2>2. v[y] = [kind |-> IF y \in F THEN "free" ELSE IF y \in held THEN "used" ELSE "sep",
                lo |-> y, size |-> heap.hdr[y]]
    BY ONLY <1>2, <2>1 DEF Mapped
  <2>3. v[y] = [kind |-> "free", lo |-> y, size |-> heap.hdr[y]]
    BY ONLY <1>6, <2>2
  <2>4. v[y] \in Blocks
    BY <1>2, <1>3, <2>1 DEF Mapped
  <2> QED  BY <2>3, <2>4
<1>7. ASSUME NEW b \in Blocks, b.kind # "used"
      PROVE  /\ b.lo \in DOMAIN heap.hdr /\ b.size = heap.hdr[b.lo]
             /\ b.kind = IF b.lo \in F THEN "free" ELSE IF b.lo \in held THEN "used" ELSE "sep"
  <2> DEFINE y == b.lo
  <2>1. y \in DOMAIN v /\ b = v[y]
    BY <1>3
  <2> HIDE DEF y
  <2>2. resv.n = 0 \/ y # resv.lo
    <3> SUFFICES ASSUME resv.n # 0, y = resv.lo PROVE FALSE
      OBVIOUS
    <3>1. v[y] = [kind |-> "used", lo |-> resv.lo, size |-> resv.n + 1]
      BY <1>2 DEF Mapped
    <3>2. v[y].kind = "used"
      BY <3>1
    <3> QED  BY <1>7, <2>1, <3>2
  <2>3. y \in DOMAIN heap.hdr
    BY <1>2, <2>1, <2>2 DEF Mapped
  <2>4. v[y] = [kind |-> IF y \in F THEN "free" ELSE IF y \in held THEN "used" ELSE "sep",
                lo |-> y, size |-> heap.hdr[y]]
    BY ONLY <1>2, <2>2, <2>3 DEF Mapped
  <2>5. /\ b.kind = IF y \in F THEN "free" ELSE IF y \in held THEN "used" ELSE "sep"
        /\ b.size = heap.hdr[y]
    BY ONLY <2>1, <2>4
  <2> QED  BY <2>3, <2>5 DEF y
<1> QED  BY <1>5, <1>6, <1>7

\* The free blocks are those the chains hold.
LEMMA ChainedAre ==
  ASSUME Sound(heap, FreeBlocks)
  PROVE  Chained = FreeBlocks
<1>1. \A k \in 0..(HashSize - 1) : \A x :
        x \in Range(heap.chain[k]) <=> x \in FreeBlocks /\ Key(x, heap.hdr[x]) = k
  BY DEF Sound, Chains
<1>2. \A x \in FreeBlocks : Key(x, heap.hdr[x]) \in 0..(HashSize - 1)
  <2> SUFFICES ASSUME NEW x \in FreeBlocks PROVE Key(x, heap.hdr[x]) \in 0..(HashSize - 1)
    OBVIOUS
  <2>1. x \in Nat /\ heap.hdr[x] \in Nat
    BY FreeFacts
  <2> QED  BY <2>1, SizeFacts DEF Key
<1> QED  BY <1>1, <1>2 DEF Chained

\* Every table holds what it may, and what the program and the reserve hold is
\* in the memory.
THEOREM HeapTypeOK == Spec => []TypeOK
<1>1. HInv => TypeOK
  <2> SUFFICES ASSUME HInv PROVE TypeOK
    OBVIOUS
  <2>1. Sound(heap, FreeBlocks) /\ Owned /\ Counted /\ Caller
    BY DEF HInv, Tables
  <2>2. DOMAIN heap.hdr \subseteq memory /\ (resv.n = 0 \/ resv.lo \in memory)
    BY BlockFactsHere
  <2>3. /\ \A lo \in DOMAIN heap.hdr : heap.hdr[lo] >= MinWords
        /\ heap.maxic \in 0..NIndex
    BY <2>1 DEF Sound, Typed
  <2>4. heap.nnet \in Nat /\ heap.nmem \in Nat
    <3>1. IsFiniteSet(memory) /\ IsFiniteSet(memory \ FreeCover(Blocks))
      BY <2>1, FS_Subset DEF Counted
    <3> QED  BY <2>1, <3>1, FS_CardinalityType DEF Counted
  <2>5. resv.n \in 0..NResv /\ resv.lo \in memory \cup {0}
    BY <2>1, <2>2, SizeFacts DEF Owned, NoResv
  <2>6. call.op \in {"idle", "ktaloc", "ktalocr", "crashed"}
    <3>1. Idle.op = "idle" /\ Crashed.op = "crashed"
      BY DEF Idle, Crashed
    <3>2. ASSUME call.at # "none" PROVE call.op \in {"ktaloc", "ktalocr"}
      BY <2>1, <3>2, CallFacts
    <3>3. ASSUME call.at = "none" PROVE call = Idle \/ call = Crashed
      BY <2>1, <3>3 DEF Caller
    <3> QED  BY <3>1, <3>2, <3>3
  <2> QED  BY <2>1, <2>2, <2>3, <2>4, <2>5, <2>6 DEF TypeOK, Owned
<1> QED  BY <1>1, HeapInv, PTL

\* The lists MemoryCheck walks are sound, and so is the list of separators: each
\* free block is once in the list of its size and once in the chain of its end,
\* nothing above maxic is missed, and each separator is still one.
THEOREM HeapListsSound == Spec => []ListsSound
<1>1. HInv => ListsSound
  <2> SUFFICES ASSUME HInv PROVE FreeListsSound /\ SepListSound
    BY DEF ListsSound
  <2>1. Sound(heap, FreeBlocks) /\ Topped(heap, 0) /\ Owned /\ Seps
    BY DEF HInv, Tables
  <2>2. ASSUME NEW k \in DOMAIN sep
        PROVE  /\ sep[k].lo \in DOMAIN heap.hdr /\ heap.hdr[sep[k].lo] = MinWords
               /\ sep[k].lo \notin FreeBlocks /\ sep[k].age \in 1..SepAge
    <3> DEFINE S == [kind |-> "sep", lo |-> sep[k].lo, size |-> MinWords]
    <3>1. S \in Blocks
      BY <2>1 DEF Seps
    <3>2. S.kind = "sep" /\ S.lo = sep[k].lo /\ S.size = MinWords
      OBVIOUS
    <3> HIDE DEF S
    <3>3. /\ S.lo \in DOMAIN heap.hdr /\ S.size = heap.hdr[S.lo] /\ S.lo \notin FreeBlocks
      BY <3>1, <3>2, BlockFactsHere
    <3> QED  BY <2>1, <3>2, <3>3, SepTyped
  <2>3. SepListSound
    BY <2>1, <2>2 DEF SepListSound, Seps
  <2>4. FreeBlocks = Chained
    BY <2>1, ChainedAre
  <2>5. FreeBlocks \cap (held \cup {sep[k].lo : k \in DOMAIN sep}) = {}
    BY <2>1, <2>2 DEF Owned
  <2>6. \A m \in 1..NIndex : heap.list[m] # <<>> => m <= heap.maxic
    BY <2>1, SizeFacts DEF Topped
  <2>7. \A m \in 1..Big : /\ IsInjective(heap.list[m])
                          /\ \A lo \in Range(heap.list[m]) : ListOf(heap.hdr[lo]) = m
    BY <2>1 DEF Sound, Lists
  <2>8. \A k \in 0..(HashSize - 1) :
          /\ IsInjective(heap.chain[k])
          /\ \A lo \in Range(heap.chain[k]) : Key(lo, heap.hdr[lo]) = k
    BY <2>1 DEF Sound, Chains
  <2> QED  BY <2>3, <2>4, <2>5, <2>6, <2>7, <2>8 DEF FreeListsSound
<1> QED  BY <1>1, HeapInv, PTL

-----------------------------------------------------------------------------
(* The words counted by MemoryCheck.                                       *)

\* The words of the blocks at S; no two blocks have one in common.
WordsAt(hdr, S) == UNION {lo .. (lo + hdr[lo] - 1) : lo \in S}
Separate(hdr, S) ==
  /\ IsFiniteSet(S)
  /\ \A x \in S : x \in Nat /\ hdr[x] \in Nat
  /\ \A x, y \in S : x # y => x + hdr[x] <= y \/ y + hdr[y] <= x

\* One block more.
LEMMA OneBlock ==
  ASSUME NEW hdr, NEW S, Separate(hdr, S), NEW x \in S, IsFiniteSet(WordsAt(hdr, S \ {x}))
  PROVE  /\ IsFiniteSet(WordsAt(hdr, S))
         /\ Cardinality(WordsAt(hdr, S)) = hdr[x] + Cardinality(WordsAt(hdr, S \ {x}))
<1> DEFINE W == WordsAt(hdr, S \ {x})
           I == x .. (x + hdr[x] - 1)
           m == hdr[x]
<1>1. WordsAt(hdr, S) = W \cup I
  <2>1. S = (S \ {x}) \cup {x}
    OBVIOUS
  <2> DEFINE R == S \ {x}
  <2> HIDE DEF R
  <2>2. WordsAt(hdr, R \cup {x}) = WordsAt(hdr, R) \cup I
    BY DEF WordsAt
  <2> QED  BY <2>1, <2>2 DEF R
<1>2. x \in Nat /\ m \in Nat
  BY DEF Separate
<1>3. I \cap W = {}
  <2> SUFFICES ASSUME NEW w \in I, w \in W PROVE FALSE
    OBVIOUS
  <2>1. PICK y \in S \ {x} : w \in y .. (y + hdr[y] - 1)
    BY DEF WordsAt
  <2>2. y \in Nat /\ hdr[y] \in Nat /\ (x + hdr[x] <= y \/ y + hdr[y] <= x)
    BY <2>1 DEF Separate
  <2> QED  BY <1>2, <2>1, <2>2
<1> HIDE DEF W
<1>4. Row(I, W, m)
  BY <1>2, <1>3 DEF Row
<1> HIDE DEF I, m
<1>5. IsFiniteSet(W)
  BY DEF W
<1>6. IsFiniteSet(W \cup I) /\ Cardinality(W \cup I) = Cardinality(W) + m
  BY ONLY <1>4, <1>5, AddRow
<1>7. Cardinality(W) \in Nat /\ m \in Nat
  BY <1>2, <1>5, FS_CardinalityType DEF m
<1>8. Cardinality(W \cup I) = m + Cardinality(W)
  BY ONLY <1>6, <1>7
<1> QED  BY <1>1, <1>6, <1>8 DEF W, m

\* The sum MemoryCheck forms over a set of blocks: f is the function it folds
\* with.
Folding(f, hdr, S) ==
  f = [T \in SUBSET S |-> IF T = {} THEN 0
                          ELSE LET x == CHOOSE lo \in T : TRUE
                               IN  hdr[x] + f[T \ {x}]]

LEMMA FreeWordsIs ==
  ASSUME NEW hdr, NEW S
  PROVE  FreeWords(hdr, S) = (CHOOSE f : Folding(f, hdr, S))[S]
BY DEF FreeWords, MapThenFoldSet, Folding

\* The sum is the number of the words.
LEMMA SumOfWords ==
  ASSUME NEW hdr, NEW S, Separate(hdr, S)
  PROVE  FreeWords(hdr, S) = Cardinality(WordsAt(hdr, S)) /\ IsFiniteSet(WordsAt(hdr, S))
<1> DEFINE g == [T \in SUBSET S |-> Cardinality(WordsAt(hdr, T))]
           f == CHOOSE h : Folding(h, hdr, S)
<1>1. ASSUME NEW T \in SUBSET S
      PROVE  IsFiniteSet(T) /\ Separate(hdr, T) /\ IsFiniteSet(WordsAt(hdr, T))
  <2>1. IsFiniteSet(T)
    BY FS_Subset DEF Separate
  <2>2. Separate(hdr, T)
    BY <2>1 DEF Separate
  <2> DEFINE I == {lo .. (lo + hdr[lo] - 1) : lo \in T}
  <2>3. IsFiniteSet(I)
    <3> DEFINE spread == [lo \in T |-> lo .. (lo + hdr[lo] - 1)]
    <3>1. spread \in Surjection(T, I)
      BY DEF Surjection
    <3> HIDE DEF spread, I
    <3> QED  BY <2>1, <3>1, FS_Surjection
  <2>4. \A J \in I : IsFiniteSet(J)
    <3> SUFFICES ASSUME NEW lo \in T PROVE IsFiniteSet(lo .. (lo + hdr[lo] - 1))
      OBVIOUS
    <3>1. lo \in Int /\ lo + hdr[lo] - 1 \in Int
      BY <2>2 DEF Separate
    <3> QED  BY <3>1, FS_Interval
  <2>5. IsFiniteSet(UNION I)
    BY <2>3, <2>4, FS_UNION
  <2> QED  BY <2>1, <2>2, <2>5 DEF WordsAt
<1>2. ASSUME NEW T \in SUBSET S, T # {}, NEW x \in T
      PROVE  Cardinality(WordsAt(hdr, T)) = hdr[x] + Cardinality(WordsAt(hdr, T \ {x}))
  <2>1. Separate(hdr, T) /\ IsFiniteSet(WordsAt(hdr, T \ {x}))
    BY <1>1
  <2> QED  BY <2>1, OneBlock
<1>3. Cardinality(WordsAt(hdr, {})) = 0
  <2>1. WordsAt(hdr, {}) = {}
    BY DEF WordsAt
  <2> QED  BY <2>1, FS_EmptySet
<1>4. Folding(g, hdr, S)
  <2>1. ASSUME NEW T \in SUBSET S
        PROVE  g[T] = IF T = {} THEN 0
                      ELSE LET x == CHOOSE lo \in T : TRUE
                           IN  hdr[x] + g[T \ {x}]
    <3>1. CASE T = {}
      BY <1>3, <3>1
    <3>2. CASE T # {}
      <4> DEFINE x == CHOOSE lo \in T : TRUE
      <4>1. x \in T
        BY <3>2
      <4> HIDE DEF x
      <4>2. g[T] = hdr[x] + g[T \ {x}]
        BY <1>2, <3>2, <4>1
      <4> HIDE DEF g
      <4> QED  BY <3>2, <4>2 DEF x
    <3> QED  BY <3>1, <3>2
  <2> DEFINE e == [T \in SUBSET S |-> IF T = {} THEN 0
                          ELSE LET x == CHOOSE lo \in T : TRUE
                               IN  hdr[x] + g[T \ {x}]]
  <2>2. g = e
    BY <2>1
  <2> HIDE DEF g
  <2> QED  BY <2>2 DEF Folding
<1>5. Folding(f, hdr, S)
  BY <1>4
<1> HIDE DEF f
<1>6. \A T \in SUBSET S : f[T] = IF T = {} THEN 0
                                 ELSE LET x == CHOOSE lo \in T : TRUE
                                      IN  hdr[x] + f[T \ {x}]
  BY <1>5 DEF Folding
<1>7. \A T \in SUBSET S : g[T] = Cardinality(WordsAt(hdr, T))
  OBVIOUS
<1> HIDE DEF g
<1>8. \A T \in SUBSET S : f[T] = g[T]
  <2> DEFINE bad == {T \in SUBSET S : f[T] # g[T]}
             D == {Cardinality(T) : T \in bad}
  <2> SUFFICES ASSUME bad # {} PROVE FALSE
    OBVIOUS
  <2>1. D \in SUBSET Nat /\ D # {}
    BY <1>1, FS_CardinalityType
  <2>2. Min(D) \in D /\ \A d \in D : Min(D) <= d
    BY <2>1, Least
  <2>3. PICK T \in bad : \A U \in bad : Cardinality(T) <= Cardinality(U)
    BY <2>2
  <2>4. T \in SUBSET S /\ f[T] # g[T]
    BY <2>3
  <2>5. T # {}
    <3>1. f[{}] = 0 /\ g[{}] = 0
      BY <1>3, <1>6, <1>7
    <3> QED  BY <2>4, <3>1
  <2> DEFINE x == CHOOSE lo \in T : TRUE
             U == T \ {x}
  <2>6. x \in T /\ U \in SUBSET S /\ f[T] = hdr[x] + f[U]
    BY <1>6, <2>4, <2>5
  <2> HIDE DEF x
  <2>7. g[T] = hdr[x] + g[U]
    BY <1>2, <1>7, <2>4, <2>5, <2>6
  <2>8. Cardinality(U) = Cardinality(T) - 1 /\ Cardinality(T) \in Nat
    BY <1>1, <2>4, <2>6, FS_RemoveElement, FS_CardinalityType
  <2>9. U \notin bad
    <3>1. Cardinality(U) < Cardinality(T) /\ Cardinality(U) \in Int
      BY <2>8
    <3> HIDE DEF U, bad
    <3> QED  BY <2>3, <2>8, <3>1
  <2> QED  BY <2>4, <2>6, <2>7, <2>9
<1>9. FreeWords(hdr, S) = f[S]
  BY FreeWordsIs DEF f
<1> QED  BY <1>1, <1>7, <1>8, <1>9

\* No word is lost or counted twice: the words of the free blocks and those in
\* use are the words got from the system, and the number by which MemoryCheck
\* finds them to differ is 0.
THEOREM HeapAccounting == Spec => []Accounting
<1>1. HInv => Accounting
  <2> SUFFICES ASSUME HInv PROVE Accounting
    OBVIOUS
  <2> DEFINE F == FreeBlocks
             hdr == heap.hdr
             C == FreeCover(Blocks)
  <2>1. /\ IsFiniteSet(memory) /\ heap.nmem = Cardinality(memory)
        /\ heap.nnet = Cardinality(memory \ C)
    BY DEF HInv, Tables, Counted
  <2>2. BP!Good(Blocks) /\ memory = BP!Cover(Blocks) /\ Sound(heap, F)
    BY StateFacts
  <2>3. /\ \A y \in F : [kind |-> "free", lo |-> y, size |-> hdr[y]] \in Blocks
        /\ \A b \in Blocks : b.kind = "free" => b.lo \in F /\ b.size = hdr[b.lo]
        /\ DOMAIN hdr \subseteq memory
    BY BlockFactsHere
  <2>4. Separate(hdr, F)
    <3>1. F \subseteq memory /\ IsFiniteSet(F)
      BY <2>1, <2>2, <2>3, FS_Subset DEF Sound
    <3>2. \A y \in F : y \in Nat /\ hdr[y] \in Nat
      BY <2>2, FreeFacts
    <3>3. ASSUME NEW y \in F, NEW z \in F, y # z
          PROVE  y + hdr[y] <= z \/ z + hdr[z] <= y
      <4> DEFINE b == [kind |-> "free", lo |-> y, size |-> hdr[y]]
                 c == [kind |-> "free", lo |-> z, size |-> hdr[z]]
      <4>1. b \in Blocks /\ c \in Blocks
        BY <2>3
      <4>2. b.lo = y /\ BP!End(b) = y + hdr[y] /\ c.lo = z /\ BP!End(c) = z + hdr[z]
        BY DEF BP!End
      <4> HIDE DEF b, c
      <4>3. BP!Apart(b, c)
        BY <2>2, <3>3, <4>1, <4>2 DEF BP!Good, BP!Disjoint
      <4> QED  BY <4>2, <4>3 DEF BP!Apart
    <3> QED  BY <3>1, <3>2, <3>3 DEF Separate
  <2>5. WordsAt(hdr, F) = C
    <3>1. ASSUME NEW w, w \in WordsAt(hdr, F) PROVE w \in C
      <4>1. PICK y \in F : w \in y .. (y + hdr[y] - 1)
        BY <3>1 DEF WordsAt
      <4> DEFINE b == [kind |-> "free", lo |-> y, size |-> hdr[y]]
      <4>2. b \in Blocks /\ b.kind = "free" /\ b.lo = y /\ b.size = hdr[y]
        BY <2>3
      <4> HIDE DEF b
      <4> QED  BY <4>1, <4>2, CoverFree
    <3>2. ASSUME NEW w, w \in C PROVE w \in WordsAt(hdr, F)
      <4>1. PICK b \in Blocks : b.kind = "free" /\ w \in b.lo .. (b.lo + b.size - 1)
        BY <3>2, CoverFree
      <4>2. b.lo \in F /\ b.size = hdr[b.lo]
        BY <2>3, <4>1
      <4> QED  BY <4>1, <4>2 DEF WordsAt
    <3> QED  BY <3>1, <3>2
  <2>6. C \subseteq memory
    BY <2>2, CoverInMemory DEF BP!Good
  <2>7. FreeWords(hdr, F) = Cardinality(C) /\ IsFiniteSet(C)
    BY <2>4, <2>5, SumOfWords
  <2> HIDE DEF C, F, hdr
  <2> DEFINE N == memory \ C
  <2>8. IsFiniteSet(N)
    BY <2>1, FS_Subset
  <2>9. Cardinality(N \cup C) = Cardinality(N) + Cardinality(C) - Cardinality(N \cap C)
    BY <2>7, <2>8, FS_Union
  <2>10. N \cup C = memory /\ N \cap C = {} /\ Cardinality({}) = 0
    BY <2>6, FS_EmptySet
  <2>11. Cardinality(N) \in Nat /\ Cardinality(C) \in Nat
    BY <2>7, <2>8, FS_CardinalityType
  <2>12. FreeWords(hdr, F) + heap.nnet = heap.nmem
    <3>1. heap.nnet = Cardinality(N)
      BY <2>1
    <3> HIDE DEF N
    <3>2. Cardinality(memory) = Cardinality(N) + Cardinality(C) - 0
      BY ONLY <2>9, <2>10
    <3> QED  BY ONLY <2>1, <2>7, <2>11, <3>1, <3>2
  <2> QED  BY <2>12 DEF Accounting, hdr, F
<1> QED  BY <1>1, HeapInv, PTL

-----------------------------------------------------------------------------
(* When the heap grows.                                                    *)

\* No list holds what is asked for when the heap is about to grow.
LEMMA NoFit ==
  ASSUME HInv, call.at = "grow"
  PROVE  NothingFits
<1> SUFFICES ASSUME NEW lo \in FreeBlocks
             PROVE  /\ heap.hdr[lo] # call.m
                    /\ heap.hdr[lo] < call.m + Max({MinSeg1, MinSeg2})
  BY DEF NothingFits
<1>1. Searched /\ Caller /\ Sound(heap, FreeBlocks)
  BY DEF HInv, Tables
<1> DEFINE s == heap.hdr[lo]
           m == call.m
<1>2. s \in Nat /\ m \in Nat
  BY <1>1, FreeFacts, CallFacts
<1>3. /\ NIndex \in Nat /\ MinSeg1 \in Nat /\ MinSeg2 \in Nat
      /\ MinSeg1 >= MinWords /\ MinWords \in Nat /\ MinWords > 0
      /\ Max({MinSeg1, MinSeg2}) = IF MinSeg1 >= MinSeg2 THEN MinSeg1 ELSE MinSeg2
  BY SizeFacts, MaxPair
<1>4. ASSUME s > NIndex PROVE s # m /\ s < m + MinSeg2
  <2>1. Big \in 1..Big /\ ListOf(s) = Big
    BY <1>3, <1>4 DEF Big, ListOf
  <2>2. lo \in Range(heap.list[Big])
    BY <1>1, <2>1, ListFacts
  <2>3. PICK k \in DOMAIN heap.list[Big] : heap.list[Big][k] = lo
    BY <2>2, InRange
  <2>4. ~ Fits(s)
    BY <1>1, <2>3 DEF Searched, Fitting
  <2> QED  BY <1>2, <1>3, <2>4 DEF Fits
<1>5. ASSUME s <= NIndex PROVE s # m /\ s < m + MinSeg1
  <2>1. CASE m <= NIndex
    BY <1>1, <1>5, <2>1 DEF Searched
  <2>2. CASE m > NIndex
    BY <1>2, <1>3, <1>5, <2>2
  <2> QED  BY <1>2, <1>3, <2>1, <2>2
<1> HIDE DEF s, m
<1>6. s # m /\ s < m + Max({MinSeg1, MinSeg2})
  BY ONLY <1>2, <1>3, <1>4, <1>5
<1> QED  BY <1>6 DEF s, m

\* The chunk serves the request it was taken for, unless that request is within
\* MinSeg2 words of its end.
LEMMA ChunkFits ==
  ASSUME HInv, NEW a \in ChunkAddr, Talocp(a), Roomy
  PROVE  Fitting' # {}
<1>1. PICK at, G : Gained(a, at, G)
  BY GainedFacts
<1>2. call.at = "grow" /\ call' = [call EXCEPT !.at = "big"] /\ resv' = resv
  BY TalocpIs
<1>3. call'.m = call.m
  BY <1>2, MovedOn
<1> DEFINE h == heap'
           s == h.hdr[at]
           m == call.m
<1>4. Sound(h, G) /\ at \in G /\ s >= GainSize(a)
  BY <1>1 DEF Gained
<1>5. /\ Chunk \in Nat /\ GainSize(a) \in Nat /\ GainSize(a) >= Chunk - MinWords
      /\ GainSize(a) > NIndex /\ m \in Nat
  BY <1>2, ChunkNumbers
<1>6. MinWords \in Nat /\ MinSeg2 \in Nat /\ NIndex \in Nat
  BY SizeFacts
<1>7. m + MinSeg2 <= Chunk - MinWords
  BY DEF Roomy, Chunk
<1> HIDE DEF h
<1>8. s \in Nat
  BY <1>4, FreeFacts
<1> HIDE DEF s, m
<1>9. s > NIndex /\ s - MinSeg2 >= m
  BY ONLY <1>4, <1>5, <1>6, <1>7, <1>8
<1>10. Big \in 1..Big /\ ListOf(s) = Big
  BY <1>6, <1>9 DEF Big, ListOf
<1>11. at \in Range(h.list[Big])
  BY <1>4, <1>10, ListFacts DEF s
<1>12. PICK k \in DOMAIN h.list[Big] : h.list[Big][k] = at
  BY <1>11, InRange
<1>13. heap'.hdr[heap'.list[Big][k]] - MinSeg2 >= call'.m
  BY <1>3, <1>9, <1>12 DEF h, s, m
<1>14. k \in Fitting'
  BY <1>12, <1>13 DEF Fitting, Fits, h
<1> QED  BY <1>14

\* ktaloc takes memory from the system only when no free block serves the
\* request, whatever list it is in, and then gets a chunk that does.
THEOREM HeapGrows == Spec => GrowsOnlyWhenNeeded
<1>1. HInv /\ [Next]_vars => [memory' # memory => NothingFits /\ (Roomy => Fitting' # {})]_vars
  <2> SUFFICES ASSUME HInv, Next, memory' # memory
               PROVE  NothingFits /\ (Roomy => Fitting' # {})
    OBVIOUS
  <2>1. PICK a \in ChunkAddr : Talocp(a)
    BY DEF Next, Ktaloc, Ktalocr, Tfree, Carve, DropReserve, NewReserve, TakeExact,
         TakeNear, TakeFar, SmallFails, TakeBig, BigFails, OutOfMemory, Done
  <2>2. call.at = "grow"
    BY <2>1, TalocpIs
  <2> QED  BY <2>1, <2>2, NoFit, ChunkFits
<1> QED  BY <1>1, HeapInv, PTL DEF Spec, GrowsOnlyWhenNeeded

\* So what was proved of BlockStore holds of the lists and chains: the blocks
\* the tables describe divide the memory, no two free ones are side by side,
\* each one that may be freed is followed by a header, and a step takes at most
\* one block from the program.
THEOREM HeapBlocks == Spec => [](Store!Tiling /\ Store!Neighbours) /\ Store!HeldStable
<1>1. HInv => Store!Tiling /\ Store!Neighbours
  <2>1. BP!Inv => BP!Tiling /\ BP!Neighbours
    BY DEF BP!Inv, BP!Tiling, BP!Neighbours
  <2>2. BP!Tiling /\ BP!Neighbours => Store!Tiling /\ Store!Neighbours
    BY DEF BP!Tiling, BP!NoOverlap, BP!Tiled, BP!Neighbours, BP!Coalesced, BP!Followed,
         BP!Words, BP!End, Store!Tiling, Store!NoOverlap, Store!Tiled, Store!Neighbours,
         Store!Coalesced, Store!Followed, Store!Words, Store!End
  <2> QED  BY <2>1, <2>2 DEF HInv
<1>2. Init => BP!Init
  BY StartInv
<1>3. HInv /\ [Next]_vars => [BP!Next]_(BP!vars)
  BY HeapStep DEF BP!vars
<1>4. BP!Spec => BP!HeldStable
  BY SizesAreNat, BP!BlockStoreHeld
<1>5. BP!HeldIsStable <=> Store!HeldIsStable
  BY DEF BP!HeldIsStable, Store!HeldIsStable
<1>6. [BP!HeldIsStable]_(BP!vars) => [Store!HeldIsStable]_(Store!vars)
  BY <1>5 DEF BP!vars, Store!vars
<1> QED
  BY <1>1, <1>2, <1>3, <1>4, <1>6, HeapInv, PTL
  DEF Spec, BP!Spec, BP!HeldStable, Store!HeldStable
=============================================================================
