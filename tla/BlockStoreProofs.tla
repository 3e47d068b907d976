-------------------------- MODULE BlockStoreProofs --------------------------
(***************************************************************************)
(* Proofs about BlockStore for every size of block, every place the system *)
(* may put a chunk at, and every sequence of operations.                   *)
(*                                                                         *)
(* The five parts of Inv are inductive together: tfree keeps the blocks    *)
(* merged only because they were merged and disjoint before, and finds a   *)
(* header after the block it frees only because every other operation left *)
(* one there.                                                              *)
(***************************************************************************)
EXTENDS BlockStore, TLAPS

Inv == TypeOK /\ NoOverlap /\ Tiled /\ Coalesced /\ Followed

\* The parts of the invariant for a set of blocks.
Apart(b, c)  == End(b) <= c.lo \/ End(c) <= b.lo
Disjoint(bs) == \A b, c \in bs : b # c => Apart(b, c)
NoPair(bs)   ==
  \A b, c \in bs : ~ (b.kind = "free" /\ c.kind = "free" /\ End(b) = c.lo)
Chained(bs)  == \A b \in bs : b.kind # "sep" => \E c \in bs : c.lo = End(b)
Cover(bs)    == UNION {Words(b) : b \in bs}
SepSize(bs)  == \A b \in bs : b.kind = "sep" => b.size = MinWords

Good(bs) == /\ bs \subseteq Block
            /\ SepSize(bs)
            /\ Disjoint(bs)
            /\ NoPair(bs)
            /\ Chained(bs)

\* The invariant, in terms of these operators.
LEMMA InvIsGood == Inv <=> Good(blocks) /\ memory \subseteq Nat /\ memory = Cover(blocks)
BY DEF Inv, TypeOK, NoOverlap, Tiled, Coalesced, Followed, Good, Disjoint,
       Apart, NoPair, Chained, Cover, SepSize

\* A block and its parts.
LEMMA BlockFacts ==
  ASSUME NEW b \in Block
  PROVE  /\ b.kind \in Kind /\ b.lo \in Nat /\ b.size \in Nat
         /\ b.size >= MinWords /\ b.size > 0
         /\ End(b) \in Nat /\ End(b) > b.lo
         /\ End(b) = b.lo + b.size
         /\ b = [kind |-> b.kind, lo |-> b.lo, size |-> b.size]
BY MinWordsAssumption DEF Block, End

\* What lies in a block.
LEMMA CoverFacts ==
  ASSUME NEW bs, NEW w
  PROVE  w \in Cover(bs) <=> \E b \in bs : w \in b.lo .. (End(b) - 1)
BY DEF Cover, Words

\* What tfree makes of the block it frees and its free neighbours: where the
\* merged block starts and ends, for a block x that overlaps none of bs.
LEMMA MergedFacts ==
  ASSUME NEW bs, bs \subseteq Block, Disjoint(bs),
         NEW x \in Block, \A c \in bs : Apart(x, c)
  PROVE  /\ \/ Before(bs, x) = {} /\ Start(bs, x) = x.lo
            \/ \E f \in bs : /\ f.kind = "free" /\ End(f) = x.lo
                             /\ Before(bs, x) = {f} /\ Start(bs, x) = f.lo
         /\ \/ After(bs, x) = {} /\ Finish(bs, x) = End(x)
            \/ \E g \in bs : /\ g.kind = "free" /\ g.lo = End(x)
                             /\ After(bs, x) = {g} /\ Finish(bs, x) = End(g)
<1>1. ASSUME Before(bs, x) = {} PROVE Start(bs, x) = x.lo
  BY <1>1 DEF Start
<1>2. ASSUME Before(bs, x) # {}
      PROVE  \E f \in bs : /\ f.kind = "free" /\ End(f) = x.lo
                           /\ Before(bs, x) = {f} /\ Start(bs, x) = f.lo
  <2> DEFINE f == CHOOSE h \in Before(bs, x) : TRUE
  <2>1. f \in Before(bs, x)
    BY <1>2
  <2>2. f \in bs /\ f.kind = "free" /\ End(f) = x.lo
    BY <2>1 DEF Before
  <2> HIDE DEF f
  <2>3. ASSUME NEW h \in Before(bs, x) PROVE h = f
    <3>1. h \in bs /\ End(h) = x.lo
      BY DEF Before
    <3>2. h \in Block /\ f \in Block
      BY <2>2, <3>1
    <3>3. End(h) > h.lo /\ End(f) > f.lo /\ h.lo \in Nat /\ f.lo \in Nat /\ x.lo \in Nat
      BY <3>2, BlockFacts
    <3>4. ~ Apart(h, f)
      BY <2>2, <3>1, <3>3 DEF Apart
    <3> QED  BY <2>2, <3>1, <3>4 DEF Disjoint
  <2>4. Before(bs, x) = {f}
    BY <2>1, <2>3
  <2>5. Start(bs, x) = f.lo
    BY <1>2 DEF Start, f
  <2> QED  BY <2>2, <2>4, <2>5
<1>3. ASSUME After(bs, x) = {} PROVE Finish(bs, x) = End(x)
  BY <1>3 DEF Finish
<1>4. ASSUME After(bs, x) # {}
      PROVE  \E g \in bs : /\ g.kind = "free" /\ g.lo = End(x)
                           /\ After(bs, x) = {g} /\ Finish(bs, x) = End(g)
  <2> DEFINE g == CHOOSE h \in After(bs, x) : TRUE
  <2>1. g \in After(bs, x)
    BY <1>4
  <2>2. g \in bs /\ g.kind = "free" /\ g.lo = End(x)
    BY <2>1 DEF After
  <2> HIDE DEF g
  <2>3. ASSUME NEW h \in After(bs, x) PROVE h = g
    <3>1. h \in bs /\ h.lo = End(x)
      BY DEF After
    <3>2. h \in Block /\ g \in Block
      BY <2>2, <3>1
    <3>3. End(h) > h.lo /\ End(g) > g.lo /\ h.lo \in Nat /\ g.lo \in Nat
          /\ End(h) \in Nat /\ End(g) \in Nat
      BY <3>2, BlockFacts
    <3>4. ~ Apart(h, g)
      BY <2>2, <3>1, <3>3 DEF Apart
    <3> QED  BY <2>2, <3>1, <3>4 DEF Disjoint
  <2>4. After(bs, x) = {g}
    BY <2>1, <2>3
  <2>5. Finish(bs, x) = End(g)
    BY <1>4 DEF Finish, g
  <2> QED  BY <2>2, <2>4, <2>5
<1>5. \/ Before(bs, x) = {} /\ Start(bs, x) = x.lo
      \/ \E f \in bs : /\ f.kind = "free" /\ End(f) = x.lo
                       /\ Before(bs, x) = {f} /\ Start(bs, x) = f.lo
  BY <1>1, <1>2
<1>6. \/ After(bs, x) = {} /\ Finish(bs, x) = End(x)
      \/ \E g \in bs : /\ g.kind = "free" /\ g.lo = End(x)
                       /\ After(bs, x) = {g} /\ Finish(bs, x) = End(g)
  BY <1>3, <1>4
<1> QED  BY <1>5, <1>6

-----------------------------------------------------------------------------
\* tfree keeps the blocks good: freeing x, with whatever it is merged with,
\* leaves blocks that do not overlap, no two free ones side by side, each
\* followed by another, and covering the same words.
LEMMA FreedGood ==
  ASSUME NEW bs, bs \subseteq Block, SepSize(bs), Disjoint(bs), NoPair(bs),
         NEW x \in Block, \A c \in bs : Apart(x, c), x.kind = "used",
         Chained(bs \cup {x})
  PROVE  Good(Freed(bs, x)) /\ Cover(Freed(bs, x)) = Cover(bs \cup {x})
<1> DEFINE B == Before(bs, x)
           A == After(bs, x)
           l == Start(bs, x)
           h == Finish(bs, x)
           M == Merged(bs, x)
           new == Freed(bs, x)
<1>1. /\ \/ B = {} /\ l = x.lo
         \/ \E f \in bs : f.kind = "free" /\ End(f) = x.lo /\ B = {f} /\ l = f.lo
      /\ \/ A = {} /\ h = End(x)
         \/ \E g \in bs : g.kind = "free" /\ g.lo = End(x) /\ A = {g} /\ h = End(g)
  BY MergedFacts
<1>2. new = (bs \ (B \cup A)) \cup {M}
  BY DEF Freed
<1>3. M = [kind |-> "free", lo |-> l, size |-> h - l]
  BY DEF Merged
<1>4. /\ \A c \in bs \cup {x} : /\ c.lo \in Nat /\ c.size \in Nat /\ c.size >= MinWords
                              /\ End(c) \in Nat /\ End(c) > c.lo
                              /\ End(c) = c.lo + c.size
  BY BlockFacts
<1>5. l \in Nat /\ h \in Nat /\ l <= x.lo /\ End(x) <= h
  BY <1>1, <1>4
<1>6. M \in Block /\ M.kind = "free" /\ M.lo = l /\ End(M) = h /\ l < h
  BY <1>3, <1>4, <1>5, MinWordsAssumption DEF Block, Kind, End
<1> HIDE DEF B, A, l, h, M, new
<1>7. new \subseteq Block
  BY <1>2, <1>6
<1>8. \A c \in bs \ (B \cup A) : Apart(c, M)
  <2> SUFFICES ASSUME NEW c \in bs \ (B \cup A) PROVE Apart(c, M)
    OBVIOUS
  <2>1. Apart(x, c)
    OBVIOUS
  <2>2. ASSUME NEW f \in bs, B = {f}, End(f) = x.lo, l = f.lo
        PROVE  End(c) <= l \/ x.lo <= c.lo
    BY <2>2, <1>4 DEF Disjoint, Apart
  <2>3. ASSUME NEW g \in bs, A = {g}, g.lo = End(x), h = End(g)
        PROVE  h <= c.lo \/ End(c) <= End(x)
    BY <2>3, <1>4 DEF Disjoint, Apart
  <2>4. End(c) <= l \/ x.lo <= c.lo
    BY <2>1, <2>2, <1>1, <1>4 DEF Apart
  <2>5. h <= c.lo \/ End(c) <= End(x)
    BY <2>1, <2>3, <1>1, <1>4 DEF Apart
  <2> QED  BY <2>1, <2>4, <2>5, <1>4, <1>5, <1>6 DEF Apart
<1>9. Disjoint(new)
  BY <1>2, <1>8 DEF Disjoint, Apart
<1>10. NoPair(new)
  <2> SUFFICES ASSUME NEW c \in new, NEW d \in new,
                      c.kind = "free", d.kind = "free", End(c) = d.lo
               PROVE  FALSE
    BY DEF NoPair
  <2>1. CASE c \in bs /\ d \in bs
    BY <2>1 DEF NoPair
  <2>2. CASE c = M /\ d = M
    <3>1. h = l
      BY <2>2, <1>6
    <3> QED  BY <3>1, <1>5, <1>6
  <2>3. CASE c \in bs \ (B \cup A) /\ d = M
    <3>1. End(c) = l
      BY <2>3, <1>6
    <3>2. c \notin B
      BY <2>3
    <3>3. B # {}
      BY <3>1, <3>2, <1>1, <2>3 DEF Before, B
    <3>4. PICK f \in bs : f.kind = "free" /\ l = f.lo
      BY <3>3, <1>1
    <3> QED  BY <3>1, <3>4, <2>3 DEF NoPair
  <2>4. CASE c = M /\ d \in bs \ (B \cup A)
    <3>1. d.lo = h
      BY <2>4, <1>6
    <3>2. A # {}
      BY <3>1, <1>1, <2>4 DEF After, A
    <3>3. PICK g \in bs : g.kind = "free" /\ h = End(g)
      BY <3>2, <1>1
    <3> QED  BY <3>1, <3>3, <2>4 DEF NoPair
  <2> QED  BY <2>1, <2>2, <2>3, <2>4, <1>2
<1>11. Chained(new)
  <2> SUFFICES ASSUME NEW c \in new, c.kind # "sep"
               PROVE  \E d \in new : d.lo = End(c)
    BY DEF Chained
  <2>1. CASE c = M
    <3>1. PICK e \in bs \cup {x} : End(e) = h /\ e.kind # "sep" /\ l <= e.lo
      BY <1>1, <1>4, <1>5
    <3>2. PICK d \in bs \cup {x} : d.lo = h
      BY <3>1 DEF Chained
    <3>3. d # x
      BY <3>2, <1>4, <1>5
    <3>4. d \notin B
      BY <3>2, <1>4, <1>5, <1>1
    <3>5. d \notin A
      BY <3>2, <1>4, <1>5, <1>1
    <3> QED  BY <2>1, <3>2, <3>3, <3>4, <3>5, <1>2, <1>6
  <2>2. CASE c \in bs \ (B \cup A)
    <3>1. PICK d \in bs \cup {x} : d.lo = End(c)
      BY <2>2 DEF Chained
    <3>2. CASE d = x
      <4>1. B = {}
        <5> SUFFICES ASSUME NEW f \in bs, End(f) = x.lo, B = {f} PROVE FALSE
          BY <1>1
        <5>1. ~ Apart(c, f)
          BY <3>1, <3>2, <1>4, <2>2 DEF Apart
        <5> QED  BY <5>1, <2>2 DEF Disjoint
      <4> QED  BY <4>1, <1>1, <1>2, <1>6, <3>1, <3>2
    <3>3. CASE d \in A
      <4>1. d.lo = End(x)
        BY <3>3, <1>1
      <4>2. /\ End(c) = End(x) /\ End(x) > x.lo /\ End(c) > c.lo
            /\ End(x) \in Nat /\ x.lo \in Nat /\ c.lo \in Nat
        BY <4>1, <3>1, <1>4, <2>2
      <4>3. ~ Apart(x, c)
        BY <4>2 DEF Apart
      <4> QED  BY <4>3, <2>2
    <3>4. CASE d \in B
      BY <3>4, <3>1, <1>1, <1>2, <1>6
    <3> QED  BY <3>1, <3>2, <3>3, <3>4, <1>2
  <2> QED  BY <2>1, <2>2, <1>2
<1>12. Cover(new) = Cover(bs \cup {x})
  <2>1. ASSUME NEW w \in Cover(new) PROVE w \in Cover(bs \cup {x})
    <3>1. PICK c \in new : w \in c.lo .. (End(c) - 1)
      BY <2>1, CoverFacts
    <3>2. CASE c = M
      <4>1. w \in l .. (h - 1)
        BY <3>1, <3>2, <1>6
      <4>2. \E d \in bs \cup {x} : w \in d.lo .. (End(d) - 1)
        BY <4>1, <1>1, <1>4
      <4> QED  BY <4>2, CoverFacts
    <3>3. CASE c \in bs
      BY <3>1, <3>3, CoverFacts
    <3> QED  BY <3>2, <3>3, <1>2
  <2>2. ASSUME NEW w \in Cover(bs \cup {x}) PROVE w \in Cover(new)
    <3>1. PICK c \in bs \cup {x} : w \in c.lo .. (End(c) - 1)
      BY <2>2, CoverFacts
    <3>2. CASE c \in bs \ (B \cup A)
      BY <3>1, <3>2, <1>2, CoverFacts
    <3>3. CASE c = x \/ c \in B \/ c \in A
      <4>1. l <= c.lo /\ End(c) <= h
        BY <3>3, <1>1, <1>4, <1>5
      <4>2. w \in M.lo .. (End(M) - 1)
        BY <4>1, <3>1, <1>4, <1>5, <1>6
      <4> QED  BY <4>2, <1>2, CoverFacts
    <3> QED  BY <3>1, <3>2, <3>3
  <2> QED  BY <2>1, <2>2
<1>13. SepSize(new)
  BY <1>2, <1>6 DEF SepSize
<1> QED  BY <1>7, <1>9, <1>10, <1>11, <1>12, <1>13 DEF Good, new

-----------------------------------------------------------------------------
\* Cutting a block in two, as ktaloc and ktalocr do: b becomes p, which the
\* program holds, and q, the rest.
LEMMA SplitGood ==
  ASSUME NEW bs, Good(bs), NEW b \in bs, NEW m \in Nat, m >= MinWords,
         b.size >= m + MinWords, NEW k \in {"used", "free"},
         b.kind = k
  PROVE  LET p == [kind |-> "used", lo |-> b.lo, size |-> m]
             q == [kind |-> k, lo |-> b.lo + m, size |-> b.size - m]
             new == (bs \ {b}) \cup {p, q}
         IN  Good(new) /\ Cover(new) = Cover(bs)
<1> DEFINE p == [kind |-> "used", lo |-> b.lo, size |-> m]
           q == [kind |-> k, lo |-> b.lo + m, size |-> b.size - m]
           new == (bs \ {b}) \cup {p, q}
<1>1. \A c \in bs : /\ c \in Block /\ c.lo \in Nat /\ c.size \in Nat /\ c.size >= MinWords
                    /\ End(c) \in Nat /\ End(c) > c.lo /\ End(c) = c.lo + c.size
  BY BlockFacts DEF Good
<1>2. MinWords \in Nat /\ MinWords > 0
  BY MinWordsAssumption
<1>3. /\ p \in Block /\ p.kind = "used" /\ p.lo = b.lo /\ End(p) = b.lo + m
      /\ q \in Block /\ q.kind = k /\ q.lo = b.lo + m /\ End(q) = End(b)
  BY <1>1, <1>2 DEF Block, Kind, End
<1>4. /\ b.lo \in Nat /\ End(b) \in Nat /\ b.lo < b.lo + m /\ b.lo + m < End(b)
  BY <1>1, <1>2
<1> HIDE DEF p, q
<1>5. new \subseteq Block
  BY <1>1, <1>3
<1>6. \A c \in bs \ {b} : Apart(c, p) /\ Apart(c, q) /\ Apart(p, c) /\ Apart(q, c)
  <2> SUFFICES ASSUME NEW c \in bs \ {b}
               PROVE  Apart(c, p) /\ Apart(c, q) /\ Apart(p, c) /\ Apart(q, c)
    OBVIOUS
  <2>1. Apart(b, c)
    BY DEF Good, Disjoint
  <2> QED  BY <2>1, <1>1, <1>3, <1>4 DEF Apart
<1>7. Apart(p, q) /\ Apart(q, p)
  BY <1>3, <1>4 DEF Apart
<1>8. Disjoint(new)
  BY <1>6, <1>7 DEF Disjoint, Good
<1>9. NoPair(new)
  <2> SUFFICES ASSUME NEW c \in new, NEW d \in new,
                      c.kind = "free", d.kind = "free", End(c) = d.lo
               PROVE  FALSE
    BY DEF NoPair
  <2>1. c # p /\ d # p
    BY <1>3
  <2>2. CASE c = q /\ d = q
    <3>1. End(b) = b.lo + m
      BY <2>2, <1>3
    <3> QED  BY <3>1, <1>4
  <2>3. CASE c = q /\ d \in bs
    BY <2>3, <1>3 DEF Good, NoPair
  <2>4. CASE c \in bs \ {b} /\ d = q
    <3>1. End(c) = b.lo + m
      BY <2>4, <1>3
    <3>2. ~ Apart(b, c)
      BY <3>1, <1>1, <1>4, <2>4 DEF Apart
    <3> QED  BY <3>2, <2>4 DEF Good, Disjoint
  <2>5. CASE c \in bs /\ d \in bs
    BY <2>5 DEF Good, NoPair
  <2> QED  BY <2>1, <2>2, <2>3, <2>4, <2>5
<1>10. Chained(new)
  <2> SUFFICES ASSUME NEW c \in new, c.kind # "sep"
               PROVE  \E d \in new : d.lo = End(c)
    BY DEF Chained
  <2>1. CASE c = p
    BY <2>1, <1>3
  <2>2. CASE c = q \/ c \in bs \ {b}
    <3>1. \E e \in bs : e.kind # "sep" /\ End(e) = End(c)
      BY <2>2, <1>3
    <3>2. PICK d \in bs : d.lo = End(c)
      BY <3>1 DEF Good, Chained
    <3>3. CASE d = b
      BY <3>2, <3>3, <1>3
    <3>4. CASE d # b
      BY <3>2, <3>4
    <3> QED  BY <3>3, <3>4
  <2> QED  BY <2>1, <2>2
<1>11. Cover(new) = Cover(bs)
  <2>1. ASSUME NEW w \in Cover(new) PROVE w \in Cover(bs)
    <3>1. PICK c \in new : w \in c.lo .. (End(c) - 1)
      BY <2>1, CoverFacts
    <3>2. \E d \in bs : w \in d.lo .. (End(d) - 1)
      BY <3>1, <1>1, <1>3, <1>4
    <3> QED  BY <3>2, CoverFacts
  <2>2. ASSUME NEW w \in Cover(bs) PROVE w \in Cover(new)
    <3>1. PICK c \in bs : w \in c.lo .. (End(c) - 1)
      BY <2>2, CoverFacts
    <3>2. CASE c # b
      BY <3>1, <3>2, CoverFacts
    <3>3. CASE c = b
      <4>1. w \in p.lo .. (End(p) - 1) \/ w \in q.lo .. (End(q) - 1)
        BY <3>1, <3>3, <1>1, <1>3, <1>4
      <4> QED  BY <4>1, CoverFacts
    <3> QED  BY <3>2, <3>3
  <2> QED  BY <2>1, <2>2
<1>12. SepSize(new)
  BY <1>3 DEF SepSize, Good
<1> QED  BY <1>5, <1>8, <1>9, <1>10, <1>11, <1>12 DEF Good, p, q

\* A free block that is given to the program whole.
LEMMA TakeGood ==
  ASSUME NEW bs, Good(bs), NEW b \in bs, b.kind = "free"
  PROVE  LET new == (bs \ {b}) \cup {[b EXCEPT !.kind = "used"]}
         IN  Good(new) /\ Cover(new) = Cover(bs)
<1> DEFINE u == [b EXCEPT !.kind = "used"]
           new == (bs \ {b}) \cup {u}
<1>1. \A c \in bs : c \in Block /\ c.lo \in Nat /\ c.size \in Nat
  BY BlockFacts DEF Good
<1>2. u \in Block /\ u.kind = "used" /\ u.lo = b.lo /\ u.size = b.size /\ End(u) = End(b)
  BY <1>1 DEF Block, Kind, End
<1> HIDE DEF u
<1>3. new \subseteq Block
  BY <1>1, <1>2
<1>4. Disjoint(new)
  BY <1>2 DEF Disjoint, Apart, Good
<1>5. NoPair(new)
  BY <1>2 DEF NoPair, Good
<1>6. Chained(new)
  <2> SUFFICES ASSUME NEW c \in new, c.kind # "sep"
               PROVE  \E d \in new : d.lo = End(c)
    BY DEF Chained
  <2>1. \E e \in bs : e.kind # "sep" /\ End(e) = End(c)
    BY <1>2
  <2>2. PICK d \in bs : d.lo = End(c)
    BY <2>1 DEF Good, Chained
  <2> QED  BY <2>2, <1>2
<1>7. Cover(new) = Cover(bs)
  <2>1. Words(u) = Words(b)
    BY <1>2 DEF Words
  <2> QED  BY <2>1 DEF Cover
<1>8. SepSize(new)
  BY <1>2 DEF SepSize, Good
<1> QED  BY <1>3, <1>4, <1>5, <1>6, <1>7, <1>8 DEF Good, u

\* The blocks that stay when a chunk comes in at a, where the words given
\* back with it begin, and the blocks once these words are freed.
Stay(bs, a, rest, l) ==
  \/ rest = bs /\ l = a
  \/ \E s \in bs : s.kind = "sep" /\ End(s) = a /\ rest = bs \ {s} /\ l = s.lo
Grown(rest, l, a, n) ==
  Freed(rest \cup {Separator(a, n)},
        [kind |-> "used", lo |-> l, size |-> a + n - MinWords - l])

\* A chunk the system gives, alone or together with the separator before it,
\* is disjoint from every other block and ends in a separator of its own.
LEMMA GrowGood ==
  ASSUME NEW bs, Good(bs), NEW a \in Nat, NEW n \in Nat, n >= 2 * MinWords,
         (a .. (a + n - 1)) \cap Cover(bs) = {},
         NEW rest, NEW l \in Nat, Stay(bs, a, rest, l)
  PROVE  /\ Good(Grown(rest, l, a, n))
         /\ Cover(Grown(rest, l, a, n)) = Cover(bs) \cup (a .. (a + n - 1))
<1> DEFINE x == [kind |-> "used", lo |-> l, size |-> a + n - MinWords - l]
           S == Separator(a, n)
           others == rest \cup {S}
<1>0. \/ rest = bs /\ l = a
      \/ \E s \in bs : s.kind = "sep" /\ End(s) = a /\ rest = bs \ {s} /\ l = s.lo
  BY DEF Stay
<1>1. \A c \in bs : /\ c \in Block /\ c.lo \in Nat /\ c.size \in Nat /\ c.size >= MinWords
                    /\ End(c) \in Nat /\ End(c) > c.lo /\ End(c) = c.lo + c.size
  BY BlockFacts DEF Good
<1>2. MinWords \in Nat /\ MinWords > 0
  BY MinWordsAssumption
<1>3. \A c \in bs : End(c) <= a \/ a + n <= c.lo
  <2> SUFFICES ASSUME NEW c \in bs, End(c) > a, a + n > c.lo PROVE FALSE
    BY <1>1
  <2> DEFINE w == IF c.lo >= a THEN c.lo ELSE a
  <2>1. w \in a .. (a + n - 1) /\ w \in c.lo .. (End(c) - 1)
    BY <1>1, <1>2
  <2> HIDE DEF w
  <2>2. w \in Cover(bs)
    BY <2>1, CoverFacts
  <2> QED  BY <2>1, <2>2
<1>4. rest \subseteq bs /\ l <= a
  BY <1>0, <1>1
<1>5. /\ S \in Block /\ S.kind = "sep" /\ S.size = MinWords
      /\ S.lo = a + n - MinWords /\ End(S) = a + n
  BY <1>2 DEF Separator, Block, Kind, End
<1>6. /\ x \in Block /\ x.kind = "used" /\ x.lo = l /\ End(x) = a + n - MinWords
      /\ End(x) \in Nat /\ l < End(x)
  BY <1>2, <1>4 DEF Block, Kind, End
<1> HIDE DEF x, S
<1>7. \A c \in rest : End(c) <= l \/ a + n <= c.lo
  <2>1. CASE rest = bs /\ l = a
    BY <2>1, <1>3
  <2>2. ASSUME NEW s \in bs, End(s) = a, rest = bs \ {s}, l = s.lo
        PROVE  \A c \in rest : End(c) <= l \/ a + n <= c.lo
    <3> SUFFICES ASSUME NEW c \in rest PROVE End(c) <= l \/ a + n <= c.lo
      OBVIOUS
    <3>1. Apart(c, s) /\ c \in bs
      BY <2>2 DEF Good, Disjoint
    <3>2. End(c) <= a \/ a + n <= c.lo
      BY <1>3, <3>1
    <3> QED  BY <3>1, <3>2, <2>2, <1>1 DEF Apart
  <2> QED  BY <1>0, <2>1, <2>2
<1>8. others \subseteq Block
  BY <1>1, <1>4, <1>5
<1>9. SepSize(others)
  BY <1>4, <1>5 DEF SepSize, Good
<1>10. Disjoint(others)
  <2>1. \A c \in rest : Apart(c, S) /\ Apart(S, c)
    BY <1>1, <1>2, <1>4, <1>5, <1>7 DEF Apart
  <2>2. Disjoint(rest)
    BY <1>4 DEF Disjoint, Good
  <2> QED  BY <2>1, <2>2 DEF Disjoint
<1>11. NoPair(others)
  BY <1>4, <1>5 DEF NoPair, Good
<1>12. \A c \in others : Apart(x, c)
  <2>1. \A c \in rest : Apart(x, c)
    BY <1>1, <1>2, <1>4, <1>6, <1>7 DEF Apart
  <2>2. Apart(x, S)
    BY <1>5, <1>6 DEF Apart
  <2> QED  BY <2>1, <2>2
<1>13. Chained(others \cup {x})
  <2> SUFFICES ASSUME NEW c \in others \cup {x}, c.kind # "sep"
               PROVE  \E d \in others \cup {x} : d.lo = End(c)
    BY DEF Chained
  <2>1. CASE c = x
    BY <2>1, <1>5, <1>6
  <2>2. CASE c \in rest
    <3>1. PICK d \in bs : d.lo = End(c)
      BY <2>2, <1>4 DEF Good, Chained
    <3>2. d \in rest \/ d.lo = l
      BY <1>0, <3>1
    <3> QED  BY <3>1, <3>2, <1>6
  <2> QED  BY <2>1, <2>2, <1>5
<1>14. Good(Freed(others, x)) /\ Cover(Freed(others, x)) = Cover(others \cup {x})
  BY <1>6, <1>8, <1>9, <1>10, <1>11, <1>12, <1>13, FreedGood
<1>15. Cover(others \cup {x}) = Cover(bs) \cup (a .. (a + n - 1))
  <2>1. ASSUME NEW w \in Cover(others \cup {x})
        PROVE  w \in Cover(bs) \cup (a .. (a + n - 1))
    <3>1. PICK c \in others \cup {x} : w \in c.lo .. (End(c) - 1)
      BY <2>1, CoverFacts
    <3>2. CASE c \in rest
      BY <3>1, <3>2, <1>4, CoverFacts
    <3>3. CASE c = S
      BY <3>1, <3>3, <1>2, <1>5
    <3>4. CASE c = x
      <4>1. w \in l .. (a + n - 1)
        BY <3>1, <3>4, <1>2, <1>6
      <4>2. CASE w >= a
        BY <4>1, <4>2
      <4>3. CASE w < a
        <5>1. \E s \in bs : w \in s.lo .. (End(s) - 1)
          BY <1>0, <4>1, <4>3
        <5> QED  BY <5>1, CoverFacts
      <4> QED  BY <4>1, <4>2, <4>3
    <3> QED  BY <3>1, <3>2, <3>3, <3>4
  <2>2. ASSUME NEW w \in Cover(bs) \cup (a .. (a + n - 1))
        PROVE  w \in Cover(others \cup {x})
    <3>1. CASE w \in a .. (a + n - 1)
      <4>1. w \in x.lo .. (End(x) - 1) \/ w \in S.lo .. (End(S) - 1)
        BY <3>1, <1>2, <1>4, <1>5, <1>6
      <4> QED  BY <4>1, CoverFacts
    <3>2. CASE w \in Cover(bs)
      <4>1. PICK c \in bs : w \in c.lo .. (End(c) - 1)
        BY <3>2, CoverFacts
      <4>2. CASE c \in rest
        BY <4>1, <4>2, CoverFacts
      <4>3. CASE c \notin rest
        <5>1. c.lo = l /\ End(c) = a
          BY <1>0, <4>3
        <5>2. w \in x.lo .. (End(x) - 1)
          BY <4>1, <5>1, <1>2, <1>4, <1>6
        <5> QED  BY <5>2, CoverFacts
      <4> QED  BY <4>2, <4>3
    <3> QED  BY <3>1, <3>2
  <2> QED  BY <2>1, <2>2
<1> QED  BY <1>14, <1>15 DEF x, S, Grown

-----------------------------------------------------------------------------
\* Every operation of the allocator preserves the invariant.
LEMMA StepInv ==
  ASSUME Inv, [Next]_vars
  PROVE  Inv'
<1>1. Good(blocks) /\ memory \subseteq Nat /\ memory = Cover(blocks)
  BY InvIsGood
<1>2. MinWords \in Nat /\ MinWords > 0
  BY MinWordsAssumption
<1> SUFFICES Good(blocks') /\ memory' \subseteq Nat /\ memory' = Cover(blocks')
  BY DEF Inv, TypeOK, NoOverlap, Tiled, Coalesced, Followed, Good, Disjoint,
         Apart, NoPair, Chained, Cover, SepSize
<1>3. ASSUME NEW m \in Requests, Allocate(m)
      PROVE  Good(blocks') /\ memory' = memory /\ Cover(blocks') = Cover(blocks)
  <2>1. PICK b \in blocks :
          /\ b.kind = "free"
          /\ \/ blocks' = (blocks \ {b}) \cup {[b EXCEPT !.kind = "used"]}
             \/ /\ b.size >= m + MinWords
                /\ blocks' = (blocks \ {b})
                     \cup {[kind |-> "used", lo |-> b.lo, size |-> m],
                           [kind |-> "free", lo |-> b.lo + m, size |-> b.size - m]}
    BY <1>3 DEF Allocate
  <2>2. m \in Nat /\ m >= MinWords
    BY RequestsAssumption
  <2>3. memory' = memory
    BY <1>3 DEF Allocate
  <2>4. CASE blocks' = (blocks \ {b}) \cup {[b EXCEPT !.kind = "used"]}
    BY <1>1, <2>1, <2>3, <2>4, TakeGood
  <2>5. CASE b.size >= m + MinWords /\ blocks' = (blocks \ {b})
                     \cup {[kind |-> "used", lo |-> b.lo, size |-> m],
                           [kind |-> "free", lo |-> b.lo + m, size |-> b.size - m]}
    BY <1>1, <2>1, <2>2, <2>3, <2>5, SplitGood
  <2> QED  BY <2>1, <2>4, <2>5
<1>4. ASSUME NEW b \in blocks, Release(b)
      PROVE  Good(blocks') /\ memory' = memory /\ Cover(blocks') = Cover(blocks)
  <2> DEFINE bs == blocks \ {b}
  <2>1. b.kind = "used" /\ blocks' = Freed(bs, b) /\ memory' = memory
    BY <1>4 DEF Release
  <2>2. bs \cup {b} = blocks
    OBVIOUS
  <2>3. bs \subseteq Block /\ b \in Block /\ SepSize(bs) /\ Disjoint(bs) /\ NoPair(bs)
    BY <1>1 DEF Good, SepSize, Disjoint, NoPair
  <2>4. \A c \in bs : Apart(b, c)
    BY <1>1 DEF Good, Disjoint
  <2>5. Chained(bs \cup {b})
    BY <1>1, <2>2 DEF Good
  <2> HIDE DEF bs
  <2>6. Good(Freed(bs, b)) /\ Cover(Freed(bs, b)) = Cover(bs \cup {b})
    BY <2>1, <2>3, <2>4, <2>5, FreedGood
  <2> QED  BY <2>1, <2>2, <2>6
<1>5. ASSUME NEW b \in blocks, NEW m \in Requests, Carve(b, m)
      PROVE  Good(blocks') /\ memory' = memory /\ Cover(blocks') = Cover(blocks)
  <2>1. m \in Nat /\ m >= MinWords
    BY RequestsAssumption
  <2> QED  BY <1>1, <1>5, <2>1, SplitGood DEF Carve
<1>6. ASSUME NEW a \in ChunkAddr, NEW n \in ChunkSize, Grow(a, n)
      PROVE  /\ Good(blocks')
             /\ memory' = memory \cup (a .. (a + n - 1))
             /\ Cover(blocks') = Cover(blocks) \cup (a .. (a + n - 1))
  <2>1. a \in Nat /\ n \in Nat /\ n >= 2 * MinWords
    BY ChunkAssumption
  <2>2. (a .. (a + n - 1)) \cap Cover(blocks) = {}
    BY <1>1, <1>6 DEF Grow
  <2>3. memory' = memory \cup (a .. (a + n - 1))
    BY <1>6 DEF Grow
  <2>4. ASSUME blocks' = Freed(blocks \cup {Separator(a, n)},
                      [kind |-> "used", lo |-> a, size |-> n - MinWords])
        PROVE  /\ Good(blocks')
               /\ Cover(blocks') = Cover(blocks) \cup (a .. (a + n - 1))
    <3>1. a + n - MinWords - a = n - MinWords
      BY <1>2, <2>1
    <3>2. Stay(blocks, a, blocks, a)
      BY DEF Stay
    <3>3. /\ Good(Grown(blocks, a, a, n))
          /\ Cover(Grown(blocks, a, a, n)) = Cover(blocks) \cup (a .. (a + n - 1))
      BY <1>1, <2>1, <2>2, <3>2, GrowGood
    <3> QED  BY <2>3, <2>4, <3>1, <3>3 DEF Grown
  <2>5. ASSUME NEW s \in blocks, s.kind = "sep", End(s) = a,
               blocks' = Freed((blocks \ {s}) \cup {Separator(a, n)},
                           [kind |-> "used", lo |-> s.lo, size |-> n])
        PROVE  /\ Good(blocks')
               /\ Cover(blocks') = Cover(blocks) \cup (a .. (a + n - 1))
    <3>1. s \in Block /\ s.size = MinWords
      BY <1>1, <2>5 DEF Good, SepSize
    <3>2. s.lo \in Nat /\ a = s.lo + MinWords
      BY <2>5, <3>1, BlockFacts
    <3>3. a + n - MinWords - s.lo = n
      BY <1>2, <2>1, <3>2
    <3> DEFINE rest == blocks \ {s}
               l == s.lo
    <3>4. Stay(blocks, a, rest, l) /\ l \in Nat
      BY <2>5, <3>2 DEF Stay
    <3>5. blocks' = Grown(rest, l, a, n)
      BY <2>5, <3>3 DEF Grown
    <3> HIDE DEF rest, l
    <3> QED  BY <1>1, <2>1, <2>2, <3>4, <3>5, GrowGood
  <2> QED  BY <1>6, <2>3, <2>4, <2>5 DEF Grow
<1>7. CASE UNCHANGED vars
  BY <1>1, <1>7 DEF vars
<1> QED
  <2>1. ASSUME Next PROVE Good(blocks') /\ memory' \subseteq Nat /\ memory' = Cover(blocks')
    <3>1. \A a \in ChunkAddr, n \in ChunkSize : (a .. (a + n - 1)) \subseteq Nat
      BY ChunkAssumption
    <3> QED  BY <1>1, <1>3, <1>4, <1>5, <1>6, <2>1, <3>1 DEF Next
  <2> QED  BY <1>7, <2>1

LEMMA InitInv == Init => Inv
BY DEF Init, Inv, TypeOK, NoOverlap, Tiled, Coalesced, Followed

LEMMA AlwaysInv == Spec => []Inv
BY InitInv, StepInv, PTL DEF Spec

\* The heap is always tiled by blocks that do not overlap: no word is lost, and
\* none is in two blocks.
THEOREM BlockStoreInv == Spec => [](TypeOK /\ Tiling)
<1>1. Inv => TypeOK /\ Tiling
  BY DEF Inv, Tiling
<1> QED  BY <1>1, AlwaysInv, PTL

\* No two free blocks are side by side, and each block the program may free is
\* followed by a header, so tfree never reads beyond a chunk.
THEOREM BlockStoreNeighbours == Spec => []Neighbours
<1>1. Inv => Neighbours
  BY DEF Inv, Neighbours
<1> QED  BY <1>1, AlwaysInv, PTL

\* What one caller of tfree does never takes a block from another holder.
THEOREM BlockStoreHeld == Spec => HeldStable
<1>1. [Next]_vars => [HeldIsStable]_vars
  <2> SUFFICES ASSUME [Next]_vars, NEW b \in blocks, NEW c \in blocks,
                      b.kind = "used", c.kind = "used", b # c,
                      b \notin blocks', c \notin blocks'
               PROVE  FALSE
    BY DEF HeldIsStable
  <2>1. ASSUME NEW m \in Requests, Allocate(m) PROVE FALSE
    BY <2>1 DEF Allocate
  <2>2. ASSUME NEW d \in blocks, Release(d) PROVE FALSE
    BY <2>2 DEF Release, Freed, Before, After
  <2>3. ASSUME NEW d \in blocks, NEW m \in Requests, Carve(d, m) PROVE FALSE
    BY <2>3 DEF Carve
  <2>4. ASSUME NEW a \in ChunkAddr, NEW n \in ChunkSize, Grow(a, n) PROVE FALSE
    BY <2>4 DEF Grow, Freed, Before, After
  <2>5. CASE UNCHANGED vars
    BY <2>5 DEF vars
  <2> QED  BY <2>1, <2>2, <2>3, <2>4, <2>5 DEF Next
<1> QED  BY <1>1, PTL DEF Spec, HeldStable
=============================================================================
