-------------------------- MODULE SharedPoolProofs --------------------------
(***************************************************************************)
(* Proofs about SharedPool for every set of processes, every heap and      *)
(* every size of the table.                                                *)
(*                                                                         *)
(* PoolSound and OneOwner rest on two facts about the table that they do   *)
(* not mention, and that are part of Sound: no entry, not even an empty    *)
(* one, names memory that the heap may hand out again, and an entry that   *)
(* is neither in use nor cached has no block, so that what is evicted is a *)
(* cached block.                                                           *)
(***************************************************************************)
EXTENDS SharedPool, TLAPS, FiniteSetTheorems, FunctionTheorems, SequenceTheorems

\* What the invariant says of one process with table t, heap h, mappings m
\* and blocks d in use.
Typed(t, h, m, d) ==
  /\ t \in Seq(Entry) /\ Len(t) <= NShMax
  /\ h \in SUBSET Addrs /\ m \in [Addrs -> Nat] /\ d \in SUBSET Addrs

Sound(t, h, m, d) ==
  /\ Typed(t, h, m, d)
  /\ \A i, k \in 1..Len(t) : t[i].size > 0 /\ t[i].addr = t[k].addr => i = k
  /\ \A i \in 1..Len(t) :
       /\ t[i].addr \in h
       /\ t[i].size > 0 => m[t[i].addr] # Private
       /\ t[i].size > 0 /\ t[i].st = Cached => t[i].addr \notin d
       /\ t[i].st < 0 => t[i].size = 0
  /\ \A a \in d : a \in h /\ m[a] # Private
  /\ \A a \in Addrs \ h : m[a] = Private

IInv ==
  /\ Root \in alive /\ alive \subseteq Procs /\ IsFiniteSet(alive)
  /\ tab \in [Procs -> Seq(Entry)] /\ \A p \in Procs : Len(tab[p]) <= NShMax
  /\ heap \in [Procs -> SUBSET Addrs] /\ map \in [Procs -> [Addrs -> Nat]]
  /\ held \in [Procs -> SUBSET Addrs]
  /\ \A p \in alive : Sound(tab[p], heap[p], map[p], held[p])
  /\ OneOwner

LEMMA EntryFacts ==
  ASSUME NEW t \in Seq(Entry), NEW i \in 1..Len(t)
  PROVE  /\ Len(t) \in Nat /\ DOMAIN t = 1..Len(t) /\ t \in [1..Len(t) -> Entry]
         /\ t[i] \in Entry /\ t[i].addr \in Addrs /\ t[i].size \in Nat /\ t[i].st \in Int
<1>1. Len(t) \in Nat /\ t \in [1..Len(t) -> Entry] /\ DOMAIN t = 1..Len(t)
  BY LenProperties
<1>2. t[i] \in Entry
  BY <1>1
<1>3. t[i].addr \in Addrs /\ t[i].size \in Sizes \cup {0} /\ t[i].st \in Int
  BY <1>2 DEF Entry
<1>4. \A z \in Sizes \cup {0} : z \in Nat
  BY SizesAssumption
<1>5. t[i].size \in Nat
  BY <1>3, <1>4
<1> QED  BY <1>1, <1>2, <1>3, <1>5

\* The invariant makes the pool what its callers rely on.
LEMMA InvImplies == IInv => TypeOK /\ PoolSound /\ OneOwner
BY DEF IInv, TypeOK, PoolSound, CacheSound, SharingSound, OneEntry, CachedIsFree,
       BlocksAreShared, FreeIsPrivate, Sound, Typed, HasBlock, Used

\* A set of naturals that has an element has a least one.
LEMMA LeastIn ==
  ASSUME NEW S, NEW n \in Nat, n \in S
  PROVE  \E m \in Nat : m \in S /\ \A l \in 0..(m - 1) : l \notin S
<1> DEFINE R == OpToRel(<, Nat)
           T == {x \in Nat : x \in S}
<1>1. IsWellFoundedOn(R, Nat)
  BY NatLessThanWellFounded
<1>2. T \subseteq Nat /\ T # {}
  OBVIOUS
<1>3. \A x, y \in Nat : x < y => <<x, y>> \in R
  BY DEF OpToRel
<1>4. \A x : x \in T <=> x \in Nat /\ x \in S
  OBVIOUS
<1> HIDE DEF R, T
<1>5. PICK m \in T : \A y \in T : ~ (<<y, m>> \in R)
  BY <1>1, <1>2, WFMin
<1>6. m \in Nat /\ m \in S
  BY <1>4
<1>7. ASSUME NEW l \in 0..(m - 1) PROVE l \notin S
  <2>1. l \in Nat /\ l < m
    BY <1>6
  <2>2. l \notin T
    BY <1>3, <1>5, <1>6, <2>1
  <2> QED  BY <1>4, <2>1, <2>2
<1> QED  BY <1>6, <1>7

\* The first entry of those looked for, and the last one.
LEMMA LowestFacts ==
  ASSUME NEW n \in Nat, NEW S, S \subseteq 1..n, S # {}
  PROVE  Lowest(S) \in S
<1>1. PICK k \in S : TRUE
  OBVIOUS
<1>2. PICK m \in Nat : m \in S /\ \A l \in 0..(m - 1) : l \notin S
  BY <1>1, LeastIn
<1>3. \A k2 \in S : m <= k2
  BY <1>2
<1> QED  BY <1>2, <1>3 DEF Lowest

LEMMA HighestFacts ==
  ASSUME NEW n \in Nat, NEW S, S \subseteq 1..n
  PROVE  Highest(S) \in 0..n
<1> DEFINE T == {n - i : i \in S \cup {0}}
<1>1. n \in T
  OBVIOUS
<1>2. PICK m \in Nat : m \in T /\ \A l \in 0..(m - 1) : l \notin T
  BY <1>1, LeastIn
<1>3. PICK i \in S \cup {0} : m = n - i
  BY <1>2
<1>4. \A k \in S : k <= i
  <2> SUFFICES ASSUME NEW k \in S, k > i PROVE FALSE
    BY <1>3
  <2>1. n - k \in T /\ n - k \in 0..(m - 1)
    BY <1>3
  <2> QED  BY <1>2, <2>1
<1>5. \E j \in S \cup {0} : \A k \in S : k <= j
  BY <1>4
<1>6. Highest(S) \in S \cup {0}
  BY <1>5 DEF Highest
<1>7. \A k \in S \cup {0} : k \in 0..n
  OBVIOUS
<1> QED  BY <1>6, <1>7

\* The number of a new mapping is one that no process has at that place.
LEMMA FreshFacts ==
  ASSUME IInv, NEW a \in Addrs
  PROVE  /\ FreshMapping(a) \in Nat \ {Private}
         /\ \A p \in alive : map[p][a] # FreshMapping(a)
<1> DEFINE n == Cardinality(alive)
           f == [p \in alive |-> map[p][a]]
           R == {map[p][a] : p \in alive}
           U == {s \in 1..(n + 1) : s \notin R}
<1>1. IsFiniteSet(alive) /\ n \in Nat /\ \A p \in alive : map[p][a] \in Nat
  BY FS_CardinalityType DEF IInv
<1>2. f \in Surjection(alive, R)
  BY Fun_IsSurj
<1>3. IsFiniteSet(R) /\ Cardinality(R) <= n
  BY <1>1, <1>2, FS_Surjection
<1>4. U # {}
  <2> SUFFICES ASSUME 1..(n + 1) \subseteq R PROVE FALSE
    OBVIOUS
  <2>1. Cardinality(1..(n + 1)) = n + 1 
    BY <1>1, FS_Interval
  <2>2. Cardinality(1..(n + 1)) <= Cardinality(R) /\ Cardinality(R) \in Nat
    BY <1>3, FS_Subset, FS_CardinalityType
  <2> QED  BY <1>1, <1>3, <2>1, <2>2
<1>5. \A s : s \in U <=> s \in 1..(n + 1) /\ \A p \in alive : map[p][a] # s
  OBVIOUS
<1> HIDE DEF U
<1>6. PICK m \in Nat : m \in U /\ \A l \in 0..(m - 1) : l \notin U
  <2>1. PICK u \in U : TRUE
    BY <1>4
  <2>2. u \in Nat
    BY <1>1, <1>5, <2>1
  <2> QED  BY <2>1, <2>2, LeastIn
<1>7. m \in 1..(n + 1) /\ (\A p \in alive : map[p][a] # m)
      /\ \A r \in 1..(m - 1) : \E p \in alive : map[p][a] = r
  BY <1>1, <1>5, <1>6
<1>8. /\ FreshMapping(a) \in 1..(n + 1)
      /\ \A p \in alive : map[p][a] # FreshMapping(a)
  BY <1>7 DEF FreshMapping
<1> QED  BY <1>1, <1>8 DEF Private

-----------------------------------------------------------------------------
(* What each operation makes of the state of its process.                  *)

\* A cached block is handed out.
LEMMA ReusedSound ==
  ASSUME NEW t, NEW h, NEW m, NEW d, Sound(t, h, m, d),
         NEW i \in 1..Len(t), t[i].size > 0
  PROVE  Sound([t EXCEPT ![i].st = InUse], h, m, d \cup {t[i].addr})
<1> DEFINE e == [t[i] EXCEPT !.st = InUse]
           u == [t EXCEPT ![i] = e]
<1>1. t \in Seq(Entry) /\ t[i] \in Entry /\ t[i].addr \in Addrs
  BY EntryFacts DEF Sound, Typed
<1>2. e \in Entry /\ e.addr = t[i].addr /\ e.size = t[i].size /\ e.st = InUse
  BY <1>1 DEF Entry, InUse
<1> HIDE DEF e
<1>3. /\ u \in Seq(Entry) /\ Len(u) = Len(t)
      /\ \A k \in 1..Len(t) : u[k] = IF k = i THEN e ELSE t[k]
  BY <1>1, <1>2, ExceptSeq
<1>4. u = [t EXCEPT ![i].st = InUse]
  BY DEF e
<1> HIDE DEF u
<1>5. \A k \in 1..Len(t) : u[k].addr = t[k].addr /\ u[k].size = t[k].size
                           /\ (k # i => u[k].st = t[k].st)
  BY <1>2, <1>3
<1>6. u[i].st = InUse
  BY <1>2, <1>3
<1> QED  BY <1>1, <1>3, <1>4, <1>5, <1>6 DEF Sound, Typed, InUse, Cached

\* The state of an empty entry changes, or a block is freed.
LEMMA MarkedSound ==
  ASSUME NEW t, NEW h, NEW m, NEW d, Sound(t, h, m, d), NEW c, c \subseteq d,
         NEW i \in 1..Len(t), NEW e \in Entry, e.addr = t[i].addr,
         e.size \in {0, t[i].size}, e.st < 0 => e.size = 0,
         e.size > 0 /\ e.st = Cached => e.addr \notin c
  PROVE  Sound([t EXCEPT ![i] = e], h, m, c)
<1> DEFINE u == [t EXCEPT ![i] = e]
<1>1. t \in Seq(Entry) /\ t[i] \in Entry /\ t[i].addr \in Addrs /\ t[i].size \in Nat
  BY EntryFacts DEF Sound, Typed
<1>2. /\ u \in Seq(Entry) /\ Len(u) = Len(t)
      /\ \A k \in 1..Len(t) : u[k] = IF k = i THEN e ELSE t[k]
  BY <1>1, ExceptSeq
<1> HIDE DEF u
<1>3. \A k \in 1..Len(t) : u[k].addr = t[k].addr /\ (u[k].size > 0 => t[k].size > 0)
                           /\ (k # i => u[k].st = t[k].st /\ u[k].size = t[k].size)
  BY <1>1, <1>2
<1>4. u[i] = e
  BY <1>2
<1>5. Sound(u, h, m, c)
  BY <1>1, <1>2, <1>3, <1>4 DEF Sound, Typed
<1> QED  BY <1>5 DEF u

\* A table is cut.
LEMMA CutSound ==
  ASSUME NEW t, NEW h, NEW m, NEW d, Sound(t, h, m, d), NEW n \in 0..Len(t)
  PROVE  /\ Sound(SubSeq(t, 1, n), h, m, d) /\ Len(SubSeq(t, 1, n)) = n
         /\ \A i \in 1..n : SubSeq(t, 1, n)[i] = t[i]
<1> DEFINE u == SubSeq(t, 1, n)
<1>1. t \in Seq(Entry) /\ Len(t) \in Nat /\ \A i \in 1..n : t[i] \in Entry
  BY LenProperties DEF Sound, Typed
<1>2. 1 \in Int /\ n \in Int /\ n - 1 + 1 = n
  BY <1>1
<1>3. u \in Seq(Entry) /\ Len(u) = n /\ \A i \in 1..n : u[i] = t[i]
  BY <1>1, <1>2, SubSeqProperties
<1> HIDE DEF u
<1>4. n <= Len(t) /\ \A i \in 1..n : i \in 1..Len(t)
  BY <1>1
<1>5. Len(u) <= NShMax
  BY <1>1, <1>3, <1>4, NShMaxAssumption DEF Sound, Typed
<1> QED  BY <1>1, <1>3, <1>4, <1>5 DEF Sound, Typed, u

\* A new block: its entry replaces an empty one, ...
LEMMA PlacedSound ==
  ASSUME NEW t, NEW h, NEW m, NEW d, Sound(t, h, m, d),
         NEW i \in 1..Len(t), t[i].size = 0,
         NEW a \in Addrs \ h, NEW z \in Sizes, NEW s \in Nat \ {Private}
  PROVE  Sound([t EXCEPT ![i] = NewEntry(a, z)], h \cup {a}, [m EXCEPT ![a] = s], d \cup {a})
<1> DEFINE e == NewEntry(a, z)
           u == [t EXCEPT ![i] = e]
           n == [m EXCEPT ![a] = s]
<1>1. t \in Seq(Entry) /\ Typed(t, h, m, d)
  BY DEF Sound, Typed
<1>2. e \in Entry /\ e.addr = a /\ e.size = z /\ e.st = InUse
  BY DEF NewEntry, Entry, InUse
<1> HIDE DEF e
<1>3. /\ u \in Seq(Entry) /\ Len(u) = Len(t)
      /\ \A k \in 1..Len(t) : u[k] = IF k = i THEN e ELSE t[k]
  BY <1>1, <1>2, ExceptSeq
<1>4. n \in [Addrs -> Nat] /\ n[a] # Private /\ \A b \in Addrs \ {a} : n[b] = m[b]
  BY <1>1 DEF Typed
<1> HIDE DEF u, n
<1>5. u[i] = e /\ \A k \in 1..Len(t) : k # i => u[k] = t[k]
  BY <1>3
<1>6. \A k \in 1..Len(t) : t[k].addr \in Addrs /\ t[k].addr # a
  BY <1>1, EntryFacts DEF Sound, Typed
<1>7. a \notin d /\ \A b \in d : b \in Addrs /\ b # a
  BY DEF Sound, Typed
<1>8. Typed(u, h \cup {a}, n, d \cup {a})
  BY <1>1, <1>3, <1>4 DEF Typed
<1>9. \A j, k \in 1..Len(t) : u[j].size > 0 /\ u[j].addr = u[k].addr => j = k
  BY <1>2, <1>5, <1>6 DEF Sound
<1>10. \A k \in 1..Len(t) :
         /\ u[k].addr \in h \cup {a}
         /\ u[k].size > 0 => n[u[k].addr] # Private
         /\ u[k].size > 0 /\ u[k].st = Cached => u[k].addr \notin d \cup {a}
         /\ u[k].st < 0 => u[k].size = 0
  <2> TAKE k \in 1..Len(t)
  <2>1. CASE k = i
    BY <1>2, <1>4, <1>5, <2>1 DEF InUse, Cached
  <2>2. CASE k # i
    BY <1>4, <1>5, <1>6, <2>2 DEF Sound
  <2> QED  BY <2>1, <2>2
<1>11. \A b \in d \cup {a} : b \in h \cup {a} /\ n[b] # Private
  BY <1>4, <1>7 DEF Sound
<1>12. \A b \in Addrs \ (h \cup {a}) : n[b] = Private
  BY <1>4 DEF Sound
<1>13. Sound(u, h \cup {a}, n, d \cup {a})
  BY <1>3, <1>8, <1>9, <1>10, <1>11, <1>12 DEF Sound
<1> QED  BY <1>13 DEF u, n, e

\* ... is appended, ...
LEMMA AppendedSound ==
  ASSUME NEW t, NEW h, NEW m, NEW d, Sound(t, h, m, d), Len(t) < NShMax,
         NEW a \in Addrs \ h, NEW z \in Sizes, NEW s \in Nat \ {Private}
  PROVE  Sound(Append(t, NewEntry(a, z)), h \cup {a}, [m EXCEPT ![a] = s], d \cup {a})
<1> DEFINE e == NewEntry(a, z)
           u == Append(t, e)
           n == [m EXCEPT ![a] = s]
           l == Len(t)
<1>1. t \in Seq(Entry) /\ Typed(t, h, m, d) /\ l \in Nat
  BY LenProperties DEF Sound, Typed
<1>2. e \in Entry /\ e.addr = a /\ e.size = z /\ e.st = InUse
  BY DEF NewEntry, Entry, InUse
<1> HIDE DEF e
<1>3. /\ u \in Seq(Entry) /\ Len(u) = l + 1 /\ u[l + 1] = e
      /\ \A k \in 1..l : u[k] = t[k]
  BY <1>1, <1>2, AppendProperties
<1>4. n \in [Addrs -> Nat] /\ n[a] # Private /\ \A b \in Addrs \ {a} : n[b] = m[b]
  BY <1>1 DEF Typed
<1> HIDE DEF u, n
<1>5. \A k \in 1..(l + 1) : k = l + 1 \/ k \in 1..l
  BY <1>1
<1>6. \A k \in 1..l : t[k].addr \in Addrs /\ t[k].addr # a
  BY <1>1, EntryFacts DEF Sound, Typed
<1>7. a \notin d /\ \A b \in d : b \in Addrs /\ b # a
  BY DEF Sound, Typed
<1>8. Typed(u, h \cup {a}, n, d \cup {a})
  <2>1. Len(u) <= NShMax
    BY <1>1, <1>3, NShMaxAssumption
  <2> QED  BY <1>1, <1>3, <1>4, <2>1 DEF Typed
<1>9. \A j, k \in 1..(l + 1) : u[j].size > 0 /\ u[j].addr = u[k].addr => j = k
  BY <1>2, <1>3, <1>5, <1>6 DEF Sound
<1>10. \A k \in 1..(l + 1) :
         /\ u[k].addr \in h \cup {a}
         /\ u[k].size > 0 => n[u[k].addr] # Private
         /\ u[k].size > 0 /\ u[k].st = Cached => u[k].addr \notin d \cup {a}
         /\ u[k].st < 0 => u[k].size = 0
  <2> TAKE k \in 1..(l + 1)
  <2>1. CASE k = l + 1
    BY <1>2, <1>3, <1>4, <2>1 DEF InUse, Cached
  <2>2. CASE k \in 1..l
    BY <1>3, <1>4, <1>6, <2>2 DEF Sound
  <2> QED  BY <1>5, <2>1, <2>2
<1>11. \A b \in d \cup {a} : b \in h \cup {a} /\ n[b] # Private
  BY <1>4, <1>7 DEF Sound
<1>12. \A b \in Addrs \ (h \cup {a}) : n[b] = Private
  BY <1>4 DEF Sound
<1>13. Sound(u, h \cup {a}, n, d \cup {a})
  BY <1>3, <1>8, <1>9, <1>10, <1>11, <1>12 DEF Sound
<1> QED  BY <1>13 DEF u, n, e

\* ... is left out because the table is full, ...
LEMMA LeftOutSound ==
  ASSUME NEW t, NEW h, NEW m, NEW d, Sound(t, h, m, d),
         NEW a \in Addrs \ h, NEW s \in Nat \ {Private}
  PROVE  Sound(t, h \cup {a}, [m EXCEPT ![a] = s], d \cup {a})
<1> DEFINE n == [m EXCEPT ![a] = s]
<1>1. t \in Seq(Entry) /\ Typed(t, h, m, d)
  BY DEF Sound, Typed
<1>2. n \in [Addrs -> Nat] /\ n[a] # Private /\ \A b \in Addrs \ {a} : n[b] = m[b]
  BY <1>1 DEF Typed
<1> HIDE DEF n
<1>3. \A k \in 1..Len(t) : t[k].addr \in Addrs /\ t[k].addr # a
  BY <1>1, EntryFacts DEF Sound, Typed
<1>4. a \notin d /\ \A b \in d : b \in Addrs /\ b # a
  BY DEF Sound, Typed
<1>5. Typed(t, h \cup {a}, n, d \cup {a})
  BY <1>1, <1>2 DEF Typed
<1>6. Sound(t, h \cup {a}, n, d \cup {a})
  BY <1>2, <1>3, <1>4, <1>5 DEF Sound
<1> QED  BY <1>6 DEF n

\* ... or replaces a cached block, which goes back to the heap and may be the
\* memory the new one is put in.
LEMMA EvictedSound ==
  ASSUME NEW t, NEW h, NEW m, NEW d, Sound(t, h, m, d),
         NEW v \in 1..Len(t), t[v].size > 0, t[v].st <= 0,
         NEW b, b = t[v].addr, NEW a \in Addrs \ (h \ {b}), NEW z \in Sizes,
         NEW s \in Nat \ {Private}
  PROVE  Sound([t EXCEPT ![v] = NewEntry(a, z)], (h \ {b}) \cup {a},
               [[m EXCEPT ![b] = Private] EXCEPT ![a] = s], d \cup {a})
<1> DEFINE e == NewEntry(a, z)
           u == [t EXCEPT ![v] = e]
           n == [[m EXCEPT ![b] = Private] EXCEPT ![a] = s]
<1>1. t \in Seq(Entry) /\ Typed(t, h, m, d) /\ b \in Addrs /\ t[v].st \in Int
  BY EntryFacts DEF Sound, Typed
<1>2. e \in Entry /\ e.addr = a /\ e.size = z /\ e.st = InUse
  BY DEF NewEntry, Entry, InUse
<1> HIDE DEF e
<1>3. /\ u \in Seq(Entry) /\ Len(u) = Len(t)
      /\ \A k \in 1..Len(t) : u[k] = IF k = v THEN e ELSE t[k]
  BY <1>1, <1>2, ExceptSeq
<1>4. /\ n \in [Addrs -> Nat] /\ n[a] # Private
      /\ \A c \in Addrs \ {a, b} : n[c] = m[c]
      /\ a # b => n[b] = Private
  BY <1>1 DEF Typed, Private
<1> HIDE DEF u, n
<1>5. u[v] = e /\ \A k \in 1..Len(t) : k # v => u[k] = t[k]
  BY <1>3
<1>6. \A k \in 1..Len(t) : k # v =>
        t[k].addr \in Addrs /\ t[k].addr # a /\ t[k].addr # b
  <2> SUFFICES ASSUME NEW k \in 1..Len(t), k # v
               PROVE  t[k].addr \in Addrs /\ t[k].addr # a /\ t[k].addr # b
    OBVIOUS
  <2>1. t[k].addr \in Addrs /\ t[k].addr \in h
    BY <1>1, EntryFacts DEF Sound
  <2>2. t[k].addr # b
    BY DEF Sound
  <2> QED  BY <2>1, <2>2
<1>7. b \notin d
  <2>1. t[v].st = Cached
    BY <1>1 DEF Sound, Cached
  <2> QED  BY <2>1 DEF Sound
<1>8. a \notin d /\ \A c \in d : c \in Addrs /\ c # a /\ c # b
  BY <1>1, <1>7 DEF Sound, Typed
<1>9. Typed(u, (h \ {b}) \cup {a}, n, d \cup {a})
  BY <1>1, <1>3, <1>4 DEF Typed
<1>10. \A j, k \in 1..Len(t) : u[j].size > 0 /\ u[j].addr = u[k].addr => j = k
  BY <1>2, <1>5, <1>6 DEF Sound
<1>11. \A k \in 1..Len(t) :
         /\ u[k].addr \in (h \ {b}) \cup {a}
         /\ u[k].size > 0 => n[u[k].addr] # Private
         /\ u[k].size > 0 /\ u[k].st = Cached => u[k].addr \notin d \cup {a}
         /\ u[k].st < 0 => u[k].size = 0
  <2> TAKE k \in 1..Len(t)
  <2>1. CASE k = v
    BY <1>2, <1>4, <1>5, <2>1 DEF InUse, Cached
  <2>2. CASE k # v
    <3>1. u[k] = t[k] /\ t[k].addr \in Addrs \ {a, b} /\ n[t[k].addr] = m[t[k].addr]
      BY <1>4, <1>5, <1>6, <2>2
    <3> QED  BY <3>1 DEF Sound
  <2> QED  BY <2>1, <2>2
<1>12. \A c \in d \cup {a} : c \in (h \ {b}) \cup {a} /\ n[c] # Private
  BY <1>4, <1>8 DEF Sound
<1>13. \A c \in Addrs \ ((h \ {b}) \cup {a}) : n[c] = Private
  BY <1>4 DEF Sound
<1>14. Sound(u, (h \ {b}) \cup {a}, n, d \cup {a})
  BY <1>3, <1>9, <1>10, <1>11, <1>12, <1>13 DEF Sound
<1> QED  BY <1>14 DEF u, n, e

\* A block without an entry goes back to the heap.
LEMMA ReturnedSound ==
  ASSUME NEW t, NEW h, NEW m, NEW d, Sound(t, h, m, d), NEW a \in d,
         \A i \in 1..Len(t) : t[i].addr # a
  PROVE  Sound(t, h \ {a}, [m EXCEPT ![a] = Private], d \ {a})
<1> DEFINE n == [m EXCEPT ![a] = Private]
<1>1. t \in Seq(Entry) /\ Typed(t, h, m, d) /\ a \in Addrs
  BY DEF Sound, Typed
<1>2. n \in [Addrs -> Nat] /\ n[a] = Private /\ \A b \in Addrs \ {a} : n[b] = m[b]
  BY <1>1 DEF Typed, Private
<1> HIDE DEF n
<1>3. \A k \in 1..Len(t) : t[k].addr \in Addrs /\ t[k].addr # a
  BY <1>1, EntryFacts
<1>4. \A b \in d : b \in Addrs
  BY <1>1 DEF Typed
<1>5. Typed(t, h \ {a}, n, d \ {a})
  BY <1>1, <1>2 DEF Typed
<1>6. Sound(t, h \ {a}, n, d \ {a})
  BY <1>2, <1>3, <1>4, <1>5 DEF Sound
<1> QED  BY <1>6 DEF n

-----------------------------------------------------------------------------
\* A step of process p, after which it has table t, heap h, mappings m and
\* blocks d: the invariant holds if these are sound and every block of t has
\* memory nobody else knows, or memory p's table named before.
LEMMA OneProcess ==
  ASSUME IInv, NEW p \in alive, NEW t, NEW h, NEW m, NEW d,
         Sound(t, h, m, d),
         \A i \in 1..Len(t) : t[i].size > 0 =>
           \/ \A q \in alive \ {p} : map[q][t[i].addr] # m[t[i].addr]
           \/ /\ m[t[i].addr] = map[p][t[i].addr]
              /\ \E j \in Used(p) : HasBlock(p, j) /\ tab[p][j].addr = t[i].addr,
         alive' = alive,
         tab' = [tab EXCEPT ![p] = t], heap' = [heap EXCEPT ![p] = h],
         map' = [map EXCEPT ![p] = m], held' = [held EXCEPT ![p] = d]
  PROVE  IInv'
<1>1. /\ p \in Procs
      /\ tab'[p] = t /\ heap'[p] = h /\ map'[p] = m /\ held'[p] = d
      /\ \A q \in Procs \ {p} : /\ tab'[q] = tab[q] /\ heap'[q] = heap[q]
                               /\ map'[q] = map[q] /\ held'[q] = held[q]
  BY DEF IInv
<1>2. \A q \in alive : Sound(tab[q], heap[q], map[q], held[q])'
  BY <1>1 DEF IInv
<1>3. OneOwner'
  <2> SUFFICES ASSUME NEW q \in alive, NEW r \in alive, q # r,
                      NEW i \in 1..Len(tab'[q]), NEW k \in 1..Len(tab'[r]),
                      tab'[q][i].size > 0, tab'[r][k].size > 0,
                      tab'[q][i].addr = tab'[r][k].addr,
                      map'[q][tab'[q][i].addr] = map'[r][tab'[r][k].addr]
               PROVE  FALSE
    BY DEF OneOwner, HasBlock, Used
  <2>1. q \in Procs /\ r \in Procs
    BY DEF IInv
  <2>2. CASE q # p /\ r # p
    BY <1>1, <2>1, <2>2 DEF IInv, OneOwner, HasBlock, Used
  <2>3. CASE q = p
    <3>1. r # p /\ tab'[r] = tab[r] /\ map'[r] = map[r] /\ k \in Used(r) /\ HasBlock(r, k)
      BY <1>1, <2>1, <2>3 DEF HasBlock, Used
    <3> DEFINE x == t[i].addr
    <3>2. i \in 1..Len(t) /\ t[i].size > 0 /\ r \in alive \ {p} /\ map[r][x] = m[x]
      BY <1>1, <2>3, <3>1
    <3>3. PICK j \in Used(p) : HasBlock(p, j) /\ tab[p][j].addr = x /\ m[x] = map[p][x]
      BY <3>2
    <3> QED  BY <1>1, <2>3, <3>1, <3>2, <3>3 DEF IInv, OneOwner
  <2>4. CASE r = p
    <3>1. q # p /\ tab'[q] = tab[q] /\ map'[q] = map[q] /\ i \in Used(q) /\ HasBlock(q, i)
      BY <1>1, <2>1, <2>4 DEF HasBlock, Used
    <3> DEFINE x == t[k].addr
    <3>2. k \in 1..Len(t) /\ t[k].size > 0 /\ q \in alive \ {p} /\ map[q][x] = m[x]
      BY <1>1, <2>4, <3>1
    <3>3. PICK j \in Used(p) : HasBlock(p, j) /\ tab[p][j].addr = x /\ m[x] = map[p][x]
      BY <3>2
    <3> QED  BY <1>1, <2>4, <3>1, <3>2, <3>3 DEF IInv, OneOwner
  <2> QED  BY <2>2, <2>3, <2>4
<1>4. /\ tab' \in [Procs -> Seq(Entry)] /\ \A q \in Procs : Len(tab'[q]) <= NShMax
      /\ heap' \in [Procs -> SUBSET Addrs] /\ map' \in [Procs -> [Addrs -> Nat]]
      /\ held' \in [Procs -> SUBSET Addrs]
  BY <1>1 DEF IInv, Sound, Typed
<1> QED  BY <1>2, <1>3, <1>4 DEF IInv

-----------------------------------------------------------------------------
(* The steps.                                                              *)

LEMMA ReuseInv ==
  ASSUME IInv, NEW p \in Procs, NEW z \in Sizes, Reuse(p, z)
  PROVE  IInv'
<1> DEFINE i == Lowest(Fit(p, z))
           t == [tab[p] EXCEPT ![i].st = InUse]
           d == held[p] \cup {tab[p][i].addr}
<1>1. p \in alive /\ Sound(tab[p], heap[p], map[p], held[p]) /\ tab[p] \in Seq(Entry)
  BY DEF Reuse, IInv
<1>2. i \in Fit(p, z)
  BY <1>1, LenProperties, LowestFacts DEF Reuse, Fit, Used
<1>3. i \in 1..Len(tab[p]) /\ tab[p][i].size > 0
  <2>1. i \in 1..Len(tab[p]) /\ tab[p][i].size >= z
    BY <1>2 DEF Fit, Used
  <2> QED  BY <1>1, <2>1, EntryFacts, SizesAssumption
<1>4. /\ tab' = [tab EXCEPT ![p] = t] /\ held' = [held EXCEPT ![p] = d]
      /\ heap' = [heap EXCEPT ![p] = heap[p]] /\ map' = [map EXCEPT ![p] = map[p]]
      /\ alive' = alive
  BY <1>1 DEF Reuse, IInv
<1>5. Sound(t, heap[p], map[p], d)
  BY <1>1, <1>3, ReusedSound
<1>6. ASSUME NEW k \in 1..Len(t)
      PROVE  k \in Used(p) /\ t[k].addr = tab[p][k].addr /\ t[k].size = tab[p][k].size
  <2> DEFINE e == [tab[p][i] EXCEPT !.st = InUse]
  <2>1. tab[p][i] \in Entry
    BY <1>1, <1>3, EntryFacts
  <2>2. e \in Entry /\ e.addr = tab[p][i].addr /\ e.size = tab[p][i].size
    BY <2>1 DEF Entry, InUse
  <2>3. t = [tab[p] EXCEPT ![i] = e]
    OBVIOUS
  <2> HIDE DEF e, t, i
  <2>4. Len(t) = Len(tab[p])
    BY <1>1, <1>3, <2>2, <2>3, ExceptSeq
  <2>5. k \in 1..Len(tab[p])
    BY <2>4
  <2>6. t[k] = IF k = i THEN e ELSE tab[p][k]
    BY <1>1, <1>3, <2>2, <2>3, <2>5, ExceptSeq
  <2> QED  BY <2>2, <2>5, <2>6 DEF Used
<1> HIDE DEF i, t, d
<1> QED  BY <1>1, <1>4, <1>5, <1>6, OneProcess DEF HasBlock

\* A new block at a, in a table whose other blocks the table had before: own
\* is what the process keeps, and no block of the table loses its mapping.
LEMMA NewBlockInv ==
  ASSUME IInv, NEW p \in alive, NEW a \in Addrs, NEW t, NEW own,
         NewBlock(p, a, own, t),
         Sound(t, own.heap \cup {a}, [own.map EXCEPT ![a] = FreshMapping(a)], held[p] \cup {a}),
         own.map \in [Addrs -> Nat],
         \A i \in 1..Len(t) : t[i].size > 0 =>
           \/ t[i].addr = a
           \/ /\ t[i].addr \in Addrs /\ own.map[t[i].addr] = map[p][t[i].addr]
              /\ \E j \in Used(p) : HasBlock(p, j) /\ tab[p][j].addr = t[i].addr
  PROVE  IInv'
<1> DEFINE m == [own.map EXCEPT ![a] = FreshMapping(a)]
<1>1. /\ m[a] = FreshMapping(a) /\ \A b \in Addrs \ {a} : m[b] = own.map[b]
      /\ \A q \in alive : map[q][a] # m[a]
  BY FreshFacts
<1>2. /\ tab' = [tab EXCEPT ![p] = t] /\ held' = [held EXCEPT ![p] = held[p] \cup {a}]
      /\ heap' = [heap EXCEPT ![p] = own.heap \cup {a}] /\ map' = [map EXCEPT ![p] = m]
      /\ alive' = alive
  BY DEF NewBlock, IInv
<1> HIDE DEF m
<1>3. \A i \in 1..Len(t) : t[i].size > 0 =>
        \/ \A q \in alive \ {p} : map[q][t[i].addr] # m[t[i].addr]
        \/ /\ m[t[i].addr] = map[p][t[i].addr]
           /\ \E j \in Used(p) : HasBlock(p, j) /\ tab[p][j].addr = t[i].addr
  BY <1>1
<1>4. Sound(t, own.heap \cup {a}, m, held[p] \cup {a})
  BY DEF m
<1> QED  BY <1>2, <1>3, <1>4, OneProcess

\* The table that AppendEntry appends to, and that Full counts.
LEMMA TrimmedFacts ==
  ASSUME IInv, NEW p \in alive
  PROVE  /\ Sound(Trimmed(p), heap[p], map[p], held[p])
         /\ Len(Trimmed(p)) <= Len(tab[p])
         /\ \A i \in 1..Len(Trimmed(p)) : i \in Used(p) /\ Trimmed(p)[i] = tab[p][i]
<1> DEFINE S == {i \in Used(p) : tab[p][i].st >= 0}
           n == Highest(S)
<1>1. Sound(tab[p], heap[p], map[p], held[p]) /\ Len(tab[p]) \in Nat
  BY LenProperties DEF IInv, Sound, Typed
<1>2. n \in 0..Len(tab[p])
  BY <1>1, HighestFacts DEF Used
<1>3. Trimmed(p) = SubSeq(tab[p], 1, n)
  BY DEF Trimmed
<1> HIDE DEF n
<1>4. /\ Sound(Trimmed(p), heap[p], map[p], held[p]) /\ Len(Trimmed(p)) = n
      /\ \A i \in 1..n : Trimmed(p)[i] = tab[p][i]
  BY <1>1, <1>2, <1>3, CutSound
<1> QED  BY <1>1, <1>2, <1>4 DEF Used

LEMMA AppendInv ==
  ASSUME IInv, NEW p \in Procs, NEW z \in Sizes, NEW a \in Addrs, AppendEntry(p, z, a)
  PROVE  IInv'
<1> DEFINE t == Trimmed(p)
           u == Append(t, NewEntry(a, z))
<1>1. p \in alive /\ Len(t) < NShMax /\ NewBlock(p, a, Own(p), u)
  BY DEF AppendEntry
<1>2. Own(p).map = map[p] /\ Own(p).heap = heap[p] /\ a \notin heap[p] /\ map[p] \in [Addrs -> Nat]
  BY <1>1 DEF Own, NewBlock, IInv
<1>3. Sound(t, heap[p], map[p], held[p]) /\ t \in Seq(Entry)
  BY <1>1, TrimmedFacts DEF Sound, Typed
<1>4. FreshMapping(a) \in Nat \ {Private}
  BY FreshFacts
<1>5. Sound(u, heap[p] \cup {a}, [map[p] EXCEPT ![a] = FreshMapping(a)], held[p] \cup {a})
  BY <1>1, <1>2, <1>3, <1>4, AppendedSound
<1>6. ASSUME NEW i \in 1..Len(u), u[i].size > 0
      PROVE  \/ u[i].addr = a
             \/ /\ u[i].addr \in Addrs
                /\ \E j \in Used(p) : HasBlock(p, j) /\ tab[p][j].addr = u[i].addr
  <2>1. NewEntry(a, z) \in Entry /\ NewEntry(a, z).addr = a
    BY DEF NewEntry, Entry, InUse
  <2>2. Len(t) \in Nat /\ Len(u) = Len(t) + 1
    BY <1>3, <2>1, AppendProperties, LenProperties
  <2>3. CASE i = Len(t) + 1
    BY <1>3, <2>1, <2>3, AppendProperties
  <2>4. CASE i \in 1..Len(t)
    <3>1. u[i] = t[i]
      BY <1>3, <2>1, <2>4, AppendProperties
    <3>2. i \in Used(p) /\ t[i] = tab[p][i]
      BY <1>1, <2>4, TrimmedFacts
    <3>3. tab[p][i].addr \in Addrs
      BY <1>1, <3>2, EntryFacts DEF Used, IInv
    <3> QED  BY <1>6, <3>1, <3>2, <3>3 DEF HasBlock
  <2> QED  BY <2>2, <2>3, <2>4
<1> HIDE DEF t, u
<1>7. \A i \in 1..Len(u) : u[i].size > 0 =>
           \/ u[i].addr = a
           \/ /\ u[i].addr \in Addrs /\ Own(p).map[u[i].addr] = map[p][u[i].addr]
              /\ \E j \in Used(p) : HasBlock(p, j) /\ tab[p][j].addr = u[i].addr
  BY <1>2, <1>6
<1>8. Sound(u, Own(p).heap \cup {a}, [Own(p).map EXCEPT ![a] = FreshMapping(a)], held[p] \cup {a})
  BY <1>2, <1>5
<1>9. Own(p).map \in [Addrs -> Nat]
  BY <1>2
<1> DEFINE own == Own(p)
<1> HIDE DEF own
<1> QED  BY <1>1, <1>7, <1>8, <1>9, NewBlockInv DEF own

\* The blocks of a table in which a new entry has replaced entry i.
LEMMA ReplacedBlocks ==
  ASSUME IInv, NEW p \in alive, NEW i \in Used(p), NEW a \in Addrs, NEW z \in Sizes,
         NEW k \in 1..Len([tab[p] EXCEPT ![i] = NewEntry(a, z)]),
         [tab[p] EXCEPT ![i] = NewEntry(a, z)][k].size > 0
  PROVE  LET x == [tab[p] EXCEPT ![i] = NewEntry(a, z)][k].addr
         IN  \/ x = a
             \/ x \in Addrs /\ \E j \in Used(p) \ {i} : HasBlock(p, j) /\ tab[p][j].addr = x
<1> DEFINE e == NewEntry(a, z)
           t == [tab[p] EXCEPT ![i] = e]
<1>1. tab[p] \in Seq(Entry) /\ i \in 1..Len(tab[p])
  BY DEF IInv, Used
<1>2. e \in Entry /\ e.addr = a
  BY DEF NewEntry, Entry, InUse
<1> HIDE DEF e
<1>3. Len(t) = Len(tab[p]) /\ \A j \in 1..Len(tab[p]) : t[j] = IF j = i THEN e ELSE tab[p][j]
  BY <1>1, <1>2, ExceptSeq
<1>4. k \in 1..Len(t) /\ t[k].size > 0
  BY DEF e
<1> HIDE DEF t
<1>5. k \in 1..Len(tab[p]) /\ tab[p][k].addr \in Addrs
  BY <1>1, <1>3, <1>4, EntryFacts
<1>6. \/ t[k].addr = a
      \/ /\ t[k].addr \in Addrs
         /\ \E j \in Used(p) \ {i} : HasBlock(p, j) /\ tab[p][j].addr = t[k].addr
  <2>1. CASE k = i
    BY <1>2, <1>3, <1>5, <2>1
  <2>2. CASE k # i
    BY <1>3, <1>4, <1>5, <2>2 DEF Used, HasBlock
  <2> QED  BY <2>1, <2>2
<1> QED  BY <1>6 DEF t, e

LEMMA TakeEmptyInv ==
  ASSUME IInv, NEW p \in Procs, NEW z \in Sizes, NEW a \in Addrs, TakeEmpty(p, z, a)
  PROVE  IInv'
<1> DEFINE i == Lowest(Empties(p))
           t == [tab[p] EXCEPT ![i] = NewEntry(a, z)]
           own == Own(p)
<1>1. p \in alive /\ NewBlock(p, a, own, t) /\ Empties(p) # {}
  BY DEF TakeEmpty, Full
<1>2. own.map = map[p] /\ own.heap = heap[p] /\ a \notin heap[p] /\ map[p] \in [Addrs -> Nat]
  BY <1>1 DEF Own, NewBlock, IInv
<1>3. Sound(tab[p], heap[p], map[p], held[p]) /\ Len(tab[p]) \in Nat
  BY <1>1, LenProperties DEF IInv
<1>4. i \in Empties(p)
  BY <1>1, <1>3, LowestFacts DEF Empties, Used
<1>5. i \in Used(p) /\ i \in 1..Len(tab[p]) /\ tab[p][i].size = 0
  BY <1>4 DEF Empties, Used
<1>6. FreshMapping(a) \in Nat \ {Private}
  BY FreshFacts
<1> HIDE DEF i, own
<1>7. Sound(t, heap[p] \cup {a}, [map[p] EXCEPT ![a] = FreshMapping(a)], held[p] \cup {a})
  BY <1>2, <1>3, <1>5, <1>6, PlacedSound
<1>8. \A k \in 1..Len(t) : t[k].size > 0 =>
           \/ t[k].addr = a
           \/ /\ t[k].addr \in Addrs /\ own.map[t[k].addr] = map[p][t[k].addr]
              /\ \E j \in Used(p) : HasBlock(p, j) /\ tab[p][j].addr = t[k].addr
  BY <1>1, <1>2, <1>5, ReplacedBlocks
<1> HIDE DEF t
<1>9. Sound(t, own.heap \cup {a}, [own.map EXCEPT ![a] = FreshMapping(a)], held[p] \cup {a})
  BY <1>2, <1>7
<1> QED  BY <1>1, <1>2, <1>8, <1>9, NewBlockInv

LEMMA UnenteredInv ==
  ASSUME IInv, NEW p \in Procs, NEW z \in Sizes, NEW a \in Addrs, Unentered(p, z, a)
  PROVE  IInv'
<1> DEFINE own == Own(p)
           t == tab[p]
<1>1. p \in alive /\ NewBlock(p, a, own, t)
  BY DEF Unentered, Full
<1>2. own.map = map[p] /\ own.heap = heap[p] /\ a \notin heap[p] /\ map[p] \in [Addrs -> Nat]
  BY <1>1 DEF Own, NewBlock, IInv
<1>3. Sound(t, heap[p], map[p], held[p]) /\ t \in Seq(Entry)
  BY <1>1 DEF IInv
<1>4. FreshMapping(a) \in Nat \ {Private}
  BY FreshFacts
<1> HIDE DEF own
<1>5. Sound(t, own.heap \cup {a}, [own.map EXCEPT ![a] = FreshMapping(a)], held[p] \cup {a})
  BY <1>2, <1>3, <1>4, LeftOutSound
<1>6. \A k \in 1..Len(t) : t[k].size > 0 =>
           /\ t[k].addr \in Addrs /\ own.map[t[k].addr] = map[p][t[k].addr]
           /\ \E j \in Used(p) : HasBlock(p, j) /\ tab[p][j].addr = t[k].addr
  BY <1>2, <1>3, EntryFacts DEF HasBlock, Used
<1> HIDE DEF t
<1> QED  BY <1>1, <1>2, <1>5, <1>6, NewBlockInv

LEMMA EvictInv ==
  ASSUME IInv, NEW p \in Procs, NEW z \in Sizes, NEW a \in Addrs, Evict(p, z, a)
  PROVE  IInv'
<1> DEFINE v == Lowest(Victims(p))
           E == {i \in Empties(p) : i < v}
           b == tab[p][v].addr
           t == [tab[p] EXCEPT ![v] = NewEntry(a, z)]
           u == IF E = {} THEN t ELSE [t EXCEPT ![Lowest(E)].st = Cached]
           own == Released(p, b)
           n == [own.map EXCEPT ![a] = FreshMapping(a)]
<1>1. p \in alive /\ NewBlock(p, a, own, u) /\ Victims(p) # {}
  BY DEF Evict, Full
<1>2. /\ own.map = [map[p] EXCEPT ![b] = Private] /\ own.heap = heap[p] \ {b}
      /\ a \notin heap[p] \ {b} /\ map[p] \in [Addrs -> Nat]
  BY <1>1 DEF Released, NewBlock, IInv
<1>3. /\ Sound(tab[p], heap[p], map[p], held[p]) /\ Len(tab[p]) \in Nat
      /\ tab[p] \in Seq(Entry)
  BY <1>1, LenProperties DEF IInv
<1>4. v \in Victims(p)
  BY <1>1, <1>3, LowestFacts DEF Victims, Used
<1>5. v \in Used(p) /\ v \in 1..Len(tab[p]) /\ tab[p][v].size > 0 /\ tab[p][v].st <= 0
  BY <1>4 DEF Victims, Used
<1>6. FreshMapping(a) \in Nat \ {Private} /\ b \in Addrs
  BY <1>3, <1>5, FreshFacts, EntryFacts
<1> HIDE DEF v, own
<1>7. Sound(t, own.heap \cup {a}, n, held[p] \cup {a})
  BY <1>2, <1>3, <1>5, <1>6, EvictedSound
<1>8. \A k \in 1..Len(t) : t[k].size > 0 =>
           \/ t[k].addr = a
           \/ /\ t[k].addr \in Addrs /\ t[k].addr # b
              /\ \E j \in Used(p) : HasBlock(p, j) /\ tab[p][j].addr = t[k].addr
  <2> SUFFICES ASSUME NEW k \in 1..Len(t), t[k].size > 0, t[k].addr # a
               PROVE  /\ t[k].addr \in Addrs /\ t[k].addr # b
                      /\ \E j \in Used(p) : HasBlock(p, j) /\ tab[p][j].addr = t[k].addr
    OBVIOUS
  <2>1. t[k].addr \in Addrs
    BY <1>1, <1>5, ReplacedBlocks
  <2>2. PICK j \in Used(p) \ {v} : HasBlock(p, j) /\ tab[p][j].addr = t[k].addr
    BY <1>1, <1>5, ReplacedBlocks
  <2>3. tab[p][j].addr # b
    BY <1>3, <1>5, <2>2 DEF Sound, Used
  <2> QED  BY <2>1, <2>2, <2>3
<1>9. Sound(u, own.heap \cup {a}, n, held[p] \cup {a})
      /\ Len(u) = Len(t) /\ \A k \in 1..Len(t) : u[k].addr = t[k].addr /\ u[k].size = t[k].size
  <2>1. CASE E = {}
    BY <1>7, <2>1
  <2>2. CASE E # {}
    <3> DEFINE i == Lowest(E)
               e == [t[i] EXCEPT !.st = Cached]
    <3>1. i \in E
      BY <1>3, <2>2, LowestFacts DEF Empties, Used
    <3>2. i \in 1..Len(tab[p]) /\ i # v /\ tab[p][i].size = 0
      BY <3>1, <1>3, <1>5 DEF Empties, Used
    <3>3. NewEntry(a, z) \in Entry
      BY DEF NewEntry, Entry, InUse
    <3>4. t[i] = tab[p][i] /\ Len(t) = Len(tab[p]) /\ t \in Seq(Entry)
      BY <1>3, <1>5, <3>2, <3>3, ExceptSeq
    <3>5. t[i] \in Entry
      BY <3>2, <3>4, EntryFacts
    <3> HIDE DEF i, t
    <3>6. e \in Entry /\ e.addr = t[i].addr /\ e.size = t[i].size /\ e.st = Cached
      BY <3>5 DEF Entry, Cached
    <3>7. u = [t EXCEPT ![i].st = Cached]
      BY <2>2 DEF i
    <3>8. u = [t EXCEPT ![i] = e]
      BY <3>7
    <3> HIDE DEF e, u, n
    <3>9. Sound(u, own.heap \cup {a}, n, held[p] \cup {a})
      <4>1. t[i].size = 0 /\ ~ (Cached < 0) /\ i \in 1..Len(t)
        BY <3>2, <3>4 DEF Cached
      <4> DEFINE d == held[p] \cup {a}
      <4>2. /\ e.size \in {0, t[i].size} /\ e.st < 0 => e.size = 0
            /\ e.size > 0 /\ e.st = Cached => e.addr \notin d
            /\ d \subseteq d
        BY <3>6, <4>1
      <4>3. Sound(t, own.heap \cup {a}, n, d)
        BY <1>7
      <4> HIDE DEF d
      <4>4. Sound([t EXCEPT ![i] = e], own.heap \cup {a}, n, d)
        BY <3>6, <4>1, <4>2, <4>3, MarkedSound
      <4> QED  BY <3>8, <4>4 DEF d
    <3>10. Len(u) = Len(t) /\ \A k \in 1..Len(t) : u[k] = IF k = i THEN e ELSE t[k]
      BY <3>2, <3>4, <3>6, <3>8, ExceptSeq
    <3> QED  BY <3>6, <3>9, <3>10
  <2> QED  BY <2>1, <2>2
<1> HIDE DEF t, u, n, b
<1>10. \A k \in 1..Len(u) : u[k].size > 0 =>
           \/ u[k].addr = a
           \/ /\ u[k].addr \in Addrs /\ own.map[u[k].addr] = map[p][u[k].addr]
              /\ \E j \in Used(p) : HasBlock(p, j) /\ tab[p][j].addr = u[k].addr
  BY <1>2, <1>8, <1>9
<1>11. own.map \in [Addrs -> Nat]
  <2>1. [map[p] EXCEPT ![b] = 0] \in [Addrs -> Nat]
    BY <1>2
  <2> QED  BY <1>2, <2>1 DEF Private
<1> QED  BY <1>1, <1>9, <1>10, <1>11, NewBlockInv DEF n

LEMMA FreeInv ==
  ASSUME IInv, NEW p \in Procs, NEW a \in Addrs, NEW ist \in Int, Freeshared(p, a, ist)
  PROVE  IInv'
<1> DEFINE c == held[p] \ {a}
<1>1. /\ p \in alive /\ a \in held[p] /\ tab[p] \in Seq(Entry) /\ map[p] \in [Addrs -> Nat]
      /\ Sound(tab[p], heap[p], map[p], held[p]) /\ Len(tab[p]) \in Nat
  BY LenProperties DEF Freeshared, IInv
<1>2. \A k \in Used(p) : tab[p][k].addr \in Addrs
  BY <1>1, EntryFacts DEF Used
<1>3. CASE Entries(p, a) # {}
  <2> DEFINE i == Lowest(Entries(p, a))
             e == Marked(tab[p][i], ist)
             t == [tab[p] EXCEPT ![i] = e]
  <2>1. i \in Entries(p, a)
    BY <1>1, <1>3, LowestFacts DEF Entries, Used
  <2>2. i \in 1..Len(tab[p]) /\ tab[p][i].addr = a
    BY <2>1 DEF Entries, Used
  <2>3. tab[p][i] \in Entry
    BY <1>1, <2>2, EntryFacts
  <2>4. /\ alive' = alive /\ tab' = [tab EXCEPT ![p] = t]
        /\ held' = [held EXCEPT ![p] = c]
        /\ heap' = [heap EXCEPT ![p] = heap[p]] /\ map' = [map EXCEPT ![p] = map[p]]
    BY <1>3 DEF Freeshared, IInv
  <2> HIDE DEF i
  <2>5. /\ e \in Entry /\ e.addr = a /\ e.st = ist
        /\ e.size = IF ist < 0 THEN 0 ELSE tab[p][i].size
    BY <2>2, <2>3 DEF Entry, Marked
  <2> HIDE DEF e
  <2>6. Sound(t, heap[p], map[p], c)
    <3>1. /\ e.addr = tab[p][i].addr /\ e.size \in {0, tab[p][i].size}
          /\ e.st < 0 => e.size = 0
          /\ e.size > 0 /\ e.st = Cached => e.addr \notin c
          /\ c \subseteq held[p]
      BY <2>2, <2>5
    <3> HIDE DEF c
    <3> QED  BY <1>1, <2>2, <2>5, <3>1, MarkedSound
  <2>7. Len(t) = Len(tab[p]) /\ \A k \in 1..Len(tab[p]) : t[k] = IF k = i THEN e ELSE tab[p][k]
    BY <1>1, <2>2, <2>5, ExceptSeq
  <2> HIDE DEF t, c
  <2>8. ASSUME NEW k \in 1..Len(t), t[k].size > 0
        PROVE  k \in Used(p) /\ HasBlock(p, k) /\ tab[p][k].addr = t[k].addr
    <3>1. k \in Used(p) /\ t[k].addr = tab[p][k].addr
      BY <2>2, <2>5, <2>7 DEF Used
    <3>2. tab[p][k].size > 0
      BY <2>5, <2>7, <2>8
    <3> QED  BY <3>1, <3>2 DEF HasBlock
  <2> QED  BY <1>1, <2>4, <2>6, <2>8, OneProcess
<1>4. CASE Entries(p, a) = {}
  <2> DEFINE m == [map[p] EXCEPT ![a] = Private]
             t == tab[p]
  <2>1. \A k \in 1..Len(t) : t[k].addr # a
    BY <1>4 DEF Entries, Used
  <2>2. /\ alive' = alive /\ tab' = [tab EXCEPT ![p] = t]
        /\ held' = [held EXCEPT ![p] = c]
        /\ heap' = [heap EXCEPT ![p] = heap[p] \ {a}] /\ map' = [map EXCEPT ![p] = m]
    BY <1>4 DEF Freeshared, Released, IInv
  <2>3. Sound(t, heap[p] \ {a}, m, c)
    BY <1>1, <2>1, ReturnedSound
  <2>4. \A k \in 1..Len(t) : m[t[k].addr] = map[p][t[k].addr]
    BY <1>1, <1>2, <2>1 DEF Used
  <2> HIDE DEF c, m
  <2>5. \A k \in 1..Len(t) : t[k].size > 0 => k \in Used(p) /\ HasBlock(p, k)
    BY DEF Used, HasBlock
  <2>6. \A k \in 1..Len(t) : t[k].size > 0 =>
          /\ m[t[k].addr] = map[p][t[k].addr]
          /\ \E j \in Used(p) : HasBlock(p, j) /\ tab[p][j].addr = t[k].addr
    BY <2>4, <2>5
  <2> HIDE DEF t
  <2> QED  BY <1>1, <2>2, <2>3, <2>6, OneProcess
<1> QED  BY <1>3, <1>4

\* An empty table, whatever the process keeps.
LEMMA EmptySound ==
  ASSUME NEW t, NEW h, NEW m, NEW d, Sound(t, h, m, d)
  PROVE  Sound(<<>>, h, m, d)
<1>1. <<>> \in Seq(Entry) /\ Len(<<>>) = 0 /\ 1..0 = {}
  BY EmptySeq
<1> QED  BY <1>1, NShMaxAssumption DEF Sound, Typed

LEMMA ForkInv ==
  ASSUME IInv, NEW p \in Procs, NEW q \in Procs, Fork(p, q)
  PROVE  IInv'
<1>1. /\ p \in alive /\ q \notin alive /\ alive' = alive \cup {q}
      /\ tab' = [tab EXCEPT ![q] = <<>>] /\ heap' = [heap EXCEPT ![q] = heap[p]]
      /\ map' = [map EXCEPT ![q] = map[p]] /\ held' = [held EXCEPT ![q] = held[p]]
  BY DEF Fork
<1>2. <<>> \in Seq(Entry) /\ Len(<<>>) = 0 /\ 0 <= NShMax
  BY EmptySeq, NShMaxAssumption
<1>3. /\ tab'[q] = <<>> /\ heap'[q] = heap[p] /\ map'[q] = map[p] /\ held'[q] = held[p]
      /\ \A r \in Procs \ {q} : /\ tab'[r] = tab[r] /\ heap'[r] = heap[r]
                               /\ map'[r] = map[r] /\ held'[r] = held[r]
  BY <1>1 DEF IInv
<1>4. /\ Root \in alive' /\ alive' \subseteq Procs /\ IsFiniteSet(alive')
      /\ tab' \in [Procs -> Seq(Entry)]
      /\ heap' \in [Procs -> SUBSET Addrs] /\ map' \in [Procs -> [Addrs -> Nat]]
      /\ held' \in [Procs -> SUBSET Addrs]
  BY <1>1, <1>2, FS_AddElement DEF IInv
<1>5. \A r \in Procs : Len(tab'[r]) <= NShMax
  BY <1>2, <1>3 DEF IInv
<1>6. \A r \in alive' : Sound(tab'[r], heap'[r], map'[r], held'[r])
  BY <1>1, <1>3, EmptySound DEF IInv
<1>7. OneOwner'
  <2> SUFFICES ASSUME NEW r \in alive', NEW s \in alive', r # s,
                      NEW i \in 1..Len(tab'[r]), NEW k \in 1..Len(tab'[s]),
                      tab'[r][i].size > 0, tab'[s][k].size > 0,
                      tab'[r][i].addr = tab'[s][k].addr,
                      map'[r][tab'[r][i].addr] = map'[s][tab'[s][k].addr]
               PROVE  FALSE
    BY DEF OneOwner, HasBlock, Used
  <2>1. r # q /\ s # q
    BY <1>2, <1>3
  <2> QED  BY <1>1, <1>3, <2>1 DEF IInv, OneOwner, HasBlock, Used
<1> QED  BY <1>4, <1>5, <1>6, <1>7 DEF IInv

LEMMA SavesharedmapInv ==
  ASSUME IInv, NEW p \in Procs, Savesharedmap(p)
  PROVE  IInv'
<1>1. p \in alive /\ Sound(<<>>, heap[p], map[p], held[p])
  BY EmptySound DEF Savesharedmap, IInv
<1>2. \A i \in 1..Len(<<>>) : FALSE
  OBVIOUS
<1>3. /\ alive' = alive /\ tab' = [tab EXCEPT ![p] = <<>>]
      /\ heap' = [heap EXCEPT ![p] = heap[p]] /\ map' = [map EXCEPT ![p] = map[p]]
      /\ held' = [held EXCEPT ![p] = held[p]]
  BY DEF Savesharedmap, IInv
<1> QED  BY <1>1, <1>2, <1>3, OneProcess

LEMMA ExitInv ==
  ASSUME IInv, NEW p \in Procs, Exit(p)
  PROVE  IInv'
<1> DEFINE m == [a \in Addrs |-> Private]
<1>1. /\ p \in alive \ {Root} /\ alive' = alive \ {p}
      /\ tab' = [tab EXCEPT ![p] = <<>>] /\ heap' = [heap EXCEPT ![p] = {}]
      /\ map' = [map EXCEPT ![p] = m] /\ held' = [held EXCEPT ![p] = {}]
  BY DEF Exit
<1>2. <<>> \in Seq(Entry) /\ Len(<<>>) = 0 /\ 0 <= NShMax /\ m \in [Addrs -> Nat]
  BY EmptySeq, NShMaxAssumption DEF Private
<1> HIDE DEF m
<1>3. \A r \in alive' : /\ r \in alive /\ tab'[r] = tab[r] /\ heap'[r] = heap[r]
                         /\ map'[r] = map[r] /\ held'[r] = held[r]
  BY <1>1 DEF IInv
<1>4. /\ Root \in alive' /\ alive' \subseteq Procs /\ IsFiniteSet(alive')
      /\ tab' \in [Procs -> Seq(Entry)] /\ \A r \in Procs : Len(tab'[r]) <= NShMax
      /\ heap' \in [Procs -> SUBSET Addrs] /\ map' \in [Procs -> [Addrs -> Nat]]
      /\ held' \in [Procs -> SUBSET Addrs]
  BY <1>1, <1>2, FS_RemoveElement DEF IInv
<1>5. OneOwner'
  <2> SUFFICES ASSUME NEW r \in alive', NEW s \in alive', r # s,
                      NEW i \in 1..Len(tab'[r]), NEW k \in 1..Len(tab'[s]),
                      tab'[r][i].size > 0, tab'[s][k].size > 0,
                      tab'[r][i].addr = tab'[s][k].addr,
                      map'[r][tab'[r][i].addr] = map'[s][tab'[s][k].addr]
               PROVE  FALSE
    BY DEF OneOwner, HasBlock, Used
  <2>1. /\ r \in alive /\ tab'[r] = tab[r] /\ map'[r] = map[r]
        /\ s \in alive /\ tab'[s] = tab[s] /\ map'[s] = map[s]
    BY <1>3
  <2>2. /\ i \in Used(r) /\ k \in Used(s) /\ HasBlock(r, i) /\ HasBlock(s, k)
        /\ tab[r][i].addr = tab[s][k].addr
        /\ map[r][tab[r][i].addr] = map[s][tab[s][k].addr]
    BY <2>1 DEF HasBlock, Used
  <2> QED  BY <2>1, <2>2 DEF IInv, OneOwner
<1> QED  BY <1>3, <1>4, <1>5 DEF IInv

LEMMA InitInv == Init => IInv
<1> SUFFICES ASSUME Init PROVE IInv
  OBVIOUS
<1> DEFINE m == [a \in Addrs |-> Private]
<1>1. <<>> \in Seq(Entry) /\ Len(<<>>) = 0 /\ 0 <= NShMax /\ m \in [Addrs -> Nat]
  BY EmptySeq, NShMaxAssumption DEF Private
<1>2. \A p \in Procs : tab[p] = <<>> /\ heap[p] = {} /\ map[p] = m /\ held[p] = {}
  BY DEF Init
<1>3. \A a \in Addrs : m[a] = Private
  OBVIOUS
<1>4. Root \in Procs /\ alive = {Root} /\ IsFiniteSet(alive)
  BY RootAssumption, FS_Singleton DEF Init
<1> HIDE DEF m
<1>5. Sound(<<>>, {}, m, {})
  BY <1>1, <1>3 DEF Sound, Typed
<1>6. OneOwner
  BY <1>4 DEF OneOwner
<1>7. /\ tab \in [Procs -> Seq(Entry)] /\ heap \in [Procs -> SUBSET Addrs]
      /\ map \in [Procs -> [Addrs -> Nat]] /\ held \in [Procs -> SUBSET Addrs]
  BY <1>1 DEF Init, m
<1> QED  BY <1>1, <1>2, <1>4, <1>5, <1>6, <1>7 DEF IInv

LEMMA StepInv == IInv /\ [Next]_vars => IInv'
<1> SUFFICES ASSUME IInv, [Next]_vars PROVE IInv'
  OBVIOUS
<1>1. ASSUME NEW p \in Procs, NEW a \in Addrs, Free(p, a) \/ Close(p, a) PROVE IInv'
  <2>1. \E ist \in Int : Freeshared(p, a, ist)
    BY <1>1, CloseArgsAssumption DEF Free, Close, Cached
  <2> QED  BY <2>1, FreeInv
<1>2. CASE UNCHANGED vars
  BY <1>2 DEF vars, IInv, OneOwner, HasBlock, Used
<1> QED  BY <1>1, <1>2, ReuseInv, AppendInv, EvictInv, TakeEmptyInv, UnenteredInv,
            ForkInv, SavesharedmapInv, ExitInv DEF Next

\* With any processes, heap and table size: no table gets more entries than it
\* has room for, and all a process has, free or mapped, is memory of the heap.
THEOREM SharedPoolTypeOK == Spec => []TypeOK
<1> QED  BY InitInv, StepInv, InvImplies, PTL DEF Spec

\* In any number of processes, with tables of any size: every block is in one
\* entry, what is handed out nobody uses, shared pages are where blocks are and
\* nowhere in the free memory of the heap.
THEOREM SharedPoolSound == Spec => [](TypeOK /\ PoolSound)
<1> QED  BY InitInv, StepInv, InvImplies, PTL DEF Spec

\* No two processes have a block of the same memory to hand out, whatever was
\* forked when.
THEOREM SharedPoolOneOwner == Spec => []OneOwner
<1> QED  BY InitInv, StepInv, InvImplies, PTL DEF Spec
=============================================================================
