-------------------------------- MODULE Heap --------------------------------
(***************************************************************************)
(* The memory allocator of SAD: ktaloc, tsetindexhash and tfree (tfstk.f), *)
(* talocp (italoc.f) and the reserve of ktalocr (itfaloc.f).               *)
(*                                                                         *)
(* A block is named by the address lo of its header word (the pointer the  *)
(* program gets is lo + 1).  Every free block is in one list: the list of  *)
(* its size, or the list Big of all sizes above NIndex; and in the chain   *)
(* of the hash of the address where it ends, through which tfree finds the *)
(* free block before the one it frees.  The sizes in the code: MinWords 4, *)
(* MinSeg1 16, MinSeg2 16, NIndex 64, Span 5, HashSize 2^15, MpSize 2^22,  *)
(* NResv 2^18-1, SepAge 4.                                                 *)
(***************************************************************************)
EXTENDS Integers, Sequences, SequencesExt, FiniteSets, FiniteSetsExt,
        Folds, Functions

CONSTANTS
  MinWords,   \* words of the smallest block; words of a separator
  MinSeg1,    \* least rest when a block from a list of small blocks is split
  MinSeg2,    \* least rest when a big block is split
  NIndex,     \* sizes with a list of their own
  Span,       \* lists looked at upwards before looking from the top
  HashSize,   \* number of end-address chains (mhash + 1)
  MpSize,     \* a chunk is a multiple of this many words
  NResv,      \* words ktalocr takes in reserve (nsize)
  SepAge,     \* talocp calls a separator survives
  Requests,   \* arguments of ktaloc and ktalocr
  ChunkAddr,  \* where the system may place a chunk
  Garbage,    \* values read from a header word nothing was written to
  MaxHeld     \* bound: blocks the program holds at a time

ASSUME HeapAssumption ==
  /\ {MinWords, MinSeg1, MinSeg2, NIndex, Span, HashSize, MpSize, NResv, SepAge,
       MaxHeld} \subseteq Nat
  /\ MinWords > 0 /\ MinSeg1 >= MinWords /\ MinSeg2 >= MinWords
  /\ MpSize - MinWords > NIndex
  /\ SepAge > 0 /\ HashSize > 0
  /\ NResv > 2 * MinWords
  /\ Requests \subseteq Nat \ {0} /\ ChunkAddr \subseteq Nat /\ Garbage \subseteq Int

VARIABLES
  heap,     \* hdr, list, chain, maxic, nnet, nmem: the allocator's tables
  memory,   \* words obtained from the system
  sep,      \* separators talocp remembers, the latest first
  held,     \* blocks the program holds
  resv,     \* the reserve of ktalocr: where it starts, words left
  call      \* the call in progress

vars == <<heap, memory, sep, held, resv, call>>

Big   == NIndex + 1
Idle    == [op |-> "idle", n |-> 0, m |-> 0, at |-> "none"]
Crashed == [Idle EXCEPT !.op = "crashed"]
NoResv == [lo |-> 0, n |-> 0]

-----------------------------------------------------------------------------
(* The tables.                                                             *)
ListOf(m)  == IF m > NIndex THEN Big ELSE m
Key(lo, m) == (lo + 3 + m) % HashSize

\* The header words once m has been written to the one at lo.
Write(hdr, lo, m) == [x \in DOMAIN hdr \cup {lo} |-> IF x = lo THEN m ELSE hdr[x]]

\* tsetindexhash: a free block of m words at lo.
Insert(h, lo, m) ==
  [h EXCEPT !.hdr = Write(@, lo, m),
            !.list[ListOf(m)] = <<lo>> \o @,
            !.chain[Key(lo, m)] = <<lo>> \o @,
            !.maxic = IF m > NIndex THEN @ ELSE Max({@, m})]

\* Fault: the block stays in the chain of its end.
UnlinkList(h, lo) == [h EXCEPT !.list[ListOf(h.hdr[lo])] = RemoveFirst(@, lo)]

Unlink(h, lo) ==
  LET m == h.hdr[lo]
  IN  [h EXCEPT !.list[ListOf(m)] = RemoveFirst(@, lo),
                !.chain[Key(lo, m)] = RemoveFirst(@, lo)]

\* Fault: the whole block is counted, not the words taken.
TakeCountsAll(h, lo, m) ==
  LET rest == h.hdr[lo] - m
      u    == Unlink(h, lo)
      s    == IF rest = 0 THEN u ELSE Insert(u, lo + m, rest)
  IN  [s EXCEPT !.hdr[lo] = m, !.nnet = @ + h.hdr[lo]]

\* ktaloc takes the free block at lo and gives back what exceeds m words.
Take(h, lo, m) ==
  LET rest == h.hdr[lo] - m
      u    == Unlink(h, lo)
      s    == IF rest = 0 THEN u ELSE Insert(u, lo + m, rest)
  IN  [s EXCEPT !.hdr[lo] = m, !.nnet = @ + m]

\* tfree: the block before is found in the chain of the address where this
\* one starts; the one after by the header there, which may never have been
\* written (g).
Preceding(h, lo) ==
  {p \in Range(h.chain[(lo + 3) % HashSize]) : p < lo /\ p + h.hdr[p] = lo}
Follows(h, lo, g) ==
  lo \in Range(h.chain[Key(lo, IF lo \in DOMAIN h.hdr THEN h.hdr[lo] ELSE g)])

Free(h, lo, g) ==
  LET m    == h.hdr[lo]
      end  == lo + m
      pre  == Preceding(h, lo)
      lo1  == IF pre = {} THEN lo ELSE CHOOSE p \in pre : TRUE
      h1   == IF pre = {} THEN h ELSE Unlink(h, lo1)
      next == Follows(h1, end, g)
      end1 == IF next THEN end + h1.hdr[end] ELSE end
      h2   == IF next THEN Unlink(h1, end) ELSE h1
      gone == {lo} \cup (IF next THEN {end} ELSE {})
      h3   == [h2 EXCEPT !.hdr = Restrict(@, DOMAIN @ \ gone), !.nnet = @ - m]
  IN  Insert(h3, lo1, end1 - lo1)

-----------------------------------------------------------------------------
Init ==
  /\ heap = [hdr   |-> <<>>,
             list  |-> [m \in 1..Big |-> <<>>],
             chain |-> [k \in 0..(HashSize - 1) |-> <<>>],
             maxic |-> 0, nnet |-> 0, nmem |-> 0]
  /\ memory = {}
  /\ sep = <<>>
  /\ held = {}
  /\ resv = NoResv
  /\ call = Idle

\* The program asks for n words, at once or through ktalocr.
Search(op, n) ==
  [op |-> op, n |-> n, m |-> Max({n, MinWords - 1}) + 1, at |-> "small"]

Ktaloc(n) ==
  /\ call = Idle /\ Cardinality(held) < MaxHeld
  /\ call' = Search("ktaloc", n)
  /\ UNCHANGED <<heap, memory, sep, held, resv>>

\* ktalocr writes n + 1 into the header as it is; each of its callers asks for
\* the words of a smallest block or more.
Ktalocr(n) ==
  /\ n >= MinWords - 1
  /\ call = Idle /\ Cardinality(held) < MaxHeld
  /\ call' = IF n > NResv - (MinWords + 1) THEN Search("ktaloc", n)
             ELSE [op |-> "ktalocr", n |-> n, m |-> NResv + 1, at |-> "resv"]
  /\ UNCHANGED <<heap, memory, sep, held, resv>>

Tfree(lo) ==
  /\ call = Idle
  /\ \E g \in Garbage : heap' = Free(heap, lo, g)
  /\ held' = held \ {lo}
  /\ UNCHANGED <<memory, sep, resv, call>>

-----------------------------------------------------------------------------
(* ktalocr, label 1: cut the block off the reserve, or give back what is   *)
(* left of it and take a new one.                                          *)
Carve ==
  /\ call.at = "resv"
  /\ resv.n # 0
  /\ call.n <= resv.n - (MinWords + 1)
  /\ heap' = [heap EXCEPT !.hdr = Write(@, resv.lo, call.n + 1)]
  /\ held' = held \cup {resv.lo}
  /\ resv' = [lo |-> resv.lo + call.n + 1, n |-> resv.n - call.n - 1]
  /\ call' = Idle
  /\ UNCHANGED <<memory, sep>>

\* Fault: the header word of what is left is forgotten.
DropReserveShort ==
  /\ call.at = "resv"
  /\ resv.n # 0
  /\ call.n > resv.n - (MinWords + 1)
  /\ \E g \in Garbage :
       heap' = Free([heap EXCEPT !.hdr = Write(@, resv.lo, resv.n)], resv.lo, g)
  /\ resv' = NoResv
  /\ UNCHANGED <<memory, sep, held, call>>

DropReserve ==
  /\ call.at = "resv"
  /\ resv.n # 0
  /\ call.n > resv.n - (MinWords + 1)
  /\ \E g \in Garbage :
       heap' = Free([heap EXCEPT !.hdr = Write(@, resv.lo, resv.n + 1)], resv.lo, g)
  /\ resv' = NoResv
  /\ UNCHANGED <<memory, sep, held, call>>

NewReserve ==
  /\ call.at = "resv"
  /\ resv.n = 0
  /\ call' = [call EXCEPT !.at = "small"]
  /\ UNCHANGED <<heap, memory, sep, held, resv>>

-----------------------------------------------------------------------------
(* ktaloc: the search for a free block.                                    *)
Done(h, lo) ==
  /\ heap' = Take(h, lo, call.m)
  /\ IF call.op = "ktaloc"
       THEN held' = held \cup {lo} /\ resv' = resv /\ call' = Idle
       ELSE /\ resv' = [lo |-> lo, n |-> NResv]
            /\ call' = [call EXCEPT !.at = "resv"]
            /\ held' = held
  /\ UNCHANGED <<memory, sep>>

Small == call.at = "small" /\ call.m <= NIndex
First == call.m + Min({call.m, MinSeg1})
Limit == Min({heap.maxic - 1, First + Span})
Filled(S) == {c \in S : heap.list[c] # <<>>}
NearLists == Filled(First..Limit)
FarLists  == Filled(Max({First, Limit + 1})..heap.maxic)

TakeExact ==
  /\ Small
  /\ heap.list[call.m] # <<>>
  /\ Done(heap, Head(heap.list[call.m]))

TakeNear ==
  /\ Small
  /\ heap.list[call.m] = <<>>
  /\ NearLists # {}
  /\ Done(heap, Head(heap.list[Min(NearLists)]))

TakeFar ==
  /\ Small
  /\ heap.list[call.m] = <<>>
  /\ NearLists = {} /\ FarLists # {}
  /\ LET c == Max(FarLists)
         top == IF Len(heap.list[c]) = 1 THEN c - 1 ELSE c
     IN  Done([heap EXCEPT !.maxic = top], Head(heap.list[c]))

SmallFails ==
  /\ call.at = "small"
  /\ call.m <= NIndex => heap.list[call.m] = <<>> /\ NearLists = {} /\ FarLists = {}
  /\ heap' = [heap EXCEPT !.maxic =
                IF call.m <= NIndex /\ First <= @ THEN First - 1 ELSE @]
  /\ call' = [call EXCEPT !.at = "big"]
  /\ UNCHANGED <<memory, sep, held, resv>>

\* Fault: any rest of a big block is a block.
FitsAny(m1) == m1 >= call.m

\* Fault: a big block of the very size is not taken.
FitsInexact(m1) == m1 - MinSeg2 >= call.m

\* Fault: off by one.
FitsRoomier(m1) == m1 = call.m \/ m1 - MinSeg2 > call.m

Fits(m1) == m1 = call.m \/ m1 - MinSeg2 >= call.m
Fitting  == {k \in DOMAIN heap.list[Big] : Fits(heap.hdr[heap.list[Big][k]])}

TakeBig ==
  /\ call.at = "big"
  /\ Fitting # {}
  /\ Done(heap, heap.list[Big][Min(Fitting)])

BigFails ==
  /\ call.at = "big"
  /\ Fitting = {}
  /\ call' = [call EXCEPT !.at = "grow"]
  /\ UNCHANGED <<heap, memory, sep, held, resv>>

-----------------------------------------------------------------------------
(* talocp: a chunk from the system.                                        *)

\* The list of separators once the one that ends at a, if there is one, has
\* been used and those passed on the way have aged.  A separator leaves the
\* list through the link of the one before it, which works only if that one
\* is still in the list.
Hit(a)  == SelectInSeq(sep, LAMBDA x : x.lo + MinWords = a)
\* Fault: the separator used stays in the list.
RemainingUsed(a) ==
  SelectSeq([k \in DOMAIN sep |-> [sep[k] EXCEPT !.age = @ - 1]], LAMBDA x : x.age > 0)

Remaining(a) ==
  LET last    == IF Hit(a) = 0 THEN Len(sep) ELSE Hit(a)
      gone[k \in 0..Len(sep)] ==
        k \in 1..last /\ (k = Hit(a) \/ sep[k].age <= 1) /\ ~ gone[k - 1]
      aged(k) == IF k <= last /\ k # Hit(a) THEN [sep[k] EXCEPT !.age = @ - 1] ELSE sep[k]
      kept    == {k \in 1..Len(sep) : ~ gone[k]}
      order   == CHOOSE s \in [1..Cardinality(kept) -> kept] :
                   \A i, j \in DOMAIN s : i < j => s[i] < s[j]
  IN  [i \in 1..Cardinality(kept) |-> aged(order[i])]

ChunkWords(m) == MpSize * (1 + (m + MinWords - 1) \div MpSize)

Talocp(a) ==
  LET na   == ChunkWords(call.m)
      join == Hit(a) # 0
      lo   == IF join THEN a - MinWords ELSE a
      size == IF join THEN na ELSE na - MinWords
      s    == a + na - MinWords
      h    == [heap EXCEPT !.nmem = @ + na, !.nnet = @ + na, !.hdr = Write(@, lo, size)]
  IN  /\ call.at = "grow"
      /\ (a .. (a + na - 1)) \cap memory = {}
      /\ memory' = memory \cup (a .. (a + na - 1))
      /\ \E g \in Garbage :
           heap' = [Free(h, lo, g) EXCEPT !.hdr = Write(@, s, MinWords)]
      /\ sep' = <<[lo |-> s, age |-> SepAge]>> \o Remaining(a)
      /\ call' = [call EXCEPT !.at = "big"]
      /\ UNCHANGED <<held, resv>>

\* The system has no memory: ktaloc returns -1.  ktalocr uses that as the
\* address of its reserve and writes outside the heap.
OutOfMemory ==
  /\ call.at = "grow"
  /\ call' = IF call.op = "ktaloc" THEN Idle ELSE Crashed
  /\ UNCHANGED <<heap, memory, sep, held, resv>>

Next ==
  \/ \E n \in Requests : Ktaloc(n)
  \/ \E n \in Requests : Ktalocr(n)
  \/ \E lo \in held : Tfree(lo)
  \/ Carve
  \/ DropReserve
  \/ NewReserve
  \/ TakeExact
  \/ TakeNear
  \/ TakeFar
  \/ SmallFails
  \/ TakeBig
  \/ BigFails
  \/ \E a \in ChunkAddr : Talocp(a)
  \/ OutOfMemory

Spec == Init /\ [][Next]_vars

-----------------------------------------------------------------------------
FreeBlocks == UNION {Range(heap.list[m]) : m \in 1..Big}
Chained    == UNION {Range(heap.chain[k]) : k \in 0..(HashSize - 1)}

TypeOK ==
  /\ DOMAIN heap.hdr \subseteq memory
  /\ \A lo \in DOMAIN heap.hdr : heap.hdr[lo] >= MinWords
  /\ heap.maxic \in 0..NIndex /\ heap.nnet \in Nat /\ heap.nmem \in Nat
  /\ held \subseteq DOMAIN heap.hdr
  /\ resv.n \in 0..NResv /\ resv.lo \in memory \cup {0}
  /\ call.op \in {"idle", "ktaloc", "ktalocr", "crashed"}

\* What MemoryCheck verifies (tfmemcheck): every free block is once in the
\* list of its size; and tfree will find it: once in the chain of its end.
\* It is not in the program's hands.  And ktaloc never looks above maxic, so
\* no list above it holds a block.
FreeListsSound ==
  /\ \A m \in 1..Big : /\ IsInjective(heap.list[m])
                       /\ \A lo \in Range(heap.list[m]) : ListOf(heap.hdr[lo]) = m
  /\ \A k \in 0..(HashSize - 1) :
       /\ IsInjective(heap.chain[k])
       /\ \A lo \in Range(heap.chain[k]) : Key(lo, heap.hdr[lo]) = k
  /\ FreeBlocks = Chained
  /\ FreeBlocks \cap (held \cup {sep[k].lo : k \in DOMAIN sep}) = {}
  /\ \A m \in 1..NIndex : heap.list[m] # <<>> => m <= heap.maxic

\* The words of the blocks in S (mf in tfmemcheck when S is all free blocks).
FreeWords(hdr, S) ==
  MapThenFoldSet(+, 0, LAMBDA lo : hdr[lo], LAMBDA T : CHOOSE lo \in T : TRUE, S)

\* The fourth number MemoryCheck returns, mf + nnet - nmem, is 0: no word is
\* counted twice or lost by splits, merges, the reserve or the separators.
Accounting ==
  FreeWords(heap.hdr, FreeBlocks) + heap.nnet = heap.nmem

\* Every separator in the list is still one: a block of MinWords words that
\* talocp made and nothing has absorbed since, although talocp unlinks a
\* separator through the one before it without asking whether that one was
\* itself just unlinked.  The ages make this right: they decrease along the
\* list, so only the last one can expire.
SepListSound ==
  /\ \A k \in DOMAIN sep : /\ sep[k].age \in 1..SepAge
                          /\ sep[k].lo \in DOMAIN heap.hdr
                          /\ heap.hdr[sep[k].lo] = MinWords
  /\ \A j, k \in DOMAIN sep :
       j < k => sep[j].age > sep[k].age /\ sep[j].lo # sep[k].lo

\* The lists the allocator keeps, whatever order blocks, chunks and separators
\* came and went in, say of each word what tfree and talocp will believe.
ListsSound == FreeListsSound /\ SepListSound

\* No free block has the size asked for or leaves a rest of at least MinSeg1
\* and MinSeg2 words, wherever the block is listed.
NothingFits ==
  \A lo \in FreeBlocks : /\ heap.hdr[lo] # call.m
                         /\ heap.hdr[lo] < call.m + Max({MinSeg1, MinSeg2})

\* The chunk leaves a rest of MinSeg2 words beside its separator.
Roomy == call.m + MinSeg2 <= ChunkWords(call.m) - MinWords

\* The heap grows only when nothing fits, and only once for a request: talocp's
\* chunk serves the request it was taken for.  A request nearer to the end of
\* its chunk may find no fit in it, and then ktaloc takes another.
GrowsOnlyWhenNeeded ==
  [][memory' # memory => NothingFits /\ (Roomy => Fitting' # {})]_vars

-----------------------------------------------------------------------------
\* The lists and chains implement the set of blocks of BlockStore.
KindOf(lo) == IF lo \in FreeBlocks THEN "free"
              ELSE IF lo \in held THEN "used" ELSE "sep"
Reserve == IF resv.n = 0 THEN {}
           ELSE {[kind |-> "used", lo |-> resv.lo, size |-> resv.n + 1]}
Blocks == {[kind |-> KindOf(lo), lo |-> lo, size |-> heap.hdr[lo]] :
             lo \in DOMAIN heap.hdr \ {b.lo : b \in Reserve}} \cup Reserve

Store == INSTANCE BlockStore
         WITH blocks <- Blocks, memory <- memory,
              Requests <- {Max({n, MinWords - 1}) + 1 : n \in Requests \cup {NResv}},
              ChunkSize <- {ChunkWords(Max({n, MinWords - 1}) + 1) :
                              n \in Requests \cup {NResv}}

ImplementsBlockStore == Store!Spec
=============================================================================
