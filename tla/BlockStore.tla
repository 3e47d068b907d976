----------------------------- MODULE BlockStore -----------------------------
(***************************************************************************)
(* The heap of SAD (tfstk.f, module tfmem; italoc.f talocp) as a set of    *)
(* blocks of words.  Every block is used (the program or the allocator's   *)
(* reserve holds it), free, or a separator: the words talocp leaves at the *)
(* end of a chunk of memory it gets from the system.  Which free block     *)
(* serves a request, and how free blocks are found, is left open: module   *)
(* Heap models the size lists and the hash chains and is shown to          *)
(* implement this module.                                                  *)
(*                                                                         *)
(* A block starts at the word that holds its header, so the pointer the    *)
(* program gets is lo + 1.                                                 *)
(***************************************************************************)
EXTENDS Integers

CONSTANTS
  MinWords,   \* words of the smallest block: header, two links, chain link (4)
  Requests,   \* sizes of blocks, in words, the program may ask for
  ChunkAddr,  \* addresses at which the system may place a chunk
  ChunkSize   \* numbers of words of a chunk

ASSUME MinWordsAssumption == MinWords \in Nat \ {0}
ASSUME RequestsAssumption == Requests \subseteq {m \in Nat : m >= MinWords}
ASSUME ChunkAssumption ==
  /\ ChunkAddr \subseteq Nat
  /\ ChunkSize \subseteq {n \in Nat : n >= 2 * MinWords}

VARIABLES
  blocks,     \* the blocks that tile the memory
  memory      \* every word obtained from the system

vars == <<blocks, memory>>

Kind  == {"used", "free", "sep"}
Block == [kind : Kind, lo : Nat, size : {m \in Nat : m >= MinWords}]

End(b)   == b.lo + b.size
Words(b) == b.lo .. (End(b) - 1)

-----------------------------------------------------------------------------
\* Fault: the block before is merged although it is used.
BeforeUsed(bs, b) == {f \in bs : End(f) = b.lo}

(* The blocks bs once b, which is not among them, has become free: tfree   *)
(* merges it with the free block that ends where b starts and with the     *)
(* free block that starts where b ends.                                    *)
Before(bs, b) == {f \in bs : f.kind = "free" /\ End(f) = b.lo}
\* Fault: the block after is not merged.
AfterIgnored(bs, b) == {}

After(bs, b)  == {f \in bs : f.kind = "free" /\ f.lo = End(b)}

Start(bs, b) == IF Before(bs, b) = {} THEN b.lo
                ELSE (CHOOSE f \in Before(bs, b) : TRUE).lo
Finish(bs, b) == IF After(bs, b) = {} THEN End(b)
                 ELSE End(CHOOSE f \in After(bs, b) : TRUE)

Merged(bs, b) == [kind |-> "free",
                  lo   |-> Start(bs, b),
                  size |-> Finish(bs, b) - Start(bs, b)]

Freed(bs, b) == (bs \ (Before(bs, b) \cup After(bs, b))) \cup {Merged(bs, b)}

-----------------------------------------------------------------------------
Init ==
  /\ blocks = {}
  /\ memory = {}

\* ktaloc: a free block of m words, or the first m words of one that leaves
\* a rest which is a block again.
Allocate(m) ==
  \E b \in blocks :
    /\ b.kind = "free"
    /\ \/ /\ b.size = m
          /\ blocks' = (blocks \ {b}) \cup {[b EXCEPT !.kind = "used"]}
       \/ /\ b.size >= m + MinWords
          /\ blocks' = (blocks \ {b})
               \cup {[kind |-> "used", lo |-> b.lo, size |-> m],
                     [kind |-> "free", lo |-> b.lo + m, size |-> b.size - m]}
    /\ UNCHANGED memory

\* tfree
Release(b) ==
  /\ b.kind = "used"
  /\ blocks' = Freed(blocks \ {b}, b)
  /\ UNCHANGED memory

\* ktalocr cuts m words off the front of the block it holds in reserve.
Carve(b, m) ==
  /\ b.kind = "used"
  /\ b.size >= m + MinWords
  /\ blocks' = (blocks \ {b})
       \cup {[kind |-> "used", lo |-> b.lo, size |-> m],
             [kind |-> "used", lo |-> b.lo + m, size |-> b.size - m]}
  /\ UNCHANGED memory

Separator(a, n) == [kind |-> "sep", lo |-> a + n - MinWords, size |-> MinWords]

\* Fault: no words are kept at the end of a chunk.
GrowBare(a, n) ==
  /\ (a .. (a + n - 1)) \cap memory = {}
  /\ memory' = memory \cup (a .. (a + n - 1))
  /\ blocks' = Freed(blocks, [kind |-> "used", lo |-> a, size |-> n])

\* Fault: the separator given back stays a separator as well.
GrowTwice(a, n) ==
  /\ (a .. (a + n - 1)) \cap memory = {}
  /\ memory' = memory \cup (a .. (a + n - 1))
  /\ \/ blocks' = Freed(blocks \cup {Separator(a, n)},
                        [kind |-> "used", lo |-> a, size |-> n - MinWords])
     \/ \E s \in blocks :
          /\ s.kind = "sep" /\ End(s) = a
          /\ blocks' = Freed(blocks \cup {Separator(a, n)},
                             [kind |-> "used", lo |-> s.lo, size |-> n])

\* talocp: a chunk of n words at a.  Its last words become a separator; the
\* separator right before it may be given back with the chunk.
Grow(a, n) ==
  /\ (a .. (a + n - 1)) \cap memory = {}
  /\ memory' = memory \cup (a .. (a + n - 1))
  /\ \/ blocks' = Freed(blocks \cup {Separator(a, n)},
                        [kind |-> "used", lo |-> a, size |-> n - MinWords])
     \/ \E s \in blocks :
          /\ s.kind = "sep"
          /\ End(s) = a
          /\ blocks' = Freed((blocks \ {s}) \cup {Separator(a, n)},
                             [kind |-> "used", lo |-> s.lo, size |-> n])

Next ==
  \/ \E m \in Requests : Allocate(m)
  \/ \E b \in blocks : Release(b)
  \/ \E b \in blocks, m \in Requests : Carve(b, m)
  \/ \E a \in ChunkAddr, n \in ChunkSize : Grow(a, n)

Spec == Init /\ [][Next]_vars

-----------------------------------------------------------------------------
\* Types; in particular every block can hold the header and the links that
\* tsetindexhash writes into a free block.
TypeOK ==
  /\ blocks \subseteq Block
  /\ \A b \in blocks : b.kind = "sep" => b.size = MinWords
  /\ memory \subseteq Nat

\* No word belongs to two blocks: what ktaloc hands out is never also free,
\* in the reserve, or held by another caller.
NoOverlap ==
  \A b, c \in blocks : b # c => End(b) <= c.lo \/ End(c) <= b.lo

\* No word obtained from the system is lost by splitting, merging, carving
\* the reserve or absorbing a separator, and no other word is used.
Tiled == memory = UNION {Words(b) : b \in blocks}

\* What the program relies on: the blocks divide the memory among them, with
\* every word in one block and no word in two.
Tiling == NoOverlap /\ Tiled

\* tfree leaves no two free blocks side by side.
Coalesced ==
  \A b, c \in blocks : ~ (b.kind = "free" /\ c.kind = "free" /\ End(b) = c.lo)

\* A block that may be freed is followed by a block of the same memory, so
\* that tfree, which reads the word after the block as a header, stays in
\* the memory it manages.
Followed ==
  \A b \in blocks : b.kind # "sep" => \E c \in blocks : c.lo = End(b)

\* What tfree leaves around a block: nothing to be merged with it later, and
\* something after it to look at.
Neighbours == Coalesced /\ Followed

\* A step takes at most one block from the program: tfree merges free blocks
\* with the one given to it and never touches another one the program holds.
HeldIsStable ==
  \A b, c \in blocks :
    b.kind = "used" /\ c.kind = "used" /\ b # c => b \in blocks' \/ c \in blocks'
HeldStable == [][HeldIsStable]_vars
=============================================================================
