----------------------------- MODULE ChunkTable -----------------------------
(***************************************************************************)
(* The table kcbk of the memory SAD got from the system (tfstk.f):         *)
(* ktfsadalloc allocates a chunk and tfentercbk enters it, extending or    *)
(* merging the entries it touches.  MemoryCheck asks the table, through    *)
(* itfcbk, whether an address belongs to the heap.                         *)
(*                                                                         *)
(* tfentercbk looks at every entry in turn, so it is one step per entry.   *)
(* When the entry it extends touches no other it goes on looking and in    *)
(* the end enters the chunk once more: entries may overlap.                *)
(***************************************************************************)
EXTENDS Integers

CONSTANTS
  NCbk,       \* entries of the table and chunks ktfsadalloc can take (ncbk)
  Chunks      \* chunks the system may give: first and last word

Entry == [lo : Nat, hi : Nat]
Empty == [lo |-> 0, hi |-> 0]

ASSUME NCbkAssumption == NCbk \in Nat \ {0}
ASSUME ChunksAssumption ==
  \A c \in Chunks : c \in Entry /\ c.lo > 1 /\ c.hi > c.lo + 1

VARIABLES
  tab,     \* kcbk: first and last word of each entry
  jcbk,    \* entries in use
  icbk,    \* chunks taken
  mem,     \* the words of the chunks entered
  new,     \* the chunk being entered, Empty if none
  j,       \* the entry tfentercbk looks at
  j0       \* the first free entry seen

vars == <<tab, jcbk, icbk, mem, new, j, j0>>

\* The words of an entry; an empty one has none.
Words(e) == (e.lo .. e.hi) \ {0}

\* talocinit enters the allocator's own tables as the first chunk.
Init ==
  /\ \E c \in Chunks :
       /\ tab = [k \in 1..NCbk |-> IF k = 1 THEN c ELSE Empty]
       /\ mem = Words(c)
  /\ jcbk = 1
  /\ icbk = 1
  /\ new = Empty
  /\ j = 1
  /\ j0 = 1

\* ktfsadalloc: a chunk, disjoint from those the program has.
Allocate(c) ==
  /\ new = Empty
  /\ icbk < NCbk
  /\ Words(c) \cap mem = {}
  /\ icbk' = icbk + 1
  /\ new' = c
  /\ j' = 1
  /\ j0' = jcbk + 1
  /\ UNCHANGED <<tab, jcbk, mem>>

\* A chunk at a negative address: it is not entered, but its slot is used.
Negative ==
  /\ new = Empty
  /\ icbk < NCbk
  /\ icbk' = icbk + 1
  /\ UNCHANGED <<tab, jcbk, mem, new, j, j0>>

-----------------------------------------------------------------------------
Scanning == new # Empty /\ j <= jcbk
EndsBefore(e)  == e.hi = new.lo - 1
StartsAfter(e) == ~ EndsBefore(e) /\ e.lo = new.hi + 1

First(S) == CHOOSE k \in S : \A l \in S : k <= l

Return(t) ==
  /\ tab' = t
  /\ mem' = mem \cup Words(new)
  /\ new' = Empty
  /\ UNCHANGED <<icbk, j, j0>>

\* The entry that ends right before the chunk is extended; if some entry
\* starts right after the chunk the two become one and that is all.
Touching(t, w) == {k \in 1..jcbk : t[k].lo = w}

\* Fault: the entry above is removed, its words are not taken over.
ExtendUpLosing ==
  /\ Scanning /\ EndsBefore(tab[j])
  /\ LET t == [tab EXCEPT ![j].hi = new.hi]
         K == Touching(t, new.hi + 1)
     IN  \/ /\ K = {}
            /\ tab' = t
            /\ j' = j + 1
            /\ UNCHANGED <<jcbk, icbk, mem, new, j0>>
         \/ /\ K # {}
            /\ Return([t EXCEPT ![First(K)] = Empty])
            /\ jcbk' = jcbk

ExtendUp ==
  /\ Scanning /\ EndsBefore(tab[j])
  /\ LET t == [tab EXCEPT ![j].hi = new.hi]
         K == Touching(t, new.hi + 1)
         k == First(K)
     IN  \/ /\ K = {}
            /\ tab' = t
            /\ j' = j + 1
            /\ UNCHANGED <<jcbk, icbk, mem, new, j0>>
         \/ /\ K # {} /\ k < j
            /\ Return([t EXCEPT ![k].lo = t[j].lo, ![j] = Empty])
            /\ jcbk' = IF j = jcbk THEN jcbk - 1 ELSE jcbk
         \/ /\ K # {} /\ k >= j
            /\ Return([t EXCEPT ![j].hi = t[k].hi, ![k] = Empty])
            /\ jcbk' = jcbk

\* Fault: the comparison with new.lo - 1 that seems to be meant.
ReachingBelow(t, w) == {k \in 1..jcbk : t[k].hi = w - 2}

\* The entry that starts right after the chunk is extended downwards.  The
\* code then looks for an entry to merge it with, comparing ends with
\* new.lo + 1 (not - 1): NeverMergesDown says that none is ever found.
Reaching(t, w) == {k \in 1..jcbk : t[k].hi = w}

ExtendDown ==
  /\ Scanning /\ StartsAfter(tab[j])
  /\ LET t == [tab EXCEPT ![j].lo = new.lo]
     IN  /\ Reaching(t, new.lo + 1) = {}
         /\ tab' = t
  /\ j' = j + 1
  /\ UNCHANGED <<jcbk, icbk, mem, new, j0>>

Pass ==
  /\ Scanning /\ ~ EndsBefore(tab[j]) /\ ~ StartsAfter(tab[j])
  /\ j' = j + 1
  /\ j0' = IF tab[j].hi = 0 /\ j < j0 THEN j ELSE j0
  /\ UNCHANGED <<tab, jcbk, icbk, mem, new>>

\* No entry returned: the chunk gets an entry of its own.
Append ==
  /\ new # Empty /\ j > jcbk
  /\ Return([tab EXCEPT ![j0] = new])
  /\ jcbk' = IF j0 > jcbk THEN j0 ELSE jcbk

Next ==
  \/ \E c \in Chunks : Allocate(c)
  \/ Negative
  \/ ExtendUp
  \/ ExtendDown
  \/ Pass
  \/ Append

Spec == Init /\ [][Next]_vars

-----------------------------------------------------------------------------
\* itfcbk finds an entry for w.
InTable(w) == \E k \in 1..jcbk : w \in Words(tab[k])

\* Types: the entries in use fit the table, no more than the chunks taken.
TypeOK ==
  /\ tab \in [1..NCbk -> Entry]
  /\ jcbk \in 1..NCbk /\ icbk \in 1..NCbk
  /\ jcbk <= icbk
  /\ mem \subseteq Nat \ {0}
  /\ new \in Chunks \cup {Empty}
  /\ j \in 1..(NCbk + 1) /\ j0 \in 1..NCbk

\* itfcbk never denies a word of the heap, whatever was merged or moved.
NothingLost == \A w \in mem : InTable(w)

\* itfcbk takes no other word for one of the heap, however entries overlap.
NothingElse == \A k \in 1..NCbk : tab[k] # Empty => Words(tab[k]) \subseteq mem \cup Words(new)

\* MemoryCheck may trust the table: itfcbk accepts the words of the heap and
\* no others.  While a chunk is being entered its words may already be there.
ExactlyTheHeap == NothingLost /\ NothingElse

\* The chunk goes to an entry nobody uses: nothing is overwritten.
FreeSlot == new # Empty => tab[j0] = Empty

\* An entry extended downwards is never merged with the one below it: where
\* two entries meet the chunk is entered a second time instead.
NeverMergesDown ==
  Scanning /\ StartsAfter(tab[j]) => Reaching(tab, new.lo + 1) = {}
=============================================================================
