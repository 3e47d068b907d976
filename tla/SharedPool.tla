----------------------------- MODULE SharedPool -----------------------------
(***************************************************************************)
(* The pool of shared-memory blocks of tfshared.f.                         *)
(*                                                                         *)
(* A shared block is a heap block (ktaloc) whose pages have been replaced  *)
(* by an anonymous shared mapping: processes forked later see the same     *)
(* memory.  Mappings are dear, so a block that is freed stays mapped and   *)
(* is cached in a table of nshmax entries.  Each process has a table of    *)
(* its own; the memory behind an entry may be visible to its relatives.    *)
(*                                                                         *)
(* Processes are single-threaded and a call touches only the caller's      *)
(* tables, so one action is one call.  ktaloc is abstracted to the choice  *)
(* of an address that is not in use: Heap shows that it is one.            *)
(***************************************************************************)
EXTENDS Integers, Sequences, FiniteSets

CONSTANTS
  Procs,     \* the processes there may be at the same time
  Root,      \* the first of them
  Addrs,     \* the places in the heap a block may be put
  Sizes,     \* the sizes asked for, in pages
  NShMax,    \* entries of the table (nshmax)
  CloseArgs  \* what trbclose may pass tfreeshared as the new state

ASSUME NShMaxAssumption == NShMax \in Nat \ {0}
ASSUME SizesAssumption == Sizes \subseteq Nat \ {0}
ASSUME RootAssumption == Root \in Procs
ASSUME CloseArgsAssumption == CloseArgs \subseteq Int

VARIABLES
  alive,   \* the processes running
  tab,     \* kashare, lshare, kstshare: the entries 1..kstshare(0), by process
  heap,    \* the places ktaloc gave and tfree did not take back, by process
  map,     \* the mapping behind each place: Private or a shared one
  held     \* the blocks ktfallocshared returned and nobody freed

vars == <<alive, tab, heap, map, held>>

Entry == [addr : Addrs, size : Sizes \cup {0}, st : Int]

InUse  == 1
Cached == 0

\* A child has the mappings of its parent at the same places, so a mapping
\* is known by its place and a number: two processes that have the same
\* number at a place see the same memory there.
Private == 0
FreshMapping(a) ==
  CHOOSE s \in 1..(Cardinality(alive) + 1) : /\ \A p \in alive : map[p][a] # s
                                 /\ \A r \in 1..(s - 1) : \E p \in alive : map[p][a] = r

Init ==
  /\ alive = {Root}
  /\ tab = [p \in Procs |-> <<>>]
  /\ heap = [p \in Procs |-> {}]
  /\ map = [p \in Procs |-> [a \in Addrs |-> Private]]
  /\ held = [p \in Procs |-> {}]

-----------------------------------------------------------------------------
Lowest(S)  == CHOOSE i \in S : \A k \in S : i <= k
Highest(S) == CHOOSE i \in S \cup {0} : \A k \in S : k <= i

Used(p)   == 1..Len(tab[p])
Fit(p, z) == {i \in Used(p) : tab[p][i].st = Cached /\ tab[p][i].size >= z}

\* ktfallocshared when a cached block is large enough: the first one.
Reuse(p, z) ==
  /\ p \in alive /\ Fit(p, z) # {}
  /\ LET i == Lowest(Fit(p, z))
     IN  /\ tab' = [tab EXCEPT ![p][i].st = InUse]
         /\ held' = [held EXCEPT ![p] = @ \cup {tab[p][i].addr}]
  /\ UNCHANGED <<alive, heap, map>>

\* The table up to the last entry that is not dead.
Trimmed(p) == SubSeq(tab[p], 1, Highest({i \in Used(p) : tab[p][i].st >= 0}))

Full(p, z) == p \in alive /\ Fit(p, z) = {} /\ Len(Trimmed(p)) = NShMax

\* What a process has before it gets a new block: its own, or its own less
\* the block tfreleaseshared made private again and gave back to the heap.
Own(p) == [map |-> map[p], heap |-> heap[p]]
\* Fault: the pages stay shared.
ReleasedShared(p, a) == [map |-> map[p], heap |-> heap[p] \ {a}]

Released(p, a) == [map |-> [map[p] EXCEPT ![a] = Private], heap |-> heap[p] \ {a}]

\* A new block at a, mapped to memory of its own; t is the table then.
NewBlock(p, a, own, t) ==
  /\ a \notin own.heap
  /\ heap' = [heap EXCEPT ![p] = own.heap \cup {a}]
  /\ map' = [map EXCEPT ![p] = [own.map EXCEPT ![a] = FreshMapping(a)]]
  /\ tab' = [tab EXCEPT ![p] = t]
  /\ held' = [held EXCEPT ![p] = @ \cup {a}]
  /\ UNCHANGED alive

NewEntry(a, z) == [addr |-> a, size |-> z, st |-> InUse]

\* Fault: off by one at the end of the table.
AppendEntryPast(p, z, a) ==
  /\ p \in alive /\ Fit(p, z) = {}
  /\ Len(Trimmed(p)) <= NShMax
  /\ NewBlock(p, a, Own(p), Append(Trimmed(p), NewEntry(a, z)))

\* ktfallocshared when the table has room: an entry after the last one.
AppendEntry(p, z, a) ==
  /\ p \in alive /\ Fit(p, z) = {}
  /\ Len(Trimmed(p)) < NShMax
  /\ NewBlock(p, a, Own(p), Append(Trimmed(p), NewEntry(a, z)))

\* ktfallocshared when it has none.  The first entry that is not in use and
\* has memory is evicted; an empty one met before it is marked cached, and
\* is taken only if there is nothing to evict.
Empties(p) == {i \in Used(p) : tab[p][i].st <= 0 /\ tab[p][i].size = 0}
Victims(p) == {i \in Used(p) : tab[p][i].st <= 0 /\ tab[p][i].size > 0}

\* Fault: the new entry goes to the empty one, the evicted one stays.
EvictAside(p, z, a) ==
  /\ Full(p, z) /\ Victims(p) # {}
  /\ LET v == Lowest(Victims(p))
         E == {i \in Empties(p) : i < v}
     IN  NewBlock(p, a, Released(p, tab[p][v].addr),
                  [tab[p] EXCEPT ![IF E = {} THEN v ELSE Lowest(E)] = NewEntry(a, z)])

Evict(p, z, a) ==
  /\ Full(p, z) /\ Victims(p) # {}
  /\ LET v == Lowest(Victims(p))
         E == {i \in Empties(p) : i < v}
         t == [tab[p] EXCEPT ![v] = NewEntry(a, z)]
     IN  NewBlock(p, a, Released(p, tab[p][v].addr),
                  IF E = {} THEN t ELSE [t EXCEPT ![Lowest(E)].st = Cached])

TakeEmpty(p, z, a) ==
  /\ Full(p, z) /\ Victims(p) = {} /\ Empties(p) # {}
  /\ NewBlock(p, a, Own(p), [tab[p] EXCEPT ![Lowest(Empties(p))] = NewEntry(a, z)])

\* Every entry is in use: the block is not entered.
Unentered(p, z, a) ==
  /\ Full(p, z) /\ Victims(p) = {} /\ Empties(p) = {}
  /\ NewBlock(p, a, Own(p), tab[p])

-----------------------------------------------------------------------------
Entries(p, a) == {i \in Used(p) : tab[p][i].addr = a}

\* The entry after tfreeshared: a dead one has no memory.
Marked(e, ist) ==
  [e EXCEPT !.st = ist, !.size = IF ist < 0 THEN 0 ELSE e.size]

\* tfreeshared(a, ist): the block is cached, or made dead if ist < 0.  A
\* block that has no entry is given back to the heap.
Freeshared(p, a, ist) ==
  /\ p \in alive /\ a \in held[p]
  /\ held' = [held EXCEPT ![p] = @ \ {a}]
  /\ \/ /\ Entries(p, a) # {}
        /\ tab' = [tab EXCEPT ![p][Lowest(Entries(p, a))] = Marked(@, ist)]
        /\ UNCHANGED <<heap, map>>
     \/ /\ Entries(p, a) = {}
        /\ map' = [map EXCEPT ![p] = Released(p, a).map]
        /\ heap' = [heap EXCEPT ![p] = Released(p, a).heap]
        /\ UNCHANGED tab
  /\ UNCHANGED alive

\* tmunmapp, and the other callers that pass no state.
Free(p, a) == Freeshared(p, a, Cached)

\* trbclose of a stream of OpenShared: the state it passes is a variable
\* that nothing has set.
Close(p, a) == \E ist \in CloseArgs : Freeshared(p, a, ist)

\* Fault: the child keeps the table.
ForkTable(p, q) ==
  /\ p \in alive /\ q \notin alive
  /\ alive' = alive \cup {q}
  /\ tab' = [tab EXCEPT ![q] = tab[p]]
  /\ heap' = [heap EXCEPT ![q] = heap[p]]
  /\ map' = [map EXCEPT ![q] = map[p]]
  /\ held' = [held EXCEPT ![q] = held[p]]

\* fork_worker: the child has a copy of everything but the table, which
\* tfsavesharedmap empties.
Fork(p, q) ==
  /\ p \in alive /\ q \notin alive
  /\ alive' = alive \cup {q}
  /\ tab' = [tab EXCEPT ![q] = <<>>]
  /\ heap' = [heap EXCEPT ![q] = heap[p]]
  /\ map' = [map EXCEPT ![q] = map[p]]
  /\ held' = [held EXCEPT ![q] = held[p]]

\* SaveSharedMap[]: the same, called by a script.
Savesharedmap(p) ==
  /\ p \in alive
  /\ tab' = [tab EXCEPT ![p] = <<>>]
  /\ UNCHANGED <<alive, heap, map, held>>

\* A process ends, whatever tffswait or tfresetsharedmap did to its table
\* last: the system takes its memory.
Exit(p) ==
  /\ p \in alive \ {Root}
  /\ alive' = alive \ {p}
  /\ tab' = [tab EXCEPT ![p] = <<>>]
  /\ heap' = [heap EXCEPT ![p] = {}]
  /\ map' = [map EXCEPT ![p] = [a \in Addrs |-> Private]]
  /\ held' = [held EXCEPT ![p] = {}]

Next ==
  \E p \in Procs :
    \/ \E z \in Sizes : Reuse(p, z)
    \/ \E z \in Sizes, a \in Addrs :
         \/ AppendEntry(p, z, a)
         \/ Evict(p, z, a)
         \/ TakeEmpty(p, z, a)
         \/ Unentered(p, z, a)
    \/ \E a \in Addrs : Free(p, a) \/ Close(p, a)
    \/ \E q \in Procs : Fork(p, q)
    \/ Savesharedmap(p)
    \/ Exit(p)

Spec == Init /\ [][Next]_vars

-----------------------------------------------------------------------------
\* Types.
TypeOK ==
  /\ Root \in alive /\ alive \subseteq Procs
  /\ tab \in [Procs -> Seq(Entry)] /\ \A p \in Procs : Len(tab[p]) <= NShMax
  /\ heap \in [Procs -> SUBSET Addrs]
  /\ map \in [Procs -> [Addrs -> Nat]]
  /\ held \in [Procs -> SUBSET Addrs]

HasBlock(p, i) == tab[p][i].size > 0

\* A block is in one entry only, so tfreeshared, which takes the first entry
\* with the address, never changes the state of another block.
OneEntry ==
  \A p \in alive : \A i, k \in Used(p) :
    HasBlock(p, i) /\ tab[p][i].addr = tab[p][k].addr => i = k

\* A cached block has no user: nobody is handed a block somebody else has.
CachedIsFree ==
  \A p \in alive : \A i \in Used(p) :
    HasBlock(p, i) /\ tab[p][i].st = Cached => tab[p][i].addr \notin held[p]

\* The cache hands out each block once: no other entry, no other user.
CacheSound == OneEntry /\ CachedIsFree

\* A block in the table or in use is a heap block with shared pages: a
\* child forked now will see what is written to it.
BlocksAreShared ==
  \A p \in alive :
    /\ \A a \in held[p] : a \in heap[p] /\ map[p][a] # Private
    /\ \A i \in Used(p) : HasBlock(p, i) =>
         tab[p][i].addr \in heap[p] /\ map[p][tab[p][i].addr] # Private

\* What goes back to the heap is private: the heap never hands out, as
\* ordinary memory, pages another process can write to.
FreeIsPrivate ==
  \A p \in alive : \A a \in Addrs \ heap[p] : map[p][a] = Private

\* Shared pages are where blocks are, and nowhere in free memory, after any
\* order of evictions, releases and forks.
SharingSound == BlocksAreShared /\ FreeIsPrivate

\* What ktfallocshared and tfreeshared rely on, in the table and in the pages.
PoolSound == CacheSound /\ SharingSound

\* Only one process can hand a shared mapping out: a parent and its child
\* never give the same memory to two users.
OneOwner ==
  \A p, q \in alive : \A i \in Used(p), k \in Used(q) :
    /\ HasBlock(p, i) /\ HasBlock(q, k)
    /\ tab[p][i].addr = tab[q][k].addr
    /\ map[p][tab[p][i].addr] = map[q][tab[q][k].addr]
    => p = q

\* A block freed by Close is released: cached for the next user or back in
\* the heap ("The allocated memory can be released by Close[s]").
CloseReleases ==
  [][\A p \in Procs, a \in Addrs : Close(p, a) =>
       \/ a \notin heap'[p]
       \/ \E i \in 1..Len(tab'[p]) : /\ tab'[p][i].addr = a
                              /\ tab'[p][i].st = Cached /\ tab'[p][i].size > 0]_vars
=============================================================================
