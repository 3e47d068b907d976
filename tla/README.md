# TLA+ models of SAD

SAD (Strategic Accelerator Design) is an accelerator-optics program with a
Mathematica-like script language of its own: about 150 000 lines of Fortran
and C in `src/` of the repository, and script packages in `Packages/`.  Most
of it is numerical physics.  This directory models the part that is hard for
another reason: the memory everything lives in, and the processes SAD forks
and shares memory with.

References below are to files of the repository; `tfstk.f` is `src/tfstk.f`,
and so on.

## 1. The system

### Components, their state and operations

| component | state | operations | what makes it correct |
|---|---|---|---|
| heap allocator (`tfstk.f` tfmem, `italoc.f` talocp, `itfaloc.f` ktalocr) | lists of free blocks by size, hash chains by end address, separators, `maxic`, `nnet`, `nmem`, the reserve of ktalocr | ktaloc, tfree, ktalocr, talocp | blocks never overlap, no word is lost, free neighbours are merged, memory is taken from the system only when needed |
| chunk table (`tfstk.f` ktfsadalloc, tfentercbk, itfcbk) | `kcbk`, `jcbk`, `icbk` | enter a chunk, look a word up | finds exactly the words of the heap |
| shared-memory pool (`tfshared.f`, `sim/unix_memory_.c`) | `kashare`, `lshare`, `kstshare`, and the mappings of the pages | ktfallocshared, tfreeshared, tfreleaseshared, tfsavesharedmap | a block is handed to one user at a time, in one process; nothing shared goes back to the heap |
| dynamic-aperture search (`trackd.f`) | a grid in shared memory; in each process the particles it tracks and the lowest lost cell it has seen | take a cell, track, write the outcome; fork, wait | the grid is what one process alone would have computed |
| worker pool of the matching loop (`tffsmatch.f`) | share of each worker, table of process ids | fork, compute columns, `tffswait` | each column written once, used only when complete |
| Parallelize and shared variables (`Packages/init.n`, `toplvl.f`) | shared words with a lock word, the counter `np` | ReadShared, WriteShared, Parallelize, Fork, Wait | results whole, limit kept, returns |
| off-momentum split (`tffscalc.f`) | a shared block, one worker, the state each momentum starts from | fork, copy back, wait | results of the worker arrive; each process starts from what it has computed |
| spectrum pool (`tlinit.f`; `tbrad.f` is an obsolete copy) | files in `/tmp`, process ids | fork, write, read | every share read, the parent goes on |
| particle tracking pool (`tftrack.f`) | particle arrays in shared memory | divide, track, copy, tffswait | every particle tracked once |
| object lifetime (`tfstk.f`, `tfeeval.f`, `tfeval1.f`, `tfpart.f`) | reference counts, lists of temporaries by level, values of symbols | dtfcopy, tflocal, itfuplevel, itfdownlevel, tfreel, tfconnectk; the evaluator's reads, assignments and changes in place | freed once, never while counted or on the evaluator's stack, and unchanged while it is there |
| matching (`tffsmatch.f`) | values of the variables, best values, residual | iterate, take derivatives, step back, limit a variable | ends with the best values it found |
| stream buffers (`toplvl.f`, `tfwrite.f`, `getbuf.f`) | the table `itbuf`, `ibuf`, `lbuf`, `mbuf`, `lenbuf`; the pointers `buffer`, `ipoint`, `lrecl` of the current input | open, Read, ReadString, Close, Get, FFS | nothing skipped or read twice; input restored; each mapping has one stream |
| processes and signals (`tfProcess_.c`, `sim/sad_signal.c`, `init.n`) | action of each signal, table of commands, depth of handlers, mask | SigAction, handler, Fork, Wait | a handler finds its command, masks restored, no command kept for ever |
| network semaphores (`netSemaphore.c`) | sockets, lock names | lock, unlock, time out | |
| feature registry (`feature.c`, `random_driver.c`) | lists of names and versions | register, require | |
| name table (`hsrch.f`) | open hash table | find, enter | |
| control transfer (`tfmap.f`, `tfmodule.f`) | Throw mode, stack marks | Throw, Catch, Check | what was saved is restored |
| channel access, user interface, evaluator, physics, vendored code | | | not modelled, see section 8 |

### How they interact

Everything allocates with `ktaloc`.  `talocp` gets its chunks from
`ktfsadalloc`, which enters them in the chunk table.  The shared pool takes
blocks from the heap, replaces their pages by shared ones (`MAP_FIXED |
MAP_SHARED`) and gives them back with private pages.  `trackd`, `tffsmatch`,
`tftrack`, `tffscalc` and OpenShared get their shared memory from that pool and
their workers from `fork_worker_`, which also empties the pool's table in the
child.  All of them end with `waitpid(-1)`, so a child of one can be waited
for by another, or by a `Wait[]` of the script, also one in a signal handler.
Handlers of signals evaluate script wherever the signal comes.  Streams use
mappings of files beside the shared pool's; the evaluator reads its input
through pointers into one stream of the table that every other read moves.

### Hard behaviours

* Concurrency: processes share memory without any atomic instruction.  The
  grid of `trackd` has no lock at all; the lock of a shared variable is tested
  and set in two steps.
* Failure: forks fail (`-1` is used as if it were an id), workers are killed,
  children of another part of the program use up a wait.
* Long sequences: the allocator's lists, chains and separators, and the
  table of chunks, after any order of operations.
* Order: `talocp` frees a chunk before it writes the header after it; a list
  result is written before its descriptor.
* Reentrance: a handler interrupts SigAction or another handler and calls
  SigAction; a Get is evaluated in the middle of a line of another.
* The outside: signals come at any moment, files grow while they are read.

`PROJECT.json` lists each hazard at its line, with the property that covers it
or the reason why none does.

## 2. Plan

Done, in this order: `BlockStore` and its proofs; `Heap`, which implements it;
`ChunkTable` and its proofs; `SharedPool`; `DASearch`; `WorkerPool`, first for
the two places of `tffsmatch.f`, then for all six that divide work among forked
processes; `Parallelize`; `TempLevels`; `Signals`; `Streams`; the proofs of `SharedPool`,
`WorkerPool`, `Parallelize`, `Signals`, `DASearch` and `Heap`, with its refinement
of `BlockStore`.

Next, by importance:

1. Theorems: `InputRestored` and `MappingsAccounted` of `Streams`, then
   `FreedOnce` of `TempLevels` (section 6 says what each needs).
2. `Matching` (`tffsmatch.f`), the control around `WorkerPool`: the factor halved
   when the residual grows, the best values restored at the end, variables at
   their limits, a derivative step that fails after the elements were changed.
3. `TempLevels` over `BlockStore` (what tfreel hands to tfree is a block the
   program holds), and its parts left out: definitions with arguments, nested
   parts, ReplacePart.
4. FFS's stack of input files (`tffile.f`) over `Streams`; scripts that change
   the signal mask over `Signals`.
5. `Registry` (`feature.c`, `random_driver.c`), `NameTable` (`hsrch.f`),
   `NetSemaphore`, `CatchThrow`.

## 3. Modules

| module | models | composes / extends |
|---|---|---|
| `BlockStore` | the heap as a set of blocks: what ktaloc, tfree, ktalocr and talocp do, not how they find a block | |
| `Heap` | the allocator with its lists, chains, counters, separators and reserve | instantiates `BlockStore` (`ImplementsBlockStore`) |
| `ChunkTable` | tfentercbk, one entry looked at per step | |
| `SharedPool` | tfshared.f in several processes, with the mappings of the pages | |
| `DASearch` | trackd.f, one access to the shared grid per step | |
| `WorkerPool` | the six places that divide work among forked processes (two in tffsmatch.f, tffsqu, tftrack.f, tffscalc.f, tlinit.f) and their waits | |
| `Parallelize` | Parallelize[] over ReadShared and WriteShared, one access to shared memory per step | |
| `TempLevels` | the evaluator's objects: counts, temporaries by level, changes in place; one temporary per step while a level ends | |
| `Signals` | SigAction, its wrapper in the script, and the handlers of signals, interrupting each other | |
| `Streams` | the table of streams, reading by records, Get and FFS | |
| `BlockStoreProofs`, `ChunkTableProofs`, `SharedPoolProofs`, `DASearchProofs`, `WorkerPoolProofs`, `ParallelizeProofs`, `SignalsProofs` | theorems | the module each is named for |
| `HeapProofs` | theorems | `Heap`; instantiates `BlockStoreProofs` for the blocks of the tables |
| `MC...` | constants of the runs | |

An operator whose comment begins with "Fault:" is not part of a model: it is a
faulty variant of the definition after it, of the kind a slip in the code would
be, and is used to see that a property notices.

### Heap and BlockStore

A block is named by the address of its header word; the pointer the code
returns is one more.  A free block is at one place in a list (`heap.list`, the
`klist(icp+..)` rings) and in one chain (`heap.chain`, the `klist(ich+..)`
chains), both with the newest first, as in `tsetindexhash`.  Links are not
modelled as words: a ring is a sequence.  `ktaloc` is several steps (exact
size, near sizes, from the top, big blocks, `talocp`, and again), each a branch
of the code with its updates of `maxic` and `nnet`; each is simpler alone.  A
signal handler of the script (`tfProcess_.c:242`) can run between any two
instructions of the allocator and allocate itself; nothing protects the lists
from that, and it is not modelled.  `Garbage` is what `tfree` may read from a
header nobody has written: the last words of a chunk, which `talocp` writes
after it has called `tfree`, and the rest of the reserve, whose header `ktalocr`
leaves unwritten.

`ktalocr` writes the size it was asked for as it is, without the least size
`ktaloc` provides for: a block it cut for a smaller request would be too short
for the links of a free one.  Its callers (for names, symbols, functions,
patterns, lists and hash tables) never ask for less than `MinWords - 1`, which is the first
guard of `Ktalocr`.

The refinement maps the listed blocks to free ones, `held` and the reserve to
used ones (the reserve is a block although no header says so), and what
`talocp` left at the end of each chunk to separators.  A separator forgotten by
the list is a separator still: no list names it, and it stays one for ever.

### ChunkTable

`tfentercbk` in steps of one entry of its outer loop.  `kcbk(3,..)`, which is
always equal to `kcbk(2,..)`, is left out.  The branch that would merge an entry
downwards is not modelled as an action but as a claim: its condition is never
true (`NeverMergesDown`), because it compares with `+1` where `-1` seems meant.
A chunk between two entries is therefore entered twice; `ExactlyTheHeap`
(`NothingLost` and `NothingElse`) shows that look-up is right all the same.

### SharedPool

`map[p][a]` is the mapping behind a block of process p: private, or a shared one
named by a number.  Two processes with the same number at the same address see
the same memory.  `fork` copies mappings and heap; `tfsavesharedmap` empties
the child's table.  Rounding to pages is left out (sizes are in pages), and a
failing `mmap`, at which the code aborts.

### DASearch

A step is one access to the shared grid, or the local code between two.  A
particle is its cell, the turns it has made, and the turns it will survive
(`fate`, chosen in the initial state; a set with two members stands for
tracking with random numbers, that gives another result for another process).
The renumbering of particles (`kptbl`) is left out.  `upset` is a history
variable: workers that were killed, strangers that used up a wait, and the parent
if a signal cut a wait short (`WaitInterrupted`: `waitpid_` in
`sim/unix_fortran_.c` returns the -1 of an interrupted call, and `trackd` counts
it).  Signals of SAD itself restart system calls; those the script sets need not
(`SA_RESTART`).

### WorkerPool

`site` is the place: the columns of numerical derivatives, of those of further
conditions (EVDeriv) and of analytical ones in `tffsmatch.f`, the particles of
`tftrack.f`, the wave numbers of `tlinit.f`, the momenta and families of
`tffscalc.f`.  They differ in how the units are divided, who has the last share,
what a failed fork or a failed seed leads to, and whose status is looked at;
the operators that take a place (`Share`, `Forking`, `Matched`) hold these
differences, and the actions are common.  `Base` is what `tffscalc` starts a
momentum from: it is not shared between processes.  `Strangers` are children the
parent has for another reason: `Fork[]` of a script, such as the file dialog;
`Steal` is a handler of the script that waits for a worker, `WaitInterrupted` a
signal that cuts a wait short: harmless here, since the -1 it returns matches at
most the entry of a failed fork, which is matched once, sooner or later (in
`tlspect` also a word nobody has set: the program stops at the missing file).
`Deserted` are the shares nobody does.

### Parallelize

Every access of ReadShared and WriteShared to shared memory is a step: read the
lock, set it, read or write the descriptor, read or write the list behind it,
free the lock.  `mixed` is a history variable: two updates of np have
overlapped.

### TempLevels

An object is named by its address; the header of an object is one word here and
an element one word.  What the code calls the alloc word of an object is two
things: `linked` (its address part is not zero) and its place in
`heap.temps[l]`, the chain of level l.  `stack` is the part of the evaluator's
stack the counts do not see: what each level has taken without counting it.  It
says which objects the evaluator may use; no operation looks at it otherwise.
`Copy` is dtfcopy; `Local` is tflocal, tflocald, tflocal1 and tflocalrel, which
differ in how they test for an object; `Shelter` is the linking that tfsyeval
does when a value is read and tfconnectk when a level returns one.  Ending a
level is a step per temporary, because the chain grows while it is walked.  A
pattern's symbol is a part of its block until the pattern dies before it.

Heads of lists, strings and the symbols of the tables are left out: for counts
they are like one more element, a list without elements, and an object that
never dies.

### Signals

`stack` is the script and the handlers that interrupt it, the running one last:
one thread, in which only the last level moves.  A step is the code between two
points where a signal can come: in SigAction$ the signal itself is blocked from
`Sigaction` to `Assign`, in a handler its own signal for as long as it runs and
all signals in its two critical sections, which are therefore single steps.  The
section of the wrapper (`init.n`) blocks nothing, because `SigProcMask` leaves its
call unevaluated (`tfProcess_.c:699`) whenever its second argument is a list or
AllSignals: `Choose` and `Store` are two steps.

What the wrapper keeps as `mask` is that unevaluated call, and the second
`SigProcMask` (`init.n:159`) refuses it: an error (`tfProcess_.c:684`), which
ends the wrapper before SigAction$ is called.  That is what `SigAction[s,
Action:>command]` ordinarily does, also in
`script/demo-SigAction.sad`: `Unmask` ends the call, the signal keeps its action,
and the command stays in the table (`lost`).  There are two ways past it, both in
the model.  Where messages are off, `itfmessage` returns -1 instead of an error
(`itfmessage.f:48`: inside another message, or while the level set is below the
one of errors, as in the tests of a pattern, `itfpmat.f:239`, or for
`$Immediate<0`), the second call is left unevaluated too, and the wrapper goes on:
`quiet` of a call, which holds in the handlers that interrupt it as well.  And a script
may give a number of the table itself, `Action->n` (`tfProcess_.c:765`, `EXTENSION:128`), for which
there is no wrapper: `Give`.  Setting an action to Default needs neither.

`latest` is the command last given to a signal, and `want` what it was when a
handler read its number; with `lost` and `upset` they are history.  `upset`
records that a handler changed what an interrupted one was in the middle of
changing, against which the code protects nothing, or that the script gave a
number other than one the error had left to it.

### Streams

A stream is a slot with the address its characters are at, the end of the
current record (`l`, lbuf), the next character (`m`, mbuf) and the length mapped
(`len`, lenbuf).  Addresses are tokens `mmap` picks from; `maps` is what the
process has mapped.  A read is a step per call of `tfreadbuf` and one that takes
the string, word or character: only the file can change in between (`Grow`).
When the end is met and the file has grown, `Resized` maps it again; its choices
are those the code leaves open: the place, and whether the old mapping goes,
since its length is passed as half of the word that `munmap` reads.  A pointer
`buffer` to memory that is gone is read at once, which is `crashed`.

## 4. Runs

All runs explore the whole state space of their instance; those of `da_search`
and `shared_pool` are cut by a constraint, in `MCDASearch` and `MCSharedPool`,
that says which initial states or crowded states are left out (`CHECK_DEADLOCK FALSE` where the system
does stop: the parent is finished, the heap has no address left for a chunk, the
calls of SigAction are used up, or memory that is not there was read).

| run | instance | shows |
|---|---|---|
| `blockstore` | blocks of 2 words and more, requests 2, 3, 5, three chunk places of 8 words of which two touch | `Tiling` (`NoOverlap` and `Tiled`), `Neighbours` (`Coalesced` and `Followed`), `HeldStable` |
| `heap` | sizes up to 5 listed, 2 chains (so most collide), three chunk places, two of which touch, reserve of 5 words, at most 3 blocks held | `ListsSound` (`FreeListsSound`, what MemoryCheck checks and more, and `SepListSound`), counters agree (`Accounting`), `GrowsOnlyWhenNeeded`, `ImplementsBlockStore` |
| `chunk_table` | six chunks, two groups that touch, a gap of one word, any order | `ExactlyTheHeap`, `NeverMergesDown` |
| `shared_pool` | parent and child, two entries, three places, two sizes, at most two blocks in each process | `PoolSound`: a block is in one entry, a cached one has no user, blocks have shared pages and free memory has none; `OneOwner` |
| `shared_pool_close` | the same | `CloseReleases` is violated, section 7 |
| `temp_levels` | two symbols, two levels, lists of at most two elements and one spare, four words | `FreedOnce` (`RefsCounted` and `Awaited`), `StackAlive`, `StackUnchanged`, `WordsAccounted` |
| `da_search` | a parent and one worker that may be killed, perhaps a stranger, waits cut short by signals, two rows of three cells (in the second all survive), DAPWIDTH 1, two particles at a time, two turns, perhaps one cell whose outcome may differ | `ReportedRight` (`Complete` and `EndsLikeSerial`), `OnlySerialCells`, `Terminates` |
| `worker_pool` | 5 units, or one momentum on each side and three families, 4 processes, failing forks and seeds, stopped workers, perhaps a stranger, a handler that waits, waits cut short, all six places | `OneWriter`, `OwnBase`, `MissingWhenUsed` (`MissingIsDeserted` and `NobodyLeft`), `GoesOn` |
| `parallelize` | 3 calls, 2 at a time, failing forks, killed children, results too large | `CountIsExact`, `WholeResults`, `Returns` |
| `parallelize_limit` | 4 calls, 2 at a time | `AtMostNPara` is violated, section 7 |
| `signals` | two signals, one trapped by SAD; 3 calls of SigAction, with messages on or off, or with a number, 2 signals sent (1.1 million states) | `RightCommand`, `OnlyFailuresLeak`, `MaskRestored`, `Handled` |
| `streams` | two slots and the terminal, three addresses, files and strings of at most four characters that have separators, newlines, an escaped newline, and nothing after them | `ReadsInOrder`, `InputRestored`, `MappingsAccounted` |

Every passing run but `blockstore` and `chunk_table`, whose types are proved
together with their invariants (section 6), also checks the `TypeOK` of its module.

Why the bounds are enough.  The sizes of `Heap` are scaled so that each branch
of `ktaloc` is taken: an exact size, near and far lists, a big block split, a
reserve dropped, two chunks that join.  With two chains, blocks that end at
different addresses share one, which the code's 2^15 chains make rare.  A
separator lives for two calls of `talocp` and there are three chunks, so
separators expire.  `MaxHeld` bounds the blocks the program holds at a time,
not how often it allocates and frees.  In `ChunkTable` six chunks give every
order of filling a gap from below, above and in the middle, with a second group
to be merged or not.  In `SharedPool` a table of two entries is full at once, so
that each way of finding an entry happens; two processes are enough for a
mapping to have two owners.  In `TempLevels` two levels are one to hold an object
and one to lose it in, two symbols let two values share an element, and four
words hold a list with a spare element and the one it was copied from, four
objects that die in any order, or a pattern, its symbol and a list of that
symbol; three levels (5.9 million states) were explored once with the same
result.  In `DASearch` rows with a
border in them at each place, two particles at a time and a second process give
both ways to be overtaken, and three cells in a row let a process be two cells
behind; two workers, without a stranger, on a row of three cells (11.3
million states) were explored once: the invariants hold.  The run leaves out combinations of a killed worker with outcomes that
differ (`MCDASearch`).  In `WorkerPool` 5 units on 4 processes give one process
two.  In `Signals` three calls are what the longest stories take: a command
whose handler runs is replaced, and marked, and the call after that removes it;
or a call fails, its number is given to a signal, and the command replaced.  Two
signals let each handler interrupt the other and both interrupt the script.
In `Streams` two slots are a stream and the input it interrupts, or a
Get within a Get, and make the table full; three slots (6.1 million states, one
short file) were explored once with the same result.
Three calls of Parallelize, two at a time, make the parent wait and
two children finish together; four are the fewest at which a lost update leads
to three processes where two are allowed.

## 5. Fairness

`DASearch` and `WorkerPool` assume weak fairness of each process's steps: the
operating system runs every process, and no step waits for another except
`waitpid`, which is enabled from the moment a child has ended for good.  A
stranger, another child of the same parent, need not exist and need not end, and
failures need not happen: `Terminates` and `GoesOn` are stated for runs in which
the strangers, if any, end, as a wait of the parent cannot return otherwise once
its own children are gone.  `GoesOn` also needs that no handler of the script
has waited for a worker, and that the spectrum pool could fork all of its
workers: the code waits for ever otherwise (hazards at `tffsmatch.f:562` and
`tlinit.f:382`).  No fairness makes a signal cut a wait short.  `Signals` assumes weak fairness of the code that has begun, and
of the kernel's delivery of each signal that is not blocked; that the script
calls SigAction again, or that another signal comes, is not assumed.  `Parallelize` assumes strong fairness of each process: a process that
finds a lock taken sleeps (`tpause`) and tries again, the holder frees it after
a few instructions, and a process that polls holds it only for a moment
each second, so that whoever tries again and again finds it free at last.  `Returns` is
stated for runs without a failed fork, a killed child or a result too large, and
without overlapping updates of `np`: with them the code polls for ever.  The
safety properties need no fairness.

## 6. Proofs

Every theorem holds for all values of the constants that satisfy the named
assumptions of its module.  Each proof rests on an inductive invariant (`Inv`,
`IInv`, in `SignalsProofs` `LevelInv` and `CommandInv`, in `HeapProofs` `HInv`),
stated in the module of the proofs and shown to be preserved with one lemma per
action; the theorems are its consequences.

| module of proofs | theorems | what they say |
|---|---|---|
| `BlockStoreProofs` | `BlockStoreInv`, `BlockStoreNeighbours`, `BlockStoreHeld` | `[](TypeOK /\ Tiling)`, `[]Neighbours`, `HeldStable` |
| `HeapProofs` | `HeapTypeOK`, `HeapListsSound`, `HeapAccounting`, `HeapGrows`, `HeapImplementsBlockStore`, `HeapBlocks` | `[]` of the invariant, `GrowsOnlyWhenNeeded`, `ImplementsBlockStore`; `Tiling`, `Neighbours` and `HeldStable` of the blocks in the tables |
| `ChunkTableProofs` | `ChunkTableInv`, `NoDownwardMerge` | `[](TypeOK /\ ExactlyTheHeap /\ FreeSlot)`, `[]NeverMergesDown` |
| `SharedPoolProofs` | `SharedPoolTypeOK`, `SharedPoolSound`, `SharedPoolOneOwner` | `[]TypeOK`, `[](TypeOK /\ PoolSound)`, `[]OneOwner` |
| `DASearchProofs` | `DASearchTypeOK`, `DASearchOnlySerialCells`, `DASearchReportedRight` | `[]` of the invariant each is named for |
| `WorkerPoolProofs` | `WorkerPoolTypeOK`, `WorkerPoolOneWriter`, `WorkerPoolOwnBase`, `WorkerPoolMissingWhenUsed` | the same |
| `ParallelizeProofs` | `ParallelizeTypeOK`, `ParallelizeWholeResults`, `ParallelizeCountIsExact` | the same |
| `SignalsProofs` | `SignalsTypeOK`, `SignalsMaskRestored`, `SignalsRightCommand`, `SignalsOnlyFailuresLeak` | the same |

**BlockStore** (any requests, chunk places and chunk sizes).  Only `Inv`, the
conjunction of `TypeOK`, `NoOverlap`, `Tiled`, `Coalesced` and `Followed`, is
inductive: merging is right because at most one free block ends where another
starts (`NoOverlap`, with `TypeOK` for blocks that are not empty), nothing remains
to be merged afterwards because nothing was before (`Coalesced`), and a chunk
placed beside others does not overlap them because `memory` is exactly what the
blocks cover (`Tiled`).  The separator at the end of a chunk is what `Followed`
comes from: a freed or allocated block always ends where another block starts,
since a separator is absorbed only together with the chunk that follows it.

**Heap** (any sizes, any requests, any places of chunks, any value of an unwritten
header).  What tfree, talocp and ktaloc find in the lists and chains is right only
if the blocks do not overlap, and the blocks do not overlap only if what was found
was right; so `HInv` joins the two and is proved together with the refinement.
Its part about the tables, `Tables`, says that the lists and the chains hold
exactly the free blocks, each where its size and its end put it (`Sound`); that no
list above `maxic` holds one (`Topped`); that what is held, and the reserve, is
not free (`Owned`); that each separator in the list is a block of its kind, and
younger than the next (`Seps`); that `nnet` and `nmem` are numbers of words of the
memory (`Counted`); and what the search for a block has found so far
(`Searched`).  Its part about the blocks is the invariant of `BlockStore`.  For
each action of `Heap` one lemma shows that `Tables` is kept and that the step is
one of `BlockStore`, whose own proof then gives the second part (`HeapStep`).
The lists are handled as sets: a list without one of its elements, or with one put
before it, holds one fewer or one more, once (`RemoveFacts`, `PrependFacts`).
tfree finds by the chain of an address the free block that ends there, if there is
one, and no other (`FreeMap`): two with the same hash are told apart by their
ends.  It may read a header never written; that is harmless because what it reads
is only used to choose a chain, where no block starts at an address nothing was
written to.  That talocp unlinks a separator through the one before it, whether
or not that one is still in the list, is right because the ages decrease along
the list, so only the last one can expire (`RemainingFacts`).  `Accounting` is a
sum over a set of any size; that it is the number of words covered is shown on a
least counterexample (`SumOfWords`), which needs no induction over the set.  The
constants are assumed to be such as those of the code (`HeapAssumption`): all
naturals, a rest that is split off a block or the reserve no smaller than a block,
and a chunk larger than the sizes that have lists.

**ChunkTable** (any chunks, any table).  The inductive invariant adds what the
loop has established so far: a chunk being entered is disjoint from `mem`;
entries beyond `jcbk` are empty; while the loop runs, the words of the entries
are those of `mem` and, once an entry was extended, the words of the new chunk.
`NoDownwardMerge`: an entry that ended one word into the chunk would have words
in common with it.

**SharedPool** (any processes, heap and table size).  `PoolSound` and `OneOwner`
need two facts about the table that neither mentions: no entry, not even an
empty one, names memory the heap may hand out again, and an entry that is neither
in use nor cached has no block, so that what `ktfallocshared` evicts is a cached
block.

**WorkerPool** (any number of units, processes and other children, at the six
places).  That no unit is done twice is arithmetic on the shares
(`ip + k * npa` and the slices of tftrack, tlinit and tffscalc) and the
bookkeeping of who has which share: a worker whose fork failed does nothing, and
only then does the parent take the share tried last.  What is missing when the
results are used (`MissingWhenUsed`) follows from the shares covering the units once
the loop of forks is over, and from a count: `waits` is what is left of the workers
to wait for.  The theorem has two cases.  If the last fork succeeded, or at
tlspect, no worker is left, and only the shares of workers that could not start
are missing.  If it failed the parent has waited for nobody: workers may be left,
what is missing may also be what they have still to do or stopped before, and the
parent of `NumDerv` and `EVDeriv` has done the failed share and left its own.

**Parallelize** (any calls and processes, whatever fails).  Nothing rests on the
locks.  That results are whole is the order of the two writes of WriteShared;
that `np` is exact is that an update which no other one overlaps finds the value
it read unchanged; that it stays between minus the calls and the calls even when
updates do overlap, which `TypeOK` says, is that no value ever read exceeds what
was added or falls below what was subtracted.

**Signals** (any finite set of signals, any number of calls and of signals
sent).  The invariant is about the stack of levels, each of which was interrupted
by the one above it and does not change until that one has gone: the mask it
returns to is what the levels below block (`MaskRestored`), and a command is
removed only when no handler runs.  `CommandInv` says that a number of the table
of commands is used by a signal, kept to be removed, or given, to a call that
has not assigned it yet or, where the wrapper ended with its error, to nobody
(`lost`), and never two of these; it holds until a handler changes what it
interrupted the change of, or the script gives a number that is not lost
(`upset`), as `RightCommand` and `OnlyFailuresLeak` do.  Assumed: the signals are finitely many and 0, the level
without a signal, is none of them (`SigsAssumption`).

**DASearch** (any grid, window, slots, turns and finite set of workers, any
outcomes of tracking).  The grid has no lock, but a cell taken never becomes free
again, so what a process has seen taken stays so.  The invariant says of each
process which cells it has seen taken (above its position, in the windows of the
rows it is done with, and above its bound), and of each loss that it is in the
window of a process that has seen it or will look there: the process that wrote it
looks again before it is over.  When all processes are over, the process that
knows of the lowest loss has seen the window below it taken, and nothing is
tracked any more, so `Complete`.  With deterministic tracking nobody looks below
NCons cells that survive (`ClearInv`), which gives `OnlySerialCells`, and the two
together `EndsLikeSerial`: the border found has a clear window, and the border
of a single process is the highest that has.  That this border exists, and that
`LowestIn` has a value, are the only facts about least and greatest elements
(`Least`, `Greatest`).  Assumed: the workers are finitely many, and no child is
both a worker and a stranger (`ProcsAssumption`).

What stays with TLC, and why:

* Liveness (`Terminates`, `GoesOn`, `Returns`, `Handled`): the provers do not
  handle ENABLED, which fairness is defined by.
* `TempLevels`, all of it.  Its counts are folds over the elements of an object
  (`CopyAll`, `LocalAll`) and `RefsCounted` compares them with the number of places
  that refer to it.  The least counterexample that was enough for the sum in
  `Heap` would have to be found for each fold, where one step of the fold changes
  counts, chains and memory at once, and while a level ends all of it is half
  done.  Not attempted.
* `Streams`, all of it.  `InputRestored` and `MappingsAccounted` need no more than
  an invariant that orders the stack of Gets by the slots it holds; they have not
  been attempted.  `ReadsInOrder` needs in addition what `Word` returns of a text.

No module has a RECURSIVE operator.

## 7. Where the code and its documents disagree

* `trbclose` passes a variable nobody has set as the new state of a shared block
  (`toplvl.f:381`).  Unless it happens to be zero the block can never be used
  again, while the manual says that Close releases it.  Run
  `shared_pool_close`.
* `Parallelize` may run more than `npara` calls at a time, because an update of
  its counter is lost (`Packages/init.n:339` and `347`).  The manual of NPARA
  calls it a maximum.  Run `parallelize_limit`; `CountIsExact` shows that
  overlapping updates are the only way, and `WholeResults` that results are right
  all the same.

Other observations, without a document that says otherwise:

* `tfentercbk`'s downward merge is dead code (`tfstk.f:1321`).
* `ktalocr` uses the `-1` of a failed `ktaloc` as an address.
* A request that ends within a separator's words of a page multiple makes
  `ktaloc` take chunk after chunk until two of them join.
* When the last fork of `tffsmatch` fails the parent waits for nobody and uses
  the matrix while its workers write to it; it does the share of the worker that
  was not forked and leaves its own, `npa`, whose columns stay as they were
  (`tffsmatch.f:308`, where `ip` is not raised).  When another fork fails the
  columns of its share are used as they were.
* A signal whose handler does not restart calls cuts `waitpid` short
  (`sim/unix_fortran_.c:97`), which uses up one of the waits of `trackd`: it prints
  the grid while a worker may still track.
* Parallelize polls for ever when a fork fails, when a child dies before its
  result is written, and when a result is too large for its variable; in the
  last case the child goes on with the parent's input.
* The wait loop of `tlinit.f` does not end when a fork failed, or ends early when
  `waitpid` returns -1 and the table of ids, which nothing initialises, has a -1
  in it; and the table has 100 words whatever NPARA is (`tlinit.f:266`).
* `tffswait` ends for a worker it does not find only if a -1 is in its table: a
  handler of the script that calls `Wait[]` may make it wait for ever.
* An error a worker of EVDeriv meets in `tffsfitfun` (`tffsmatch.f:415`) is in
  the worker's own `irtc`: the parent does not learn of it.
* A worker of `tftrack.f` whose random numbers fail ends with status 0, so its
  particles are taken as tracked; failed forks leave words nobody set in `jptbl`.
* `SigProcMask` leaves its call unevaluated whenever its second argument is a list
  or AllSignals (`tfProcess_.c:699`), so the "Signal Critical Section" of SigAction
  (`Packages/init.n:154`) is none.  A handler that calls SigAction between
  `Choose` and `Store` takes the same number, and one that does in the middle of
  a change of the table of commands leaves it protected.  `RightCommand` and
  `OnlyFailuresLeak` hold as long as this does not happen.
* The second SigProcMask of SigAction (`Packages/init.n:159`) gets that unevaluated
  call as its mask, and is the error: unless messages are off, a SigAction with a
  command stores the command and ends, without giving it to the signal.  Nothing
  in the code removes it again (section 3, `Signals`).
* An action set back to Default leaves the number in `sad_signal_actions`: a later
  SigAction of the same signal does not look at it, since the handler it reads
  back is not the script's.
* `mapresizefile` is passed the old length as `integer*4` where the C side reads
  8 bytes (`toplvl.f:516`, `sim/unix_memory_.c:532`).  What `munmap` gets depends
  on the word beside it.  A failure of `mmap` is `-1/8`, which is 0 and not
  noticed.
* After a file was mapped again `tfreadstringf` and `getbuf0` read through the
  old `buffer` (`toplvl.f:522` sets `ibuf` only).
* Every `OpenRead["!command"]` and Get of a command keeps a slot of the stream
  table for good (`tfwrite.f:1261`); with a full table a mapping and its file
  descriptor are lost and the stream is 0 (`toplvl.f:820`).
* Input files of IN are not closed by TERMINATE or CLOSE (`tffile.f:181`).
* ReadNewRecord->False makes a difference only for words and for Fortran units: a
  string or a mapped file is read on into the next record all the same
  (`tfwrite.f:885`), while the manual (SADHelp.html:4755) describes going beyond
  the end of the line as what the option turns on.
* Loops add one to `levele` without the cap that `itfuplevel` has
  (`tfmap.f:81`).
* When the derivatives of a matching step fail (`tffsmatch.f:327`), the variables
  get their values back but the elements keep the last change.

## 8. Not modelled

The evaluator and pattern matcher (large, sequential, over unbounded
expressions), the optics and tracking physics (floating point), the Tk user
interface and channel access (event loops of libraries that are not in the
repository), vendored code in `contrib/`, and until the plan of section 2 is
carried out the components listed there.  In `Heap`: handlers that allocate
in the middle of an allocation.  In `Signals`: what a handler does to
the evaluator's stack (`save_stk_frame`), SigProcMask and SigSuspend called by
scripts, SA_NODEFER and further masks.  In `Streams`: Fortran units, FFS's own
stack of input files, a script that reads the input being executed or a stream
it has closed, files over 2 GB (`itbuf` is the size plus 5 in 32 bits).  Data are abstracted everywhere: no
words are stored in blocks, and no numbers in matrices.

## 9. Running

    tlc -config MCHeap.cfg MCHeap.tla
    tlapm DASearchProofs.tla

`PROJECT.json` lists the runs with their configurations, the faults, the
lines each definition was translated from, and the theorems.
