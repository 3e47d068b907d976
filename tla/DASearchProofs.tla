--------------------------- MODULE DASearchProofs ---------------------------
(***************************************************************************)
(* Proofs about DASearch, for a grid, a window, processes, slots and turns *)
(* of any number, and for any outcomes of the tracking.                    *)
(*                                                                         *)
(* The grid is read and written without a lock, but a cell that was taken  *)
(* never becomes free again, so what a process has seen taken stays so.    *)
(* Above all it has gone past, and in the window of the rows it is done    *)
(* with, it has seen all cells taken (ProcOK), and a process that is over  *)
(* has seen the windows of all rows taken (OverOK).  A loss is in the      *)
(* window of the process that wrote it, which looks again before it is     *)
(* over and so has a window that reaches below it (SeenBy).  When all      *)
(* processes are over nothing is being tracked, and what was taken has its *)
(* final outcome (LossInv).                                                *)
(***************************************************************************)
EXTENDS DASearch, FiniteSetTheorems, WellFoundedInduction, TLAPS

Turns == 0..NTurn
States == {"none", "fork", "scan", "take", "turn", "run", "done"}
Looks  == [k : 1..(NSlots + 1), i : Rows, j : 0..NCols]
Grids  == [Rows -> [Cols -> Turns \cup {MaxTurn}]]
Bounds == [Rows -> 1..(NCols + 1)]
Tracks == [Slots -> Cell \cup {Idle}]

Typed ==
  /\ ntloss \in Grids /\ fate \in [Rows -> [Cols -> Fates]]
  /\ nxm \in [Procs -> Bounds] /\ slot \in [Procs -> Tracks] /\ at \in [Procs -> Looks]
  /\ ini \in [Procs -> BOOLEAN] /\ iw \in [Procs -> 1..NW]
  /\ pc \in [Procs \cup Strangers -> States]
  /\ \A w \in Workers : pc[w] \in {"none", "scan", "take", "turn", "done"}
  /\ pc[Parent] \in {"fork", "scan", "take", "turn", "done"}
  /\ tofork \subseteq Workers /\ awaited \in Nat

Taken(g, i, c) == g[i][c] # MaxTurn
Grows(g, h) == \A i \in Rows, c \in Cols : Taken(g, i, c) => Taken(h, i, c)

\* The window of the row is taken.
RowTaken(g, nx, i) == \A c \in Cols : c >= nx[i] - NCons => Taken(g, i, c)

\* A process that has not begun.
Fresh(nx, sl, a) ==
  /\ nx = [i \in Rows |-> NCols + 1] /\ sl = [k \in Slots |-> Idle]
  /\ a = [k |-> 1, i |-> 1, j |-> NCols]

\* A particle tracked is in the window of its process, and is lost when its
\* cell says so.
SlotOK(g, fa, nx, s) ==
  s # Idle => /\ s.life \in fa[s.row][s.col] /\ s.mturn <= s.life
              /\ s.col >= nx[s.row] - NCons /\ Taken(g, s.row, s.col)

\* What a process that looks for a cell has seen.
LookOK(g, nx, sl, a) ==
  /\ a.j < nx[a.i]
  /\ \A k \in Slots : k < a.k => sl[k] # Idle
  /\ \A c \in Cols : c > a.j => Taken(g, a.i, c)
  /\ \A i \in Rows : i < a.i => RowTaken(g, nx, i)

ProcOK(g, fa, nx, sl, a, st, b) ==
  /\ \A i \in Rows, c \in Cols : c >= nx[i] => Taken(g, i, c)
  /\ \A k \in Slots : SlotOK(g, fa, nx, sl[k])
  /\ st \in {"scan", "take"} => LookOK(g, nx, sl, a)
  /\ st = "take" => a.k \in Slots /\ sl[a.k] = Idle /\ a.j >= 1 /\ a.j >= nx[a.i] - NCons
  /\ st = "turn" => b \/ \E k \in Slots : sl[k] # Idle
  /\ st = "fork" => Fresh(nx, sl, a)
ProcInv == \A p \in Procs : ProcOK(ntloss, fate, nxm[p], slot[p], at[p], pc[p], ini[p])

ForkInv == \A w \in tofork : pc[w] = "none" /\ Fresh(nxm[w], slot[w], at[w])

\* A process that is over tracks nothing and has seen its windows taken, if it
\* has run; the parent has.
OverOK(g, nx, sl, st, own) ==
  st \in {"none", "done"} =>
    /\ \A k \in Slots : sl[k] = Idle
    /\ (\A i \in Rows : RowTaken(g, nx, i)) \/ (~ own /\ \A i \in Rows : nx[i] = NCols + 1)
OverInv == \A p \in Procs : OverOK(ntloss, nxm[p], slot[p], pc[p], p = Parent)

\* What the grid says of a cell is possible there, or the cell is being tracked.
Tracked(sl, i, c) == \E k \in Slots : sl[k] # Idle /\ sl[k].row = i /\ sl[k].col = c
LossInv ==
  \A i \in Rows, c \in Cols :
    /\ ntloss[i][c] < NTurn => ntloss[i][c] \in fate[i][c]
    /\ ntloss[i][c] = NTurn => NTurn \in fate[i][c] \/ \E p \in Procs : Tracked(slot[p], i, c)

\* A process for which the loss at i, c is in the window, and that has seen it
\* or will look there.
SeenBy(nx, a, st, i, c) ==
  /\ c >= nx[i] - NCons
  /\ \/ nx[i] <= c \/ st = "turn"
     \/ st \in {"scan", "take"} /\ (a.i < i \/ (a.i = i /\ a.j >= c))
SeenInv ==
  \A i \in Rows, c \in Cols : ntloss[i][c] < NTurn =>
    \E p \in Procs : SeenBy(nxm[p], at[p], pc[p], i, c)

\* NCons cells below b that are never lost: no process looks below them.
Clear(fa, i, b) == \A c \in Cols : b - NCons <= c /\ c < b => \A f \in fa[i][c] : f = NTurn
ClearInv ==
  \A i \in Rows, b \in 1..(NCols + 1) : Clear(fate, i, b) =>
    /\ \A p \in Procs : nxm[p][i] >= b
    /\ \A c \in Cols : Taken(ntloss, i, c) => c >= b - NCons

Children == {w \in Workers : pc[w] # "none"}
WaitInv ==
  /\ awaited + Cardinality(tofork) <= Cardinality(Workers)
  /\ upset = {} => Cardinality(Children) <= awaited

IInv ==
  /\ Typed /\ ProcInv /\ ForkInv /\ LossInv /\ ClearInv /\ WaitInv
  /\ upset = {} => OverInv /\ SeenInv

-----------------------------------------------------------------------------
(* The parts of the state.                                                 *)

LEMMA SizeFacts ==
  /\ NRows \in Nat /\ NRows >= 1 /\ NCols \in Nat /\ NCols >= 1 /\ NCons \in Nat /\ NCons >= 1
  /\ NSlots \in Nat /\ NSlots >= 1 /\ NTurn \in Nat /\ NTurn >= 1 /\ NW \in Nat /\ NW >= 1
  /\ MaxTurn \in Nat /\ MaxTurn > NTurn /\ MaxTurn \notin Turns
  /\ 1 \in Rows /\ 1 \in Slots
  /\ \A i \in Rows : i \in Int /\ i >= 1 /\ i <= NRows
  /\ \A c \in Cols : c \in Int /\ c >= 1 /\ c <= NCols
  /\ \A k \in Slots : k \in Int /\ k >= 1 /\ k <= NSlots
  /\ \A v \in Turns : v \in Int /\ v >= 0 /\ v <= NTurn
BY SizeAssumption DEF Rows, Cols, Slots, Turns

LEMMA CellFacts ==
  /\ Idle \notin Cell
  /\ \A s \in Cell : /\ s.row \in Rows /\ s.col \in Cols /\ s.life \in Turns
                     /\ s.mturn \in Int /\ 0 <= s.mturn /\ s.mturn < NTurn
  /\ \A f \in Fates : f \subseteq Turns
BY SizeFacts, FatesAssumption DEF Idle, Cell, Rows, Turns

LEMMA ProcFacts ==
  ASSUME Typed, NEW p \in Procs
  PROVE  /\ nxm[p] \in Bounds /\ slot[p] \in Tracks /\ at[p] \in Looks
         /\ ini[p] \in BOOLEAN /\ iw[p] \in 1..NW /\ p \in Procs \cup Strangers
         /\ at[p].k \in 1..(NSlots + 1) /\ at[p].i \in Rows /\ at[p].j \in 0..NCols
         /\ \A i \in Rows : nxm[p][i] \in 1..(NCols + 1)
         /\ \A k \in Slots : slot[p][k] \in Cell \cup {Idle}
         /\ Busy(p) = {k \in Slots : slot[p][k] # Idle}
BY DEF Typed, Bounds, Tracks, Looks, Busy

LEMMA GridFacts ==
  ASSUME NEW g \in Grids, NEW i \in Rows, NEW c \in Cols
  PROVE  /\ g[i][c] \in Turns \cup {MaxTurn} /\ g[i][c] \in Int
         /\ (Taken(g, i, c) <=> g[i][c] <= NTurn) /\ (g[i][c] < NTurn => Taken(g, i, c))
<1>1. g[i][c] \in Turns \cup {MaxTurn}
  BY DEF Grids
<1> QED  BY <1>1, SizeFacts DEF Taken

\* What was seen taken stays so.
LEMMA ProcGrows ==
  ASSUME NEW g, NEW h, Grows(g, h), NEW fa, NEW nx \in Bounds, NEW sl \in Tracks, NEW a \in Looks,
         NEW st, NEW b
  PROVE  /\ ProcOK(g, fa, nx, sl, a, st, b) => ProcOK(h, fa, nx, sl, a, st, b)
         /\ \A own : OverOK(g, nx, sl, st, own) => OverOK(h, nx, sl, st, own)
<1>1. \A i \in Rows : RowTaken(g, nx, i) => RowTaken(h, nx, i)
  BY DEF RowTaken, Grows
<1>2. ASSUME NEW k \in Slots PROVE SlotOK(g, fa, nx, sl[k]) => SlotOK(h, fa, nx, sl[k])
  <2>1. sl[k] # Idle => sl[k].row \in Rows /\ sl[k].col \in Cols
    BY CellFacts DEF Tracks
  <2> QED  BY <2>1 DEF SlotOK, Grows
<1>3. LookOK(g, nx, sl, a) => LookOK(h, nx, sl, a)
  BY <1>1 DEF LookOK, Looks, Grows
<1>4. ProcOK(g, fa, nx, sl, a, st, b) => ProcOK(h, fa, nx, sl, a, st, b)
  BY <1>2, <1>3 DEF ProcOK, Grows
<1>5. \A own : OverOK(g, nx, sl, st, own) => OverOK(h, nx, sl, st, own)
  BY <1>1 DEF OverOK
<1> QED  BY <1>4, <1>5

LEMMA WorkersFinite ==
  /\ IsFiniteSet(Workers) /\ Cardinality(Workers) \in Nat
  /\ \A S \in SUBSET Workers : IsFiniteSet(S) /\ Cardinality(S) \in Nat
BY ProcsAssumption, FS_Subset, FS_CardinalityType

-----------------------------------------------------------------------------
(* A step of one process.                                                  *)

Moves(p, nx, sl, a, st, b) ==
  /\ nxm' = [nxm EXCEPT ![p] = nx] /\ slot' = [slot EXCEPT ![p] = sl]
  /\ at' = [at EXCEPT ![p] = a] /\ pc' = [pc EXCEPT ![p] = st]
  /\ ini' = [ini EXCEPT ![p] = b]

LEMMA MoveFacts ==
  ASSUME Typed, NEW p \in Procs, NEW nx, NEW sl, NEW a, NEW st, NEW b,
         Moves(p, nx, sl, a, st, b)
  PROVE  /\ nxm'[p] = nx /\ slot'[p] = sl /\ at'[p] = a /\ pc'[p] = st /\ ini'[p] = b
         /\ \A q \in Procs : q # p => /\ nxm'[q] = nxm[q] /\ slot'[q] = slot[q] /\ at'[q] = at[q]
                                      /\ ini'[q] = ini[q]
         /\ \A q \in Procs \cup Strangers : q # p => pc'[q] = pc[q]
BY DEF Typed, Moves

LEMMA MoveTyped ==
  ASSUME Typed, NEW p \in Procs, pc[p] \in {"scan", "take", "turn"},
         NEW nx \in Bounds, NEW sl \in Tracks, NEW a \in Looks,
         NEW st \in {"scan", "take", "turn", "done"}, NEW b \in BOOLEAN,
         Moves(p, nx, sl, a, st, b), ntloss' \in Grids, iw' \in [Procs -> 1..NW],
         UNCHANGED <<fate, tofork, awaited, upset>>
  PROVE  Typed'
<1>1. /\ nxm' \in [Procs -> Bounds] /\ slot' \in [Procs -> Tracks] /\ at' \in [Procs -> Looks]
  BY DEF Typed, Moves
<1>2. ini' \in [Procs -> BOOLEAN]
  BY DEF Typed, Moves
<1>3. pc' \in [Procs \cup Strangers -> States]
  BY DEF Typed, Moves, States
<1>4. /\ \A w \in Workers : pc'[w] \in {"none", "scan", "take", "turn", "done"}
      /\ pc'[Parent] \in {"fork", "scan", "take", "turn", "done"}
  <2>1. /\ \A w \in Workers : w \in Procs \cup Strangers
        /\ Parent \in Procs \cup Strangers
    BY DEF Procs
  <2>2. pc'[p] = st /\ \A q \in Procs \cup Strangers : q # p => pc'[q] = pc[q]
    BY MoveFacts
  <2>3. /\ \A w \in Workers : pc[w] \in {"none", "scan", "take", "turn", "done"}
        /\ pc[Parent] \in {"fork", "scan", "take", "turn", "done"}
    BY DEF Typed
  <2> QED  BY <2>1, <2>2, <2>3
<1> QED  BY <1>1, <1>2, <1>3, <1>4 DEF Typed

LEMMA MoveInv ==
  ASSUME IInv, NEW p \in Procs, pc[p] \in {"scan", "take", "turn"},
         NEW nx \in Bounds, NEW sl \in Tracks, NEW a \in Looks,
         NEW st \in {"scan", "take", "turn", "done"}, NEW b \in BOOLEAN,
         Moves(p, nx, sl, a, st, b), ntloss' \in Grids, iw' \in [Procs -> 1..NW],
         UNCHANGED <<fate, tofork, awaited, upset>>,
         Grows(ntloss, ntloss'),
         ProcOK(ntloss', fate, nx, sl, a, st, b),
         OverOK(ntloss', nx, sl, st, p = Parent),
         LossInv',
         \A i \in Rows, c \in Cols : ntloss'[i][c] < NTurn =>
           \/ SeenBy(nx, a, st, i, c)
           \/ ntloss[i][c] < NTurn /\ ~ SeenBy(nxm[p], at[p], pc[p], i, c),
         \A i \in Rows, d \in 1..(NCols + 1) : Clear(fate, i, d) =>
           nx[i] >= d /\ \A c \in Cols : Taken(ntloss', i, c) => c >= d - NCons
  PROVE  IInv'
<1>1. Typed /\ Typed'
  BY MoveTyped DEF IInv
<1>2. /\ nxm'[p] = nx /\ slot'[p] = sl /\ at'[p] = a /\ pc'[p] = st /\ ini'[p] = b
      /\ \A q \in Procs : q # p => /\ nxm'[q] = nxm[q] /\ slot'[q] = slot[q] /\ at'[q] = at[q]
                                   /\ ini'[q] = ini[q]
      /\ \A q \in Procs \cup Strangers : q # p => pc'[q] = pc[q]
  BY <1>1, MoveFacts
<1>3. \A q \in Procs : q \in Procs \cup Strangers /\ nxm[q] \in Bounds /\ slot[q] \in Tracks /\ at[q] \in Looks
  BY <1>1, ProcFacts
<1>4. ProcInv'
  <2> SUFFICES ASSUME NEW q \in Procs
               PROVE  ProcOK(ntloss', fate, nxm'[q], slot'[q], at'[q], pc'[q], ini'[q])
    BY DEF ProcInv
  <2>1. CASE q = p
    BY <1>2, <2>1
  <2>2. CASE q # p
    <3>1. ProcOK(ntloss, fate, nxm[q], slot[q], at[q], pc[q], ini[q])
      BY DEF IInv, ProcInv
    <3>2. ProcOK(ntloss', fate, nxm[q], slot[q], at[q], pc[q], ini[q])
      BY <1>3, <3>1, ProcGrows
    <3> QED  BY <1>2, <1>3, <2>2, <3>2
  <2> QED  BY <2>1, <2>2
<1>5. ForkInv'
  <2>1. \A w \in tofork : w \in Procs /\ w \in Procs \cup Strangers /\ w # p
    BY <1>1 DEF IInv, ForkInv, Typed, Procs
  <2> QED  BY <1>2, <2>1 DEF IInv, ForkInv
<1>6. ClearInv'
  <2> SUFFICES ASSUME NEW i \in Rows, NEW d \in 1..(NCols + 1), Clear(fate, i, d)
               PROVE  /\ \A q \in Procs : nxm'[q][i] >= d
                      /\ \A c \in Cols : Taken(ntloss', i, c) => c >= d - NCons
    BY DEF ClearInv
  <2>1. \A q \in Procs : nxm[q][i] >= d
    BY DEF IInv, ClearInv
  <2> QED  BY <1>2, <2>1
<1>7. WaitInv'
  <2>1. Children' = Children
    <3>1. \A w \in Workers : w \in Procs \cup Strangers /\ (pc'[w] # "none" <=> pc[w] # "none")
      BY <1>2 DEF Procs
    <3> QED  BY <3>1 DEF Children
  <2> QED  BY <2>1 DEF IInv, WaitInv
<1>8. upset' = {} => OverInv'
  <2> SUFFICES ASSUME upset = {}, NEW q \in Procs
               PROVE  OverOK(ntloss', nxm'[q], slot'[q], pc'[q], q = Parent)
    BY DEF OverInv
  <2>1. CASE q = p
    BY <1>2, <2>1
  <2>2. CASE q # p
    <3>1. OverOK(ntloss, nxm[q], slot[q], pc[q], q = Parent)
      BY DEF IInv, OverInv
    <3>2. OverOK(ntloss', nxm[q], slot[q], pc[q], q = Parent)
      BY <1>3, <3>1, ProcGrows
    <3> QED  BY <1>2, <1>3, <2>2, <3>2
  <2> QED  BY <2>1, <2>2
<1>9. upset' = {} => SeenInv'
  <2> SUFFICES ASSUME upset = {}, NEW i \in Rows, NEW c \in Cols, ntloss'[i][c] < NTurn
               PROVE  \E q \in Procs : SeenBy(nxm'[q], at'[q], pc'[q], i, c)
    BY DEF SeenInv
  <2>1. CASE SeenBy(nx, a, st, i, c)
    BY <1>2, <2>1
  <2>2. CASE ntloss[i][c] < NTurn /\ ~ SeenBy(nxm[p], at[p], pc[p], i, c)
    <3>1. PICK q \in Procs : SeenBy(nxm[q], at[q], pc[q], i, c)
      BY <2>2 DEF IInv, SeenInv
    <3>2. q # p
      BY <2>2, <3>1
    <3> QED  BY <1>2, <1>3, <3>1, <3>2
  <2> QED  BY <2>1, <2>2
<1> QED  BY <1>1, <1>4, <1>5, <1>6, <1>7, <1>8, <1>9 DEF IInv

LEMMA StillMoves ==
  ASSUME Typed, NEW p \in Procs
  PROVE  /\ nxm = [nxm EXCEPT ![p] = nxm[p]] /\ slot = [slot EXCEPT ![p] = slot[p]]
         /\ at = [at EXCEPT ![p] = at[p]] /\ pc = [pc EXCEPT ![p] = pc[p]]
         /\ ini = [ini EXCEPT ![p] = ini[p]]
BY DEF Typed

\* A step that does not write to the grid.  A bound is only set to a loss seen
\* in the window.
LEMMA QuietMove ==
  ASSUME IInv, NEW p \in Procs, pc[p] \in {"scan", "take", "turn"},
         NEW nx \in Bounds, NEW sl \in Tracks, NEW a \in Looks,
         NEW st \in {"scan", "take", "turn", "done"}, NEW b \in BOOLEAN,
         Moves(p, nx, sl, a, st, b), iw' \in [Procs -> 1..NW],
         UNCHANGED <<ntloss, fate, tofork, awaited, upset>>,
         ProcOK(ntloss, fate, nx, sl, a, st, b),
         OverOK(ntloss, nx, sl, st, p = Parent),
         \A i \in Rows, c \in Cols : Tracked(slot[p], i, c) => Tracked(sl, i, c),
         \A i \in Rows, c \in Cols : ntloss[i][c] < NTurn /\ SeenBy(nxm[p], at[p], pc[p], i, c) =>
           SeenBy(nx, a, st, i, c),
         \A i \in Rows : nx[i] # nxm[p][i] =>
           nx[i] \in Cols /\ nx[i] >= nxm[p][i] - NCons /\ ntloss[i][nx[i]] < NTurn
  PROVE  IInv'
<1>1. Typed /\ ntloss' \in Grids /\ Grows(ntloss, ntloss')
  BY DEF IInv, Typed, Grows
<1>2. LossInv'
  <2>1. \A q \in Procs : \A i \in Rows, c \in Cols : Tracked(slot[q], i, c) => Tracked(slot'[q], i, c)
    BY <1>1, MoveFacts
  <2> QED  BY <2>1 DEF IInv, LossInv
<1>3. ASSUME NEW i \in Rows, NEW d \in 1..(NCols + 1), Clear(fate, i, d)
      PROVE  nx[i] >= d /\ \A c \in Cols : Taken(ntloss, i, c) => c >= d - NCons
  <2>1. nxm[p][i] >= d /\ \A c \in Cols : Taken(ntloss, i, c) => c >= d - NCons
    BY <1>3 DEF IInv, ClearInv
  <2>2. CASE nx[i] # nxm[p][i]
    <3>1. nx[i] \in Cols /\ nx[i] >= nxm[p][i] - NCons /\ ntloss[i][nx[i]] < NTurn
      BY <2>2
    <3>2. ntloss[i][nx[i]] \in fate[i][nx[i]] /\ ntloss[i][nx[i]] # NTurn
      BY <3>1, SizeFacts DEF IInv, LossInv
    <3>3. ~ (d - NCons <= nx[i] /\ nx[i] < d)
      BY <1>3, <3>1, <3>2 DEF Clear
    <3>4. nxm[p][i] \in Int /\ nx[i] \in Int
      BY <1>1, <3>1, ProcFacts, SizeFacts
    <3> QED  BY <2>1, <3>1, <3>3, <3>4, SizeFacts
  <2> QED  BY <2>1, <2>2
<1> QED  BY <1>1, <1>2, <1>3, MoveInv

\* A process goes on with slot k from the top of the first row.
LEMMA LookFromFacts ==
  ASSUME Typed, NEW p \in Procs, NEW k \in 1..(NSlots + 1), LookFrom(p, k), NEW g, NEW sl,
         \A i \in Rows, c \in Cols : c >= nxm[p][i] => Taken(g, i, c),
         \A l \in Slots : l < k => sl[l] # Idle
  PROVE  \E a \in Looks :
           /\ at' = [at EXCEPT ![p] = a]
           /\ LookOK(g, nxm[p], sl, a)
           /\ \A i \in Rows, c \in Cols : c < nxm[p][i] => a.i < i \/ (a.i = i /\ a.j >= c)
<1> DEFINE a == [k |-> k, i |-> 1, j |-> nxm[p][1] - 1]
<1>1. at' = [at EXCEPT ![p] = a]
  BY DEF LookFrom
<1>2. nxm[p][1] \in 1..(NCols + 1) /\ 1 \in Rows
  BY ProcFacts, SizeFacts
<1>3. a \in Looks /\ a.k = k /\ a.i = 1 /\ a.j = nxm[p][1] - 1
  BY <1>2, SizeFacts DEF Looks
<1> HIDE DEF a
<1>4. LookOK(g, nxm[p], sl, a)
  <2>1. a.j < nxm[p][a.i] /\ \A l \in Slots : l < a.k => sl[l] # Idle
    BY <1>2, <1>3
  <2>2. \A c \in Cols : c > a.j => Taken(g, a.i, c)
    <3>1. \A c \in Cols : c > nxm[p][1] - 1 => c >= nxm[p][1]
      BY <1>2, SizeFacts
    <3> QED  BY <1>2, <1>3, <3>1
  <2>3. \A i \in Rows : ~ (i < a.i)
    BY <1>3, SizeFacts
  <2> QED  BY <2>1, <2>2, <2>3 DEF LookOK
<1>5. \A i \in Rows, c \in Cols : c < nxm[p][i] => a.i < i \/ (a.i = i /\ a.j >= c)
  <2> SUFFICES ASSUME NEW i \in Rows, NEW c \in Cols, c < nxm[p][i]
               PROVE  a.i < i \/ (a.i = i /\ a.j >= c)
    OBVIOUS
  <2>1. CASE i = 1
    BY <1>2, <1>3, <2>1, SizeFacts
  <2>2. CASE i # 1
    BY <1>3, <2>2, SizeFacts
  <2> QED  BY <2>1, <2>2
<1> QED  BY <1>1, <1>3, <1>4, <1>5

\* What a process has seen of a loss does not depend on where it looks, if it
\* looks again at what is above its bound.
LEMMA SeenStays ==
  ASSUME NEW nx \in Bounds, NEW a, NEW b, NEW st, NEW i \in Rows, NEW c \in Cols,
         SeenBy(nx, a, st, i, c),
         c < nx[i] => b.i < i \/ (b.i = i /\ b.j >= c)
  PROVE  SeenBy(nx, b, "scan", i, c)
<1>1. nx[i] \in Int /\ c \in Int
  BY SizeFacts DEF Bounds
<1> QED  BY <1>1 DEF SeenBy

\* A process looks for work, again or with the next slot.
LEMMA LookStep ==
  ASSUME IInv, NEW p \in Procs, pc[p] \in {"scan", "turn"}, NEW k \in 1..(NSlots + 1), LookFrom(p, k),
         \A l \in Slots : l < k => slot[p][l] # Idle,
         pc' = [pc EXCEPT ![p] = "scan"], iw' \in [Procs -> 1..NW], OnlyLocal,
         UNCHANGED <<nxm, slot, ini>>
  PROVE  IInv'
<1>1. Typed /\ nxm[p] \in Bounds /\ slot[p] \in Tracks /\ ini[p] \in BOOLEAN
  BY ProcFacts DEF IInv
<1>2. ProcOK(ntloss, fate, nxm[p], slot[p], at[p], pc[p], ini[p])
  BY DEF IInv, ProcInv
<1>3. PICK a \in Looks :
        /\ at' = [at EXCEPT ![p] = a]
        /\ LookOK(ntloss, nxm[p], slot[p], a)
        /\ \A i \in Rows, c \in Cols : c < nxm[p][i] => a.i < i \/ (a.i = i /\ a.j >= c)
  <2>1. \A i \in Rows, c \in Cols : c >= nxm[p][i] => Taken(ntloss, i, c)
    BY <1>2 DEF ProcOK
  <2>2. \A l \in Slots : l < k => slot[p][l] # Idle
    OBVIOUS
  <2> HIDE DEF OnlyLocal
  <2> QED  BY ONLY p \in Procs, k \in 1..(NSlots + 1), LookFrom(p, k), <1>1, <2>1, <2>2, LookFromFacts
<1>4. Moves(p, nxm[p], slot[p], a, "scan", ini[p])
  BY <1>1, <1>3, StillMoves DEF Moves
<1>5. ProcOK(ntloss, fate, nxm[p], slot[p], a, "scan", ini[p])
  BY <1>2, <1>3 DEF ProcOK
<1>6. OverOK(ntloss, nxm[p], slot[p], "scan", p = Parent)
  BY DEF OverOK
<1>7. \A i \in Rows, c \in Cols : SeenBy(nxm[p], at[p], pc[p], i, c) => SeenBy(nxm[p], a, "scan", i, c)
  BY <1>1, <1>3, SeenStays
<1> QED  BY <1>1, <1>3, <1>4, <1>5, <1>6, <1>7, QuietMove DEF OnlyLocal

\* A process tracks what it has launched, or is over.
LEMMA TrackStep ==
  ASSUME IInv, NEW p \in Procs, pc[p] = "scan", Track(p), OnlyLocal,
         \/ Busy(p) # {}
         \/ /\ \A i \in Rows : RowTaken(ntloss, nxm[p], i)
            /\ \A i \in Rows, c \in Cols : SeenBy(nxm[p], at[p], "scan", i, c) => nxm[p][i] <= c
  PROVE  IInv'
<1> DEFINE a == [at[p] EXCEPT !.k = 1]
           st == IF Busy(p) = {} THEN "done" ELSE "turn"
<1>1. Typed /\ nxm[p] \in Bounds /\ slot[p] \in Tracks /\ at[p] \in Looks
  BY ProcFacts DEF IInv
<1>2. ProcOK(ntloss, fate, nxm[p], slot[p], at[p], pc[p], ini[p])
  BY DEF IInv, ProcInv
<1>3. a \in Looks /\ st \in {"scan", "take", "turn", "done"} /\ iw' \in [Procs -> 1..NW]
  <2>1. a \in Looks
    BY <1>1, SizeFacts DEF Looks
  <2>2. iw' \in [Procs -> 1..NW]
    BY <1>1 DEF Typed, Track
  <2> QED  BY <2>1, <2>2
<1>4. Moves(p, nxm[p], slot[p], a, st, FALSE)
  BY <1>1, StillMoves DEF Moves, Track
<1>5. Busy(p) = {k \in Slots : slot[p][k] # Idle}
  BY DEF Busy
<1>6. ProcOK(ntloss, fate, nxm[p], slot[p], a, st, FALSE)
  BY <1>2, <1>5 DEF ProcOK
<1>7. OverOK(ntloss, nxm[p], slot[p], st, p = Parent)
  BY <1>5 DEF OverOK
<1>8. \A i \in Rows, c \in Cols : SeenBy(nxm[p], at[p], pc[p], i, c) => SeenBy(nxm[p], a, st, i, c)
  <2>1. CASE Busy(p) # {}
    BY <2>1 DEF SeenBy
  <2>2. CASE \A i \in Rows, c \in Cols : SeenBy(nxm[p], at[p], "scan", i, c) => nxm[p][i] <= c
    BY <2>2 DEF SeenBy
  <2> QED  BY <2>1, <2>2
<1> HIDE DEF a, st
<1> QED  BY <1>1, <1>3, <1>4, <1>6, <1>7, <1>8, QuietMove DEF OnlyLocal

-----------------------------------------------------------------------------
(* The steps of a search.                                                  *)

LEMMA SkipSlotStep ==
  ASSUME IInv, NEW p \in Procs, SkipSlot(p)
  PROVE  IInv'
<1>1. Typed /\ pc[p] = "scan" /\ OnlyLocal
  BY DEF IInv, SkipSlot
<1>2. Busy(p) = {k \in Slots : slot[p][k] # Idle} /\ at[p].k \in 1..(NSlots + 1) /\ iw \in [Procs -> 1..NW]
  BY <1>1, ProcFacts DEF Typed
<1>3. \A k \in Slots : k < at[p].k => slot[p][k] # Idle
  BY <1>1 DEF IInv, ProcInv, ProcOK, LookOK
<1>4. CASE at[p].k \in Busy(p) /\ LookFrom(p, at[p].k + 1) /\ UNCHANGED <<nxm, slot, pc, ini, iw>>
  <2>1. at[p].k \in Slots /\ at[p].k + 1 \in 1..(NSlots + 1) /\ slot[p][at[p].k] # Idle
    BY <1>2, <1>4, SizeFacts DEF Slots
  <2>2. \A k \in Slots : k < at[p].k + 1 => slot[p][k] # Idle
    <3>1. \A k \in Slots : k < at[p].k + 1 => k < at[p].k \/ k = at[p].k
      BY <2>1, SizeFacts
    <3> QED  BY <1>3, <2>1, <3>1
  <2>3. pc' = [pc EXCEPT ![p] = "scan"]
    BY <1>1, <1>4, StillMoves
  <2> QED  BY <1>1, <1>2, <1>4, <2>1, <2>2, <2>3, LookStep
<1>5. CASE at[p].k > NSlots /\ Track(p)
  <2>1. 1 \in Busy(p)
    BY <1>2, <1>3, <1>5, SizeFacts
  <2> QED  BY <1>1, <1>5, <2>1, TrackStep
<1> QED  BY <1>4, <1>5 DEF SkipSlot

LEMMA RowDoneStep ==
  ASSUME IInv, NEW p \in Procs, RowDone(p)
  PROVE  IInv'
<1>1. /\ Typed /\ pc[p] = "scan" /\ OnlyLocal /\ ~ InWindow(p)
      /\ ProcOK(ntloss, fate, nxm[p], slot[p], at[p], pc[p], ini[p])
      /\ LookOK(ntloss, nxm[p], slot[p], at[p])
  BY DEF IInv, RowDone, Scanning, ProcInv, ProcOK
<1>2. /\ nxm[p] \in Bounds /\ slot[p] \in Tracks /\ at[p] \in Looks /\ ini[p] \in BOOLEAN
      /\ at[p].i \in Rows /\ at[p].j \in 0..NCols /\ \A i \in Rows : nxm[p][i] \in 1..(NCols + 1)
  BY <1>1, ProcFacts
<1>3. \A c \in Cols : at[p].j >= c => ~ c >= nxm[p][at[p].i] - NCons
  BY <1>1, <1>2, SizeFacts DEF InWindow
<1>4. RowTaken(ntloss, nxm[p], at[p].i)
  <2>1. \A c \in Cols : c >= nxm[p][at[p].i] - NCons => c > at[p].j
    BY <1>2, <1>3, SizeFacts
  <2> QED  BY <1>1, <2>1 DEF RowTaken, LookOK
<1>5. \A i \in Rows : i < at[p].i + 1 => RowTaken(ntloss, nxm[p], i)
  <2>1. \A i \in Rows : i < at[p].i + 1 => i < at[p].i \/ i = at[p].i
    BY <1>2, SizeFacts
  <2> QED  BY <1>1, <1>4, <2>1 DEF LookOK
<1>6. \A i \in Rows, c \in Cols : SeenBy(nxm[p], at[p], "scan", i, c) => nxm[p][i] <= c \/ at[p].i < i
  BY <1>3 DEF SeenBy
<1>7. CASE /\ at[p].i < NRows
           /\ at' = [at EXCEPT ![p].i = @ + 1, ![p].j = nxm[p][at[p].i + 1] - 1]
           /\ UNCHANGED <<nxm, slot, pc, ini, iw>>
  <2> DEFINE a == [at[p] EXCEPT !.i = at[p].i + 1, !.j = nxm[p][at[p].i + 1] - 1]
  <2>1. at' = [at EXCEPT ![p] = a]
    BY <1>1, <1>7 DEF Typed
  <2>2. at[p].i + 1 \in Rows /\ nxm[p][at[p].i + 1] \in 1..(NCols + 1)
    <3>1. at[p].i + 1 \in Rows
      BY <1>2, <1>7, SizeFacts DEF Rows
    <3> QED  BY <1>2, <3>1
  <2>3. a \in Looks /\ a.i = at[p].i + 1 /\ a.j = nxm[p][at[p].i + 1] - 1 /\ a.k = at[p].k
    <3>1. nxm[p][at[p].i + 1] - 1 \in 0..NCols
      BY <2>2, SizeFacts
    <3> QED  BY <1>2, <2>2, <3>1 DEF Looks
  <2> HIDE DEF a
  <2>4. LookOK(ntloss, nxm[p], slot[p], a)
    <3>1. a.j < nxm[p][a.i] /\ \A k \in Slots : k < a.k => slot[p][k] # Idle
      BY <1>1, <2>2, <2>3 DEF LookOK
    <3>2. \A c \in Cols : c > a.j => Taken(ntloss, a.i, c)
      <4>1. \A c \in Cols : c > a.j => c >= nxm[p][a.i]
        BY <2>2, <2>3, SizeFacts
      <4> QED  BY <1>1, <2>2, <2>3, <4>1 DEF ProcOK
    <3> QED  BY <1>5, <2>3, <3>1, <3>2 DEF LookOK
  <2>5. Moves(p, nxm[p], slot[p], a, "scan", ini[p]) /\ iw' \in [Procs -> 1..NW]
    BY <1>1, <1>7, <2>1, StillMoves DEF Moves, Typed
  <2>6. ProcOK(ntloss, fate, nxm[p], slot[p], a, "scan", ini[p])
    BY <1>1, <2>4 DEF ProcOK
  <2>7. OverOK(ntloss, nxm[p], slot[p], "scan", p = Parent)
    BY DEF OverOK
  <2>8. ASSUME NEW i \in Rows, NEW c \in Cols, SeenBy(nxm[p], at[p], pc[p], i, c)
        PROVE  SeenBy(nxm[p], a, "scan", i, c)
    <3>1. nxm[p][i] \in Int /\ (c < nxm[p][i] => at[p].i < i)
      BY <1>1, <1>2, <1>6, <2>8, SizeFacts
    <3>2. c < nxm[p][i] => a.i < i \/ (a.i = i /\ a.j >= c)
      BY <1>2, <2>2, <2>3, <3>1, SizeFacts
    <3> QED  BY <1>2, <2>8, <3>2, SeenStays
  <2> QED  BY <1>1, <1>2, <2>3, <2>5, <2>6, <2>7, <2>8, QuietMove DEF OnlyLocal
<1>8. CASE at[p].i = NRows /\ Track(p)
  <2>1. \A i \in Rows : RowTaken(ntloss, nxm[p], i)
    BY <1>5, <1>8, SizeFacts
  <2>2. \A i \in Rows, c \in Cols : SeenBy(nxm[p], at[p], "scan", i, c) => nxm[p][i] <= c
    BY <1>6, <1>8, SizeFacts
  <2> QED  BY <1>1, <1>8, <2>1, <2>2, TrackStep
<1> QED  BY <1>7, <1>8 DEF RowDone

LEMMA ReadStep ==
  ASSUME IInv, NEW p \in Procs, Look(p)
  PROVE  IInv'
<1> DEFINE i == at[p].i
           j == at[p].j
<1>1. /\ Typed /\ pc[p] = "scan" /\ OnlyLocal /\ InWindow(p) /\ at[p].k \in Slots \ Busy(p)
      /\ ProcOK(ntloss, fate, nxm[p], slot[p], at[p], pc[p], ini[p])
      /\ LookOK(ntloss, nxm[p], slot[p], at[p])
      /\ UNCHANGED <<slot, ini, iw>>
  BY DEF IInv, Look, Scanning, ProcInv, ProcOK
<1>2. /\ nxm[p] \in Bounds /\ slot[p] \in Tracks /\ at[p] \in Looks /\ ini[p] \in BOOLEAN
      /\ i \in Rows /\ j \in 0..NCols /\ \A l \in Rows : nxm[p][l] \in 1..(NCols + 1)
  BY <1>1, ProcFacts
<1>3. j \in Cols /\ j >= nxm[p][i] - NCons /\ j < nxm[p][i] /\ nxm[p][i] \in Int
  BY <1>1, <1>2, SizeFacts DEF InWindow, LookOK, Cols
<1>4. iw' \in [Procs -> 1..NW] /\ ntloss \in Grids
  BY <1>1 DEF Typed
<1>5. /\ slot' = [slot EXCEPT ![p] = slot[p]] /\ ini' = [ini EXCEPT ![p] = ini[p]]
      /\ (UNCHANGED nxm => nxm' = [nxm EXCEPT ![p] = nxm[p]])
      /\ (UNCHANGED pc => pc' = [pc EXCEPT ![p] = "scan"])
      /\ (UNCHANGED at => at' = [at EXCEPT ![p] = at[p]])
  BY <1>1, StillMoves
<1>6. OverOK(ntloss, nxm[p], slot[p], "take", p = Parent)
  BY DEF OverOK
<1> DEFINE a == [at[p] EXCEPT !.j = j - 1]
<1>7. a \in Looks /\ a.i = i /\ a.j = j - 1 /\ a.k = at[p].k
  <2>1. j - 1 \in 0..NCols
    BY <1>3, SizeFacts
  <2> QED  BY <1>2, <2>1 DEF Looks
<1>8. at' = [at EXCEPT ![p].j = j - 1] => at' = [at EXCEPT ![p] = a]
  BY <1>1 DEF Typed
<1>9. ntloss[i][j] # MaxTurn => \A c \in Cols : c > a.j => Taken(ntloss, a.i, c)
  <2> SUFFICES ASSUME ntloss[i][j] # MaxTurn, NEW c \in Cols, c > j - 1
               PROVE  Taken(ntloss, i, c)
    BY <1>7
  <2>1. c > j \/ c = j
    BY <1>3, SizeFacts
  <2> QED  BY <1>1, <2>1 DEF LookOK, Taken
<1> HIDE DEF a
<1>10. CASE /\ ntloss[i][j] < NTurn
            /\ nxm' = [nxm EXCEPT ![p][i] = j]
            /\ at' = [at EXCEPT ![p].j = j - 1]
            /\ UNCHANGED pc
  <2> DEFINE nx == [nxm[p] EXCEPT ![i] = j]
  <2>1. nxm' = [nxm EXCEPT ![p] = nx]
    BY <1>1, <1>10 DEF Typed
  <2>2. /\ nx \in Bounds /\ nx[i] = j /\ \A l \in Rows : nx[l] \in Int
        /\ \A l \in Rows : l # i => nx[l] = nxm[p][l]
    <3>1. j \in 1..(NCols + 1)
      BY <1>3, SizeFacts
    <3>2. nx \in Bounds /\ nx[i] = j /\ \A l \in Rows : l # i => nx[l] = nxm[p][l]
      BY <1>2, <3>1 DEF Bounds
    <3> QED  BY <1>2, <1>3, <3>2, SizeFacts
  <2> HIDE DEF nx
  <2>3. Moves(p, nx, slot[p], a, "scan", ini[p])
    BY <1>5, <1>8, <1>10, <2>1 DEF Moves
  <2>4. ntloss[i][j] # MaxTurn
    BY <1>3, <1>10, <1>2, <1>4, GridFacts, SizeFacts
  <2>5. \A l \in Rows, c \in Cols : c >= nx[l] => Taken(ntloss, l, c)
    <3> SUFFICES ASSUME NEW l \in Rows, NEW c \in Cols, c >= nx[l]
                 PROVE  Taken(ntloss, l, c)
      OBVIOUS
    <3>1. CASE l = i
      BY <1>3, <1>7, <1>9, <2>2, <2>4, <3>1, SizeFacts
    <3>2. CASE l # i
      BY <1>1, <2>2, <3>2 DEF ProcOK
    <3> QED  BY <3>1, <3>2
  <2>6. \A l \in Rows : nx[l] <= nxm[p][l]
    BY <1>2, <1>3, <2>2, SizeFacts
  <2>7. \A k \in Slots : SlotOK(ntloss, fate, nx, slot[p][k])
    <3> SUFFICES ASSUME NEW k \in Slots, slot[p][k] # Idle
                 PROVE  SlotOK(ntloss, fate, nx, slot[p][k])
      BY DEF SlotOK
    <3>1. SlotOK(ntloss, fate, nxm[p], slot[p][k])
      BY <1>1 DEF ProcOK
    <3>2. slot[p][k].row \in Rows /\ slot[p][k].col \in Cols
      BY <1>2, CellFacts DEF Tracks
    <3>3. slot[p][k].col >= nx[slot[p][k].row] - NCons
      <4>1. slot[p][k].col >= nxm[p][slot[p][k].row] - NCons
        BY <3>1 DEF SlotOK
      <4> QED  BY <1>2, <2>2, <2>6, <3>2, <4>1, SizeFacts
    <3> QED  BY <3>1, <3>3 DEF SlotOK
  <2>8. LookOK(ntloss, nx, slot[p], a)
    <3>1. a.j < nx[a.i]
      BY <1>3, <1>7, <2>2, SizeFacts
    <3>2. \A l \in Rows : l < a.i => RowTaken(ntloss, nx, l)
      <4>1. \A l \in Rows : l < a.i => l # i
        BY <1>2, <1>7, SizeFacts
      <4> QED  BY <1>1, <1>7, <2>2, <4>1 DEF LookOK, RowTaken
    <3>3. \A k \in Slots : k < a.k => slot[p][k] # Idle
      BY <1>1, <1>7 DEF LookOK
    <3> QED  BY <1>9, <2>4, <3>1, <3>2, <3>3 DEF LookOK
  <2>9. ProcOK(ntloss, fate, nx, slot[p], a, "scan", ini[p])
    BY <2>5, <2>7, <2>8 DEF ProcOK
  <2>10. OverOK(ntloss, nx, slot[p], "scan", p = Parent)
    BY DEF OverOK
  <2>11. ASSUME NEW l \in Rows, NEW c \in Cols, SeenBy(nxm[p], at[p], pc[p], l, c)
         PROVE  SeenBy(nx, a, "scan", l, c)
    <3>1. c >= nx[l] - NCons
      <4>1. c >= nxm[p][l] - NCons
        BY <2>11 DEF SeenBy
      <4> QED  BY <1>2, <2>2, <2>6, <4>1, SizeFacts
    <3>2. CASE nxm[p][l] <= c
      <4>1. nx[l] <= c
        BY <1>2, <2>2, <2>6, <3>2, SizeFacts
      <4> QED  BY <3>1, <4>1 DEF SeenBy
    <3>3. CASE i < l
      BY <1>7, <3>1, <3>3 DEF SeenBy
    <3>4. CASE i = l /\ j >= c
      <4>1. nx[l] <= c \/ a.j >= c
        BY <1>3, <1>7, <2>2, <3>4, SizeFacts
      <4> QED  BY <1>7, <3>1, <3>4, <4>1 DEF SeenBy
    <3> QED  BY <1>1, <2>11, <3>2, <3>3, <3>4 DEF SeenBy
  <2>12. \A l \in Rows : nx[l] # nxm[p][l] =>
           nx[l] \in Cols /\ nx[l] >= nxm[p][l] - NCons /\ ntloss[l][nx[l]] < NTurn
    BY <1>3, <1>10, <2>2
  <2> QED  BY <1>1, <1>2, <1>4, <1>7, <2>2, <2>3, <2>9, <2>10, <2>11, <2>12, QuietMove DEF OnlyLocal
<1>11. CASE /\ ntloss[i][j] = MaxTurn
            /\ pc' = [pc EXCEPT ![p] = "take"]
            /\ UNCHANGED <<nxm, at>>
  <2>1. Moves(p, nxm[p], slot[p], at[p], "take", ini[p])
    BY <1>5, <1>11 DEF Moves
  <2>2. slot[p][at[p].k] = Idle
    BY <1>1 DEF Busy
  <2>3. ProcOK(ntloss, fate, nxm[p], slot[p], at[p], "take", ini[p])
    BY <1>1, <1>3, <2>2, SizeFacts DEF ProcOK
  <2>4. \A l \in Rows, c \in Cols : SeenBy(nxm[p], at[p], pc[p], l, c) => SeenBy(nxm[p], at[p], "take", l, c)
    BY <1>1 DEF SeenBy
  <2> QED  BY <1>1, <1>2, <1>4, <1>6, <2>1, <2>3, <2>4, QuietMove DEF OnlyLocal
<1>12. CASE /\ ntloss[i][j] = NTurn
            /\ at' = [at EXCEPT ![p].j = j - 1]
            /\ UNCHANGED <<nxm, pc>>
  <2>1. Moves(p, nxm[p], slot[p], a, "scan", ini[p])
    BY <1>5, <1>8, <1>12 DEF Moves
  <2>2. LookOK(ntloss, nxm[p], slot[p], a)
    <3>1. ntloss[i][j] # MaxTurn
      BY <1>12, SizeFacts
    <3>2. a.j < nxm[p][a.i]
      BY <1>3, <1>7, SizeFacts
    <3>3. /\ \A k \in Slots : k < a.k => slot[p][k] # Idle
          /\ \A l \in Rows : l < a.i => RowTaken(ntloss, nxm[p], l)
      BY <1>1, <1>7 DEF LookOK
    <3> QED  BY <1>9, <3>1, <3>2, <3>3 DEF LookOK
  <2>3. ProcOK(ntloss, fate, nxm[p], slot[p], a, "scan", ini[p])
    BY <1>1, <2>2 DEF ProcOK
  <2>4. OverOK(ntloss, nxm[p], slot[p], "scan", p = Parent)
    BY DEF OverOK
  <2>5. ASSUME NEW l \in Rows, NEW c \in Cols, ntloss[l][c] < NTurn, SeenBy(nxm[p], at[p], pc[p], l, c)
        PROVE  SeenBy(nxm[p], a, "scan", l, c)
    <3>1. ~ (l = i /\ c = j)
      BY <1>12, <2>5, SizeFacts
    <3>2. CASE i = l /\ j >= c
      <4>1. a.j >= c
        BY <1>3, <1>7, <3>1, <3>2, SizeFacts
      <4> QED  BY <1>7, <2>5, <3>2, <4>1 DEF SeenBy
    <3> QED  BY <1>1, <1>7, <2>5, <3>2 DEF SeenBy
  <2> QED  BY <1>1, <1>2, <1>4, <1>7, <2>1, <2>3, <2>4, <2>5, QuietMove DEF OnlyLocal
<1> QED  BY <1>10, <1>11, <1>12 DEF Look

LEMMA TakeStep ==
  ASSUME IInv, NEW p \in Procs, Take(p)
  PROVE  IInv'
<1> DEFINE i == at[p].i
           j == at[p].j
           k == at[p].k
<1>1. /\ Typed /\ pc[p] = "take" /\ UNCHANGED <<fate, nxm, ini, iw, tofork, awaited, upset>>
      /\ ProcOK(ntloss, fate, nxm[p], slot[p], at[p], pc[p], ini[p])
      /\ LookOK(ntloss, nxm[p], slot[p], at[p])
      /\ k \in Slots /\ slot[p][k] = Idle /\ j >= 1 /\ j >= nxm[p][i] - NCons
      /\ ntloss' = [ntloss EXCEPT ![i][j] = NTurn] /\ pc' = [pc EXCEPT ![p] = "scan"]
      /\ LookFrom(p, k + 1)
  BY DEF IInv, Take, ProcInv, ProcOK
<1>2. /\ nxm[p] \in Bounds /\ slot[p] \in Tracks /\ at[p] \in Looks /\ ini[p] \in BOOLEAN
      /\ i \in Rows /\ j \in 0..NCols /\ \A l \in Rows : nxm[p][l] \in 1..(NCols + 1)
  BY <1>1, ProcFacts
<1>3. j \in Cols
  BY <1>1, <1>2, SizeFacts DEF Cols
<1>4. ntloss \in Grids /\ fate \in [Rows -> [Cols -> Fates]] /\ iw' \in [Procs -> 1..NW]
  BY <1>1 DEF Typed
<1>5. PICK f \in fate[i][j] :
        slot' = [slot EXCEPT ![p][k] = [row |-> i, col |-> j, mturn |-> 0, life |-> f]]
  BY DEF Take
<1> DEFINE s  == [row |-> i, col |-> j, mturn |-> 0, life |-> f]
           sl == [slot[p] EXCEPT ![k] = s]
<1>6. s \in Cell /\ s # Idle /\ s.row = i /\ s.col = j /\ s.mturn = 0 /\ s.life = f /\ f \in Int /\ f >= 0
  <2>1. f \in Turns
    BY <1>2, <1>3, <1>4, CellFacts
  <2>2. s \in Cell
    BY <1>2, <1>3, <2>1, SizeFacts DEF Cell, Turns
  <2>3. s # Idle
    BY <2>2, CellFacts
  <2> QED  BY <2>1, <2>2, <2>3, SizeFacts
<1> HIDE DEF s
<1>7. sl \in Tracks /\ sl[k] = s /\ \A l \in Slots : l # k => sl[l] = slot[p][l]
  BY <1>1, <1>2, <1>6 DEF Tracks
<1>8. slot' = [slot EXCEPT ![p] = sl]
  BY <1>1, <1>5 DEF Typed, s
<1> HIDE DEF sl
<1>9. /\ ntloss' \in Grids /\ ntloss'[i][j] = NTurn
      /\ \A l \in Rows, c \in Cols : ~ (l = i /\ c = j) => ntloss'[l][c] = ntloss[l][c]
  BY <1>1, <1>2, <1>3, <1>4, SizeFacts DEF Grids, Turns
<1>10. Grows(ntloss, ntloss') /\ Taken(ntloss', i, j)
  BY <1>9, SizeFacts DEF Grows, Taken
<1>11. \A l \in Rows, c \in Cols : c >= nxm[p][l] => Taken(ntloss', l, c)
  BY <1>1, <1>10 DEF ProcOK, Grows
<1>12. \A l \in Slots : l < k + 1 => sl[l] # Idle
  <2>1. \A l \in Slots : l < k + 1 => l < k \/ l = k
    BY <1>1, SizeFacts
  <2> QED  BY <1>1, <1>6, <1>7, <2>1 DEF LookOK
<1>13. PICK a \in Looks :
         /\ at' = [at EXCEPT ![p] = a]
         /\ LookOK(ntloss', nxm[p], sl, a)
         /\ \A l \in Rows, c \in Cols : c < nxm[p][l] => a.i < l \/ (a.i = l /\ a.j >= c)
  <2>1. k + 1 \in 1..(NSlots + 1)
    BY <1>1, SizeFacts
  <2>2. Typed /\ LookFrom(p, k + 1)
    BY <1>1
  <2> HIDE DEF k
  <2> QED  BY ONLY p \in Procs, <1>11, <1>12, <2>1, <2>2, LookFromFacts
<1>14. Moves(p, nxm[p], sl, a, "scan", ini[p])
  BY <1>1, <1>8, <1>13, StillMoves DEF Moves
<1>15. \A l \in Slots : SlotOK(ntloss', fate, nxm[p], sl[l])
  <2> SUFFICES ASSUME NEW l \in Slots
               PROVE  SlotOK(ntloss', fate, nxm[p], sl[l])
    OBVIOUS
  <2>1. CASE l = k
    BY <1>1, <1>5, <1>6, <1>7, <1>10, <2>1 DEF SlotOK
  <2>2. CASE l # k
    <3>1. SlotOK(ntloss, fate, nxm[p], slot[p][l])
      BY <1>1 DEF ProcOK
    <3>2. slot[p][l] # Idle => slot[p][l].row \in Rows /\ slot[p][l].col \in Cols
      BY <1>2, CellFacts DEF Tracks
    <3> QED  BY <1>7, <1>10, <2>2, <3>1, <3>2 DEF SlotOK, Grows
  <2> QED  BY <2>1, <2>2
<1>16. ProcOK(ntloss', fate, nxm[p], sl, a, "scan", ini[p])
  BY <1>11, <1>13, <1>15 DEF ProcOK
<1>17. OverOK(ntloss', nxm[p], sl, "scan", p = Parent)
  BY DEF OverOK
<1>18. LossInv'
  <2> SUFFICES ASSUME NEW l \in Rows, NEW c \in Cols
               PROVE  /\ ntloss'[l][c] < NTurn => ntloss'[l][c] \in fate[l][c]
                      /\ ntloss'[l][c] = NTurn =>
                           NTurn \in fate[l][c] \/ \E q \in Procs : Tracked(slot'[q], l, c)
    BY <1>1 DEF LossInv
  <2>1. slot'[p] = sl /\ \A q \in Procs : q # p => slot'[q] = slot[q]
    BY <1>1, <1>14, MoveFacts
  <2>2. CASE l = i /\ c = j
    <3>1. Tracked(slot'[p], l, c)
      BY <1>1, <1>6, <1>7, <2>1, <2>2 DEF Tracked
    <3> QED  BY <1>9, <2>2, <3>1, SizeFacts
  <2>3. CASE ~ (l = i /\ c = j)
    <3>1. \A q \in Procs : Tracked(slot[q], l, c) => Tracked(slot'[q], l, c)
      BY <1>1, <1>7, <2>1 DEF Tracked
    <3> QED  BY <1>9, <2>3, <3>1 DEF IInv, LossInv
  <2> QED  BY <2>2, <2>3
<1>19. ASSUME NEW l \in Rows, NEW c \in Cols, ntloss'[l][c] < NTurn
       PROVE  \/ SeenBy(nxm[p], a, "scan", l, c)
              \/ ntloss[l][c] < NTurn /\ ~ SeenBy(nxm[p], at[p], pc[p], l, c)
  <2>1. ntloss[l][c] < NTurn
    BY <1>9, <1>19, SizeFacts
  <2>2. SeenBy(nxm[p], at[p], pc[p], l, c) => SeenBy(nxm[p], a, "scan", l, c)
    BY <1>2, <1>13, SeenStays
  <2> QED  BY <2>1, <2>2
<1>20. ASSUME NEW l \in Rows, NEW d \in 1..(NCols + 1), Clear(fate, l, d)
       PROVE  nxm[p][l] >= d /\ \A c \in Cols : Taken(ntloss', l, c) => c >= d - NCons
  <2>1. nxm[p][l] >= d /\ \A c \in Cols : Taken(ntloss, l, c) => c >= d - NCons
    BY <1>20 DEF IInv, ClearInv
  <2>2. \A c \in Cols : Taken(ntloss', l, c) => Taken(ntloss, l, c) \/ (l = i /\ c = j)
    BY <1>9 DEF Taken
  <2>3. l = i => j >= d - NCons
    BY <1>1, <1>2, <2>1, SizeFacts
  <2> QED  BY <2>1, <2>2, <2>3
<1>21. UNCHANGED <<fate, tofork, awaited, upset>> /\ pc[p] \in {"scan", "take", "turn"}
  BY <1>1
<1>22. nxm[p] \in Bounds /\ ini[p] \in BOOLEAN
  BY <1>2
<1> HIDE DEF i, j, k
<1> QED  BY ONLY IInv, p \in Procs, <1>4, <1>7, <1>9, <1>10, <1>13, <1>14, <1>16, <1>17, <1>18, <1>19, <1>20, <1>21, <1>22, MoveInv

\* The outcome of a particle is written.
LEMMA OutcomeStep ==
  ASSUME IInv, NEW p \in Procs, pc[p] = "turn", at[p].k \in Busy(p), NEW value \in Turns,
         value \in fate[slot[p][at[p].k].row][slot[p][at[p].k].col],
         Outcome(p, value), NextSlot(p), UNCHANGED <<fate, nxm, pc, iw, tofork, awaited, upset>>
  PROVE  IInv'
<1> DEFINE k == at[p].k
           i == slot[p][k].row
           j == slot[p][k].col
           sl == [slot[p] EXCEPT ![k] = Idle]
           a == [at[p] EXCEPT !.k = k + 1]
<1>1. /\ Typed /\ k \in Slots /\ slot[p][k] # Idle
      /\ ProcOK(ntloss, fate, nxm[p], slot[p], at[p], pc[p], ini[p])
      /\ ntloss' = [ntloss EXCEPT ![i][j] = value] /\ slot' = [slot EXCEPT ![p][k] = Idle]
      /\ ini' = [ini EXCEPT ![p] = TRUE] /\ at' = [at EXCEPT ![p].k = k + 1]
      /\ i = slot[p][k].row /\ j = slot[p][k].col /\ value \in fate[i][j]
  BY DEF IInv, ProcInv, Busy, Outcome, NextSlot
<1> HIDE DEF i, j, k
<1>2. /\ nxm[p] \in Bounds /\ slot[p] \in Tracks /\ at[p] \in Looks
      /\ \A l \in Rows : nxm[p][l] \in 1..(NCols + 1)
  BY <1>1, ProcFacts
<1>3. ntloss \in Grids /\ slot \in [Procs -> Tracks] /\ iw' \in [Procs -> 1..NW]
  <2>1. Typed /\ iw' = iw
    BY <1>1
  <2> QED  BY ONLY <2>1 DEF Typed
<1>4. i \in Rows /\ j \in Cols /\ j >= nxm[p][i] - NCons
  <2>1. SlotOK(ntloss, fate, nxm[p], slot[p][k])
    BY <1>1 DEF ProcOK
  <2> QED  BY <1>1, <1>2, <2>1, CellFacts DEF Tracks, SlotOK
<1>5. sl \in Tracks /\ sl[k] = Idle /\ \A l \in Slots : l # k => sl[l] = slot[p][l]
  BY <1>1, <1>2 DEF Tracks
<1>6. slot' = [slot EXCEPT ![p] = sl] /\ at' = [at EXCEPT ![p] = a]
  BY <1>1 DEF Typed
<1>7. a \in Looks
  <2>1. k + 1 \in 1..(NSlots + 1)
    BY <1>1, SizeFacts
  <2> QED  BY <1>2, <2>1 DEF Looks
<1> HIDE DEF sl, a
<1>8. Moves(p, nxm[p], sl, a, "turn", TRUE)
  BY <1>1, <1>6, StillMoves DEF Moves
<1>9. /\ ntloss' \in Grids /\ ntloss'[i][j] = value
      /\ \A l \in Rows, c \in Cols : ~ (l = i /\ c = j) => ntloss'[l][c] = ntloss[l][c]
  BY <1>1, <1>3, <1>4 DEF Grids
<1>10. Grows(ntloss, ntloss') /\ Taken(ntloss, i, j)
  <2>1. Taken(ntloss, i, j)
    BY <1>1 DEF ProcOK, SlotOK
  <2> QED  BY <1>9, <2>1, SizeFacts DEF Grows, Taken
<1>11. ProcOK(ntloss', fate, nxm[p], sl, a, "turn", TRUE)
  <2>1. \A l \in Rows, c \in Cols : c >= nxm[p][l] => Taken(ntloss', l, c)
    BY <1>1, <1>10 DEF ProcOK, Grows
  <2>2. ASSUME NEW l \in Slots, sl[l] # Idle
        PROVE  SlotOK(ntloss', fate, nxm[p], sl[l])
    <3>1. sl[l] = slot[p][l]
      BY <1>5, <2>2
    <3>2. SlotOK(ntloss, fate, nxm[p], slot[p][l])
      BY <1>1 DEF ProcOK
    <3>3. slot[p][l].row \in Rows /\ slot[p][l].col \in Cols
      BY <1>2, <2>2, <3>1, CellFacts DEF Tracks
    <3> QED  BY <1>10, <3>1, <3>2, <3>3 DEF SlotOK, Grows
  <2>3. \A l \in Slots : SlotOK(ntloss', fate, nxm[p], sl[l])
    BY <2>2 DEF SlotOK
  <2> QED  BY <2>1, <2>3 DEF ProcOK
<1>12. OverOK(ntloss', nxm[p], sl, "turn", p = Parent)
  BY DEF OverOK
<1>13. LossInv'
  <2> SUFFICES ASSUME NEW l \in Rows, NEW c \in Cols
               PROVE  /\ ntloss'[l][c] < NTurn => ntloss'[l][c] \in fate[l][c]
                      /\ ntloss'[l][c] = NTurn =>
                           NTurn \in fate[l][c] \/ \E q \in Procs : Tracked(slot'[q], l, c)
    BY DEF LossInv
  <2>1. slot'[p] = sl /\ \A q \in Procs : q # p => slot'[q] = slot[q]
    BY ONLY p \in Procs, <1>3, <1>6
  <2>2. CASE l = i /\ c = j
    BY <1>1, <1>9, <2>2
  <2>3. CASE ~ (l = i /\ c = j)
    <3>1. \A q \in Procs : Tracked(slot[q], l, c) => Tracked(slot'[q], l, c)
      BY <1>1, <1>5, <2>1, <2>3 DEF Tracked
    <3> QED  BY <1>9, <2>3, <3>1 DEF IInv, LossInv
  <2> QED  BY <2>2, <2>3
<1>14. ASSUME NEW l \in Rows, NEW c \in Cols, ntloss'[l][c] < NTurn
       PROVE  \/ SeenBy(nxm[p], a, "turn", l, c)
              \/ ntloss[l][c] < NTurn /\ ~ SeenBy(nxm[p], at[p], pc[p], l, c)
  <2>1. CASE l = i /\ c = j
    BY <1>4, <2>1 DEF SeenBy
  <2>2. CASE ~ (l = i /\ c = j)
    BY <1>9, <1>14, <2>2 DEF SeenBy
  <2> QED  BY <2>1, <2>2
<1>15. ASSUME NEW l \in Rows, NEW d \in 1..(NCols + 1), Clear(fate, l, d)
       PROVE  nxm[p][l] >= d /\ \A c \in Cols : Taken(ntloss', l, c) => c >= d - NCons
  <2>1. nxm[p][l] >= d /\ \A c \in Cols : Taken(ntloss, l, c) => c >= d - NCons
    BY <1>15 DEF IInv, ClearInv
  <2>2. \A c \in Cols : Taken(ntloss', l, c) => Taken(ntloss, l, c)
    BY <1>9, <1>10 DEF Taken
  <2> QED  BY <2>1, <2>2
<1>16. nxm[p] \in Bounds
  BY <1>2
<1>17. pc[p] \in {"scan", "take", "turn"} /\ UNCHANGED <<fate, tofork, awaited, upset>>
  OBVIOUS
<1> QED  BY ONLY IInv, p \in Procs, <1>3, <1>5, <1>7, <1>8, <1>9, <1>10, <1>11, <1>12, <1>13, <1>14, <1>15, <1>16, <1>17, MoveInv

\* A process in its turn goes on, with one of its particles a turn older or
\* none.
LEMMA TurnStep ==
  ASSUME IInv, NEW p \in Procs, pc[p] = "turn", NEW sl \in Tracks, NEW a \in Looks,
         slot' = [slot EXCEPT ![p] = sl], at' = [at EXCEPT ![p] = a], iw' \in [Procs -> 1..NW],
         UNCHANGED <<ntloss, fate, nxm, pc, ini, tofork, awaited, upset>>,
         \A k \in Slots : SlotOK(ntloss, fate, nxm[p], sl[k]),
         \A k \in Slots : slot[p][k] # Idle => /\ sl[k] # Idle /\ sl[k].row = slot[p][k].row
                                               /\ sl[k].col = slot[p][k].col
  PROVE  IInv'
<1>1. Typed /\ nxm[p] \in Bounds /\ ini[p] \in BOOLEAN
  BY ProcFacts DEF IInv
<1>2. Moves(p, nxm[p], sl, a, "turn", ini[p])
  BY <1>1, StillMoves DEF Moves
<1>3. ProcOK(ntloss, fate, nxm[p], sl, a, "turn", ini[p])
  <2>1. ProcOK(ntloss, fate, nxm[p], slot[p], at[p], "turn", ini[p])
    BY DEF IInv, ProcInv
  <2>2. ini[p] \/ \E k \in Slots : sl[k] # Idle
    BY <2>1 DEF ProcOK
  <2> QED  BY <2>1, <2>2 DEF ProcOK
<1>4. OverOK(ntloss, nxm[p], sl, "turn", p = Parent)
  BY DEF OverOK
<1>5. \A i \in Rows, c \in Cols : Tracked(slot[p], i, c) => Tracked(sl, i, c)
  BY DEF Tracked
<1>6. \A i \in Rows, c \in Cols : SeenBy(nxm[p], at[p], pc[p], i, c) => SeenBy(nxm[p], a, "turn", i, c)
  BY DEF SeenBy
<1> QED  BY <1>1, <1>2, <1>3, <1>4, <1>5, <1>6, QuietMove

LEMMA TurnSteps ==
  ASSUME IInv, NEW p \in Procs, Lost(p) \/ Survives(p) \/ NotTracked(p) \/ TurnDone(p)
  PROVE  IInv'
<1> DEFINE k == at[p].k
           s == slot[p][k]
           a == [at[p] EXCEPT !.k = k + 1]
<1>1. Typed /\ ProcOK(ntloss, fate, nxm[p], slot[p], at[p], pc[p], ini[p])
  BY DEF IInv, ProcInv
<1>2. /\ slot[p] \in Tracks /\ at[p] \in Looks /\ at[p].k \in 1..(NSlots + 1) /\ iw[p] \in 1..NW
      /\ iw \in [Procs -> 1..NW] /\ slot = [slot EXCEPT ![p] = slot[p]]
  BY <1>1, ProcFacts, StillMoves DEF Typed
<1>3. \A l \in Slots : SlotOK(ntloss, fate, nxm[p], slot[p][l])
  BY <1>1 DEF ProcOK
<1>4. ASSUME k \in Busy(p)
      PROVE  /\ k \in Slots /\ s # Idle /\ s \in Cell /\ s.life \in fate[s.row][s.col] /\ s.mturn <= s.life
             /\ s.life \in Turns /\ s.mturn \in Int /\ 0 <= s.mturn /\ s.mturn < NTurn
  <2>1. k \in Slots /\ s # Idle
    BY <1>4 DEF Busy
  <2>2. s \in Cell
    BY <1>2, <2>1 DEF Tracks
  <2> QED  BY <1>3, <2>1, <2>2, CellFacts DEF SlotOK
<1>5. NextSlot(p) /\ k \in Slots => a \in Looks /\ at' = [at EXCEPT ![p] = a]
  <2>1. k \in Slots => k + 1 \in 1..(NSlots + 1)
    BY SizeFacts
  <2>2. NextSlot(p) => at' = [at EXCEPT ![p] = a]
    <3>1. Typed
      BY <1>1
    <3>2. at \in [Procs -> Looks]
      BY ONLY <3>1 DEF Typed
    <3> QED  BY ONLY p \in Procs, <3>2, Zenon DEF NextSlot
  <2> QED  BY <1>2, <2>1, <2>2 DEF Looks
<1>6. CASE Lost(p)
  <2>1. /\ pc[p] = "turn" /\ k \in Busy(p) /\ s.life = s.mturn /\ Outcome(p, s.mturn) /\ NextSlot(p)
        /\ UNCHANGED <<fate, nxm, pc, iw, tofork, awaited, upset>>
    BY <1>6 DEF Lost
  <2>2. s.mturn \in Turns /\ s.mturn \in fate[s.row][s.col]
    BY <1>4, <2>1
  <2> QED  BY ONLY IInv, p \in Procs, <2>1, <2>2, OutcomeStep, Zenon
<1>7. CASE Survives(p)
  <2>1. /\ pc[p] = "turn" /\ k \in Busy(p) /\ s.life > s.mturn /\ NextSlot(p)
        /\ UNCHANGED <<fate, nxm, pc, iw, tofork, awaited, upset>>
    BY <1>7 DEF Survives
  <2>2. CASE s.mturn + 1 >= NTurn /\ Outcome(p, NTurn)
    <3>1. s.life = NTurn /\ NTurn \in Turns
      BY <1>4, <2>1, <2>2, SizeFacts DEF Turns
    <3>2. NTurn \in fate[s.row][s.col]
      BY <1>4, <2>1, <3>1
    <3> QED  BY <2>1, <2>2, <3>1, <3>2, OutcomeStep
  <2>3. CASE /\ s.mturn + 1 < NTurn
             /\ slot' = [slot EXCEPT ![p][k].mturn = @ + 1]
             /\ UNCHANGED <<ntloss, ini>>
    <3> DEFINE t == [s EXCEPT !.mturn = s.mturn + 1]
               sl == [slot[p] EXCEPT ![k] = t]
    <3>1. t \in Cell /\ t.row = s.row /\ t.col = s.col /\ t.life = s.life /\ t.mturn = s.mturn + 1
      <4>1. s.mturn + 1 \in 0..(NTurn - 1)
        BY <1>4, <2>1, <2>3, SizeFacts
      <4> QED  BY <1>4, <2>1, <4>1 DEF Cell
    <3>2. t # Idle
      BY <3>1, CellFacts
    <3>3. slot' = [slot EXCEPT ![p] = sl]
      BY <1>1, <1>2, <1>4, <2>1, <2>3 DEF Typed, Tracks
    <3> HIDE DEF t
    <3>4. sl \in Tracks /\ sl[k] = t /\ \A l \in Slots : l # k => sl[l] = slot[p][l]
      BY <1>2, <1>4, <2>1, <3>1 DEF Tracks
    <3> HIDE DEF sl
    <3>5. SlotOK(ntloss, fate, nxm[p], t)
      <4>1. s.mturn + 1 <= s.life
        BY <1>4, <2>1, SizeFacts
      <4>2. SlotOK(ntloss, fate, nxm[p], s)
        BY <1>3, <1>4, <2>1
      <4> QED  BY <1>4, <2>1, <3>1, <4>1, <4>2 DEF SlotOK
    <3>6. \A l \in Slots : SlotOK(ntloss, fate, nxm[p], sl[l])
      BY <1>3, <3>4, <3>5
    <3>7. \A l \in Slots : slot[p][l] # Idle => /\ sl[l] # Idle /\ sl[l].row = slot[p][l].row
                                                /\ sl[l].col = slot[p][l].col
      BY <3>1, <3>2, <3>4
    <3>8. iw' \in [Procs -> 1..NW] /\ a \in Looks /\ at' = [at EXCEPT ![p] = a]
      BY <1>2, <1>4, <1>5, <2>1
    <3> HIDE DEF a, s, k
    <3> QED  BY <2>1, <2>3, <3>3, <3>4, <3>6, <3>7, <3>8, TurnStep
  <2> QED  BY <1>7, <2>2, <2>3 DEF Survives
<1>8. CASE NotTracked(p)
  <2>1. /\ pc[p] = "turn" /\ k \in Slots /\ NextSlot(p)
        /\ UNCHANGED <<ntloss, fate, nxm, slot, pc, ini, iw, tofork, awaited, upset>>
    BY <1>8 DEF NotTracked
  <2>2. a \in Looks /\ at' = [at EXCEPT ![p] = a] /\ slot' = [slot EXCEPT ![p] = slot[p]] /\ iw' \in [Procs -> 1..NW]
    BY <1>2, <1>5, <2>1
  <2> HIDE DEF a, s, k
  <2> QED  BY <1>2, <1>3, <2>1, <2>2, TurnStep
<1>9. CASE TurnDone(p)
  <2>1. pc[p] = "turn" /\ k > NSlots /\ OnlyLocal
    BY <1>9 DEF TurnDone
  <2>2. CASE Again(p)
    <3>1. 1 \in 1..(NSlots + 1) /\ \A l \in Slots : ~ l < 1
      BY SizeFacts
    <3>2. iw' \in [Procs -> 1..NW]
      BY <1>2, <2>2, SizeFacts DEF Again
    <3> QED  BY <2>1, <2>2, <3>1, <3>2, LookStep DEF Again
  <2>3. CASE /\ ~ ini[p] /\ (Busy(p) = Slots \/ iw[p] > 1)
             /\ iw' = [iw EXCEPT ![p] = IF Busy(p) = Slots THEN @ ELSE @ - 1]
             /\ at' = [at EXCEPT ![p].k = 1]
             /\ UNCHANGED <<nxm, slot, pc, ini>>
    <3> DEFINE o == [at[p] EXCEPT !.k = 1]
    <3>1. at' = [at EXCEPT ![p] = o]
      BY <1>1, <2>3 DEF Typed
    <3>2. o \in Looks
      BY <1>2, SizeFacts DEF Looks
    <3>3. iw' \in [Procs -> 1..NW]
      <4>1. iw' = [iw EXCEPT ![p] = IF Busy(p) = Slots THEN iw[p] ELSE iw[p] - 1]
        BY <2>3
      <4>2. (IF Busy(p) = Slots THEN iw[p] ELSE iw[p] - 1) \in 1..NW
        BY <1>2, <2>3, SizeFacts
      <4> QED  BY <1>2, <4>1, <4>2
    <3>4. slot' = [slot EXCEPT ![p] = slot[p]]
      BY <1>2, <2>3
    <3> HIDE DEF o
    <3> QED  BY <1>2, <1>3, <2>1, <2>3, <3>1, <3>2, <3>3, <3>4, TurnStep DEF OnlyLocal
  <2> QED  BY <1>9, <2>2, <2>3 DEF TurnDone
<1> QED  BY <1>6, <1>7, <1>8, <1>9

LEMMA SearchStep ==
  ASSUME IInv, NEW p \in Procs, Search(p)
  PROVE  IInv'
BY SkipSlotStep, RowDoneStep, ReadStep, TakeStep, TurnSteps DEF Search

-----------------------------------------------------------------------------
(* Forks, waits and ends: one process changes its place.                   *)

LEMMA PlaceStep ==
  ASSUME IInv, NEW c \in Procs \cup Strangers, NEW st \in States, pc' = [pc EXCEPT ![c] = st],
         c \in Workers => st \in {"none", "scan", "done"}, c = Parent => st \in {"scan", "done"},
         UNCHANGED <<ntloss, fate, nxm, slot, at, ini, iw>>,
         tofork' \subseteq tofork, awaited' \in Nat, c \notin tofork', WaitInv',
         c \in Procs => ProcOK(ntloss, fate, nxm[c], slot[c], at[c], st, ini[c]),
         upset' = {} => /\ upset = {}
                        /\ c \in Procs => OverOK(ntloss, nxm[c], slot[c], st, c = Parent)
                        /\ c \in Procs => \A i \in Rows, d \in Cols :
                             SeenBy(nxm[c], at[c], pc[c], i, d) => SeenBy(nxm[c], at[c], st, i, d)
  PROVE  IInv'
<1>1. pc \in [Procs \cup Strangers -> States] /\ tofork \subseteq Workers /\ Workers \subseteq Procs /\ Parent \in Procs
  BY DEF IInv, Typed, Procs
<1>2. pc'[c] = st /\ \A q \in Procs \cup Strangers : q # c => pc'[q] = pc[q]
  BY <1>1
<1>3. Typed'
  <2>1. pc' \in [Procs \cup Strangers -> States] /\ tofork' \subseteq Workers
    BY <1>1
  <2>2. /\ \A w \in Workers : pc'[w] \in {"none", "scan", "take", "turn", "done"}
        /\ pc'[Parent] \in {"fork", "scan", "take", "turn", "done"}
    <3>1. /\ \A w \in Workers : pc[w] \in {"none", "scan", "take", "turn", "done"}
          /\ pc[Parent] \in {"fork", "scan", "take", "turn", "done"}
      BY DEF IInv, Typed
    <3> QED  BY <1>1, <1>2, <3>1
  <2> QED  BY <2>1, <2>2 DEF IInv, Typed
<1>4. ProcInv'
  <2>1. \A q \in Procs : ProcOK(ntloss, fate, nxm[q], slot[q], at[q], pc'[q], ini[q])
    BY <1>2 DEF IInv, ProcInv
  <2> QED  BY <2>1 DEF ProcInv
<1>5. ForkInv'
  <2>1. \A w \in tofork' : w \in tofork /\ w # c /\ w \in Procs \cup Strangers
    BY <1>1
  <2> QED  BY <1>2, <2>1 DEF IInv, ForkInv
<1>6. LossInv' /\ ClearInv'
  BY DEF IInv, LossInv, ClearInv
<1>7. upset' = {} => OverInv'
  <2>1. upset' = {} => \A q \in Procs : OverOK(ntloss, nxm[q], slot[q], pc'[q], q = Parent)
    BY <1>2 DEF IInv, OverInv
  <2> QED  BY <2>1 DEF OverInv
<1>8. upset' = {} => SeenInv'
  <2> SUFFICES ASSUME upset' = {}, NEW i \in Rows, NEW d \in Cols, ntloss[i][d] < NTurn
               PROVE  \E q \in Procs : SeenBy(nxm[q], at[q], pc'[q], i, d)
    BY DEF SeenInv
  <2>1. PICK q \in Procs : SeenBy(nxm[q], at[q], pc[q], i, d)
    BY DEF IInv, SeenInv
  <2> QED  BY <1>2, <2>1
<1> QED  BY <1>3, <1>4, <1>5, <1>6, <1>7, <1>8 DEF IInv

\* A process that has not begun can begin, or be over.
LEMMA FreshFacts ==
  ASSUME NEW nx, NEW sl, NEW a, Fresh(nx, sl, a), NEW g, NEW fa, NEW b, NEW st \in {"none", "scan", "done"}
  PROVE  /\ ProcOK(g, fa, nx, sl, a, st, b)
         /\ OverOK(g, nx, sl, st, FALSE) /\ OverOK(g, nx, sl, "scan", TRUE)
         /\ \A i \in Rows, c \in Cols : ~ SeenBy(nx, a, "none", i, c) /\ ~ SeenBy(nx, a, "fork", i, c)
<1>1. /\ \A i \in Rows : nx[i] = NCols + 1
      /\ \A k \in Slots : sl[k] = Idle
      /\ a.k = 1 /\ a.i = 1 /\ a.j = NCols
  BY DEF Fresh
<1>2. /\ \A i \in Rows, c \in Cols : ~ c >= nx[i] /\ ~ nx[i] <= c
      /\ a.j < nx[a.i] /\ \A c \in Cols : ~ c > a.j
      /\ \A k \in Slots : ~ k < a.k
      /\ \A i \in Rows : ~ i < a.i
  BY <1>1, SizeFacts
<1>3. \A k \in Slots : SlotOK(g, fa, nx, sl[k])
  BY <1>1 DEF SlotOK
<1>4. LookOK(g, nx, sl, a)
  BY <1>2 DEF LookOK
<1> QED  BY <1>1, <1>2, <1>3, <1>4 DEF ProcOK, OverOK, SeenBy

LEMMA ProcPlaces ==
  /\ \A w \in Workers : w \in Procs /\ w \in Procs \cup Strangers /\ w # Parent
  /\ Parent \in Procs /\ Parent \in Procs \cup Strangers
  /\ \A c \in Strangers : c \in Procs \cup Strangers /\ c \notin Procs /\ c # Parent
BY ProcsAssumption DEF Procs

LEMMA ForkStep ==
  ASSUME IInv, NEW w \in Workers, NEW st \in {"none", "scan", "done"}, Fork(w, st)
  PROVE  IInv'
<1>1. /\ Typed /\ w \in tofork /\ tofork' = tofork \ {w} /\ awaited' = awaited + 1
      /\ pc' = [pc EXCEPT ![w] = st]
      /\ UNCHANGED <<ntloss, fate, nxm, slot, at, ini, iw, upset>>
  BY DEF IInv, Fork
<1>2. pc[w] = "none" /\ Fresh(nxm[w], slot[w], at[w])
  BY <1>1 DEF IInv, ForkInv
<1>3. awaited \in Nat /\ tofork \subseteq Workers /\ pc \in [Procs \cup Strangers -> States] /\ st \in States
  BY <1>1 DEF Typed, States
<1>4. WaitInv'
  <2>1. Cardinality(tofork') = Cardinality(tofork) - 1 /\ Cardinality(tofork) \in Nat
    BY <1>1, <1>3, WorkersFinite, FS_RemoveElement
  <2>2. awaited' + Cardinality(tofork') <= Cardinality(Workers)
    BY <1>1, <1>3, <2>1, WorkersFinite DEF IInv, WaitInv
  <2>3. Children' \subseteq Children \cup {w}
    <3>1. \A q \in Workers : q # w => pc'[q] = pc[q]
      BY <1>1, <1>3, ProcPlaces
    <3> QED  BY <3>1 DEF Children
  <2>4. /\ IsFiniteSet(Children) /\ IsFiniteSet(Children \cup {w}) /\ Children \cup {w} \subseteq Workers
        /\ Cardinality(Children \cup {w}) \in Nat /\ Cardinality(Children) \in Nat /\ Cardinality(Children') \in Nat
    BY <2>3, WorkersFinite DEF Children
  <2>5. Cardinality(Children \cup {w}) <= Cardinality(Children) + 1
    BY <2>4, FS_AddElement
  <2>6. Cardinality(Children') <= Cardinality(Children \cup {w})
    BY <2>3, <2>4, FS_Subset
  <2>7. upset = {} => Cardinality(Children) <= awaited
    BY DEF IInv, WaitInv
  <2> QED  BY <1>1, <1>3, <2>2, <2>4, <2>5, <2>6, <2>7 DEF WaitInv
<1>5. /\ ProcOK(ntloss, fate, nxm[w], slot[w], at[w], st, ini[w])
      /\ OverOK(ntloss, nxm[w], slot[w], st, w = Parent)
      /\ \A i \in Rows, c \in Cols : ~ SeenBy(nxm[w], at[w], pc[w], i, c)
  BY <1>2, FreshFacts, ProcPlaces
<1>6. /\ w \notin tofork' /\ tofork' \subseteq tofork /\ awaited' \in Nat
      /\ w \in Procs \cup Strangers /\ w # Parent
  BY <1>1, <1>3, ProcPlaces
<1>7. pc' = [pc EXCEPT ![w] = st] /\ UNCHANGED <<ntloss, fate, nxm, slot, at, ini, iw>> /\ upset' = upset
  BY <1>1
<1> QED  BY <1>3, <1>4, <1>5, <1>6, <1>7, PlaceStep

LEMMA AllForkedStep ==
  ASSUME IInv, AllForked
  PROVE  IInv'
<1>1. /\ pc[Parent] = "fork" /\ tofork = {} /\ pc' = [pc EXCEPT ![Parent] = "scan"]
      /\ UNCHANGED <<ntloss, fate, nxm, slot, at, ini, iw, tofork, awaited, upset>>
  BY DEF AllForked
<1>2. Fresh(nxm[Parent], slot[Parent], at[Parent])
  BY <1>1, ProcPlaces DEF IInv, ProcInv, ProcOK
<1>3. awaited' \in Nat /\ "scan" \in States /\ pc \in [Procs \cup Strangers -> States]
  BY <1>1 DEF IInv, Typed, States
<1>4. WaitInv'
  <2>1. Children' = Children
    BY <1>1, <1>3, ProcPlaces DEF Children
  <2> QED  BY <1>1, <2>1 DEF IInv, WaitInv
<1>5. /\ ProcOK(ntloss, fate, nxm[Parent], slot[Parent], at[Parent], "scan", ini[Parent])
      /\ OverOK(ntloss, nxm[Parent], slot[Parent], "scan", Parent = Parent)
      /\ \A i \in Rows, c \in Cols : ~ SeenBy(nxm[Parent], at[Parent], pc[Parent], i, c)
  BY <1>1, <1>2, FreshFacts
<1> QED  BY <1>1, <1>3, <1>4, <1>5, PlaceStep, ProcPlaces

LEMMA WaitStep ==
  ASSUME IInv, NEW c \in Workers \cup Strangers, Wait(c)
  PROVE  IInv'
<1>1. /\ awaited > 0 /\ pc[c] = "done" /\ awaited' = awaited - 1 /\ pc' = [pc EXCEPT ![c] = "none"]
      /\ upset' = (IF c \in Strangers THEN upset \cup {c} ELSE upset)
      /\ UNCHANGED <<ntloss, fate, nxm, slot, at, ini, iw, tofork>>
  BY DEF Wait, Waiting
<1>2. /\ awaited \in Nat /\ awaited' \in Nat /\ "none" \in States /\ pc \in [Procs \cup Strangers -> States]
      /\ tofork \subseteq Workers
  BY <1>1 DEF IInv, Typed, States
<1>3. c \notin tofork'
  BY <1>1 DEF IInv, ForkInv
<1>4. WaitInv'
  <2>1. awaited' + Cardinality(tofork) <= Cardinality(Workers)
    BY <1>1, <1>2, WorkersFinite DEF IInv, WaitInv
  <2>2. ASSUME upset' = {} PROVE Cardinality(Children') <= awaited'
    <3>1. c \in Workers /\ upset = {}
      BY <1>1, <2>2
    <3>2. Children' = Children \ {c} /\ c \in Children
      BY <1>1, <1>2, <3>1, ProcPlaces DEF Children
    <3>3. IsFiniteSet(Children) /\ Cardinality(Children) \in Nat
      BY WorkersFinite DEF Children
    <3>4. Cardinality(Children') = Cardinality(Children) - 1
      BY <3>2, <3>3, FS_RemoveElement
    <3> QED  BY <1>1, <1>2, <3>1, <3>3, <3>4 DEF IInv, WaitInv
  <2> QED  BY <1>1, <2>1, <2>2 DEF WaitInv
<1>5. ASSUME c \in Procs
      PROVE  /\ ProcOK(ntloss, fate, nxm[c], slot[c], at[c], "none", ini[c])
             /\ upset = {} => OverOK(ntloss, nxm[c], slot[c], "none", c = Parent)
             /\ \A i \in Rows, d \in Cols : SeenBy(nxm[c], at[c], pc[c], i, d) => SeenBy(nxm[c], at[c], "none", i, d)
  <2>1. ProcOK(ntloss, fate, nxm[c], slot[c], at[c], "done", ini[c])
    BY <1>1, <1>5 DEF IInv, ProcInv
  <2>2. upset = {} => OverOK(ntloss, nxm[c], slot[c], "done", c = Parent)
    BY <1>1, <1>5 DEF IInv, OverInv
  <2>3. ProcOK(ntloss, fate, nxm[c], slot[c], at[c], "none", ini[c])
    BY <2>1 DEF ProcOK
  <2>4. upset = {} => OverOK(ntloss, nxm[c], slot[c], "none", c = Parent)
    BY <2>2 DEF OverOK
  <2> QED  BY <1>1, <2>3, <2>4 DEF SeenBy
<1>6. upset' = {} => upset = {}
  BY <1>1
<1> QED  BY <1>1, <1>2, <1>3, <1>4, <1>5, <1>6, PlaceStep, ProcPlaces

LEMMA WaitNoChildStep ==
  ASSUME IInv, WaitNoChild
  PROVE  IInv'
<1>1. /\ pc[Parent] = "done" /\ awaited > 0 /\ awaited' = awaited - 1 /\ \A w \in Workers : pc[w] = "none"
      /\ UNCHANGED <<ntloss, fate, nxm, slot, pc, at, ini, iw, tofork, upset>>
  BY DEF WaitNoChild, Waiting
<1>2. /\ awaited \in Nat /\ awaited' \in Nat /\ "done" \in States /\ pc \in [Procs \cup Strangers -> States]
      /\ tofork \subseteq Workers
  BY <1>1 DEF IInv, Typed, States
<1>3. pc' = [pc EXCEPT ![Parent] = "done"] /\ Parent \notin tofork'
  BY <1>1, <1>2, ProcPlaces
<1>4. WaitInv'
  <2>1. Children' = {}
    BY <1>1 DEF Children
  <2>2. Cardinality(Children') = 0
    BY <2>1, FS_EmptySet
  <2>3. awaited' + Cardinality(tofork) <= Cardinality(Workers)
    BY <1>1, <1>2, WorkersFinite DEF IInv, WaitInv
  <2> QED  BY <1>1, <1>2, <2>2, <2>3 DEF WaitInv
<1>5. ProcOK(ntloss, fate, nxm[Parent], slot[Parent], at[Parent], "done", ini[Parent])
  BY <1>1, ProcPlaces DEF IInv, ProcInv
<1>6. upset = {} => OverOK(ntloss, nxm[Parent], slot[Parent], "done", Parent = Parent)
  BY <1>1, ProcPlaces DEF IInv, OverInv
<1>7. /\ tofork' \subseteq tofork /\ UNCHANGED <<ntloss, fate, nxm, slot, at, ini, iw>> /\ upset' = upset
      /\ \A i \in Rows, d \in Cols :
           SeenBy(nxm[Parent], at[Parent], pc[Parent], i, d) => SeenBy(nxm[Parent], at[Parent], "done", i, d)
  BY <1>1
<1> QED  BY <1>2, <1>3, <1>4, <1>5, <1>6, <1>7, PlaceStep, ProcPlaces

LEMMA WaitInterruptedStep ==
  ASSUME IInv, WaitInterrupted
  PROVE  IInv'
<1>1. /\ pc[Parent] = "done" /\ awaited > 0 /\ awaited' = awaited - 1 /\ upset' # {}
      /\ UNCHANGED <<ntloss, fate, nxm, slot, pc, at, ini, iw, tofork>>
  BY DEF WaitInterrupted, Waiting
<1>2. /\ awaited \in Nat /\ awaited' \in Nat /\ "done" \in States /\ pc \in [Procs \cup Strangers -> States]
      /\ tofork \subseteq Workers
  BY <1>1 DEF IInv, Typed, States
<1>3. pc' = [pc EXCEPT ![Parent] = "done"] /\ Parent \notin tofork'
  BY <1>1, <1>2, ProcPlaces
<1>4. WaitInv'
  <2>1. awaited' + Cardinality(tofork) <= Cardinality(Workers)
    BY <1>1, <1>2, WorkersFinite DEF IInv, WaitInv
  <2> QED  BY <1>1, <2>1 DEF WaitInv
<1>5. ProcOK(ntloss, fate, nxm[Parent], slot[Parent], at[Parent], "done", ini[Parent])
  BY <1>1, ProcPlaces DEF IInv, ProcInv
<1>6. tofork' \subseteq tofork /\ UNCHANGED <<ntloss, fate, nxm, slot, at, ini, iw>>
  BY <1>1
<1> QED  BY <1>1, <1>2, <1>3, <1>4, <1>5, <1>6, PlaceStep, ProcPlaces

LEMMA EndStep ==
  ASSUME IInv,
         \/ \E c \in Strangers : StrangerEnds(c)
         \/ \E w \in Workers : Killed(w)
  PROVE  IInv'
<1>1. /\ awaited \in Nat /\ "done" \in States /\ pc \in [Procs \cup Strangers -> States]
      /\ tofork \subseteq Workers
  BY DEF IInv, Typed, States
<1>2. ASSUME NEW c \in Strangers, StrangerEnds(c) PROVE IInv'
  <2>1. /\ pc' = [pc EXCEPT ![c] = "done"]
        /\ UNCHANGED <<ntloss, fate, nxm, slot, at, ini, iw, tofork, awaited, upset>>
    BY <1>2 DEF StrangerEnds
  <2>2. WaitInv'
    <3>1. Children' = Children
      BY <1>1, <2>1, ProcPlaces DEF Children
    <3> QED  BY <2>1, <3>1 DEF IInv, WaitInv
  <2>3. c \notin Workers /\ c \notin Procs /\ c # Parent /\ c \in Procs \cup Strangers
    BY ProcPlaces
  <2>4. c \notin tofork' /\ tofork' \subseteq tofork /\ awaited' \in Nat
    BY <1>1, <2>1, <2>3
  <2> QED  BY <1>1, <2>1, <2>2, <2>3, <2>4, PlaceStep
<1>3. ASSUME NEW w \in Workers, Killed(w) PROVE IInv'
  <2>1. /\ pc[w] \in {"scan", "take", "turn"} /\ pc' = [pc EXCEPT ![w] = "done"] /\ upset' = upset \cup {w}
        /\ UNCHANGED <<ntloss, fate, nxm, slot, at, ini, iw, tofork, awaited>>
    BY <1>3 DEF Killed
  <2>2. upset' # {}
    BY <2>1
  <2>3. WaitInv'
    BY <2>1, <2>2 DEF IInv, WaitInv
  <2>4. w \notin tofork' /\ tofork' \subseteq tofork /\ awaited' \in Nat
    BY <1>1, <2>1 DEF IInv, ForkInv
  <2>5. ProcOK(ntloss, fate, nxm[w], slot[w], at[w], "done", ini[w])
    <3>1. ProcOK(ntloss, fate, nxm[w], slot[w], at[w], pc[w], ini[w])
      BY ProcPlaces DEF IInv, ProcInv
    <3> QED  BY <3>1 DEF ProcOK
  <2>6. w \in Procs \cup Strangers /\ w # Parent
    BY ProcPlaces
  <2>7. pc' = [pc EXCEPT ![w] = "done"] /\ UNCHANGED <<ntloss, fate, nxm, slot, at, ini, iw>>
    BY <2>1
  <2>8. upset' = {} => /\ upset = {} /\ OverOK(ntloss, nxm[w], slot[w], "done", w = Parent)
                       /\ \A i \in Rows, d \in Cols :
                            SeenBy(nxm[w], at[w], pc[w], i, d) => SeenBy(nxm[w], at[w], "done", i, d)
    BY <2>2
  <2> QED  BY ONLY IInv, w \in Workers, <1>1, <2>3, <2>4, <2>5, <2>6, <2>7, <2>8, PlaceStep
<1> QED  BY <1>2, <1>3

-----------------------------------------------------------------------------
(* The invariant holds in every state.                                     *)

LEMMA InitStep == Init => IInv
<1> SUFFICES ASSUME Init PROVE IInv
  OBVIOUS
<1>1. /\ \A i \in Rows, c \in Cols : ~ Taken(ntloss, i, c) /\ ntloss[i][c] = MaxTurn
      /\ \A p \in Procs : Fresh(nxm[p], slot[p], at[p])
      /\ \A p \in Procs, i \in Rows : nxm[p][i] = NCols + 1
      /\ tofork = Workers /\ awaited = 0 /\ upset = {}
  BY DEF Init, Taken, Fresh
<1>2. pc[Parent] = "fork" /\ \A w \in Workers : pc[w] = "none"
  BY ProcPlaces, ProcsAssumption DEF Init
<1>3. Typed
  <2>1. ntloss \in Grids /\ fate \in [Rows -> [Cols -> Fates]]
    BY DEF Init, Grids
  <2>2. [i \in Rows |-> NCols + 1] \in Bounds
    BY SizeFacts DEF Bounds
  <2>3. [k \in Slots |-> Idle] \in Tracks
    BY DEF Tracks
  <2>4. [k |-> 1, i |-> 1, j |-> NCols] \in Looks
    BY SizeFacts DEF Looks
  <2>5. ini \in [Procs -> BOOLEAN] /\ iw \in [Procs -> 1..NW]
    BY SizeFacts DEF Init
  <2>6. pc \in [Procs \cup Strangers -> States]
    BY DEF Init, States
  <2>7. nxm \in [Procs -> Bounds] /\ slot \in [Procs -> Tracks] /\ at \in [Procs -> Looks]
    BY <2>2, <2>3, <2>4 DEF Init
  <2> QED  BY <1>1, <1>2, <2>1, <2>5, <2>6, <2>7 DEF Typed
<1>4. ProcInv
  <2> SUFFICES ASSUME NEW p \in Procs
               PROVE  ProcOK(ntloss, fate, nxm[p], slot[p], at[p], pc[p], ini[p])
    BY DEF ProcInv
  <2>1. Fresh(nxm[p], slot[p], at[p]) /\ pc[p] \in {"none", "fork"}
    BY <1>1, <1>2 DEF Procs
  <2>2. ProcOK(ntloss, fate, nxm[p], slot[p], at[p], "none", ini[p])
    BY <2>1, FreshFacts
  <2> QED  BY <2>1, <2>2 DEF ProcOK
<1>5. ForkInv
  BY <1>1, <1>2, ProcPlaces DEF ForkInv
<1>6. LossInv /\ SeenInv
  <2>1. \A i \in Rows, c \in Cols : ~ ntloss[i][c] < NTurn /\ ntloss[i][c] # NTurn
    BY <1>1, SizeFacts
  <2> QED  BY <2>1 DEF LossInv, SeenInv
<1>7. ClearInv
  BY <1>1, SizeFacts DEF ClearInv
<1>8. WaitInv
  <2>1. Children = {}
    BY <1>2 DEF Children
  <2>2. Cardinality(Children) = 0
    BY <2>1, FS_EmptySet
  <2> QED  BY <1>1, <2>2, WorkersFinite DEF WaitInv
<1>9. OverInv
  <2> SUFFICES ASSUME NEW p \in Procs
               PROVE  OverOK(ntloss, nxm[p], slot[p], pc[p], p = Parent)
    BY DEF OverInv
  <2>1. CASE p = Parent
    BY <1>2, <2>1 DEF OverOK
  <2>2. CASE p # Parent
    BY <1>1, <2>2, FreshFacts DEF OverOK, Fresh
  <2> QED  BY <2>1, <2>2
<1> QED  BY <1>3, <1>4, <1>5, <1>6, <1>7, <1>8, <1>9 DEF IInv

LEMMA NextStep == IInv /\ [Next]_vars => IInv'
<1> SUFFICES ASSUME IInv, [Next]_vars PROVE IInv'
  OBVIOUS
<1>1. CASE ParentStep \/ WaitInterrupted
  <2>1. ASSUME NEW w \in Workers, Forked(w) \/ SeedFails(w) \/ ForkFails(w)
        PROVE  IInv'
    BY <2>1, ForkStep DEF Forked, SeedFails, ForkFails
  <2> QED  BY <1>1, <2>1, AllForkedStep, SearchStep, WaitStep, WaitNoChildStep,
              WaitInterruptedStep, ProcPlaces DEF ParentStep
<1>2. CASE \E w \in Workers : Search(w) \/ Killed(w)
  BY <1>2, SearchStep, EndStep, ProcPlaces
<1>3. CASE \E c \in Strangers : StrangerEnds(c)
  BY <1>3, EndStep
<1>4. CASE UNCHANGED vars
  <2>1. UNCHANGED <<ntloss, fate, nxm, slot, pc, at, ini, iw, tofork, awaited, upset>>
    BY <1>4 DEF vars
  <2>2. Typed' /\ LossInv' /\ ClearInv' /\ ForkInv'
    BY <2>1 DEF IInv, Typed, LossInv, ClearInv, ForkInv
  <2>3. ProcInv' /\ WaitInv'
    BY <2>1 DEF IInv, ProcInv, WaitInv, Children
  <2>4. upset' = {} => OverInv' /\ SeenInv'
    BY <2>1 DEF IInv, OverInv, SeenInv
  <2> QED  BY <2>2, <2>3, <2>4 DEF IInv
<1> QED  BY <1>1, <1>2, <1>3, <1>4 DEF Next

LEMMA InvariantHolds == Spec => []IInv
<1> QED  BY InitStep, NextStep, PTL DEF Spec

\* Types: every process looks at slots and cells that exist, and the parent
\* never has to wait more often than it has workers (trackd.f).
THEOREM DASearchTypeOK == Spec => []TypeOK
<1>1. IInv => TypeOK
  <2> SUFFICES ASSUME IInv PROVE TypeOK
    OBVIOUS
  <2>1. Typed
    BY DEF IInv
  <2>2. awaited \in 0..Cardinality(Workers)
    <3>1. awaited \in Nat /\ IsFiniteSet(tofork) /\ Cardinality(tofork) \in Nat
      BY <2>1, WorkersFinite DEF Typed
    <3> QED  BY <3>1, WorkersFinite DEF IInv, WaitInv
  <2> QED  BY <2>1, <2>2 DEF Typed, TypeOK, Grids, Bounds, Tracks, States, Turns
<1> QED  BY <1>1, InvariantHolds, PTL

-----------------------------------------------------------------------------
(* What is reported.                                                       *)

Before == {x \in Nat \X Nat : x[1] < x[2]}

LEMMA Least ==
  ASSUME NEW S \in SUBSET Nat, S # {}
  PROVE  \E m \in S : \A d \in S : m <= d
<1>1. IsWellFoundedOn(Before, Nat)
  BY NatLessThanWellFounded DEF OpToRel, Before
<1> HIDE DEF Before
<1>2. PICK m \in S : \A d \in S : ~ (<<d, m>> \in Before)
  BY <1>1, WFMin
<1>3. \A d \in S : ~ d < m
  BY <1>2 DEF Before
<1> QED  BY <1>3

LEMMA Greatest ==
  ASSUME NEW n \in Nat, NEW S \in SUBSET (0..n), S # {}
  PROVE  \E m \in S : \A d \in S : d <= m
<1> DEFINE M == {x \in Nat : n - x \in S}
<1>1. M \in SUBSET Nat
  OBVIOUS
<1>2. \A d \in S : d \in Nat /\ n - d \in M
  OBVIOUS
<1>3. PICK m \in M : \A d \in M : m <= d
  BY <1>1, <1>2, Least
<1>4. n - m \in S /\ m \in Nat
  BY <1>3
<1>5. \A d \in S : m <= n - d /\ d \in Nat
  BY <1>2, <1>3
<1>6. \A d \in S : d <= n - m
  BY <1>4, <1>5
<1> QED  BY <1>4, <1>6

\* If tracking is deterministic, a cell has one outcome.
LEMMA LifeFacts ==
  ASSUME Typed, Certain, NEW i \in Rows, NEW c \in Cols
  PROVE  fate[i][c] = {Life(i, c)} /\ Life(i, c) \in Turns
<1>1. fate[i][c] \in Fates
  BY DEF Typed
<1>2. fate[i][c] \subseteq Turns
  BY <1>1, CellFacts
<1>3. IsFiniteSet(fate[i][c])
  <2>1. 0 \in Int /\ NTurn \in Int
    BY SizeFacts
  <2>2. IsFiniteSet(Turns)
    BY <2>1, FS_Interval DEF Turns
  <2> QED  BY <1>2, <2>2, FS_Subset
<1>4. PICK f : fate[i][c] = {f}
  BY <1>3, FS_Singleton DEF Certain
<1> QED  BY <1>2, <1>4 DEF Life

\* The border one process finds exists: the lowest lost cell has nothing lost
\* below it.
LEMMA SerialFacts ==
  ASSUME Typed, Certain, NEW i \in Rows
  PROVE  /\ SerialBorder(i) \in 1..(NCols + 1)
         /\ Clear(fate, i, SerialBorder(i))
         /\ \A b \in LostCells(i) \cup {NCols + 1} : Clear(fate, i, b) => b <= SerialBorder(i)
<1> DEFINE T == LostCells(i) \cup {NCols + 1}
           IsClear(b) == (b - NCons)..(b - 1) \cap LostCells(i) = {}
           B == {b \in T : IsClear(b)}
<1>1. T \in SUBSET Nat /\ T \subseteq 1..(NCols + 1) /\ NCols + 1 \in T
  BY SizeFacts DEF LostCells, Cols
<1>2. \A b \in T : IsClear(b) <=> Clear(fate, i, b)
  <2> SUFFICES ASSUME NEW b \in T
               PROVE  IsClear(b) <=> Clear(fate, i, b)
    OBVIOUS
  <2>1. b \in Int /\ NCons \in Int
    BY <1>1, SizeFacts
  <2>2. IsClear(b) <=> \A c \in LostCells(i) : ~ (b - NCons <= c /\ c < b)
    <3>1. \A c \in LostCells(i) : c \in Int /\ (c \in (b - NCons)..(b - 1) <=> b - NCons <= c /\ c < b)
      BY <2>1, SizeFacts DEF LostCells
    <3> QED  BY <3>1
  <2>3. \A c \in Cols : c \in LostCells(i) <=> ~ \A f \in fate[i][c] : f = NTurn
    <3> SUFFICES ASSUME NEW c \in Cols
                 PROVE  Life(i, c) < NTurn <=> ~ \A f \in fate[i][c] : f = NTurn
      BY DEF LostCells
    <3>1. fate[i][c] = {Life(i, c)} /\ Life(i, c) \in Turns
      BY LifeFacts
    <3> QED  BY <3>1, SizeFacts
  <2>4. LostCells(i) \subseteq Cols
    BY DEF LostCells
  <2> HIDE DEF IsClear
  <2> QED  BY <2>2, <2>3, <2>4 DEF Clear
<1>3. B # {}
  <2>1. PICK m \in T : \A d \in T : m <= d
    BY <1>1, Least
  <2>2. IsClear(m)
    <3>1. m \in Int /\ \A c \in LostCells(i) : c \in Int /\ m <= c
      BY <1>1, <2>1
    <3>2. \A c \in LostCells(i) : c \notin (m - NCons)..(m - 1)
      BY <3>1, SizeFacts
    <3> QED  BY <3>2
  <2> QED  BY <2>1, <2>2
<1>4. PICK m \in B : \A d \in B : d <= m
  <2>1. NCols + 1 \in Nat /\ B \in SUBSET (0..(NCols + 1))
    BY <1>1, SizeFacts
  <2> HIDE DEF B
  <2> QED  BY <1>3, <2>1, Greatest
<1>5. m \in T /\ IsClear(m) /\ \A d \in T : d > m => ~ IsClear(d)
  <2>1. \A d \in B : ~ d > m
    BY <1>1, <1>4
  <2> QED  BY <2>1
<1> DEFINE b == SerialBorder(i)
<1>6. b \in T /\ IsClear(b) /\ \A d \in T : d > b => ~ IsClear(d)
  <2>1. b = CHOOSE x \in T : IsClear(x) /\ \A d \in T : d > x => ~ IsClear(d)
    BY DEF SerialBorder
  <2> HIDE DEF T, IsClear, b
  <2> QED  BY <1>5, <2>1
<1> HIDE DEF b, IsClear
<1>7. \A d \in T : IsClear(d) => d <= b
  BY <1>1, <1>6
<1> QED  BY <1>1, <1>2, <1>6, <1>7 DEF b

\* A cell taken is one that a single process takes, and a loss written is one
\* it finds (the loops over the columns in trackd.f).
LEMMA SerialOnly ==
  ASSUME IInv, Certain, NEW i \in Rows, NEW c \in Cols
  PROVE  /\ ntloss[i][c] # MaxTurn => c >= SerialBorder(i) - NCons
         /\ ntloss[i][c] < NTurn => ntloss[i][c] = Life(i, c)
<1>1. Typed
  BY DEF IInv
<1>2. ntloss[i][c] # MaxTurn => c >= SerialBorder(i) - NCons
  BY <1>1, SerialFacts DEF IInv, ClearInv, Taken
<1>3. ntloss[i][c] < NTurn => ntloss[i][c] = Life(i, c)
  BY <1>1, LifeFacts DEF IInv, LossInv
<1> QED  BY <1>2, <1>3

\* Nothing is taken or called lost that one process alone would not take or
\* lose, if tracking is deterministic: also while the search goes on, when
\* workers are killed and when the parent reads the grid too early.
THEOREM DASearchOnlySerialCells == Spec => []OnlySerialCells
<1>1. IInv => OnlySerialCells
  BY SerialOnly DEF OnlySerialCells
<1> QED  BY <1>1, InvariantHolds, PTL

\* When the parent prints and nothing upset its waits, every process is over.
LEMMA AllOver ==
  ASSUME IInv, Reported, upset = {}
  PROVE  \A q \in Procs : /\ pc[q] \in {"none", "done"}
                          /\ OverOK(ntloss, nxm[q], slot[q], pc[q], q = Parent)
<1>1. IsFiniteSet(Children) /\ Cardinality(Children) \in Nat
  BY WorkersFinite DEF Children
<1>2. Cardinality(Children) = 0
  BY <1>1 DEF IInv, WaitInv, Reported
<1>3. Children = {}
  BY <1>1, <1>2, FS_EmptySet
<1>4. \A w \in Workers : pc[w] = "none"
  BY <1>3 DEF Children
<1> QED  BY <1>4 DEF IInv, OverInv, Reported, Procs

\* The border of a row is its lowest loss, and its window has been taken and
\* tracked to the end.
LEMMA BorderFacts ==
  ASSUME IInv, Reported, upset = {}, NEW i \in Rows
  PROVE  /\ Border(i) \in LostIn(i) \cup {NCols + 1} /\ Border(i) \in Int
         /\ \A c \in LostIn(i) : Border(i) <= c
         /\ \A c \in Cols : c >= Border(i) - NCons => Taken(ntloss, i, c)
         /\ \A c \in Cols : ntloss[i][c] = NTurn => NTurn \in fate[i][c]
<1> DEFINE T == LostIn(i) \cup {NCols + 1}
           b == Border(i)
<1>1. Typed
  BY DEF IInv
<1>2. T \in SUBSET Nat /\ LostIn(i) \subseteq Cols
  BY SizeFacts DEF LostIn, Cols
<1>3. b \in T /\ \A d \in T : b <= d
  <2>1. PICK m \in T : \A d \in T : m <= d
    BY <1>2, Least
  <2> HIDE DEF T
  <2>2. b = CHOOSE x \in T : \A d \in T : x <= d
    BY DEF Border, LowestIn, T
  <2> QED  BY <2>1, <2>2
<1>4. \A q \in Procs : /\ pc[q] \in {"none", "done"}
                       /\ OverOK(ntloss, nxm[q], slot[q], pc[q], q = Parent)
  BY AllOver
<1>5. \A q \in Procs : nxm[q][i] \in Int /\ nxm[q][i] <= NCols + 1
  BY <1>1, ProcFacts, SizeFacts
<1>6. \E q \in Procs : nxm[q][i] <= b /\ RowTaken(ntloss, nxm[q], i)
  <2>1. CASE b = NCols + 1
    <3>1. RowTaken(ntloss, nxm[Parent], i)
      BY <1>4, ProcPlaces DEF OverOK
    <3> QED  BY <1>5, <2>1, <3>1, ProcPlaces
  <2>2. CASE b \in LostIn(i)
    <3>1. b \in Cols /\ ntloss[i][b] < NTurn
      BY <2>2 DEF LostIn
    <3>2. PICK q \in Procs : SeenBy(nxm[q], at[q], pc[q], i, b)
      BY <3>1 DEF IInv, SeenInv
    <3>3. nxm[q][i] <= b
      BY <1>4, <3>2 DEF SeenBy
    <3>4. nxm[q][i] # NCols + 1
      BY <1>5, <3>1, <3>3, SizeFacts
    <3>5. RowTaken(ntloss, nxm[q], i)
      BY <1>4, <3>4 DEF OverOK
    <3> QED  BY <3>3, <3>5
  <2> QED  BY <1>3, <2>1, <2>2
<1>7. \A c \in Cols : c >= b - NCons => Taken(ntloss, i, c)
  <2>1. PICK q \in Procs : nxm[q][i] <= b /\ RowTaken(ntloss, nxm[q], i)
    BY <1>6
  <2>2. b \in Int
    BY <1>2, <1>3
  <2>3. \A c \in Cols : c >= b - NCons => c >= nxm[q][i] - NCons
    BY <1>5, <2>1, <2>2, SizeFacts
  <2> QED  BY <2>1, <2>3 DEF RowTaken
<1>8. \A c \in Cols : ntloss[i][c] = NTurn => NTurn \in fate[i][c]
  <2>1. \A q \in Procs, c \in Cols : ~ Tracked(slot[q], i, c)
    BY <1>4 DEF OverOK, Tracked
  <2> QED  BY <2>1 DEF IInv, LossInv
<1>9. b \in Int
  BY <1>2, <1>3
<1> QED  BY <1>3, <1>7, <1>8, <1>9

LEMMA RowComplete ==
  ASSUME IInv, Reported, upset = {}, NEW i \in Rows, NEW c \in Cols,
         Border(i) - NCons <= c, c < Border(i)
  PROVE  ntloss[i][c] = NTurn /\ NTurn \in fate[i][c]
<1>1. ntloss \in Grids
  BY DEF IInv, Typed
<1>2. Border(i) \in Int
  BY BorderFacts, SizeFacts DEF LostIn
<1>3. c \notin LostIn(i)
  BY <1>2, BorderFacts, SizeFacts
<1>4. ~ ntloss[i][c] < NTurn /\ Taken(ntloss, i, c)
  BY <1>2, <1>3, BorderFacts, SizeFacts DEF LostIn
<1>5. ntloss[i][c] = NTurn
  BY <1>1, <1>4, GridFacts, SizeFacts
<1> QED  BY <1>5, BorderFacts

\* The rows printed are complete, and the same cells have been tracked with the
\* same outcome as by one process, whatever the order in which the processes
\* read and wrote the grid and whichever forks failed, if no worker is killed,
\* no other child uses up a wait and no signal cuts one short (trackd.f).
THEOREM DASearchReportedRight == Spec => []ReportedRight
<1>1. IInv => Complete
  <2> SUFFICES ASSUME IInv, Reported, upset = {}, NEW i \in Rows, NEW c \in Cols,
                      c \in (Border(i) - NCons)..(Border(i) - 1)
               PROVE  ntloss[i][c] = NTurn /\ NTurn \in fate[i][c]
    BY DEF Complete
  <2>1. Border(i) \in Int
    BY BorderFacts
  <2>2. Border(i) - NCons <= c /\ c < Border(i)
    BY <2>1, SizeFacts
  <2> QED  BY <2>2, RowComplete
<1>2. IInv => EndsLikeSerial
  <2> SUFFICES ASSUME IInv, Reported, upset = {}, Certain, NEW i \in Rows, NEW c \in Cols
               PROVE  ntloss[i][c] = IF c < SerialBorder(i) - NCons THEN MaxTurn ELSE Life(i, c)
    BY DEF EndsLikeSerial
  <2>1. Typed /\ ntloss \in Grids
    BY DEF IInv, Typed
  <2>2. SerialBorder(i) \in Int /\ Border(i) \in Int
    BY <2>1, BorderFacts, SerialFacts, SizeFacts DEF LostIn
  <2>3. Border(i) \in LostCells(i) \cup {NCols + 1}
    <3>1. ASSUME NEW b \in LostIn(i) PROVE b \in LostCells(i)
      <4>1. b \in Cols /\ ntloss[i][b] < NTurn
        BY DEF LostIn
      <4> QED  BY <4>1, SerialOnly DEF LostCells
    <3> QED  BY <3>1, BorderFacts
  <2>4. Clear(fate, i, Border(i))
    <3> SUFFICES ASSUME NEW d \in Cols, Border(i) - NCons <= d, d < Border(i)
                 PROVE  \A f \in fate[i][d] : f = NTurn
      BY DEF Clear
    <3> QED  BY <2>1, LifeFacts, RowComplete
  <2>5. Border(i) <= SerialBorder(i)
    BY <2>1, <2>3, <2>4, SerialFacts
  <2>6. CASE c < SerialBorder(i) - NCons
    <3>1. ~ c >= SerialBorder(i) - NCons
      BY <2>2, <2>6, SizeFacts
    <3> QED  BY <2>6, <3>1, SerialOnly
  <2>7. CASE ~ c < SerialBorder(i) - NCons
    <3>1. c >= Border(i) - NCons
      BY <2>2, <2>5, <2>7, SizeFacts
    <3>2. Taken(ntloss, i, c)
      BY <3>1, BorderFacts
    <3>3. ntloss[i][c] < NTurn \/ ntloss[i][c] = NTurn
      BY <2>1, <3>2, GridFacts, SizeFacts
    <3>4. ntloss[i][c] = NTurn => ntloss[i][c] = Life(i, c)
      BY <2>1, BorderFacts, LifeFacts
    <3> QED  BY <2>7, <3>3, <3>4, SerialOnly
  <2> QED  BY <2>6, <2>7
<1> QED  BY <1>1, <1>2, InvariantHolds, PTL DEF ReportedRight
=============================================================================
