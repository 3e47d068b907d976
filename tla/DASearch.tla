------------------------------ MODULE DASearch ------------------------------
(***************************************************************************)
(* The dynamic-aperture search of trackd.f.                                *)
(*                                                                         *)
(* A grid of initial amplitudes, in memory shared by the parent and the    *)
(* workers it forks, says for how many turns a particle started there      *)
(* survives.  Each process, for itself and without any lock, looks in each *)
(* row from the largest amplitude down for a cell nobody has taken, takes  *)
(* it, tracks a particle from there and writes the outcome.  A row is done *)
(* when the NCons cells below its lowest lost cell have been taken.        *)
(*                                                                         *)
(* One step is one access to the grid; taking a cell is two, a read and a  *)
(* write, so two processes may take the same one.  Tracking itself is      *)
(* abstracted to the number of turns a particle from a cell survives.      *)
(***************************************************************************)
EXTENDS Integers, FiniteSets

CONSTANTS
  Workers,    \* the children the parent may fork
  Strangers,  \* other children the parent may have, that end when they like
  NRows, NCols,  \* n1p and n2p
  NCons,      \* DAPWIDTH
  NSlots,     \* particles a process tracks at a time (npmax)
  NTurn,      \* turns to survive
  MaxTurn,    \* the value of a cell nobody has taken
  NW,         \* turns after which a process with idle slots looks again
  Fates,      \* the outcomes tracking from a cell may have
  MayKill     \* whether a worker may be killed

Parent == 0

ASSUME SizeAssumption ==
  /\ NRows \in Nat \ {0} /\ NCols \in Nat \ {0} /\ NCons \in Nat \ {0}
  /\ NSlots \in Nat \ {0} /\ NTurn \in Nat \ {0} /\ NW \in Nat \ {0}
  /\ MaxTurn \in Nat /\ MaxTurn > NTurn
ASSUME FatesAssumption == Fates \subseteq (SUBSET (0..NTurn)) \ {{}}
ASSUME ProcsAssumption ==
  IsFiniteSet(Workers) /\ Parent \notin Workers \cup Strangers /\ Workers \cap Strangers = {}

Procs == Workers \cup {Parent}
Rows  == 1..NRows
Cols  == 1..NCols
Slots == 1..NSlots

VARIABLES
  ntloss,   \* the grid
  fate,     \* the outcomes possible in each cell
  nxm,      \* the lowest lost cell a process has seen, by row
  slot,     \* kzx and mturn: the particles of a process
  pc,       \* where a process is
  at,       \* the slot and the cell it looks at
  ini,      \* whether a slot became idle in this turn
  iw,       \* turns until it looks again
  tofork,   \* workers the parent has not tried to fork yet
  awaited,  \* waits the parent has to do
  upset     \* workers killed, strangers that used up a wait, and the parent if
            \* a signal cut one short

vars == <<ntloss, fate, nxm, slot, pc, at, ini, iw, tofork, awaited, upset>>

Idle == [row |-> 0, col |-> 0, mturn |-> 0, life |-> 0]

Init ==
  /\ ntloss = [i \in Rows |-> [c \in Cols |-> MaxTurn]]
  /\ fate \in [Rows -> [Cols -> Fates]]
  /\ nxm = [p \in Procs |-> [i \in Rows |-> NCols + 1]]
  /\ slot = [p \in Procs |-> [k \in Slots |-> Idle]]
  /\ \E S \in SUBSET Strangers :
       pc = [p \in Procs \cup Strangers |->
               IF p = Parent THEN "fork" ELSE IF p \in S THEN "run" ELSE "none"]
  /\ at = [p \in Procs |-> [k |-> 1, i |-> 1, j |-> NCols]]
  /\ ini = [p \in Procs |-> FALSE]
  /\ iw = [p \in Procs |-> NW]
  /\ tofork = Workers
  /\ awaited = 0
  /\ upset = {}

-----------------------------------------------------------------------------
\* Fault: the parent does not wait for the workers.
ForkUnawaited(w, start) ==
  /\ pc[Parent] = "fork" /\ w \in tofork
  /\ tofork' = tofork \ {w}
  /\ pc' = [pc EXCEPT ![w] = start]
  /\ UNCHANGED <<ntloss, fate, nxm, slot, at, ini, iw, awaited, upset>>

\* A worker starts when it is forked; it may fail to seed its generator, and
\* stops.  A fork that fails counts as a worker to wait for.
Fork(w, start) ==
  /\ pc[Parent] = "fork" /\ w \in tofork
  /\ tofork' = tofork \ {w}
  /\ awaited' = awaited + 1
  /\ pc' = [pc EXCEPT ![w] = start]
  /\ UNCHANGED <<ntloss, fate, nxm, slot, at, ini, iw, upset>>

Forked(w)     == Fork(w, "scan")
SeedFails(w)  == Fork(w, "done")
ForkFails(w)  == Fork(w, "none")

AllForked ==
  /\ pc[Parent] = "fork" /\ tofork = {}
  /\ pc' = [pc EXCEPT ![Parent] = "scan"]
  /\ UNCHANGED <<ntloss, fate, nxm, slot, at, ini, iw, tofork, awaited, upset>>

-----------------------------------------------------------------------------
Busy(p) == {k \in Slots : slot[p][k] # Idle}
OnlyLocal == UNCHANGED <<ntloss, fate, tofork, awaited, upset>>

\* A process goes on with slot k, from the top of the first row.
LookFrom(p, k) == at' = [at EXCEPT ![p] = [k |-> k, i |-> 1, j |-> nxm[p][1] - 1]]

\* LOOP_K over: the particles launched are tracked, if there are any.
Track(p) ==
  /\ pc' = [pc EXCEPT ![p] = IF Busy(p) = {} THEN "done" ELSE "turn"]
  /\ at' = [at EXCEPT ![p].k = 1]
  /\ ini' = [ini EXCEPT ![p] = FALSE]
  /\ UNCHANGED <<nxm, slot, iw>>

\* A slot that has its particle, or all slots looked at.
SkipSlot(p) ==
  /\ pc[p] = "scan"
  /\ \/ /\ at[p].k \in Busy(p)
        /\ LookFrom(p, at[p].k + 1)
        /\ UNCHANGED <<nxm, slot, pc, ini, iw>>
     \/ at[p].k > NSlots /\ Track(p)
  /\ OnlyLocal

Scanning(p) == pc[p] = "scan" /\ at[p].k \in Slots \ Busy(p)
\* Fault: one cell too many below the lowest lost one.
InWindowWide(p) == at[p].j >= 1 /\ at[p].j >= nxm[p][at[p].i] - NCons - 1

InWindow(p) == at[p].j >= 1 /\ at[p].j >= nxm[p][at[p].i] - NCons

\* Nothing to take in this row; after the last row (remain = .false.) no
\* slot that is idle gets a particle.
RowDone(p) ==
  /\ Scanning(p) /\ ~ InWindow(p)
  /\ \/ /\ at[p].i < NRows
        /\ at' = [at EXCEPT ![p].i = @ + 1, ![p].j = nxm[p][at[p].i + 1] - 1]
        /\ UNCHANGED <<nxm, slot, pc, ini, iw>>
     \/ at[p].i = NRows /\ Track(p)
  /\ OnlyLocal

\* Fault: a cell taken is seen as lost.
LookTakenLost(p) ==
  /\ Scanning(p) /\ InWindow(p)
  /\ LET i == at[p].i
         j == at[p].j
     IN  \/ /\ ntloss[i][j] <= NTurn
            /\ nxm' = [nxm EXCEPT ![p][i] = j]
            /\ at' = [at EXCEPT ![p].j = j - 1]
            /\ UNCHANGED pc
         \/ /\ ntloss[i][j] = MaxTurn
            /\ pc' = [pc EXCEPT ![p] = "take"]
            /\ UNCHANGED <<nxm, at>>
  /\ UNCHANGED <<slot, ini, iw>> /\ OnlyLocal

\* The cell is read.
Look(p) ==
  /\ Scanning(p) /\ InWindow(p)
  /\ LET i == at[p].i
         j == at[p].j
     IN  \/ /\ ntloss[i][j] < NTurn
            /\ nxm' = [nxm EXCEPT ![p][i] = j]
            /\ at' = [at EXCEPT ![p].j = j - 1]
            /\ UNCHANGED pc
         \/ /\ ntloss[i][j] = MaxTurn
            /\ pc' = [pc EXCEPT ![p] = "take"]
            /\ UNCHANGED <<nxm, at>>
         \/ /\ ntloss[i][j] = NTurn
            /\ at' = [at EXCEPT ![p].j = j - 1]
            /\ UNCHANGED <<nxm, pc>>
  /\ UNCHANGED <<slot, ini, iw>> /\ OnlyLocal

\* The cell was free when it was read: it is taken, and a particle launched.
Take(p) ==
  /\ pc[p] = "take"
  /\ ntloss' = [ntloss EXCEPT ![at[p].i][at[p].j] = NTurn]
  /\ \E f \in fate[at[p].i][at[p].j] :
       slot' = [slot EXCEPT ![p][at[p].k] =
                  [row |-> at[p].i, col |-> at[p].j, mturn |-> 0, life |-> f]]
  /\ pc' = [pc EXCEPT ![p] = "scan"]
  /\ LookFrom(p, at[p].k + 1)
  /\ UNCHANGED <<fate, nxm, ini, iw, tofork, awaited, upset>>

-----------------------------------------------------------------------------
\* After a turn the particles are looked at in order of their slots; the
\* outcome of one that is lost, or has made all its turns, is written.
NextSlot(p) == at' = [at EXCEPT ![p].k = @ + 1]

Outcome(p, value) ==
  LET s == slot[p][at[p].k] IN
  /\ ntloss' = [ntloss EXCEPT ![s.row][s.col] = value]
  /\ slot' = [slot EXCEPT ![p][at[p].k] = Idle]
  /\ ini' = [ini EXCEPT ![p] = TRUE]

Lost(p) ==
  /\ pc[p] = "turn" /\ at[p].k \in Busy(p)
  /\ slot[p][at[p].k].life = slot[p][at[p].k].mturn
  /\ Outcome(p, slot[p][at[p].k].mturn)
  /\ NextSlot(p)
  /\ UNCHANGED <<fate, nxm, pc, iw, tofork, awaited, upset>>

\* Fault: a turn too many.
SurvivesLonger(p) ==
  /\ pc[p] = "turn" /\ at[p].k \in Busy(p)
  /\ slot[p][at[p].k].life > slot[p][at[p].k].mturn
  /\ \/ slot[p][at[p].k].mturn + 1 > NTurn /\ Outcome(p, NTurn)
     \/ /\ slot[p][at[p].k].mturn + 1 <= NTurn
        /\ slot' = [slot EXCEPT ![p][at[p].k].mturn = @ + 1]
        /\ UNCHANGED <<ntloss, ini>>
  /\ NextSlot(p)
  /\ UNCHANGED <<fate, nxm, pc, iw, tofork, awaited, upset>>

Survives(p) ==
  /\ pc[p] = "turn" /\ at[p].k \in Busy(p)
  /\ slot[p][at[p].k].life > slot[p][at[p].k].mturn
  /\ \/ slot[p][at[p].k].mturn + 1 >= NTurn /\ Outcome(p, NTurn)
     \/ /\ slot[p][at[p].k].mturn + 1 < NTurn
        /\ slot' = [slot EXCEPT ![p][at[p].k].mturn = @ + 1]
        /\ UNCHANGED <<ntloss, ini>>
  /\ NextSlot(p)
  /\ UNCHANGED <<fate, nxm, pc, iw, tofork, awaited, upset>>

NotTracked(p) ==
  /\ pc[p] = "turn" /\ at[p].k \in Slots \ Busy(p)
  /\ NextSlot(p)
  /\ UNCHANGED <<ntloss, fate, nxm, slot, pc, ini, iw, tofork, awaited, upset>>

\* When a slot became idle the process looks for work at once, otherwise,
\* if it has idle slots, every NW turns.
Again(p) ==
  /\ pc' = [pc EXCEPT ![p] = "scan"]
  /\ LookFrom(p, 1)
  /\ iw' = [iw EXCEPT ![p] = NW]
  /\ UNCHANGED <<nxm, slot, ini>>

TurnDone(p) ==
  /\ pc[p] = "turn" /\ at[p].k > NSlots
  /\ \/ (ini[p] \/ (Busy(p) # Slots /\ iw[p] <= 1)) /\ Again(p)
     \/ /\ ~ ini[p] /\ (Busy(p) = Slots \/ iw[p] > 1)
        /\ iw' = [iw EXCEPT ![p] = IF Busy(p) = Slots THEN @ ELSE @ - 1]
        /\ at' = [at EXCEPT ![p].k = 1]
        /\ UNCHANGED <<nxm, slot, pc, ini>>
  /\ OnlyLocal

-----------------------------------------------------------------------------
\* The parent waits as many times as it has forked.  A child that is not one
\* of its workers uses up a wait; with no child left waitpid returns -1,
\* which is also what the failed forks left in the table of workers.
Waiting == pc[Parent] = "done" /\ awaited > 0

Wait(c) ==
  /\ Waiting /\ pc[c] = "done"
  /\ awaited' = awaited - 1
  /\ pc' = [pc EXCEPT ![c] = "none"]
  /\ upset' = IF c \in Strangers THEN upset \cup {c} ELSE upset
  /\ UNCHANGED <<ntloss, fate, nxm, slot, at, ini, iw, tofork>>

\* Fault: a wait without children is tried again.
WaitNoChildAgain ==
  /\ Waiting /\ \A c \in Workers \cup Strangers : pc[c] = "none"
  /\ UNCHANGED vars

WaitNoChild ==
  /\ Waiting /\ \A c \in Workers \cup Strangers : pc[c] = "none"
  /\ awaited' = awaited - 1
  /\ UNCHANGED <<ntloss, fate, nxm, slot, pc, at, ini, iw, tofork, upset>>

\* A signal whose handler does not restart calls cuts a wait short: waitpid
\* returns -1 although there are children, and is not called again.
WaitInterrupted ==
  /\ Waiting /\ \E c \in Workers \cup Strangers : pc[c] # "none"
  /\ awaited' = awaited - 1
  /\ upset' = upset \cup {Parent}
  /\ UNCHANGED <<ntloss, fate, nxm, slot, pc, at, ini, iw, tofork>>

StrangerEnds(c) ==
  /\ pc[c] = "run"
  /\ pc' = [pc EXCEPT ![c] = "done"]
  /\ UNCHANGED <<ntloss, fate, nxm, slot, at, ini, iw, tofork, awaited, upset>>

\* A worker is killed, with the cells it has taken.
Killed(w) ==
  /\ MayKill /\ pc[w] \in {"scan", "take", "turn"}
  /\ pc' = [pc EXCEPT ![w] = "done"]
  /\ upset' = upset \cup {w}
  /\ UNCHANGED <<ntloss, fate, nxm, slot, at, ini, iw, tofork, awaited>>

Search(p) == \/ SkipSlot(p) \/ RowDone(p) \/ Look(p) \/ Take(p)
             \/ Lost(p) \/ Survives(p) \/ NotTracked(p) \/ TurnDone(p)

ParentStep ==
  \/ \E w \in Workers : Forked(w) \/ SeedFails(w) \/ ForkFails(w)
  \/ AllForked
  \/ Search(Parent)
  \/ \E c \in Workers \cup Strangers : Wait(c)
  \/ WaitNoChild

Next ==
  \/ ParentStep \/ WaitInterrupted
  \/ \E w \in Workers : Search(w) \/ Killed(w)
  \/ \E c \in Strangers : StrangerEnds(c)

\* Each process runs; a stranger need not end, and no signal need come.
Spec == /\ Init /\ [][Next]_vars
        /\ WF_vars(ParentStep) /\ \A w \in Workers : WF_vars(Search(w))

-----------------------------------------------------------------------------
Cell == [row : Rows, col : Cols, mturn : 0..(NTurn - 1), life : 0..NTurn]

\* Types.
TypeOK ==
  /\ ntloss \in [Rows -> [Cols -> 0..NTurn \cup {MaxTurn}]]
  /\ nxm \in [Procs -> [Rows -> 1..(NCols + 1)]]
  /\ slot \in [Procs -> [Slots -> Cell \cup {Idle}]]
  /\ pc \in [Procs \cup Strangers -> {"none", "fork", "scan", "take", "turn", "run", "done"}]
  /\ awaited \in 0..Cardinality(Workers) /\ iw \in [Procs -> 1..NW]

\* The parent prints the rows: what is in the grid then is the result.
Reported == pc[Parent] = "done" /\ awaited = 0

LowestIn(S) == CHOOSE c \in S : \A d \in S : c <= d
LostIn(i)   == {c \in Cols : ntloss[i][c] < NTurn}
Border(i)   == LowestIn(LostIn(i) \cup {NCols + 1})

\* The rows are complete when they are printed: the NCons cells below the
\* lowest lost one have all been tracked to the end and survived, although
\* a process may stop while others still track, and even if forks fail, unless
\* a worker was killed or a wait used up by something else (upset).
Complete ==
  Reported /\ upset = {} =>
    \A i \in Rows, c \in Cols :
      c \in (Border(i) - NCons)..(Border(i) - 1) => ntloss[i][c] = NTurn /\ NTurn \in fate[i][c]

\* What one process alone finds, if tracking is deterministic: the highest
\* lost cell with NCons cells below it that survive.
Certain   == \A i \in Rows, c \in Cols : Cardinality(fate[i][c]) = 1
Life(i, c) == CHOOSE f \in fate[i][c] : TRUE
LostCells(i) == {c \in Cols : Life(i, c) < NTurn}
SerialBorder(i) ==
  CHOOSE b \in LostCells(i) \cup {NCols + 1} :
    /\ (b - NCons)..(b - 1) \cap LostCells(i) = {}
    /\ \A d \in LostCells(i) \cup {NCols + 1} :
         d > b => (d - NCons)..(d - 1) \cap LostCells(i) # {}

\* Nothing else is ever taken, and nothing else called lost, even if workers
\* are killed or the parent reads the grid too early: the aperture reported
\* may then be too large but never too small.
OnlySerialCells ==
  Certain =>
    \A i \in Rows, c \in Cols :
      /\ ntloss[i][c] # MaxTurn => c >= SerialBorder(i) - NCons
      /\ ntloss[i][c] < NTurn => ntloss[i][c] = Life(i, c)

\* The result does not depend on who took which cell when: the same cells
\* are tracked, with the same outcome, as by one process.
EndsLikeSerial ==
  Reported /\ upset = {} /\ Certain =>
    \A i \in Rows, c \in Cols :
      ntloss[i][c] = IF c < SerialBorder(i) - NCons THEN MaxTurn ELSE Life(i, c)

\* The aperture reported is that of one process, and its border is tracked.
ReportedRight == Complete /\ EndsLikeSerial

\* The parent prints its result if its other children end: it waits once for
\* every fork, also for one that failed, and trackd must not wait for ever.
Terminates == (\A c \in Strangers : <>(pc[c] # "run")) => <>Reported
=============================================================================
