----------------------------- MODULE WorkerPool -----------------------------
(***************************************************************************)
(* The places that divide work among forked processes.  The units of work  *)
(* are divided in shares; each worker does one and ends, the parent does   *)
(* another, waits for the workers and uses what all have done.             *)
(*                                                                         *)
(*   NumDerv   numerical derivatives, tffsmatch.f: columns                 *)
(*   EVDeriv   derivatives of further conditions, tffsmatch.f: columns     *)
(*   Qu        analytical derivatives, tffsqu in tffsmatch.f: columns      *)
(*   Track     tftrack.f: particles                                        *)
(*   Spectrum  tlspect in tlinit.f: wave numbers, results in files         *)
(*   OffMom    tffscalc.f: momenta and families of particles, one worker   *)
(*                                                                         *)
(* The first four wait in tffswait; they differ, and the others more, in   *)
(* who has which share, in what they do when a fork fails, and in what     *)
(* they make of a worker that stops.  Doing a unit is one step: no other   *)
(* process looks at it, which is what OneWriter says.                      *)
(***************************************************************************)
EXTENDS Integers, FiniteSets

CONSTANTS
  Sites,      \* the places looked at
  NVar,       \* columns, particles or wave numbers (nvar, npz, na)
  NParallel,  \* processes allowed (nparallel)
  NFr,        \* momenta on each side (nfr)
  Jfam,       \* the momentum each family belongs to (jfam)
  Strangers,  \* other children the parent may have, that end when they like
  MayFail     \* whether forks may fail, workers may end abnormally and a
              \* handler of the script may wait for a worker

Matching  == {"NumDerv", "EVDeriv", "Qu"}
Momenta   == (-NFr..NFr) \ {0}
Families  == DOMAIN Jfam

ASSUME SizeAssumption == NVar \in Nat \ {0} /\ NParallel \in Nat \ {0} /\ NFr \in Nat
ASSUME SitesAssumption == Sites \subseteq Matching \cup {"Track", "Spectrum", "OffMom"}
ASSUME FamiliesAssumption ==
  /\ Families \subseteq Int \ (-NFr..NFr) /\ Jfam \in [Families -> -NFr..NFr]

Parent  == 0
Workers == 1..(NParallel - 1)
Procs   == Workers \cup {Parent}

ASSUME StrangersAssumption == Strangers \cap Procs = {} /\ -1 \notin Strangers

VARIABLES
  site,    \* where it happens
  pc,      \* where each process is
  ip,      \* workers the parent has tried to fork
  todo,    \* the units a process has still to do
  done,    \* the units a process has done
  npr,     \* the table of workers: their ids, -1 after a failed fork, 0 if
           \* there is none or it was waited for
  ipr,     \* what the last fork returned to the parent
  status,  \* the exit status of a child: 0, or 1 for any other
  waits,   \* workers the parent has still to wait for
  irtc,    \* the parent's error code
  absent,  \* shares whose worker was not forked or had no random numbers
  stolen   \* workers a handler of the script has waited for

vars == <<site, pc, ip, todo, done, npr, ipr, status, waits, irtc, absent, stolen>>

-----------------------------------------------------------------------------
npa == IF NVar < NParallel THEN NVar ELSE NParallel

\* The steps between two units of a share.
Stride(s) == IF s = "Spectrum" /\ NVar < NParallel THEN 1 ELSE npa

np1 == NVar \div NParallel + 1

Units(s) == IF s = "OffMom" THEN Momenta \cup Families ELSE 1..NVar

\* Fault: the worker does all families.
PositiveAllFamilies == {u \in Momenta : u > 0} \cup Families

\* What the worker of tffscalc does; the parent does the rest.
Positive == {u \in Momenta : u > 0} \cup {f \in Families : Jfam[f] >= 0}

\* Share k of the units.  Particles are divided in consecutive ranges.
Share(s, k) ==
  CASE s = "OffMom" -> IF k = 1 THEN Positive ELSE Units(s) \ Positive
    [] s = "Track"  -> {u \in Units(s) : (k - 1) * np1 < u /\ u <= k * np1}
    [] OTHER        -> {u \in Units(s) : u >= k /\ (u - k) % Stride(s) = 0}

\* tffscalc starts from the momentum next to one, or that of a family.
Base(u) == IF u \in Families THEN Jfam[u] ELSE IF u > 0 THEN u - 1 ELSE u + 1

\* The order of the units in a process: momenta outwards, then families.
Earlier(u, v) ==
  IF site # "OffMom" THEN u < v
  ELSE \/ u \in Momenta /\ v \in Families
       \/ u \in Families /\ v \in Families /\ u < v
       \/ u \in Momenta /\ v \in Momenta /\ \/ u > 0 /\ v < 0
                                            \/ 0 < u /\ u < v
                                            \/ v < u /\ u < 0

Init ==
  /\ site \in Sites
  /\ \E S \in SUBSET Strangers :
       pc = [p \in Procs \cup Strangers |->
               IF p = Parent THEN "fork" ELSE IF p \in S THEN "run" ELSE "none"]
  /\ ip = 0
  /\ todo = [p \in Procs |-> {}]
  /\ done = [p \in Procs |-> {}]
  /\ \E g \in IF site = "Spectrum" THEN {0, -1} ELSE {0} : npr = [w \in Workers |-> g]
  /\ ipr = IF site = "Spectrum" THEN 1 ELSE -1
  /\ status = [p \in Workers \cup Strangers |-> 0]
  /\ waits = 0
  /\ irtc = 0
  /\ absent = {}
  /\ stolen = {}

-----------------------------------------------------------------------------
\* Fault: a worker too many.
ForkingMore ==
  pc[Parent] = "fork" /\ CASE site \in Matching -> ip < npa
                           [] site = "Track"    -> ip * np1 < NVar
                           [] site = "Spectrum" -> NVar >= NParallel /\ ip + 1 < NParallel /\ ipr > 0
                           [] site = "OffMom"   -> NParallel > 1 /\ ip < 1

\* Whether another worker is forked.  Only tlspect stops when a fork fails.
Forking ==
  pc[Parent] = "fork" /\ CASE site \in Matching -> ip < npa - 1
                           [] site = "Track"    -> ip * np1 + np1 < NVar
                           [] site = "Spectrum" -> NVar >= NParallel /\ ip + 1 < NParallel /\ ipr > 0
                           [] site = "OffMom"   -> NParallel > 1 /\ ip < 1

\* One more worker; it knows its share.
Fork ==
  /\ Forking
  /\ ip' = ip + 1
  /\ todo' = [todo EXCEPT ![ip + 1] = Share(site, ip + 1)]
  /\ npr' = [npr EXCEPT ![ip + 1] = ip + 1]
  /\ ipr' = ip + 1
  /\ pc' = [pc EXCEPT ![ip + 1] = "work"]
  /\ UNCHANGED <<site, done, status, waits, irtc, absent, stolen>>

ForkFails ==
  /\ MayFail /\ Forking
  /\ ipr' = -1
  /\ absent' = absent \cup {ip + 1}
  /\ IF site = "Spectrum" THEN UNCHANGED <<ip, npr>>
     ELSE ip' = ip + 1 /\ npr' = [npr EXCEPT ![ip + 1] = -1]
  /\ UNCHANGED <<site, pc, todo, done, status, waits, irtc, stolen>>

\* Fault: tffsmatch leaves the last share to the worker that was not forked.
ForkedNotAgain ==
  /\ pc[Parent] = "fork" /\ ~ Forking
  /\ todo' = [todo EXCEPT ![Parent] =
                IF site = "OffMom" /\ ipr = -1 THEN Units(site) ELSE Share(site, ip + 1)]
  /\ pc' = [pc EXCEPT ![Parent] = "work"]
  /\ UNCHANGED <<site, ip, done, npr, ipr, status, waits, irtc, absent, stolen>>

\* Fault: the parent takes the share of the last worker.
ForkedSameShare ==
  /\ pc[Parent] = "fork" /\ ~ Forking
  /\ todo' = [todo EXCEPT ![Parent] =
                IF site = "OffMom" /\ ipr = -1 THEN Units(site) ELSE Share(site, ip)]
  /\ pc' = [pc EXCEPT ![Parent] = "work"]
  /\ UNCHANGED <<site, ip, done, npr, ipr, status, waits, irtc, absent, stolen>>

\* The share of the parent is the next one; tffsmatch takes the last one
\* tried again if that fork failed, and tffscalc does all itself.
Forked ==
  /\ pc[Parent] = "fork" /\ ~ Forking
  /\ LET again == site \in {"NumDerv", "EVDeriv"} /\ npa > 1 /\ ipr = -1
     IN  todo' = [todo EXCEPT ![Parent] =
                    IF site = "OffMom" /\ ipr = -1 THEN Units(site)
                    ELSE Share(site, IF again THEN ip ELSE ip + 1)]
  /\ pc' = [pc EXCEPT ![Parent] = "work"]
  /\ UNCHANGED <<site, ip, done, npr, ipr, status, waits, irtc, absent, stolen>>

\* The first of the units left is done.
DoUnit(p, u) ==
  /\ \A v \in todo[p] : ~ Earlier(v, u)
  /\ todo' = [todo EXCEPT ![p] = @ \ {u}]
  /\ done' = [done EXCEPT ![p] = @ \cup {u}]

\* EVDeriv remembers an error; that of a worker, whose irtc is its own, is not
\* seen by the parent.
Do(p) ==
  /\ pc[p] = "work"
  /\ \E u \in todo[p] : DoUnit(p, u)
  /\ irtc' \in IF site = "EVDeriv" /\ p = Parent THEN {irtc, 20003} ELSE {irtc}
  /\ UNCHANGED <<site, pc, ip, npr, ipr, status, waits, absent, stolen>>

\* A worker ends; those of tlspect and tffscalc leave their results first.
WorkerEnds(w) ==
  /\ pc[w] = "work" /\ todo[w] = {}
  /\ pc' = [pc EXCEPT ![w] = "ended"]
  /\ UNCHANGED <<site, ip, todo, done, npr, ipr, status, waits, irtc, absent, stolen>>

\* It stops before that: killed, or an error.  Columns and particles are in
\* shared memory, the other results are lost with it.
WorkerStops(w) ==
  /\ MayFail /\ pc[w] = "work"
  /\ pc' = [pc EXCEPT ![w] = "ended"]
  /\ status' = [status EXCEPT ![w] = 1]
  /\ done' = [done EXCEPT ![w] = IF site \in {"Spectrum", "OffMom"} THEN {} ELSE @]
  /\ UNCHANGED <<site, ip, todo, npr, ipr, waits, irtc, absent, stolen>>

\* The generator of random numbers cannot be seeded: the worker of tftrack
\* ends as if it had done its share.
SeedFails(w) ==
  /\ MayFail /\ site = "Track" /\ pc[w] = "work" /\ done[w] = {}
  /\ pc' = [pc EXCEPT ![w] = "ended"]
  /\ absent' = absent \cup {w}
  /\ UNCHANGED <<site, ip, todo, done, npr, ipr, status, waits, irtc, stolen>>

StrangerEnds(c) ==
  /\ pc[c] = "run"
  /\ \E s \in {0, 1} : status' = [status EXCEPT ![c] = s]
  /\ pc' = [pc EXCEPT ![c] = "ended"]
  /\ UNCHANGED <<site, ip, todo, done, npr, ipr, waits, irtc, absent, stolen>>

\* A signal handler of the script, in the parent, calls Wait[].
Steal(w) ==
  /\ MayFail /\ pc[Parent] \in {"fork", "work", "wait"} /\ pc[w] = "ended"
  /\ pc' = [pc EXCEPT ![w] = "none"]
  /\ stolen' = stolen \cup {w}
  /\ UNCHANGED <<site, ip, todo, done, npr, ipr, status, waits, irtc, absent>>

-----------------------------------------------------------------------------
\* tffswait, and tffscalc, wait only if the last fork succeeded; tffswait
\* then forgets errors of the parent.  tlspect waits for all it should have
\* forked.
ParentDone ==
  /\ pc[Parent] = "work" /\ todo[Parent] = {}
  /\ waits' = IF site = "Spectrum" THEN IF NVar >= NParallel THEN NParallel - 1 ELSE 0
              ELSE IF ipr > 0 THEN ip ELSE 0
  /\ irtc' = IF ipr > 0 THEN 0 ELSE irtc
  /\ pc' = [pc EXCEPT ![Parent] = IF waits' > 0 THEN "wait" ELSE "use"]
  /\ UNCHANGED <<site, ip, todo, done, npr, ipr, status, absent, stolen>>

\* Where everybody is after a wait for id, entry k of the table.  tlspect reads the
\* file of worker k then, without which the program stops.
After(id, k, s) ==
  [c \in DOMAIN pc |->
     IF c = id THEN "none"
     ELSE IF c # Parent THEN pc[c]
     ELSE IF site = "Spectrum" /\ (id # k \/ s # 0) THEN "stopped"
     ELSE IF waits = 1 THEN "use" ELSE "wait"]

\* Fault: the status of a worker is ignored.
MatchedAnyStatus(id, s) ==
  \E k \in Workers :
    /\ npr[k] = id /\ \A l \in 1..(k - 1) : npr[l] # id
    /\ npr' = [npr EXCEPT ![k] = 0]
    /\ waits' = waits - 1
    /\ irtc' = irtc
    /\ pc' = After(id, k, s)

\* A wait is over when the id is in the table.  tffswait notes the status,
\* tffscalc writes a message (irtc = 1 here).
Matched(id, s) ==
  \E k \in Workers :
    /\ npr[k] = id /\ \A l \in 1..(k - 1) : npr[l] # id
    /\ npr' = [npr EXCEPT ![k] = 0]
    /\ waits' = waits - 1
    /\ irtc' = IF s = 0 \/ site = "Spectrum" THEN irtc
               ELSE IF site = "OffMom" THEN 1 ELSE 20003
    /\ pc' = After(id, k, s)

Wait(w) ==
  /\ pc[Parent] = "wait" /\ pc[w] = "ended"
  /\ Matched(w, status[w])
  /\ UNCHANGED <<site, ip, todo, done, ipr, status, absent, stolen>>

\* Fault: any child counts.
WaitStrangerCounts(c) ==
  /\ pc[Parent] = "wait" /\ pc[c] = "ended"
  /\ waits' = waits - 1
  /\ pc' = [pc EXCEPT ![c] = "none", ![Parent] = IF waits = 1 THEN "use" ELSE @]
  /\ UNCHANGED <<site, ip, todo, done, npr, ipr, status, irtc, absent, stolen>>

\* Another child is waited for, a message written, and the wait goes on.
WaitStranger(c) ==
  /\ pc[Parent] = "wait" /\ pc[c] = "ended"
  /\ pc' = [pc EXCEPT ![c] = "none"]
  /\ UNCHANGED <<site, ip, todo, done, npr, ipr, status, waits, irtc, absent, stolen>>

NoChild == \A c \in Workers \cup Strangers : pc[c] = "none"

\* Fault: the -1 of waitpid is not looked for in the table.
WaitNoChildLost ==
  /\ pc[Parent] = "wait" /\ NoChild
  /\ UNCHANGED vars

\* With no child left waitpid returns -1 and a status nobody has set.  The
\* id matches a failed fork, if there was one, or a word of ichpid that
\* tlspect has not set.
WaitNoChild ==
  /\ pc[Parent] = "wait" /\ NoChild
  /\ \E s \in {0, 1} : Matched(-1, s)
  /\ UNCHANGED <<site, ip, todo, done, ipr, status, absent, stolen>>

\* A signal whose handler does not restart calls has the same effect while
\* there are children; only the status is another.
WaitInterrupted ==
  /\ pc[Parent] = "wait" /\ ~ NoChild
  /\ \E s \in {0, 1} : Matched(-1, s)
  /\ UNCHANGED <<site, ip, todo, done, ipr, status, absent, stolen>>

ParentStep ==
  \/ Fork \/ ForkFails \/ Forked \/ Do(Parent) \/ ParentDone
  \/ \E w \in Workers : Wait(w)
  \/ \E c \in Strangers : WaitStranger(c)
  \/ WaitNoChild

WorkerStep(w) == Do(w) \/ WorkerEnds(w)

Next ==
  \/ ParentStep \/ WaitInterrupted
  \/ \E w \in Workers : WorkerStep(w) \/ WorkerStops(w) \/ SeedFails(w) \/ Steal(w)
  \/ \E c \in Strangers : StrangerEnds(c)

\* Each process runs; a stranger need not end, and no signal need come.
Spec == /\ Init /\ [][Next]_vars
        /\ WF_vars(ParentStep) /\ \A w \in Workers : WF_vars(WorkerStep(w))

-----------------------------------------------------------------------------
Used == pc[Parent] = "use"

\* Then the parent waits for nobody, not even for the workers it has, except
\* in tlspect, which does not look at what fork has returned.
LastForkFailed == site # "Spectrum" /\ ip > 0 /\ ipr = -1

\* The shares that are nobody's: of workers that could not be forked or
\* seeded.  If the last fork failed, tffscalc does all itself, and the parent
\* of tffsmatch does the share of that worker and leaves its own.
Deserted ==
  CASE LastForkFailed /\ site = "OffMom" -> {}
    [] LastForkFailed /\ site \in {"NumDerv", "EVDeriv"} -> (absent \ {ip}) \cup {ip + 1}
    [] OTHER -> absent

\* Types.  No place forks more than NParallel - 1 workers.
TypeOK ==
  /\ pc \in [Procs \cup Strangers ->
               {"none", "run", "fork", "work", "ended", "wait", "use", "stopped"}]
  /\ ip \in 0..(NParallel - 1) /\ ipr \in {-1, 1} \cup Workers
  /\ todo \in [Procs -> SUBSET Units(site)] /\ done \in [Procs -> SUBSET Units(site)]
  /\ npr \in [Workers -> {-1, 0} \cup Workers]
  /\ waits \in 0..(NParallel - 1) /\ irtc \in {0, 1, 20003}

\* No unit is done by two processes, even if forks fail: the shares of the
\* parent and the workers are disjoint.
OneWriter == \A p, q \in Procs : p # q => done[p] \cap done[q] = {}

\* What a process of tffscalc starts from it has computed itself: the state
\* of a momentum (optstat) is not shared, and a family needs that of its own.
OwnBase ==
  site = "OffMom" =>
    \A p \in Procs : \A u \in done[p] : Base(u) \in done[p] \cup {0}

\* If the parent knows of no error, the units missing from the result it uses
\* are those of deserted shares and, only if the last fork failed, those that
\* workers have still to do or have stopped before.  In all other cases a
\* worker that stops is noticed, although waits may be cut short, taken by
\* the script or used up by other children.
MissingIsDeserted ==
  Used /\ irtc = 0 =>
    \A u \in Units(site) :
      (\A p \in Procs : u \notin done[p]) =>
        \/ \E k \in Deserted : u \in Share(site, k)
        \/ LastForkFailed /\ \E w \in Workers : u \in todo[w]

\* No worker is left, running or ended, when the parent uses the result: only
\* the failure of the last fork makes it go on beside its workers.
NobodyLeft == Used => LastForkFailed \/ \A w \in Workers : pc[w] = "none"

\* What is missing when the parent uses the result, and who may write to it
\* still, at each of the six places and after any failures.
MissingWhenUsed == MissingIsDeserted /\ NobodyLeft

\* The parent goes on: its waits are matched, whatever other children end
\* in between and whether forks fail or workers stop, unless such a child
\* never ends, a handler of the script has waited for a worker, or tlspect
\* could not fork all of its workers.
GoesOn ==
  /\ \A c \in Strangers : <>(pc[c] # "run")
  /\ [](stolen = {})
  /\ [](site = "Spectrum" => absent = {})
  => <>(pc[Parent] \in {"use", "stopped"})
=============================================================================
