---------------------------- MODULE Parallelize -----------------------------
(***************************************************************************)
(* Parallelize of Packages/init.n and the shared variables it works with   *)
(* (tfreadshared, tfwriteshared in toplvl.f).                              *)
(*                                                                         *)
(* The parent forks a process for each of n calls f[k], never more than    *)
(* npara at a time, and collects their results.  np, a shared variable,    *)
(* counts the processes: the parent adds one before a fork, the child      *)
(* subtracts one when it has written its result, and the parent waits      *)
(* while np >= npara.                                                      *)
(*                                                                         *)
(* A shared variable has a lock word, but testing it and setting it are    *)
(* two steps, and x++ is a read and a write with the lock free between.    *)
(* One step here is one access to shared memory.                           *)
(***************************************************************************)
EXTENDS Integers, FiniteSets

CONSTANTS
  N,        \* calls (n)
  NPara,    \* processes at a time (npara)
  MayFail   \* whether forks may fail and children may be killed

ASSUME NAssumption == N \in Nat \ {0} /\ NPara \in Nat \ {0}

Parent   == 0
Children == 1..N
Procs    == Children \cup {Parent}
NP       == 0                  \* the shared variable np; that of child k is k
Vars     == Children \cup {NP}

VARIABLES
  lock,   \* ilist(2,ia): 0 free, 1 reading, -1 writing
  count,  \* the value of np
  desc,   \* the descriptor in the variable of a child
  body,   \* the words of the list behind it
  pc,     \* what a process does
  stage,  \* how far it is in a read or a write
  x,      \* the value it read
  k,      \* the call the parent is at
  result, \* what the parent collected
  mixed   \* whether two updates of np ever overlapped

vars == <<lock, count, desc, body, pc, stage, x, k, result, mixed>>

Init ==
  /\ lock = [v \in Vars |-> 0]
  /\ count = 0
  /\ desc = [c \in Children |-> "none"]
  /\ body = [c \in Children |-> "old"]
  /\ pc = [p \in Procs |-> IF p = Parent THEN "check" ELSE "none"]
  /\ stage = [p \in Procs |-> "test"]
  /\ x = [p \in Procs |-> 0]
  /\ k = 1
  /\ result = [c \in Children |-> "none"]
  /\ mixed = FALSE

-----------------------------------------------------------------------------
\* ReadShared and WriteShared.  pc says which variable, and what is written.
Reads  == {"check", "read", "poll"}
Writes == {"add", "clear", "return"}
Var(p) == IF pc[p] \in {"check", "read", "add"} THEN NP ELSE IF p = Parent THEN k ELSE p

\* The lock word is read until it is 0 (with a pause between), ...
Test(p) ==
  /\ pc[p] \in Reads \cup Writes /\ stage[p] = "test"
  /\ lock[Var(p)] = 0
  /\ stage' = [stage EXCEPT ![p] = "mark"]
  /\ UNCHANGED <<lock, count, desc, body, pc, x, k, result, mixed>>

\* ... and then set.
Mark(p) ==
  /\ stage[p] = "mark"
  /\ lock' = [lock EXCEPT ![Var(p)] = IF pc[p] \in Reads THEN 1 ELSE -1]
  /\ stage' = [stage EXCEPT ![p] = IF pc[p] = "return" THEN "body" ELSE "desc"]
  /\ UNCHANGED <<count, desc, body, pc, x, k, result, mixed>>

\* Whether another process has read np and not yet written it.
Updating(p) == \/ pc[p] = "read" /\ stage[p] \in {"free"}
               \/ pc[p] = "add" /\ stage[p] \in {"test", "mark", "desc"}
Overlaps(p) == \E q \in Procs \ {p} : Updating(q)

ReadDesc(p) ==
  /\ pc[p] \in Reads /\ stage[p] = "desc"
  /\ \/ /\ Var(p) = NP
        /\ x' = [x EXCEPT ![p] = count]
        /\ mixed' = (mixed \/ (pc[p] = "read" /\ Overlaps(p)))
        /\ stage' = [stage EXCEPT ![p] = "free"]
        /\ UNCHANGED result
     \/ /\ Var(p) # NP
        /\ result' = [result EXCEPT ![k] = desc[k]]
        /\ stage' = [stage EXCEPT ![p] = IF desc[k] = "list" THEN "body" ELSE "free"]
        /\ UNCHANGED <<x, mixed>>
  /\ UNCHANGED <<lock, count, desc, body, pc, k>>

\* The words of a list are copied: tfrecallshared.
ReadBody(p) ==
  /\ pc[p] = "poll" /\ stage[p] = "body"
  /\ result' = [result EXCEPT ![k] = body[k]]
  /\ stage' = [stage EXCEPT ![p] = "free"]
  /\ UNCHANGED <<lock, count, desc, body, pc, x, k, mixed>>

\* Fault: the descriptor is written first.
WriteBodyLast(p) ==
  /\ pc[p] = "return" /\ stage[p] = "body"
  /\ IF desc[p] = "list"
       THEN body' = [body EXCEPT ![p] = "f"] /\ desc' = desc
            /\ stage' = [stage EXCEPT ![p] = "desc"]
       ELSE desc' = [desc EXCEPT ![p] = "list"] /\ UNCHANGED <<body, stage>>
  /\ UNCHANGED <<lock, count, pc, x, k, result, mixed>>

\* tfstoreshared; the descriptor is written after it.
WriteBody(p) ==
  /\ pc[p] = "return" /\ stage[p] = "body"
  /\ body' = [body EXCEPT ![p] = "f"]
  /\ stage' = [stage EXCEPT ![p] = "desc"]
  /\ UNCHANGED <<lock, count, desc, pc, x, k, result, mixed>>

\* The result is larger than the variable (Shared::toolarge).  The error is
\* outside of Check[f[k], $Failed] and ends Parallelize in the child, which goes
\* on with the input of the parent instead of exiting.
TooLarge(p) ==
  /\ MayFail /\ pc[p] = "return" /\ stage[p] = "body"
  /\ lock' = [lock EXCEPT ![p] = 0]
  /\ pc' = [pc EXCEPT ![p] = "astray"]
  /\ stage' = [stage EXCEPT ![p] = "test"]
  /\ UNCHANGED <<count, desc, body, x, k, result, mixed>>

WriteDesc(p) ==
  /\ pc[p] \in Writes /\ stage[p] = "desc"
  /\ \/ /\ pc[p] = "add"
        /\ count' = IF p = Parent THEN x[p] + 1 ELSE x[p] - 1
        /\ UNCHANGED desc
     \/ /\ pc[p] # "add"
        /\ desc' = [desc EXCEPT ![Var(p)] = IF pc[p] = "clear" THEN "Undefined" ELSE "list"]
        /\ UNCHANGED count
  /\ stage' = [stage EXCEPT ![p] = "free"]
  /\ UNCHANGED <<lock, body, pc, x, k, result, mixed>>

\* Fault: a child does not subtract itself from np.
GoOnUncounted(p) ==
  CASE pc[p] = "check"  -> IF x[p] >= NPara THEN "check" ELSE "read"
    [] pc[p] = "read"   -> "add"
    [] pc[p] = "add"    -> IF p = Parent THEN "clear" ELSE "ended"
    [] pc[p] = "clear"  -> "fork"
    [] pc[p] = "return" -> "ended"
    [] pc[p] = "poll"   -> IF result[k] = "Undefined" THEN "poll" ELSE "wait"

\* The lock is freed and the caller goes on.
GoOn(p) ==
  CASE pc[p] = "check"  -> IF x[p] >= NPara THEN "check" ELSE "read"
    [] pc[p] = "read"   -> "add"
    [] pc[p] = "add"    -> IF p = Parent THEN "clear" ELSE "ended"
    [] pc[p] = "clear"  -> "fork"
    [] pc[p] = "return" -> "read"
    [] pc[p] = "poll"   -> IF result[k] = "Undefined" THEN "poll" ELSE "wait"

\* Fault: the lock of a reader is not freed.
FreeLockWritten(p) ==
  /\ stage[p] = "free"
  /\ lock' = [lock EXCEPT ![Var(p)] = IF pc[p] \in Reads THEN @ ELSE 0]
  /\ stage' = [stage EXCEPT ![p] = "test"]
  /\ pc' = [pc EXCEPT ![p] = GoOn(p)]
  /\ UNCHANGED <<count, desc, body, x, k, result, mixed>>

FreeLock(p) ==
  /\ stage[p] = "free"
  /\ lock' = [lock EXCEPT ![Var(p)] = 0]
  /\ stage' = [stage EXCEPT ![p] = "test"]
  /\ pc' = [pc EXCEPT ![p] = GoOn(p)]
  /\ UNCHANGED <<count, desc, body, x, k, result, mixed>>

Access(p) == \/ Test(p) \/ Mark(p) \/ ReadDesc(p) \/ ReadBody(p)
             \/ WriteBody(p) \/ TooLarge(p) \/ WriteDesc(p) \/ FreeLock(p)

-----------------------------------------------------------------------------
\* Fault: k is not set back for the second loop.
ForkedOn(start) ==
  /\ pc[Parent] = "fork"
  /\ k' = k + 1
  /\ pc' = [pc EXCEPT ![k] = start, ![Parent] = IF k = N THEN "poll" ELSE "check"]
  /\ UNCHANGED <<lock, count, desc, body, stage, x, result, mixed>>

Forked(start) ==
  /\ pc[Parent] = "fork"
  /\ k' = IF k = N THEN 1 ELSE k + 1
  /\ pc' = [pc EXCEPT ![k] = start, ![Parent] = IF k = N THEN "poll" ELSE "check"]
  /\ UNCHANGED <<lock, count, desc, body, stage, x, result, mixed>>

\* Fork[]: the child starts.
Fork == Forked("compute")

\* It returns -1, which is true: Parallelize goes on as if there were a child.
ForkFails == MayFail /\ Forked("failed")

\* f[k] has a value, or $Failed.
Compute(c) ==
  /\ pc[c] = "compute"
  /\ pc' = [pc EXCEPT ![c] = "return"]
  /\ UNCHANGED <<lock, count, desc, body, stage, x, k, result, mixed>>

\* A child is killed, also when it has locked a variable; "left" if it had
\* already subtracted itself from np.
Killed(c) ==
  /\ MayFail /\ pc[c] \in {"compute", "return", "read", "add"}
  /\ pc' = [pc EXCEPT ![c] = IF pc[c] = "add" /\ stage[c] = "free" THEN "left" ELSE "killed"]
  /\ stage' = [stage EXCEPT ![c] = "test"]
  /\ UNCHANGED <<lock, count, desc, body, x, k, result, mixed>>

\* Wait[]: a child that has ended; an error, which is ignored, if there is
\* no child.
Waited(next) ==
  /\ pc' = [next EXCEPT ![Parent] = IF k = N THEN "done" ELSE "poll"]
  /\ k' = IF k = N THEN k ELSE k + 1
  /\ UNCHANGED <<lock, count, desc, body, stage, x, result, mixed>>

Ended(c) == pc[c] \in {"ended", "killed", "left"}

Wait ==
  /\ pc[Parent] = "wait"
  /\ \/ \E c \in Children : Ended(c) /\ Waited([pc EXCEPT ![c] = "none"])
     \/ (\A c \in Children : pc[c] \in {"none", "failed"}) /\ Waited(pc)

ParentStep   == Access(Parent) \/ Fork \/ ForkFails \/ Wait
ChildStep(c) == Access(c) \/ Compute(c)

Next == ParentStep \/ \E c \in Children : ChildStep(c) \/ Killed(c)

\* Every process runs, and a process that tries again and again to get a
\* lock that is free again and again gets it at last.
Spec == /\ Init /\ [][Next]_vars
        /\ SF_vars(ParentStep) /\ \A c \in Children : SF_vars(ChildStep(c))

-----------------------------------------------------------------------------
\* Types.
TypeOK ==
  /\ lock \in [Vars -> {-1, 0, 1}] /\ count \in (-N)..N
  /\ desc \in [Children -> {"none", "Undefined", "list"}]
  /\ body \in [Children -> {"old", "f"}]
  /\ pc \in [Procs -> Reads \cup Writes
                      \cup {"none", "fork", "compute", "wait", "done"}
                      \cup {"ended", "killed", "left", "failed", "astray"}]
  /\ k \in Children /\ x \in [Procs -> (-N)..N]

\* A result collected is the result of the child, never a list half written,
\* although parent and child may both hold the lock (Shared[] of Packages/init.n
\* on tfreadshared and tfwriteshared): the descriptor is the last word written.
WholeResults ==
  /\ \A c \in Children :
       \/ pc[Parent] \in {"poll", "wait"} /\ c < k
       \/ pc[Parent] = "done"
       => result[c] = "f"
  /\ pc[Parent] = "wait" => result[k] = "f"

\* Calls whose part of np is in it: added by the parent and never subtracted,
\* because the child still runs, or never existed, or will not come to it.
Counted ==
  {c \in Children : \/ pc[c] \in {"compute", "return", "read", "killed", "failed", "astray"}
                    \/ pc[c] = "add" /\ stage[c] # "free"}
ParentAdded == pc[Parent] \in {"clear", "fork"} \/ (pc[Parent] = "add" /\ stage[Parent] = "free")
Forking     == pc[Parent] \notin {"poll", "wait", "done"}

\* While the parent forks, np is the number of children, with those that
\* failed, as long as no two updates of it overlapped, whatever the locks
\* allow: While[Shared[np] >= npara] then keeps the limit.
CountIsExact ==
  Forking /\ ~ mixed =>
    count = Cardinality(Counted) + (IF ParentAdded THEN 1 ELSE 0)

\* No more than npara calls run at a time (the manual of NPARA: "the maximum
\* number of parallel processes for various calculations").
AtMostNPara == Cardinality({c \in Children : pc[c] = "compute"}) <= NPara

\* When nothing fails and no updates of np overlap, Parallelize returns with
\* every child waited for: its polls, for a lock, for np < npara and for a
\* result that is not Undefined, all end.
Failure == \E c \in Children : pc[c] \in {"killed", "left", "failed", "astray"}
Returns ==
  [] ~ Failure /\ [] ~ mixed =>
    <>(pc[Parent] = "done" /\ \A c \in Children : pc[c] = "none")
=============================================================================
