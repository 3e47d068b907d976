------------------------------ MODULE Signals ------------------------------
(***************************************************************************)
(* Signals in the script: SigAction and the handler that evaluates what    *)
(* the script asked for (tfProcess_.c, the wrapper in init.n).             *)
(*                                                                         *)
(* The script's commands are kept in a table of the script, SigAction$Cmd, *)
(* under numbers; C arrays say which number a signal has.  A command that  *)
(* was replaced is removed at once, or only marked while a handler runs:   *)
(* that handler may be about to evaluate it.  Marked commands are removed  *)
(* by the next replacement outside of handlers.                            *)
(*                                                                         *)
(* Handlers evaluate script where the signal comes, also in the middle of  *)
(* a SigAction of the script or of another handler, and may call SigAction *)
(* themselves.  The critical sections block: in the handler all signals,   *)
(* in SigAction$ the signal itself.  That of the wrapper blocks none:      *)
(* SigProcMask returns before it calls sigprocmask when its second         *)
(* argument is AllSignals, and its call is left unevaluated.  So the mask  *)
(* the wrapper gives back is that call, which SigProcMask refuses with a   *)
(* message: an error that ends the wrapper, with the command in the table  *)
(* and no signal that has it.  Where messages are off (in another message, *)
(* in a test of a pattern, while an expression is composed) the call that  *)
(* is refused is left unevaluated too, and the wrapper goes on.  A script  *)
(* can also give a number itself, Action -> n: the wrapper has no part in  *)
(* that.                                                                   *)
(*                                                                         *)
(* Signals are those SAD or the kernel does not end the process for.  What *)
(* a handler's script does besides SigAction is left out, and so are the   *)
(* flags SA_NODEFER, further masks, and reading an action without setting  *)
(* it, which changes nothing.                                              *)
(***************************************************************************)
EXTENDS Naturals, FiniteSets, Sequences

CONSTANTS
  Sigs,      \* signal numbers
  Trapped,   \* those with a handler of SAD as their default (SAD_TRAP_SIG...)
  MaxCalls,  \* bound: calls of SigAction in all
  MaxRaises  \* bound: signals sent in all

\* Signals are numbered from 1 to NSIG - 1.
ASSUME SigsAssumption == IsFiniteSet(Sigs) /\ 0 \notin Sigs
ASSUME TrappedAssumption == Trapped \subseteq Sigs
ASSUME BoundsAssumption == MaxCalls \in Nat /\ MaxRaises \in Nat

VARIABLES
  disp,     \* sigaction: the script's handler, or the default
  resets,   \* signals whose handler the kernel resets when it calls it
  actions,  \* sad_signal_actions: the number of the signal's command
  flags,    \* signals whose sad_signal_flags have SA_RESETHAND
  cmd,      \* SigAction$Cmd: the commands by number, 0 where there is none
  ids,      \* SigAction$IDs: the marked numbers
  blocked,  \* the signal mask of the process
  pending,  \* signals sent and not yet taken
  depth,    \* sad_signal_handler_depth
  stack,    \* the script and the handlers that interrupt it, the running one last
  ncalls, nraises,
  latest,   \* history: the command last given to a signal
  lost,     \* history: numbers whose wrapper ended with the error
  upset     \* history: a handler changed what an interrupted one was changing,
            \* or the script gave a number that no error had left to it

kernel == <<disp, resets, blocked, pending>>
tables == <<actions, flags, cmd, ids>>
vars   == <<disp, resets, actions, flags, cmd, ids, blocked, pending, depth,
            stack, ncalls, nraises, latest, lost, upset>>

Numbers  == 1..MaxCalls   \* of SigAction$Cmd; one is enough for each call
Commands == 1..MaxCalls   \* a command is the call that gave it
Kinds    == {"persistent", "once", "default"}

\* A call of SigAction: where it is, the signal, what is asked for, whether
\* messages are off; the number and the command given, whether the signal had
\* the script's handler and with what number, and the mask to return to.
Calls == [at : {"none", "store", "unmask", "sigaction", "assign", "lookup", "retire"},
          sig : Sigs \cup {0}, kind : Kinds, quiet : BOOLEAN, id : Numbers \cup {0},
          n : Commands \cup {0}, had : BOOLEAN, old : Numbers \cup {0},
          mask : SUBSET Sigs]

NoCall == [at |-> "none", sig |-> 0, kind |-> "default", quiet |-> FALSE, id |-> 0,
           n |-> 0, had |-> FALSE, old |-> 0, mask |-> {}]

\* The script itself has sig 0.  act, once: sigactno and sigact_flags of the
\* handler; saved: the mask the kernel returns to; want: history.
Frames == [sig : Sigs \cup {0}, at : {"read", "deepen", "command", "run"},
           act : Numbers \cup {0}, once : BOOLEAN, saved : SUBSET Sigs,
           want : Commands \cup {0}, call : Calls]

Script == [sig |-> 0, at |-> "run", act |-> 0, once |-> FALSE, saved |-> {},
           want |-> 0, call |-> NoCall]

top      == stack[Len(stack)]
Below    == {stack[i] : i \in 1..(Len(stack) - 1)}
Levels   == {stack[i] : i \in 1..Len(stack)}
call     == top.call
With(f)  == [stack EXCEPT ![Len(stack)] = f]
Calling(c) == With([top EXCEPT !.call = c])

\* The command table is being changed below: Unprotect, change and Protect are
\* one evaluation, that another's Protect makes fail.
TableOpen == \E f \in Below : f.call.at \in {"store", "retire"}

\* A handler finds the messages off where what it interrupts has them off.
Quiet == \E f \in Below : f.call.quiet

\* A change of signal s below has reached the kernel and not the arrays, or a
\* handler of s has not read them, or not yet reset the signal.
HalfWay(s) == \E f \in Below :
  \/ f.call.at = "assign" /\ f.call.sig = s
  \/ f.sig = s /\ f.at \in {"read", "deepen"}

Init ==
  /\ disp = [s \in Sigs |-> "default"] /\ resets = {}
  /\ actions = [s \in Sigs |-> 0] /\ flags = {}
  /\ cmd = [i \in Numbers |-> 0] /\ ids = {}
  /\ blocked = {} /\ pending = {} /\ depth = 0
  /\ stack = <<Script>> /\ ncalls = 0 /\ nraises = 0
  /\ latest = [s \in Sigs |-> 0] /\ lost = {} /\ upset = FALSE

-----------------------------------------------------------------------------
(* The kernel.                                                             *)

Raise(s) ==
  /\ nraises < MaxRaises
  /\ pending' = pending \cup {s} /\ nraises' = nraises + 1
  /\ UNCHANGED <<disp, resets, blocked, tables, depth, stack, ncalls, latest, lost, upset>>

\* Ignored, or counted by SAD's own handler.
Discard(s) ==
  /\ s \in pending \ blocked /\ disp[s] = "default"
  /\ pending' = pending \ {s}
  /\ UNCHANGED <<disp, resets, blocked, tables, depth, stack, ncalls, nraises, latest, lost, upset>>

Deliver(s) ==
  /\ s \in pending \ blocked /\ disp[s] = "script"
  /\ pending' = pending \ {s} /\ blocked' = blocked \cup {s}
  /\ IF s \in resets
     THEN disp' = [disp EXCEPT ![s] = "default"] /\ resets' = resets \ {s}
     ELSE UNCHANGED <<disp, resets>>
  /\ stack' = Append(stack, [Script EXCEPT !.sig = s, !.at = "read", !.saved = blocked])
  /\ UNCHANGED <<tables, depth, ncalls, nraises, latest, lost, upset>>

-----------------------------------------------------------------------------
(* The handler, sad_SIGACT_handler.                                        *)

ReadAction ==
  /\ top.at = "read"
  /\ stack' = With([top EXCEPT !.at = "deepen", !.act = actions[top.sig],
                               !.once = top.sig \in flags, !.want = latest[top.sig]])
  /\ UNCHANGED <<kernel, tables, depth, ncalls, nraises, latest, lost, upset>>

\* All signals blocked: one step.  SAD's handler returns to a trapped signal.
Deepen ==
  /\ top.at = "deepen"
  /\ depth' = depth + 1
  /\ IF top.once /\ top.sig \in Trapped
     THEN disp' = [disp EXCEPT ![top.sig] = "default"] /\ resets' = resets \ {top.sig}
     ELSE UNCHANGED <<disp, resets>>
  /\ stack' = With([top EXCEPT !.at = "command"])
  /\ UNCHANGED <<blocked, pending, tables, ncalls, nraises, latest, lost, upset>>

\* $SignalAction takes the command from the table and evaluates it.
Command ==
  /\ top.at = "command"
  /\ stack' = With([top EXCEPT !.at = "run"])
  /\ UNCHANGED <<kernel, tables, depth, ncalls, nraises, latest, lost, upset>>

\* All signals blocked: one step, up to the kernel's return.
LeaveWith(marked, d) ==
  /\ top.sig \in Sigs /\ top.at = "run" /\ call.at = "none"
  /\ ids' = ids \cup marked
  /\ upset' = (upset \/ (marked # {} /\ TableOpen))
  /\ depth' = d
  /\ blocked' = top.saved
  /\ stack' = SubSeq(stack, 1, Len(stack) - 1)
  /\ UNCHANGED <<disp, resets, pending, actions, flags, cmd, ncalls, nraises, latest, lost>>

Spent == IF top.once THEN {top.act} ELSE {}

\* Faults: the command of a handler called once is not marked; the depth stays.
LeaveUnmarked == LeaveWith({}, depth - 1)
LeaveDeep     == LeaveWith(Spent, depth)

Leave == LeaveWith(Spent, depth - 1)

-----------------------------------------------------------------------------
(* SigAction: the wrapper, then SigAction$.                                *)

Begins == top.at = "run" /\ call.at = "none" /\ ncalls < MaxCalls

Free == {i \in Numbers : cmd[i] = 0}

\* The loop of the wrapper takes the least free number; no signal is blocked.
Choose(s, k, q) ==
  /\ Begins /\ (Quiet => q)
  /\ \E i \in Free :
       /\ \A j \in Free : i <= j
       /\ stack' = Calling([NoCall EXCEPT !.at = "store", !.sig = s, !.kind = k, !.quiet = q,
                                          !.id = i, !.n = ncalls + 1])
  /\ ncalls' = ncalls + 1
  /\ UNCHANGED <<kernel, tables, depth, nraises, latest, lost, upset>>

ToDefault(s) ==
  /\ Begins
  /\ stack' = Calling([NoCall EXCEPT !.at = "sigaction", !.sig = s])
  /\ ncalls' = ncalls + 1
  /\ UNCHANGED <<kernel, tables, depth, nraises, latest, lost, upset>>

\* Action -> i: the number given, with whatever command is under it.
Give(s, k, i) ==
  /\ Begins
  /\ stack' = Calling([NoCall EXCEPT !.at = "sigaction", !.sig = s, !.kind = k,
                                     !.id = i, !.n = cmd[i]])
  /\ ncalls' = ncalls + 1
  /\ lost' = lost \ {i} /\ upset' = (upset \/ i \notin lost)
  /\ UNCHANGED <<kernel, tables, depth, nraises, latest>>

Store ==
  /\ call.at = "store"
  /\ cmd' = [cmd EXCEPT ![call.id] = call.n]
  /\ upset' = (upset \/ TableOpen)
  /\ stack' = Calling([call EXCEPT !.at = "unmask"])
  /\ UNCHANGED <<kernel, actions, flags, ids, depth, ncalls, nraises, latest, lost>>

\* SigProcMask[Set, mask] refuses the mask.
Unmask ==
  /\ call.at = "unmask"
  /\ IF call.quiet
     THEN stack' = Calling([call EXCEPT !.at = "sigaction"]) /\ lost' = lost
     ELSE stack' = Calling(NoCall) /\ lost' = lost \cup {call.id}
  /\ UNCHANGED <<kernel, tables, depth, ncalls, nraises, latest, upset>>

Sigaction ==
  /\ call.at = "sigaction"
  /\ LET s == call.sig IN
     /\ blocked' = blocked \cup {s}
     /\ disp' = [disp EXCEPT ![s] = IF call.kind = "default" THEN "default" ELSE "script"]
     /\ resets' = IF call.kind = "once" THEN resets \cup {s} ELSE resets \ {s}
     /\ stack' = Calling([call EXCEPT !.at = "assign", !.mask = blocked,
                                      !.had = (disp[s] = "script")])
     /\ upset' = (upset \/ HalfWay(s))
  /\ UNCHANGED <<pending, tables, depth, ncalls, nraises, latest, lost>>

\* The default leaves the arrays as they are: a later call reads them.
AssignWith(m) ==
  /\ call.at = "assign"
  /\ LET s == call.sig IN
     /\ IF call.kind = "default" THEN UNCHANGED <<actions, flags, latest>>
        ELSE /\ actions' = [actions EXCEPT ![s] = call.id]
             /\ flags' = IF call.kind = "once" THEN flags \cup {s} ELSE flags \ {s}
             /\ latest' = [latest EXCEPT ![s] = call.n]
     /\ stack' = Calling(IF call.had THEN [call EXCEPT !.at = "lookup", !.old = actions[s]]
                                     ELSE NoCall)
  /\ blocked' = m
  /\ UNCHANGED <<disp, resets, pending, cmd, ids, depth, ncalls, nraises, lost, upset>>

\* Fault: the signal stays blocked.
AssignBlocked == AssignWith(blocked)

Assign == AssignWith(call.mask)

\* Whether the number replaced still has a command of the script.
Lookup ==
  /\ call.at = "lookup"
  /\ IF call.old # 0 /\ cmd[call.old] # 0 /\ (call.kind = "default" \/ call.id # call.old)
     THEN /\ blocked' = blocked \cup {call.sig}
          /\ stack' = Calling([call EXCEPT !.at = "retire", !.mask = blocked])
     ELSE stack' = Calling(NoCall) /\ UNCHANGED blocked
  /\ UNCHANGED <<disp, resets, pending, tables, depth, ncalls, nraises, latest, lost, upset>>

\* SigAction$CmdR and SigAction$Clean, or SigAction$CmdM.
RetireWith(removes, m) ==
  /\ call.at = "retire"
  /\ IF removes
     THEN /\ cmd' = [i \in Numbers |-> IF i \in ids \cup {call.old} THEN 0 ELSE cmd[i]]
          /\ ids' = {}
     ELSE cmd' = cmd /\ ids' = ids \cup {call.old}
  /\ upset' = (upset \/ TableOpen)
  /\ blocked' = m
  /\ stack' = Calling(NoCall)
  /\ UNCHANGED <<disp, resets, pending, actions, flags, depth, ncalls, nraises, latest, lost>>

\* Faults: the command is removed while handlers run; the mask is not restored.
RetireAtOnce  == RetireWith(TRUE, call.mask)
RetireBlocked == RetireWith(depth = 0, blocked)

Retire == RetireWith(depth = 0, call.mask)

Proceed == \/ ReadAction \/ Deepen \/ Command \/ Leave
           \/ Store \/ Unmask \/ Sigaction \/ Assign \/ Lookup \/ Retire

Next ==
  \/ \E s \in Sigs : Raise(s) \/ Discard(s) \/ Deliver(s) \/ ToDefault(s)
  \/ \E s \in Sigs, k \in {"persistent", "once"} :
       \/ \E q \in BOOLEAN : Choose(s, k, q)
       \/ \E i \in Numbers : Give(s, k, i)
  \/ Proceed

\* The kernel delivers what it can, and code that has begun goes on.
Spec == Init /\ [][Next]_vars /\ WF_vars(Proceed)
             /\ \A s \in Sigs : WF_vars(Discard(s) \/ Deliver(s))

-----------------------------------------------------------------------------
(* Properties                                                              *)

\* The type of the state; no more handlers run than signals can be blocked.
TypeOK ==
  /\ disp \in [Sigs -> {"default", "script"}] /\ resets \subseteq Sigs
  /\ actions \in [Sigs -> Numbers \cup {0}] /\ flags \subseteq Sigs
  /\ cmd \in [Numbers -> Commands \cup {0}] /\ ids \subseteq Numbers
  /\ blocked \subseteq Sigs /\ pending \subseteq Sigs
  /\ Levels \subseteq Frames /\ Len(stack) <= Cardinality(Sigs) + 1
  /\ depth \in 0..(Len(stack) - 1)
  /\ latest \in [Sigs -> Commands \cup {0}] /\ lost \subseteq Numbers /\ upset \in BOOLEAN

\* The commands a handler that has not yet taken its own relies on.
InHandler(i) == \E f \in Levels :
  \/ f.at = "read" /\ actions[f.sig] = i
  \/ f.sig \in Sigs /\ f.at # "read" /\ f.act = i /\ f.once

\* As long as no handler changed what it interrupted the change of, and the
\* script gave no number but one an error had left over, a signal given to the
\* script has the command last given to it, and a handler that has read its
\* number finds, whatever other handlers replace meanwhile, the command it was
\* called for.  sad_SIGACT_handler, SigAction, init.n:130.
RightCommand == ~upset =>
  /\ \A s \in Sigs : disp[s] = "script" /\ (\A f \in Levels : ~(f.call.at = "assign" /\ f.call.sig = s))
       => cmd[actions[s]] = latest[s]
  /\ \A f \in Levels : f.sig \in Sigs /\ f.at \in {"deepen", "command"} => cmd[f.act] = f.want

\* And no command is forgotten but those of the calls that ended with the error
\* (init.n:159): each other one in the table is a signal's, marked, or in the
\* hands of a handler or of a call of SigAction that will give or mark it.
OnlyFailuresLeak == ~upset => \A i \in Numbers : cmd[i] # 0 =>
  \/ i \in lost
  \/ \E s \in Sigs : disp[s] = "script" /\ actions[s] = i
  \/ i \in ids \/ InHandler(i)
  \/ \E f \in Levels :
       \/ f.call.at \in {"unmask", "sigaction", "assign"} /\ f.call.id = i
       \/ f.call.at = "assign" /\ f.call.had /\ actions[f.call.sig] = i
       \/ f.call.at \in {"lookup", "retire"} /\ f.call.old = i

\* A signal is blocked while its handler runs and in the sections of SigAction$
\* that are open, and for no other reason: each level gives back the mask it
\* was entered with, whatever interrupted it.
MaskRestored == blocked =
  {f.sig : f \in Levels \ {stack[1]}}
    \cup {f.call.sig : f \in {g \in Levels : g.call.at \in {"assign", "retire"}}}

\* Every signal sent is taken, also one sent while its handler ran.
Handled == \A s \in Sigs : s \in pending ~> s \notin pending

=============================================================================
