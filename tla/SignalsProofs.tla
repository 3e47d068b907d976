--------------------------- MODULE SignalsProofs ---------------------------
(***************************************************************************)
(* Proofs about Signals, for any signals and any numbers of calls and of   *)
(* signals sent.                                                           *)
(*                                                                         *)
(* The stack is what makes the invariants: a level that was interrupted    *)
(* does not change until the one above it has gone.  So the mask each      *)
(* level returns to is what the levels below it block (MaskInv), and a     *)
(* command is removed only when no handler runs at all: depth is the       *)
(* number of handlers that have deepened it, the level that retires a      *)
(* command is the top one, and if it were a handler it would have          *)
(* deepened it (DepthInv).                                                 *)
(*                                                                         *)
(* A number of the command table is used by a signal, kept to be removed,  *)
(* or given: to a call that has not assigned it yet, or, where the wrapper *)
(* ended with its error, to nobody (lost).  CommandInv says that the three *)
(* exclude each other and that a number with a command is one of them; the *)
(* steps only pass a number from one to the next.  It holds as long as no  *)
(* handler changed what it interrupted the change of and the script gave   *)
(* no number but a lost one: the steps that could break it make upset      *)
(* true, and nothing resets it.                                            *)
(***************************************************************************)
EXTENDS Signals, FiniteSetTheorems, TLAPS

\* Constants of a frame, so that the frame of another state is a parameter.
Assigning(f, s) == f.call.at = "assign" /\ f.call.sig = s
Masks(f, s) == f.sig = s \/ (f.call.at \in {"assign", "retire"} /\ f.call.sig = s)

CallOK(c) ==
  /\ c.at # "none" => c.sig \in Sigs
  /\ (c.at \in {"store", "unmask"} \/ c.kind # "default") =>
       c.kind # "default" /\ c.id \in Numbers
  /\ c.at = "store" => c.n \in Commands
  /\ c.at = "retire" => c.old \in Numbers

FrameOK(f) ==
  /\ CallOK(f.call) /\ (f.call.at # "none" => f.at = "run")
  /\ f.once => f.act \in Numbers

StackTyped ==
  /\ stack \in Seq(Frames) /\ Len(stack) >= 1
  /\ stack[1].sig = 0 /\ stack[1].at = "run"
  /\ \A j \in 2..Len(stack) : stack[j].sig \in Sigs
  /\ \A j \in 1..Len(stack) : FrameOK(stack[j])

TablesTyped ==
  /\ actions \in [Sigs -> Numbers \cup {0}] /\ flags \subseteq Sigs
  /\ cmd \in [Numbers -> Commands \cup {0}] /\ ids \subseteq Numbers
  /\ latest \in [Sigs -> Commands \cup {0}]
  /\ \A s \in flags : actions[s] \in Numbers

KernelTyped ==
  /\ disp \in [Sigs -> {"default", "script"}] /\ resets \subseteq Sigs
  /\ blocked \subseteq Sigs /\ pending \subseteq Sigs
  /\ \A s \in Sigs : disp[s] = "default" => s \notin resets

Typed ==
  /\ StackTyped /\ TablesTyped /\ KernelTyped
  /\ ncalls \in 0..MaxCalls /\ lost \subseteq Numbers /\ upset \in BOOLEAN

\* A signal blocked by a level below level j.
MaskBelow(st, j, s) == \E m \in 1..(j - 1) : Masks(st[m], s)

MaskInv ==
  /\ \A s \in Sigs : s \in blocked <=> MaskBelow(stack, Len(stack) + 1, s)
  /\ \A j \in 2..Len(stack) : /\ \A s \in Sigs : s \in stack[j].saved <=> MaskBelow(stack, j, s)
                              /\ ~ MaskBelow(stack, j, stack[j].sig)
  /\ \A j \in 1..Len(stack) : stack[j].call.at \in {"assign", "retire"} =>
       \A s \in Sigs : s \in stack[j].call.mask <=> s = stack[j].sig \/ MaskBelow(stack, j, s)

Deep == {j \in 2..Len(stack) : stack[j].at \in {"command", "run"}}
DepthInv == depth = Cardinality(Deep)

LevelInv == Typed /\ MaskInv /\ DepthInv

-----------------------------------------------------------------------------
(* Frames and the stack.                                                   *)

LEMMA StackFacts ==
  ASSUME StackTyped
  PROVE  /\ Len(stack) \in Nat /\ Len(stack) >= 1 /\ Len(stack) \in 1..Len(stack)
         /\ DOMAIN stack = 1..Len(stack)
         /\ top = stack[Len(stack)] /\ top \in Frames /\ FrameOK(top)
         /\ \A j \in 1..Len(stack) : stack[j] \in Frames
         /\ \A j \in 1..Len(stack) : j \in Nat /\ (j = 1 \/ j \in 2..Len(stack))
BY DEF StackTyped, top

LEMMA FrameFields ==
  ASSUME NEW f \in Frames
  PROVE  /\ f.sig \in Sigs \cup {0} /\ f.at \in {"read", "deepen", "command", "run"}
         /\ f.act \in Numbers \cup {0} /\ f.once \in BOOLEAN /\ f.saved \subseteq Sigs
         /\ f.want \in Commands \cup {0} /\ f.call \in Calls
BY DEF Frames

LEMMA CallFields ==
  ASSUME NEW c \in Calls
  PROVE  /\ c.at \in {"none", "store", "unmask", "sigaction", "assign", "lookup", "retire"}
         /\ c.sig \in Sigs \cup {0} /\ c.kind \in Kinds /\ c.quiet \in BOOLEAN /\ c.id \in Numbers \cup {0}
         /\ c.n \in Commands \cup {0} /\ c.had \in BOOLEAN /\ c.old \in Numbers \cup {0}
         /\ c.mask \subseteq Sigs
BY DEF Calls

LEMMA CallFrame ==
  ASSUME NEW f \in Frames, NEW c \in Calls, NEW g, g = [f EXCEPT !.call = c]
  PROVE  /\ g \in Frames /\ g.call = c
         /\ g.sig = f.sig /\ g.at = f.at /\ g.act = f.act /\ g.once = f.once
         /\ g.saved = f.saved /\ g.want = f.want
BY DEF Frames

LEMMA AtFrame ==
  ASSUME NEW f \in Frames, NEW a \in {"read", "deepen", "command", "run"}, NEW g,
         g = [f EXCEPT !.at = a]
  PROVE  /\ g \in Frames /\ g.at = a
         /\ g.sig = f.sig /\ g.call = f.call /\ g.act = f.act /\ g.once = f.once
         /\ g.saved = f.saved /\ g.want = f.want
BY DEF Frames

LEMMA NoCallFacts ==
  NoCall \in Calls /\ NoCall.at = "none" /\ NoCall.kind = "default" /\ CallOK(NoCall)
BY DEF NoCall, Calls, Kinds, CallOK

LEMMA ScriptFacts ==
  /\ Script \in Frames /\ Script.sig = 0 /\ Script.at = "run" /\ Script.call = NoCall
  /\ ~ Script.once /\ FrameOK(Script) /\ \A s \in Sigs : ~ Masks(Script, s)
BY NoCallFacts, SigsAssumption DEF Script, Frames, FrameOK, Masks

\* The top frame is replaced by one of the same signal.
LEMMA WithFacts ==
  ASSUME StackTyped, NEW f \in Frames, stack' = With(f), f.sig = top.sig, FrameOK(f),
         top.at = "run" => f.at = "run"
  PROVE  /\ StackTyped' /\ Len(stack') = Len(stack) /\ stack'[Len(stack)] = f
         /\ \A j \in 1..Len(stack) : j # Len(stack) => stack'[j] = stack[j]
<1>1. /\ stack' \in Seq(Frames) /\ Len(stack') = Len(stack)
      /\ stack'[Len(stack)] = f
      /\ \A j \in 1..Len(stack) : j # Len(stack) => stack'[j] = stack[j]
  BY StackFacts DEF With, StackTyped
<1> QED  BY <1>1, StackFacts DEF StackTyped

\* A handler is entered.
LEMMA AppendFacts ==
  ASSUME StackTyped, NEW f \in Frames, stack' = Append(stack, f), f.sig \in Sigs, FrameOK(f)
  PROVE  /\ StackTyped' /\ Len(stack') = Len(stack) + 1 /\ stack'[Len(stack) + 1] = f
         /\ \A j \in 1..Len(stack) : stack'[j] = stack[j]
<1>1. /\ stack' \in Seq(Frames) /\ Len(stack') = Len(stack) + 1
      /\ stack'[Len(stack) + 1] = f
      /\ \A j \in 1..Len(stack) : stack'[j] = stack[j]
  BY StackFacts DEF StackTyped
<1>2. \A j \in 1..Len(stack') : j = Len(stack) + 1 \/ j \in 1..Len(stack)
  BY <1>1, StackFacts
<1> QED  BY <1>1, <1>2, StackFacts DEF StackTyped

\* A handler is left.
LEMMA LeaveFacts ==
  ASSUME StackTyped, stack' = SubSeq(stack, 1, Len(stack) - 1), top.sig \in Sigs
  PROVE  /\ StackTyped' /\ Len(stack) \in 2..Len(stack) /\ Len(stack') = Len(stack) - 1
         /\ \A j \in 1..(Len(stack) - 1) : stack'[j] = stack[j]
<1>1. Len(stack) \in 2..Len(stack)
  BY StackFacts, SigsAssumption DEF StackTyped
<1>2. /\ stack' \in Seq(Frames) /\ Len(stack') = Len(stack) - 1
      /\ \A j \in 1..(Len(stack) - 1) : stack'[j] = stack[j]
  BY <1>1, StackFacts DEF StackTyped
<1> QED  BY <1>1, <1>2, StackFacts DEF StackTyped

-----------------------------------------------------------------------------
(* The masks and the depth.                                                *)

LEMMA BelowNext ==
  ASSUME StackTyped, NEW j \in 1..Len(stack), NEW s
  PROVE  MaskBelow(stack, j + 1, s) <=> MaskBelow(stack, j, s) \/ Masks(stack[j], s)
<1>1. j \in Nat /\ (j + 1) - 1 = j /\ 1..j = (1..(j - 1)) \cup {j}
  BY StackFacts
<1> QED  BY <1>1 DEF MaskBelow

\* What a level has blocked itself, and what the levels below have.
LEMMA MaskFacts ==
  ASSUME StackTyped, MaskInv
  PROVE  /\ \A s \in Sigs : s \in blocked <=> MaskBelow(stack, Len(stack), s) \/ Masks(top, s)
         /\ call.at \in {"assign", "retire"} =>
              \A s \in Sigs : s \in call.mask <=> s = top.sig \/ MaskBelow(stack, Len(stack), s)
<1>1. Len(stack) \in 1..Len(stack) /\ top = stack[Len(stack)]
  BY StackFacts
<1> QED  BY <1>1, BelowNext DEF MaskInv, call

LEMMA MaskTop ==
  ASSUME StackTyped, MaskInv, NEW f \in Frames, stack' = With(f), f.sig = top.sig, FrameOK(f),
         top.at = "run" => f.at = "run", f.saved = top.saved,
         \A s \in Sigs : s \in blocked' <=> MaskBelow(stack, Len(stack), s) \/ Masks(f, s),
         f.call.at \in {"assign", "retire"} =>
           \A s \in Sigs : s \in f.call.mask <=> s = f.sig \/ MaskBelow(stack, Len(stack), s)
  PROVE  MaskInv'
<1> DEFINE n == Len(stack)
<1>1. /\ StackTyped' /\ Len(stack') = n /\ stack'[n] = f
      /\ \A j \in 1..n : j # n => stack'[j] = stack[j]
  BY WithFacts
<1>2. n \in Nat /\ n \in 1..n /\ stack[n] = top
  BY StackFacts
<1>3. ASSUME NEW j \in 1..n, NEW s PROVE MaskBelow(stack', j, s) <=> MaskBelow(stack, j, s)
  <2>1. \A m \in 1..(j - 1) : stack'[m] = stack[m]
    BY <1>1, <1>2
  <2> QED  BY <2>1 DEF MaskBelow
<1>4. \A s : MaskBelow(stack', n + 1, s) <=> MaskBelow(stack, n, s) \/ Masks(f, s)
  <2> TAKE s
  <2>1. (n + 1) - 1 = n /\ 1..n = (1..(n - 1)) \cup {n}
    BY <1>2
  <2>2. \A m \in 1..(n - 1) : stack'[m] = stack[m]
    BY <1>1, <1>2
  <2> HIDE DEF n
  <2> QED  BY <1>1, <2>1, <2>2 DEF MaskBelow
<1>5. \A s \in Sigs : s \in blocked' <=> MaskBelow(stack', Len(stack') + 1, s)
  BY <1>1, <1>4
<1>6. \A j \in 2..n : j \in 1..n /\ stack'[j].saved = stack[j].saved /\ stack'[j].sig = stack[j].sig
  BY <1>1, <1>2
<1>7. \A j \in 2..n : /\ \A s \in Sigs : s \in stack'[j].saved <=> MaskBelow(stack', j, s)
                      /\ ~ MaskBelow(stack', j, stack'[j].sig)
  BY <1>3, <1>6 DEF MaskInv
<1>8. \A j \in 1..n : stack'[j].call.at \in {"assign", "retire"} =>
        \A s \in Sigs : s \in stack'[j].call.mask <=> s = stack'[j].sig \/ MaskBelow(stack', j, s)
  <2> TAKE j \in 1..n
  <2>1. CASE j = n
    BY <1>1, <1>2, <1>3, <2>1
  <2>2. CASE j # n
    BY <1>1, <1>3, <2>2 DEF MaskInv
  <2> QED  BY <2>1, <2>2
<1> QED  BY <1>1, <1>5, <1>7, <1>8 DEF MaskInv

LEMMA DepthTop ==
  ASSUME StackTyped, DepthInv, NEW f \in Frames, stack' = With(f), f.sig = top.sig, FrameOK(f),
         top.at = "run" => f.at = "run",
         f.at \in {"command", "run"} <=> top.at \in {"command", "run"}, depth' = depth
  PROVE  DepthInv'
<1>1. /\ Len(stack') = Len(stack) /\ stack'[Len(stack)] = f /\ stack[Len(stack)] = top
      /\ \A j \in 1..Len(stack) : j # Len(stack) => stack'[j] = stack[j]
  BY WithFacts, StackFacts
<1>2. \A j \in 2..Len(stack) : stack'[j].at \in {"command", "run"} <=> stack[j].at \in {"command", "run"}
  BY <1>1, StackFacts
<1>3. Deep' = Deep
  BY <1>1, <1>2 DEF Deep
<1> QED  BY <1>3 DEF DepthInv

LEMMA DeepFacts ==
  ASSUME StackTyped
  PROVE  /\ IsFiniteSet(Deep) /\ Cardinality(Deep) \in Nat /\ Cardinality(Deep) <= Len(stack) - 1
         /\ (DepthInv /\ top.at = "run" /\ depth = 0 => Len(stack) = 1)
<1>1. IsFiniteSet(2..Len(stack)) /\ Cardinality(2..Len(stack)) = Len(stack) - 1
  BY StackFacts, FS_Interval
<1>2. Deep \subseteq 2..Len(stack)
  BY DEF Deep
<1>3. IsFiniteSet(Deep) /\ Cardinality(Deep) <= Len(stack) - 1
  BY <1>1, <1>2, FS_Subset
<1>4. ASSUME DepthInv, top.at = "run", depth = 0 PROVE Len(stack) = 1
  <2>1. Deep = {}
    BY <1>3, <1>4, FS_EmptySet DEF DepthInv
  <2>2. Len(stack) \notin Deep
    BY <2>1
  <2> QED  BY <1>4, <2>2, StackFacts DEF Deep
<1> QED  BY <1>3, <1>4, FS_CardinalityType

\* The levels when the call of the top one goes on.
LEMMA CallStep ==
  ASSUME LevelInv, NEW c \in Calls, stack' = Calling(c), top.at = "run",
         CallOK(c), depth' = depth,
         \A s \in Sigs : s \in blocked' <=> MaskBelow(stack, Len(stack), s) \/ s = top.sig
                                            \/ (c.at \in {"assign", "retire"} /\ c.sig = s),
         c.at \in {"assign", "retire"} =>
           \A s \in Sigs : s \in c.mask <=> s = top.sig \/ MaskBelow(stack, Len(stack), s)
  PROVE  StackTyped' /\ MaskInv' /\ DepthInv'
<1> DEFINE f == [top EXCEPT !.call = c]
<1>1. top \in Frames /\ FrameOK(top) /\ StackTyped /\ MaskInv /\ DepthInv
  BY StackFacts DEF LevelInv, Typed
<1>2. /\ f \in Frames /\ f.call = c /\ f.sig = top.sig /\ f.at = top.at /\ f.saved = top.saved
      /\ stack' = With(f) /\ FrameOK(f)
  BY <1>1, CallFrame DEF Calling, FrameOK
<1> HIDE DEF f
<1>3. \A s \in Sigs : s \in blocked' <=> MaskBelow(stack, Len(stack), s) \/ Masks(f, s)
  BY <1>2 DEF Masks
<1>4. StackTyped'
  BY <1>1, <1>2, WithFacts
<1>5. MaskInv'
  BY <1>1, <1>2, <1>3, MaskTop
<1>6. DepthInv'
  BY <1>1, <1>2, DepthTop
<1> QED  BY <1>4, <1>5, <1>6

-----------------------------------------------------------------------------
(* What the steps of a call do to it.                                      *)

LEMMA CallFacts ==
  ASSUME LevelInv
  PROVE  /\ StackTyped /\ MaskInv /\ DepthInv /\ TablesTyped /\ KernelTyped
         /\ call \in Calls /\ CallOK(call) /\ FrameOK(top) /\ (call.at # "none" => top.at = "run")
         /\ top \in Frames /\ top.sig \in Sigs \cup {0}
         /\ call.sig \in Sigs \cup {0} /\ call.at \in {"none", "store", "unmask", "sigaction", "assign", "lookup", "retire"}
BY StackFacts, FrameFields, CallFields DEF LevelInv, Typed, call, FrameOK

LEMMA ChooseFacts ==
  ASSUME LevelInv, NEW s \in Sigs, NEW h \in {"persistent", "once"}, NEW q \in BOOLEAN, Choose(s, h, q)
  PROVE  \E c \in Calls :
           /\ stack' = Calling(c) /\ CallOK(c) /\ c.at = "store" /\ c.kind = h
           /\ c.sig = s /\ c.id \in Numbers /\ cmd[c.id] = 0
           /\ top.at = "run" /\ call.at = "none"
<1>1. PICK i \in Free :
        stack' = Calling([NoCall EXCEPT !.at = "store", !.sig = s, !.kind = h, !.quiet = q,
                                        !.id = i, !.n = ncalls + 1])
  BY DEF Choose
<1> DEFINE c == [NoCall EXCEPT !.at = "store", !.sig = s, !.kind = h, !.quiet = q,
                                !.id = i, !.n = ncalls + 1]
<1>2. ncalls + 1 \in Commands /\ top.at = "run" /\ call.at = "none"
  BY BoundsAssumption DEF Choose, Begins, Commands, LevelInv, Typed
<1>3. i \in Numbers /\ cmd[i] = 0
  BY DEF Free
<1>4. /\ c \in Calls /\ c.at = "store" /\ c.kind = h /\ c.sig = s /\ c.id = i
      /\ c.n = ncalls + 1
  BY <1>2, <1>3 DEF NoCall, Calls, Kinds
<1>5. stack' = Calling(c)
  BY <1>1
<1> HIDE DEF c
<1>6. CallOK(c)
  BY <1>2, <1>3, <1>4 DEF CallOK
<1> QED  BY <1>2, <1>3, <1>4, <1>5, <1>6

LEMMA ToDefaultFacts ==
  ASSUME LevelInv, NEW s \in Sigs, ToDefault(s)
  PROVE  \E c \in Calls :
           /\ stack' = Calling(c) /\ CallOK(c) /\ c.at = "sigaction" /\ c.kind = "default"
           /\ c.sig = s /\ top.at = "run" /\ call.at = "none"
<1> DEFINE c == [NoCall EXCEPT !.at = "sigaction", !.sig = s]
<1>1. c \in Calls /\ c.at = "sigaction" /\ c.kind = "default" /\ c.sig = s
  BY DEF NoCall, Calls, Kinds
<1>2. stack' = Calling(c) /\ top.at = "run" /\ call.at = "none"
  BY DEF ToDefault, Begins
<1> HIDE DEF c
<1> QED  BY <1>1, <1>2 DEF CallOK

LEMMA StoreFacts ==
  ASSUME LevelInv, Store
  PROVE  \E c \in Calls :
           /\ stack' = Calling(c) /\ CallOK(c) /\ c.at = "unmask" /\ c.kind = call.kind
           /\ c.kind # "default" /\ c.sig = call.sig /\ c.id = call.id /\ c.n = call.n
           /\ call.id \in Numbers /\ call.n \in Commands
<1> DEFINE c == [call EXCEPT !.at = "unmask"]
<1>1. call \in Calls /\ CallOK(call) /\ call.at = "store"
  BY CallFacts DEF Store
<1>2. /\ c \in Calls /\ c.at = "unmask" /\ c.kind = call.kind /\ c.sig = call.sig
      /\ c.id = call.id /\ c.n = call.n
  BY <1>1 DEF Calls
<1>3. stack' = Calling(c)
  BY DEF Store
<1> HIDE DEF c
<1> QED  BY <1>1, <1>2, <1>3 DEF CallOK

\* The wrapper goes on, or ends with the error.
LEMMA UnmaskFacts ==
  ASSUME LevelInv, Unmask
  PROVE  /\ call.at = "unmask" /\ call.kind # "default" /\ call.id \in Numbers
         /\ \E c \in Calls :
              /\ stack' = Calling(c) /\ CallOK(c)
              /\ \/ /\ c.at = "sigaction" /\ c.kind = call.kind /\ c.id = call.id
                    /\ c.n = call.n /\ lost' = lost
                 \/ c.at = "none" /\ lost' = lost \cup {call.id}
<1> DEFINE c == [call EXCEPT !.at = "sigaction"]
<1>1. call \in Calls /\ CallOK(call) /\ call.at = "unmask"
  BY CallFacts DEF Unmask
<1>2. /\ c \in Calls /\ c.at = "sigaction" /\ c.kind = call.kind /\ c.sig = call.sig
      /\ c.id = call.id /\ c.n = call.n
  BY <1>1 DEF Calls
<1>3. \/ stack' = Calling(c) /\ lost' = lost
      \/ stack' = Calling(NoCall) /\ lost' = lost \cup {call.id}
  BY DEF Unmask
<1> HIDE DEF c
<1>4. CallOK(c) /\ call.kind # "default" /\ call.id \in Numbers
  BY <1>1, <1>2 DEF CallOK
<1> QED  BY <1>1, <1>2, <1>3, <1>4, NoCallFacts

LEMMA GiveFacts ==
  ASSUME LevelInv, NEW s \in Sigs, NEW h \in {"persistent", "once"}, NEW i \in Numbers, Give(s, h, i)
  PROVE  \E c \in Calls :
           /\ stack' = Calling(c) /\ CallOK(c) /\ c.at = "sigaction" /\ c.kind = h
           /\ c.id = i /\ c.n = cmd[i] /\ top.at = "run" /\ call.at = "none"
<1> DEFINE c == [NoCall EXCEPT !.at = "sigaction", !.sig = s, !.kind = h, !.id = i, !.n = cmd[i]]
<1>1. cmd[i] \in Commands \cup {0}
  BY CallFacts DEF TablesTyped
<1>2. /\ c \in Calls /\ c.at = "sigaction" /\ c.kind = h /\ c.sig = s /\ c.id = i /\ c.n = cmd[i]
  BY <1>1 DEF NoCall, Calls, Kinds
<1>3. stack' = Calling(c) /\ top.at = "run" /\ call.at = "none"
  BY DEF Give, Begins
<1> HIDE DEF c
<1> QED  BY <1>2, <1>3 DEF CallOK

LEMMA SigactionFacts ==
  ASSUME LevelInv, Sigaction
  PROVE  \E c \in Calls :
           /\ stack' = Calling(c) /\ CallOK(c) /\ c.at = "assign" /\ c.kind = call.kind
           /\ c.sig = call.sig /\ c.id = call.id /\ c.n = call.n /\ c.mask = blocked
           /\ (c.had <=> disp[c.sig] = "script") /\ c.sig \in Sigs
<1> DEFINE h == (disp[call.sig] = "script")
           c == [call EXCEPT !.at = "assign", !.mask = blocked, !.had = h]
<1>1. /\ call \in Calls /\ CallOK(call) /\ call.at = "sigaction" /\ blocked \subseteq Sigs
      /\ call.sig \in Sigs
  BY CallFacts DEF Sigaction, KernelTyped, CallOK
<1>2. stack' = Calling(c)
  BY DEF Sigaction
<1>3. h \in BOOLEAN
  OBVIOUS
<1>4. /\ c \in Calls /\ c.at = "assign" /\ c.kind = call.kind /\ c.sig = call.sig
      /\ c.id = call.id /\ c.n = call.n /\ c.mask = blocked /\ c.had = h
  <2> HIDE DEF h
  <2> QED  BY <1>1, <1>3 DEF Calls
<1>5. c.had <=> disp[call.sig] = "script"
  BY <1>4
<1> HIDE DEF c, h
<1>6. CallOK(c)
  BY <1>1, <1>4 DEF CallOK
<1> QED  BY <1>1, <1>2, <1>4, <1>5, <1>6

LEMMA AssignFacts ==
  ASSUME LevelInv, Assign
  PROVE  /\ call.at = "assign" /\ call.sig \in Sigs
         /\ \E c \in Calls :
              /\ stack' = Calling(c) /\ CallOK(c) /\ c.at \in {"none", "lookup"}
              /\ (c.at = "none" <=> ~ call.had)
              /\ (c.at = "lookup" => /\ c.kind = call.kind /\ c.sig = call.sig
                                     /\ c.id = call.id /\ c.old = actions[call.sig])
<1> DEFINE c == [call EXCEPT !.at = "lookup", !.old = actions[call.sig]]
<1>1. call \in Calls /\ CallOK(call) /\ call.at = "assign" /\ call.sig \in Sigs
  BY CallFacts DEF Assign, AssignWith, CallOK
<1>2. stack' = Calling(IF call.had THEN c ELSE NoCall)
  BY DEF Assign, AssignWith
<1>3. actions[call.sig] \in Numbers \cup {0}
  BY <1>1, CallFacts DEF TablesTyped
<1>4. /\ c \in Calls /\ c.at = "lookup" /\ c.kind = call.kind /\ c.sig = call.sig
      /\ c.id = call.id /\ c.n = call.n /\ c.old = actions[call.sig]
  BY <1>1, <1>3 DEF Calls
<1> HIDE DEF c
<1>5. CallOK(c)
  BY <1>1, <1>4 DEF CallOK
<1>6. CASE call.had
  BY <1>1, <1>2, <1>4, <1>5, <1>6
<1>7. CASE ~ call.had
  BY <1>1, <1>2, <1>7, NoCallFacts
<1> QED  BY <1>6, <1>7

LEMMA LookupFacts ==
  ASSUME LevelInv, Lookup
  PROVE  /\ call.at = "lookup" /\ call.sig \in Sigs
         /\ \E c \in Calls :
              /\ stack' = Calling(c) /\ CallOK(c)
              /\ \/ /\ c.at = "retire" /\ c.kind = call.kind /\ c.sig = call.sig
                    /\ c.old = call.old /\ c.mask = blocked /\ blocked' = blocked \cup {call.sig}
                 \/ /\ c.at = "none" /\ blocked' = blocked
                    /\ ~ (call.old # 0 /\ cmd[call.old] # 0
                          /\ (call.kind = "default" \/ call.id # call.old))
<1> DEFINE c == [call EXCEPT !.at = "retire", !.mask = blocked]
           G == call.old # 0 /\ cmd[call.old] # 0 /\ (call.kind = "default" \/ call.id # call.old)
<1>1. /\ call \in Calls /\ CallOK(call) /\ call.at = "lookup" /\ call.sig \in Sigs
      /\ blocked \subseteq Sigs
  BY CallFacts DEF Lookup, CallOK, KernelTyped
<1>2. IF G THEN blocked' = blocked \cup {call.sig} /\ stack' = Calling(c)
           ELSE stack' = Calling(NoCall) /\ blocked' = blocked
  BY DEF Lookup
<1>3. /\ c \in Calls /\ c.at = "retire" /\ c.kind = call.kind /\ c.sig = call.sig
      /\ c.id = call.id /\ c.n = call.n /\ c.old = call.old /\ c.mask = blocked
  BY <1>1 DEF Calls
<1> HIDE DEF c
<1>4. G => CallOK(c)
  <2>1. call.old \in Numbers \cup {0}
    BY <1>1, CallFields
  <2> QED  BY <1>1, <1>3, <2>1 DEF CallOK
<1>5. CASE G
  BY <1>1, <1>2, <1>3, <1>4, <1>5
<1>6. CASE ~ G
  BY <1>1, <1>2, <1>6, NoCallFacts
<1> QED  BY <1>5, <1>6

-----------------------------------------------------------------------------
(* The levels: every step keeps LevelInv.                                  *)

LEMMA RaiseLevel ==
  ASSUME LevelInv, NEW s \in Sigs, Raise(s) \/ Discard(s)
  PROVE  LevelInv'
<1>1. UNCHANGED <<disp, resets, blocked, tables, depth, stack, ncalls, latest, lost, upset>>
  BY DEF Raise, Discard
<1>2. pending' \subseteq Sigs
  BY CallFacts DEF Raise, Discard, KernelTyped
<1>3. StackTyped' /\ TablesTyped' /\ MaskInv' /\ DepthInv'
  BY <1>1, CallFacts DEF StackTyped, TablesTyped, MaskInv, DepthInv, Deep, tables
<1>4. KernelTyped'
  BY <1>1, <1>2, CallFacts DEF KernelTyped
<1> QED  BY <1>1, <1>3, <1>4 DEF LevelInv, Typed

LEMMA DeliverFacts ==
  ASSUME LevelInv, NEW s \in Sigs, Deliver(s)
  PROVE  \E f \in Frames :
           /\ stack' = Append(stack, f) /\ f.sig = s /\ f.at = "read" /\ f.saved = blocked
           /\ f.call = NoCall /\ FrameOK(f)
<1> DEFINE f == [Script EXCEPT !.sig = s, !.at = "read", !.saved = blocked]
<1>1. blocked \subseteq Sigs
  BY CallFacts DEF KernelTyped
<1>2. /\ f \in Frames /\ f.sig = s /\ f.at = "read" /\ f.saved = blocked /\ f.call = Script.call
      /\ f.once = Script.once
  BY <1>1, ScriptFacts DEF Frames
<1>3. stack' = Append(stack, f)
  BY DEF Deliver
<1> HIDE DEF f
<1> QED  BY <1>2, <1>3, ScriptFacts, NoCallFacts DEF FrameOK

LEMMA DeliverLevel ==
  ASSUME LevelInv, NEW s \in Sigs, Deliver(s)
  PROVE  LevelInv'
<1> DEFINE n == Len(stack)
<1>1. PICK f \in Frames :
        /\ stack' = Append(stack, f) /\ f.sig = s /\ f.at = "read" /\ f.saved = blocked
        /\ f.call = NoCall /\ FrameOK(f)
  BY DeliverFacts
<1>2. /\ s \in pending \ blocked
      /\ pending' = pending \ {s} /\ blocked' = blocked \cup {s}
      /\ UNCHANGED <<tables, depth, ncalls, nraises, latest, lost, upset>>
  BY DEF Deliver
<1>3. /\ StackTyped' /\ Len(stack') = n + 1 /\ stack'[n + 1] = f
      /\ \A j \in 1..n : stack'[j] = stack[j]
  BY <1>1, AppendFacts, CallFacts
<1>4. n \in Nat /\ n >= 1
  BY CallFacts, StackFacts
<1> HIDE DEF n
<1>5. \A j \in 1..(n + 1) : \A t : MaskBelow(stack', j, t) <=> MaskBelow(stack, j, t)
  <2> TAKE j \in 1..(n + 1)
  <2>1. \A m \in 1..(j - 1) : m \in 1..n
    BY <1>4
  <2> QED  BY <1>3, <2>1 DEF MaskBelow
<1>6. \A t \in Sigs : Masks(f, t) <=> t = s
  BY <1>1, NoCallFacts DEF Masks
<1>7. \A t \in Sigs : t \in blocked' <=> MaskBelow(stack', n + 2, t)
  <2> TAKE t \in Sigs
  <2>1. t \in blocked <=> MaskBelow(stack', n + 1, t)
    BY <1>4, <1>5, CallFacts DEF MaskInv, n
  <2>2. (n + 2) - 1 = n + 1 /\ 1..(n + 1) = (1..((n + 1) - 1)) \cup {n + 1}
    BY <1>4
  <2> QED  BY <1>2, <1>3, <1>6, <2>1, <2>2 DEF MaskBelow
<1>8. \A j \in 2..(n + 1) : /\ \A t \in Sigs : t \in stack'[j].saved <=> MaskBelow(stack', j, t)
                            /\ ~ MaskBelow(stack', j, stack'[j].sig)
  <2> TAKE j \in 2..(n + 1)
  <2>1. CASE j = n + 1
    <3>1. \A t \in Sigs : t \in blocked <=> MaskBelow(stack', n + 1, t)
      BY <1>4, <1>5, CallFacts DEF MaskInv, n
    <3> QED  BY <1>1, <1>2, <1>3, <2>1, <3>1
  <2>2. CASE j # n + 1
    <3>1. j \in 2..n /\ j \in 1..n /\ j \in 1..(n + 1)
      BY <1>4, <2>2
    <3> QED  BY <1>3, <1>5, <3>1, CallFacts DEF MaskInv, n
  <2> QED  BY <2>1, <2>2
<1>9. \A j \in 1..(n + 1) : stack'[j].call.at \in {"assign", "retire"} =>
        \A t \in Sigs : t \in stack'[j].call.mask <=> t = stack'[j].sig \/ MaskBelow(stack', j, t)
  <2> TAKE j \in 1..(n + 1)
  <2>1. CASE j = n + 1
    BY <1>1, <1>3, <2>1, NoCallFacts
  <2>2. CASE j # n + 1
    <3>1. j \in 1..n
      BY <1>4, <2>2
    <3> QED  BY <1>3, <1>5, <3>1, CallFacts DEF MaskInv, n
  <2> QED  BY <2>1, <2>2
<1>10. (n + 1) + 1 = n + 2
  BY <1>4
<1>11. MaskInv'
  BY <1>3, <1>7, <1>8, <1>9, <1>10 DEF MaskInv
<1>12. DepthInv'
  <2>1. Deep' = Deep
    <3>1. \A j \in 2..(n + 1) : j = n + 1 \/ (j \in 2..n /\ stack'[j] = stack[j])
      BY <1>3, <1>4
    <3>2. \A j \in 2..n : j \in 2..(n + 1) /\ stack'[j] = stack[j] /\ j # n + 1
      BY <1>3, <1>4
    <3> QED  BY <1>1, <1>3, <3>1, <3>2 DEF Deep, n
  <2> QED  BY <1>2, <2>1, CallFacts DEF DepthInv
<1>13. TablesTyped'
  BY <1>2, CallFacts DEF TablesTyped, tables
<1>14. KernelTyped'
  <2>1. /\ disp' \in [Sigs -> {"default", "script"}] /\ resets' \subseteq Sigs
        /\ \A t \in Sigs : disp'[t] = "default" => t \notin resets'
    BY CallFacts DEF KernelTyped, Deliver
  <2>2. blocked' \subseteq Sigs /\ pending' \subseteq Sigs
    BY <1>2, CallFacts DEF KernelTyped
  <2> QED  BY <2>1, <2>2 DEF KernelTyped
<1> QED  BY <1>2, <1>3, <1>11, <1>12, <1>13, <1>14 DEF LevelInv, Typed

LEMMA LeaveLevel ==
  ASSUME LevelInv, Leave
  PROVE  LevelInv'
<1> DEFINE n == Len(stack)
<1>1. /\ top.sig \in Sigs /\ top.at = "run" /\ call.at = "none"
      /\ stack' = SubSeq(stack, 1, n - 1) /\ blocked' = top.saved /\ depth' = depth - 1
      /\ ids' = ids \cup Spent
      /\ UNCHANGED <<disp, resets, pending, actions, flags, cmd, ncalls, nraises, latest, lost>>
  BY DEF Leave, LeaveWith
<1>2. /\ StackTyped' /\ n \in 2..n /\ Len(stack') = n - 1 /\ n \in Nat /\ n >= 2
      /\ (\A j \in 1..(n - 1) : stack'[j] = stack[j]) /\ stack[n] = top /\ n \in 1..n
  BY <1>1, CallFacts, LeaveFacts, StackFacts
<1>3. /\ top.once \in BOOLEAN /\ top.act \in Numbers \cup {0} /\ top.saved \subseteq Sigs
  BY CallFacts, FrameFields
<1> HIDE DEF n
<1>4. \A j \in 1..n : \A t : MaskBelow(stack', j, t) <=> MaskBelow(stack, j, t)
  <2> TAKE j \in 1..n
  <2>1. \A m \in 1..(j - 1) : m \in 1..(n - 1)
    BY <1>2
  <2> QED  BY <1>2, <2>1 DEF MaskBelow
<1>5. (n - 1) + 1 = n /\ (\A j \in 1..(n - 1) : j \in 1..n) /\ (\A j \in 2..(n - 1) : j \in 2..n /\ j \in 1..(n - 1))
  BY <1>2
<1>6. \A t \in Sigs : t \in blocked' <=> MaskBelow(stack', n, t)
  BY <1>1, <1>2, <1>4, CallFacts DEF MaskInv, n
<1>7. MaskInv'
  <2>1. \A j \in 2..(n - 1) : /\ \A t \in Sigs : t \in stack'[j].saved <=> MaskBelow(stack', j, t)
                              /\ ~ MaskBelow(stack', j, stack'[j].sig)
    BY <1>2, <1>4, <1>5, CallFacts DEF MaskInv, n
  <2>2. \A j \in 1..(n - 1) : stack'[j].call.at \in {"assign", "retire"} =>
          \A t \in Sigs : t \in stack'[j].call.mask <=> t = stack'[j].sig \/ MaskBelow(stack', j, t)
    BY <1>2, <1>4, <1>5, CallFacts DEF MaskInv, n
  <2> QED  BY <1>2, <1>5, <1>6, <2>1, <2>2 DEF MaskInv
<1>8. DepthInv'
  <2>1. n \in Deep
    BY <1>1, <1>2 DEF Deep, n
  <2>2. Deep' = Deep \ {n}
    <3>1. \A j \in 2..n : j = n \/ (j \in 2..(n - 1) /\ stack'[j] = stack[j])
      BY <1>2
    <3>2. \A j \in 2..(n - 1) : j \in 2..n /\ stack'[j] = stack[j] /\ j # n
      BY <1>2
    <3> QED  BY <1>2, <3>1, <3>2 DEF Deep, n
  <2>3. IsFiniteSet(Deep)
    BY CallFacts, DeepFacts
  <2>4. Cardinality(Deep') = Cardinality(Deep) - 1
    BY <2>1, <2>2, <2>3, FS_RemoveElement
  <2> QED  BY <1>1, <2>4, CallFacts DEF DepthInv
<1>9. TablesTyped'
  <2>1. Spent \subseteq Numbers
    BY CallFacts DEF Spent, FrameOK
  <2> QED  BY <1>1, <2>1, CallFacts DEF TablesTyped
<1>10. KernelTyped'
  BY <1>1, <1>3, CallFacts DEF KernelTyped
<1>11. upset' \in BOOLEAN
  BY DEF Leave, LeaveWith
<1> QED  BY <1>1, <1>2, <1>7, <1>8, <1>9, <1>10, <1>11 DEF LevelInv, Typed

\* A handler that is not yet at its script is not the script.
LEMMA HandlerFacts ==
  ASSUME LevelInv, top.at # "run"
  PROVE  top.sig \in Sigs /\ Len(stack) \in 2..Len(stack) /\ call.at = "none"
BY CallFacts, StackFacts DEF StackTyped, FrameOK, call

LEMMA ReadActionFacts ==
  ASSUME LevelInv, ReadAction
  PROVE  \E f \in Frames :
           /\ stack' = With(f) /\ f.sig = top.sig /\ f.at = "deepen" /\ f.saved = top.saved
           /\ f.call = top.call /\ f.act = actions[top.sig] /\ f.want = latest[top.sig]
           /\ (f.once <=> top.sig \in flags) /\ FrameOK(f)
<1> DEFINE o == (top.sig \in flags)
           f == [top EXCEPT !.at = "deepen", !.act = actions[top.sig],
                            !.once = o, !.want = latest[top.sig]]
<1>1. /\ top \in Frames /\ top.sig \in Sigs /\ top.at = "read" /\ call.at = "none"
      /\ CallOK(top.call)
  BY CallFacts, HandlerFacts DEF ReadAction, FrameOK
<1>2. actions[top.sig] \in Numbers \cup {0} /\ latest[top.sig] \in Commands \cup {0}
  BY <1>1, CallFacts DEF TablesTyped
<1>3. o \in BOOLEAN
  OBVIOUS
<1>4. stack' = With(f)
  BY DEF ReadAction
<1>5. /\ f \in Frames /\ f.sig = top.sig /\ f.at = "deepen" /\ f.saved = top.saved
      /\ f.call = top.call /\ f.act = actions[top.sig] /\ f.want = latest[top.sig]
      /\ f.once = o
  <2> HIDE DEF o
  <2> QED  BY <1>1, <1>2, <1>3 DEF Frames
<1>6. f.once <=> top.sig \in flags
  BY <1>5
<1> HIDE DEF f, o
<1>7. FrameOK(f)
  BY <1>1, <1>5, <1>6, CallFacts DEF FrameOK, TablesTyped, call
<1> QED  BY <1>4, <1>5, <1>6, <1>7

LEMMA AtFacts ==
  ASSUME LevelInv, NEW a \in {"command", "run"}, top.at # "run",
         stack' = With([top EXCEPT !.at = a])
  PROVE  \E f \in Frames :
           /\ stack' = With(f) /\ f.sig = top.sig /\ f.at = a /\ f.saved = top.saved
           /\ f.call = top.call /\ f.act = top.act /\ f.want = top.want
           /\ f.once = top.once /\ FrameOK(f)
<1> DEFINE f == [top EXCEPT !.at = a]
<1>1. /\ f \in Frames /\ f.at = a
      /\ f.sig = top.sig /\ f.call = top.call /\ f.act = top.act /\ f.once = top.once
      /\ f.saved = top.saved /\ f.want = top.want
  BY CallFacts, AtFrame
<1>2. stack' = With(f)
  OBVIOUS
<1>3. top.call.at = "none" /\ FrameOK(top)
  BY CallFacts, HandlerFacts DEF call
<1> HIDE DEF f
<1> QED  BY <1>1, <1>2, <1>3 DEF FrameOK

LEMMA HandlerLevel ==
  ASSUME LevelInv, ReadAction \/ Deepen \/ Command
  PROVE  LevelInv'
<1>1. top.at # "run"
  BY DEF ReadAction, Deepen, Command
<1>2. PICK f \in Frames :
        /\ stack' = With(f) /\ f.sig = top.sig /\ f.saved = top.saved /\ f.call = top.call
        /\ FrameOK(f) /\ f.at = IF top.at = "read" THEN "deepen"
                                ELSE IF top.at = "deepen" THEN "command" ELSE "run"
  <2>1. CASE ReadAction
    BY <2>1, ReadActionFacts DEF ReadAction
  <2>2. CASE Deepen
    BY <1>1, <2>2, AtFacts DEF Deepen
  <2>3. CASE Command
    BY <1>1, <2>3, AtFacts DEF Command
  <2> QED  BY <2>1, <2>2, <2>3
<1>3. UNCHANGED <<blocked, pending, tables, ncalls, nraises, latest, lost, upset>>
  BY DEF ReadAction, Deepen, Command, kernel
<1>4. top \in Frames /\ top.sig \in Sigs /\ top.call.at = "none" /\ stack[Len(stack)] = top
  BY <1>1, CallFacts, HandlerFacts, StackFacts DEF call
<1>5. StackTyped'
  BY <1>1, <1>2, CallFacts, WithFacts
<1>6. MaskInv'
  <2>1. \A s \in Sigs : Masks(f, s) <=> Masks(top, s)
    BY <1>2 DEF Masks
  <2>2. \A s \in Sigs : s \in blocked' <=> MaskBelow(stack, Len(stack), s) \/ Masks(f, s)
    BY <1>3, <2>1, CallFacts, MaskFacts
  <2> QED  BY <1>1, <1>2, <1>4, <2>2, CallFacts, MaskTop
<1>7. DepthInv'
  <2>1. CASE ReadAction \/ Command
    BY <1>1, <1>2, <2>1, CallFacts, DepthTop DEF ReadAction, Command
  <2>2. CASE Deepen
    <3>1. top.at = "deepen" /\ depth' = depth + 1 /\ f.at = "command"
      BY <1>2, <2>2 DEF Deepen
    <3>2. /\ Len(stack') = Len(stack) /\ stack'[Len(stack)] = f
          /\ \A j \in 1..Len(stack) : j # Len(stack) => stack'[j] = stack[j]
      BY <1>1, <1>2, CallFacts, WithFacts
    <3>3. Deep' = Deep \cup {Len(stack)} /\ Len(stack) \notin Deep
      <4>1. Len(stack) \in 2..Len(stack) /\ \A j \in 2..Len(stack) : j \in 1..Len(stack)
        BY <1>1, HandlerFacts, CallFacts, StackFacts
      <4> QED  BY <1>4, <3>1, <3>2, <4>1 DEF Deep
    <3>4. Cardinality(Deep') = Cardinality(Deep) + 1
      BY <3>3, CallFacts, DeepFacts, FS_AddElement
    <3> QED  BY <3>1, <3>4, CallFacts DEF DepthInv
  <2> QED  BY <2>1, <2>2
<1>8. TablesTyped'
  BY <1>3, CallFacts DEF TablesTyped, tables
<1>9. KernelTyped'
  <2>1. \/ UNCHANGED <<disp, resets>>
        \/ disp' = [disp EXCEPT ![top.sig] = "default"] /\ resets' = resets \ {top.sig}
    BY DEF ReadAction, Deepen, Command, kernel
  <2> QED  BY <1>3, <1>4, <2>1, CallFacts DEF KernelTyped
<1> QED  BY <1>3, <1>5, <1>6, <1>7, <1>8, <1>9 DEF LevelInv, Typed

LEMMA BeginLevel ==
  ASSUME LevelInv, NEW s \in Sigs,
         \/ ToDefault(s)
         \/ \E h \in {"persistent", "once"} : \/ \E q \in BOOLEAN : Choose(s, h, q)
                                             \/ \E i \in Numbers : Give(s, h, i)
  PROVE  LevelInv'
<1>1. PICK c \in Calls : stack' = Calling(c) /\ CallOK(c) /\ c.at \in {"store", "sigaction"}
  BY ChooseFacts, GiveFacts, ToDefaultFacts
<1>2. /\ top.at = "run" /\ call.at = "none" /\ ncalls' = ncalls + 1 /\ ncalls < MaxCalls
      /\ UNCHANGED <<kernel, tables, depth, nraises, latest>>
  BY DEF Choose, Give, ToDefault, Begins
<1>3. \A t \in Sigs : t \in blocked' <=> MaskBelow(stack, Len(stack), t) \/ t = top.sig
                                         \/ (c.at \in {"assign", "retire"} /\ c.sig = t)
  BY <1>1, <1>2, CallFacts, MaskFacts DEF Masks, kernel, call
<1>4. StackTyped' /\ MaskInv' /\ DepthInv'
  BY <1>1, <1>2, <1>3, CallStep
<1>5. TablesTyped' /\ KernelTyped'
  BY <1>2, CallFacts DEF TablesTyped, KernelTyped, tables, kernel
<1>6. ncalls' \in 0..MaxCalls
  BY <1>2, BoundsAssumption DEF LevelInv, Typed
<1>7. lost' \subseteq Numbers /\ upset' \in BOOLEAN
  BY DEF Choose, Give, ToDefault, LevelInv, Typed
<1> QED  BY <1>2, <1>4, <1>5, <1>6, <1>7 DEF LevelInv, Typed

LEMMA StoreLevel ==
  ASSUME LevelInv, Store
  PROVE  LevelInv'
<1>1. PICK c \in Calls : stack' = Calling(c) /\ CallOK(c) /\ c.at = "unmask"
  BY StoreFacts
<1>2. /\ call.at = "store" /\ top.at = "run" /\ cmd' = [cmd EXCEPT ![call.id] = call.n]
      /\ UNCHANGED <<kernel, actions, flags, ids, depth, ncalls, nraises, latest, lost>>
  BY CallFacts DEF Store
<1>3. \A t \in Sigs : t \in blocked' <=> MaskBelow(stack, Len(stack), t) \/ t = top.sig
                                         \/ (c.at \in {"assign", "retire"} /\ c.sig = t)
  BY <1>1, <1>2, CallFacts, MaskFacts DEF Masks, kernel, call
<1>4. StackTyped' /\ MaskInv' /\ DepthInv'
  BY <1>1, <1>2, <1>3, CallStep
<1>5. cmd' \in [Numbers -> Commands \cup {0}]
  BY <1>2, StoreFacts, CallFacts DEF TablesTyped
<1>6. TablesTyped' /\ KernelTyped'
  BY <1>2, <1>5, CallFacts DEF TablesTyped, KernelTyped, kernel
<1>7. upset' \in BOOLEAN
  BY DEF Store
<1> QED  BY <1>2, <1>4, <1>6, <1>7 DEF LevelInv, Typed

LEMMA UnmaskLevel ==
  ASSUME LevelInv, Unmask
  PROVE  LevelInv'
<1>1. PICK c \in Calls : stack' = Calling(c) /\ CallOK(c) /\ c.at \in {"none", "sigaction"}
  BY UnmaskFacts
<1>2. /\ call.at = "unmask" /\ top.at = "run"
      /\ UNCHANGED <<kernel, tables, depth, ncalls, nraises, latest, upset>>
  BY CallFacts DEF Unmask
<1>3. \A t \in Sigs : t \in blocked' <=> MaskBelow(stack, Len(stack), t) \/ t = top.sig
                                         \/ (c.at \in {"assign", "retire"} /\ c.sig = t)
  BY <1>1, <1>2, CallFacts, MaskFacts DEF Masks, kernel, call
<1>4. StackTyped' /\ MaskInv' /\ DepthInv'
  BY <1>1, <1>2, <1>3, CallStep
<1>5. TablesTyped' /\ KernelTyped'
  BY <1>2, CallFacts DEF TablesTyped, KernelTyped, tables, kernel
<1>6. lost' \subseteq Numbers
  BY UnmaskFacts DEF LevelInv, Typed
<1> QED  BY <1>2, <1>4, <1>5, <1>6 DEF LevelInv, Typed

LEMMA SigactionLevel ==
  ASSUME LevelInv, Sigaction
  PROVE  LevelInv'
<1>1. PICK c \in Calls : /\ stack' = Calling(c) /\ CallOK(c) /\ c.at = "assign"
                         /\ c.sig = call.sig /\ c.sig \in Sigs /\ c.mask = blocked
  BY SigactionFacts
<1>2. /\ call.at = "sigaction" /\ top.at = "run" /\ blocked' = blocked \cup {call.sig}
      /\ UNCHANGED <<pending, tables, depth, ncalls, nraises, latest, lost>>
  BY CallFacts DEF Sigaction
<1>3. \A t \in Sigs : t \in blocked <=> MaskBelow(stack, Len(stack), t) \/ t = top.sig
  BY <1>2, CallFacts, MaskFacts DEF Masks, call
<1>4. StackTyped' /\ MaskInv' /\ DepthInv'
  <2>1. \A t \in Sigs : t \in blocked' <=> MaskBelow(stack, Len(stack), t) \/ t = top.sig
                                           \/ (c.at \in {"assign", "retire"} /\ c.sig = t)
    BY <1>1, <1>2, <1>3
  <2>2. \A t \in Sigs : t \in c.mask <=> t = top.sig \/ MaskBelow(stack, Len(stack), t)
    BY <1>1, <1>3
  <2> QED  BY <1>1, <1>2, <2>1, <2>2, CallStep
<1>5. TablesTyped'
  BY <1>2, CallFacts DEF TablesTyped, tables
<1>6. KernelTyped'
  <2>1. /\ disp' = [disp EXCEPT ![call.sig] = IF call.kind = "default" THEN "default" ELSE "script"]
        /\ resets' = IF call.kind = "once" THEN resets \cup {call.sig} ELSE resets \ {call.sig}
    BY DEF Sigaction
  <2>2. disp' \in [Sigs -> {"default", "script"}] /\ resets' \subseteq Sigs /\ blocked' \subseteq Sigs
    BY <1>1, <1>2, <2>1, CallFacts DEF KernelTyped
  <2>3. \A t \in Sigs : disp'[t] = "default" => t \notin resets'
    BY <1>1, <2>1, CallFacts DEF KernelTyped
  <2> QED  BY <1>2, <2>2, <2>3, CallFacts DEF KernelTyped
<1>7. upset' \in BOOLEAN
  BY DEF Sigaction
<1> QED  BY <1>2, <1>4, <1>5, <1>6, <1>7 DEF LevelInv, Typed

\* A section of SigAction$ is left.
LEMMA ClosesLevel ==
  ASSUME LevelInv, NEW c \in Calls, stack' = Calling(c), CallOK(c), call.at \in {"assign", "retire"},
         c.at \notin {"assign", "retire"}, depth' = depth, blocked' = call.mask
  PROVE  StackTyped' /\ MaskInv' /\ DepthInv' /\ blocked' \subseteq Sigs
<1>1. \A t \in Sigs : t \in blocked' <=> MaskBelow(stack, Len(stack), t) \/ t = top.sig
                                         \/ (c.at \in {"assign", "retire"} /\ c.sig = t)
  BY CallFacts, MaskFacts
<1>2. StackTyped' /\ MaskInv' /\ DepthInv'
  BY <1>1, CallFacts, CallStep
<1> QED  BY <1>2, CallFacts, CallFields

LEMMA AssignLevel ==
  ASSUME LevelInv, Assign
  PROVE  LevelInv'
<1>1. PICK c \in Calls : stack' = Calling(c) /\ CallOK(c) /\ c.at \in {"none", "lookup"}
  BY AssignFacts
<1>2. /\ call.at = "assign" /\ call.sig \in Sigs /\ blocked' = call.mask
      /\ UNCHANGED <<disp, resets, pending, cmd, ids, depth, ncalls, nraises, lost, upset>>
  BY AssignFacts DEF Assign, AssignWith
<1>3. StackTyped' /\ MaskInv' /\ DepthInv' /\ blocked' \subseteq Sigs
  BY <1>1, <1>2, ClosesLevel
<1>4. TablesTyped'
  <2>1. CASE call.kind = "default"
    BY <1>2, <2>1, CallFacts DEF Assign, AssignWith, TablesTyped
  <2>2. CASE call.kind # "default"
    <3>1. call.id \in Numbers /\ call.n \in Commands \cup {0}
      BY <2>2, CallFacts, CallFields DEF CallOK
    <3>2. /\ actions' = [actions EXCEPT ![call.sig] = call.id]
          /\ flags' = IF call.kind = "once" THEN flags \cup {call.sig} ELSE flags \ {call.sig}
          /\ latest' = [latest EXCEPT ![call.sig] = call.n]
      BY <2>2 DEF Assign, AssignWith
    <3> QED  BY <1>2, <3>1, <3>2, CallFacts DEF TablesTyped
  <2> QED  BY <2>1, <2>2
<1>5. KernelTyped'
  BY <1>2, <1>3, CallFacts DEF KernelTyped
<1> QED  BY <1>2, <1>3, <1>4, <1>5 DEF LevelInv, Typed

LEMMA LookupLevel ==
  ASSUME LevelInv, Lookup
  PROVE  LevelInv'
<1>1. PICK c \in Calls :
        /\ stack' = Calling(c) /\ CallOK(c)
        /\ \/ /\ c.at = "retire" /\ c.sig = call.sig
              /\ c.mask = blocked /\ blocked' = blocked \cup {call.sig}
           \/ c.at = "none" /\ blocked' = blocked
  BY LookupFacts
<1>2. /\ call.at = "lookup" /\ call.sig \in Sigs /\ top.at = "run"
      /\ UNCHANGED <<disp, resets, pending, tables, depth, ncalls, nraises, latest, lost, upset>>
  BY LookupFacts, CallFacts DEF Lookup
<1>3. \A t \in Sigs : t \in blocked <=> MaskBelow(stack, Len(stack), t) \/ t = top.sig
  BY <1>2, CallFacts, MaskFacts DEF Masks, call
<1>4. StackTyped' /\ MaskInv' /\ DepthInv'
  <2>1. \A t \in Sigs : t \in blocked' <=> MaskBelow(stack, Len(stack), t) \/ t = top.sig
                                           \/ (c.at \in {"assign", "retire"} /\ c.sig = t)
    BY <1>1, <1>2, <1>3
  <2>2. c.at \in {"assign", "retire"} =>
          \A t \in Sigs : t \in c.mask <=> t = top.sig \/ MaskBelow(stack, Len(stack), t)
    BY <1>1, <1>3
  <2> QED  BY <1>1, <1>2, <2>1, <2>2, CallStep
<1>5. TablesTyped' /\ KernelTyped'
  BY <1>1, <1>2, CallFacts DEF TablesTyped, KernelTyped, tables
<1> QED  BY <1>2, <1>4, <1>5 DEF LevelInv, Typed

LEMMA RetireLevel ==
  ASSUME LevelInv, Retire
  PROVE  LevelInv'
<1>1. /\ call.at = "retire" /\ stack' = Calling(NoCall) /\ blocked' = call.mask
      /\ UNCHANGED <<disp, resets, pending, actions, flags, depth, ncalls, nraises, latest, lost>>
  BY DEF Retire, RetireWith
<1>2. StackTyped' /\ MaskInv' /\ DepthInv' /\ blocked' \subseteq Sigs
  BY <1>1, NoCallFacts, ClosesLevel
<1>3. call.old \in Numbers
  BY <1>1, CallFacts DEF CallOK
<1>4. /\ \/ cmd' = [i \in Numbers |-> IF i \in ids \cup {call.old} THEN 0 ELSE cmd[i]]
         \/ cmd' = cmd
      /\ ids' = {} \/ ids' = ids \cup {call.old}
  BY DEF Retire, RetireWith
<1>5. cmd' \in [Numbers -> Commands \cup {0}] /\ ids' \subseteq Numbers
  BY <1>3, <1>4, CallFacts DEF TablesTyped
<1>6. TablesTyped' /\ KernelTyped'
  BY <1>1, <1>2, <1>5, CallFacts DEF TablesTyped, KernelTyped
<1>7. upset' \in BOOLEAN
  BY DEF Retire, RetireWith
<1> QED  BY <1>1, <1>2, <1>6, <1>7 DEF LevelInv, Typed

LEMMA LevelStep ==
  ASSUME LevelInv, [Next]_vars
  PROVE  LevelInv'
<1>1. CASE UNCHANGED vars
  <2>1. StackTyped' /\ TablesTyped' /\ KernelTyped' /\ MaskInv' /\ DepthInv'
    BY <1>1, CallFacts DEF vars, StackTyped, TablesTyped, KernelTyped, MaskInv, DepthInv, Deep
  <2> QED  BY <1>1, <2>1 DEF vars, LevelInv, Typed
<1>2. CASE Next
  BY <1>2, RaiseLevel, DeliverLevel, BeginLevel, HandlerLevel, LeaveLevel, StoreLevel,
     UnmaskLevel, SigactionLevel, AssignLevel, LookupLevel, RetireLevel DEF Next, Proceed
<1> QED  BY <1>1, <1>2

LEMMA LevelInit == Init => LevelInv
<1> SUFFICES ASSUME Init PROVE LevelInv
  OBVIOUS
<1>1. /\ stack = <<Script>> /\ blocked = {} /\ depth = 0
  BY DEF Init
<1>2. /\ stack \in Seq(Frames) /\ Len(stack) = 1 /\ stack[1] = Script
      /\ \A j \in 1..Len(stack) : stack[j] = Script
      /\ \A j \in 2..Len(stack) : FALSE
  BY <1>1, ScriptFacts
<1>3. StackTyped
  BY <1>2, ScriptFacts DEF StackTyped
<1>4. TablesTyped /\ KernelTyped
  <2>1. /\ actions = [s \in Sigs |-> 0] /\ flags = {} /\ cmd = [i \in Numbers |-> 0]
        /\ ids = {} /\ latest = [s \in Sigs |-> 0]
    BY DEF Init
  <2>2. disp = [s \in Sigs |-> "default"] /\ resets = {} /\ pending = {}
    BY DEF Init
  <2> QED  BY <1>1, <2>1, <2>2 DEF TablesTyped, KernelTyped
<1>5. ncalls \in 0..MaxCalls /\ lost \subseteq Numbers /\ upset \in BOOLEAN
  <2>1. ncalls = 0 /\ lost = {} /\ upset = FALSE
    BY DEF Init
  <2>2. ncalls \in 0..MaxCalls
    BY <2>1, BoundsAssumption
  <2>3. upset \in BOOLEAN
    BY <2>1, Zenon
  <2> QED  BY <2>1, <2>2, <2>3
<1>6. MaskInv
  <2>1. \A s \in Sigs : ~ MaskBelow(stack, 2, s)
    BY <1>2, ScriptFacts DEF MaskBelow
  <2>2. Len(stack) + 1 = 2
    BY <1>2
  <2> QED  BY <1>1, <1>2, <2>1, <2>2, ScriptFacts, NoCallFacts DEF MaskInv
<1>7. DepthInv
  <2>1. Deep = {}
    BY <1>2 DEF Deep
  <2> QED  BY <1>1, <2>1, FS_EmptySet DEF DepthInv
<1> QED  BY <1>3, <1>4, <1>5, <1>6, <1>7 DEF LevelInv, Typed

-----------------------------------------------------------------------------
(* What follows for the masks.                                             *)

LEMMA LevelsFacts ==
  ASSUME StackTyped
  PROVE  /\ \A f \in Levels : \E j \in 1..Len(stack) : f = stack[j]
         /\ \A j \in 1..Len(stack) : stack[j] \in Levels
         /\ stack[1] \in Levels /\ \A j \in 2..Len(stack) : stack[j] # stack[1]
BY StackFacts, SigsAssumption DEF StackTyped, Levels

\* No signal has two handlers on the stack.
LEMMA StackBound ==
  ASSUME LevelInv
  PROVE  Len(stack) <= Cardinality(Sigs) + 1
<1> DEFINE D == 2..Len(stack)
           sigOf == [j \in D |-> stack[j].sig]
<1>1. Len(stack) \in Nat /\ Len(stack) >= 1
  BY CallFacts, StackFacts
<1>2. \A j \in D : stack[j].sig \in Sigs
  BY CallFacts DEF StackTyped
<1>3. \A i, j \in D : i < j => stack[i].sig # stack[j].sig
  <2> SUFFICES ASSUME NEW i \in D, NEW j \in D, i < j PROVE stack[i].sig # stack[j].sig
    OBVIOUS
  <2>1. ~ MaskBelow(stack, j, stack[j].sig)
    BY CallFacts DEF MaskInv
  <2>2. i \in 1..(j - 1)
    BY <1>1
  <2> QED  BY <2>1, <2>2 DEF MaskBelow, Masks
<1>4. sigOf \in Injection(D, Sigs)
  <2>1. sigOf \in [D -> Sigs]
    BY <1>2
  <2>2. \A i, j \in D : sigOf[i] = sigOf[j] => i = j
    <3> SUFFICES ASSUME NEW i \in D, NEW j \in D, stack[i].sig = stack[j].sig PROVE i = j
      OBVIOUS
    <3>1. i \in Int /\ j \in Int /\ ~ (i < j) /\ ~ (j < i)
      BY <1>1, <1>3
    <3> QED  BY <3>1
  <2> HIDE DEF sigOf
  <2> QED  BY <2>1, <2>2 DEF Injection, IsInjective
<1>5. Cardinality(D) <= Cardinality(Sigs)
  BY <1>4, SigsAssumption, FS_Injection
<1>6. Cardinality(D) = Len(stack) - 1 /\ Cardinality(Sigs) \in Nat
  BY <1>1, SigsAssumption, FS_Interval, FS_CardinalityType
<1> QED  BY <1>1, <1>5, <1>6

LEMMA LevelImplies == LevelInv => TypeOK /\ MaskRestored
<1> SUFFICES ASSUME LevelInv PROVE TypeOK /\ MaskRestored
  OBVIOUS
<1>1. TypeOK
  <2>1. Levels \subseteq Frames
    BY CallFacts, StackFacts, LevelsFacts
  <2>2. depth \in 0..(Len(stack) - 1)
    BY CallFacts, StackFacts, DeepFacts DEF DepthInv
  <2> QED  BY <2>1, <2>2, CallFacts, StackBound DEF LevelInv, Typed, TablesTyped, KernelTyped, TypeOK
<1>2. MaskRestored
  <2> DEFINE H == {f.sig : f \in Levels \ {stack[1]}}
             C == {f.call.sig : f \in {g \in Levels : g.call.at \in {"assign", "retire"}}}
             n == Len(stack)
  <2>1. /\ n \in Nat /\ (n + 1) - 1 = n /\ StackTyped
        /\ blocked \subseteq Sigs
    BY CallFacts, StackFacts DEF KernelTyped
  <2>2. \A s \in Sigs : s \in blocked <=> \E j \in 1..n : Masks(stack[j], s)
    <3> HIDE DEF n
    <3>1. \A s \in Sigs : s \in blocked <=> MaskBelow(stack, n + 1, s)
      BY CallFacts DEF MaskInv, n
    <3> QED  BY <2>1, <3>1 DEF MaskBelow
  <2>3. ASSUME NEW s \in blocked PROVE s \in H \cup C
    <3>1. PICK j \in 1..n : Masks(stack[j], s)
      BY <2>1, <2>2, <2>3
    <3>2. CASE stack[j].sig = s
      <4>1. j # 1
        BY <2>1, <3>2, SigsAssumption DEF StackTyped
      <4>2. stack[j] \in Levels /\ stack[j] # stack[1]
        BY <2>1, <4>1, LevelsFacts, StackFacts
      <4> QED  BY <3>2, <4>2
    <3>3. CASE stack[j].call.at \in {"assign", "retire"} /\ stack[j].call.sig = s
      <4>1. stack[j] \in {g \in Levels : g.call.at \in {"assign", "retire"}}
        BY <2>1, <3>3, LevelsFacts
      <4> QED  BY <3>3, <4>1
    <3> QED  BY <3>1, <3>2, <3>3 DEF Masks
  <2>4. ASSUME NEW s \in H PROVE s \in blocked
    <3>1. PICK f \in Levels : f # stack[1] /\ s = f.sig
      BY <2>4
    <3>2. PICK j \in 1..n : f = stack[j]
      BY <2>1, LevelsFacts
    <3>3. j \in 2..n /\ s \in Sigs
      BY <2>1, <3>1, <3>2, StackFacts DEF StackTyped
    <3> QED  BY <2>2, <3>1, <3>2, <3>3 DEF Masks
  <2>5. ASSUME NEW s \in C PROVE s \in blocked
    <3>1. PICK f \in Levels : f.call.at \in {"assign", "retire"} /\ s = f.call.sig
      BY <2>5
    <3>2. PICK j \in 1..n : f = stack[j]
      BY <2>1, LevelsFacts
    <3>3. s \in Sigs
      BY <2>1, <3>1, <3>2 DEF StackTyped, FrameOK, CallOK
    <3> QED  BY <2>2, <3>1, <3>2, <3>3 DEF Masks
  <2>6. blocked = H \cup C
    BY <2>3, <2>4, <2>5
  <2> QED  BY <2>6 DEF MaskRestored
<1> QED  BY <1>1, <1>2

LEMMA AlwaysLevel == Spec => []LevelInv
<1>1. LevelInv /\ [Next]_vars => LevelInv'
  BY LevelStep
<1> QED  BY <1>1, LevelInit, PTL DEF Spec

\* The state has its type; no more handlers are on the stack than there are
\* signals, and the depth is no more than the handlers (tfProcess_.c).
THEOREM SignalsTypeOK == Spec => []TypeOK
BY AlwaysLevel, LevelImplies, PTL

\* However handlers interrupt the calls of SigAction and each other, a signal is
\* blocked by its handler and by the open sections of SigAction$, and by nothing
\* else (sigprocmask in tfProcess_.c, the mask sigaction returns to).
THEOREM SignalsMaskRestored == Spec => []MaskRestored
BY AlwaysLevel, LevelImplies, PTL

-----------------------------------------------------------------------------
(* The commands: the numbers that are used, kept and given.                *)

\* The kernel and the arrays agree about the signal.
Live(s) == disp[s] = "script" /\ \A j \in 1..Len(stack) : ~ Assigning(stack[j], s)

\* The numbers a handler, or a call that replaces a command, will mark.
HandHolds(f, ac, fl, i) ==
  \/ f.sig \in Sigs /\ f.at = "read" /\ f.sig \in fl /\ ac[f.sig] = i
  \/ f.sig \in Sigs /\ f.at # "read" /\ f.once /\ f.act = i
CallHolds(c, ac, i) ==
  \/ c.at = "assign" /\ c.had /\ ac[c.sig] = i
  \/ c.at \in {"lookup", "retire"} /\ c.old = i
Holds(f, ac, fl, i) == HandHolds(f, ac, fl, i) \/ CallHolds(f.call, ac, i)

\* The number a call will give to its signal, if no error ends it.
Gives(c, i) == c.at \in {"unmask", "sigaction", "assign"} /\ c.kind # "default" /\ c.id = i

Used(i) == \E s \in Sigs : Live(s) /\ actions[s] = i
Kept(i) == i \in ids \/ \E j \in 1..Len(stack) : Holds(stack[j], actions, flags, i)
Given(i) == i \in lost \/ \E j \in 1..Len(stack) : Gives(stack[j].call, i)

\* A signal that has the script's handler has a number, a command of its own,
\* and the flags it had with it.
LiveInv ==
  /\ \A s \in Sigs : Live(s) => /\ actions[s] \in Numbers /\ cmd[actions[s]] = latest[s]
                                /\ latest[s] # 0 /\ (s \in flags <=> s \in resets)
  /\ \A s, t \in Sigs : Live(s) /\ Live(t) /\ actions[s] = actions[t] => s = t

\* What is kept for removal still has its command and is no signal's.
KeptInv == \A i \in Numbers \cup {0} : Kept(i) => i \in Numbers /\ cmd[i] # 0 /\ ~ Used(i)

\* A number a call has stored, or will, is its own, and so is one an error left.
GivenInv ==
  /\ \A i \in Numbers : Given(i) => ~ Used(i) /\ ~ Kept(i)
  /\ \A i \in lost : cmd[i] # 0
  /\ \A j \in 1..Len(stack) : \A i \in Numbers : Gives(stack[j].call, i) =>
       /\ cmd[i] = stack[j].call.n /\ cmd[i] # 0 /\ i \notin lost
       /\ \A m \in 1..Len(stack) : Gives(stack[m].call, i) => m = j
  /\ \A j \in 1..Len(stack) : stack[j].call.at = "store" => cmd[stack[j].call.id] = 0

\* A handler has, or will read, the number of the command it was called for.
HandlerOK(f, ac, cm, la, fl, di) ==
  /\ f.at = "read" => /\ ac[f.sig] \in Numbers /\ cm[ac[f.sig]] = la[f.sig] /\ la[f.sig] # 0
                      /\ (f.sig \in fl <=> di[f.sig] = "default")
  /\ f.at = "deepen" /\ f.once => di[f.sig] = "default"
  /\ f.at \in {"deepen", "command"} => f.act \in Numbers /\ cm[f.act] = f.want /\ f.want # 0

HandlerInv ==
  \A j \in 1..Len(stack) :
    /\ HandlerOK(stack[j], actions, cmd, latest, flags, disp)
    /\ stack[j].at \in {"read", "deepen"} =>
         \A m \in 1..Len(stack) : ~ Assigning(stack[m], stack[j].sig)

\* A call of sigaction has told the kernel what it will tell the arrays.
AssignInv ==
  \A j \in 1..Len(stack) :
    /\ \A s \in Sigs : Assigning(stack[j], s) =>
         /\ (disp[s] = "script" <=> stack[j].call.kind # "default")
         /\ (s \in resets <=> stack[j].call.kind = "once")
         /\ \A m \in 1..Len(stack) : Assigning(stack[m], s) => m = j
    /\ stack[j].call.at = "lookup" /\ stack[j].call.kind # "default" =>
         stack[j].call.id # stack[j].call.old

\* A number with a command is one of the three.
OwnedInv == \A i \in Numbers : cmd[i] # 0 => Used(i) \/ Kept(i) \/ Given(i)

CommandInv == LiveInv /\ KeptInv /\ GivenInv /\ HandlerInv /\ AssignInv /\ OwnedInv

-----------------------------------------------------------------------------
\* What a call of the top level leaves of the stack.
LEMMA CallingFacts ==
  ASSUME LevelInv, NEW c \in Calls, stack' = Calling(c), CallOK(c), top.at = "run"
  PROVE  /\ Len(stack') = Len(stack) /\ Len(stack) \in Nat /\ Len(stack) \in 1..Len(stack)
         /\ stack[Len(stack)] = top /\ stack[Len(stack)].call = call
         /\ stack'[Len(stack)].call = c /\ stack'[Len(stack)].at = "run"
         /\ \A j \in 1..Len(stack) : j # Len(stack) => stack'[j] = stack[j]
         /\ \A j \in 1..Len(stack) : /\ stack'[j].sig = stack[j].sig /\ stack'[j].at = stack[j].at
                                     /\ (\A ac, fl, i : HandHolds(stack'[j], ac, fl, i)
                                                          <=> HandHolds(stack[j], ac, fl, i))
                                     /\ (\A ac, cm, la, fl, di :
                                           HandlerOK(stack'[j], ac, cm, la, fl, di)
                                             <=> HandlerOK(stack[j], ac, cm, la, fl, di))
<1> DEFINE f == [top EXCEPT !.call = c]
<1>1. /\ f \in Frames /\ f.call = c /\ f.sig = top.sig /\ f.at = top.at
      /\ f.act = top.act /\ f.once = top.once /\ f.want = top.want
      /\ stack' = With(f) /\ FrameOK(f)
  BY CallFacts, CallFrame DEF Calling, FrameOK
<1> HIDE DEF f
<1>2. /\ Len(stack') = Len(stack) /\ stack'[Len(stack)] = f
      /\ \A j \in 1..Len(stack) : j # Len(stack) => stack'[j] = stack[j]
  BY <1>1, CallFacts, WithFacts
<1>3. /\ Len(stack) \in Nat /\ Len(stack) \in 1..Len(stack) /\ stack[Len(stack)] = top
  BY CallFacts, StackFacts
<1>4. /\ \A ac, fl, i : HandHolds(f, ac, fl, i) <=> HandHolds(top, ac, fl, i)
      /\ \A ac, cm, la, fl, di : HandlerOK(f, ac, cm, la, fl, di) <=> HandlerOK(top, ac, cm, la, fl, di)
  BY <1>1 DEF HandHolds, HandlerOK
<1>5. \A j \in 1..Len(stack) : /\ stack'[j].sig = stack[j].sig /\ stack'[j].at = stack[j].at
                               /\ (\A ac, fl, i : HandHolds(stack'[j], ac, fl, i)
                                                    <=> HandHolds(stack[j], ac, fl, i))
                               /\ (\A ac, cm, la, fl, di :
                                     HandlerOK(stack'[j], ac, cm, la, fl, di)
                                       <=> HandlerOK(stack[j], ac, cm, la, fl, di))
  <2> TAKE j \in 1..Len(stack)
  <2>1. CASE j = Len(stack)
    BY <1>1, <1>2, <1>3, <1>4, <2>1
  <2>2. CASE j # Len(stack)
    BY <1>2, <2>2
  <2> QED  BY <2>1, <2>2
<1> QED  BY <1>1, <1>2, <1>3, <1>5 DEF call

\* The stack and the tables look the same to every level, and what is kept is
\* the same.
LEMMA SameKept ==
  ASSUME CommandInv,
         UNCHANGED <<disp, resets, actions, flags, cmd, latest, lost>>,
         Len(stack') = Len(stack), \A i \in Numbers \cup {0} : Kept(i)' <=> Kept(i),
         \A j \in 1..Len(stack) :
           /\ \A s : Assigning(stack'[j], s) => stack'[j].call.kind = stack[j].call.kind
           /\ \A s : Assigning(stack'[j], s) <=> Assigning(stack[j], s)
           /\ \A i : Gives(stack'[j].call, i) <=> Gives(stack[j].call, i)
           /\ \A i : Gives(stack'[j].call, i) => stack'[j].call.n = stack[j].call.n
           /\ stack'[j].call.at = "store" => cmd[stack'[j].call.id] = 0
           /\ stack'[j].call.at = "lookup" /\ stack'[j].call.kind # "default" =>
                stack'[j].call.id # stack'[j].call.old
           /\ HandlerOK(stack'[j], actions, cmd, latest, flags, disp)
           /\ stack'[j].sig = stack[j].sig
           /\ stack'[j].at \in {"read", "deepen"} => stack[j].at \in {"read", "deepen"}
  PROVE  CommandInv'
<1>1. \A s \in Sigs : Live(s)' <=> Live(s)
  BY DEF Live
<1>2. \A i \in Numbers \cup {0} : (Used(i)' <=> Used(i)) /\ (Kept(i)' <=> Kept(i)) /\ (Given(i)' <=> Given(i))
  <2> TAKE i \in Numbers \cup {0}
  <2>1. Used(i)' <=> Used(i)
    BY <1>1 DEF Used
  <2>2. Kept(i)' <=> Kept(i)
    OBVIOUS
  <2>3. Given(i)' <=> Given(i)
    BY DEF Given
  <2> QED  BY <2>1, <2>2, <2>3
<1>3. LiveInv'
  BY <1>1 DEF LiveInv, CommandInv
<1>4. KeptInv'
  BY <1>2 DEF KeptInv, CommandInv
<1>5. GivenInv'
  <2>1. \A i \in Numbers : Given(i)' => ~ Used(i)' /\ ~ Kept(i)'
    BY <1>2 DEF GivenInv, CommandInv
  <2>2. \A j \in 1..Len(stack) : \A i \in Numbers : Gives(stack'[j].call, i) =>
          /\ cmd[i] = stack'[j].call.n /\ cmd[i] # 0 /\ i \notin lost
          /\ \A m \in 1..Len(stack) : Gives(stack'[m].call, i) => m = j
    BY DEF GivenInv, CommandInv
  <2> QED  BY <2>1, <2>2 DEF GivenInv, CommandInv
<1>6. HandlerInv'
  BY DEF HandlerInv, CommandInv
<1>7. AssignInv'
  <2>1. \A j \in 1..Len(stack) : \A s \in Sigs : Assigning(stack'[j], s) =>
         /\ (disp[s] = "script" <=> stack'[j].call.kind # "default")
         /\ (s \in resets <=> stack'[j].call.kind = "once")
         /\ \A m \in 1..Len(stack) : Assigning(stack'[m], s) => m = j
    BY DEF AssignInv, CommandInv
  <2> QED  BY <2>1 DEF AssignInv
<1>8. OwnedInv'
  BY <1>2 DEF OwnedInv, CommandInv
<1> QED  BY <1>3, <1>4, <1>5, <1>6, <1>7, <1>8 DEF CommandInv

\* The same, when each level keeps what it kept.
LEMMA SameCommands ==
  ASSUME CommandInv,
         UNCHANGED <<disp, resets, actions, flags, cmd, ids, latest, lost>>,
         Len(stack') = Len(stack),
         \A j \in 1..Len(stack) :
           /\ \A s : Assigning(stack'[j], s) => stack'[j].call.kind = stack[j].call.kind
           /\ \A s : Assigning(stack'[j], s) <=> Assigning(stack[j], s)
           /\ \A i \in Numbers \cup {0} :
                Holds(stack'[j], actions, flags, i) <=> Holds(stack[j], actions, flags, i)
           /\ \A i : Gives(stack'[j].call, i) <=> Gives(stack[j].call, i)
           /\ \A i : Gives(stack'[j].call, i) => stack'[j].call.n = stack[j].call.n
           /\ stack'[j].call.at = "store" => cmd[stack'[j].call.id] = 0
           /\ stack'[j].call.at = "lookup" /\ stack'[j].call.kind # "default" =>
                stack'[j].call.id # stack'[j].call.old
           /\ HandlerOK(stack'[j], actions, cmd, latest, flags, disp)
           /\ stack'[j].sig = stack[j].sig
           /\ stack'[j].at \in {"read", "deepen"} => stack[j].at \in {"read", "deepen"}
  PROVE  CommandInv'
<1>1. \A i \in Numbers \cup {0} : Kept(i)' <=> Kept(i)
  BY DEF Kept
<1> QED  BY <1>1, SameKept

\* A call begins, or goes on and neither takes nor gives a number.
LEMMA QuietCall ==
  ASSUME LevelInv, CommandInv, NEW c \in Calls, stack' = Calling(c), CallOK(c), top.at = "run",
         call.at \in {"none", "lookup"}, c.at \in {"store", "sigaction", "retire"},
         c.at = "sigaction" => c.kind = "default",
         c.at = "store" => cmd[c.id] = 0,
         \A i : CallHolds(c, actions, i) <=> CallHolds(call, actions, i),
         UNCHANGED <<disp, resets, actions, flags, cmd, ids, latest, lost>>
  PROVE  CommandInv'
<1> DEFINE n == Len(stack)
<1>1. /\ Len(stack') = n /\ n \in 1..n /\ stack[n].call = call /\ stack'[n].call = c
      /\ \A j \in 1..n : j # n => stack'[j] = stack[j]
      /\ \A j \in 1..n : /\ stack'[j].sig = stack[j].sig /\ stack'[j].at = stack[j].at
                         /\ (\A ac, fl, i : HandHolds(stack'[j], ac, fl, i)
                                              <=> HandHolds(stack[j], ac, fl, i))
                         /\ (\A ac, cm, la, fl, di :
                               HandlerOK(stack'[j], ac, cm, la, fl, di)
                                 <=> HandlerOK(stack[j], ac, cm, la, fl, di))
  BY CallingFacts
<1> HIDE DEF n
<1>2. ASSUME NEW j \in 1..n
      PROVE  /\ \A s : ~ Assigning(stack[n], s) /\ ~ Assigning(stack'[n], s)
             /\ \A s : Assigning(stack'[j], s) => stack'[j].call.kind = stack[j].call.kind
             /\ \A s : Assigning(stack'[j], s) <=> Assigning(stack[j], s)
  BY <1>1, <1>2 DEF Assigning
<1>3. ASSUME NEW j \in 1..n
      PROVE  \A i : Holds(stack'[j], actions, flags, i) <=> Holds(stack[j], actions, flags, i)
  <2> TAKE i
  <2>1. CallHolds(stack'[j].call, actions, i) <=> CallHolds(stack[j].call, actions, i)
    BY <1>1, <1>3
  <2>2. HandHolds(stack'[j], actions, flags, i) <=> HandHolds(stack[j], actions, flags, i)
    BY <1>1, <1>3
  <2> QED  BY <2>1, <2>2 DEF Holds
<1>4. ASSUME NEW j \in 1..n
      PROVE  /\ \A i : Gives(stack'[j].call, i) <=> Gives(stack[j].call, i)
             /\ \A i : Gives(stack'[j].call, i) => stack'[j].call.n = stack[j].call.n
             /\ stack'[j].call.at = "store" => cmd[stack'[j].call.id] = 0
             /\ stack'[j].call.at = "lookup" /\ stack'[j].call.kind # "default" =>
                  stack'[j].call.id # stack'[j].call.old
  <2>1. CASE j = n
    BY <1>1, <1>4, <2>1 DEF Gives
  <2>2. CASE j # n
    BY <1>1, <1>4, <2>2 DEF CommandInv, GivenInv, AssignInv, n
  <2> QED  BY <2>1, <2>2
<1>5. ASSUME NEW j \in 1..n
      PROVE  /\ HandlerOK(stack'[j], actions, cmd, latest, flags, disp)
             /\ stack'[j].sig = stack[j].sig
             /\ stack'[j].at \in {"read", "deepen"} => stack[j].at \in {"read", "deepen"}
  BY <1>1, <1>5 DEF CommandInv, HandlerInv, n
<1> QED  BY <1>1, <1>2, <1>3, <1>4, <1>5, SameCommands DEF n

LEMMA BeginCommands ==
  ASSUME LevelInv, CommandInv, NEW s \in Sigs, NEW h \in {"persistent", "once"}, NEW q \in BOOLEAN,
         Choose(s, h, q) \/ ToDefault(s)
  PROVE  CommandInv'
<1>1. PICK c \in Calls :
        /\ stack' = Calling(c) /\ CallOK(c) /\ top.at = "run" /\ call.at = "none"
        /\ \/ c.at = "store" /\ cmd[c.id] = 0
           \/ c.at = "sigaction" /\ c.kind = "default"
  BY ChooseFacts, ToDefaultFacts
<1>2. UNCHANGED <<disp, resets, actions, flags, cmd, ids, latest, lost>>
  BY DEF Choose, ToDefault, kernel, tables
<1>3. \A i : CallHolds(c, actions, i) <=> CallHolds(call, actions, i)
  BY <1>1 DEF CallHolds
<1> QED  BY <1>1, <1>2, <1>3, QuietCall

\* A number passes between a call and what the errors left; it stays given.
LEMMA Handed ==
  ASSUME LevelInv, CommandInv, NEW c \in Calls, stack' = Calling(c), CallOK(c), top.at = "run",
         call.at \in {"none", "unmask"}, c.at \in {"none", "sigaction"},
         UNCHANGED <<disp, resets, actions, flags, cmd, ids, latest>>,
         \A i \in Numbers : i \in lost' \/ Gives(c, i) <=> i \in lost \/ Gives(call, i),
         lost' \subseteq Numbers,
         \A i \in Numbers : Gives(c, i) => cmd[i] = c.n /\ i \notin lost'
  PROVE  CommandInv'
<1> DEFINE n == Len(stack)
<1>1. /\ Len(stack') = n /\ n \in 1..n /\ stack[n].call = call /\ stack'[n].call = c
      /\ \A j \in 1..n : j # n => stack'[j] = stack[j]
      /\ \A j \in 1..n : /\ stack'[j].sig = stack[j].sig /\ stack'[j].at = stack[j].at
                         /\ (\A ac, fl, i : HandHolds(stack'[j], ac, fl, i)
                                              <=> HandHolds(stack[j], ac, fl, i))
                         /\ (\A ac, cm, la, fl, di :
                               HandlerOK(stack'[j], ac, cm, la, fl, di)
                                 <=> HandlerOK(stack[j], ac, cm, la, fl, di))
  BY CallingFacts
<1> HIDE DEF n
<1>2. ASSUME NEW j \in 1..n
      PROVE  /\ \A s : Assigning(stack'[j], s) <=> Assigning(stack[j], s)
             /\ \A i : CallHolds(stack'[j].call, actions, i) <=> CallHolds(stack[j].call, actions, i)
             /\ j = n => ~ \E s : Assigning(stack'[j], s)
  <2>1. CASE j = n
    BY <1>1, <2>1 DEF Assigning, CallHolds
  <2>2. CASE j # n
    BY <1>1, <1>2, <2>2
  <2> QED  BY <2>1, <2>2
<1>3. \A s \in Sigs : Live(s)' <=> Live(s)
  BY <1>1, <1>2 DEF Live, n
<1>4. ASSUME NEW i \in Numbers \cup {0}
      PROVE  (Used(i)' <=> Used(i)) /\ (Kept(i)' <=> Kept(i)) /\ (i \in Numbers => (Given(i)' <=> Given(i)))
  <2>1. Used(i)' <=> Used(i)
    BY <1>3 DEF Used
  <2>2. Kept(i)' <=> Kept(i)
    BY <1>1, <1>2 DEF Kept, Holds, n
  <2>3. ASSUME i \in Numbers PROVE Given(i)' <=> Given(i)
    BY <1>1, <2>3 DEF Given, n
  <2> QED  BY <2>1, <2>2, <2>3
<1>5. LiveInv' /\ KeptInv' /\ OwnedInv'
  BY <1>3, <1>4 DEF CommandInv, LiveInv, KeptInv, OwnedInv
<1>6. GivenInv'
  <2>1. \A i \in Numbers : Given(i)' => ~ Used(i)' /\ ~ Kept(i)'
    BY <1>4 DEF CommandInv, GivenInv
  <2>2. \A i \in Numbers : Given(i) => cmd[i] # 0
    BY DEF CommandInv, GivenInv, Given
  <2>3. \A i \in lost' : cmd[i] # 0
    BY <1>1, <2>2 DEF Given, n
  <2>4. \A j \in 1..n : j # n => \A i \in Numbers : Gives(stack[j].call, i) =>
          i \notin lost /\ ~ Gives(call, i) /\ i \notin lost' /\ ~ Gives(c, i)
    BY <1>1 DEF CommandInv, GivenInv, n
  <2>5. ASSUME NEW j \in 1..n, NEW i \in Numbers, Gives(stack'[j].call, i)
        PROVE  /\ cmd[i] = stack'[j].call.n /\ cmd[i] # 0 /\ i \notin lost'
               /\ \A m \in 1..n : Gives(stack'[m].call, i) => m = j
    <3>1. CASE j = n
      <4>1. Gives(c, i) /\ Given(i)
        BY <1>1, <2>5, <3>1 DEF Given, n
      <4> QED  BY <1>1, <2>2, <2>4, <3>1, <4>1
    <3>2. CASE j # n
      <4>1. Gives(stack[j].call, i)
        BY <1>1, <2>5, <3>2
      <4>2. /\ cmd[i] = stack[j].call.n /\ cmd[i] # 0
            /\ \A m \in 1..n : Gives(stack[m].call, i) => m = j
        BY <4>1 DEF CommandInv, GivenInv, n
      <4> QED  BY <1>1, <2>4, <3>2, <4>1, <4>2
    <3> QED  BY <3>1, <3>2
  <2>6. \A j \in 1..n : stack'[j].call.at = "store" => cmd[stack'[j].call.id] = 0
    <3> SUFFICES ASSUME NEW j \in 1..n, stack'[j].call.at = "store" PROVE cmd[stack'[j].call.id] = 0
      OBVIOUS
    <3>1. stack'[j] = stack[j]
      BY <1>1
    <3> QED  BY <3>1 DEF CommandInv, GivenInv, n
  <2> QED  BY <1>1, <2>1, <2>3, <2>5, <2>6 DEF GivenInv
<1>7. HandlerInv'
  BY <1>1, <1>2 DEF CommandInv, HandlerInv, n
<1>8. AssignInv'
  <2> SUFFICES ASSUME NEW j \in 1..n
               PROVE  /\ \A s \in Sigs : Assigning(stack'[j], s) =>
                          /\ (disp[s] = "script" <=> stack'[j].call.kind # "default")
                          /\ (s \in resets <=> stack'[j].call.kind = "once")
                          /\ \A m \in 1..n : Assigning(stack'[m], s) => m = j
                      /\ stack'[j].call.at = "lookup" /\ stack'[j].call.kind # "default" =>
                           stack'[j].call.id # stack'[j].call.old
    BY <1>1 DEF AssignInv
  <2>1. CASE j = n
    BY <1>1, <1>2, <2>1
  <2>2. CASE j # n
    BY <1>1, <1>2, <2>2 DEF CommandInv, AssignInv, n
  <2> QED  BY <2>1, <2>2
<1> QED  BY <1>5, <1>6, <1>7, <1>8 DEF CommandInv

\* What the wrapper stored goes on with the call, or is left over.
LEMMA UnmaskCommands ==
  ASSUME LevelInv, CommandInv, Unmask
  PROVE  CommandInv'
<1>1. /\ call.at = "unmask" /\ call.kind # "default" /\ call.id \in Numbers /\ top.at = "run"
      /\ UNCHANGED <<disp, resets, actions, flags, cmd, ids, latest>>
  BY UnmaskFacts, CallFacts DEF Unmask, kernel, tables
<1>2. \A i : Gives(call, i) <=> i = call.id
  BY <1>1 DEF Gives
<1>3. cmd[call.id] = call.n /\ call.id \notin lost
  <2>1. Len(stack) \in 1..Len(stack) /\ stack[Len(stack)].call = call
    BY CallFacts, StackFacts DEF call
  <2> QED  BY <1>1, <1>2, <2>1 DEF CommandInv, GivenInv
<1>4. PICK c \in Calls :
        /\ stack' = Calling(c) /\ CallOK(c)
        /\ \/ /\ c.at = "sigaction" /\ c.kind = call.kind /\ c.id = call.id
              /\ c.n = call.n /\ lost' = lost
           \/ c.at = "none" /\ lost' = lost \cup {call.id}
  BY UnmaskFacts
<1>5. lost' \subseteq Numbers
  BY <1>1, <1>4 DEF LevelInv, Typed
<1>6. \A i \in Numbers : i \in lost' \/ Gives(c, i) <=> i \in lost \/ Gives(call, i)
  BY <1>1, <1>2, <1>4 DEF Gives
<1>7. \A i \in Numbers : Gives(c, i) => cmd[i] = c.n /\ i \notin lost'
  BY <1>1, <1>3, <1>4 DEF Gives
<1> QED  BY <1>1, <1>4, <1>5, <1>6, <1>7, Handed

\* The script gives a number an error left over.
LEMMA GiveCommands ==
  ASSUME LevelInv, CommandInv, NEW s \in Sigs, NEW h \in {"persistent", "once"}, NEW i \in Numbers,
         Give(s, h, i), ~ upset'
  PROVE  CommandInv'
<1>1. /\ i \in lost /\ lost' = lost \ {i}
      /\ UNCHANGED <<disp, resets, actions, flags, cmd, ids, latest>>
  BY DEF Give, kernel, tables
<1>2. PICK c \in Calls :
        /\ stack' = Calling(c) /\ CallOK(c) /\ c.at = "sigaction" /\ c.kind = h
        /\ c.id = i /\ c.n = cmd[i] /\ top.at = "run" /\ call.at = "none"
  BY GiveFacts
<1>3. \A d : (Gives(c, d) <=> d = i) /\ ~ Gives(call, d)
  BY <1>2 DEF Gives
<1>4. lost' \subseteq Numbers
  BY <1>1 DEF LevelInv, Typed
<1> QED  BY <1>1, <1>2, <1>3, <1>4, Handed

\* The number looked up has a command and is not the one just given.
LEMMA LookupCommands ==
  ASSUME LevelInv, CommandInv, Lookup
  PROVE  CommandInv'
<1> DEFINE n == Len(stack)
<1>1. call.at = "lookup" /\ UNCHANGED <<disp, resets, actions, flags, cmd, ids, latest, lost>>
  BY DEF Lookup, tables
<1>2. /\ n \in 1..n /\ stack[n].call = call /\ call \in Calls /\ top.at = "run"
  BY <1>1, CallFacts, StackFacts DEF call
<1>3. call.old \in Numbers /\ cmd[call.old] # 0
  <2>1. call.old \in Numbers \cup {0}
    BY <1>2, CallFields
  <2>2. Holds(stack[n], actions, flags, call.old)
    BY <1>1, <1>2 DEF Holds, CallHolds
  <2> QED  BY <1>2, <2>1, <2>2 DEF Kept, KeptInv, CommandInv
<1>4. call.kind = "default" \/ call.id # call.old
  BY <1>1, <1>2 DEF CommandInv, AssignInv
<1>5. call.old # 0
  BY <1>3 DEF Numbers
<1>6. PICK c \in Calls :
        /\ stack' = Calling(c) /\ CallOK(c) /\ c.at = "retire" /\ c.old = call.old
  BY <1>3, <1>4, <1>5, LookupFacts
<1>7. \A i : CallHolds(c, actions, i) <=> CallHolds(call, actions, i)
  BY <1>1, <1>6 DEF CallHolds
<1> QED  BY <1>1, <1>2, <1>6, <1>7, QuietCall

\* A handler reads what it is to evaluate and takes it.
LEMMA HandlerCommands ==
  ASSUME LevelInv, CommandInv, ReadAction \/ Deepen \/ Command
  PROVE  CommandInv'
<1> DEFINE n == Len(stack)
<1>1. /\ top.at \in {"read", "deepen", "command"}
      /\ n \in 1..n /\ stack[n] = top /\ top.call = call /\ call.at = "none" /\ top.sig \in Sigs
  BY CallFacts, HandlerFacts, StackFacts DEF ReadAction, Deepen, Command, call
<1>2. HandlerOK(top, actions, cmd, latest, flags, disp)
  BY <1>1 DEF CommandInv, HandlerInv
<1>3. UNCHANGED <<actions, flags, cmd, ids, latest, lost>>
  BY DEF ReadAction, Deepen, Command, tables
<1>4. disp' = disp /\ resets' = resets
  <2>1. CASE Deepen /\ top.once
    <3>1. disp[top.sig] = "default" /\ top.sig \notin resets
      BY <1>1, <1>2, <2>1, CallFacts DEF HandlerOK, Deepen, KernelTyped
    <3>2. [disp EXCEPT ![top.sig] = "default"] = disp /\ resets \ {top.sig} = resets
      BY <1>1, <3>1, CallFacts DEF KernelTyped
    <3> QED  BY <2>1, <3>2 DEF Deepen
  <2>2. CASE ~ (Deepen /\ top.once)
    BY <2>2 DEF ReadAction, Deepen, Command, kernel
  <2> QED  BY <2>1, <2>2
<1>5. PICK f \in Frames :
        /\ stack' = With(f) /\ f.sig = top.sig /\ f.call = top.call /\ FrameOK(f)
        /\ f.at \in {"deepen", "command", "run"}
        /\ f.at = "deepen" => top.at \in {"read", "deepen"}
        /\ HandlerOK(f, actions, cmd, latest, flags, disp)
        /\ \A i : HandHolds(f, actions, flags, i) <=> HandHolds(top, actions, flags, i)
  <2>1. CASE ReadAction
    <3>1. top.at = "read"
      BY <2>1 DEF ReadAction
    <3>2. PICK f \in Frames :
            /\ stack' = With(f) /\ f.sig = top.sig /\ f.at = "deepen" /\ f.saved = top.saved
            /\ f.call = top.call /\ f.act = actions[top.sig] /\ f.want = latest[top.sig]
            /\ (f.once <=> top.sig \in flags) /\ FrameOK(f)
      BY <2>1, ReadActionFacts
    <3>3. HandlerOK(f, actions, cmd, latest, flags, disp)
      BY <1>2, <3>1, <3>2 DEF HandlerOK
    <3>4. \A i : HandHolds(f, actions, flags, i) <=> HandHolds(top, actions, flags, i)
      BY <3>1, <3>2 DEF HandHolds
    <3> QED  BY <3>1, <3>2, <3>3, <3>4
  <2>2. CASE Deepen \/ Command
    <3>1. PICK a \in {"command", "run"} :
            /\ stack' = With([top EXCEPT !.at = a])
            /\ a = "command" => top.at = "deepen"
            /\ top.at \in {"deepen", "command"}
      BY <2>2 DEF Deepen, Command
    <3>2. PICK f \in Frames :
            /\ stack' = With(f) /\ f.sig = top.sig /\ f.at = a /\ f.saved = top.saved
            /\ f.call = top.call /\ f.act = top.act /\ f.want = top.want
            /\ f.once = top.once /\ FrameOK(f)
      BY <3>1, AtFacts
    <3>3. HandlerOK(f, actions, cmd, latest, flags, disp)
      BY <1>2, <3>1, <3>2 DEF HandlerOK
    <3>4. \A i : HandHolds(f, actions, flags, i) <=> HandHolds(top, actions, flags, i)
      BY <3>1, <3>2 DEF HandHolds
    <3> QED  BY <3>1, <3>2, <3>3, <3>4
  <2> QED  BY <2>1, <2>2
<1>6. /\ Len(stack') = n /\ stack'[n] = f
      /\ \A j \in 1..n : j # n => stack'[j] = stack[j]
  BY <1>1, <1>5, CallFacts, WithFacts
<1> HIDE DEF n
<1>7. ASSUME NEW j \in 1..n
      PROVE  /\ stack'[j].call = stack[j].call /\ stack'[j].sig = stack[j].sig
             /\ stack'[j].at \in {"read", "deepen"} => stack[j].at \in {"read", "deepen"}
             /\ \A i : HandHolds(stack'[j], actions, flags, i) <=> HandHolds(stack[j], actions, flags, i)
             /\ HandlerOK(stack'[j], actions, cmd, latest, flags, disp)
  <2>1. CASE j = n
    BY <1>1, <1>5, <1>6, <2>1
  <2>2. CASE j # n
    BY <1>6, <1>7, <2>2 DEF CommandInv, HandlerInv, n
  <2> QED  BY <2>1, <2>2
<1>8. ASSUME NEW j \in 1..n
      PROVE  /\ \A s : Assigning(stack'[j], s) <=> Assigning(stack[j], s)
             /\ \A i : Holds(stack'[j], actions, flags, i) <=> Holds(stack[j], actions, flags, i)
             /\ stack'[j].call.at = "store" => cmd[stack'[j].call.id] = 0
             /\ stack'[j].call.at = "lookup" /\ stack'[j].call.kind # "default" =>
                  stack'[j].call.id # stack'[j].call.old
  BY <1>7, <1>8 DEF Assigning, Holds, CommandInv, GivenInv, AssignInv, n
<1> QED  BY <1>3, <1>4, <1>6, <1>7, <1>8, SameCommands DEF n

\* Every level but the last is below.
LEMMA BelowFacts ==
  ASSUME StackTyped
  PROVE  \A j \in 1..Len(stack) : j # Len(stack) => stack[j] \in Below
<1> SUFFICES ASSUME NEW j \in 1..Len(stack), j # Len(stack) PROVE stack[j] \in Below
  OBVIOUS
<1>1. j \in 1..(Len(stack) - 1)
  <2>1. Len(stack) \in Nat
    BY StackFacts
  <2> QED  BY <2>1
<1> QED  BY <1>1 DEF Below

\* A number given has a command, so a free one is not given, used or kept.
LEMMA FreeFacts ==
  ASSUME LevelInv, CommandInv, NEW d \in Numbers, cmd[d] = 0
  PROVE  ~ Used(d) /\ ~ Kept(d) /\ ~ Given(d)
<1>1. ~ Used(d)
  BY DEF CommandInv, LiveInv, Used
<1>2. ~ Kept(d)
  BY DEF CommandInv, KeptInv
<1>3. ~ Given(d)
  BY DEF CommandInv, GivenInv, Given
<1> QED  BY <1>1, <1>2, <1>3

\* The command is put under its number, which was free when it was chosen and
\* still is, for no other level is between the two.
LEMMA StoreCommands ==
  ASSUME LevelInv, CommandInv, Store, ~ upset'
  PROVE  CommandInv'
<1> DEFINE n == Len(stack)
           d == call.id
<1>1. PICK c \in Calls :
        /\ stack' = Calling(c) /\ CallOK(c) /\ c.at = "unmask" /\ c.kind # "default"
        /\ c.id = d /\ c.n = call.n /\ d \in Numbers /\ call.n \in Commands
  BY StoreFacts
<1>2. /\ call.at = "store" /\ cmd' = [cmd EXCEPT ![d] = call.n] /\ ~ TableOpen
      /\ UNCHANGED <<disp, resets, actions, flags, ids, latest, lost>>
  BY DEF Store, kernel
<1>3. top.at = "run"
  BY <1>2, CallFacts
<1>4. /\ Len(stack') = n /\ n \in 1..n /\ stack[n].call = call /\ stack'[n].call = c
      /\ \A j \in 1..n : j # n => stack'[j] = stack[j]
      /\ \A j \in 1..n : /\ stack'[j].sig = stack[j].sig /\ stack'[j].at = stack[j].at
                         /\ (\A ac, fl, i : HandHolds(stack'[j], ac, fl, i)
                                              <=> HandHolds(stack[j], ac, fl, i))
                         /\ (\A ac, cm, la, fl, di :
                               HandlerOK(stack'[j], ac, cm, la, fl, di)
                                 <=> HandlerOK(stack[j], ac, cm, la, fl, di))
  BY <1>1, <1>3, CallingFacts
<1>5. cmd[d] = 0 /\ ~ Used(d) /\ ~ Kept(d) /\ ~ Given(d)
  <2>1. cmd[d] = 0
    BY <1>2, <1>4 DEF CommandInv, GivenInv
  <2> QED  BY <1>1, <2>1, FreeFacts
<1>6. \A j \in 1..n : j # n => stack[j].call.at # "store"
  BY <1>2, CallFacts, BelowFacts DEF TableOpen
<1>7. cmd'[d] = c.n /\ c.n # 0 /\ \A i \in Numbers : i # d => cmd'[i] = cmd[i]
  BY <1>1, <1>2, CallFacts DEF TablesTyped, Commands
<1> HIDE DEF n, d
<1>8. \A j \in 1..n : /\ \A s : Assigning(stack'[j], s) <=> Assigning(stack[j], s)
                      /\ \A i : CallHolds(stack'[j].call, actions, i) <=> CallHolds(stack[j].call, actions, i)
                      /\ \A i : Gives(stack'[j].call, i) <=> Gives(stack[j].call, i) \/ (j = n /\ i = d)
  <2> TAKE j \in 1..n
  <2>1. CASE j = n
    BY <1>1, <1>2, <1>4, <2>1 DEF Assigning, CallHolds, Gives
  <2>2. CASE j # n
    BY <1>4, <2>2
  <2> QED  BY <2>1, <2>2
<1>9. \A s \in Sigs : Live(s)' <=> Live(s)
  BY <1>2, <1>4, <1>8 DEF Live, n
<1>10. ASSUME NEW i PROVE (Used(i)' <=> Used(i)) /\ (Kept(i)' <=> Kept(i)) /\ (Given(i)' <=> Given(i) \/ i = d)
  <2>1. Used(i)' <=> Used(i)
    BY <1>2, <1>9 DEF Used
  <2>2. Kept(i)' <=> Kept(i)
    <3>1. \A j \in 1..n : Holds(stack'[j], actions, flags, i) <=> Holds(stack[j], actions, flags, i)
      BY <1>4, <1>8 DEF Holds
    <3> QED  BY <1>2, <1>4, <3>1 DEF Kept, n
  <2>3. Given(i)' <=> Given(i) \/ i = d
    BY <1>2, <1>4, <1>8 DEF Given, n
  <2> QED  BY <2>1, <2>2, <2>3
<1>11. LiveInv'
  <2>1. \A s \in Sigs : Live(s) => actions[s] \in Numbers /\ actions[s] # d
    BY <1>5 DEF CommandInv, LiveInv, Used
  <2> QED  BY <1>2, <1>7, <1>9, <2>1 DEF CommandInv, LiveInv
<1>12. KeptInv'
  BY <1>5, <1>7, <1>10 DEF CommandInv, KeptInv
<1>13. GivenInv'
  <2>1. \A i \in Numbers : Given(i)' => ~ Used(i)' /\ ~ Kept(i)'
    BY <1>5, <1>10 DEF CommandInv, GivenInv
  <2>2. ASSUME NEW j \in 1..n, NEW i \in Numbers, Gives(stack'[j].call, i)
        PROVE  /\ cmd'[i] = stack'[j].call.n /\ cmd'[i] # 0 /\ i \notin lost
               /\ \A m \in 1..n : Gives(stack'[m].call, i) => m = j
    <3>1. CASE i = d
      <4>1. d \notin lost /\ \A m \in 1..n : ~ Gives(stack[m].call, d)
        BY <1>5 DEF Given, n
      <4>2. j = n /\ \A m \in 1..n : Gives(stack'[m].call, i) => m = n
        BY <1>8, <2>2, <3>1, <4>1
      <4> QED  BY <1>4, <1>7, <3>1, <4>1, <4>2
    <3>2. CASE i # d
      <4>1. Gives(stack[j].call, i) /\ \A m \in 1..n : Gives(stack'[m].call, i) => Gives(stack[m].call, i)
        BY <1>8, <2>2, <3>2
      <4>2. /\ cmd[i] = stack[j].call.n /\ cmd[i] # 0 /\ i \notin lost
            /\ \A m \in 1..n : Gives(stack'[m].call, i) => m = j
        BY <4>1 DEF CommandInv, GivenInv, n
      <4>3. j # n
        BY <1>2, <1>4, <4>1 DEF Gives
      <4> QED  BY <1>4, <1>7, <3>2, <4>2, <4>3
    <3> QED  BY <3>1, <3>2
  <2>3. \A j \in 1..n : stack'[j].call.at # "store"
    BY <1>1, <1>4, <1>6
  <2>4. \A i \in lost : cmd'[i] # 0
    <3>1. d \notin lost /\ lost \subseteq Numbers
      BY <1>5 DEF Given, LevelInv, Typed
    <3> QED  BY <1>7, <3>1 DEF CommandInv, GivenInv
  <2> QED  BY <1>2, <1>4, <2>1, <2>2, <2>3, <2>4 DEF GivenInv
<1>14. HandlerInv'
  <2> SUFFICES ASSUME NEW j \in 1..n
               PROVE  /\ HandlerOK(stack'[j], actions, cmd', latest, flags, disp)
                      /\ stack'[j].at \in {"read", "deepen"} =>
                           \A m \in 1..n : ~ Assigning(stack'[m], stack'[j].sig)
    BY <1>2, <1>4 DEF HandlerInv
  <2>1. /\ HandlerOK(stack[j], actions, cmd, latest, flags, disp)
        /\ stack[j].at \in {"read", "deepen"} => \A m \in 1..n : ~ Assigning(stack[m], stack[j].sig)
    BY DEF CommandInv, HandlerInv, n
  <2>2. HandlerOK(stack[j], actions, cmd', latest, flags, disp)
    BY <1>5, <1>7, <2>1 DEF HandlerOK
  <2> QED  BY <1>4, <1>8, <2>1, <2>2
<1>15. AssignInv'
  <2> SUFFICES ASSUME NEW j \in 1..n
               PROVE  /\ \A s \in Sigs : Assigning(stack'[j], s) =>
                          /\ (disp[s] = "script" <=> stack'[j].call.kind # "default")
                          /\ (s \in resets <=> stack'[j].call.kind = "once")
                          /\ \A m \in 1..n : Assigning(stack'[m], s) => m = j
                      /\ stack'[j].call.at = "lookup" /\ stack'[j].call.kind # "default" =>
                           stack'[j].call.id # stack'[j].call.old
    BY <1>2, <1>4 DEF AssignInv
  <2>1. CASE j = n
    <3>1. stack'[j].call.at = "unmask"
      BY <1>1, <1>4, <2>1
    <3> QED  BY <3>1 DEF Assigning
  <2>2. CASE j # n
    BY <1>4, <1>8, <2>2 DEF CommandInv, AssignInv, n
  <2> QED  BY <2>1, <2>2
<1>16. OwnedInv'
  BY <1>7, <1>10 DEF CommandInv, OwnedInv
<1> QED  BY <1>11, <1>12, <1>13, <1>14, <1>15, <1>16 DEF CommandInv

\* The kernel is told.  A signal that had the script's handler hands its number
\* to the call that replaces it.
LEMMA SigactionCommands ==
  ASSUME LevelInv, CommandInv, Sigaction, ~ upset'
  PROVE  CommandInv'
<1> DEFINE n == Len(stack)
<1>0. PICK z \in Sigs : z = call.sig
  BY SigactionFacts
<1>1. PICK c \in Calls :
        /\ stack' = Calling(c) /\ CallOK(c) /\ c.at = "assign" /\ c.kind = call.kind
        /\ c.sig = z /\ c.id = call.id /\ c.n = call.n
        /\ (c.had <=> disp[c.sig] = "script")
  BY <1>0, SigactionFacts
<1>2. /\ call.at = "sigaction" /\ ~ HalfWay(z)
      /\ disp' = [disp EXCEPT ![z] = IF call.kind = "default" THEN "default" ELSE "script"]
      /\ resets' = IF call.kind = "once" THEN resets \cup {z} ELSE resets \ {z}
      /\ UNCHANGED <<actions, flags, cmd, ids, latest, lost>>
  BY <1>0 DEF Sigaction, tables
<1>3. top.at = "run"
  BY <1>2, CallFacts
<1>4. /\ Len(stack') = n /\ n \in 1..n /\ stack[n].call = call /\ stack'[n].call = c
      /\ stack'[n].at = "run" /\ \A j \in 1..n : j # n => stack'[j] = stack[j]
      /\ \A j \in 1..n : /\ stack'[j].sig = stack[j].sig /\ stack'[j].at = stack[j].at
                         /\ (\A ac, fl, i : HandHolds(stack'[j], ac, fl, i)
                                              <=> HandHolds(stack[j], ac, fl, i))
                         /\ (\A ac, cm, la, fl, di :
                               HandlerOK(stack'[j], ac, cm, la, fl, di)
                                 <=> HandlerOK(stack[j], ac, cm, la, fl, di))
  BY <1>1, <1>3, CallingFacts
<1>5. /\ disp'[z] = (IF call.kind = "default" THEN "default" ELSE "script")
      /\ (z \in resets' <=> call.kind = "once")
      /\ \A s \in Sigs : s # z => disp'[s] = disp[s] /\ (s \in resets' <=> s \in resets)
  BY <1>1, <1>2, CallFacts DEF KernelTyped
<1>6. \A j \in 1..n : j # n => /\ ~ Assigning(stack[j], z)
                               /\ ~ (stack[j].sig = z /\ stack[j].at \in {"read", "deepen"})
  BY <1>2, CallFacts, BelowFacts DEF HalfWay, Assigning
<1> HIDE DEF n
<1>7. /\ \A s : ~ Assigning(stack[n], s)
      /\ \A s : Assigning(stack'[n], s) <=> s = z
      /\ \A j \in 1..n : \A s : Assigning(stack'[j], s) => Assigning(stack[j], s) \/ (j = n /\ s = z)
      /\ \A j \in 1..n : \A s : Assigning(stack[j], s) => Assigning(stack'[j], s)
  BY <1>1, <1>2, <1>4 DEF Assigning
<1>8. \A j \in 1..n : \A i :
        CallHolds(stack'[j].call, actions, i) <=>
          CallHolds(stack[j].call, actions, i) \/ (j = n /\ c.had /\ actions[z] = i)
  <2> TAKE j \in 1..n
  <2>1. CASE j = n
    BY <1>1, <1>2, <1>4, <2>1 DEF CallHolds
  <2>2. CASE j # n
    BY <1>4, <2>2
  <2> QED  BY <2>1, <2>2
<1>9. \A j \in 1..n : \A i : Gives(stack'[j].call, i) <=> Gives(stack[j].call, i)
  BY <1>1, <1>2, <1>4 DEF Gives
<1>10. /\ (Live(z) <=> c.had) /\ ~ Live(z)'
       /\ \A s \in Sigs : s # z => (Live(s)' <=> Live(s))
  <2>1. Live(z) <=> c.had
    BY <1>1, <1>4, <1>6, <1>7 DEF Live, n
  <2>2. ~ Live(z)'
    BY <1>4, <1>7 DEF Live, n
  <2>3. \A s \in Sigs : s # z => (Live(s)' <=> Live(s))
    BY <1>4, <1>5, <1>7 DEF Live, n
  <2> QED  BY <2>1, <2>2, <2>3
<1>11. ASSUME NEW i
       PROVE  /\ Used(i)' => Used(i) /\ ~ (c.had /\ actions[z] = i)
              /\ Used(i) => Used(i)' \/ (c.had /\ actions[z] = i)
              /\ Kept(i)' <=> Kept(i) \/ (c.had /\ actions[z] = i)
              /\ Given(i)' <=> Given(i)
  <2>1. Used(i)' => Used(i) /\ ~ (c.had /\ actions[z] = i)
    BY <1>1, <1>2, <1>10 DEF Used, CommandInv, LiveInv
  <2>2. Used(i) => Used(i)' \/ (c.had /\ actions[z] = i)
    BY <1>2, <1>10 DEF Used
  <2>3. Kept(i)' <=> Kept(i) \/ (c.had /\ actions[z] = i)
    <3>1. \A j \in 1..n : Holds(stack'[j], actions, flags, i) <=>
                            Holds(stack[j], actions, flags, i) \/ (j = n /\ c.had /\ actions[z] = i)
      BY <1>4, <1>8 DEF Holds
    <3> QED  BY <1>2, <1>4, <3>1 DEF Kept, n
  <2>4. Given(i)' <=> Given(i)
    BY <1>2, <1>4, <1>9 DEF Given, n
  <2> QED  BY <2>1, <2>2, <2>3, <2>4
<1>12. LiveInv'
  <2>1. \A s \in Sigs : Live(s)' => Live(s) /\ s # z
    BY <1>10
  <2> QED  BY <1>2, <1>5, <2>1 DEF CommandInv, LiveInv
<1>13. KeptInv'
  <2>1. c.had => actions[z] \in Numbers /\ cmd[actions[z]] # 0
    BY <1>1, <1>10 DEF CommandInv, LiveInv
  <2> QED  BY <1>2, <1>11, <2>1 DEF CommandInv, KeptInv
<1>14. GivenInv'
  <2>1. \A i \in Numbers : Given(i)' => ~ Used(i)' /\ ~ Kept(i)'
    <3>1. \A i : c.had /\ actions[z] = i => Used(i)
      BY <1>1, <1>10 DEF Used
    <3> QED  BY <1>11, <3>1 DEF CommandInv, GivenInv
  <2>2. \A j \in 1..n : \A i \in Numbers : Gives(stack'[j].call, i) =>
          /\ cmd[i] = stack'[j].call.n /\ cmd[i] # 0 /\ i \notin lost
          /\ \A m \in 1..n : Gives(stack'[m].call, i) => m = j
    <3>1. \A j \in 1..n : stack'[j].call.n = stack[j].call.n
      BY <1>1, <1>4
    <3> QED  BY <1>9, <3>1 DEF CommandInv, GivenInv, n
  <2>3. \A j \in 1..n : stack'[j].call.at = "store" => cmd[stack'[j].call.id] = 0
    <3> SUFFICES ASSUME NEW j \in 1..n, stack'[j].call.at = "store"
                 PROVE  cmd[stack'[j].call.id] = 0
      OBVIOUS
    <3>1. stack'[j] = stack[j]
      BY <1>1, <1>4
    <3> QED  BY <3>1 DEF CommandInv, GivenInv, n
  <2> QED  BY <1>2, <1>4, <2>1, <2>2, <2>3 DEF GivenInv, CommandInv
<1>15. HandlerInv'
  <2> SUFFICES ASSUME NEW j \in 1..n
               PROVE  /\ HandlerOK(stack'[j], actions, cmd, latest, flags, disp')
                      /\ stack'[j].at \in {"read", "deepen"} =>
                           \A m \in 1..n : ~ Assigning(stack'[m], stack'[j].sig)
    BY <1>2, <1>4 DEF HandlerInv
  <2>1. /\ HandlerOK(stack[j], actions, cmd, latest, flags, disp)
        /\ stack[j].at \in {"read", "deepen"} => \A m \in 1..n : ~ Assigning(stack[m], stack[j].sig)
    BY DEF CommandInv, HandlerInv, n
  <2>2. stack[j].at \in {"read", "deepen"} => stack[j].sig # z /\ stack[j].sig \in Sigs
    <3>1. ASSUME stack[j].at \in {"read", "deepen"} PROVE j # n /\ stack[j].sig \in Sigs
      BY <1>4, <3>1, CallFacts, StackFacts DEF StackTyped, n
    <3> QED  BY <1>6, <3>1
  <2>3. HandlerOK(stack[j], actions, cmd, latest, flags, disp')
    BY <1>5, <2>1, <2>2 DEF HandlerOK
  <2> QED  BY <1>4, <1>7, <2>1, <2>2, <2>3
<1>16. AssignInv'
  <2> SUFFICES ASSUME NEW j \in 1..n
               PROVE  /\ \A s \in Sigs : Assigning(stack'[j], s) =>
                          /\ (disp'[s] = "script" <=> stack'[j].call.kind # "default")
                          /\ (s \in resets' <=> stack'[j].call.kind = "once")
                          /\ \A m \in 1..n : Assigning(stack'[m], s) => m = j
                      /\ stack'[j].call.at = "lookup" /\ stack'[j].call.kind # "default" =>
                           stack'[j].call.id # stack'[j].call.old
    BY <1>4 DEF AssignInv
  <2>1. CASE j = n
    BY <1>1, <1>4, <1>5, <1>6, <1>7, <2>1
  <2>2. CASE j # n
    <3>1. stack'[j] = stack[j]
      BY <1>4, <2>2
    <3>2. /\ \A s \in Sigs : Assigning(stack[j], s) =>
               /\ (disp[s] = "script" <=> stack[j].call.kind # "default")
               /\ (s \in resets <=> stack[j].call.kind = "once")
               /\ \A m \in 1..n : Assigning(stack[m], s) => m = j
          /\ stack[j].call.at = "lookup" /\ stack[j].call.kind # "default" =>
               stack[j].call.id # stack[j].call.old
      BY DEF CommandInv, AssignInv, n
    <3>3. \A s : Assigning(stack[j], s) => s # z
      BY <1>6, <2>2
    <3> QED  BY <1>5, <1>7, <3>1, <3>2, <3>3
  <2> QED  BY <2>1, <2>2
<1>17. OwnedInv'
  BY <1>2, <1>11 DEF CommandInv, OwnedInv
<1> QED  BY <1>12, <1>13, <1>14, <1>15, <1>16, <1>17 DEF CommandInv

\* The arrays are told: the number given is the signal's from here on.
LEMMA AssignCommands ==
  ASSUME LevelInv, CommandInv, Assign
  PROVE  CommandInv'
<1> DEFINE n == Len(stack)
           g == call.kind # "default"
<1>0. PICK z \in Sigs : z = call.sig
  BY AssignFacts
<1>1. PICK c \in Calls :
        /\ stack' = Calling(c) /\ CallOK(c) /\ c.at \in {"none", "lookup"}
        /\ (c.at = "none" <=> ~ call.had)
        /\ (c.at = "lookup" => /\ c.kind = call.kind /\ c.sig = z
                               /\ c.id = call.id /\ c.old = actions[z])
  BY <1>0, AssignFacts
<1>2. /\ call.at = "assign" /\ UNCHANGED <<disp, resets, cmd, ids, lost>>
      /\ IF ~ g THEN UNCHANGED <<actions, flags, latest>>
         ELSE /\ actions' = [actions EXCEPT ![z] = call.id]
              /\ flags' = IF call.kind = "once" THEN flags \cup {z} ELSE flags \ {z}
              /\ latest' = [latest EXCEPT ![z] = call.n]
  BY <1>0 DEF Assign, AssignWith
<1>3. top.at = "run" /\ call \in Calls /\ CallOK(call)
  BY <1>2, CallFacts
<1>4. /\ Len(stack') = n /\ n \in 1..n /\ stack[n].call = call /\ stack'[n].call = c
      /\ stack'[n].at = "run" /\ \A j \in 1..n : j # n => stack'[j] = stack[j]
      /\ \A j \in 1..n : /\ stack'[j].sig = stack[j].sig /\ stack'[j].at = stack[j].at
                         /\ (\A ac, fl, i : HandHolds(stack'[j], ac, fl, i)
                                              <=> HandHolds(stack[j], ac, fl, i))
                         /\ (\A ac, cm, la, fl, di :
                               HandlerOK(stack'[j], ac, cm, la, fl, di)
                                 <=> HandlerOK(stack[j], ac, cm, la, fl, di))
  BY <1>1, <1>3, CallingFacts
<1>5. /\ \A s \in Sigs : s # z => /\ actions'[s] = actions[s] /\ latest'[s] = latest[s]
                                  /\ (s \in flags' <=> s \in flags)
      /\ g => /\ actions'[z] = call.id /\ latest'[z] = call.n
              /\ (z \in flags' <=> call.kind = "once")
              /\ call.id \in Numbers
  <2>1. g => call.id \in Numbers
    BY <1>3 DEF CallOK
  <2> QED  BY <1>2, <2>1, CallFacts DEF TablesTyped
<1>6. /\ Assigning(stack[n], z) /\ \A s : ~ Assigning(stack'[n], s)
      /\ (disp[z] = "script" <=> g) /\ (z \in resets <=> call.kind = "once")
      /\ \A j \in 1..n : j # n => ~ Assigning(stack[j], z)
      /\ \A j \in 1..n : stack[j].at \in {"read", "deepen"} => stack[j].sig # z
  <2>1. Assigning(stack[n], z) /\ \A s : ~ Assigning(stack'[n], s)
    BY <1>0, <1>1, <1>2, <1>4 DEF Assigning
  <2>2. /\ (disp[z] = "script" <=> g) /\ (z \in resets <=> call.kind = "once")
        /\ \A j \in 1..n : j # n => ~ Assigning(stack[j], z)
    BY <1>4, <2>1 DEF CommandInv, AssignInv
  <2>3. \A j \in 1..n : stack[j].at \in {"read", "deepen"} => stack[j].sig # z
    BY <1>4, <2>1 DEF CommandInv, HandlerInv
  <2> QED  BY <2>1, <2>2, <2>3
<1>7. \A j \in 1..n : \A s : Assigning(stack'[j], s) <=> Assigning(stack[j], s) /\ j # n
  BY <1>4, <1>6
<1>8. \A i : Gives(call, i) <=> g /\ i = call.id
  BY <1>2 DEF Gives
<1>9. \A j \in 1..n : \A i : Gives(stack'[j].call, i) <=> Gives(stack[j].call, i) /\ j # n
  BY <1>1, <1>4 DEF Gives
<1>10. g => /\ Given(call.id) /\ ~ Used(call.id) /\ ~ Kept(call.id) /\ cmd[call.id] = call.n
            /\ call.n # 0 /\ call.id \notin lost
            /\ \A j \in 1..n : Gives(stack[j].call, call.id) => j = n
  BY <1>4, <1>5, <1>8 DEF CommandInv, GivenInv, Given
<1> HIDE DEF n
<1>11. /\ \A s \in Sigs : s # z => (Live(s)' <=> Live(s))
       /\ (Live(z)' <=> g) /\ ~ Live(z)
  <2>1. \A s \in Sigs : s # z => (Live(s)' <=> Live(s))
    <3>1. \A s : s # z => ~ Assigning(stack[n], s)
      BY <1>0, <1>4 DEF Assigning
    <3> QED  BY <1>2, <1>4, <1>7, <3>1 DEF Live, n
  <2>2. Live(z)' <=> g
    BY <1>2, <1>4, <1>6, <1>7 DEF Live, n
  <2>3. ~ Live(z)
    BY <1>4, <1>6 DEF Live, n
  <2> QED  BY <2>1, <2>2, <2>3
<1>12. ASSUME NEW j \in 1..n, NEW i
       PROVE  Holds(stack'[j], actions', flags', i) <=> Holds(stack[j], actions, flags, i)
  <2>1. HandHolds(stack[j], actions', flags', i) <=> HandHolds(stack[j], actions, flags, i)
    BY <1>5, <1>6 DEF HandHolds
  <2>2. CallHolds(stack'[j].call, actions', i) <=> CallHolds(stack[j].call, actions, i)
    <3>1. CASE j = n
      <4>1. CallHolds(call, actions, i) <=> call.had /\ actions[z] = i
        BY <1>0, <1>2 DEF CallHolds
      <4>2. CallHolds(c, actions', i) <=> call.had /\ actions[z] = i
        BY <1>1 DEF CallHolds
      <4> QED  BY <1>4, <3>1, <4>1, <4>2
    <3>2. CASE j # n
      <4>1. stack[j].call.at = "assign" => stack[j].call.sig \in Sigs /\ stack[j].call.sig # z
        <5>1. stack[j].call.at = "assign" => stack[j].call.sig \in Sigs
          BY CallFacts DEF StackTyped, FrameOK, CallOK, n
        <5> QED  BY <1>6, <3>2, <5>1 DEF Assigning
      <4> QED  BY <1>4, <1>5, <3>2, <4>1 DEF CallHolds
    <3> QED  BY <3>1, <3>2
  <2> QED  BY <1>4, <2>1, <2>2 DEF Holds
<1>13. ASSUME NEW i
       PROVE  /\ Used(i)' <=> Used(i) \/ (g /\ i = call.id)
              /\ Kept(i)' <=> Kept(i)
              /\ Given(i)' <=> Given(i) /\ ~ (g /\ i = call.id)
  <2>1. Used(i)' <=> Used(i) \/ (g /\ i = call.id)
    BY <1>5, <1>11 DEF Used
  <2>2. Kept(i)' <=> Kept(i)
    BY <1>2, <1>4, <1>12 DEF Kept, n
  <2>3. Given(i)' <=> Given(i) /\ ~ (g /\ i = call.id)
    BY <1>2, <1>4, <1>8, <1>9, <1>10 DEF Given, n
  <2> QED  BY <2>1, <2>2, <2>3
<1>14. LiveInv'
  <2>1. ASSUME NEW s \in Sigs, Live(s)'
        PROVE  /\ actions'[s] \in Numbers /\ cmd[actions'[s]] = latest'[s] /\ latest'[s] # 0
               /\ (s \in flags' <=> s \in resets)
    <3>1. CASE s = z
      BY <1>5, <1>6, <1>10, <1>11, <2>1, <3>1
    <3>2. CASE s # z
      BY <1>5, <1>11, <2>1, <3>2 DEF CommandInv, LiveInv
    <3> QED  BY <3>1, <3>2
  <2>2. ASSUME NEW s \in Sigs, NEW t \in Sigs, Live(s)', Live(t)', actions'[s] = actions'[t]
        PROVE  s = t
    <3>1. ASSUME NEW u \in Sigs, u # z, Live(u)', Live(z)' PROVE actions'[u] # actions'[z]
      <4>1. Live(u) /\ g /\ actions'[u] = actions[u] /\ actions'[z] = call.id
        BY <1>5, <1>11, <3>1
      <4> QED  BY <1>10, <4>1 DEF Used
    <3>2. CASE s # z /\ t # z
      BY <1>5, <1>11, <2>2, <3>2 DEF CommandInv, LiveInv
    <3> QED  BY <2>2, <3>1, <3>2
  <2> QED  BY <1>2, <2>1, <2>2 DEF LiveInv
<1>15. KeptInv'
  BY <1>2, <1>10, <1>13 DEF CommandInv, KeptInv
<1>16. GivenInv'
  <2>1. \A i \in Numbers : Given(i)' => ~ Used(i)' /\ ~ Kept(i)'
    BY <1>13 DEF CommandInv, GivenInv
  <2>2. \A j \in 1..n : \A i \in Numbers : Gives(stack'[j].call, i) =>
          /\ cmd[i] = stack'[j].call.n /\ cmd[i] # 0 /\ i \notin lost
          /\ \A m \in 1..n : Gives(stack'[m].call, i) => m = j
    BY <1>4, <1>9 DEF CommandInv, GivenInv, n
  <2>3. \A j \in 1..n : stack'[j].call.at = "store" => cmd[stack'[j].call.id] = 0
    <3> SUFFICES ASSUME NEW j \in 1..n, stack'[j].call.at = "store"
                 PROVE  cmd[stack'[j].call.id] = 0
      OBVIOUS
    <3>1. stack'[j] = stack[j]
      BY <1>1, <1>4
    <3> QED  BY <3>1 DEF CommandInv, GivenInv, n
  <2> QED  BY <1>2, <1>4, <2>1, <2>2, <2>3 DEF GivenInv, CommandInv
<1>17. HandlerInv'
  <2> SUFFICES ASSUME NEW j \in 1..n
               PROVE  /\ HandlerOK(stack'[j], actions', cmd, latest', flags', disp)
                      /\ stack'[j].at \in {"read", "deepen"} =>
                           \A m \in 1..n : ~ Assigning(stack'[m], stack'[j].sig)
    BY <1>2, <1>4 DEF HandlerInv
  <2>1. /\ HandlerOK(stack[j], actions, cmd, latest, flags, disp)
        /\ stack[j].at \in {"read", "deepen"} => \A m \in 1..n : ~ Assigning(stack[m], stack[j].sig)
    BY DEF CommandInv, HandlerInv, n
  <2>2. stack[j].at = "read" => stack[j].sig # z /\ stack[j].sig \in Sigs
    <3>1. stack[j].at = "read" => stack[j].sig \in Sigs
      BY CallFacts, StackFacts DEF StackTyped, n
    <3> QED  BY <1>6, <3>1
  <2>3. HandlerOK(stack[j], actions', cmd, latest', flags', disp)
    BY <1>5, <2>1, <2>2 DEF HandlerOK
  <2> QED  BY <1>4, <1>7, <2>1, <2>3
<1>18. AssignInv'
  <2> SUFFICES ASSUME NEW j \in 1..n
               PROVE  /\ \A s \in Sigs : Assigning(stack'[j], s) =>
                          /\ (disp[s] = "script" <=> stack'[j].call.kind # "default")
                          /\ (s \in resets <=> stack'[j].call.kind = "once")
                          /\ \A m \in 1..n : Assigning(stack'[m], s) => m = j
                      /\ stack'[j].call.at = "lookup" /\ stack'[j].call.kind # "default" =>
                           stack'[j].call.id # stack'[j].call.old
    BY <1>2, <1>4 DEF AssignInv
  <2>1. CASE j = n
    <3>1. c.at = "lookup" /\ c.kind # "default" => c.id # c.old
      <4> SUFFICES ASSUME c.at = "lookup", c.kind # "default" PROVE call.id # actions[z]
        BY <1>1
      <4>1. CallHolds(call, actions, actions[z])
        BY <1>0, <1>1, <1>2 DEF CallHolds
      <4>2. Kept(actions[z])
        BY <1>4, <4>1 DEF Kept, Holds, n
      <4> QED  BY <1>1, <1>10, <4>2
    <3> QED  BY <1>4, <1>6, <2>1, <3>1
  <2>2. CASE j # n
    BY <1>4, <1>7, <2>2 DEF CommandInv, AssignInv, n
  <2> QED  BY <2>1, <2>2
<1>19. OwnedInv'
  BY <1>2, <1>13 DEF CommandInv, OwnedInv
<1> QED  BY <1>14, <1>15, <1>16, <1>17, <1>18, <1>19 DEF CommandInv

\* What was replaced is marked while handlers run; outside of handlers it is
\* removed with all that is marked.
LEMMA RetireCommands ==
  ASSUME LevelInv, CommandInv, Retire
  PROVE  CommandInv'
<1> DEFINE n == Len(stack)
           d == call.old
<1>1. /\ call.at = "retire" /\ stack' = Calling(NoCall)
      /\ IF depth = 0
         THEN cmd' = [i \in Numbers |-> IF i \in ids \cup {d} THEN 0 ELSE cmd[i]] /\ ids' = {}
         ELSE cmd' = cmd /\ ids' = ids \cup {d}
      /\ UNCHANGED <<disp, resets, actions, flags, latest, lost>>
  BY DEF Retire, RetireWith
<1>2. top.at = "run" /\ StackTyped /\ DepthInv
  BY <1>1, CallFacts
<1>3. /\ Len(stack') = n /\ n \in 1..n /\ stack[n] = top /\ stack[n].call = call
      /\ stack'[n].call = NoCall
      /\ stack'[n].at = "run" /\ \A j \in 1..n : j # n => stack'[j] = stack[j]
      /\ \A j \in 1..n : /\ stack'[j].sig = stack[j].sig /\ stack'[j].at = stack[j].at
                         /\ (\A ac, fl, i : HandHolds(stack'[j], ac, fl, i)
                                              <=> HandHolds(stack[j], ac, fl, i))
                         /\ (\A ac, cm, la, fl, di :
                               HandlerOK(stack'[j], ac, cm, la, fl, di)
                                 <=> HandlerOK(stack[j], ac, cm, la, fl, di))
  BY <1>1, <1>2, NoCallFacts, CallingFacts
<1>4. /\ \A s : ~ Assigning(stack[n], s) /\ ~ Assigning(stack'[n], s)
      /\ \A i : ~ Gives(stack[n].call, i) /\ ~ Gives(stack'[n].call, i)
      /\ \A i : ~ CallHolds(stack'[n].call, actions, i)
      /\ \A i : CallHolds(stack[n].call, actions, i) <=> i = d
  BY <1>1, <1>3, NoCallFacts DEF Assigning, Gives, CallHolds
<1> HIDE DEF n, d
<1>5. ASSUME NEW i
      PROVE  \A j \in 1..n : Holds(stack[j], actions, flags, i)
                               <=> Holds(stack'[j], actions, flags, i) \/ (j = n /\ i = d)
  <2> TAKE j \in 1..n
  <2>1. CASE j = n
    BY <1>3, <1>4, <2>1 DEF Holds
  <2>2. CASE j # n
    BY <1>3, <2>2
  <2> QED  BY <2>1, <2>2
<1>6. CASE depth # 0
  <2>1. \A i \in Numbers \cup {0} : Kept(i)' <=> Kept(i)
    <3> TAKE i \in Numbers \cup {0}
    <3>1. i \in ids' <=> i \in ids \/ i = d
      BY <1>1, <1>6
    <3> QED  BY <1>1, <1>3, <1>5, <3>1 DEF Kept, n
  <2>2. ASSUME NEW j \in 1..n
        PROVE  /\ \A s : Assigning(stack'[j], s) => stack'[j].call.kind = stack[j].call.kind
               /\ \A s : Assigning(stack'[j], s) <=> Assigning(stack[j], s)
               /\ \A i : Gives(stack'[j].call, i) <=> Gives(stack[j].call, i)
               /\ \A i : Gives(stack'[j].call, i) => stack'[j].call.n = stack[j].call.n
               /\ stack'[j].call.at = "store" => cmd[stack'[j].call.id] = 0
               /\ stack'[j].call.at = "lookup" /\ stack'[j].call.kind # "default" =>
                    stack'[j].call.id # stack'[j].call.old
    <3>1. CASE j = n
      BY <1>3, <1>4, <3>1, NoCallFacts
    <3>2. CASE j # n
      BY <1>3, <2>2, <3>2 DEF CommandInv, GivenInv, AssignInv, n
    <3> QED  BY <3>1, <3>2
  <2>3. ASSUME NEW j \in 1..n
        PROVE  /\ HandlerOK(stack'[j], actions, cmd, latest, flags, disp)
               /\ stack'[j].sig = stack[j].sig
               /\ stack'[j].at \in {"read", "deepen"} => stack[j].at \in {"read", "deepen"}
    BY <1>3, <2>3 DEF CommandInv, HandlerInv, n
  <2> QED  BY <1>1, <1>3, <1>6, <2>1, <2>2, <2>3, SameKept DEF n
<1>7. CASE depth = 0
  <2>1. n = 1 /\ top.sig \notin Sigs
    BY <1>2, <1>3, <1>7, DeepFacts, SigsAssumption DEF StackTyped, n
  <2>2. \A j \in 1..n : j = n
    BY <2>1
  <2>3. \A s \in Sigs : Live(s)' <=> Live(s)
    BY <1>1, <1>3, <1>4, <2>2 DEF Live, n
  <2>4. ASSUME NEW i
        PROVE  /\ Used(i)' <=> Used(i)
               /\ ~ Kept(i)' /\ (Kept(i) <=> i \in ids \/ i = d)
               /\ (Given(i)' <=> Given(i)) /\ (Given(i) <=> i \in lost)
    <3>1. Used(i)' <=> Used(i)
      BY <1>1, <2>3 DEF Used
    <3>2. ~ HandHolds(stack[n], actions, flags, i) /\ ~ HandHolds(stack'[n], actions, flags, i)
      BY <1>3, <2>1 DEF HandHolds
    <3>3. ~ Holds(stack'[n], actions, flags, i) /\ (Holds(stack[n], actions, flags, i) <=> i = d)
      BY <1>4, <3>2 DEF Holds
    <3>4. ~ Kept(i)'
      BY <1>1, <1>3, <1>7, <2>2, <3>3 DEF Kept, n
    <3>5. Kept(i) <=> i \in ids \/ i = d
      BY <1>3, <2>2, <3>3 DEF Kept, n
    <3>6. (Given(i)' <=> Given(i)) /\ (Given(i) <=> i \in lost)
      BY <1>1, <1>3, <1>4, <2>2 DEF Given, n
    <3> QED  BY <3>1, <3>4, <3>5, <3>6
  <2>5. \A i \in Numbers : IF Kept(i) THEN cmd'[i] = 0 ELSE cmd'[i] = cmd[i]
    <3> TAKE i \in Numbers
    <3>1. cmd'[i] = IF i \in ids \cup {d} THEN 0 ELSE cmd[i]
      BY <1>1, <1>7
    <3> QED  BY <2>4, <3>1
  <2>6. LiveInv'
    <3>1. \A s \in Sigs : Live(s) => actions[s] \in Numbers /\ ~ Kept(actions[s])
      BY DEF CommandInv, LiveInv, KeptInv, Used
    <3> QED  BY <1>1, <2>3, <2>5, <3>1 DEF CommandInv, LiveInv
  <2>7. KeptInv' /\ OwnedInv'
    BY <2>4, <2>5 DEF CommandInv, KeptInv, OwnedInv
  <2>8. GivenInv'
    <3>1. \A i \in Numbers : Given(i)' => ~ Used(i)' /\ ~ Kept(i)'
      BY <2>4 DEF CommandInv, GivenInv
    <3>2. \A i \in lost : i \in Numbers /\ cmd'[i] # 0
      BY <2>4, <2>5 DEF CommandInv, GivenInv, LevelInv, Typed
    <3> QED  BY <1>1, <1>3, <1>4, <2>2, <3>1, <3>2, NoCallFacts DEF GivenInv
  <2>9. HandlerInv' /\ AssignInv'
    BY <1>3, <1>4, <2>2, NoCallFacts DEF HandlerInv, HandlerOK, AssignInv
  <2> QED  BY <2>6, <2>7, <2>8, <2>9 DEF CommandInv
<1> QED  BY <1>6, <1>7

\* A handler is entered.  No level below is changing the signal; if the kernel
\* resets it, its number passes from the signal to the handler.
LEMMA DeliverCommands ==
  ASSUME LevelInv, CommandInv, NEW s \in Sigs, Deliver(s)
  PROVE  CommandInv'
<1> DEFINE n == Len(stack)
<1>1. PICK f \in Frames :
        /\ stack' = Append(stack, f) /\ f.sig = s /\ f.at = "read" /\ f.saved = blocked
        /\ f.call = NoCall /\ FrameOK(f)
  BY DeliverFacts
<1>2. PICK h \in BOOLEAN : h <=> s \in resets
  OBVIOUS
<1>3. PICK a \in Numbers \cup {0} : a = actions[s]
  BY CallFacts DEF TablesTyped
<1>4. /\ s \notin blocked /\ disp[s] = "script"
      /\ UNCHANGED <<actions, flags, cmd, ids, latest, lost>>
  BY DEF Deliver, tables
<1>5. /\ disp'[s] = (IF h THEN "default" ELSE "script") /\ s \notin resets'
      /\ \A t \in Sigs : t # s => disp'[t] = disp[t] /\ (t \in resets' <=> t \in resets)
  <2>1. IF h THEN disp' = [disp EXCEPT ![s] = "default"] /\ resets' = resets \ {s}
             ELSE disp' = disp /\ resets' = resets
    BY <1>2 DEF Deliver
  <2>2. disp \in [Sigs -> {"default", "script"}]
    BY CallFacts DEF KernelTyped
  <2>3. CASE h
    BY <2>1, <2>2, <2>3
  <2>4. CASE ~ h
    BY <1>2, <1>4, <2>1, <2>4
  <2> QED  BY <2>3, <2>4
<1>6. /\ StackTyped' /\ Len(stack') = n + 1 /\ stack'[n + 1] = f
      /\ \A j \in 1..n : stack'[j] = stack[j]
  BY <1>1, AppendFacts, CallFacts
<1>7. n \in Nat /\ n >= 1 /\ (\A j \in 1..(n + 1) : j \in 1..n \/ j = n + 1)
      /\ (\A j \in 1..n : j \in 1..(n + 1)) /\ n + 1 \in 1..(n + 1) /\ (n + 1) - 1 = n
  BY CallFacts, StackFacts
<1>8. \A j \in 1..n : /\ ~ Assigning(stack[j], s)
                      /\ stack[j].sig # s
                      /\ stack[j].at \in {"read", "deepen"} => stack[j].sig \in Sigs
  <2> TAKE j \in 1..n
  <2>1. ~ MaskBelow(stack, n + 1, s)
    BY <1>4, CallFacts DEF MaskInv
  <2>2. ~ Masks(stack[j], s)
    BY <1>7, <2>1 DEF MaskBelow
  <2>3. stack[j].at \in {"read", "deepen"} => stack[j].sig \in Sigs
    BY CallFacts, StackFacts DEF StackTyped
  <2> QED  BY <2>2, <2>3 DEF Masks, Assigning
<1> HIDE DEF n
<1>9. /\ \A t : ~ Assigning(f, t)
      /\ \A i : ~ Gives(f.call, i) /\ ~ CallHolds(f.call, actions, i)
  BY <1>1, NoCallFacts DEF Assigning, Gives, CallHolds
<1>10. \A t : (\A j \in 1..(n + 1) : ~ Assigning(stack'[j], t))
                <=> \A j \in 1..n : ~ Assigning(stack[j], t)
  BY <1>6, <1>7, <1>9
<1>11. /\ Live(s) /\ \A t \in Sigs : Live(t)' <=> Live(t) /\ ~ (h /\ t = s)
  <2>1. Live(s)
    BY <1>4, <1>8 DEF Live, n
  <2>2. \A t \in Sigs : Live(t)' <=> disp'[t] = "script" /\ \A j \in 1..n : ~ Assigning(stack[j], t)
    BY <1>6, <1>10 DEF Live
  <2>3. \A t \in Sigs : disp'[t] = "script" <=> disp[t] = "script" /\ ~ (h /\ t = s)
    BY <1>4, <1>5
  <2> QED  BY <2>1, <2>2, <2>3 DEF Live, n
<1>12. /\ a \in Numbers /\ cmd[a] = latest[s] /\ latest[s] # 0 /\ (s \in flags <=> h)
       /\ cmd[a] # 0 /\ Used(a)
  BY <1>2, <1>3, <1>11 DEF CommandInv, LiveInv, Used
<1>13. \A i : Holds(f, actions, flags, i) <=> h /\ a = i
  BY <1>1, <1>3, <1>9, <1>12 DEF Holds, HandHolds
<1>14. ASSUME NEW i
       PROVE  /\ Used(i)' <=> Used(i) /\ ~ (h /\ a = i)
              /\ Kept(i)' <=> Kept(i) \/ (h /\ a = i)
              /\ Given(i)' <=> Given(i)
  <2>1. Used(i)' <=> Used(i) /\ ~ (h /\ a = i)
    <3>1. ASSUME NEW t \in Sigs, Live(t)', actions[t] = i, h, a = i PROVE FALSE
      <4>1. Live(t) /\ t # s
        BY <1>11, <3>1
      <4> QED  BY <1>3, <1>11, <3>1, <4>1 DEF CommandInv, LiveInv
    <3>2. ASSUME Used(i)' PROVE Used(i) /\ ~ (h /\ a = i)
      BY <1>4, <1>11, <3>1, <3>2 DEF Used
    <3>3. ASSUME Used(i), ~ (h /\ a = i) PROVE Used(i)'
      BY <1>3, <1>4, <1>11, <3>3 DEF Used
    <3> QED  BY <3>2, <3>3
  <2>2. Kept(i)' <=> Kept(i) \/ (h /\ a = i)
    BY <1>4, <1>6, <1>7, <1>13 DEF Kept, n
  <2>3. Given(i)' <=> Given(i)
    BY <1>4, <1>6, <1>7, <1>9 DEF Given, n
  <2> QED  BY <2>1, <2>2, <2>3
<1>15. LiveInv'
  <2>1. \A t \in Sigs : Live(t)' => Live(t) /\ (t # s \/ ~ h)
    BY <1>11
  <2>2. \A t \in Sigs : Live(t)' => (t \in resets' <=> t \in resets)
    BY <1>2, <1>5, <2>1
  <2> QED  BY <1>4, <2>1, <2>2 DEF CommandInv, LiveInv
<1>16. KeptInv'
  BY <1>4, <1>12, <1>14 DEF CommandInv, KeptInv
<1>17. GivenInv'
  <2>1. \A i \in Numbers : Given(i)' => ~ Used(i)' /\ ~ Kept(i)'
    BY <1>12, <1>14 DEF CommandInv, GivenInv
  <2>2. \A j \in 1..(n + 1) : \A i \in Numbers : Gives(stack'[j].call, i) =>
          /\ cmd[i] = stack'[j].call.n /\ cmd[i] # 0 /\ i \notin lost
          /\ \A m \in 1..(n + 1) : Gives(stack'[m].call, i) => m = j
    BY <1>6, <1>7, <1>9 DEF CommandInv, GivenInv, n
  <2>3. \A j \in 1..(n + 1) : stack'[j].call.at = "store" => cmd[stack'[j].call.id] = 0
    <3> SUFFICES ASSUME NEW j \in 1..(n + 1), stack'[j].call.at = "store"
                 PROVE  cmd[stack'[j].call.id] = 0
      OBVIOUS
    <3>1. j \in 1..n /\ stack'[j] = stack[j]
      BY <1>1, <1>6, <1>7, NoCallFacts
    <3> QED  BY <3>1 DEF CommandInv, GivenInv, n
  <2> QED  BY <1>4, <1>6, <2>1, <2>2, <2>3 DEF GivenInv, CommandInv
<1>18. HandlerInv'
  <2> SUFFICES ASSUME NEW j \in 1..(n + 1)
               PROVE  /\ HandlerOK(stack'[j], actions, cmd, latest, flags, disp')
                      /\ stack'[j].at \in {"read", "deepen"} =>
                           \A m \in 1..(n + 1) : ~ Assigning(stack'[m], stack'[j].sig)
    BY <1>4, <1>6 DEF HandlerInv
  <2>1. CASE j = n + 1
    <3>1. HandlerOK(f, actions, cmd, latest, flags, disp')
      BY <1>1, <1>3, <1>5, <1>12 DEF HandlerOK
    <3>2. \A m \in 1..(n + 1) : ~ Assigning(stack'[m], s)
      BY <1>8, <1>10
    <3> QED  BY <1>1, <1>6, <2>1, <3>1, <3>2
  <2>2. CASE j \in 1..n
    <3>1. /\ HandlerOK(stack[j], actions, cmd, latest, flags, disp)
          /\ stack[j].at \in {"read", "deepen"} => \A m \in 1..n : ~ Assigning(stack[m], stack[j].sig)
      BY <2>2 DEF CommandInv, HandlerInv, n
    <3>2. HandlerOK(stack[j], actions, cmd, latest, flags, disp')
      BY <1>5, <1>8, <2>2, <3>1 DEF HandlerOK
    <3> QED  BY <1>6, <1>10, <2>2, <3>1, <3>2
  <2> QED  BY <1>7, <2>1, <2>2
<1>19. AssignInv'
  <2> SUFFICES ASSUME NEW j \in 1..(n + 1)
               PROVE  /\ \A t \in Sigs : Assigning(stack'[j], t) =>
                          /\ (disp'[t] = "script" <=> stack'[j].call.kind # "default")
                          /\ (t \in resets' <=> stack'[j].call.kind = "once")
                          /\ \A m \in 1..(n + 1) : Assigning(stack'[m], t) => m = j
                      /\ stack'[j].call.at = "lookup" /\ stack'[j].call.kind # "default" =>
                           stack'[j].call.id # stack'[j].call.old
    BY <1>6 DEF AssignInv
  <2>1. CASE j = n + 1
    BY <1>1, <1>6, <1>9, <2>1, NoCallFacts
  <2>2. CASE j \in 1..n
    <3>1. /\ \A t \in Sigs : Assigning(stack[j], t) =>
               /\ (disp[t] = "script" <=> stack[j].call.kind # "default")
               /\ (t \in resets <=> stack[j].call.kind = "once")
               /\ \A m \in 1..n : Assigning(stack[m], t) => m = j
          /\ stack[j].call.at = "lookup" /\ stack[j].call.kind # "default" =>
               stack[j].call.id # stack[j].call.old
      BY <2>2 DEF CommandInv, AssignInv, n
    <3>2. \A t \in Sigs : Assigning(stack[j], t) => t # s
      BY <1>8, <2>2
    <3>3. \A m \in 1..(n + 1) : \A t : Assigning(stack'[m], t) => m \in 1..n /\ Assigning(stack[m], t)
      BY <1>6, <1>7, <1>9
    <3> QED  BY <1>5, <1>6, <2>2, <3>1, <3>2, <3>3
  <2> QED  BY <1>7, <2>1, <2>2
<1>20. OwnedInv'
  BY <1>4, <1>14 DEF CommandInv, OwnedInv
<1> QED  BY <1>15, <1>16, <1>17, <1>18, <1>19, <1>20 DEF CommandInv

\* A handler is left.  The command it was called once for is marked now.
LEMMA LeaveCommands ==
  ASSUME LevelInv, CommandInv, Leave
  PROVE  CommandInv'
<1> DEFINE n == Len(stack)
           m == n - 1
<1>1. /\ top.sig \in Sigs /\ top.at = "run" /\ call.at = "none"
      /\ stack' = SubSeq(stack, 1, n - 1) /\ ids' = ids \cup Spent
      /\ UNCHANGED <<disp, resets, actions, flags, cmd, latest, lost>>
  BY DEF Leave, LeaveWith
<1>2. /\ Len(stack') = m /\ \A j \in 1..m : stack'[j] = stack[j]
      /\ n \in Nat /\ n >= 2
  BY <1>1, CallFacts, LeaveFacts, StackFacts
<1>3. /\ n \in 1..n /\ stack[n] = top /\ stack[n].call = call
      /\ (\A j \in 1..n : j \in 1..m \/ j = n) /\ (\A j \in 1..m : j \in 1..n)
  BY <1>2, CallFacts, StackFacts DEF call
<1>4. /\ \A t : ~ Assigning(stack[n], t)
      /\ \A i : ~ Gives(stack[n].call, i)
      /\ \A i : Holds(stack[n], actions, flags, i) <=> i \in Spent
  BY <1>1, <1>3 DEF Assigning, Gives, Holds, HandHolds, CallHolds, Spent
<1> HIDE DEF m, n
<1>5. \A s \in Sigs : Live(s)' <=> Live(s)
  BY <1>1, <1>2, <1>3, <1>4 DEF Live, n
<1>6. ASSUME NEW i
      PROVE  (Used(i)' <=> Used(i)) /\ (Kept(i)' <=> Kept(i)) /\ (Given(i)' <=> Given(i))
  <2>1. Used(i)' <=> Used(i)
    BY <1>1, <1>5 DEF Used
  <2>2. Kept(i)' <=> Kept(i)
    <3>1. i \in ids' <=> i \in ids \/ i \in Spent
      BY <1>1
    <3> QED  BY <1>1, <1>2, <1>3, <1>4, <3>1 DEF Kept, n
  <2>3. Given(i)' <=> Given(i)
    BY <1>1, <1>2, <1>3, <1>4 DEF Given, n
  <2> QED  BY <2>1, <2>2, <2>3
<1>7. LiveInv'
  BY <1>1, <1>5 DEF CommandInv, LiveInv
<1>8. KeptInv' /\ OwnedInv'
  BY <1>1, <1>6 DEF CommandInv, KeptInv, OwnedInv
<1>9. GivenInv'
  <2>1. \A i \in Numbers : Given(i)' => ~ Used(i)' /\ ~ Kept(i)'
    BY <1>6 DEF CommandInv, GivenInv
  <2>2. \A j \in 1..m : \A i \in Numbers : Gives(stack'[j].call, i) =>
          /\ cmd[i] = stack'[j].call.n /\ cmd[i] # 0 /\ i \notin lost
          /\ \A k \in 1..m : Gives(stack'[k].call, i) => k = j
    BY <1>2, <1>3 DEF CommandInv, GivenInv, n
  <2>3. \A j \in 1..m : stack'[j].call.at = "store" => cmd[stack'[j].call.id] = 0
    BY <1>2, <1>3 DEF CommandInv, GivenInv, n
  <2> QED  BY <1>1, <1>2, <2>1, <2>2, <2>3 DEF GivenInv, CommandInv
<1>10. HandlerInv'
  <2>1. \A j \in 1..m :
          /\ HandlerOK(stack[j], actions, cmd, latest, flags, disp)
          /\ stack[j].at \in {"read", "deepen"} =>
               \A k \in 1..m : ~ Assigning(stack[k], stack[j].sig)
    BY <1>3 DEF CommandInv, HandlerInv, n
  <2> QED  BY <1>1, <1>2, <2>1 DEF HandlerInv
<1>11. AssignInv'
  <2>1. \A j \in 1..m :
          /\ \A s \in Sigs : Assigning(stack[j], s) =>
               /\ (disp[s] = "script" <=> stack[j].call.kind # "default")
               /\ (s \in resets <=> stack[j].call.kind = "once")
               /\ \A k \in 1..m : Assigning(stack[k], s) => k = j
          /\ stack[j].call.at = "lookup" /\ stack[j].call.kind # "default" =>
               stack[j].call.id # stack[j].call.old
    BY <1>3 DEF CommandInv, AssignInv, n
  <2> QED  BY <1>1, <1>2, <2>1 DEF AssignInv
<1> QED  BY <1>7, <1>8, <1>9, <1>10, <1>11 DEF CommandInv

\* The signals sent are nothing to the commands.
LEMMA RaiseCommands ==
  ASSUME CommandInv, UNCHANGED <<disp, resets, actions, flags, cmd, ids, stack, latest, lost>>
  PROVE  CommandInv'
BY DEF CommandInv, LiveInv, KeptInv, GivenInv, HandlerInv, AssignInv, OwnedInv, Live, Used, Kept, Given

-----------------------------------------------------------------------------
(* The commands: every step that upsets nothing keeps CommandInv.          *)

FullInv == LevelInv /\ (~ upset => CommandInv)

LEMMA CommandStep ==
  ASSUME FullInv, [Next]_vars
  PROVE  FullInv'
<1>1. LevelInv /\ LevelInv' /\ upset \in BOOLEAN
  BY LevelStep DEF FullInv, LevelInv, Typed
<1>2. ~ upset' => ~ upset
  <2>1. CASE UNCHANGED vars
    BY <2>1 DEF vars
  <2>2. ASSUME NEW s \in Sigs,
               \/ Raise(s) \/ Discard(s) \/ Deliver(s) \/ ToDefault(s)
               \/ \E h \in {"persistent", "once"}, q \in BOOLEAN : Choose(s, h, q)
        PROVE  upset' = upset
    BY <2>2, Zenon DEF Raise, Discard, Deliver, Choose, ToDefault
  <2>3. CASE ReadAction \/ Deepen \/ Command \/ Unmask \/ Assign \/ Lookup
    <3>1. upset' = upset
      BY <2>3, Zenon DEF ReadAction, Deepen, Command, Unmask, Assign, AssignWith, Lookup
    <3> QED  BY <3>1
  <2>4. CASE Leave
    BY <2>4, Zenon DEF Leave, LeaveWith
  <2>5. CASE Store
    BY <2>5, Zenon DEF Store
  <2>6. CASE Sigaction
    BY <2>6, Zenon DEF Sigaction
  <2>7. CASE Retire
    BY <2>7, Zenon DEF Retire, RetireWith
  <2>8. CASE \E s \in Sigs, h \in {"persistent", "once"}, i \in Numbers : Give(s, h, i)
    BY <2>8, Zenon DEF Give
  <2> QED  BY <2>1, <2>2, <2>3, <2>4, <2>5, <2>6, <2>7, <2>8, Zenon DEF Next, Proceed
<1> SUFFICES ASSUME ~ upset' PROVE CommandInv'
  BY <1>1 DEF FullInv
<1>3. CommandInv
  BY <1>2 DEF FullInv
<1>4. CASE UNCHANGED vars
  BY <1>3, <1>4, RaiseCommands DEF vars
<1>5. CASE \E s \in Sigs : Raise(s) \/ Discard(s)
  <2>1. UNCHANGED <<resets, actions, flags, cmd, ids, stack, latest, lost, disp>>
    BY <1>5 DEF Raise, Discard, tables
  <2> QED  BY <1>3, <2>1, RaiseCommands
<1>6. CASE \/ \E s \in Sigs : Deliver(s) \/ ToDefault(s)
           \/ \E s \in Sigs, h \in {"persistent", "once"} :
                \/ \E q \in BOOLEAN : Choose(s, h, q)
                \/ \E i \in Numbers : Give(s, h, i)
  BY <1>1, <1>3, <1>6, DeliverCommands, BeginCommands, GiveCommands
<1>7. CASE Proceed
  BY <1>1, <1>3, <1>7, HandlerCommands, LeaveCommands, StoreCommands, UnmaskCommands, SigactionCommands,
     AssignCommands, LookupCommands, RetireCommands DEF Proceed
<1> QED  BY <1>4, <1>5, <1>6, <1>7 DEF Next

LEMMA CommandInit == Init => FullInv
<1> SUFFICES ASSUME Init PROVE CommandInv
  BY LevelInit DEF FullInv
<1>1. /\ disp = [s \in Sigs |-> "default"] /\ resets = {} /\ ids = {} /\ cmd = [i \in Numbers |-> 0]
      /\ stack = <<Script>> /\ lost = {}
  BY DEF Init
<1>2. Len(stack) = 1 /\ \A j \in 1..Len(stack) : stack[j] = Script
  BY <1>1
<1>3. /\ \A s : ~ Assigning(Script, s)
      /\ \A i : ~ Gives(Script.call, i) /\ ~ Holds(Script, actions, flags, i)
  BY ScriptFacts, NoCallFacts, SigsAssumption DEF Assigning, Gives, Holds, HandHolds, CallHolds
<1>4. /\ \A s \in Sigs : ~ Live(s)
      /\ \A i : ~ Used(i) /\ ~ Kept(i) /\ ~ Given(i)
  BY <1>1, <1>2, <1>3 DEF Live, Used, Kept, Given
<1>5. LiveInv /\ KeptInv /\ OwnedInv
  BY <1>1, <1>4 DEF LiveInv, KeptInv, OwnedInv
<1>6. GivenInv /\ HandlerInv /\ AssignInv
  BY <1>1, <1>2, <1>3, <1>4, ScriptFacts, NoCallFacts DEF GivenInv, HandlerInv, HandlerOK, AssignInv
<1> QED  BY <1>5, <1>6 DEF CommandInv

LEMMA AlwaysCommands == Spec => []FullInv
BY CommandInit, CommandStep, PTL DEF Spec

-----------------------------------------------------------------------------
(* What follows for the commands.                                          *)

LEMMA CommandsImply == FullInv => RightCommand /\ OnlyFailuresLeak
<1> SUFFICES ASSUME LevelInv, CommandInv PROVE RightCommand /\ OnlyFailuresLeak
  BY DEF FullInv, RightCommand, OnlyFailuresLeak
<1>1. /\ \A f \in Levels : \E j \in 1..Len(stack) : f = stack[j]
      /\ \A j \in 1..Len(stack) : stack[j] \in Levels
  BY CallFacts, LevelsFacts
<1>2. RightCommand
  <2>1. ASSUME NEW s \in Sigs, disp[s] = "script",
               \A f \in Levels : ~(f.call.at = "assign" /\ f.call.sig = s)
        PROVE  cmd[actions[s]] = latest[s]
    <3>1. Live(s)
      BY <1>1, <2>1 DEF Live, Assigning
    <3> QED  BY <3>1 DEF CommandInv, LiveInv
  <2>2. ASSUME NEW f \in Levels, f.at \in {"deepen", "command"}
        PROVE  cmd[f.act] = f.want
    BY <1>1, <2>2 DEF CommandInv, HandlerInv, HandlerOK
  <2> QED  BY <2>1, <2>2 DEF RightCommand
<1>3. OnlyFailuresLeak
  <2> SUFFICES ASSUME NEW i \in Numbers, cmd[i] # 0
               PROVE  \/ \E s \in Sigs : disp[s] = "script" /\ actions[s] = i
                      \/ i \in ids \/ i \in lost \/ InHandler(i)
                      \/ \E f \in Levels :
                           \/ f.call.at \in {"unmask", "sigaction", "assign"} /\ f.call.id = i
                           \/ f.call.at = "assign" /\ f.call.had /\ actions[f.call.sig] = i
                           \/ f.call.at \in {"lookup", "retire"} /\ f.call.old = i
    BY DEF OnlyFailuresLeak
  <2>1. CASE Used(i)
    BY <2>1 DEF Used, Live
  <2>2. ASSUME NEW j \in 1..Len(stack), HandHolds(stack[j], actions, flags, i)
        PROVE  InHandler(i)
    BY <1>1, <2>2 DEF HandHolds, InHandler
  <2>3. ASSUME NEW j \in 1..Len(stack), CallHolds(stack[j].call, actions, i)
        PROVE  \E f \in Levels :
                 \/ f.call.at = "assign" /\ f.call.had /\ actions[f.call.sig] = i
                 \/ f.call.at \in {"lookup", "retire"} /\ f.call.old = i
    BY <1>1, <2>3 DEF CallHolds
  <2>4. CASE Kept(i)
    BY <2>2, <2>3, <2>4 DEF Kept, Holds
  <2>5. CASE Given(i)
    BY <1>1, <2>5 DEF Given, Gives
  <2> QED  BY <2>1, <2>4, <2>5 DEF CommandInv, OwnedInv
<1> QED  BY <1>2, <1>3

\* As long as no handler changed what it interrupted the change of, and the
\* script gave no number but one an error had left over, a signal given to the
\* script has the command last given to it, and a handler finds the command it
\* was called for, for any number of signals, calls and nested handlers
\* (sad_SIGACT_handler, SigAction, init.n:130).
THEOREM SignalsRightCommand == Spec => []RightCommand
BY AlwaysCommands, CommandsImply, PTL

\* And the only commands that stay in the table with nobody to remove them are
\* those of the calls that ended with the error at init.n:159: any other is a
\* signal's, marked, or in the hands of a level that will give or mark it
\* (SigAction$CmdM, $CmdR and $Clean).
THEOREM SignalsOnlyFailuresLeak == Spec => []OnlyFailuresLeak
BY AlwaysCommands, CommandsImply, PTL
=============================================================================
