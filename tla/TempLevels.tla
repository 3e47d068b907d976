----------------------------- MODULE TempLevels -----------------------------
(***************************************************************************)
(* The lifetime of the objects of the script language: reference counts,   *)
(* and one list of temporaries for each level of evaluation (tfstk.f,      *)
(* tfeeval.f, and the places of the evaluator that depend on them most).   *)
(*                                                                         *)
(* A counted reference is a value of a symbol, an element of a list or a   *)
(* pattern, or a pin (dtfcopy of an argument).  What the evaluator has on  *)
(* its stack is not counted: it relies on the object being in the list of  *)
(* temporaries of its level, or of one further out.  An object is linked   *)
(* when its alloc word points to the next temporary; itfdownlevel ends a   *)
(* level: it frees the temporaries nothing refers to, then those that only *)
(* they referred to, and unlinks the others.                               *)
(*                                                                         *)
(* An object is named by its address.  The header of an object and each    *)
(* element of a list are one word (4 and 1 in the code); a pattern is one  *)
(* word, followed by the symbol that is part of its block.  Strings and    *)
(* other objects without elements behave as a list of numbers does.        *)
(***************************************************************************)
EXTENDS Integers, Sequences, SequencesExt, FiniteSets, Functions, TLC

CONSTANTS
  NWords,    \* words of memory
  Symbols,   \* symbols with a value
  Real,      \* a number: a descriptor that is no object
  MaxLevel,  \* bound: deepest level (below maxlevele)
  MaxLen,    \* bound: elements of a list
  Extra      \* spare elements AppendTo and PrependTo allocate (nextra)

ASSUME TempLevelsAssumption ==
  NWords \in Nat /\ MaxLevel \in Nat \ {0} /\ MaxLen \in Nat /\ Extra \in Nat

VARIABLES
  heap,    \* obj: the objects; temps: the temporaries of each level; free: words
  value,   \* the value of each symbol
  levele,  \* the current level
  stack,   \* of each open level: held, on the evaluator's stack; pins, counted
  sweep    \* itfdownlevel in progress: on, the block in hand, the result kept

vars == <<heap, value, levele, stack, sweep>>

NoBlock == [lo |-> 0, n |-> 0]
NoSweep == [on |-> FALSE, last |-> NoBlock, kept |-> Real]
Words(b) == b.lo .. b.lo + b.n - 1

-----------------------------------------------------------------------------
(* Objects and their counts.                                               *)
Object(kind, body, ref) ==
  [kind |-> kind, body |-> body, ref |-> ref, linked |-> TRUE,
   lenp |-> 0, lena |-> 0]

\* The block of the object o at a, as itfdownlevel computes it.
Block(a, o) ==
  IF o.kind = "list"
  THEN [lo |-> a - o.lenp, n |-> 1 + o.lenp + Len(o.body) + o.lena]
  ELSE [lo |-> a, n |-> 1]

IsObject(m, k) == k \in DOMAIN m.obj
IsList(m, k)   == IsObject(m, k) /\ m.obj[k].kind = "list"
Link(m, l, k)  == [m EXCEPT !.obj[k].linked = TRUE, !.temps[l] = <<k>> \o @]

\* An object the evaluator takes without counting it.
Shelter(m, l, k) ==
  IF IsObject(m, k) /\ ~m.obj[k].linked THEN Link(m, l, k) ELSE m

\* dtfcopy
Copy(m, k) == IF IsObject(m, k) THEN [m EXCEPT !.obj[k].ref = @ + 1] ELSE m

\* Fault: the alloc word is not looked at.
LocalRelinks(m, l, k) ==
  IF IsObject(m, k)
  THEN LET n == [m EXCEPT !.obj[k].ref = IF @ > 0 THEN @ - 1 ELSE 0]
       IN  IF n.obj[k].ref = 0 THEN Link(n, l, k) ELSE n
  ELSE m

\* tflocal and tflocalrel: give up a counted reference.
Local(m, l, k) ==
  IF IsObject(m, k)
  THEN LET n == [m EXCEPT !.obj[k].ref = IF @ > 0 THEN @ - 1 ELSE 0]
       IN  IF n.obj[k].ref = 0 THEN Shelter(n, l, k) ELSE n
  ELSE m

CopyAll(m, s)     == FoldLeft(Copy, m, s)
LocalAll(m, l, s) == FoldRight(LAMBDA k, n : Local(n, l, k), s, m)

\* A new temporary of level l: o at a, in words that are free.
New(m, l, a, o) ==
  Link([CopyAll(m, o.body) EXCEPT !.obj = (a :> o) @@ @,
                                  !.free = @ \ Words(Block(a, o))], l, a)

-----------------------------------------------------------------------------
Held == UNION {stack[l].held : l \in 1..levele}

\* The evaluator has k on its stack, at the current level or further out.
Hold(k) ==
  stack' = IF IsObject(heap', k) /\ k \notin Held
           THEN [stack EXCEPT ![levele].held = @ \cup {k}] ELSE stack

\* What may become an element: the symbols of the patterns held, too.
Elements ==
  Held \cup {Real} \cup {k + 1 : k \in {p \in Held : heap.obj[p].kind = "pat"}}

Init ==
  /\ heap = [obj |-> <<>>, temps |-> [l \in 1..MaxLevel |-> <<>>],
             free |-> 0 .. NWords - 1]
  /\ value = [v \in Symbols |-> Real]
  /\ levele = 1
  /\ stack = <<[held |-> {}, pins |-> <<>>]>>
  /\ sweep = NoSweep

\* A list made of what is on the stack: kxcrelistm.
MakeList ==
  /\ ~sweep.on
  /\ \E s \in BoundedSeq(Elements, MaxLen), a \in heap.free :
       LET o == Object("list", s, 0)
       IN  /\ Words(Block(a, o)) \subseteq heap.free
           /\ heap' = New(heap, levele, a, o)
           /\ Hold(a)
  /\ UNCHANGED <<value, levele, sweep>>

\* A pattern and, in the same block, its symbol: kxpcopyss.  The alloc word
\* of the symbol holds the symbol it stands for, so it is never linked anew.
MakePattern ==
  /\ ~sweep.on
  /\ \E k \in Held \cup {Real}, a \in heap.free :
       /\ a + 1 \in heap.free
       /\ LET m == New(heap, levele, a, Object("pat", <<k>>, 0))
          IN  heap' = [m EXCEPT !.obj = (a + 1 :> Object("sym", <<>>, 1)) @@ @,
                                !.free = @ \ {a + 1}]
       /\ Hold(a)
  /\ UNCHANGED <<value, levele, sweep>>

\* The value of a symbol is taken on the stack: tfsyeval.
Read ==
  /\ ~sweep.on
  /\ \E v \in Symbols :
       /\ IsObject(heap, value[v])
       /\ heap' = Shelter(heap, levele, value[v])
       /\ Hold(value[v])
  /\ UNCHANGED <<value, levele, sweep>>

\* An element is taken on the stack: tfpartrstk, or the loop of tfmap1.
TakeElement ==
  /\ ~sweep.on
  /\ \E a \in Held : \E i \in DOMAIN heap.obj[a].body :
       LET k == heap.obj[a].body[i]
       IN  /\ IsObject(heap, k) /\ heap.obj[k].kind # "sym"
           /\ UNCHANGED heap
           /\ Hold(k)
  /\ UNCHANGED <<value, levele, sweep>>

\* v = k: tfset1.
Set ==
  /\ ~sweep.on
  /\ \E v \in Symbols, k \in Held \cup {Real} :
       /\ heap' = Local(Copy(heap, k), levele, value[v])
       /\ value' = [value EXCEPT ![v] = k]
  /\ UNCHANGED <<levele, stack, sweep>>

\* Fault: a list that is a temporary too may be written to.
OverwritableLinked(a) == heap.obj[a].ref <= 1

\* ktfovrwrtq
Overwritable(a) ==
  LET o == heap.obj[a] IN o.ref <= 0 \/ (o.ref = 1 /\ ~o.linked)

\* tfreplist
Replace(m, a, i, k) ==
  [Copy(Local(m, levele, m.obj[a].body[i]), k) EXCEPT !.obj[a].body[i] = k]

\* v[[i]] = k: tfsetpart, on the list itself or on a copy (tfclonelist).
SetPart ==
  /\ ~sweep.on
  /\ \E v \in Symbols, k \in Held \cup {Real} :
       LET a == value[v]
           Store(m, b) ==
             /\ heap' = Copy(Local(m, levele, a), b)
             /\ value' = [value EXCEPT ![v] = b]
       IN  /\ IsList(heap, a)
           /\ \E i \in DOMAIN heap.obj[a].body :
                \/ Overwritable(a) /\ Store(Replace(heap, a, i, k), a)
                \/ /\ ~Overwritable(a)
                   /\ \E b \in heap.free :
                        LET o == Object("list", heap.obj[a].body, 0)
                        IN  /\ Words(Block(b, o)) \subseteq heap.free
                            /\ Store(Replace(New(heap, levele, b, o), b, i, k), b)
  /\ UNCHANGED <<levele, stack, sweep>>

\* AppendTo[v, k] in place: into a spare element after the others.  The list
\* itself is returned, linked by tfconnect at the end of tfseval.
AppendInPlace ==
  /\ ~sweep.on
  /\ \E v \in Symbols, k \in Held \cup {Real} :
       LET a == value[v]
       IN  /\ IsList(heap, a) /\ Overwritable(a) /\ heap.obj[a].ref = 1
           /\ heap.obj[a].lena > 0 /\ Len(heap.obj[a].body) < MaxLen
           /\ heap' = Shelter([Copy(heap, k) EXCEPT !.obj[a].body = Append(@, k),
                                                    !.obj[a].lena = @ - 1], levele, a)
           /\ Hold(a)
  /\ UNCHANGED <<value, levele, sweep>>

\* PrependTo[v, k] in place: the header moves down by a word.
PrependInPlace ==
  /\ ~sweep.on
  /\ \E v \in Symbols, k \in Held \cup {Real} :
       LET a == value[v]
           o == Copy(heap, k).obj
       IN  /\ IsList(heap, a) /\ Overwritable(a) /\ heap.obj[a].ref = 1
           /\ heap.obj[a].lenp > 0 /\ Len(heap.obj[a].body) < MaxLen
           /\ heap' = Shelter([heap EXCEPT !.obj =
                (a - 1 :> [o[a] EXCEPT !.body = <<k>> \o @, !.lenp = @ - 1])
                  @@ Restrict(o, DOMAIN o \ {a})], levele, a - 1)
           /\ value' = [value EXCEPT ![v] = a - 1]
           /\ Hold(a - 1)
  /\ UNCHANGED <<levele, sweep>>

\* AppendTo[v, k] or PrependTo[v, k] by a new list with spare elements:
\* ktaalocsp, and the assignment to v.
Extend ==
  /\ ~sweep.on
  /\ \E v \in Symbols, k \in Held \cup {Real}, front \in BOOLEAN, a \in heap.free :
       LET old == heap.obj[value[v]]
           s == IF front THEN <<k>> \o old.body ELSE Append(old.body, k)
           o == [Object("list", s, 0) EXCEPT
                   !.lenp = IF front THEN Extra ELSE old.lenp,
                   !.lena = IF front THEN old.lena ELSE Extra]
       IN  /\ IsList(heap, value[v]) /\ Len(old.body) < MaxLen
           /\ ~(/\ Overwritable(value[v]) /\ old.ref = 1
                /\ IF front THEN old.lenp > 0 ELSE old.lena > 0)
           /\ Words(Block(a, o)) \subseteq heap.free
           /\ heap' = Local(Copy(New(heap, levele, a, o), a), levele, value[v])
           /\ value' = [value EXCEPT ![v] = a]
           /\ Hold(a)
  /\ UNCHANGED <<levele, sweep>>

\* The arguments a loop runs over are counted: dtfcopy1 in tfmap1, tfwhile.
Pin ==
  /\ ~sweep.on /\ stack[levele].pins = <<>>
  /\ \E k \in Held :
       /\ heap' = Copy(heap, k)
       /\ stack' = [stack EXCEPT ![levele].pins = <<k>>]
  /\ UNCHANGED <<value, levele, sweep>>

Unpin ==
  /\ ~sweep.on /\ stack[levele].pins # <<>>
  /\ heap' = LocalAll(heap, levele, stack[levele].pins)
  /\ stack' = [stack EXCEPT ![levele].pins = <<>>]
  /\ UNCHANGED <<value, levele, sweep>>

-----------------------------------------------------------------------------
(* Levels.                                                                 *)

\* Fault: levels without end.
EnterAny ==
  /\ ~sweep.on
  /\ levele' = levele + 1
  /\ heap' = [heap EXCEPT !.temps[levele + 1] = <<>>]
  /\ stack' = Append(stack, [held |-> {}, pins |-> <<>>])
  /\ UNCHANGED <<value, sweep>>

\* levele + 1, or itfuplevel, which also empties the list of the level.
Enter ==
  /\ ~sweep.on /\ levele < MaxLevel
  /\ levele' = levele + 1
  /\ heap' = [heap EXCEPT !.temps[levele + 1] = <<>>]
  /\ stack' = Append(stack, [held |-> {}, pins |-> <<>>])
  /\ UNCHANGED <<value, sweep>>

\* The level ends with the result k (tfconnectk), or with none or an error.
Leave ==
  /\ ~sweep.on /\ levele > 1 /\ stack[levele].pins = <<>>
  /\ \E k \in Held \cup {Real} :
       /\ heap' = Copy(heap, k)
       /\ sweep' = [on |-> TRUE, last |-> NoBlock, kept |-> k]
  /\ UNCHANGED <<value, levele, stack>>

\* Fault: the new block is forgotten when it is not next to the one in hand.
ReelForgets(last, b) ==
  CASE last.n = 0               -> b
    [] last.lo + last.n = b.lo  -> [lo |-> last.lo, n |-> last.n + b.n]
    [] b.lo + b.n = last.lo     -> [lo |-> b.lo, n |-> last.n + b.n]
    [] OTHER                    -> last

\* tfreel: the block in hand after b has died: joined with b if they touch ...
Reel(last, b) ==
  CASE last.n = 0               -> b
    [] last.lo + last.n = b.lo  -> [lo |-> last.lo, n |-> last.n + b.n]
    [] b.lo + b.n = last.lo     -> [lo |-> b.lo, n |-> last.n + b.n]
    [] OTHER                    -> b

\* ... and the words tfree gets if they do not.
Given(last, b) ==
  IF last.lo + last.n = b.lo \/ b.lo + b.n = last.lo THEN {} ELSE Words(last)

\* The objects of gone have died and leave the block b.
Bury(m, gone, b) ==
  /\ heap' = [m EXCEPT !.obj = Restrict(@, DOMAIN @ \ gone),
                       !.free = @ \cup Given(sweep.last, b)]
  /\ sweep' = [sweep EXCEPT !.last = Reel(@, b)]

Foremost(l) == Head(heap.temps[l])
Popped   == [heap EXCEPT !.temps[levele] = Tail(@)]
Sweeping(kind) ==
  /\ sweep.on /\ heap.temps[levele] # <<>>
  /\ heap.obj[Foremost(levele)].ref <= 0
  /\ heap.obj[Foremost(levele)].kind = kind

\* A temporary something refers to stays, and is no temporary any more.
Survive ==
  /\ sweep.on /\ heap.temps[levele] # <<>>
  /\ LET a == Foremost(levele)
     IN  /\ heap.obj[a].ref > 0
         /\ heap' = [Popped EXCEPT !.obj[a].linked = FALSE]
  /\ UNCHANGED <<value, levele, stack, sweep>>

\* Fault: the elements of a list that dies are not released.
BuryListOnly ==
  /\ Sweeping("list")
  /\ LET a == Foremost(levele) IN Bury(Popped, {a}, Block(a, heap.obj[a]))
  /\ UNCHANGED <<value, levele, stack>>

BuryList ==
  /\ Sweeping("list")
  /\ LET a == Foremost(levele)
         o == heap.obj[a]
     IN  Bury(LocalAll(Popped, levele, o.body), {a}, Block(a, o))
  /\ UNCHANGED <<value, levele, stack>>

\* A pattern dies with its symbol, or leaves the symbol as an object of its own.
BuryPattern ==
  /\ Sweeping("pat")
  /\ LET a == Foremost(levele)
         m == LocalAll(Popped, levele, heap.obj[a].body)
     IN  IF heap.obj[a + 1].ref > 1
         THEN Bury([m EXCEPT !.obj[a + 1].ref = @ - 1,
                             !.obj[a + 1].linked = FALSE],
                   {a}, [lo |-> a, n |-> 1])
         ELSE Bury(m, {a, a + 1}, [lo |-> a, n |-> 2])
  /\ UNCHANGED <<value, levele, stack>>

BurySymbol ==
  /\ Sweeping("sym")
  /\ LET a == Foremost(levele) IN Bury(Popped, {a}, Block(a, heap.obj[a]))
  /\ UNCHANGED <<value, levele, stack>>

\* Fault: a result something refers to is not linked (tfconnectk1).
LeftConnectk1 ==
  /\ sweep.on /\ heap.temps[levele] = <<>>
  /\ LET m == [heap EXCEPT !.free = @ \cup Words(sweep.last)]
     IN  heap' = Local(m, levele - 1, sweep.kept)
  /\ levele' = levele - 1
  /\ stack' = LET s == Front(stack)
                  k == sweep.kept
              IN  IF k = Real \/ \E l \in DOMAIN s : k \in s[l].held THEN s
                  ELSE [s EXCEPT ![levele - 1].held = @ \cup {k}]
  /\ sweep' = NoSweep
  /\ UNCHANGED value

\* The level has ended; its result is on the stack of the level before.
Left ==
  /\ sweep.on /\ heap.temps[levele] = <<>>
  /\ LET m == [heap EXCEPT !.free = @ \cup Words(sweep.last)]
     IN  heap' = Shelter(Local(m, levele - 1, sweep.kept), levele - 1, sweep.kept)
  /\ levele' = levele - 1
  /\ stack' = LET s == Front(stack)
                  k == sweep.kept
              IN  IF k = Real \/ \E l \in DOMAIN s : k \in s[l].held THEN s
                  ELSE [s EXCEPT ![levele - 1].held = @ \cup {k}]
  /\ sweep' = NoSweep
  /\ UNCHANGED value

Next ==
  \/ MakeList \/ MakePattern \/ Read \/ TakeElement \/ Set \/ SetPart
  \/ AppendInPlace \/ PrependInPlace \/ Extend \/ Pin \/ Unpin
  \/ Enter \/ Leave \/ Survive \/ BuryList \/ BuryPattern \/ BurySymbol \/ Left

Spec == Init /\ [][Next]_vars

-----------------------------------------------------------------------------
(* Properties.                                                             *)

TypeOK ==
  /\ \A a \in DOMAIN heap.obj :
       /\ a \in 0 .. NWords - 1 /\ heap.obj[a].kind \in {"list", "pat", "sym"}
       /\ heap.obj[a].ref \in Nat /\ heap.obj[a].linked \in BOOLEAN
       /\ heap.obj[a].body \in BoundedSeq(0 .. NWords - 1 \cup {Real}, MaxLen)
  /\ heap.free \subseteq 0 .. NWords - 1
  /\ \A l \in 1..MaxLevel : heap.temps[l] \in Seq(0 .. NWords - 1)
  /\ value \in [Symbols -> 0 .. NWords - 1 \cup {Real}]
  /\ levele \in 1..MaxLevel /\ Len(stack) = levele
  /\ sweep.on \in BOOLEAN

\* The symbol of a pattern that is alive.
Embedded(a) ==
  /\ heap.obj[a].kind = "sym"
  /\ a - 1 \in DOMAIN heap.obj /\ heap.obj[a - 1].kind = "pat"

Places(a) ==
  {<<b, i>> \in (DOMAIN heap.obj) \X (1..MaxLen) :
     i \in DOMAIN heap.obj[b].body /\ heap.obj[b].body[i] = a}

\* Every count is the number of counted references: symbol values, elements
\* of objects not freed yet, pins, the result on its way out of a level, and
\* the pattern a symbol is part of.  In particular no element, value or pin
\* refers to an object that was freed.
RefsCounted ==
  /\ \A a \in DOMAIN heap.obj :
       heap.obj[a].ref =
         Cardinality({v \in Symbols : value[v] = a}) + Cardinality(Places(a))
         + Cardinality({l \in 1..levele : stack[l].pins = <<a>>})
         + (IF sweep.on /\ sweep.kept = a THEN 1 ELSE 0)
         + (IF Embedded(a) THEN 1 ELSE 0)
  /\ \A v \in Symbols : value[v] # Real => IsObject(heap, value[v])
  /\ \A a \in DOMAIN heap.obj : \A k \in ToSet(heap.obj[a].body) :
       k # Real => IsObject(heap, k)

\* The levels that have not begun to end.
Open == 1 .. IF sweep.on THEN levele - 1 ELSE levele

\* What is on the evaluator's stack at a level is alive until that level
\* ends, whatever is assigned, at that level or deeper ones, meanwhile.
StackAlive == \A l \in Open : stack[l].held \subseteq DOMAIN heap.obj

\* And it keeps its elements: a list is written to in place only if nobody
\* has it on the stack.
StackUnchanged ==
  [][\A l \in Open \cap Open' : \A a \in stack[l].held :
       heap'.obj[a].body = heap.obj[a].body]_vars

\* An object nothing refers to waits in the list of exactly one open level,
\* and a linked object is in one: no object is lost, none dies twice.
Awaited ==
  LET In(a) == {<<l, i>> \in (1..MaxLevel) \X (1..NWords) :
                  i \in DOMAIN heap.temps[l] /\ heap.temps[l][i] = a}
  IN  /\ \A l \in 1..MaxLevel : ToSet(heap.temps[l]) \subseteq DOMAIN heap.obj
      /\ \A l \in levele + 1 .. MaxLevel : heap.temps[l] = <<>>
      /\ \A a \in DOMAIN heap.obj :
           Cardinality(In(a)) =
             (IF heap.obj[a].linked /\ ~Embedded(a) THEN 1 ELSE 0)
      /\ \A a \in DOMAIN heap.obj : heap.obj[a].ref = 0 => heap.obj[a].linked

\* Counts and lists agree with the references there are, and with each other:
\* every object is freed once, when and only when nothing refers to it.
FreedOnce == RefsCounted /\ Awaited

\* The blocks of the objects, the block itfdownlevel has in hand and the free
\* words divide the memory: tfree gets each word of a dead object once, and
\* no word of a live one, in whatever order neighbours die.
WordsAccounted ==
  LET Parts == {Words(Block(a, heap.obj[a])) : a \in DOMAIN heap.obj}
               \cup {Words(sweep.last)}
  IN  /\ UNION Parts \cup heap.free = 0 .. NWords - 1
      /\ UNION Parts \cap heap.free = {}
      /\ \A p, q \in Parts : p = q \/ p \cap q = {}
=============================================================================
