------------------------------ MODULE Streams ------------------------------
(***************************************************************************)
(* Streams that are read from memory: mapped files and strings (TFRBUF in  *)
(* toplvl.f), Read and its relatives, Get and FFS[string] (tfwrite.f,      *)
(* tffs.f).                                                                *)
(*                                                                         *)
(* The streams are slots of a table that several pieces of code take from, *)
(* from below and from above.  The evaluator reads its input through       *)
(* pointers into one of them (buffer, ipoint, lrecl); whoever reads        *)
(* another stream meanwhile must set them back.  A file that has grown     *)
(* when its end is met is mapped again, perhaps elsewhere.                 *)
(*                                                                         *)
(* Characters are letters "L", separators "S", newlines "N" and            *)
(* backslashes "B".  The terminal is an input that is never closed.        *)
(* Reading a stream that is closed, or the input that is being executed,   *)
(* Fortran units and shared streams are left out.                          *)
(***************************************************************************)
EXTENDS Naturals, Sequences, FiniteSetsExt, TLC

CONSTANTS
  NSlots,    \* nbuf - 10: the slots from 11 up
  Addrs,     \* places mmap may give
  Texts,     \* what the file may come to hold; a start of it is there at first
  Strings    \* what the string may hold

ASSUME TextsAssumption ==
  /\ NSlots \in Nat \ {0}
  /\ \A t \in Texts \cup Strings : t \in Seq({"L", "S", "N", "B"}) /\ t # <<>>

VARIABLES
  text, flen,  \* the file: all that will be in it, how much is there now
  str,         \* the string
  slot,        \* itbuf, ibuf, lbuf, mbuf, lenbuf
  maps,        \* the mappings of the process: length by address
  lfni,        \* the current input
  buffer,      \* the address the pointer `buffer` has
  levels,      \* the streams Get and FFS read, with the lfni each has saved
  call,        \* the call of Read, ReadString, ...
  leaked,      \* history: mappings no stream refers to
  crashed      \* memory that is not there was read

vars == <<text, flen, str, slot, maps, lfni, buffer, levels, call, leaked, crashed>>

Slots    == 1..NSlots
Console   == 0
Nowhere   == "nowhere"     \* no address of memory that streams are in
TheString == "the string"
Places    == Addrs \cup {Nowhere, TheString}

Stream == [mode : {"closed", "taken", "string", "mapped"}, at : Places,
           l : Nat, m : Nat \ {0}, len : Nat]
Unused == [mode |-> "closed", at |-> Nowhere, l |-> 0, m |-> 1, len |-> 0]
NoCall == [op |-> "none", f |-> Console, kind |-> "string", new |-> FALSE,
           null |-> FALSE, back |-> Console]

Chars(f) == IF slot[f].mode = "string" THEN str ELSE text
IsSep(c) == c \in {"S", "N"}

\* Where `buffer` must point for stream f: the terminal has a buffer of its own.
At(f) == IF f = Console THEN Nowhere ELSE slot[f].at

Idle   == call.op = "none" /\ ~crashed
Closed(sl) == {f \in Slots : sl[f].mode = "closed"}
Inputs == {levels[i].lfn : i \in DOMAIN levels}

Init ==
  /\ text \in Texts /\ flen \in 1..Len(text) /\ str \in Strings
  /\ slot = [f \in Slots |-> Unused] /\ maps = <<>>
  /\ lfni = Console /\ buffer = At(Console) /\ levels = <<>>
  /\ call = NoCall
  /\ leaked = {} /\ crashed = FALSE

-----------------------------------------------------------------------------
(* The table.                                                              *)

\* irbopen1
Opened(md, a, n) == [mode |-> md, at |-> a, l |-> 0, m |-> 1, len |-> n]

\* tfsystemcommand takes a slot for the number of its temporary file, which
\* nothing gives back.  Without one it uses the entry before the first of
\* ntable: what is there may do.
AfterCommand(sl) ==
  IF Closed(sl) = {} THEN sl
  ELSE [sl EXCEPT ![Min(Closed(sl))].mode = "taken", ![Min(Closed(sl))].at = Nowhere]

\* trbopen: from above; 0 if there is none.
Found(sl) == IF Closed(sl) = {} THEN 0 ELSE Max(Closed(sl))

Entered(sl, s) == IF Found(sl) = 0 THEN sl ELSE [sl EXCEPT ![Found(sl)] = s]

Mapped(a, n) == maps' = (a :> n) @@ maps

\* munmap of n characters at a
Without(ms, a, n) == IF ms[a] = n THEN [b \in DOMAIN ms \ {a} |-> ms[b]]
                                  ELSE [ms EXCEPT ![a] = @ - n]

\* trbopenmap: with a full table the mapping stays, and no one knows of it.
OpenMap(sl, a) ==
  /\ a \in Addrs \ DOMAIN maps
  /\ Mapped(a, flen)
  /\ slot' = Entered(sl, Opened("mapped", a, flen))
  /\ leaked' = IF Found(sl) = 0 THEN leaked \cup {a} ELSE leaked

Tables(command) ==
  IF command THEN {AfterCommand(slot)} ELSE {slot}

\* A command with a full table: the word before ntable is not a string.
BadName ==
  /\ Idle /\ Closed(slot) = {}
  /\ crashed' = TRUE
  /\ UNCHANGED <<text, flen, str, slot, maps, lfni, buffer, levels, call, leaked>>

\* OpenRead["file"] and OpenRead["!command"]
OpenRead(command) ==
  /\ Idle
  /\ \E sl \in Tables(command), a \in Addrs : OpenMap(sl, a)
  /\ UNCHANGED <<text, flen, str, lfni, buffer, levels, call, crashed>>

StringToStream ==
  /\ Idle /\ Closed(slot) # {}
  /\ slot' = Entered(slot, Opened("string", TheString, Len(str)))
  /\ UNCHANGED <<text, flen, str, maps, lfni, buffer, levels, call, leaked, crashed>>

\* trbclose; the address and the length it leaves are not looked at again.
Close1(f) ==
  /\ slot' = [slot EXCEPT ![f] = Unused]
  /\ maps' = IF slot[f].mode = "string" THEN maps
             ELSE Without(maps, slot[f].at, slot[f].len)

\* Close[f] of a stream that is not being executed.
Close(f) ==
  /\ Idle /\ slot[f].mode \in {"string", "mapped"} /\ f \notin Inputs
  /\ Close1(f)
  /\ UNCHANGED <<text, flen, str, lfni, buffer, levels, call, leaked, crashed>>

\* Another process writes to the file.
Grow ==
  /\ flen < Len(text) /\ ~crashed
  /\ flen' = flen + 1
  /\ UNCHANGED <<text, str, slot, maps, lfni, buffer, levels, call, leaked, crashed>>

-----------------------------------------------------------------------------
(* The next record, tfreadbuf.                                             *)

\* Fault: the record goes one further than its end.
RecordEndPast(c, l, n) ==
  LET ends == {i \in (l + 1)..n : c[i] = "N" /\ (i = 1 \/ c[i - 1] # "B")}
  IN  IF ends = {} THEN n + 1 ELSE Min(ends) + 1

\* A record ends with a newline that no backslash precedes, or with what is
\* there of the stream.
RecordEnd(c, l, n) ==
  LET ends == {i \in (l + 1)..n : c[i] = "N" /\ (i = 1 \/ c[i - 1] # "B")}
  IN  IF ends = {} THEN n ELSE Min(ends)

HasRecord(f) == slot[f].l < slot[f].len
Grown(f)     == ~HasRecord(f) /\ slot[f].mode = "mapped" /\ slot[f].len < flen
AtEnd(f)     == ~HasRecord(f) /\ ~Grown(f)

Next1(f) ==
  /\ HasRecord(f)
  /\ slot' = [slot EXCEPT ![f].m = slot[f].l + 1,
                          ![f].l = RecordEnd(Chars(f), slot[f].l, slot[f].len)]
  /\ UNCHANGED <<maps, leaked, crashed>>

\* Fault: the length of the old mapping is kept.
ReenteredShort(f, a, n) ==
  [slot EXCEPT ![f].at = a, ![f].m = slot[f].len + 1,
               ![f].l = RecordEnd(text, slot[f].len, flen)]

Reentered(f, a, n) ==
  [slot EXCEPT ![f].at = a, ![f].len = n, ![f].m = slot[f].len + 1,
               ![f].l = RecordEnd(text, slot[f].len, flen)]

\* mapresizefile gets the old length as a word of half the size: the other
\* half is what is beside it, so that munmap may refuse and the old mapping
\* stay.  It may also unmap more, or the new mapping fail: that ends here.
\* `buffer` is not set again; what it points to is read at once.
Resized(f) ==
  /\ Grown(f)
  /\ \E kept \in BOOLEAN :
       LET old  == slot[f].at
           rest == IF kept THEN maps ELSE Without(maps, old, slot[f].len)
       IN  \E a \in Addrs \ DOMAIN rest :
             /\ maps' = (a :> flen) @@ rest
             /\ slot' = Reentered(f, a, flen)
             /\ leaked' = IF kept THEN leaked \cup {old} ELSE leaked
             /\ crashed' \in IF buffer = a THEN {FALSE}
                             ELSE IF buffer \in DOMAIN maps' THEN BOOLEAN ELSE {TRUE}

ResizeFails(f) ==
  /\ Grown(f) /\ crashed' = TRUE
  /\ UNCHANGED <<slot, maps, leaked>>

Record(f) == Next1(f) \/ Resized(f) \/ ResizeFails(f)

-----------------------------------------------------------------------------
(* Read, ReadString: tfreadstringf.                                        *)

\* kind: "string", "word" or "character"; new: ReadNewRecord; null: NullWords.
ReadString(f, kind, new, null) ==
  /\ Idle /\ slot[f].mode \in {"string", "mapped"} /\ f # lfni
  /\ call' = [op |-> IF slot[f].l < slot[f].m THEN "fetch" ELSE "take",
              f |-> f, kind |-> kind, new |-> new, null |-> null /\ kind = "word", back |-> lfni]
  /\ lfni' = f /\ buffer' = slot[f].at
  /\ UNCHANGED <<text, flen, str, slot, maps, levels, leaked, crashed>>

\* Fault: the input is restored without its buffer.
ReturnUnassigned ==
  /\ call' = NoCall
  /\ lfni' = call.back /\ UNCHANGED buffer

\* savep = sav and trbassign
Return ==
  /\ call' = NoCall
  /\ lfni' = call.back /\ buffer' = At(call.back)

Fetch ==
  /\ call.op = "fetch" /\ ~crashed
  /\ Record(call.f)
  /\ call' = [call EXCEPT !.op = "take"]
  /\ UNCHANGED <<text, flen, str, lfni, buffer, levels>>

\* The last character of a string is given once more.
FetchLast ==
  /\ call.op = "fetch" /\ ~crashed /\ AtEnd(call.f)
  /\ slot[call.f].mode = "string" /\ slot[call.f].m < slot[call.f].l
  /\ slot' = [slot EXCEPT ![call.f].m = slot[call.f].l]
  /\ call' = [call EXCEPT !.op = "take"]
  /\ UNCHANGED <<text, flen, str, maps, lfni, buffer, levels, leaked, crashed>>

EndOfFile ==
  /\ call.op = "fetch" /\ ~crashed /\ AtEnd(call.f)
  /\ ~(slot[call.f].mode = "string" /\ slot[call.f].m < slot[call.f].l)
  /\ slot' = [slot EXCEPT ![call.f].m = slot[call.f].len + 1]
  /\ Return
  /\ UNCHANGED <<text, flen, str, maps, levels, leaked, crashed>>

\* tfword: a word between m and l, and what comes after it.
Word(c, m, l, null) ==
  LET from  == Min({i \in m..l : null \/ ~IsSep(c[i])} \cup {l + 1})
      stops == {i \in (from + 1)..l : IsSep(c[i])} \cup {l + 1}
  IN  IF null /\ IsSep(c[m]) THEN [from |-> m, n |-> 0, next |-> m + 1]
      ELSE [from |-> from, n |-> Min(stops) - from,
            next |-> Min({Min(stops) + 1, l + 1})]

Part(c, m, l) ==
  CASE call.kind = "character" -> [from |-> m, n |-> 1, next |-> m + 1]
    [] call.kind = "word"      -> Word(c, m, l, call.null)
    [] call.kind = "string"    -> [from |-> m, n |-> l - m + 1, next |-> l + 1]

part == Part(Chars(call.f), slot[call.f].m, slot[call.f].l)

\* Only separators are left of the record.
Skip ==
  /\ call.op = "take" /\ ~crashed
  /\ call.kind = "word" /\ part.n = 0 /\ ~call.null /\ call.new
  /\ call' = [call EXCEPT !.op = "fetch"]
  /\ UNCHANGED <<text, flen, str, slot, maps, lfni, buffer, levels, leaked, crashed>>

\* A newline at the end is not returned.
Length(p) == IF p.n > 0 /\ Chars(call.f)[p.from + p.n - 1] = "N" THEN p.n - 1 ELSE p.n

\* trbnextl and trbmovepoint
TakeTo(next) ==
  /\ call.op = "take" /\ ~crashed
  /\ ~(call.kind = "word" /\ part.n = 0 /\ ~call.null /\ call.new)
  /\ slot' = [slot EXCEPT ![call.f].m = next]
  /\ Return
  /\ UNCHANGED <<text, flen, str, maps, levels, leaked, crashed>>

\* Fault: with ReadNewRecord the rest of the record is given up.
TakeRecord == TakeTo(IF call.new THEN slot[call.f].l + 1 ELSE part.next)

Take == TakeTo(part.next)

-----------------------------------------------------------------------------
(* Get and FFS[string]: tfget, tfffs.                                      *)

Enter(f, a) ==
  /\ levels' = Append(levels, [lfn |-> f, back |-> lfni])
  /\ lfni' = f /\ buffer' = a

\* Without a slot tfget reads stream 0, which ends at once.
Get(command) ==
  /\ Idle
  /\ \E sl \in Tables(command), a \in Addrs :
       /\ OpenMap(sl, a)
       /\ IF Found(sl) = 0 THEN UNCHANGED <<levels, lfni, buffer>>
                           ELSE Enter(Found(sl), a)
  /\ UNCHANGED <<text, flen, str, call, crashed>>

FFS ==
  /\ Idle /\ Closed(slot) # {}
  /\ slot' = Entered(slot, Opened("string", TheString, Len(str)))
  /\ Enter(Found(slot), TheString)
  /\ UNCHANGED <<text, flen, str, maps, call, leaked, crashed>>

\* skiplnget and getbuf0: the next line to evaluate.
GetLine ==
  /\ Idle /\ levels # <<>>
  /\ Record(lfni)
  /\ UNCHANGED <<text, flen, str, lfni, buffer, levels, call>>

\* At the end of the stream, or after an error.
GetEnd ==
  /\ Idle /\ levels # <<>>
  /\ LET level == levels[Len(levels)] IN
     /\ Close1(level.lfn)
     /\ lfni' = level.back /\ buffer' = At(level.back)
  /\ levels' = SubSeq(levels, 1, Len(levels) - 1)
  /\ UNCHANGED <<text, flen, str, call, leaked, crashed>>

Next ==
  \/ \E command \in BOOLEAN : OpenRead(command) \/ Get(command)
  \/ StringToStream \/ FFS \/ BadName \/ Grow \/ GetLine \/ GetEnd
  \/ \E f \in Slots : Close(f)
  \/ \E f \in Slots, kind \in {"string", "word", "character"}, new, null \in BOOLEAN :
       ReadString(f, kind, new, null)
  \/ Fetch \/ FetchLast \/ EndOfFile \/ Skip \/ Take

Spec == Init /\ [][Next]_vars

-----------------------------------------------------------------------------
(* Properties                                                              *)

\* Types; the cursor is in the record, or just behind it, and the record in
\* the part of the file that is mapped.
TypeOK ==
  /\ text \in Texts /\ flen \in 1..Len(text) /\ str \in Strings
  /\ \A f \in Slots : /\ slot[f] \in Stream
                      /\ slot[f].m <= slot[f].l + 1 /\ slot[f].l <= slot[f].len
  /\ DOMAIN maps \subseteq Addrs /\ leaked \subseteq Addrs
  /\ lfni \in Slots \cup {Console} /\ buffer \in Places
  /\ Len(levels) <= NSlots
  /\ call.op \in {"none", "fetch", "take"} /\ crashed \in BOOLEAN

\* What this step returns of the stream.
Returned == IF call.op = "take" /\ call'.op = "none"
            THEN part.from .. (part.from + Length(part) - 1) ELSE {}

\* Whatever is read how, over the ends of records and of the file before it
\* grew: the cursor only goes forward, and every letter it passes has been
\* returned.  A word has no separator in it and ends at one, or at the end of
\* what there is; a string ends only at a newline that counts.
ReadsInOrder ==
  [][LET f == call.f
         c == Chars(f)
         last == part.from + Length(part)
     IN  call.op # "none" =>
           /\ slot[f].m <= slot'[f].m
           /\ \A i \in slot[f].m .. (slot'[f].m - 1) : ~IsSep(c[i]) => i \in Returned
           /\ \A i \in Returned : i \in slot[f].m .. (slot'[f].m - 1)
           /\ call.kind = "word" =>
                /\ \A i \in Returned : ~IsSep(c[i])
                /\ Returned # {} => last > slot[f].len \/ IsSep(c[last])
           /\ call.kind = "string" /\ Returned # {} =>
                slot'[f].m > slot[f].len \/ (c[last] = "N" /\ c[last - 1] # "B")]_vars

\* Between reads the evaluator's input is the innermost stream of Get or FFS,
\* and `buffer` always points to the memory of the input, or to an earlier
\* mapping of the same file: opening, reading and closing other streams, and
\* nested Gets, set the pointers back.
InputRestored ==
  ~crashed =>
    /\ call.op = "none" => lfni = IF levels = <<>> THEN Console ELSE levels[Len(levels)].lfn
    /\ buffer = At(lfni) \/ (buffer \in leaked /\ slot[lfni].mode = "mapped")

\* Every mapping belongs to one open stream, with the length the stream will
\* unmap, except those that were lost to a full table or to a munmap that
\* refused; and every stream that is being executed is open, once.
MappingsAccounted ==
  ~crashed =>
    LET open == {f \in Slots : slot[f].mode = "mapped"} IN
    /\ DOMAIN maps = {slot[f].at : f \in open} \cup leaked
    /\ \A f \in open : slot[f].at \notin leaked /\ maps[slot[f].at] = slot[f].len
    /\ \A f, g \in open : f # g => slot[f].at # slot[g].at
    /\ \A f \in Inputs : slot[f].mode \in {"string", "mapped"}
    /\ Cardinality(Inputs) = Len(levels)
=============================================================================
