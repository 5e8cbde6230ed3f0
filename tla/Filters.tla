------------------------------ MODULE Filters -------------------------------
(***************************************************************************)
(* The programs that read a stream by the buffer, grep.c and wc.c: grep    *)
(* with its matcher of patterns, and wc with its counts.                   *)
(*                                                                         *)
(* read gives a file's bytes as many as fit, and a pipe's as many as there *)
(* are, at least one.  Lines are of letters and blanks.                    *)
(***************************************************************************)
EXTENDS Integers, Sequences, FiniteSets, SequencesExt

CONSTANTS
  Tasks,         \* programs, patterns and streams that are tried together
  Texts,         \* texts that patterns are tried on
  BUFSIZE        \* sizeof(buf)

FilterSizes == BUFSIZE > 1

VARIABLES
  task,          \* prog, pattern, text and whether it comes from a pipe
  pos,           \* bytes read
  buf,           \* the first m bytes of grep's buf
  out,           \* the lines grep printed
  dropped,       \* whether grep has thrown away the beginning of a line
  l, w, c, inword,
  pc

vars == <<task, pos, buf, out, dropped, l, w, c, inword, pc>>

NoTask == [prog |-> "none", pattern |-> <<>>, text |-> <<>>, pipe |-> FALSE]

Init ==
  /\ task = NoTask /\ pos = 0 /\ buf = <<>> /\ out = <<>> /\ dropped = FALSE
  /\ l = 0 /\ w = 0 /\ c = 0 /\ inword = FALSE /\ pc = "start"

-----------------------------------------------------------------------------
(* The matcher: does re match text, both given as sequences? *)

RECURSIVE matchhere(_, _), matchstar(_, _, _)

One(x, y) == x = "." \/ x = y

\* Zero or more instances.
Star(x, re, text) == matchstar(x, re, text)

matchhere(re, text) ==
  IF re = <<>> THEN TRUE
  ELSE IF Len(re) > 1 /\ re[2] = "*" THEN Star(re[1], SubSeq(re, 3, Len(re)), text)
  ELSE IF re = <<"$">> THEN text = <<>>
  ELSE text # <<>> /\ One(re[1], text[1]) /\ matchhere(Tail(re), Tail(text))

matchstar(x, re, text) ==
  \/ matchhere(re, text)
  \/ text # <<>> /\ One(x, text[1]) /\ matchstar(x, re, Tail(text))

match(re, text) ==
  IF re # <<>> /\ re[1] = "^" THEN matchhere(Tail(re), text)
  ELSE \E k \in 0 .. Len(text) : matchhere(re, SubSeq(text, k + 1, Len(text)))

-----------------------------------------------------------------------------
(* read *)

Least(x, y) == IF x < y THEN x ELSE y
Left == Len(task.text) - pos
Chunks(room) ==
  IF Left = 0 \/ room = 0 THEN {}
  ELSE IF task.pipe THEN 1 .. Least(Left, room) ELSE {Least(Left, room)}
Got(k) == SubSeq(task.text, pos + 1, pos + k)

-----------------------------------------------------------------------------
(* grep *)

\* The lines that end in s, and what is after the last one.
RECURSIVE LinesOf(_)
LinesOf(s) ==
  LET q == SelectInSeq(s, LAMBDA x : x = "nl") IN
  IF q = 0 THEN <<>> ELSE <<SubSeq(s, 1, q - 1)>> \o LinesOf(SubSeq(s, q + 1, Len(s)))
Rest(s) == SubSeq(s, Len(s) - SelectInSeq(Reverse(s) \o <<"nl">>, LAMBDA x : x = "nl") + 2, Len(s))

Matching(lines, re) == SelectSeq(lines, LAMBDA s : match(re, s))

\* sizeof(buf) - m - 1, for the NUL.
Free == BUFSIZE - Len(buf) - 1

\* Fault: what is left of a line is not moved to the front.
KeptFault(s) == <<>>

\* memmove(buf, p, m), unless no line ended: then m = 0.
Kept(s) == IF Rest(s) = s THEN <<>> ELSE Rest(s)

\* One turn of the loop: read, the lines printed that match, the rest kept.
grep(k) ==
  LET s == buf \o Got(k) IN
  /\ task.prog = "grep" /\ pc = "read"
  /\ pos' = pos + k /\ out' = out \o Matching(LinesOf(s), task.pattern)
  /\ buf' = Kept(s) /\ dropped' = (dropped \/ Rest(s) = s)
  /\ UNCHANGED <<task, l, w, c, inword, pc>>

-----------------------------------------------------------------------------
(* wc *)

Blank == {" ", "nl"}

InWord == inword

\* The loop over buf: a word begins at a byte that is not blank, when not in one.
wc(k) ==
  LET s == Got(k)
      before(n) == IF n = 1 THEN InWord ELSE s[n - 1] \notin Blank
  IN /\ task.prog = "wc" /\ pc = "read"
     /\ pos' = pos + k /\ c' = c + k
     /\ l' = l + Cardinality({n \in 1 .. k : s[n] = "nl"})
     /\ w' = w + Cardinality({n \in 1 .. k : s[n] \notin Blank /\ ~before(n)})
     /\ inword' = (s[k] \notin Blank)
     /\ UNCHANGED <<task, buf, out, dropped, pc>>

\* main.
Start ==
  /\ pc = "start" /\ pc' = "read" /\ task' \in Tasks
  /\ UNCHANGED <<pos, buf, out, dropped, l, w, c, inword>>

\* read gives 0.
End ==
  /\ pc = "read" /\ Left = 0 /\ pc' = "end"
  /\ UNCHANGED <<task, pos, buf, out, dropped, l, w, c, inword>>

Next ==
  \/ \E k \in Chunks(Free) : grep(k)
  \/ \E k \in Chunks(BUFSIZE) : wc(k)
  \/ Start \/ End

Spec == Init /\ [][Next]_vars

-----------------------------------------------------------------------------
(* What patterns mean *)

\* A pattern is items, each a character and whether it is repeated, and may be
\* anchored at either end.
RECURSIVE Items(_)
Items(re) ==
  IF re = <<>> \/ re = <<"$">> THEN <<>>
  ELSE IF Len(re) > 1 /\ re[2] = "*" THEN <<<<re[1], TRUE>>>> \o Items(SubSeq(re, 3, Len(re)))
  ELSE <<<<re[1], FALSE>>>> \o Items(Tail(re))
AtStart(re) == re # <<>> /\ re[1] = "^"
Body(re) == IF AtStart(re) THEN Tail(re) ELSE re
RECURSIVE AtEnd(_)
AtEnd(re) ==
  /\ re # <<>>
  /\ \/ re = <<"$">>
     \/ Len(re) > 1 /\ AtEnd(SubSeq(re, IF re[2] = "*" THEN 3 ELSE 2, Len(re)))

\* Where in text a match of the item can end that starts at one of S.
Moves(text, S, item) ==
  IF item[2] THEN {e \in 0 .. Len(text) : \E b \in S :
                     b <= e /\ \A k \in b + 1 .. e : One(item[1], text[k])}
  ELSE {b + 1 : b \in {b \in S : b < Len(text) /\ One(item[1], text[b + 1])}}

Denotes(re, text) ==
  LET from == IF AtStart(re) THEN {0} ELSE 0 .. Len(text)
      ends == FoldLeft(LAMBDA S, item : Moves(text, S, item), from, Items(Body(re)))
  IN IF AtEnd(Body(re)) THEN Len(text) \in ends ELSE ends # {}

-----------------------------------------------------------------------------
(* Properties *)

\* The matcher, which backtracks, finds what a search of all places at once
\* finds, for patterns of ^ . * and $ in any order.
MatchesPattern == \A text \in Texts : match(task.pattern, text) = Denotes(task.pattern, text)

\* grep prints the matching lines of a stream, in order, wherever reads cut it,
\* but for a stream of which it has thrown a line's beginning away.
GrepPrintsLines ==
  pc = "end" /\ task.prog = "grep" /\ ~dropped =>
    out = Matching(LinesOf(task.text), task.pattern)

\* In a file that happens only to lines longer than the buffer and to a last one
\* that does not end.
FileNotDropped ==
  pc = "end" /\ task.prog = "grep" /\ ~task.pipe /\ dropped =>
    \/ Rest(task.text) # <<>>
    \/ \E k \in DOMAIN LinesOf(task.text) : Len(LinesOf(task.text)[k]) >= BUFSIZE - 1

\* wc counts lines, words and bytes, wherever reads cut a word.
WcCounts ==
  LET t == task.text IN
  pc = "end" /\ task.prog = "wc" =>
    /\ l = Len(LinesOf(t)) /\ c = Len(t)
    /\ w = Cardinality({n \in 1 .. Len(t) : t[n] \notin Blank /\ (n = 1 \/ t[n - 1] \in Blank)})
=============================================================================
