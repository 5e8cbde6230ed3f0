------------------------------ MODULE ReadLine ------------------------------
(***************************************************************************)
(* How the shell gets a line (sh.c): readline with its backspace, the      *)
(* completion of names by TAB, getcmd, and main's own command, cd.         *)
(*                                                                         *)
(* Characters come from read one at a time.  The directory is a sequence   *)
(* of entries; what readline prints is left out.                           *)
(***************************************************************************)
EXTENDS Integers, Sequences, SequencesExt

CONSTANTS
  nbuf, DIRSIZ,
  Dir,           \* the entries of ".": an inum, a name, whether stat succeeds
  MaxKeys        \* keys in a line

\* Enough letters to say cd, and the keys with a meaning.
Letters == {"c", "d", " "}
Keys == Letters \cup {"bs", "tab", "nl", "cr"}

ReadLineSizes == nbuf > 3 /\ DIRSIZ \in Nat \ {0} /\ \A k \in DOMAIN Dir : Len(Dir[k].name) <= DIRSIZ

VARIABLES
  buf, n,
  pc, path,      \* main's place, and the argument of its chdir
  typed          \* the keys of this line

vars == <<buf, n, pc, path, typed>>

NUL == "0"
Cleared == [k \in 0 .. nbuf - 1 |-> NUL]   \* memset(buf, 0, nbuf)

Init == buf = Cleared /\ n = 0 /\ pc = "read" /\ path = <<>> /\ typed = <<>>

Upto(b, m) == [k \in 1 .. m |-> b[k - 1]]
strlen(b) == CHOOSE m \in 0 .. nbuf - 1 : b[m] = NUL /\ \A k \in 0 .. m - 1 : b[k] # NUL
Least(x, y) == IF x < y THEN x ELSE y

-----------------------------------------------------------------------------
(* autocomplete *)

\* The first name that starts with the prefix, if there is one.
Matches(prefix) ==
  {k \in DOMAIN Dir : /\ Dir[k].inum # 0 /\ Dir[k].stat
                      /\ Len(Dir[k].name) >= Len(prefix)
                      /\ SubSeq(Dir[k].name, 1, Len(prefix)) = prefix}
FirstMatch(prefix) ==
  Dir[CHOOSE k \in Matches(prefix) : \A j \in Matches(prefix) : k <= j].name

\* Fault: no room is left for the NUL.
RoomFault == nbuf - n

\* *pn + 1 < nbuf
Room == nbuf - 1 - n

autocomplete ==
  LET starts == {k \in 0 .. n : k = 0 \/ buf[k - 1] = " "}
      start == CHOOSE k \in starts : \A j \in starts : j <= k
      plen == Least(n - start, DIRSIZ)
      prefix == SubSeq(Upto(buf, n), start + 1, start + plen)
      name == FirstMatch(prefix)
      rest == SubSeq(name, plen + 1, Len(name)) \o <<" ">>
      m == Least(Len(rest), Room)
  IN IF plen = 0 \/ Matches(prefix) = {} THEN UNCHANGED <<buf, n>>
     ELSE /\ n' = n + m
          /\ buf' = [k \in 0 .. nbuf - 1 |-> IF k \in n .. n + m - 1 THEN rest[k - n + 1]
                                             ELSE IF k = n + m THEN NUL ELSE buf[k]]

-----------------------------------------------------------------------------
(* readline and main *)

Store(c) == buf' = [buf EXCEPT ![n] = c] /\ n' = n + 1
Erase == n' = IF n > 0 THEN n - 1 ELSE 0

\* read gives a character.  opened: whether TAB could open the directory.
ReadKey(c, opened) ==
  /\ pc = "read" /\ n + 1 < nbuf /\ Len(typed) < MaxKeys
  /\ typed' = IF c = "tab" /\ ~opened THEN typed ELSE Append(typed, c)
  /\ CASE c \in {"nl", "cr"} -> /\ buf' = [buf EXCEPT ![n] = "nl", ![n + 1] = NUL]
                                /\ n' = n + 1 /\ pc' = "line"
       [] c = "bs" -> Erase /\ UNCHANGED <<buf, pc>>
       [] c = "tab" -> (IF opened THEN autocomplete ELSE UNCHANGED <<buf, n>>) /\ UNCHANGED pc
       [] OTHER -> Store(c) /\ UNCHANGED pc
  /\ UNCHANGED path

\* buf is full: the line ends without a newline.
LineFull ==
  /\ pc = "read" /\ n + 1 >= nbuf
  /\ buf' = [buf EXCEPT ![n] = NUL] /\ pc' = "line" /\ UNCHANGED <<n, path, typed>>

\* read gives nothing: getcmd fails and the shell exits.
Eof == pc = "read" /\ pc' = "exit" /\ UNCHANGED <<buf, n, path, typed>>

\* buf[strlen(buf)-1] = 0
Chopped == strlen(buf) - 1

\* "cd " is main's; for other lines it forks (Shell).
Command ==
  /\ pc = "line"
  /\ IF Upto(buf, 3) = <<"c", "d", " ">>
     THEN pc' = "cd" /\ path' = SubSeq(Upto(buf, Chopped), 4, Chopped)
     ELSE pc' = "run" /\ UNCHANGED path
  /\ UNCHANGED <<buf, n, typed>>

\* getcmd again.
NextLine ==
  /\ pc \in {"cd", "run"} /\ pc' = "read" /\ buf' = Cleared /\ n' = 0
  /\ path' = <<>> /\ typed' = <<>>

Next ==
  \/ \E c \in Keys, opened \in BOOLEAN : (c = "tab" \/ opened) /\ ReadKey(c, opened)
  \/ LineFull \/ Eof \/ Command \/ NextLine

Spec == Init /\ [][Next]_vars

-----------------------------------------------------------------------------
(* What a line is *)

\* The last word of a line, and the line with a word completed.
LastWord(line) ==
  LET k == SelectInSeq(Reverse(line), LAMBDA c : c = " ") IN
  IF k = 0 THEN line ELSE SubSeq(line, Len(line) - k + 2, Len(line))
Complete(line) ==
  LET w == LastWord(line)
      seen == SubSeq(w, 1, Least(Len(w), DIRSIZ))
      names == SelectSeq(Dir, LAMBDA d : d.inum # 0 /\ d.stat /\ IsPrefix(seen, d.name))
      longer == line \o SubSeq(names[1].name, Len(seen) + 1, Len(names[1].name)) \o <<" ">>
  IN IF w = <<>> \/ names = <<>> THEN line ELSE SubSeq(longer, 1, Least(Len(longer), nbuf - 1))

Edited(line, c) ==
  CASE c = "bs" -> IF line = <<>> THEN line ELSE Front(line)
    [] c = "tab" -> Complete(line)
    [] c \in {"nl", "cr"} -> Append(line, "nl")
    [] OTHER -> Append(line, c)
Meant == FoldLeft(Edited, <<>>, typed)

-----------------------------------------------------------------------------
(* Properties *)

\* Whatever is typed, the buffer keeps room for its NUL, and the line that main
\* gets is the one the keys say, with nothing of what was erased or of names that
\* were completed to before.
LineAsTyped ==
  /\ n <= nbuf - 1
  /\ pc = "line" => strlen(buf) = n /\ Upto(buf, n) = Meant

\* The argument of cd is what follows it up to the newline, of lines that end in
\* one.
CdArgument ==
  pc = "cd" /\ Last(Meant) = "nl" => path = SubSeq(Meant, 4, Len(Meant) - 1)
=============================================================================
