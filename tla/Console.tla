------------------------------ MODULE Console -------------------------------
(***************************************************************************)
(* Console input (console.c): consoleintr, which edits a line in the ring  *)
(* input.buf and keeps the history of lines, and consoleread.              *)
(*                                                                         *)
(* consoleintr runs with input.lock held and interrupts off, so each key   *)
(* is one step.  consoleread holds the lock from its start to its sleep    *)
(* or its end; it takes a step for each byte, because kill needs only      *)
(* ptable.lock.  Echo is left out, and so are cursor, which is never read, *)
(* and the keys that list the processes and reboot.                        *)
(***************************************************************************)
EXTENDS Integers, Sequences

CONSTANTS
  Procs, NULL,
  Keys,          \* characters and editing keys
  Counts,        \* the n of a read
  INPUT_BUF, HISTORY_SIZE,
  Mod            \* the indices count modulo this (2^32 in the code)

ConsoleSizes ==
  /\ INPUT_BUF \in Nat \ {0} /\ HISTORY_SIZE \in Nat \ {0} /\ Counts \subseteq Nat \ {0}
  /\ Mod \in Nat /\ Mod > INPUT_BUF /\ Mod % INPUT_BUF = 0
ConsoleProcs == NULL \notin Procs

VARIABLES
  buf, r, w, e, lock,              \* struct input
  history, history_pos, line_start,
  pc, killed, n, dst               \* each process, its read's n and dst

inputVars == <<buf, r, w, e>>
historyVars == <<history, history_pos, line_start>>
readVars == <<pc, killed, n, dst>>
vars == <<inputVars, lock, historyVars, readVars>>

Editing == {"bs", "kill", "up", "down"}
Chars == Keys \ Editing
Blank == "blank"   \* a byte of input.buf not written yet

Dist(i, j) == (j - i) % Mod
Bytes(i, j) == [k \in 1 .. Dist(i, j) |-> buf[(i + k - 1) % INPUT_BUF]]

Init ==
  /\ buf = [i \in 0 .. INPUT_BUF - 1 |-> Blank]
  /\ r = 0 /\ w = 0 /\ e = 0 /\ lock = NULL
  /\ history = <<>> /\ history_pos = -1 /\ line_start = 0
  /\ pc = [p \in Procs |-> "user"] /\ killed = [p \in Procs |-> FALSE]
  /\ n = [p \in Procs |-> 0] /\ dst = [p \in Procs |-> <<>>]

-----------------------------------------------------------------------------
(* consoleintr *)

\* input.e - input.r < INPUT_BUF, in unsigned arithmetic.
HasRoom == Dist(r, e) < INPUT_BUF

Backspace ==
  /\ e' = IF e # w THEN (e - 1) % Mod ELSE e
  /\ UNCHANGED <<buf, r, w, historyVars, readVars>>

\* Back to input.w or to just after the last newline.
KillLine ==
  LET stops == {k \in 0 .. Dist(w, e) :
                  k = Dist(w, e) \/ buf[(e - k - 1) % INPUT_BUF] = "nl"}
      k == CHOOSE m \in stops : \A j \in stops : m <= j
  IN /\ e' = (e - k) % Mod
     /\ UNCHANGED <<buf, r, w, historyVars, readVars>>

Tab ==
  /\ IF HasRoom THEN buf' = [buf EXCEPT ![e % INPUT_BUF] = "tab"] /\ e' = (e + 1) % Mod
     ELSE UNCHANGED <<buf, e>>
  /\ UNCHANGED <<r, w, historyVars, readVars>>

\* clear_line, then the bytes of s that fit.
Load(s) ==
  LET room == INPUT_BUF - Dist(r, line_start)
      m == IF room < 0 THEN 0 ELSE IF Len(s) < room THEN Len(s) ELSE room
  IN /\ buf' = [i \in DOMAIN buf |->
                  LET k == (i - line_start) % INPUT_BUF IN IF k < m THEN s[k + 1] ELSE buf[i]]
     /\ e' = (line_start + m) % Mod

KeyUp ==
  /\ IF history = <<>> THEN UNCHANGED <<buf, e, history_pos>>
     ELSE LET pos == IF history_pos = -1 THEN Len(history) - 1
                     ELSE IF history_pos > 0 THEN history_pos - 1 ELSE history_pos
          IN Load(history[pos + 1]) /\ history_pos' = pos
  /\ UNCHANGED <<r, w, history, line_start, readVars>>

KeyDown ==
  /\ IF history_pos = -1 THEN UNCHANGED <<buf, e, history_pos>>
     ELSE IF history_pos < Len(history) - 1
     THEN Load(history[history_pos + 2]) /\ history_pos' = history_pos + 1
     ELSE Load(<<>>) /\ history_pos' = -1
  /\ UNCHANGED <<r, w, history, line_start, readVars>>

\* history after the line s, the oldest line dropped when it is full.
Remember(s) ==
  IF s = <<>> THEN history
  ELSE Append(IF Len(history) = HISTORY_SIZE THEN Tail(history) ELSE history, s)

\* Fault: wakeup stops at the first reader it finds.
WakeFault ==
  IF \A p \in Procs : pc[p] # "asleep" THEN pc
  ELSE [pc EXCEPT ![CHOOSE p \in Procs : pc[p] = "asleep"] = "read"]

\* Fault: there is no wakeup.
WakeNoneFault == pc

\* wakeup(&input.r)
Wake == [p \in Procs |-> IF pc[p] = "asleep" THEN "read" ELSE pc[p]]

\* A newline, a ^D and a full ring commit the line.
Wakes(c) == c = "nl" \/ c = "eot" \/ (e + 1) % Mod = (r + INPUT_BUF) % Mod

\* The line copied to history: at most INPUT_BUF - 1 bytes from line_start.
Typed ==
  LET s == Bytes(line_start, e)
  IN IF Len(s) < INPUT_BUF THEN s ELSE SubSeq(s, 1, INPUT_BUF - 1)

Default(c) ==
  /\ IF ~HasRoom THEN UNCHANGED <<buf, e, w, pc, historyVars>>
     ELSE /\ buf' = [buf EXCEPT ![e % INPUT_BUF] = c]
          /\ e' = (e + 1) % Mod
          /\ IF Wakes(c) THEN w' = e' /\ pc' = Wake ELSE UNCHANGED <<w, pc>>
          /\ IF c = "nl"
             THEN history' = Remember(Typed) /\ history_pos' = -1 /\ line_start' = e'
             ELSE UNCHANGED historyVars
  /\ UNCHANGED <<r, killed, n, dst>>

consoleintr(c) ==
  /\ lock = NULL
  /\ CASE c = "bs" -> Backspace
       [] c = "kill" -> KillLine
       [] c = "tab" -> Tab
       [] c = "up" -> KeyUp
       [] c = "down" -> KeyDown
       [] OTHER -> Default(c)
  /\ UNCHANGED lock

-----------------------------------------------------------------------------
(* consoleread *)

CallRead(p, k) ==
  /\ pc[p] = "user" /\ ~killed[p]
  /\ pc' = [pc EXCEPT ![p] = "read"]
  /\ n' = [n EXCEPT ![p] = k] /\ dst' = [dst EXCEPT ![p] = <<>>]
  /\ UNCHANGED <<inputVars, lock, historyVars, killed>>

\* acquire(&input.lock), at the start and at the end of sleep.
ReadLock(p) ==
  /\ pc[p] = "read" /\ lock = NULL
  /\ pc' = [pc EXCEPT ![p] = "loop"] /\ lock' = p
  /\ UNCHANGED <<inputVars, historyVars, killed, n, dst>>

\* Nothing to read: fail if killed ...
ReadEmpty(p) ==
  /\ pc[p] = "loop" /\ n[p] > 0 /\ r = w
  /\ IF killed[p] THEN /\ pc' = [pc EXCEPT ![p] = "user"] /\ lock' = NULL
                       /\ dst' = [dst EXCEPT ![p] = <<>>]
     ELSE pc' = [pc EXCEPT ![p] = "sleepy"] /\ UNCHANGED <<lock, dst>>
  /\ UNCHANGED <<inputVars, historyVars, killed, n>>

\* ... else sleep(&input.r, &input.lock).
ReadSleep(p) ==
  /\ pc[p] = "sleepy"
  /\ pc' = [pc EXCEPT ![p] = "asleep"] /\ lock' = NULL
  /\ UNCHANGED <<inputVars, historyVars, killed, n, dst>>

\* Fault: a ^D that ends a read with bytes is used up by it.
KeepsEotFault(p) == FALSE

\* n < target: the ^D stays for the next read.
KeepsEot(p) == dst[p] # <<>>

\* c = input.buf[input.r++ % INPUT_BUF], the loop left at ^D, newline or n = 0.
ReadByte(p) ==
  LET c == buf[r % INPUT_BUF]
      done == c \in {"eot", "nl"} \/ n[p] = 1
  IN /\ pc[p] = "loop" /\ n[p] > 0 /\ r # w
     /\ r' = IF c = "eot" /\ KeepsEot(p) THEN r ELSE (r + 1) % Mod
     /\ dst' = [dst EXCEPT ![p] = IF c = "eot" THEN @ ELSE Append(@, c)]
     /\ n' = [n EXCEPT ![p] = IF c = "eot" THEN @ ELSE @ - 1]
     /\ IF done THEN pc' = [pc EXCEPT ![p] = "user"] /\ lock' = NULL ELSE UNCHANGED <<pc, lock>>
     /\ UNCHANGED <<buf, w, e, historyVars, killed>>

consoleread(p) == ReadLock(p) \/ ReadEmpty(p) \/ ReadSleep(p) \/ ReadByte(p)

kill(p) ==
  /\ ~killed[p] /\ killed' = [killed EXCEPT ![p] = TRUE]
  /\ pc' = [pc EXCEPT ![p] = IF @ = "asleep" THEN "read" ELSE @]
  /\ UNCHANGED <<inputVars, lock, historyVars, n, dst>>

Next ==
  \/ \E c \in Keys : consoleintr(c)
  \/ \E p \in Procs : consoleread(p) \/ kill(p) \/ \E k \in Counts : CallRead(p, k)

Spec == Init /\ [][Next]_vars

\* A history key on a line of which a ^D or a full ring has committed a part:
\* clear_line takes that part back (CommittedNotEdited).
TakesBack(c) == c \in {"up", "down"} /\ line_start # w

\* Bound: no line gets so long that its length wraps.
TooLong(c) == c \in Chars \ {"nl"} /\ Dist(line_start, e) = Mod - 1

\* Any keys in any order, up to one that takes back what is committed.
Press == \E c \in Keys : ~TakesBack(c) /\ ~TooLong(c) /\ consoleintr(c)

-----------------------------------------------------------------------------
(* Properties *)

TypeOK ==
  /\ buf \in [0 .. INPUT_BUF - 1 -> Chars \cup {Blank}]
  /\ {r, w, e, line_start} \subseteq 0 .. Mod - 1
  /\ Len(history) <= HISTORY_SIZE /\ history_pos \in -1 .. Len(history) - 1
  /\ \A i \in DOMAIN history : history[i] # <<>> /\ Len(history[i]) < INPUT_BUF
  /\ lock \in Procs \cup {NULL}
  /\ pc \in [Procs -> {"user", "read", "loop", "sleepy", "asleep"}]
  /\ killed \in [Procs -> BOOLEAN]

\* The write index lies between the read and the edit index of the ring,
\* so that what is being edited is not what a reader may still read
\* (console.c:246-299).
IndicesInOrder == Dist(r, w) + Dist(w, e) <= INPUT_BUF

\* A reader sleeps only while nothing is committed: consoleintr wakes it in
\* the step that commits.
ReaderNotLost == \A p \in Procs : pc[p] = "asleep" => r = w

LineEditor == INSTANCE LineInput WITH
  Capacity <- INPUT_BUF, Lines <- HISTORY_SIZE,
  unread <- Bytes(r, w), draft <- Bytes(w, e), whole <- line_start = w, recent <- history

\* The ring with its indices, which wrap, and the array of past lines are
\* the line editor of LineInput: bytes are read in the order typed, once,
\* only what is not committed is edited, and a line committed whole is
\* remembered as it is.
ImplementsLineInput == LineEditor!Spec

\* Keys work on "the current editing line" (console.c:214): what is committed to
\* the readers stays as it is until they take it.
CommittedNotEdited == [][r' = r /\ w' = w => Bytes(r, w)' = Bytes(r, w)]_vars

\* What is committed is read: a reader returns, or all that is committed has been
\* taken by it and the others.
CommittedIsRead(p) == (pc[p] # "user" /\ r # w) ~> (r = w \/ pc[p] = "user")
=============================================================================
