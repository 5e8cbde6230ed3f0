----------------------------- MODULE MCTerminal -----------------------------
(***************************************************************************)
(* The terminal, for TLC: the keyboard, console input and console output.  *)
(* They share no variable: each behaviour is one of a component, and the   *)
(* others stay as they start.  Console input comes in three sizes, for all *)
(* the keys, for longer lines, and for its readers.                        *)
(***************************************************************************)
EXTENDS Console

CONSTANTS p1, p2, c1, c2

VARIABLES
  part,               \* the component this behaviour is of
  lbuf, lr, lw, le, llock, lhistory, lhistory_pos, lline_start, lpc, lkilled, ln, ldst,
  rbuf, rr, rw, re, rlock, rhistory, rhistory_pos, rline_start, rpc, rkilled, rn, rdst,
  shift, wire, down, twice, capsOn, got,
  olock, locking, panicked, opc, text, held, id, sent, out, late

L == INSTANCE Console WITH
  Keys <- {"a", "nl", "eot", "bs", "kill", "up", "down"}, INPUT_BUF <- 3, HISTORY_SIZE <- 1,
  Mod <- 6,
  buf <- lbuf, r <- lr, w <- lw, e <- le, lock <- llock, history <- lhistory,
  history_pos <- lhistory_pos, line_start <- lline_start, pc <- lpc, killed <- lkilled,
  n <- ln, dst <- ldst

R == INSTANCE Console WITH
  Procs <- {p1, p2}, Keys <- {"a", "nl"}, INPUT_BUF <- 2, HISTORY_SIZE <- 1, Mod <- 4,
  buf <- rbuf, r <- rr, w <- rw, e <- re, lock <- rlock, history <- rhistory,
  history_pos <- rhistory_pos, line_start <- rline_start, pc <- rpc, killed <- rkilled,
  n <- rn, dst <- rdst

K == INSTANCE Kbd WITH
  Pressed <- {"lshift", "rshift", "rctl", "caps", "a", "up", "fake"}, MaxWire <- 2

\* Messages with what each conversion does at its limits.
Say(by, fmt, arg) == [by |-> by, fmt |-> fmt, arg |-> arg, str |-> <<"u", "v">>]
MCCalls ==
  {Say("cprintf", <<"%", "d">>, -8), Say("cprintf", <<"%", "x">>, -7),
   Say("cprintf", <<"%", "p">>, 20), Say("write", <<>>, 0),
   Say("printf", <<"%", "%", "%", "c", "%">>, 0), Say("panic", <<"%", "c">>, 0)}
O == INSTANCE Printing WITH
  CPUs <- {c1, c2}, NoOne <- NULL, Bits <- 4, Calls <- MCCalls, MaxMessages <- 3,
  lock <- olock, pc <- opc

ASSUME ConsoleSizes /\ ConsoleProcs /\ L!ConsoleSizes
ASSUME R!ConsoleSizes /\ R!ConsoleProcs
ASSUME K!KbdConstants
ASSUME O!PrintConstants

lvars == <<lbuf, lr, lw, le, llock, lhistory, lhistory_pos, lline_start, lpc, lkilled,
           ln, ldst>>
rvars == <<rbuf, rr, rw, re, rlock, rhistory, rhistory_pos, rline_start, rpc, rkilled,
           rn, rdst>>
kvars == <<shift, wire, down, twice, capsOn, got>>
ovars == <<olock, locking, panicked, opc, text, held, id, sent, out, late>>
all == <<part, vars, lvars, rvars, kvars, ovars>>

OfInput(A) == part = "input" /\ A /\ UNCHANGED <<part, lvars, rvars, kvars, ovars>>
OfLong(A) == part = "long" /\ A /\ UNCHANGED <<part, vars, rvars, kvars, ovars>>
OfReaders(A) == part = "read" /\ A /\ UNCHANGED <<part, vars, lvars, kvars, ovars>>
OfKbd(A) == part = "kbd" /\ A /\ UNCHANGED <<part, vars, lvars, rvars, ovars>>
OfOutput(A) == part = "output" /\ A /\ UNCHANGED <<part, vars, lvars, rvars, kvars>>

Read == consoleread(p1) \/ \E k \in Counts : CallRead(p1, k)
LRead == L!consoleread(p1) \/ \E k \in Counts : L!CallRead(p1, k)

\* No message is left to print, or a panic has stopped the machine.
Quiet == OfOutput((Len(sent) = 3 \/ panicked) /\ UNCHANGED ovars)

MCInit ==
  /\ part \in {"input", "long", "read", "kbd", "output"}
  /\ Init /\ L!Init /\ R!Init /\ K!Init /\ O!Init
MCNext ==
  \/ OfInput(Press \/ Read) \/ OfLong(L!Press \/ LRead)
  \/ OfReaders(R!Next) \/ OfKbd(K!Next) \/ OfOutput(O!Next) \/ Quiet

\* A reader goes on, and p1 gets input.lock if it is released again and again; a
\* CPU that prints goes on.  (Only one of the components moves, so fairness of a
\* disjunction is fairness of each.)
Fairness ==
  /\ WF_all(OfReaders(R!consoleread(p1)) \/ OfOutput(O!Step(c1)))
  /\ WF_all(OfReaders(R!consoleread(p2)) \/ OfOutput(O!Step(c2)))
  /\ SF_all(OfReaders(R!ReadLock(p1)))

MCSpec == MCInit /\ [][MCNext]_all /\ Fairness

\* Up to a history key on a line that is committed in part, what is edited is not
\* what a reader may still read, and consoleintr wakes the readers when it commits
\* a line (console.c:205-212, 246-299).
InputSafe ==
  /\ TypeOK /\ L!TypeOK /\ IndicesInOrder /\ L!IndicesInOrder
  /\ part = "read" => R!ReaderNotLost

\* Up to such a key, bytes are read in the order typed, once, only what is not
\* committed is edited, and the lines committed whole are remembered
\* (console.c:246-374).
KeysAndLines == ImplementsLineInput /\ L!ImplementsLineInput

\* What is committed is read (console.c:340-374).  Of p1: nothing tells the
\* readers apart.
CommittedIsTaken == part = "read" => R!CommittedIsRead(p1)

\* The modifiers of kbdgetc are those of the keys that are down, and a key gives
\* the character it is marked with (kbd.c:20-43).
KeysRight == part = "kbd" => K!ModifiersFollowKeys /\ K!KeyNotMistaken

\* cons.lock keeps messages apart, numbers read back as what was printed, and a
\* panic comes to its end, whoever has cons.lock, and silences the other CPUs
\* (console.c:33-129, 167-171, 376-387).
OutputRight ==
  /\ [](part = "output" => O!MessagesWhole /\ O!SilentAfterPanic /\ O!NumbersReadBack)
  /\ part = "output" => O!PanicEnds
=============================================================================
