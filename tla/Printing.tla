------------------------------ MODULE Printing ------------------------------
(***************************************************************************)
(* Console output: cprintf, panic, consputc and consolewrite (console.c)   *)
(* and the printf of programs (printf.c), on CPUs that share cons.lock.    *)
(*                                                                         *)
(* The keyboard's echo takes input.lock, not cons.lock.  What uartputc and *)
(* cgaputc do with a character is left out: out is the order of the calls. *)
(***************************************************************************)
EXTENDS Integers, FiniteSets, Sequences, SequencesExt

CONSTANTS
  CPUs, NoOne,
  Bits,          \* of an int (32); an address has twice as many
  Calls,         \* what is printed: by, fmt, arg, and str for %s and %c
  MaxMessages    \* messages printed

PrintConstants == Bits % 4 = 0 /\ NoOne \notin CPUs /\ MaxMessages \in Nat

VARIABLES
  lock, locking, panicked,  \* cons, and panicked
  pc, text, held,           \* each CPU: where it is, the characters to come, its locking
  id, sent,                 \* the message it prints, and all messages
  out, late                 \* characters printed, and how many since panicked

vars == <<lock, locking, panicked, pc, text, held, id, sent, out, late>>

Init ==
  /\ lock = NoOne /\ locking = TRUE /\ panicked = FALSE
  /\ pc = [c \in CPUs |-> "idle"] /\ text = [c \in CPUs |-> <<>>]
  /\ held = [c \in CPUs |-> FALSE] /\ id = [c \in CPUs |-> 0]
  /\ sent = <<>> /\ out = <<>> /\ late = 0

-----------------------------------------------------------------------------
(* Formatting *)

digits == <<"0", "1", "2", "3", "4", "5", "6", "7", "8", "9", "a", "b", "c", "d", "e", "f">>

\* int64 x = v; if (v < 0) x = -x;
Magnitude(v) == IF v < 0 THEN -v ELSE v

\* do buf[i++] = digits[x % 10] while ((x /= 10) != 0), read backwards.
RECURSIVE Decimal(_)
Decimal(x) == (IF x < 10 THEN <<>> ELSE Decimal(x \div 10)) \o <<digits[(x % 10) + 1]>>

print_d(v) == (IF v < 0 THEN <<"-">> ELSE <<>>) \o Decimal(Magnitude(v))

\* The top four bits of x, bits / 4 times, with x <<= 4 between.
Hex(x, bits) == [k \in 1 .. bits \div 4 |-> digits[((x \div 2^(bits - 4 * k)) % 16) + 1]]

print_x32(v) == Hex(v % 2^Bits, Bits)
print_x64(v) == Hex(v % 2^(2 * Bits), 2 * Bits)

\* The characters for a format.  printf alone knows %c.
RECURSIVE Formatted(_, _, _)
Formatted(fmt, f, user) ==
  IF fmt = <<>> \/ fmt = <<"%">> THEN <<>>
  ELSE IF fmt[1] # "%" THEN <<fmt[1]>> \o Formatted(Tail(fmt), f, user)
  ELSE LET x == fmt[2] IN
       (CASE x = "d" -> print_d(f.arg)
          [] x = "x" -> print_x32(f.arg)
          [] x = "p" -> print_x64(f.arg)
          [] x = "s" -> f.str
          [] x = "c" /\ user -> SubSeq(f.str, 1, 1)
          [] x = "%" -> <<"%">>
          [] OTHER -> <<"%", x>>) \o Formatted(SubSeq(fmt, 3, Len(fmt)), f, user)

-----------------------------------------------------------------------------
(* Calls *)

Goto(c, l) == pc' = [pc EXCEPT ![c] = l]
By(c) == sent[id[c]].by

Begin(c, f, s) ==
  /\ Len(sent) < MaxMessages
  /\ text' = [text EXCEPT ![c] = s]
  /\ sent' = Append(sent, f) /\ id' = [id EXCEPT ![c] = Len(sent) + 1]

Enter(c, f, s) ==
  /\ pc[c] = "idle" /\ Goto(c, "call") /\ Begin(c, f, s)
  /\ UNCHANGED <<lock, locking, panicked, held, out, late>>

cprintf(c, f) == f.by = "cprintf" /\ Enter(c, f, Formatted(f.fmt, f, FALSE))
printf(c, f) == f.by = "printf" /\ Enter(c, f, Formatted(f.fmt, f, TRUE))
consolewrite(c, f) == f.by = "write" /\ Enter(c, f, f.str)

\* Fault: cons.locking stays set.
QuietLockFault == locking

\* cons.locking = 0
QuietLock == FALSE

\* panic, outside a cprintf or within one, with its lock: for a format that is
\* null, or a fault on an argument.
Panic(c, f) ==
  /\ pc[c] = "idle" \/ (pc[c] = "putc" /\ By(c) = "cprintf")
  /\ f.by = "panic" /\ Begin(c, f, Formatted(f.fmt, f, FALSE)) /\ Goto(c, "call")
  /\ locking' = QuietLock
  /\ UNCHANGED <<lock, panicked, held, out, late>>

\* cprintf: locking = cons.locking; if (locking) acquire(&cons.lock).
\* consolewrite, under which each putc of a printf comes: acquire(&cons.lock).
TakesLock(by) == by \in {"write", "printf"} \/ locking

Lock(c) ==
  LET take == TakesLock(By(c)) IN
  /\ pc[c] = "call" /\ (take => lock = NoOne)
  /\ lock' = IF take THEN c ELSE lock
  /\ held' = [held EXCEPT ![c] = take]
  /\ Goto(c, IF text[c] = <<>> THEN "unlock" ELSE "putc")
  /\ UNCHANGED <<locking, panicked, text, id, sent, out, late>>

\* consputc: if (panicked) for(;;) hlt();
Frozen == panicked

Test(c) ==
  /\ pc[c] = "putc" /\ Goto(c, IF Frozen THEN "halted" ELSE "put")
  /\ UNCHANGED <<lock, locking, panicked, text, held, id, sent, out, late>>

Output(ch, m) == out' = Append(out, <<m, ch>>) /\ late' = IF panicked THEN late + 1 ELSE late

consputc(c) ==
  /\ pc[c] = "put" /\ Output(Head(text[c]), id[c])
  /\ text' = [text EXCEPT ![c] = Tail(@)]
  /\ Goto(c, IF By(c) = "printf" \/ Len(text[c]) = 1 THEN "unlock" ELSE "putc")
  /\ UNCHANGED <<lock, locking, panicked, held, id, sent>>

\* if (locking) release(&cons.lock); and panicked = 1 at the end of panic.
Unlock(c) ==
  /\ pc[c] = "unlock"
  /\ lock' = IF held[c] THEN NoOne ELSE lock
  /\ held' = [held EXCEPT ![c] = FALSE]
  /\ panicked' = (panicked \/ By(c) = "panic")
  /\ Goto(c, IF By(c) = "panic" THEN "halted" ELSE IF text[c] = <<>> THEN "idle" ELSE "call")
  /\ UNCHANGED <<locking, text, id, sent, out, late>>

\* consoleintr echoes a key, whoever has cons.lock.
Echo(c) ==
  /\ pc[c] = "idle" /\ Begin(c, [by |-> "echo"], <<"k">>) /\ Goto(c, "putc")
  /\ UNCHANGED <<lock, locking, panicked, held, out, late>>

Step(c) == Lock(c) \/ Test(c) \/ consputc(c) \/ Unlock(c)

Next ==
  \E c \in CPUs :
    \/ \E f \in Calls : cprintf(c, f) \/ printf(c, f) \/ consolewrite(c, f) \/ Panic(c, f)
    \/ Echo(c) \/ Step(c)

Spec == Init /\ [][Next]_vars

-----------------------------------------------------------------------------
(* Properties *)

\* Messages of the kernel and writes of programs do not mix: only echoes, the
\* bytes of a printf and a panic come between the characters of one.
MessagesWhole ==
  LET locked == SelectSeq(out, LAMBDA o : sent[o[1]].by \in {"cprintf", "write"}) IN
  locking => \A i, j, k \in DOMAIN locked :
               i < j /\ j < k /\ locked[i][1] = locked[k][1] => locked[j][1] = locked[i][1]

\* After the message of the panic that froze the machine, every other CPU
\* prints at most the character it had begun.
SilentAfterPanic == late < Cardinality(CPUs)

\* A panic ends in the freeze, though its own CPU may have cons.lock.
PanicEnds == (\E c \in CPUs : pc[c] = "call" /\ By(c) = "panic") ~> panicked

\* Numbers read back as what was printed, at the ends of their range too.
Value(s, base) == FoldLeft(LAMBDA v, d : v * base + CHOOSE n \in 0 .. 15 : digits[n + 1] = d, 0, s)
Decoded(s) == IF s[1] = "-" THEN -Value(Tail(s), 10) ELSE Value(s, 10)
NumbersReadBack ==
  \A c \in CPUs : pc[c] = "call" /\ By(c) = "cprintf" =>
    LET f == sent[id[c]] IN
    /\ f.fmt = <<"%", "d">> => Decoded(text[c]) = f.arg
    /\ f.fmt = <<"%", "x">> => Len(text[c]) = Bits \div 4 /\ Value(text[c], 16) = f.arg % 2^Bits
    /\ f.fmt = <<"%", "p">> => Len(text[c]) = Bits \div 2 /\ Value(text[c], 16) = f.arg % 2^(2 * Bits)
=============================================================================
