----------------------------- MODULE ShellParse -----------------------------
(***************************************************************************)
(* The shell's parser (sh.c): gettoken, peek and the functions of the      *)
(* recursive descent, from a line of characters to a command, checked      *)
(* against the grammar they are meant to parse.                            *)
(*                                                                         *)
(* Ordinary characters are all "a", so a word is where it starts and ends; *)
(* panic's exit is an error that every caller passes on.  The line is      *)
(* typed a character at a time, so that every line up to a length is       *)
(* parsed.                                                                 *)
(***************************************************************************)
EXTENDS Integers, Sequences, FiniteSets, SequencesExt

CONSTANTS
  MaxLine,               \* length of lines
  MAXARGS

symbols == {"<", "|", ">", "&", ";", "(", ")"}
Chars == symbols \cup {"a", " "}

VARIABLE s               \* the line

-----------------------------------------------------------------------------
(* Lexing.  Positions run from 1 to es == Len(s) + 1, where *es is 0. *)

es == Len(s) + 1
At(i) == IF i < es THEN s[i] ELSE "0"

\* The first position from i on whose character is not in S.
Skip(i, S) == CHOOSE j \in i .. es : /\ At(j) \notin S
                                     /\ \A k \in i .. (j - 1) : At(k) \in S

\* Where the token that starts at i ends.
TokenEnd(i) ==
  CASE At(i) = "0" -> i
    [] At(i) = ">" /\ At(i + 1) = ">" -> i + 2
    [] At(i) \in symbols -> i + 1
    [] OTHER -> Skip(i, {"a"})

\* The token after i: what it is, where it starts and ends, and where the next
\* one may.
gettoken(i) ==
  LET q == Skip(i, {" "})
      eq == TokenEnd(q)
  IN [tok |-> IF eq = q + 2 /\ At(q) = ">" THEN "+" ELSE At(q), q |-> q, eq |-> eq,
      next |-> Skip(eq, {" "})]

peek(i, toks) == At(Skip(i, {" "})) \in toks

-----------------------------------------------------------------------------
(* Parsing.  Each function gives a command and the position after it. *)

Error == [ok |-> FALSE, cmd |-> <<>>, next |-> 0]
Parsed(c, i) == [ok |-> TRUE, cmd |-> c, next |-> i]

execcmd(argv) == <<"exec", argv>>
redircmd(c, file, mode) == <<"redir", c, file, mode>>
pipecmd(c, d) == <<"pipe", c, d>>
listcmd(c, d) == <<"list", c, d>>
backcmd(c) == <<"back", c>>

\* ">" and ">>" open the file in the same way.
Mode(tok) == IF tok = "<" THEN "O_RDONLY" ELSE "O_WRONLY|O_CREATE"

RECURSIVE parseredirs(_, _)

\* The redirection op to the file that is the next token.
RedirTo(c, op, file) ==
  IF file.tok # "a" THEN Error
  ELSE parseredirs(redircmd(c, <<file.q, file.eq>>, Mode(op)), file.next)
RedirBy(c, op) == RedirTo(c, op.tok, gettoken(op.next))

parseredirs(c, i) == IF peek(i, {"<", ">"}) THEN RedirBy(c, gettoken(i)) ELSE Parsed(c, i)

RECURSIVE parseline(_), parsepipe(_), parseexec(_), parseback(_, _), parseargs(_, _, _)

\* Fault: a block's redirections are left to what comes after it.
BlockEndFault(r) == Parsed(r.cmd, gettoken(r.next).next)

\* ")" and the block's redirections.
BlockEnd(r) == parseredirs(r.cmd, gettoken(r.next).next)

Closed(r) == IF r.ok /\ peek(r.next, {")"}) THEN BlockEnd(r) ELSE Error
parseblock(i) == Closed(parseline(gettoken(i).next))

\* The exec command in ret, which is below its redirections, gets another
\* argument.
RECURSIVE AddArg(_, _)
AddArg(ret, w) ==
  IF ret[1] = "exec" THEN execcmd(Append(ret[2], w))
  ELSE redircmd(AddArg(ret[2], w), ret[3], ret[4])

\* The arguments after r, of which there are argc already; t is the next token.
ArgsFrom(r, argc) == IF r.ok THEN parseargs(r.cmd, argc, r.next) ELSE Error
Argument(ret, argc, t) ==
  IF t.tok # "a" \/ argc + 1 >= MAXARGS THEN Error
  ELSE ArgsFrom(parseredirs(AddArg(ret, <<t.q, t.eq>>), t.next), argc + 1)

\* The arguments end at one of these, or with the line.
parseargs(ret, argc, i) ==
  IF peek(i, {"|", ")", "&", ";", "0"}) THEN Parsed(ret, i)
  ELSE Argument(ret, argc, gettoken(i))

parseexec(i) ==
  IF peek(i, {"("}) THEN parseblock(i) ELSE ArgsFrom(parseredirs(execcmd(<<>>), i), 0)

PipeTo(l, r) == IF r.ok THEN Parsed(pipecmd(l.cmd, r.cmd), r.next) ELSE Error
PipeEnd(l) ==
  IF l.ok /\ peek(l.next, {"|"}) THEN PipeTo(l, parsepipe(gettoken(l.next).next)) ELSE l
parsepipe(i) == PipeEnd(parseexec(i))

parseback(c, i) ==
  IF peek(i, {"&"}) THEN parseback(backcmd(c), gettoken(i).next) ELSE Parsed(c, i)

ListWith(l, r) == IF r.ok THEN Parsed(listcmd(l.cmd, r.cmd), r.next) ELSE Error
LineEnd(l) ==
  IF peek(l.next, {";"}) THEN ListWith(l, parseline(gettoken(l.next).next)) ELSE l
Backed(l) == IF l.ok THEN LineEnd(parseback(l.cmd, l.next)) ELSE Error
parseline(i) == Backed(parsepipe(i))

\* Nothing may be left of the line.
parsecmd ==
  LET r == parseline(1) IN
  IF r.ok /\ Skip(r.next, {" "}) = es THEN r ELSE Error

-----------------------------------------------------------------------------
(* The line is typed *)

Init == s = <<>>
Type(c) == Len(s) < MaxLine /\ s' = Append(s, c)
Next == \E c \in Chars : Type(c)
Spec == Init /\ [][Next]_s

-----------------------------------------------------------------------------
(* The grammar *)

\* A token starts at a symbol or at the first character of a word; of a row of
\* ">", each odd one starts one, and takes the next with it.
Row(i) == CHOOSE j \in 0 .. i : (\A k \in (j + 1) .. i : s[k] = ">") /\ (j = 0 \/ s[j] # ">")
Starts == {i \in 1 .. Len(s) :
             CASE s[i] = " " -> FALSE
               [] s[i] = "a" -> i = 1 \/ s[i - 1] # "a"
               [] s[i] = ">" -> (i - Row(i)) % 2 = 1
               [] OTHER -> TRUE}

\* What is at a token's start, and where a word ends.
Kind(i) == IF s[i] = ">" /\ i + 1 \in (1 .. Len(s)) \ Starts /\ s[i + 1] = ">" THEN "+" ELSE s[i]
Word(i) == <<i, CHOOSE j \in (i + 1) .. es : /\ \A k \in i .. (j - 1) : s[k] = "a"
                                             /\ (j = es \/ s[j] # "a")>>

\* The tokens, in order, each with the word it may be.
Tokens ==
  LET at == SetToSortSeq(Starts, <) IN
  [n \in 1 .. Len(at) |-> [kind |-> Kind(at[n]),
                           word |-> IF s[at[n]] = "a" THEN Word(at[n]) ELSE <<>>]]

\* All the commands that tokens n to m of T stand for, from each rule of the
\* grammar and each way to split them: a line is pipelines with "&" after them
\* and ";" between, a pipeline is commands with "|" between, and a command is a
\* block with redirections, or words and redirections.
RECURSIVE Lines(_, _, _), Backs(_, _, _), Pipes(_, _, _), Blocks(_, _, _), Simple(_, _, _)

EndsInRedir(T, n, m) == m > n /\ T[m - 1].kind \in {"<", ">", "+"} /\ T[m].kind = "a"
WithRedir(T, c, n) == redircmd(c, T[n + 1].word, Mode(T[n].kind))

CommandsOf(T, n, m) == Blocks(T, n, m) \cup Simple(T, n, m)
Lines(T, n, m) ==
  Backs(T, n, m) \cup UNION {{listcmd(c, d) : c \in Backs(T, n, k - 1), d \in Lines(T, k + 1, m)} :
                            k \in {x \in n .. m : T[x].kind = ";"}}
Backs(T, n, m) ==
  Pipes(T, n, m) \cup {backcmd(c) : c \in IF n <= m /\ T[m].kind = "&" THEN Backs(T, n, m - 1) ELSE {}}
Pipes(T, n, m) ==
  CommandsOf(T, n, m) \cup UNION {{pipecmd(c, d) : c \in CommandsOf(T, n, k - 1), d \in Pipes(T, k + 1, m)} :
                               k \in {x \in n .. m : T[x].kind = "|"}}
Blocks(T, n, m) ==
  IF m - n < 1 THEN {}
  ELSE (IF T[n].kind = "(" /\ T[m].kind = ")" THEN Lines(T, n + 1, m - 1) ELSE {})
       \cup {WithRedir(T, c, m - 1) : c \in IF EndsInRedir(T, n, m) THEN Blocks(T, n, m - 2) ELSE {}}
Simple(T, n, m) ==
  IF m < n THEN {execcmd(<<>>)}
  ELSE {AddArg(c, T[m].word) : c \in IF T[m].kind = "a" THEN Simple(T, n, m - 1) ELSE {}}
       \cup {WithRedir(T, c, m - 1) : c \in IF EndsInRedir(T, n, m) THEN Simple(T, n, m - 2) ELSE {}}

\* The number of arguments of each simple command.
RECURSIVE Argcs(_)
Argcs(c) ==
  CASE c[1] = "exec" -> {Len(c[2])}
    [] c[1] \in {"redir", "back"} -> Argcs(c[2])
    [] OTHER -> Argcs(c[2]) \cup Argcs(c[3])

Meant ==
  LET T == Tokens IN {c \in Lines(T, 1, Len(T)) : \A n \in Argcs(c) : n < MAXARGS}

-----------------------------------------------------------------------------
(* Properties *)

\* The parser accepts the lines of the grammar, but for those with MAXARGS
\* arguments, and gives the one command the grammar gives them.
ParsesGrammar ==
  LET r == parsecmd IN Meant = IF r.ok THEN {r.cmd} ELSE {}
=============================================================================
