----------------------------- MODULE MCPrograms -----------------------------
(***************************************************************************)
(* Programs, for TLC: the shell, which reads a line, parses it and runs    *)
(* it, the pipes of its pipelines, grep and wc, the allocator of programs, *)
(* and mkfs, which runs on the host.  They share no variable: each         *)
(* behaviour is one of a component, and the others stay as they start.     *)
(***************************************************************************)
EXTENDS Pipe, SequencesExt

CONSTANTS Commands, Tasks, Texts, Inputs

VARIABLES
  part,               \* the component this behaviour is of
  line, st, parent, fd, spc, cmd, at,
  s,
  buf, n, rpc, path, typed,
  task, pos, gbuf, gout, dropped, l, w, c, inword, gpc,
  files, disk, freeinode, freeblock, mpc, i, done,
  ptr, size, freep, brk, used, upc, nunits, up, prevp, bp

\* A write of more than the ring holds, the bytes told apart.
MCRequests == {<<1, 2, 3>>}

-----------------------------------------------------------------------------
(* Command lines of two levels, and pipelines and lists of those. *)

Exec(x) == [t |-> "exec", prog |-> x]
Redir(x, k) == [t |-> "redir", cmd |-> x, fd |-> k]
Two(t, x, y) == [t |-> t, left |-> x, right |-> y]
Back(x) == [t |-> "back", cmd |-> x]

Simple == {Exec("cat"), Exec("yes")}
Bad == {Exec("empty"), Exec("missing")}
Small == Simple \cup {Two(t, Exec("yes"), Exec("cat")) : t \in {"pipe", "list"}}
         \cup {Redir(Exec("cat"), k) : k \in {0, 1}} \cup {Back(Exec("yes"))}
MCCommands ==
  Small \cup {Two(t, x, y) : t \in {"pipe", "list"}, x \in Small, y \in Small \cup Bad}
  \cup {Two("pipe", Exec("yes"), Two("pipe", x, Exec("cat"))) : x \in Small}
  \cup {Redir(x, k) : x \in Small, k \in {0, 1}} \cup {Back(x) : x \in Small}

\* The shell when no fork fails, and when forks may.
S == INSTANCE Shell WITH NOFILE <- 8, Depth <- 3, ForkFails <- FALSE, pc <- spc
F == INSTANCE Shell WITH NOFILE <- 8, Depth <- 3, ForkFails <- TRUE, pc <- spc

P == INSTANCE ShellParse WITH MaxLine <- 5, MAXARGS <- 3

\* A directory with an entry that is not in use and names that begin alike.
Ent(inum, name) == [inum |-> inum, name |-> name, stat |-> name # <<"d">>]
MCDir == <<Ent(1, <<"d">>), Ent(0, <<"c", "c">>), Ent(2, <<"c", "d">>), Ent(3, <<"d", "c">>),
           Ent(4, <<"d", "d">>)>>
R == INSTANCE ReadLine WITH nbuf <- 7, DIRSIZ <- 2, Dir <- MCDir, MaxKeys <- 6, pc <- rpc

\* Patterns, streams for grep and streams for wc.
Task(prog, pattern, text, pipe) ==
  [prog |-> prog, pattern |-> pattern, text |-> text, pipe |-> pipe]
MCTasks ==
  {Task("grep", x, <<>>, FALSE) : x \in BoundedSeq({"a", ".", "*", "^", "$"}, 4)}
  \cup {Task("grep", <<"a">>, x, k) : x \in BoundedSeq({"a", "b", "nl"}, 6), k \in BOOLEAN}
  \cup {Task("wc", <<>>, x, TRUE) : x \in BoundedSeq({"a", " ", "nl"}, 5)}
MCTexts == BoundedSeq({"a", "b"}, 3)
G == INSTANCE Filters WITH BUFSIZE <- 4, buf <- gbuf, out <- gout, pc <- gpc

\* Lengths of files: direct and indirect blocks, full and not, and one too long.
MCInputs == {<<x, y>> : x, y \in 0 .. 7} \cup {<<x>> : x \in 0 .. 9} \cup {<<1, 1, 1>>}
M == INSTANCE Mkfs WITH
  BSIZE <- 2, NDIRECT <- 2, NINDIRECT <- 2, IPB <- 2, NINODES <- 5, BPB <- 30, FSSIZE <- 24,
  nlog <- 1, nbitmap <- 1, pc <- mpc

U == INSTANCE Umalloc WITH Units <- 8, NALLOC <- 3, Sizes <- {1, 2, 4}, pc <- upc, p <- up

ASSUME S!ShellSizes /\ F!ShellSizes
ASSUME R!ReadLineSizes
ASSUME G!FilterSizes
ASSUME M!MkfsSizes
ASSUME U!UmallocSizes

-----------------------------------------------------------------------------

svars == <<line, st, parent, fd, spc, cmd, at>>
rvars == <<buf, n, rpc, path, typed>>
gvars == <<task, pos, gbuf, gout, dropped, l, w, c, inword, gpc>>
mvars == <<files, disk, freeinode, freeblock, mpc, i, done>>
uvars == <<ptr, size, freep, brk, used, upc, nunits, up, prevp, bp>>
all == <<part, vars, svars, s, rvars, gvars, mvars, uvars>>

OfPipe(A) == part = "pipe" /\ A /\ UNCHANGED <<part, svars, s, rvars, gvars, mvars, uvars>>
OfShell(A) == A /\ UNCHANGED <<part, vars, s, rvars, gvars, mvars, uvars>>

MCInit ==
  /\ part \in {"pipe", "shell", "forks", "parse", "readline", "filter", "mkfs", "malloc"}
  /\ Init /\ S!Init /\ P!Init /\ R!Init /\ G!Init /\ M!Init /\ U!Init
MCNext ==
  \/ OfPipe(Next)
  \/ part = "shell" /\ OfShell(S!Next)
  \/ part = "forks" /\ OfShell(F!Next)
  \/ part = "parse" /\ P!Next /\ UNCHANGED <<part, vars, svars, rvars, gvars, mvars, uvars>>
  \/ part = "readline" /\ R!Next /\ UNCHANGED <<part, vars, svars, s, gvars, mvars, uvars>>
  \/ part = "filter" /\ G!Next /\ UNCHANGED <<part, vars, svars, s, rvars, mvars, uvars>>
  \/ part = "mkfs" /\ M!Next /\ UNCHANGED <<part, vars, svars, s, rvars, gvars, uvars>>
  \/ part = "malloc" /\ U!Next /\ UNCHANGED <<part, vars, svars, s, rvars, gvars, mvars>>

\* Some process of the shell's that can take a step does; none can step for ever.
\* Pipe: a process in the kernel that can go on does so, and one that spins for
\* the lock gets it if it is released again and again: acquire's xchg competes
\* with others that leave the lock for whole system calls.
Fairness ==
  /\ WF_all(part \in {"shell", "forks"} /\ OfShell(F!Next))
  /\ \A q \in Procs : WF_all(OfPipe(InKernel(q))) /\ SF_all(OfPipe(WriteLock(q)))

MCSpec == MCInit /\ [][MCNext]_all /\ Fairness

\* A program has the input and output its command line says, and what follows a
\* ";" comes after it; if a fork fails, a part of a pipeline may be left running
\* behind (sh.c:78-153).
ShellRuns ==
  /\ part \in {"shell", "forks"} => F!WiredAsWritten
  /\ part = "shell" => S!InSequence

\* No process waits for an end of a pipe that is closed, and the shell's leave
\* none open.  When the last writer of a pipe is gone every reader returns, and
\* when the last reader is gone every writer does (pipe.c:59-122; of First: once
\* it has forked, nothing tells it and its child apart).  A command line ends
\* whatever of it fails, with no process left behind, and the prompt comes back,
\* unless it is main's own fork that fails: then the shell exits (sh.c:78-153,
\* 316-347).
PipesRelease ==
  \/ part = "pipe" /\ WaitsForClosed(First)
  \/ part \in {"shell", "forks"}
  ~>
  \/ part = "pipe" /\ ~Reading(First) /\ ~Writing(First)
  \/ part \in {"shell", "forks"} /\ F!LineEnded

\* The parser gives the command of the grammar (sh.c:419-603).
ParsesGrammar == part = "parse" => P!ParsesGrammar

\* The line is what was typed, completed and erased, and cd gets the rest of it
\* (sh.c:156-295, 316-327).
LineRight == part = "readline" => R!LineAsTyped /\ R!CdArgument

\* grep's matcher finds what the pattern means, grep prints the lines that match
\* and drops nothing of a file whose lines fit its buffer, and wc counts lines,
\* words and bytes, however read cuts them (grep.c:10-106, wc.c:7-33).
FiltersRight ==
  part = "filter" =>
    G!MatchesPattern /\ G!GrepPrintsLines /\ G!FileNotDropped /\ G!WcCounts

\* The image holds the files and a root directory that names them, and its bitmap
\* covers every block in use (mkfs.c:67-168, 237-251).
ImageRight == part = "mkfs" => M!ImageHoldsFiles /\ M!ImageBitmap

\* Blocks of the heap neither overlap nor get lost, and the free list is in order
\* of address, its neighbours joined (umalloc.c:24-90).
HeapRight == part = "malloc" => U!HeapTiled /\ U!ListOrdered
=============================================================================
