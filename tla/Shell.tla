------------------------------- MODULE Shell --------------------------------
(***************************************************************************)
(* The shell (sh.c): main forks a process for a command line, and runcmd   *)
(* runs the parsed command in it, forking for the parts of pipelines,      *)
(* lists and background commands and wiring their descriptors.             *)
(*                                                                         *)
(* A command is a record as parsecmd builds it (ShellParse).  A process is *)
(* named by the place in the command tree where it starts; it moves down   *)
(* the tree as runcmd calls itself.  fork, wait, exit, pipe, dup, close    *)
(* and open do what Proc and Files say, in one step each; programs read to *)
(* the end of their input and write more than a pipe holds, or just write. *)
(***************************************************************************)
EXTENDS Integers, Sequences, FiniteSets, SequencesExt, FiniteSetsExt

CONSTANTS
  Commands,              \* command lines, parsed
  NOFILE,                \* open files per process
  Depth,                 \* of the command trees
  ForkFails              \* whether fork may fail

\* A place in a tree: which way to turn at each node.
Places == UNION {[1 .. n -> {1, 2}] : n \in 0 .. Depth}
SH == <<0>>              \* the shell, which is at no place of the tree
INITPROC == <<3>>        \* init
Processes == Places \cup {SH}

\* What a descriptor refers to: an end of the pipe made at a place, the file of
\* a redirection there, or the console.
End(k, at) == [k |-> k, at |-> at]
NoFile == End("none", <<>>)
Tty == End("tty", <<>>)
Fds == 0 .. NOFILE - 1

ShellSizes == NOFILE > 4 /\ ForkFails \in BOOLEAN

VARIABLES
  line,                  \* the command line
  st,                    \* each process: "none", "run", "zombie", "gone"
  parent, fd,
  pc, cmd, at            \* where it is in runcmd, on what, at which place

vars == <<line, st, parent, fd, pc, cmd, at>>

None == [t |-> "none"]

\* main has opened the console three times.
Init ==
  /\ line = None
  /\ st = [p \in Processes |-> IF p = SH THEN "run" ELSE "none"]
  /\ parent = [p \in Processes |-> INITPROC]
  /\ fd = [p \in Processes |-> [i \in Fds |-> IF p = SH /\ i < 3 THEN Tty ELSE NoFile]]
  /\ pc = [p \in Processes |-> IF p = SH THEN "fork" ELSE "none"]
  /\ cmd = [p \in Processes |-> None] /\ at = [p \in Processes |-> <<>>]

Running(p, l) == st[p] = "run" /\ pc[p] = l

-----------------------------------------------------------------------------
(* System calls *)

\* A child q of p, at place q, with p's files.
Fork(p, q, c) ==
  /\ st' = [st EXCEPT ![q] = "run"] /\ parent' = [parent EXCEPT ![q] = p]
  /\ fd' = [fd EXCEPT ![q] = fd[p]]
  /\ cmd' = [cmd EXCEPT ![q] = c] /\ at' = [at EXCEPT ![q] = q]

\* exit: files are closed; children go to init, which waits for them.
exit(p) ==
  LET orphans == {q \in Processes : parent[q] = p /\ st[q] \in {"run", "zombie"}} IN
  /\ st' = [q \in Processes |-> IF q = p THEN IF parent[p] = INITPROC THEN "gone" ELSE "zombie"
                            ELSE IF q \in orphans /\ st[q] = "zombie" THEN "gone" ELSE st[q]]
  /\ parent' = [q \in Processes |-> IF q \in orphans THEN INITPROC ELSE parent[q]]
  /\ fd' = [fd EXCEPT ![p] = [i \in Fds |-> NoFile]]
  /\ pc' = [pc EXCEPT ![p] = "none"] /\ cmd' = [cmd EXCEPT ![p] = None]
  /\ UNCHANGED <<line, at>>

\* wait: some child that has exited.
Wait(p) ==
  \E q \in Processes : /\ parent[q] = p /\ st[q] = "zombie"
                   /\ st' = [st EXCEPT ![q] = "gone"]

Lowest(f) == Min({i \in Fds : f[i] = NoFile})
Close(f, i) == [f EXCEPT ![i] = NoFile]
Open(f, e) == [f EXCEPT ![Lowest(f)] = e]

\* The descriptor pipe returned for an end; dup gives a lower one.
FdOf(f, e) == CHOOSE i \in Fds : f[i] = e /\ \A j \in Fds : j > i => f[j] # e

-----------------------------------------------------------------------------
(* runcmd *)

Goto(p, l) == pc' = [pc EXCEPT ![p] = l]

\* runcmd calls itself on a part of the command.
Down(p, c, turn) ==
  /\ cmd' = [cmd EXCEPT ![p] = c] /\ at' = [at EXCEPT ![p] = Append(@, turn)]

\* argv[0] is 0, or exec fails.
RunNothing(p) ==
  /\ Running(p, "runcmd") /\ cmd[p].t = "exec" /\ cmd[p].prog \in {"empty", "missing"}
  /\ exit(p)

RunExec(p) ==
  /\ Running(p, "runcmd") /\ cmd[p].t = "exec" /\ cmd[p].prog \in {"cat", "yes"}
  /\ Goto(p, "program") /\ UNCHANGED <<line, st, parent, fd, cmd, at>>

Redirected(f, i, e) == Open(Close(f, i), e)

RunRedir(p) ==
  /\ Running(p, "runcmd") /\ cmd[p].t = "redir"
  /\ fd' = [fd EXCEPT ![p] = Redirected(@, cmd[p].fd, End("file", at[p]))]
  /\ Down(p, cmd[p].cmd, 1) /\ UNCHANGED <<line, st, parent, pc>>

\* open fails.
RunRedirFails(p) == Running(p, "runcmd") /\ cmd[p].t = "redir" /\ exit(p)

\* fork1, then wait, then the right part in this process.
RunList(p) ==
  /\ Running(p, "runcmd") /\ cmd[p].t = "list"
  /\ Fork(p, Append(at[p], 1), cmd[p].left)
  /\ pc' = [pc EXCEPT ![Append(at[p], 1)] = "runcmd", ![p] = "listwait"]
  /\ UNCHANGED line

\* Fault: the right part does not wait for the left.
ListWaitsFault(p) == UNCHANGED st

ListWaits(p) == Wait(p)

RunListRight(p) ==
  /\ Running(p, "listwait") /\ ListWaits(p) /\ Goto(p, "runcmd") /\ Down(p, cmd[p].right, 2)
  /\ UNCHANGED <<line, parent, fd>>

\* pipe, which takes the two lowest descriptors.
RunPipe(p) ==
  /\ Running(p, "runcmd") /\ cmd[p].t = "pipe"
  /\ fd' = [fd EXCEPT ![p] = Open(Open(@, End("r", at[p])), End("w", at[p]))]
  /\ Goto(p, "fork1") /\ UNCHANGED <<line, st, parent, cmd, at>>

\* pipe fails: panic, which exits.
RunPipeFails(p) == Running(p, "runcmd") /\ cmd[p].t = "pipe" /\ exit(p)

RunPipeFork(p, turn) ==
  LET q == Append(at[p], turn) IN
  /\ Running(p, IF turn = 1 THEN "fork1" ELSE "fork2")
  /\ Fork(p, q, IF turn = 1 THEN cmd[p].left ELSE cmd[p].right)
  /\ pc' = [pc EXCEPT ![q] = "wire", ![p] = IF turn = 1 THEN "fork2" ELSE "closeboth"]
  /\ UNCHANGED line

\* close(p[0]); close(p[1])
ClosedBoth(f, n) == Close(Close(f, FdOf(f, End("r", n))), FdOf(f, End("w", n)))

\* The child: close(1); dup(p[1]), or close(0); dup(p[0]); then both ends.
Wired(p) ==
  LET n == Front(at[p])
      std == IF Last(at[p]) = 1 THEN 1 ELSE 0
      e == End(IF std = 1 THEN "w" ELSE "r", n)
  IN ClosedBoth(Open(Close(fd[p], std), e), n)

PipeWire(p) ==
  /\ Running(p, "wire") /\ fd' = [fd EXCEPT ![p] = Wired(p)] /\ Goto(p, "runcmd")
  /\ UNCHANGED <<line, st, parent, cmd, at>>

\* Fault: the parent keeps the pipe's read end.
ParentClosedFault(f, n) == Close(f, FdOf(f, End("w", n)))

ParentClosed(f, n) == ClosedBoth(f, n)

RunPipeClose(p) ==
  /\ Running(p, "closeboth") /\ fd' = [fd EXCEPT ![p] = ParentClosed(@, at[p])] /\ Goto(p, "wait1")
  /\ UNCHANGED <<line, st, parent, cmd, at>>

RunPipeWait(p) ==
  /\ Running(p, "wait1") /\ Wait(p) /\ Goto(p, "wait2") /\ UNCHANGED <<line, parent, fd, cmd, at>>

RunPipeWaitMore(p) ==
  /\ Running(p, "wait2") /\ Wait(p) /\ Goto(p, "exit") /\ UNCHANGED <<line, parent, fd, cmd, at>>

\* fork1 and exit: the child is left to init.
RunBack(p) ==
  /\ Running(p, "runcmd") /\ cmd[p].t = "back"
  /\ Fork(p, Append(at[p], 1), cmd[p].cmd)
  /\ pc' = [pc EXCEPT ![Append(at[p], 1)] = "runcmd", ![p] = "exit"]
  /\ UNCHANGED line

RunExit(p) == Running(p, "exit") /\ exit(p)

\* fork1 panics: the process exits, whatever it has begun; in main, the shell
\* itself.
ForkPanics(p) ==
  /\ ForkFails /\ st[p] = "run"
  /\ \/ pc[p] \in {"fork", "fork1", "fork2"}
     \/ pc[p] = "runcmd" /\ cmd[p].t \in {"list", "back"}
  /\ exit(p)

-----------------------------------------------------------------------------
(* Programs, and main *)

Holders(e) == {p \in Processes : \E i \in Fds : fd[p][i] = e}

\* read returns 0: the console's or the file's end, or no writer is left.
AtEof(e) == e.k = "r" => Holders(End("w", e.at)) = {}

\* Writes end: what was written fits or is read, or nobody can read it.
Drains(e) ==
  e.k = "w" => \/ Holders(End("r", e.at)) = {}
               \/ \E p \in Processes : /\ Running(p, "program") /\ cmd[p].prog = "cat"
                                   /\ fd[p][0] = End("r", e.at)

\* cat reads to the end; yes only writes.
ProgramExits(p) ==
  /\ Running(p, "program") /\ (cmd[p].prog = "cat" => AtEof(fd[p][0])) /\ Drains(fd[p][1])
  /\ exit(p)

\* getcmd, and fork1 for the command.
MainFork ==
  /\ Running(SH, "fork") /\ line' \in Commands /\ Fork(SH, <<>>, line')
  /\ pc' = [pc EXCEPT ![<<>>] = "runcmd", ![SH] = "wait"]

MainWait ==
  /\ Running(SH, "wait") /\ Wait(SH) /\ Goto(SH, "prompt") /\ UNCHANGED <<line, parent, fd, cmd, at>>

runcmd(p) ==
  \/ RunNothing(p) \/ RunExec(p) \/ RunRedir(p) \/ RunRedirFails(p) \/ RunList(p)
  \/ RunListRight(p) \/ RunPipe(p) \/ RunPipeFails(p) \/ RunPipeFork(p, 1)
  \/ RunPipeFork(p, 2) \/ PipeWire(p)
  \/ RunPipeClose(p) \/ RunPipeWait(p) \/ RunPipeWaitMore(p) \/ RunBack(p) \/ RunExit(p)
  \/ ForkPanics(p)

Next ==
  \/ MainFork \/ ForkPanics(SH) \/ MainWait
  \/ \E p \in Places : runcmd(p) \/ ProgramExits(p)

Spec == Init /\ [][Next]_vars

-----------------------------------------------------------------------------
(* What a command line means *)

\* The simple commands of c at place n, each with its input and output, which
\* are in and out unless c says otherwise, and whether it runs in background.
RECURSIVE Wiring(_, _, _, _, _)
Wiring(c, n, in, out, bg) ==
  LET L == Append(n, 1)
      R == Append(n, 2)
  IN CASE c.t = "exec" -> {[at |-> n, in |-> in, out |-> out, bg |-> bg]}
       [] c.t = "redir" -> IF c.fd = 0 THEN Wiring(c.cmd, L, End("file", n), out, bg)
                           ELSE Wiring(c.cmd, L, in, End("file", n), bg)
       [] c.t = "list" -> Wiring(c.left, L, in, out, bg) \cup Wiring(c.right, R, in, out, bg)
       [] c.t = "pipe" -> Wiring(c.left, L, in, End("w", n), bg)
                          \cup Wiring(c.right, R, End("r", n), out, bg)
       [] c.t = "back" -> Wiring(c.cmd, L, in, out, TRUE)

Wires == Wiring(line, <<>>, Tty, Tty, FALSE)

\* The pairs of places of a list's parts: the first must end before the
\* second begins.
RECURSIVE Ordered(_, _)
Ordered(c, n) ==
  LET L == Append(n, 1)
      R == Append(n, 2)
  IN CASE c.t = "exec" -> {}
       [] c.t \in {"redir", "back"} -> Ordered(c.cmd, L)
       [] c.t = "pipe" -> Ordered(c.left, L) \cup Ordered(c.right, R)
       [] c.t = "list" -> {<<L, R>>} \cup Ordered(c.left, L) \cup Ordered(c.right, R)

Under(n, m) == Len(m) <= Len(n) /\ SubSeq(n, 1, Len(m)) = m

-----------------------------------------------------------------------------
(* Properties *)

Programs == {p \in Places : Running(p, "program")}

\* A program runs with the input and output the command line says, through
\* redirections, pipelines in pipelines and lists in them, and with no other
\* end of any pipe.
WiredAsWritten ==
  \A p \in Programs :
    \E w \in Wires :
      /\ w.at = at[p] /\ fd[p][0] = w.in /\ fd[p][1] = w.out /\ fd[p][2] = Tty
      /\ \A i \in Fds : i > 2 => fd[p][i].k \in {"none", "file"}

\* What follows a ";" begins when everything before it, but what runs in the
\* background, has ended; so does the next prompt.
InSequence ==
  \A p \in Programs :
    \/ \E w \in Wires : w.at = at[p] /\ w.bg
    \/ /\ pc[SH] # "prompt"
       /\ \A o \in Ordered(line, <<>>) :
            Under(at[p], o[1]) => \A q \in Processes : st[q] # "none" => ~Under(at[q], o[2])

\* The line has ended: the prompt is back, or the shell has exited because its own
\* fork failed, and no process of the command is left.
LineEnded == (pc[SH] = "prompt" \/ st[SH] = "gone") /\ \A p \in Places : st[p] # "run"
=============================================================================
