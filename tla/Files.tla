------------------------------- MODULE Files --------------------------------
(***************************************************************************)
(* Open files: the table ftable (file.c), the descriptors of the processes *)
(* that share them, and the calls open, dup, close, pipe, fork and exit    *)
(* (sysfile.c, pipe.c, proc.c), with every table running full.             *)
(*                                                                         *)
(* ftable.lock makes filealloc, filedup and the first part of fileclose    *)
(* one step each; a call takes a step for each of them, and other          *)
(* processes' calls come in between.  One inode stands for all.            *)
(***************************************************************************)
EXTENDS Integers, Sequences, FiniteSets, FiniteSetsExt

CONSTANTS
  Procs, First,          \* First is the process that is there at the start
  NFILE, NOFILE,
  PageCount              \* pages kalloc has for pipes

File == 1 .. NFILE
Fd == 1 .. NOFILE
Page == 1 .. PageCount

\* What the constants are assumed to be.
FileSizes == {NFILE, NOFILE, PageCount} \subseteq Nat \ {0} /\ First \in Procs

VARIABLES
  ref, file,             \* ftable: f->ref, and f's type, pipe and writable
  ofile,                 \* each process's descriptors
  pipe,                  \* a pipe page: in use, readopen, writeopen
  iref,                  \* references to the inode that files and calls hold
  pc,
  held,                  \* files a call holds a reference to, outside ofile
  fd,                    \* the descriptor a call works on
  np,                    \* fork's child
  ff,                    \* fileclose's copy of the file
  after,                 \* what follows a fileclose
  panicked

tableVars == <<ref, file>>
callVars == <<held, fd, np, ff, after>>
vars == <<tableVars, ofile, pipe, iref, pc, callVars, panicked>>

None == [type |-> "none", page |-> 0, writable |-> FALSE]
Inode == [None EXCEPT !.type = "inode"]
End(pg, wr) == [type |-> "pipe", page |-> pg, writable |-> wr]
Unused == [used |-> FALSE, readopen |-> FALSE, writeopen |-> FALSE]

Init ==
  /\ ref = [f \in File |-> 0] /\ file = [f \in File |-> None]
  /\ ofile = [p \in Procs |-> [d \in Fd |-> 0]]
  /\ pipe = [pg \in Page |-> Unused] /\ iref = 0
  /\ pc = [p \in Procs |-> IF p = First THEN "user" ELSE "dead"]
  /\ held = [p \in Procs |-> <<>>] /\ fd = [p \in Procs |-> 0]
  /\ np = [p \in Procs |-> First] /\ ff = [p \in Procs |-> None] /\ after = [p \in Procs |-> "user"]
  /\ panicked = FALSE

Runs(p, l) == ~panicked /\ pc[p] = l
Goto(p, l) == pc' = [pc EXCEPT ![p] = l]
FreeFiles == {f \in File : ref[f] = 0}
FreeFds(p) == {d \in Fd : ofile[p][d] = 0}

\* filealloc takes the first file that is free, and the call holds it.
FileAlloc(p) ==
  LET f == Min(FreeFiles) IN
  /\ ref' = [ref EXCEPT ![f] = 1] /\ held' = [held EXCEPT ![p] = Append(@, f)]
  /\ UNCHANGED file

\* Fault: the call closes nothing when it fails.
CloseHeldFault(p, next) == Goto(p, next) /\ UNCHANGED after

\* fileclose for each file held, and then the label next.
CloseHeld(p, next) == Goto(p, "close") /\ after' = [after EXCEPT ![p] = next]

-----------------------------------------------------------------------------
(* fileclose *)

\* Under ftable.lock: a reference less, and the last one frees the file.
CloseRef(p) ==
  LET f == Head(held[p]) IN
  /\ Runs(p, "close") /\ held[p] # <<>>
  /\ IF ref[f] < 1
     THEN panicked' = TRUE /\ UNCHANGED <<tableVars, pc, held, ff>>
     ELSE /\ ref' = [ref EXCEPT ![f] = @ - 1] /\ held' = [held EXCEPT ![p] = Tail(@)]
          /\ IF ref[f] > 1 THEN UNCHANGED <<file, pc, ff>>
             ELSE /\ ff' = [ff EXCEPT ![p] = file[f]] /\ file' = [file EXCEPT ![f] = None]
                  /\ Goto(p, "last")
          /\ UNCHANGED panicked
  /\ UNCHANGED <<ofile, pipe, iref, fd, np, after>>

\* pipeclose
PipeClose(e) ==
  LET q == IF e.writable THEN [pipe[e.page] EXCEPT !.writeopen = FALSE]
           ELSE [pipe[e.page] EXCEPT !.readopen = FALSE]
  IN IF q.readopen \/ q.writeopen THEN q ELSE Unused

\* Without the lock: pipeclose or iput.
CloseObject(p) ==
  /\ Runs(p, "last") /\ ff' = [ff EXCEPT ![p] = None] /\ Goto(p, "close")
  /\ pipe' = IF ff[p].type = "pipe" THEN [pipe EXCEPT ![ff[p].page] = PipeClose(ff[p])] ELSE pipe
  /\ iref' = IF ff[p].type = "inode" THEN iref - 1 ELSE iref
  /\ UNCHANGED <<tableVars, ofile, held, fd, np, after, panicked>>

CloseDone(p) ==
  /\ Runs(p, "close") /\ held[p] = <<>>
  /\ Goto(p, after[p]) /\ after' = [after EXCEPT ![p] = "user"]
  /\ UNCHANGED <<tableVars, ofile, pipe, iref, held, fd, np, ff, panicked>>

fileclose(p) == CloseRef(p) \/ CloseObject(p) \/ CloseDone(p)

sys_close(p, d) ==
  /\ Runs(p, "user") /\ ofile[p][d] # 0
  /\ held' = [held EXCEPT ![p] = <<ofile[p][d]>>]
  /\ ofile' = [ofile EXCEPT ![p][d] = 0] /\ CloseHeld(p, "user")
  /\ UNCHANGED <<tableVars, pipe, iref, fd, np, ff, panicked>>

-----------------------------------------------------------------------------
(* sys_open *)

\* create or namei: a reference to the inode.
OpenInode(p) ==
  /\ Runs(p, "user") /\ iref' = iref + 1 /\ Goto(p, "open")
  /\ UNCHANGED <<tableVars, ofile, pipe, callVars, panicked>>

OpenFile(p) ==
  /\ Runs(p, "open")
  /\ IF FreeFiles = {} THEN Goto(p, "openbad") /\ UNCHANGED <<tableVars, held>>
     ELSE FileAlloc(p) /\ Goto(p, "openfd")
  /\ UNCHANGED <<ofile, pipe, iref, fd, np, ff, after, panicked>>

\* fdalloc takes the reference over; without a descriptor the file is closed.
OpenFd(p) ==
  /\ Runs(p, "openfd")
  /\ IF FreeFds(p) = {} THEN CloseHeld(p, "openbad") /\ UNCHANGED <<ofile, held, fd>>
     ELSE /\ ofile' = [ofile EXCEPT ![p][Min(FreeFds(p))] = held[p][1]]
          /\ fd' = [fd EXCEPT ![p] = Min(FreeFds(p))]
          /\ held' = [held EXCEPT ![p] = <<>>] /\ Goto(p, "openset") /\ UNCHANGED after
  /\ UNCHANGED <<tableVars, pipe, iref, np, ff, panicked>>

\* After end_op: f->type, f->ip.
OpenSet(p) ==
  /\ Runs(p, "openset")
  /\ file' = [file EXCEPT ![ofile[p][fd[p]]] = Inode] /\ Goto(p, "user")
  /\ fd' = [fd EXCEPT ![p] = 0]
  /\ UNCHANGED <<ref, ofile, pipe, iref, held, np, ff, after, panicked>>

\* iunlockput(ip)
OpenBad(p) ==
  /\ Runs(p, "openbad") /\ iref' = iref - 1 /\ Goto(p, "user")
  /\ UNCHANGED <<tableVars, ofile, pipe, callVars, panicked>>

sys_open(p) == OpenInode(p) \/ OpenFile(p) \/ OpenFd(p) \/ OpenSet(p) \/ OpenBad(p)

-----------------------------------------------------------------------------
(* sys_dup *)

DupFd(p, d) ==
  /\ Runs(p, "user") /\ ofile[p][d] # 0 /\ FreeFds(p) # {}
  /\ ofile' = [ofile EXCEPT ![p][Min(FreeFds(p))] = ofile[p][d]]
  /\ fd' = [fd EXCEPT ![p] = Min(FreeFds(p))] /\ Goto(p, "dup")
  /\ UNCHANGED <<tableVars, pipe, iref, held, np, ff, after, panicked>>

\* filedup
FileDup(p) ==
  LET f == ofile[p][fd[p]] IN
  /\ Runs(p, "dup") /\ Goto(p, "user") /\ fd' = [fd EXCEPT ![p] = 0]
  /\ IF ref[f] < 1 THEN panicked' = TRUE /\ UNCHANGED ref
     ELSE ref' = [ref EXCEPT ![f] = @ + 1] /\ UNCHANGED panicked
  /\ UNCHANGED <<file, ofile, pipe, iref, held, np, ff, after>>

-----------------------------------------------------------------------------
(* sys_pipe *)

\* pipealloc: two files, the second call of filealloc after the first.
PipeFile(p) ==
  /\ Runs(p, "user") \/ (Runs(p, "pipe") /\ Len(held[p]) = 1)
  /\ IF FreeFiles = {} THEN CloseHeld(p, "user") /\ UNCHANGED <<tableVars, held>>
     ELSE FileAlloc(p) /\ Goto(p, "pipe") /\ UNCHANGED after
  /\ UNCHANGED <<ofile, pipe, iref, fd, np, ff, panicked>>

\* kalloc, and the two ends.
PipePage(p) ==
  LET free == {pg \in Page : ~pipe[pg].used}
      pg == Min(free)
  IN /\ Runs(p, "pipe") /\ Len(held[p]) = 2
     /\ IF free = {} THEN CloseHeld(p, "user") /\ UNCHANGED <<file, pipe>>
        ELSE /\ pipe' = [pipe EXCEPT ![pg] = [used |-> TRUE, readopen |-> TRUE, writeopen |-> TRUE]]
             /\ file' = [file EXCEPT ![held[p][1]] = End(pg, FALSE), ![held[p][2]] = End(pg, TRUE)]
             /\ Goto(p, "pipefd") /\ UNCHANGED after
     /\ UNCHANGED <<ref, ofile, iref, held, fd, np, ff, panicked>>

\* fdalloc for both; when there is one descriptor it is given back.
PipeFds(p) ==
  LET d0 == Min(FreeFds(p))
      d1 == Min(FreeFds(p) \ {d0})
  IN /\ Runs(p, "pipefd")
     /\ IF Cardinality(FreeFds(p)) < 2 THEN CloseHeld(p, "user") /\ UNCHANGED <<ofile, held>>
        ELSE /\ ofile' = [ofile EXCEPT ![p][d0] = held[p][1], ![p][d1] = held[p][2]]
             /\ held' = [held EXCEPT ![p] = <<>>] /\ Goto(p, "user") /\ UNCHANGED after
     /\ UNCHANGED <<tableVars, pipe, iref, fd, np, ff, panicked>>

sys_pipe(p) == PipeFile(p) \/ PipePage(p) \/ PipeFds(p)

-----------------------------------------------------------------------------
(* fork and exit *)

Fork(p, c) ==
  /\ Runs(p, "user") /\ pc[c] = "dead"
  /\ pc' = [pc EXCEPT ![p] = "fork", ![c] = "embryo"] /\ fd' = [fd EXCEPT ![p] = 1]
  /\ np' = [np EXCEPT ![p] = c]
  /\ UNCHANGED <<tableVars, ofile, pipe, iref, held, ff, after, panicked>>

ForkRef(f) == IF f = 0 THEN ref ELSE [ref EXCEPT ![f] = @ + 1]

\* np->ofile[i] = filedup(proc->ofile[i]), for each descriptor in turn.
ForkFile(p) ==
  LET c == np[p]
      d == fd[p]
      f == ofile[p][d]
  IN /\ Runs(p, "fork")
     /\ IF f # 0 /\ ref[f] < 1 THEN panicked' = TRUE /\ UNCHANGED <<ref, ofile, pc, fd>>
        ELSE /\ ref' = ForkRef(f) /\ ofile' = [ofile EXCEPT ![c][d] = f]
             /\ IF d < NOFILE THEN fd' = [fd EXCEPT ![p] = d + 1] /\ UNCHANGED pc
                ELSE /\ fd' = [fd EXCEPT ![p] = 0]
                     /\ pc' = [pc EXCEPT ![p] = "user", ![c] = "user"]
             /\ UNCHANGED panicked
     /\ UNCHANGED <<file, pipe, iref, held, np, ff, after>>

\* exit's loop over the descriptors.
Exit(p) ==
  LET open == {d \in Fd : ofile[p][d] # 0}
      d == Min(open)
  IN /\ (Runs(p, "user") /\ p # First) \/ Runs(p, "exit")
     /\ IF open = {} THEN Goto(p, "dead") /\ UNCHANGED <<held, fd, after>>
        ELSE /\ held' = [held EXCEPT ![p] = <<ofile[p][d]>>] /\ fd' = [fd EXCEPT ![p] = d]
             /\ CloseHeld(p, "exited")
     /\ UNCHANGED <<tableVars, ofile, pipe, iref, np, ff, panicked>>

ExitFd(p) ==
  /\ Runs(p, "exited") /\ Goto(p, "exit")
  /\ ofile' = [ofile EXCEPT ![p][fd[p]] = 0] /\ fd' = [fd EXCEPT ![p] = 0]
  /\ UNCHANGED <<tableVars, pipe, iref, held, np, ff, after, panicked>>

Next ==
  \E p \in Procs :
    \/ sys_open(p) \/ sys_pipe(p) \/ fileclose(p) \/ FileDup(p) \/ Exit(p) \/ ExitFd(p) \/ ForkFile(p)
    \/ \E d \in Fd : sys_close(p, d) \/ DupFd(p, d)
    \/ \E c \in Procs : Fork(p, c)

Spec == Init /\ [][Next]_vars

-----------------------------------------------------------------------------
(* Properties *)

TypeOK ==
  /\ ref \in [File -> Nat] /\ iref \in Nat
  /\ \A f \in File : file[f] \in {None, Inode} \cup {End(pg, wr) : pg \in Page, wr \in BOOLEAN}
  /\ ofile \in [Procs -> [Fd -> File \cup {0}]]
  /\ \A pg \in Page : pipe[pg] \in [used : BOOLEAN, readopen : BOOLEAN, writeopen : BOOLEAN]
  /\ \A p \in Procs : \A i \in DOMAIN held[p] : held[p][i] \in File

\* A descriptor whose reference is not counted yet (dup), or which the close
\* under way has taken over (exit).
Uncounted(p) == pc[p] \in {"dup", "exited"} \/ after[p] = "exited"

\* f->ref is the number of descriptors, of all processes, and of calls under
\* way that refer to f: also when a table was full in the middle of a call,
\* so no call that fails keeps a file or drops one that is in use.
RefsCounted ==
  \A f \in File :
    ref[f] = Cardinality({pd \in Procs \X Fd : ofile[pd[1]][pd[2]] = f})
             + Cardinality({pi \in Procs \X (1 .. 2) :
                              pi[2] <= Len(held[pi[1]]) /\ held[pi[1]][pi[2]] = f})
             - Cardinality({p \in Procs : Uncounted(p) /\ ofile[p][fd[p]] = f})

\* An end of a pipe is open exactly while there is a file for it, or the
\* fileclose of its last one is under way; a page with no end is free.
EndsHaveFiles ==
  \A pg \in Page :
    LET has(wr) == \/ \E f \in File : ref[f] > 0 /\ file[f] = End(pg, wr)
                   \/ \E p \in Procs : ff[p] = End(pg, wr)
    IN /\ pipe[pg].readopen = has(FALSE) /\ pipe[pg].writeopen = has(TRUE)
       /\ pipe[pg].used = (pipe[pg].readopen \/ pipe[pg].writeopen)

\* The inode has a reference for each file, and for each open or fileclose
\* under way.
InodeRefsCounted ==
  iref = Cardinality({f \in File : file[f] = Inode})
         + Cardinality({p \in Procs : \/ pc[p] \in {"open", "openfd", "openset", "openbad"}
                                      \/ after[p] = "openbad"
                                      \/ ff[p] = Inode})

\* No file is duplicated or closed after its last reference is gone.
NoFilePanic == ~panicked
=============================================================================
